------------------------ MODULE HotUpdateRestoreProofs ------------------------
(***************************************************************************)
(* Theorems about what HotUpdate delivers, restores and records, for every *)
(* value of its constants.  Two of them hold only of behaviours in which a *)
(* pod's requests do not overlap (Serialized), one only of behaviours in   *)
(* which Start is not overtaken by a late update of its own pod (Timely);  *)
(* without these hypotheses TLC refutes them.                              *)
(***************************************************************************)
EXTENDS HotUpdateProofs

-----------------------------------------------------------------------------
(* THE INDUCTIVE INVARIANTS                                                *)

\* Where a goroutine is while it works on an update, or has just done so.
Busy == PCs \ {"start", "serving", "stopped", "idle"}

\* Of the goroutines of a pod, only t works on an update.
Alone(p, t) ==
  pc[p][t] \in Busy => \A s \in Threads \ {t} : pc[p][s] \notin Busy

Loading  == {"load", "report", "store", "patch", "pair", "get", "put", "listen"}
Reported == Loading \ {"load"}

\* How far a goroutine has brought the file of the url in h.result.
Delivers(p, t) ==
  LET u == result[p].Url
      f == FileOf[u]
  IN /\ pc[p][t] \in {"fetch", "save"} => frame[p][t].path = f
     /\ pc[p][t] = "save" => frame[p][t].body \in {u, ErrorPage}
     /\ pc[p][t] \in Loading /\ u # OriginUrl => files[p][f] \in {u, ErrorPage}
     /\ pc[p][t] \in Reported /\ u # OriginUrl /\ LoadPatchType[p] = "signal" =>
          loaded[p][f] = files[p][f]

\* None of the pod's records exceeds the one that Start restores, and what
\* Start is going to record is the one it restores.
Restores(p) ==
  /\ pc[p][Start] \in Busy =>
       \A v \in Versions :
         cm.data[p][v] # None => Rank[v] <= RankOf(result[p].Version)
  /\ pc[p][Start] \in {"get", "put"} => put[p][Start].version = result[p].Version

Requested(v, u) == v \in Versions => <<v, u>> \in asked

\* Whatever pair a goroutine holds on its way from the request, or from the
\* records, to the ConfigMap has been requested.  At "url" the old url is
\* still in h.result.
Carries(p, t) ==
  /\ pc[p][t] = "url" =>
       /\ result[p].Version = frame[p][t].version
       /\ frame[p][t].url # None => Requested(frame[p][t].version, frame[p][t].url)
  /\ pc[p][t] \in {"path"} \cup Downloading \cup {"pair"} =>
       Requested(result[p].Version, result[p].Url)
  /\ pc[p][t] \in {"get", "put"} => Requested(put[p][t].version, put[p][t].url)

WireRequested == \A m \in wire : Requested(m[2].version, m[2].url)

StartIsAlone == \A p \in Pods : Alone(p, Start)
AllAlone     == \A p \in Pods, t \in Threads : Alone(p, t)

StartDelivers == \A p \in Pods : Delivers(p, Start)
AllDeliver    == \A p \in Pods, t \in Threads : Delivers(p, t)
AllRestore    == \A p \in Pods : Restores(p)
AllCarry ==
  /\ PairIntegrity
  /\ WireRequested
  /\ \A p \in Pods, t \in Threads : Carries(p, t)

-----------------------------------------------------------------------------
(* WHO CAN INTERFERE                                                       *)

\* What a goroutine works with, but the ConfigMap, stays as it is.
Undisturbed(p, t) ==
  /\ pc'[p][t] = pc[p][t]
  /\ result'[p].Version = result[p].Version /\ result'[p].Url = result[p].Url
  /\ frame'[p][t] = frame[p][t] /\ put'[p][t] = put[p][t]
  /\ files'[p] = files[p] /\ loaded'[p] = loaded[p]

LEMMA ThreadsFacts ==
  Start \in Threads /\ Handlers \subseteq Threads /\ Start \notin Handlers
  BY NamesAssumption DEF Threads

\* While Start works, no handler does; and requests one after the other have
\* the pod for themselves.
LEMMA StartAlone ==
  ASSUME IndInv, NEW p \in Pods
  PROVE  Alone(p, Start)
  BY ThreadsFacts DEF IndInv, FlowInv, Places, Alone, Threads, Busy

LEMMA SerializedAlone ==
  ASSUME IndInv, Serialized, NEW p \in Pods, NEW t \in Threads
  PROVE  Alone(p, t)
<1>1. CASE t = Start
  BY <1>1, StartAlone
<1>2. CASE t \in Handlers
  BY <1>2, ThreadsFacts DEF IndInv, FlowInv, Places, Serialized, Alone, Threads, Busy
<1> QED
  BY <1>1, <1>2 DEF Threads

\* The places at which the steps of a goroutine begin.
LEMMA StepsBusy ==
  ASSUME NEW p \in Pods, NEW t \in Threads, Step(p, t) \/ ThreadFault(p, t)
  PROVE  pc[p][t] \in Busy \cup {"start"}
  BY DEF Step, SetUrl, PrepareFile, FetchFile, SaveFile, LoadBySignal,
         LoadByRequest, ReportSuccess, ReadResult, PatchPod, ReadPair,
         GetConfigmap, UpdateConfigmap, UpdateConflict, ThreadFault, FetchErrorPage,
         SaveFails, LoadFails, CallFails, UpdateReplyLost, CrashDuringUpdate, Delay,
         Fallible, Busy, PCs

\* A restart leaves the pod's goroutines at rest and other pods alone.
LEMMA RestartRests ==
  ASSUME IndInv, NEW q \in Pods, RestartProcess(q)
  PROVE  /\ \A t \in Threads : pc'[q][t] \notin Busy
         /\ \A p \in Pods \ {q} : /\ pc'[p] = pc[p] /\ result'[p] = result[p]
                                  /\ frame'[p] = frame[p] /\ put'[p] = put[p]
  BY DEF IndInv, TypeOK, RestartProcess, NewProcess, Busy, PCs

\* The steps of a pod do not reach into another pod, but through the ConfigMap.
LEMMA OtherPods ==
  ASSUME IndInv, NEW p \in Pods, NEW q \in Pods, p # q, NEW t \in Threads,
         \/ StartStep(q) \/ Crash(q) \/ Recreate(q)
         \/ \E s \in Threads : Step(q, s) \/ ThreadFault(q, s)
         \/ \E h \in Handlers, r \in Requests : Request(q, h, r)
  PROVE  Undisturbed(p, t)
<1> USE DEF IndInv, TypeOK
<1>1. CASE StartStep(q)
  <2>1. Exit(q) => Undisturbed(p, t)
    BY RestartRests DEF Exit, Undisturbed, outside
  <2>2. Listen(q) => Undisturbed(p, t)
    BY DEF Listen, Goto, Undisturbed, outside
  <2>3. SetHotUpdateConfig(q) => Undisturbed(p, t)
    BY DEF SetHotUpdateConfig, Goto, Undisturbed, outside
  <2> QED
    BY <1>1, <2>1, <2>2, <2>3 DEF StartStep
<1>2. CASE Crash(q)
  BY <1>2, RestartRests DEF Crash, Undisturbed, outside
<1>3. CASE Recreate(q)
  BY <1>3, RestartRests DEF Recreate, Undisturbed
<1>4. ASSUME NEW s \in Threads, Step(q, s)
      PROVE  Undisturbed(p, t)
  <2>1. SetUrl(q, s) \/ PrepareFile(q, s) => Undisturbed(p, t)
    BY DEF SetUrl, PrepareFile, Abort, Return, Goto, Undisturbed, outside
  <2>2. FetchFile(q, s) \/ SaveFile(q, s) \/ LoadBySignal(q, s) \/ LoadByRequest(q, s)
          => Undisturbed(p, t)
    BY DEF FetchFile, SaveFile, LoadBySignal, LoadByRequest, Goto, Undisturbed, outside
  <2>3. ReportSuccess(q, s) \/ ReadResult(q, s) \/ PatchPod(q, s) \/ ReadPair(q, s)
          \/ GetConfigmap(q, s) => Undisturbed(p, t)
    BY DEF ReportSuccess, ReadResult, PatchPod, ReadPair, GetConfigmap, Goto,
           Undisturbed, outside
  <2>4. UpdateConfigmap(q, s) \/ UpdateConflict(q, s) => Undisturbed(p, t)
    BY DEF UpdateConfigmap, UpdateConflict, Finish, Abort, Return, Goto, Undisturbed,
           outside
  <2> QED
    BY <1>4, <2>1, <2>2, <2>3, <2>4 DEF Step
<1>5. ASSUME NEW s \in Threads, ThreadFault(q, s)
      PROVE  Undisturbed(p, t)
  <2>1. CrashDuringUpdate(q, s) => Undisturbed(p, t)
    BY RestartRests DEF CrashDuringUpdate, Undisturbed, outside
  <2>2. FetchErrorPage(q, s) \/ SaveFails(q, s) \/ LoadFails(q, s) => Undisturbed(p, t)
    BY DEF FetchErrorPage, SaveFails, LoadFails, Abort, Return, Goto, Undisturbed, outside
  <2>3. CallFails(q, s) \/ UpdateReplyLost(q, s) => Undisturbed(p, t)
    BY DEF CallFails, UpdateReplyLost, Abort, Return, Goto, Undisturbed, outside
  <2> QED
    BY <1>5, <2>1, <2>2, <2>3 DEF ThreadFault
<1>6. ASSUME NEW h \in Handlers, NEW r \in Requests, Request(q, h, r)
      PROVE  Undisturbed(p, t)
  BY <1>6 DEF Request, RejectRequest, ReceiveRequest, Goto, Undisturbed, vars, outside
<1> QED
  BY <1>1, <1>2, <1>3, <1>4, <1>5, <1>6

\* What happens to a goroutine that is, and stays, alone at work in its pod.
LEMMA Interference ==
  ASSUME IndInv, [Next]_vars, NEW p \in Pods, NEW t \in Threads,
         Alone(p, t), Alone(p, t)'
  PROVE  \/ Undisturbed(p, t)
         \/ pc'[p][t] \notin Busy
         \/ t = Start /\ SetHotUpdateConfig(p)
         \/ Step(p, t) \/ ThreadFault(p, t)
         \/ t \in Handlers /\ \E r \in Requests : ReceiveRequest(p, t, r)
<1> USE ThreadsFacts
<1> DEFINE Goal == \/ Undisturbed(p, t)
                   \/ pc'[p][t] \notin Busy
                   \/ t = Start /\ SetHotUpdateConfig(p)
                   \/ Step(p, t) \/ ThreadFault(p, t)
                   \/ t \in Handlers /\ \E r \in Requests : ReceiveRequest(p, t, r)
<1>t. pc \in [Pods -> [Threads -> PCs]]
  BY DEF IndInv, TypeOK
<1>0. CASE UNCHANGED vars
  BY <1>0 DEF vars, Undisturbed
<1>1. ASSUME NEW q \in Pods, q # p,
             \/ StartStep(q) \/ Crash(q) \/ Recreate(q)
             \/ \E s \in Threads : Step(q, s) \/ ThreadFault(q, s)
             \/ \E h \in Handlers, r \in Requests : Request(q, h, r)
      PROVE  Goal
  BY <1>1, OtherPods
<1>2. CASE StartStep(p)
  <2>1. CASE Exit(p)
    BY <2>1, RestartRests DEF Exit
  <2>2. CASE SetHotUpdateConfig(p) /\ t # Start
    <3>1. pc[p][t] = "idle" /\ pc'[p][t] = pc[p][t]
      BY <1>t, <2>2 DEF SetHotUpdateConfig, Goto, IndInv, FlowInv, Places, Threads
    <3> QED
      BY <3>1 DEF Busy
  <2>3. CASE Listen(p)
    <3>1. CASE t = Start
      BY <1>t, <2>3, <3>1 DEF Listen, Goto, Busy
    <3>2. CASE t # Start
      BY <1>t, <2>3, <3>2 DEF Listen, Goto, IndInv, FlowInv, Places, Threads, Busy
    <3> QED
      BY <3>1, <3>2
  <2> QED
    BY <1>2, <2>1, <2>2, <2>3 DEF StartStep
<1>3. CASE Crash(p) \/ Recreate(p)
  BY <1>3, RestartRests DEF Crash, Recreate
<1>4. ASSUME NEW s \in Threads, s # t, Step(p, s) \/ ThreadFault(p, s)
      PROVE  pc'[p][t] \notin Busy
  <2>1. pc[p][s] \in Busy \cup {"start"}
    BY <1>4, StepsBusy
  <2>2. pc[p][t] \notin Busy
    <3>1. CASE pc[p][s] \in Busy
      BY <1>4, <3>1 DEF Alone
    <3>2. CASE pc[p][s] = "start"
      BY <3>2, <1>4 DEF IndInv, FlowInv, Places, Threads, HandlerPCs, Busy
    <3> QED
      BY <2>1, <3>1, <3>2
  <2>3. pc'[p][t] = pc[p][t] \/ pc'[p][t] \notin Busy
    <3>1. CASE CrashDuringUpdate(p, s)
      BY <3>1, RestartRests DEF CrashDuringUpdate
    <3>2. CASE ~CrashDuringUpdate(p, s)
      <4>1. PICK l \in PCs : Goto(p, s, l)
        BY <1>4, <3>2
           DEF Step, SetUrl, PrepareFile, FetchFile, SaveFile, LoadBySignal,
               LoadByRequest, ReportSuccess, ReadResult, PatchPod, ReadPair,
               GetConfigmap, UpdateConfigmap, UpdateConflict, ThreadFault,
               FetchErrorPage, SaveFails, LoadFails, CallFails, UpdateReplyLost,
               Finish, Abort, Return, PCs
      <4> QED
        BY <1>t, <1>4, <4>1 DEF Goto
    <3> QED
      BY <3>1, <3>2
  <2> QED
    BY <2>2, <2>3
<1>5. ASSUME NEW h \in Handlers, NEW r \in Requests, Request(p, h, r)
      PROVE  Goal
  <2>1. CASE RejectRequest(p, h, r)
    BY <2>1 DEF RejectRequest, vars, Undisturbed
  <2>2. CASE ReceiveRequest(p, h, r) /\ h = t
    BY <2>2
  <2>3. CASE ReceiveRequest(p, h, r) /\ h # t
    <3>1. pc'[p][h] \in Busy
      BY <1>t, <2>3 DEF ReceiveRequest, Goto, Busy, PCs
    <3> QED
      BY <2>3, <3>1 DEF Alone
  <2> QED
    BY <1>5, <2>1, <2>2, <2>3 DEF Request
<1>6. ASSUME NEW m \in wire, DeliverLate(m)
      PROVE  Undisturbed(p, t)
  BY <1>6 DEF DeliverLate, local, outside, Undisturbed
<1>7. CASE Next
  BY <1>1, <1>2, <1>3, <1>4, <1>5, <1>6, <1>7 DEF Next
<1> QED
  BY <1>0, <1>7

-----------------------------------------------------------------------------
(* WHAT IS LOADED WHEN SUCCESS IS REPORTED                                 *)

\* From the download on, h.result holds the url of a file.
LEMMA UrlKnown ==
  ASSUME IndInv, NEW p \in Pods, NEW t \in Threads, pc[p][t] \in Downloading
  PROVE  result[p].Url \in Urls /\ FileOf[result[p].Url] \in Files
  BY DEF IndInv, FlowInv, HandlerKnows, StartKnows, Downloading, Threads, Files

LEMMA GotoPlace ==
  ASSUME IndInv, NEW p \in Pods, NEW t \in Threads, NEW l \in PCs, Goto(p, t, l)
  PROVE  pc'[p][t] = l
  BY DEF IndInv, TypeOK, Goto

\* A goroutine that ends with an error has nothing more to deliver.
LEMMA AbortRests ==
  ASSUME IndInv, NEW p \in Pods, NEW t \in Threads, Abort(p, t)
  PROVE  pc'[p][t] \notin Busy
<1>1. "idle" \in PCs /\ "stopped" \in PCs
  BY DEF PCs
<1>2. pc'[p][t] \in {"idle", "stopped"}
  BY <1>1, GotoPlace DEF Abort, Return
<1> QED
  BY <1>2 DEF Busy

LEMMA RestDelivers ==
  ASSUME NEW p \in Pods, NEW t \in Threads,
         pc'[p][t] \in {"url", "path"} \/ pc'[p][t] \notin Busy
  PROVE  Delivers(p, t)'
  BY DEF Delivers, Loading, Reported, Busy, PCs

\* A goroutine's own steps bring its file further.
LEMMA StepDelivers ==
  ASSUME IndInv, NEW p \in Pods, NEW t \in Threads, Delivers(p, t), Step(p, t)
  PROVE  Delivers(p, t)'
<1> DEFINE u == result[p].Url
           f == FileOf[result[p].Url]
<1>pcs. {"url", "path", "fetch", "save", "load", "report", "store", "patch", "pair",
         "get", "put", "listen", "idle", "stopped"} \subseteq PCs
  BY DEF PCs
<1>t. /\ frame \in [Pods -> [Threads -> Frame]] /\ put \in [Pods -> [Threads -> Puts]]
      /\ result \in [Pods -> Results]
      /\ files \in [Pods -> [Files -> Contents]] /\ loaded \in [Pods -> [Files -> Contents]]
  BY DEF IndInv, TypeOK
<1>1. CASE SetUrl(p, t)
  <2>1. CASE Abort(p, t)
    BY <2>1, AbortRests, RestDelivers
  <2>2. CASE Goto(p, t, "path")
    BY <1>pcs, <2>2, GotoPlace, RestDelivers
  <2> QED
    BY <1>1, <2>1, <2>2 DEF SetUrl
<1>2. CASE PrepareFile(p, t)
  <2>1. CASE u \in Urls
    <3>1. pc'[p][t] = "fetch" /\ result' = result
      BY <1>2, <2>1, <1>pcs, GotoPlace DEF PrepareFile
    <3>2. frame'[p][t].path = f
      BY <1>2, <2>1, <1>t DEF PrepareFile, Frame
    <3> QED
      BY <3>1, <3>2 DEF Delivers, Loading, Reported
  <2>2. CASE u \notin Urls
    BY <1>2, <2>2, AbortRests, RestDelivers DEF PrepareFile
  <2> QED
    BY <2>1, <2>2
<1>3. CASE FetchFile(p, t)
  <2>1. pc[p][t] = "fetch" /\ pc'[p][t] = "save" /\ result' = result
    BY <1>3, <1>pcs, GotoPlace DEF FetchFile
  <2>2. frame'[p][t].body = u /\ frame'[p][t].path = frame[p][t].path
    BY <1>3, <1>t DEF FetchFile, Frame
  <2> QED
    BY <2>1, <2>2 DEF Delivers, Loading, Reported
<1>4. CASE SaveFile(p, t)
  <2>1. pc[p][t] = "save" /\ pc'[p][t] = "load" /\ result' = result
    BY <1>4, <1>pcs, GotoPlace DEF SaveFile
  <2>2. frame[p][t].path = f /\ frame[p][t].body \in {u, ErrorPage} /\ f \in Files
    BY <2>1, UrlKnown DEF Delivers, Downloading
  <2>3. files'[p][f] = frame[p][t].body
    BY <1>4, <1>t, <2>2 DEF SaveFile
  <2> QED
    BY <2>1, <2>2, <2>3 DEF Delivers, Loading, Reported
<1>5. CASE LoadBySignal(p, t)
  <2>1. pc[p][t] = "load" /\ pc'[p][t] = "report" /\ UNCHANGED <<result, files>>
    BY <1>5, <1>pcs, GotoPlace DEF LoadBySignal
  <2>2. loaded'[p] = files[p]
    BY <1>5, <1>t DEF LoadBySignal
  <2> QED
    BY <2>1, <2>2 DEF Delivers, Loading, Reported
<1>6. CASE LoadByRequest(p, t)
  <2>1. /\ pc[p][t] = "load" /\ pc'[p][t] = "store" /\ UNCHANGED <<result, files>>
        /\ LoadPatchType[p] # "signal"
    BY <1>6, <1>pcs, GotoPlace DEF LoadByRequest, outside
  <2> QED
    BY <2>1 DEF Delivers, Loading, Reported
<1>7. ASSUME NEW k \in Reported, NEW l \in Reported, pc[p][t] = k, pc'[p][t] = l,
             result'[p].Url = u, UNCHANGED <<files, loaded>>
      PROVE  Delivers(p, t)'
  BY <1>7 DEF Delivers, Loading, Reported
<1>8. CASE ReportSuccess(p, t)
  <2>1. /\ pc[p][t] = "report" /\ pc'[p][t] = "store" /\ UNCHANGED <<files, loaded>>
        /\ result'[p].Url = u
    BY <1>8, <1>t, <1>pcs, GotoPlace DEF ReportSuccess, Results, outside
  <2> QED
    BY <1>7, <2>1 DEF Reported, Loading
<1>9. CASE ReadResult(p, t)
  <2>1. /\ pc[p][t] = "store" /\ pc'[p][t] = "patch" /\ UNCHANGED <<files, loaded, result>>
    BY <1>9, <1>pcs, GotoPlace DEF ReadResult, outside
  <2> QED
    BY <1>7, <2>1 DEF Reported, Loading
<1>10. CASE PatchPod(p, t)
  <2>1. /\ pc[p][t] = "patch" /\ pc'[p][t] = "pair" /\ UNCHANGED <<files, loaded, result>>
    BY <1>10, <1>pcs, GotoPlace DEF PatchPod
  <2> QED
    BY <1>7, <2>1 DEF Reported, Loading
<1>11. CASE ReadPair(p, t)
  <2>1. /\ pc[p][t] = "pair" /\ pc'[p][t] = "get" /\ UNCHANGED <<files, loaded, result>>
    BY <1>11, <1>pcs, GotoPlace DEF ReadPair, outside
  <2> QED
    BY <1>7, <2>1 DEF Reported, Loading
<1>12. CASE GetConfigmap(p, t)
  <2>1. /\ pc[p][t] = "get" /\ pc'[p][t] = "put" /\ UNCHANGED <<files, loaded, result>>
    BY <1>12, <1>pcs, GotoPlace DEF GetConfigmap, outside
  <2> QED
    BY <1>7, <2>1 DEF Reported, Loading
<1>13. CASE UpdateConfigmap(p, t)
  <2>1. /\ pc[p][t] = "put" /\ pc'[p][t] \in {"listen", "idle"}
        /\ UNCHANGED <<files, loaded, result>>
    BY <1>13, <1>pcs, GotoPlace DEF UpdateConfigmap, Finish, Return, outside
  <2>2. CASE pc'[p][t] = "listen"
    BY <1>7, <2>1, <2>2 DEF Reported, Loading
  <2>3. CASE pc'[p][t] = "idle"
    BY <2>3, RestDelivers DEF Busy
  <2> QED
    BY <2>1, <2>2, <2>3
<1>14. CASE UpdateConflict(p, t)
  BY <1>14, AbortRests, RestDelivers DEF UpdateConflict
<1> QED
  BY <1>1, <1>2, <1>3, <1>4, <1>5, <1>6, <1>8, <1>9, <1>10, <1>11, <1>12, <1>13, <1>14
     DEF Step

LEMMA FaultDelivers ==
  ASSUME IndInv, NEW p \in Pods, NEW t \in Threads, Delivers(p, t), ThreadFault(p, t)
  PROVE  Delivers(p, t)'
<1>1. CASE FetchErrorPage(p, t)
  <2>1. pc[p][t] = "fetch" /\ pc'[p][t] = "save" /\ result' = result
    BY <1>1, GotoPlace DEF FetchErrorPage, PCs
  <2>2. frame'[p][t].body = ErrorPage /\ frame'[p][t].path = frame[p][t].path
    BY <1>1 DEF FetchErrorPage, Frame, IndInv, TypeOK
  <2> QED
    BY <2>1, <2>2 DEF Delivers, Loading, Reported
<1>2. CASE CrashDuringUpdate(p, t)
  BY <1>2, RestartRests, RestDelivers DEF CrashDuringUpdate
<1>3. CASE SaveFails(p, t) \/ LoadFails(p, t) \/ CallFails(p, t) \/ UpdateReplyLost(p, t)
  BY <1>3, AbortRests, RestDelivers DEF SaveFails, LoadFails, CallFails, UpdateReplyLost
<1> QED
  BY <1>1, <1>2, <1>3 DEF ThreadFault

\* Start begins with a download, or records that the pod was never updated.
LEMMA StartChooses ==
  ASSUME IndInv, NEW p \in Pods, SetHotUpdateConfig(p)
  PROVE  \/ pc'[p][Start] = "path"
         \/ /\ pc'[p][Start] = "pair"
            /\ result'[p].Version = OriginVersion /\ result'[p].Url = OriginUrl
<1>t. "path" \in PCs /\ "pair" \in PCs /\ result \in [Pods -> Results]
  BY DEF PCs, IndInv, TypeOK
<1>1. CASE GetPersistenceInfo(p) \subseteq {<<OriginVersion, OriginUrl>>}
  BY <1>t, <1>1, GotoPlace, ThreadsFacts DEF SetHotUpdateConfig, Results
<1>2. CASE ~(GetPersistenceInfo(p) \subseteq {<<OriginVersion, OriginUrl>>})
  BY <1>t, <1>2, GotoPlace, ThreadsFacts DEF SetHotUpdateConfig
<1> QED
  BY <1>1, <1>2

LEMMA NextDelivers ==
  ASSUME IndInv, [Next]_vars, NEW p \in Pods, NEW t \in Threads,
         Alone(p, t), Alone(p, t)', Delivers(p, t)
  PROVE  Delivers(p, t)'
<1>1. CASE Undisturbed(p, t)
  BY <1>1 DEF Undisturbed, Delivers
<1>2. CASE pc'[p][t] \notin Busy
  BY <1>2, RestDelivers
<1>3. CASE t = Start /\ SetHotUpdateConfig(p)
  <2>1. CASE pc'[p][Start] = "path"
    BY <1>3, <2>1, RestDelivers
  <2>2. CASE pc'[p][Start] = "pair" /\ result'[p].Url = OriginUrl
    BY <1>3, <2>2 DEF Delivers
  <2> QED
    BY <1>3, <2>1, <2>2, StartChooses
<1>4. ASSUME t \in Handlers, NEW r \in Requests, ReceiveRequest(p, t, r)
      PROVE  Delivers(p, t)'
  <2>1. pc'[p][t] = "url"
    BY <1>4, GotoPlace DEF ReceiveRequest, PCs
  <2> QED
    BY <2>1, RestDelivers
<1> QED
  BY <1>1, <1>2, <1>3, <1>4, Interference, StepDelivers, FaultDelivers

LEMMA InitDelivers ==
  ASSUME Init, NEW p \in Pods, NEW t \in Threads
  PROVE  Delivers(p, t)
  BY DEF Init, NewProcess, Delivers, Loading, Reported

\* Start brings every file that it restores into its place, whatever else runs.
THEOREM StartBrings == Spec => []StartDelivers
<1>1. Init => StartDelivers
  BY InitDelivers, ThreadsFacts DEF StartDelivers
<1>2. IndInv => StartIsAlone
  BY StartAlone DEF StartIsAlone
<1>3. IndInv /\ StartIsAlone /\ StartIsAlone' /\ [Next]_vars /\ StartDelivers
        => StartDelivers'
  BY NextDelivers, ThreadsFacts DEF StartDelivers, StartIsAlone
<1> QED
  BY <1>1, <1>2, <1>3, Inductive, PTL DEF Spec

\* If no two requests of a pod overlap, then from the report of an update until
\* it is recorded the main container runs what the url of the update answered.
THEOREM ReportedIsLoaded == Spec /\ []Serialized => []ReportedUpdateIsLoaded
<1>1. Init => AllDeliver
  BY InitDelivers DEF AllDeliver
<1>2. IndInv /\ Serialized => AllAlone
  BY SerializedAlone DEF AllAlone
<1>3. IndInv /\ AllAlone /\ AllAlone' /\ [Next]_vars /\ AllDeliver => AllDeliver'
  BY NextDelivers DEF AllDeliver, AllAlone
<1>4. IndInv /\ AllDeliver => ReportedUpdateIsLoaded
  <2> SUFFICES ASSUME IndInv, AllDeliver, NEW p \in Pods, NEW t \in Threads,
                      LoadPatchType[p] = "signal",
                      pc[p][t] \in {"report", "store", "patch"}
               PROVE  LET u == result[p].Url IN
                      u \in Urls /\ loaded[p][FileOf[u]] \in {u, ErrorPage}
    BY DEF ReportedUpdateIsLoaded
  <2>1. result[p].Url \in Urls
    BY UrlKnown DEF Downloading
  <2>2. result[p].Url # OriginUrl
    BY <2>1, NamesAssumption
  <2> QED
    BY <2>1, <2>2 DEF AllDeliver, Delivers, Loading, Reported
<1> QED
  BY <1>1, <1>2, <1>3, <1>4, Inductive, PTL DEF Spec

-----------------------------------------------------------------------------
(* WHAT START RESTORES                                                     *)

\* While Start works, the records of its pod change only by its own update.
LEMMA OwnRecords ==
  ASSUME IndInv, Timely, [Next]_vars, NEW p \in Pods, pc[p][Start] \in Busy,
         cm.data'[p] # cm.data[p]
  PROVE  /\ UpdateConfigmap(p, Start)
         /\ cm.data'[p] =
              [cm.data[p] EXCEPT ![put[p][Start].version] = put[p][Start].url]
<1>t. cm.data \in [Pods -> [AllVersions -> AllUrls \cup {None}]]
  BY DEF IndInv, TypeOK, Data
<1>1. ~UNCHANGED cm
  OBVIOUS
<1>2. ASSUME NEW q \in Pods, NEW s \in Threads, UpdateConfigmap(q, s)
      PROVE  /\ q = p /\ s = Start
             /\ cm.data'[p] = [cm.data[p] EXCEPT ![put[q][s].version] = put[q][s].url]
  <2>1. cm.data' = [cm.data EXCEPT ![q][put[q][s].version] = put[q][s].url]
    BY <1>2, SendersFresh, ApplyPair
  <2>2. q = p
    BY <1>t, <2>1
  <2>3. s = Start
    BY <1>2, <2>2 DEF UpdateConfigmap, IndInv, FlowInv, Places, Threads, Busy
  <2> QED
    BY <1>t, <2>1, <2>2, <2>3
<1>3. ASSUME NEW m \in wire, Accepts(m[2]), Apply(m[1], m[2])
      PROVE  FALSE
  <2>1. cm.data' = [cm.data EXCEPT ![m[1]][m[2].version] = m[2].url] /\ m[1] \in Pods
    BY <1>3, SendersFresh, ApplyPair
  <2>2. m[1] = p
    BY <1>t, <2>1
  <2> QED
    BY <2>2 DEF Timely, Busy
<1> QED
  BY <1>1, <1>2, <1>3, WhoWrites

\* What Start chooses, no record of its pod exceeds.
LEMMA ChoosesNewest ==
  ASSUME IndInv, NEW p \in Pods, SetHotUpdateConfig(p)
  PROVE  Restores(p)'
<1> DEFINE info == GetPersistenceInfo(p)
<1>t. result \in [Pods -> Results]
  BY DEF IndInv, TypeOK
<1>1. UNCHANGED cm
  BY DEF SetHotUpdateConfig
<1>2. pc'[p][Start] \notin {"get", "put"}
  BY StartChooses
<1>3. ASSUME NEW v \in Versions, cm.data[p][v] # None
      PROVE  Rank[v] <= RankOf(result'[p].Version)
  <2> DEFINE i == <<v, cm.data[p][v]>>
  <2>1. i \in info
    <3>1. i \in Recorded(p)
      BY <1>3 DEF Recorded, AllVersions
    <3> QED
      BY <3>1 DEF GetPersistenceInfo
  <2>2. v # OriginVersion /\ RankOf(v) = Rank[v] /\ Rank[v] \in Nat
    BY NamesAssumption, RankAssumption DEF RankOf
  <2>3. ~(info \subseteq {<<OriginVersion, OriginUrl>>})
    BY <2>1, <2>2
  <2>4. PICK j \in Newest(info) :
          result' = [result EXCEPT ![p].Version = j[1], ![p].Url = j[2]]
    BY <2>3 DEF SetHotUpdateConfig
  <2>5. result'[p].Version = j[1]
    BY <1>t, <2>4 DEF Results
  <2>6. RankOf(j[1]) \in Nat
    BY RankAssumption DEF RankOf
  <2>7. CASE RankOf(v) > 0
    <3>1. i \in {k \in info : RankOf(k[1]) > 0}
      BY <2>1, <2>7
    <3>2. RankOf(i[1]) <= RankOf(j[1])
      BY <2>4, <3>1 DEF Newest
    <3> QED
      BY <2>2, <2>5, <3>2
  <2>8. CASE ~(RankOf(v) > 0)
    BY <2>2, <2>5, <2>6, <2>8
  <2> QED
    BY <2>7, <2>8
<1> QED
  BY <1>1, <1>2, <1>3 DEF Restores

\* What is to be recorded is read from h.result, which Start leaves alone.
LEMMA StartKeepsVersion ==
  ASSUME IndInv, NEW p \in Pods, Step(p, Start) \/ ThreadFault(p, Start),
         pc'[p][Start] \in Busy,
         pc[p][Start] \in {"get", "put"} => put[p][Start].version = result[p].Version
  PROVE  /\ pc[p][Start] \in Busy
         /\ result'[p].Version = result[p].Version
         /\ pc'[p][Start] \in {"get", "put"} => put'[p][Start].version = result[p].Version
<1> USE ThreadsFacts
<1>t. /\ result \in [Pods -> Results] /\ put \in [Pods -> [Threads -> Puts]]
      /\ pc \in [Pods -> [Threads -> PCs]]
  BY DEF IndInv, TypeOK
<1>pcs. {"path", "fetch", "save", "load", "report", "store", "patch", "pair", "get",
         "put", "listen"} \subseteq PCs
  BY DEF PCs
<1>1. ~Abort(p, Start) /\ ~CrashDuringUpdate(p, Start)
  BY AbortRests, RestartRests DEF CrashDuringUpdate
<1>2. pc[p][Start] # "url"
  BY DEF IndInv, FlowInv, Places, StartPCs
<1>3. pc[p][Start] \in Busy
  <2>1. pc[p][Start] \in Busy \cup {"start"}
    BY StepsBusy
  <2>2. pc[p][Start] = "start" => CallFails(p, Start)
    BY DEF Step, SetUrl, PrepareFile, FetchFile, SaveFile, LoadBySignal,
           LoadByRequest, ReportSuccess, ReadResult, PatchPod, ReadPair,
           GetConfigmap, UpdateConfigmap, UpdateConflict, ThreadFault, FetchErrorPage,
           SaveFails, LoadFails, UpdateReplyLost, CrashDuringUpdate, Delay
  <2> QED
    BY <1>1, <2>1, <2>2 DEF CallFails
<1>4. CASE ReadPair(p, Start)
  BY <1>3, <1>4, <1>t DEF ReadPair, Puts
<1>5. CASE GetConfigmap(p, Start)
  BY <1>3, <1>5, <1>t DEF GetConfigmap, Puts
<1>6. CASE ReportSuccess(p, Start)
  BY <1>3, <1>6, <1>t, <1>pcs, GotoPlace DEF ReportSuccess, Results
<1>7. CASE \/ PrepareFile(p, Start) \/ FetchFile(p, Start) \/ SaveFile(p, Start)
           \/ LoadBySignal(p, Start) \/ LoadByRequest(p, Start) \/ ReadResult(p, Start)
           \/ PatchPod(p, Start) \/ FetchErrorPage(p, Start)
  <2>1. result' = result
    BY <1>7 DEF PrepareFile, FetchFile, SaveFile, LoadBySignal, LoadByRequest,
                ReadResult, PatchPod, FetchErrorPage
  <2>2. PICK l \in {"fetch", "save", "load", "report", "store", "patch", "pair"} :
          Goto(p, Start, l)
    BY <1>1, <1>7 DEF PrepareFile, FetchFile, SaveFile, LoadBySignal, LoadByRequest,
                      ReadResult, PatchPod, FetchErrorPage
  <2>3. pc'[p][Start] = l
    BY <1>pcs, <2>2, GotoPlace
  <2> QED
    BY <1>3, <2>1, <2>3
<1>8. CASE UpdateConfigmap(p, Start)
  <2>1. pc'[p][Start] = "listen" /\ result' = result
    BY <1>8, <1>pcs, GotoPlace DEF UpdateConfigmap, Finish, Return
  <2> QED
    BY <1>3, <2>1
<1> QED
  BY <1>1, <1>2, <1>4, <1>5, <1>6, <1>7, <1>8
     DEF Step, ThreadFault, SetUrl, UpdateConflict, SaveFails, LoadFails, CallFails,
         UpdateReplyLost

LEMMA NextRestores ==
  ASSUME IndInv, Timely, [Next]_vars, NEW p \in Pods,
         Alone(p, Start), Alone(p, Start)', Restores(p)
  PROVE  Restores(p)'
<1> USE ThreadsFacts
<1>1. CASE pc'[p][Start] \notin Busy
  BY <1>1 DEF Restores, Busy, PCs
<1>2. CASE SetHotUpdateConfig(p)
  BY <1>2, ChoosesNewest
<1>3. CASE /\ pc[p][Start] \in Busy /\ result'[p].Version = result[p].Version
           /\ pc'[p][Start] \in {"get", "put"} => put'[p][Start].version = result[p].Version
  <2>1. ASSUME NEW v \in Versions, cm.data'[p][v] # None
        PROVE  Rank[v] <= RankOf(result[p].Version)
    <3>1. CASE cm.data[p][v] # None
      BY <1>3, <3>1 DEF Restores
    <3>2. CASE cm.data[p][v] = None
      <4>1. cm.data'[p] # cm.data[p]
        BY <2>1, <3>2
      <4>2. /\ UpdateConfigmap(p, Start)
            /\ cm.data'[p] =
                 [cm.data[p] EXCEPT ![put[p][Start].version] = put[p][Start].url]
        BY <1>3, <4>1, OwnRecords
      <4>3. v = put[p][Start].version
        BY <2>1, <3>2, <4>2
      <4>4. put[p][Start].version = result[p].Version
        BY <4>2 DEF UpdateConfigmap, Restores
      <4> QED
        BY <4>3, <4>4, RankAssumption DEF RankOf
    <3> QED
      BY <3>1, <3>2
  <2> QED
    BY <1>3, <2>1 DEF Restores
<1>4. CASE Undisturbed(p, Start) /\ pc'[p][Start] \in Busy
  BY <1>3, <1>4 DEF Undisturbed, Restores
<1>5. CASE (Step(p, Start) \/ ThreadFault(p, Start)) /\ pc'[p][Start] \in Busy
  BY <1>3, <1>5, StartKeepsVersion DEF Restores
<1>6. \/ Undisturbed(p, Start)
      \/ pc'[p][Start] \notin Busy
      \/ SetHotUpdateConfig(p)
      \/ Step(p, Start) \/ ThreadFault(p, Start)
  BY Interference
<1> QED
  BY <1>1, <1>2, <1>4, <1>5, <1>6

\* If no update of a pod is on its way unheard of while its Start runs, then
\* Start listens only when the pod is back at the newest of its recorded
\* updates, the file in place and, where a signal loads it, loaded; whatever
\* crashed or failed before, and whatever the other pods record meanwhile.
THEOREM NewestRestored == Spec /\ []Timely => []StartRestoresNewest
<1>1. Init => AllRestore
  <2>1. Init => \A p \in Pods : pc[p][Start] \notin Busy
    BY ThreadsFacts DEF Init, NewProcess, Busy
  <2> QED
    BY <2>1 DEF AllRestore, Restores, Busy, PCs
<1>2. IndInv => StartIsAlone
  BY StartAlone DEF StartIsAlone
<1>3. IndInv /\ Timely /\ StartIsAlone /\ StartIsAlone' /\ [Next]_vars /\ AllRestore
        => AllRestore'
  BY NextRestores DEF AllRestore, StartIsAlone
<1>4. StartDelivers /\ AllRestore => StartRestoresNewest
  <2> SUFFICES ASSUME StartDelivers, AllRestore, NEW p \in Pods, pc[p][Start] = "listen"
               PROVE  /\ \A v \in Versions :
                           cm.data[p][v] # None => Rank[v] <= RankOf(result[p].Version)
                      /\ result[p].Url # OriginUrl =>
                           LET f == FileOf[result[p].Url] IN
                           /\ files[p][f] \in {result[p].Url, ErrorPage}
                           /\ LoadPatchType[p] = "signal" => loaded[p][f] = files[p][f]
    BY DEF StartRestoresNewest
  <2>1. \A v \in Versions : cm.data[p][v] # None => Rank[v] <= RankOf(result[p].Version)
    BY DEF AllRestore, Restores, Busy, PCs
  <2>2. Delivers(p, Start)
    BY DEF StartDelivers
  <2> QED
    BY <2>1, <2>2 DEF Delivers, Loading, Reported
<1> QED
  BY <1>1, <1>2, <1>3, <1>4, Inductive, StartBrings, PTL DEF Spec

-----------------------------------------------------------------------------
(* WHAT IS RECORDED                                                        *)

\* The history only grows.
LEMMA AskedGrows ==
  ASSUME [Next]_vars
  PROVE  asked \subseteq asked'
<1>1. \A p \in Pods : StartStep(p) \/ Crash(p) \/ Recreate(p) => UNCHANGED asked
  BY DEF StartStep, SetHotUpdateConfig, Listen, Exit, Crash, Recreate
<1>2. \A p \in Pods, t \in Threads : ThreadFault(p, t) => UNCHANGED asked
  BY DEF ThreadFault, FetchErrorPage, SaveFails, LoadFails, CallFails,
         UpdateReplyLost, CrashDuringUpdate
<1>3. \A p \in Pods, t \in Handlers, r \in Requests :
        Request(p, t, r) => asked \subseteq asked'
  BY DEF Request, RejectRequest, ReceiveRequest, vars
<1>4. \A p \in Pods, t \in Threads : Step(p, t) => UNCHANGED asked
  BY DEF Step, SetUrl, PrepareFile, FetchFile, SaveFile, LoadBySignal,
         LoadByRequest, ReportSuccess, ReadResult, PatchPod, ReadPair,
         GetConfigmap, UpdateConfigmap, UpdateConflict
<1>5. \A m \in wire : DeliverLate(m) => UNCHANGED asked
  BY DEF DeliverLate
<1>6. UNCHANGED vars => UNCHANGED asked
  BY DEF vars
<1> QED
  BY <1>1, <1>2, <1>3, <1>4, <1>5, <1>6 DEF Next

\* Nobody records a pair that was not requested.
LEMMA RecordsRequested ==
  ASSUME IndInv, [Next]_vars, AllCarry
  PROVE  PairIntegrity'
<1>t. cm.data \in [Pods -> [AllVersions -> AllUrls \cup {None}]]
  BY DEF IndInv, TypeOK, Data
<1>1. asked \subseteq asked'
  BY AskedGrows
<1>2. CASE UNCHANGED cm
  BY <1>1, <1>2 DEF AllCarry, PairIntegrity
<1>3. ASSUME NEW p \in Pods, NEW w \in Puts, Fresh(w), Accepts(w), Apply(p, w),
             <<w.version, w.url>> \in Pairs, Requested(w.version, w.url)
      PROVE  PairIntegrity'
  <2> SUFFICES ASSUME NEW q \in Pods, NEW v \in Versions, cm'.data[q][v] # None
               PROVE  <<v, cm'.data[q][v]>> \in asked
    BY <1>1 DEF PairIntegrity
  <2>1. /\ w.version \in AllVersions /\ w.url \in AllUrls
        /\ cm'.data = [cm.data EXCEPT ![p][w.version] = w.url]
    BY <1>3, ApplyPair
  <2>2. v \in AllVersions
    BY DEF AllVersions
  <2>3. CASE q = p /\ v = w.version
    BY <1>t, <1>3, <2>1, <2>2, <2>3 DEF Requested
  <2>4. CASE ~(q = p /\ v = w.version)
    <3>1. cm'.data[q][v] = cm.data[q][v]
      BY <1>t, <2>1, <2>2, <2>4
    <3> QED
      BY <3>1 DEF AllCarry, PairIntegrity
  <2> QED
    BY <2>3, <2>4
<1>4. ASSUME NEW p \in Pods, NEW t \in Threads, UpdateConfigmap(p, t)
      PROVE  PairIntegrity'
  <2>1. Requested(put[p][t].version, put[p][t].url)
    BY <1>4 DEF UpdateConfigmap, AllCarry, Carries
  <2> QED
    BY <1>3, <1>4, <2>1, SendersFresh
<1>5. ASSUME NEW m \in wire, Accepts(m[2]), Apply(m[1], m[2])
      PROVE  PairIntegrity'
  <2>1. Requested(m[2].version, m[2].url)
    BY DEF AllCarry, WireRequested
  <2> QED
    BY <1>3, <1>5, <2>1, SendersFresh
<1> QED
  BY <1>2, <1>4, <1>5, WhoWrites

\* An update gets on its way only from a goroutine that is sending it.
LEMMA WireGrows ==
  ASSUME [Next]_vars
  PROVE  \A m \in wire' \ wire :
           \E p \in Pods, t \in Threads : pc[p][t] = "put" /\ m = <<p, put[p][t]>>
<1>1. \A p \in Pods : StartStep(p) \/ Crash(p) \/ Recreate(p) => UNCHANGED wire
  BY DEF StartStep, SetHotUpdateConfig, Listen, Exit, Crash, Recreate
<1>2. ASSUME NEW p \in Pods, NEW t \in Threads, ThreadFault(p, t)
      PROVE  UNCHANGED wire \/ (pc[p][t] = "put" /\ wire' = wire \cup {<<p, put[p][t]>>})
  BY <1>2 DEF ThreadFault, FetchErrorPage, SaveFails, LoadFails, CallFails,
              UpdateReplyLost, CrashDuringUpdate, Delay
<1>3. \A p \in Pods, t \in Handlers, r \in Requests : Request(p, t, r) => UNCHANGED wire
  BY DEF Request, RejectRequest, ReceiveRequest, vars
<1>4. \A p \in Pods, t \in Threads : Step(p, t) => UNCHANGED wire
  BY DEF Step, SetUrl, PrepareFile, FetchFile, SaveFile, LoadBySignal,
         LoadByRequest, ReportSuccess, ReadResult, PatchPod, ReadPair,
         GetConfigmap, UpdateConfigmap, UpdateConflict
<1>5. \A m \in wire : DeliverLate(m) => wire' \subseteq wire
  BY DEF DeliverLate
<1>6. UNCHANGED vars => UNCHANGED wire
  BY DEF vars
<1> QED
  BY <1>1, <1>2, <1>3, <1>4, <1>5, <1>6 DEF Next

LEMMA LateRequested ==
  ASSUME IndInv, [Next]_vars, AllCarry
  PROVE  WireRequested'
<1>1. asked \subseteq asked'
  BY AskedGrows
<1> SUFFICES ASSUME NEW m \in wire'
             PROVE  Requested(m[2].version, m[2].url)
  BY <1>1 DEF WireRequested, Requested
<1>2. CASE m \in wire
  BY <1>2 DEF AllCarry, WireRequested
<1>3. CASE m \notin wire
  <2>1. PICK p \in Pods, t \in Threads : pc[p][t] = "put" /\ m = <<p, put[p][t]>>
    BY <1>3, WireGrows
  <2> QED
    BY <2>1 DEF AllCarry, Carries
<1> QED
  BY <1>2, <1>3

\* Nothing to carry before a request, and after the ConfigMap.
LEMMA RestCarries ==
  ASSUME NEW p \in Pods, NEW t \in Threads, pc'[p][t] = "listen" \/ pc'[p][t] \notin Busy
  PROVE  Carries(p, t)'
  BY DEF Carries, Downloading, Busy, PCs

Downloads == {"path"} \cup Downloading \cup {"pair"}

\* Steps on the way from the url to the ConfigMap keep the pair.
LEMMA StepCarries ==
  ASSUME IndInv, NEW p \in Pods, NEW t \in Threads, Carries(p, t), Step(p, t),
         UNCHANGED asked
  PROVE  Carries(p, t)'
<1>pcs. {"url", "path", "fetch", "save", "load", "report", "store", "patch", "pair",
         "get", "put", "listen", "idle", "stopped"} \subseteq PCs
  BY DEF PCs
<1>t. /\ frame \in [Pods -> [Threads -> Frame]] /\ put \in [Pods -> [Threads -> Puts]]
      /\ result \in [Pods -> Results]
  BY DEF IndInv, TypeOK
<1>0. CASE Abort(p, t)
  BY <1>0, AbortRests, RestCarries
<1>1. CASE SetUrl(p, t) /\ ~Abort(p, t)
  <2>1. /\ pc[p][t] = "url" /\ frame[p][t].url # None
        /\ Goto(p, t, "path") /\ result' = [result EXCEPT ![p].Url = frame[p][t].url]
    BY <1>1 DEF SetUrl
  <2>2. pc'[p][t] = "path"
    BY <1>pcs, <2>1, GotoPlace
  <2>3. result'[p].Version = result[p].Version /\ result'[p].Url = frame[p][t].url
    BY <1>t, <2>1 DEF Results
  <2>4. Requested(result'[p].Version, result'[p].Url)
    BY <2>1, <2>3 DEF Carries
  <2>5. Requested(result[p].Version, result[p].Url)'
    BY <2>4 DEF Requested
  <2> QED
    BY <2>2, <2>5 DEF Carries, Downloading
<1>2. ASSUME pc[p][t] \in Downloads, pc'[p][t] \in Downloads,
             result'[p].Version = result[p].Version, result'[p].Url = result[p].Url
      PROVE  Carries(p, t)'
  BY <1>2 DEF Carries, Downloads, Downloading, Requested
<1>3. CASE /\ \/ PrepareFile(p, t) \/ FetchFile(p, t) \/ SaveFile(p, t)
              \/ LoadBySignal(p, t) \/ LoadByRequest(p, t) \/ ReadResult(p, t)
              \/ PatchPod(p, t)
           /\ ~Abort(p, t)
  <2>1. result' = result /\ pc[p][t] \in Downloads
    BY <1>3 DEF PrepareFile, FetchFile, SaveFile, LoadBySignal, LoadByRequest,
                ReadResult, PatchPod, Downloads, Downloading
  <2>2. PICK l \in {"fetch", "save", "load", "report", "store", "patch", "pair"} :
          Goto(p, t, l)
    BY <1>3 DEF PrepareFile, FetchFile, SaveFile, LoadBySignal, LoadByRequest,
                ReadResult, PatchPod
  <2>3. pc'[p][t] \in Downloads
    BY <1>pcs, <2>2, GotoPlace DEF Downloads, Downloading
  <2> QED
    BY <1>2, <2>1, <2>3
<1>4. CASE ReportSuccess(p, t)
  <2>1. result'[p].Version = result[p].Version /\ result'[p].Url = result[p].Url
    BY <1>4, <1>t DEF ReportSuccess, Results
  <2>2. pc[p][t] \in Downloads /\ pc'[p][t] \in Downloads
    BY <1>4, <1>pcs, GotoPlace DEF ReportSuccess, Downloads, Downloading
  <2> QED
    BY <1>2, <2>1, <2>2
<1>5. CASE ReadPair(p, t)
  <2>1. pc[p][t] = "pair" /\ pc'[p][t] = "get"
    BY <1>5, <1>pcs, GotoPlace DEF ReadPair
  <2>2. put'[p][t].version = result[p].Version /\ put'[p][t].url = result[p].Url
    BY <1>5, <1>t DEF ReadPair, Puts
  <2> QED
    BY <2>1, <2>2 DEF Carries, Downloading, Requested
<1>6. CASE GetConfigmap(p, t)
  <2>1. pc[p][t] = "get" /\ pc'[p][t] = "put"
    BY <1>6, <1>pcs, GotoPlace DEF GetConfigmap
  <2>2. put'[p][t].version = put[p][t].version /\ put'[p][t].url = put[p][t].url
    BY <1>6, <1>t DEF GetConfigmap, Puts
  <2> QED
    BY <2>1, <2>2 DEF Carries, Downloading, Requested
<1>7. CASE UpdateConfigmap(p, t)
  <2>1. pc'[p][t] = "listen" \/ pc'[p][t] = "idle"
    BY <1>7, <1>pcs, GotoPlace DEF UpdateConfigmap, Finish, Return
  <2> QED
    BY <2>1, RestCarries DEF Busy
<1> QED
  BY <1>0, <1>1, <1>3, <1>4, <1>5, <1>6, <1>7 DEF Step, UpdateConflict

LEMMA FaultCarries ==
  ASSUME IndInv, NEW p \in Pods, NEW t \in Threads, Carries(p, t), ThreadFault(p, t)
  PROVE  Carries(p, t)'
<1>1. CASE FetchErrorPage(p, t)
  <2>1. /\ pc[p][t] = "fetch" /\ pc'[p][t] = "save" /\ UNCHANGED <<result, asked>>
    BY <1>1, GotoPlace DEF FetchErrorPage, PCs
  <2> QED
    BY <2>1 DEF Carries, Downloading, Requested
<1>2. CASE CrashDuringUpdate(p, t)
  BY <1>2, RestartRests, RestCarries DEF CrashDuringUpdate
<1>3. CASE SaveFails(p, t) \/ LoadFails(p, t) \/ CallFails(p, t) \/ UpdateReplyLost(p, t)
  BY <1>3, AbortRests, RestCarries DEF SaveFails, LoadFails, CallFails, UpdateReplyLost
<1> QED
  BY <1>1, <1>2, <1>3 DEF ThreadFault

\* What Start takes over from the records, its own or another pod's, has been
\* requested.
LEMMA ChoiceRequested ==
  ASSUME IndInv, PairIntegrity, NEW p \in Pods, SetHotUpdateConfig(p)
  PROVE  Carries(p, Start)'
<1> DEFINE info == GetPersistenceInfo(p)
<1>t. result \in [Pods -> Results]
  BY DEF IndInv, TypeOK
<1>1. pc'[p][Start] \in {"path", "pair"}
  BY StartChooses
<1>2. Requested(result'[p].Version, result'[p].Url)
  <2>1. CASE info \subseteq {<<OriginVersion, OriginUrl>>}
    <3>1. result'[p].Version = OriginVersion
      BY <1>t, <2>1 DEF SetHotUpdateConfig, Results
    <3> QED
      BY <3>1, NamesAssumption DEF Requested
  <2>2. CASE ~(info \subseteq {<<OriginVersion, OriginUrl>>})
    <3>1. PICK i \in Newest(info) :
            result' = [result EXCEPT ![p].Version = i[1], ![p].Url = i[2]]
      BY <2>2 DEF SetHotUpdateConfig
    <3>2. result'[p].Version = i[1] /\ result'[p].Url = i[2]
      BY <1>t, <3>1 DEF Results
    <3>3. CASE i = <<None, None>>
      BY <3>2, <3>3, NamesAssumption DEF Requested
    <3>4. CASE i \in info
      <4>1. PICK q \in Pods : i \in Recorded(q)
        BY <3>4 DEF GetPersistenceInfo
      <4>2. PICK v \in AllVersions : i = <<v, cm.data[q][v]>> /\ cm.data[q][v] # None
        BY <4>1 DEF Recorded
      <4> QED
        BY <3>2, <4>2 DEF PairIntegrity, Requested
    <3> QED
      BY <3>1, <3>3, <3>4 DEF Newest
  <2> QED
    BY <2>1, <2>2
<1>3. UNCHANGED asked
  BY DEF SetHotUpdateConfig
<1>4. Requested(result[p].Version, result[p].Url)'
  BY <1>2, <1>3 DEF Requested
<1> QED
  BY <1>1, <1>4 DEF Carries

LEMMA NextCarries ==
  ASSUME IndInv, [Next]_vars, NEW p \in Pods, NEW t \in Threads,
         Alone(p, t), Alone(p, t)', PairIntegrity, Carries(p, t)
  PROVE  Carries(p, t)'
<1>t. /\ frame \in [Pods -> [Threads -> Frame]] /\ result \in [Pods -> Results]
  BY DEF IndInv, TypeOK
<1>1. CASE Undisturbed(p, t)
  <2>1. asked \subseteq asked'
    BY AskedGrows
  <2> QED
    BY <1>1, <2>1 DEF Undisturbed, Carries, Requested
<1>2. CASE pc'[p][t] \notin Busy
  BY <1>2, RestCarries
<1>3. CASE t = Start /\ SetHotUpdateConfig(p)
  BY <1>3, ChoiceRequested
<1>4. CASE Step(p, t)
  <2>1. UNCHANGED asked
    BY <1>4 DEF Step, SetUrl, PrepareFile, FetchFile, SaveFile, LoadBySignal,
                LoadByRequest, ReportSuccess, ReadResult, PatchPod, ReadPair,
                GetConfigmap, UpdateConfigmap, UpdateConflict
  <2> QED
    BY <1>4, <2>1, StepCarries
<1>5. CASE ThreadFault(p, t)
  BY <1>5, FaultCarries
<1>6. ASSUME t \in Handlers, NEW r \in Requests, ReceiveRequest(p, t, r)
      PROVE  Carries(p, t)'
  <2>1. pc'[p][t] = "url"
    BY <1>6, GotoPlace DEF ReceiveRequest, PCs
  <2>2. /\ result'[p].Version = r.version
        /\ frame'[p][t].version = r.version /\ frame'[p][t].url = r.url
    BY <1>6, <1>t DEF ReceiveRequest, Results, Frame
  <2>3. r.url # None => <<r.version, r.url>> \in asked'
    BY <1>6 DEF ReceiveRequest
  <2> QED
    BY <2>1, <2>2, <2>3 DEF Carries, Requested, Downloading
<1> QED
  BY <1>1, <1>2, <1>3, <1>4, <1>5, <1>6, Interference

\* If no two requests of a pod overlap, every recorded version has the url it
\* was requested with: whichever pod asked for it, whoever took it over at its
\* start, and however late it was recorded.
THEOREM PairsRequested == Spec /\ []Serialized => []PairIntegrity
<1>1. Init => AllCarry
  <2> SUFFICES ASSUME Init PROVE AllCarry
    OBVIOUS
  <2>1. PairIntegrity /\ WireRequested
    BY DEF Init, NoData, PairIntegrity, WireRequested, AllVersions
  <2>2. \A p \in Pods, t \in Threads : pc[p][t] \in {"start", "idle"}
    BY DEF Init, NewProcess
  <2>3. \A p \in Pods, t \in Threads : Carries(p, t)
    BY <2>2 DEF Carries, Downloading
  <2> QED
    BY <2>1, <2>3 DEF AllCarry
<1>2. IndInv /\ Serialized => AllAlone
  BY SerializedAlone DEF AllAlone
<1>3. IndInv /\ AllAlone /\ AllAlone' /\ [Next]_vars /\ AllCarry => AllCarry'
  BY RecordsRequested, LateRequested, NextCarries DEF AllCarry, AllAlone
<1>4. AllCarry => PairIntegrity
  BY DEF AllCarry
<1> QED
  BY <1>1, <1>2, <1>3, <1>4, Inductive, PTL DEF Spec

-----------------------------------------------------------------------------
(* The hypotheses hold where requests come one at a time because there is  *)
(* one handler, and where every sender hears of its update.                *)

LEMMA OneHandlerSerializes ==
  ASSUME \A g, h \in Handlers : g = h
  PROVE  Spec => []Serialized
<1>1. Serialized
  BY DEF Serialized
<1> QED
  BY <1>1, PTL

LEMMA NothingDelayedIsTimely ==
  ASSUME MaxDelays = 0
  PROVE  Spec => []Timely
<1> DEFINE Silent == wire = {}
<1>1. Init => Silent
  BY DEF Init
<1>2. IndInv /\ Silent /\ [Next]_vars => Silent'
  <2> SUFFICES ASSUME IndInv, Silent, [Next]_vars PROVE Silent'
    OBVIOUS
  <2>1. \A p \in Pods, t \in Threads : ~Delay(p, t)
    BY DEF Delay, IndInv, TypeOK
  <2>2. \A p \in Pods : StartStep(p) \/ Crash(p) \/ Recreate(p) => UNCHANGED wire
    BY DEF StartStep, SetHotUpdateConfig, Listen, Exit, Crash, Recreate
  <2>3. \A p \in Pods, t \in Threads : ThreadFault(p, t) => UNCHANGED wire
    BY <2>1 DEF ThreadFault, FetchErrorPage, SaveFails, LoadFails, CallFails,
                UpdateReplyLost, CrashDuringUpdate
  <2>4. \A p \in Pods, t \in Handlers, r \in Requests :
          Request(p, t, r) => UNCHANGED wire
    BY DEF Request, RejectRequest, ReceiveRequest, vars
  <2>5. \A p \in Pods, t \in Threads : Step(p, t) => UNCHANGED wire
    BY DEF Step, SetUrl, PrepareFile, FetchFile, SaveFile, LoadBySignal,
           LoadByRequest, ReportSuccess, ReadResult, PatchPod, ReadPair,
           GetConfigmap, UpdateConfigmap, UpdateConflict
  <2>6. UNCHANGED vars => UNCHANGED wire
    BY DEF vars
  <2> QED
    BY <2>2, <2>3, <2>4, <2>5, <2>6 DEF Next
<1>3. Silent => Timely
  BY DEF Timely
<1> QED
  BY <1>1, <1>2, <1>3, Inductive, PTL DEF Spec

=============================================================================
