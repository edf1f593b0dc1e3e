-------------------------- MODULE HotUpdateProofs --------------------------
(***************************************************************************)
(* Theorems about HotUpdate for every value of its constants: any number   *)
(* of pods, handlers, requests, faults and delayed updates.                *)
(***************************************************************************)
EXTENDS HotUpdate, TLAPS

-----------------------------------------------------------------------------
(* THE INDUCTIVE INVARIANT                                                 *)

\* What h.result and an entry of the ConfigMap may pair.
Pairs == (Versions \X Urls) \cup {<<OriginVersion, OriginUrl>>}

StartPCs   == PCs \ {"idle", "url"}
HandlerPCs == PCs \ {"start", "listen", "serving", "stopped"}

\* Handlers run only while Start serves; so h.result is Start's own before.
Places ==
  \A p \in Pods :
    /\ pc[p][Start] \in StartPCs
    /\ \A h \in Handlers :
         /\ pc[p][h] \in HandlerPCs
         /\ pc[p][h] # "idle" => pc[p][Start] = "serving"

\* What a handler has written to h.result, other handlers only replace by
\* what they were asked for.
HandlerKnows ==
  \A p \in Pods, h \in Handlers :
    /\ pc[p][h] # "idle" =>
         result[p].Version \in Versions /\ frame[p][h].version \in Versions
    /\ pc[p][h] \notin {"idle", "url"} =>
         result[p].Url \in Urls /\ frame[p][h].url \in Urls

Downloading == {"fetch", "save", "load", "report", "store", "patch"}
Recording   == {"pair", "get", "put"}

StartKnows ==
  \A p \in Pods :
    /\ pc[p][Start] = "path" =>
         \/ <<result[p].Version, result[p].Url>> \in Versions \X Urls
         \/ result[p].Url = None
    /\ pc[p][Start] \in Downloading =>
         <<result[p].Version, result[p].Url>> \in Versions \X Urls
    /\ pc[p][Start] \in Recording =>
         <<result[p].Version, result[p].Url>> \in Pairs

\* Every update of the ConfigMap carries a pair.
PutsPairs ==
  /\ \A p \in Pods, t \in Threads :
       pc[p][t] \in {"get", "put"} => <<put[p][t].version, put[p][t].url>> \in Pairs
  /\ \A m \in wire : <<m[2].version, m[2].url>> \in Pairs

RecordsPairs ==
  \A p \in Pods, v \in AllVersions :
    cm.data[p][v] # None => <<v, cm.data[p][v]>> \in Pairs

\* An update that still has the current resourceVersion was prepared from the
\* current data; this is what makes Accepts enough.
Fresh(w) == w.rv <= cm.rv /\ (w.rv = cm.rv => w.data = cm.data)

PutsFresh ==
  /\ \A p \in Pods, t \in Threads : pc[p][t] = "put" => Fresh(put[p][t])
  /\ \A m \in wire : Fresh(m[2])

FlowInv == Places /\ HandlerKnows /\ StartKnows /\ PutsPairs /\ RecordsPairs
IndInv  == TypeOK /\ FlowInv /\ PutsFresh

-----------------------------------------------------------------------------
(* TYPES                                                                   *)

\* The initial and reset values have their types.
LEMMA ZeroValues ==
  /\ NoResult \in Results
  /\ NoFrame \in Frame
  /\ NoFiles \in [Files -> Contents]
  /\ NoData \in Data
  /\ NoPut \in Puts
  /\ NewProcess \in [Threads -> PCs]
<1>1. NoData \in Data
  BY DEF NoData, Data
<1>2. NoPut \in Puts
  BY <1>1 DEF NoPut, Puts
<1>3. NoFrame \in Frame
  BY DEF NoFrame, Frame, Contents, Outcomes
<1>4. NoFiles \in [Files -> Contents]
  BY DEF NoFiles, Contents
<1>5. NoResult \in Results
  BY DEF NoResult, Results, Outcomes
<1>6. NewProcess \in [Threads -> PCs]
  BY DEF NewProcess, PCs
<1> QED
  BY <1>1, <1>2, <1>3, <1>4, <1>5, <1>6

LocalType ==
  /\ pc \in [Pods -> [Threads -> PCs]]
  /\ frame \in [Pods -> [Threads -> Frame]]
  /\ put \in [Pods -> [Threads -> Puts]]

\* Setting a field keeps the type of a record.
LEMMA FrameFields ==
  ASSUME NEW g \in Frame
  PROVE  /\ \A x \in Files : [g EXCEPT !.path = x] \in Frame
         /\ \A x \in Contents : [g EXCEPT !.body = x] \in Frame
         /\ \A x \in Outcomes : [g EXCEPT !.data = x] \in Frame
         /\ \A v \in Versions, u \in Urls \cup {None} :
              [g EXCEPT !.version = v, !.url = u] \in Frame
  BY DEF Frame

LEMMA PutFields ==
  ASSUME NEW w \in Puts
  PROVE  /\ \A v \in AllVersions \cup {None}, u \in AllUrls \cup {None} :
              [w EXCEPT !.version = v, !.url = u] \in Puts
         /\ \A n \in Nat, d \in Data : [w EXCEPT !.rv = n, !.data = d] \in Puts
  BY DEF Puts

LEMMA ResultFields ==
  ASSUME NEW g \in Results
  PROVE  /\ \A v \in AllVersions \cup {None}, u \in AllUrls \cup {None} :
              [g EXCEPT !.Version = v, !.Url = u] \in Results
         /\ \A v \in AllVersions \cup {None} : [g EXCEPT !.Version = v] \in Results
         /\ \A u \in AllUrls \cup {None} : [g EXCEPT !.Url = u] \in Results
         /\ \A o \in Outcomes : [g EXCEPT !.Result = o] \in Results
  BY DEF Results

\* Setting one goroutine's frame or update, or one pod's result.
LEMMA FrameType ==
  ASSUME TypeOK, NEW p \in Pods, NEW t \in Threads, NEW g \in Frame
  PROVE  [frame EXCEPT ![p][t] = g] \in [Pods -> [Threads -> Frame]]
  BY DEF TypeOK

LEMMA PutType ==
  ASSUME TypeOK, NEW p \in Pods, NEW t \in Threads, NEW w \in Puts
  PROVE  [put EXCEPT ![p][t] = w] \in [Pods -> [Threads -> Puts]]
  BY DEF TypeOK

LEMMA ResultType ==
  ASSUME TypeOK, NEW p \in Pods, NEW g \in Results
  PROVE  [result EXCEPT ![p] = g] \in [Pods -> Results]
  BY DEF TypeOK

\* Going on, returning and restarting keep the types of the local state.
LEMMA GotoType ==
  ASSUME NEW p \in Pods, NEW t \in Threads, NEW l \in PCs, TypeOK, Goto(p, t, l)
  PROVE  pc' \in [Pods -> [Threads -> PCs]]
  BY DEF TypeOK, Goto

LEMMA ReturnType ==
  ASSUME NEW p \in Pods, NEW t \in Threads, TypeOK,
         Finish(p, t) \/ Abort(p, t)
  PROVE  LocalType'
<1>1. PICK l \in {"listen", "idle", "stopped"} : Return(p, t, l)
  BY DEF Finish, Abort
<1>2. l \in PCs
  BY DEF PCs
<1>3. pc' \in [Pods -> [Threads -> PCs]]
  BY <1>1, <1>2, GotoType DEF Return
<1>4. frame' \in [Pods -> [Threads -> Frame]]
  BY <1>1, ZeroValues DEF Return, TypeOK
<1>5. put' \in [Pods -> [Threads -> Puts]]
  BY <1>1, ZeroValues DEF Return, TypeOK
<1> QED
  BY <1>3, <1>4, <1>5 DEF LocalType

LEMMA RestartType ==
  ASSUME NEW p \in Pods, TypeOK, RestartProcess(p)
  PROVE  /\ LocalType'
         /\ result' \in [Pods -> Results]
<1>1. LocalType'
  BY ZeroValues DEF TypeOK, RestartProcess, LocalType
<1>2. result' \in [Pods -> Results]
  BY ZeroValues DEF TypeOK, RestartProcess
<1> QED
  BY <1>1, <1>2

\* Applying an update keeps the type of the ConfigMap.
LEMMA ApplyType ==
  ASSUME NEW p \in Pods, NEW w \in Puts, TypeOK, Apply(p, w)
  PROVE  cm' \in [rv : Nat, data : Data]
<1>1. w.data \in Data /\ w.url \in AllUrls \cup {None}
  BY DEF Puts
<1>2. Merged(p, w) \in Data
  BY <1>1 DEF Merged, Data
<1> QED
  BY <1>2 DEF Apply, TypeOK

-----------------------------------------------------------------------------
(* Every kind of step keeps TypeOK.                                        *)

LEMMA RecoverType ==
  ASSUME NEW p \in Pods, TypeOK, NEW i \in Newest(GetPersistenceInfo(p))
  PROVE  i[1] \in AllVersions \cup {None} /\ i[2] \in AllUrls \cup {None}
<1>1. \A q \in Pods : \A r \in Recorded(q) : r[1] \in AllVersions /\ r[2] \in AllUrls
  BY DEF Recorded, TypeOK, Data
<1>2. \A r \in GetPersistenceInfo(p) : r[1] \in AllVersions /\ r[2] \in AllUrls
  BY <1>1 DEF GetPersistenceInfo
<1> QED
  BY <1>2 DEF Newest

LEMMA StartStepType ==
  ASSUME IndInv, NEW p \in Pods, StartStep(p) \/ Crash(p) \/ Recreate(p)
  PROVE  TypeOK'
<1> USE DEF IndInv
<1>t. Start \in Threads /\ {"pair", "path", "serving"} \subseteq PCs
  BY DEF Threads, PCs
<1>1. CASE SetHotUpdateConfig(p)
  <2>1. PICK l \in {"pair", "path"} : Goto(p, Start, l)
    BY <1>1 DEF SetHotUpdateConfig
  <2>2. pc' \in [Pods -> [Threads -> PCs]]
    BY <2>1, <1>t, GotoType
  <2>3. \E v \in AllVersions \cup {None}, u \in AllUrls \cup {None} :
          result' = [result EXCEPT ![p].Version = v, ![p].Url = u]
    <3>1. CASE GetPersistenceInfo(p) \subseteq {<<OriginVersion, OriginUrl>>}
      BY <1>1, <3>1 DEF SetHotUpdateConfig, AllVersions, AllUrls
    <3>2. CASE ~(GetPersistenceInfo(p) \subseteq {<<OriginVersion, OriginUrl>>})
      <4>1. PICK i \in Newest(GetPersistenceInfo(p)) :
              result' = [result EXCEPT ![p].Version = i[1], ![p].Url = i[2]]
        BY <1>1, <3>2 DEF SetHotUpdateConfig
      <4> QED
        BY <4>1, RecoverType
    <3> QED
      BY <3>1, <3>2
  <2>4. result' \in [Pods -> Results]
    <3>1. PICK v \in AllVersions \cup {None}, u \in AllUrls \cup {None} :
            result' = [result EXCEPT ![p].Version = v, ![p].Url = u]
      BY <2>3
    <3>2. result[p] \in Results
      BY DEF TypeOK
    <3>3. [result[p] EXCEPT !.Version = v, !.Url = u] \in Results
      BY <3>2, ResultFields
    <3>4. result' = [result EXCEPT ![p] = [result[p] EXCEPT !.Version = v, !.Url = u]]
      BY <3>1 DEF TypeOK
    <3> QED
      BY <3>3, <3>4, ResultType
  <2> QED
    BY <1>1, <2>2, <2>4 DEF SetHotUpdateConfig, TypeOK, outside, counts
<1>2. CASE Listen(p)
  <2>1. pc' \in [Pods -> [Threads -> PCs]]
    BY <1>2, <1>t, GotoType DEF Listen
  <2> QED
    BY <1>2, <2>1 DEF Listen, TypeOK, outside, counts
<1>3. CASE Exit(p)
  BY <1>3, RestartType DEF Exit, TypeOK, LocalType, outside, counts
<1>4. CASE Crash(p)
  <2>1. LocalType' /\ result' \in [Pods -> Results]
    BY <1>4, RestartType DEF Crash
  <2>2. faults' \in Nat /\ requests' \in Nat /\ delays' \in Nat
    BY <1>4 DEF Crash, Fault, TypeOK
  <2> QED
    BY <1>4, <2>1, <2>2 DEF Crash, TypeOK, LocalType, outside
<1>5. CASE Recreate(p)
  <2>1. RestartProcess(p)
    BY <1>5 DEF Recreate
  <2>2. files' \in [Pods -> [Files -> Contents]] /\ loaded' \in [Pods -> [Files -> Contents]]
    BY <1>5, ZeroValues DEF Recreate, TypeOK
  <2>3. anno' \in [Pods -> Outcomes]
    BY <1>5 DEF Recreate, TypeOK, Outcomes
  <2>4. LocalType' /\ result' \in [Pods -> Results]
    BY <2>1, RestartType
  <2>5. faults' \in Nat /\ requests' \in Nat /\ delays' \in Nat
    BY <1>5 DEF Recreate, Fault, TypeOK
  <2> QED
    BY <1>5, <2>2, <2>3, <2>4, <2>5 DEF Recreate, TypeOK, LocalType
<1> QED
  BY <1>1, <1>2, <1>3, <1>4, <1>5 DEF StartStep

LEMMA RequestType ==
  ASSUME IndInv, NEW p \in Pods, NEW h \in Handlers, NEW r \in Requests,
         Request(p, h, r)
  PROVE  TypeOK'
<1> USE DEF IndInv
<1>1. CASE RejectRequest(p, h, r)
  BY <1>1 DEF RejectRequest, TypeOK, vars
<1>2. CASE ReceiveRequest(p, h, r)
  <2>1. r.version \in Versions /\ r.url \in Urls \cup {None}
    BY <1>2 DEF ReceiveRequest, Malformed, Requests
  <2>2. pc' \in [Pods -> [Threads -> PCs]]
    BY <1>2, GotoType DEF ReceiveRequest, Threads, PCs
  <2>3. frame' \in [Pods -> [Threads -> Frame]]
    <3>1. h \in Threads /\ frame[p][h] \in Frame
      BY DEF TypeOK, Threads
    <3>2. [frame[p][h] EXCEPT !.version = r.version, !.url = r.url] \in Frame
      BY <2>1, <3>1, FrameFields
    <3>3. frame' = [frame EXCEPT ![p][h] =
                      [frame[p][h] EXCEPT !.version = r.version, !.url = r.url]]
      BY <1>2, <3>1 DEF ReceiveRequest, TypeOK
    <3> QED
      BY <3>1, <3>2, <3>3, FrameType
  <2>4. result' \in [Pods -> Results]
    BY <1>2, <2>1 DEF ReceiveRequest, TypeOK, AllVersions, Results
  <2>5. asked' \subseteq Versions \X Urls
    BY <1>2, <2>1 DEF ReceiveRequest, TypeOK
  <2> QED
    BY <1>2, <2>2, <2>3, <2>4, <2>5 DEF ReceiveRequest, TypeOK, outside
<1> QED
  BY <1>1, <1>2 DEF Request

LEMMA StepType ==
  ASSUME IndInv, NEW p \in Pods, NEW t \in Threads, Step(p, t)
  PROVE  TypeOK'
<1> USE DEF IndInv
<1>pcs. {"path", "fetch", "save", "load", "report", "store", "patch", "pair",
         "get", "put"} \subseteq PCs
  BY DEF PCs
<1>1. CASE SetUrl(p, t)
  <2>1. CASE frame[p][t].url = None
    BY <1>1, <2>1, ReturnType DEF SetUrl, TypeOK, LocalType, outside, counts
  <2>2. CASE frame[p][t].url # None
    <3>1. pc' \in [Pods -> [Threads -> PCs]]
      BY <1>1, <2>2, <1>pcs, GotoType DEF SetUrl
    <3>2. frame[p][t].url \in AllUrls
      BY <2>2 DEF TypeOK, Frame, AllUrls
    <3>3. result' \in [Pods -> Results]
      <4>1. result[p] \in Results
        BY DEF TypeOK
      <4>2. [result[p] EXCEPT !.Url = frame[p][t].url] \in Results
        BY <3>2, <4>1, ResultFields
      <4>3. result' = [result EXCEPT ![p] = [result[p] EXCEPT !.Url = frame[p][t].url]]
        BY <1>1, <2>2 DEF SetUrl
      <4> QED
        BY <4>2, <4>3, ResultType
    <3> QED
      BY <1>1, <2>2, <3>1, <3>3 DEF SetUrl, TypeOK, outside, counts
  <2> QED
    BY <2>1, <2>2
<1>2. CASE PrepareFile(p, t)
  <2>1. CASE result[p].Url \in Urls
    <3>1. FileOf[result[p].Url] \in Files
      BY <2>1 DEF Files
    <3>2. pc' \in [Pods -> [Threads -> PCs]]
      BY <1>2, <2>1, <1>pcs, GotoType DEF PrepareFile
    <3>3. frame' \in [Pods -> [Threads -> Frame]]
      <4>1. frame[p][t] \in Frame
        BY DEF TypeOK
      <4>2. [frame[p][t] EXCEPT !.path = FileOf[result[p].Url]] \in Frame
        BY <3>1, <4>1, FrameFields
      <4>3. frame' = [frame EXCEPT ![p][t] =
                        [frame[p][t] EXCEPT !.path = FileOf[result[p].Url]]]
        BY <1>2, <2>1 DEF PrepareFile
      <4> QED
        BY <4>2, <4>3, FrameType
    <3>4. files' \in [Pods -> [Files -> Contents]]
      <4>1. files' = [files EXCEPT ![p][FileOf[result[p].Url]] = None]
        BY <1>2, <2>1 DEF PrepareFile
      <4>2. None \in Contents
        BY DEF Contents
      <4> QED
        BY <3>1, <4>1, <4>2 DEF TypeOK
    <3> QED
      BY <1>2, <2>1, <3>2, <3>3, <3>4 DEF PrepareFile, TypeOK, counts
  <2>2. CASE result[p].Url \notin Urls
    BY <1>2, <2>2, ReturnType DEF PrepareFile, TypeOK, LocalType, counts
  <2> QED
    BY <2>1, <2>2
<1>3. CASE FetchFile(p, t)
  <2>1. result[p].Url \in Contents
    BY <1>3 DEF FetchFile, FlowInv, HandlerKnows, StartKnows, Downloading,
                Threads, Contents
  <2>2. pc' \in [Pods -> [Threads -> PCs]]
    BY <1>3, <1>pcs, GotoType DEF FetchFile
  <2>3. frame' \in [Pods -> [Threads -> Frame]]
    <3>1. frame[p][t] \in Frame
      BY DEF TypeOK
    <3>2. [frame[p][t] EXCEPT !.body = result[p].Url] \in Frame
      BY <2>1, <3>1, FrameFields
    <3> QED
      BY <1>3, <3>2, FrameType DEF FetchFile
  <2> QED
    BY <1>3, <2>2, <2>3 DEF FetchFile, TypeOK, outside, counts
<1>4. CASE SaveFile(p, t)
  <2>1. pc' \in [Pods -> [Threads -> PCs]]
    BY <1>4, <1>pcs, GotoType DEF SaveFile
  <2>2. frame[p][t].body \in Contents
    BY DEF TypeOK, Frame
  <2>3. files' \in [Pods -> [Files -> Contents]]
    BY <1>4, <2>2 DEF SaveFile, TypeOK
  <2> QED
    BY <1>4, <2>1, <2>3 DEF SaveFile, TypeOK, counts
<1>5. CASE LoadBySignal(p, t)
  <2>1. pc' \in [Pods -> [Threads -> PCs]]
    BY <1>5, <1>pcs, GotoType DEF LoadBySignal
  <2> QED
    BY <1>5, <2>1 DEF LoadBySignal, TypeOK, counts
<1>6. CASE LoadByRequest(p, t)
  <2>1. pc' \in [Pods -> [Threads -> PCs]]
    BY <1>6, <1>pcs, GotoType DEF LoadByRequest
  <2> QED
    BY <1>6, <2>1 DEF LoadByRequest, TypeOK, outside, counts
<1>7. CASE ReportSuccess(p, t)
  <2>1. pc' \in [Pods -> [Threads -> PCs]]
    BY <1>7, <1>pcs, GotoType DEF ReportSuccess
  <2>2. <<result[p].Version, "success">> \in Outcomes
    BY DEF TypeOK, Outcomes, Results
  <2>3. result' \in [Pods -> Results]
    BY <1>7, <2>2 DEF ReportSuccess, TypeOK, Results
  <2> QED
    BY <1>7, <2>1, <2>3 DEF ReportSuccess, TypeOK, outside, counts
<1>8. CASE ReadResult(p, t)
  <2>1. pc' \in [Pods -> [Threads -> PCs]]
    BY <1>8, <1>pcs, GotoType DEF ReadResult
  <2>2. frame' \in [Pods -> [Threads -> Frame]]
    <3>1. frame[p][t] \in Frame /\ result[p].Result \in Outcomes
      BY DEF TypeOK, Results
    <3>2. [frame[p][t] EXCEPT !.data = result[p].Result] \in Frame
      BY <3>1, FrameFields
    <3> QED
      BY <1>8, <3>2, FrameType DEF ReadResult
  <2> QED
    BY <1>8, <2>1, <2>2 DEF ReadResult, TypeOK, outside, counts
<1>9. CASE PatchPod(p, t)
  <2>1. pc' \in [Pods -> [Threads -> PCs]]
    BY <1>9, <1>pcs, GotoType DEF PatchPod
  <2>2. anno' \in [Pods -> Outcomes]
    BY <1>9 DEF PatchPod, TypeOK, Frame
  <2> QED
    BY <1>9, <2>1, <2>2 DEF PatchPod, TypeOK, counts
<1>10. CASE ReadPair(p, t)
  <2>1. pc' \in [Pods -> [Threads -> PCs]]
    BY <1>10, <1>pcs, GotoType DEF ReadPair
  <2>2. put' \in [Pods -> [Threads -> Puts]]
    <3>1. /\ put[p][t] \in Puts
          /\ result[p].Version \in AllVersions \cup {None}
          /\ result[p].Url \in AllUrls \cup {None}
      BY DEF TypeOK, Results
    <3>2. [put[p][t] EXCEPT !.version = result[p].Version,
                            !.url = result[p].Url] \in Puts
      BY <3>1, PutFields
    <3>3. put' = [put EXCEPT ![p][t] =
                    [put[p][t] EXCEPT !.version = result[p].Version,
                                      !.url = result[p].Url]]
      BY <1>10 DEF ReadPair, TypeOK
    <3> QED
      BY <3>2, <3>3, PutType
  <2> QED
    BY <1>10, <2>1, <2>2 DEF ReadPair, TypeOK, outside, counts
<1>11. CASE GetConfigmap(p, t)
  <2>1. pc' \in [Pods -> [Threads -> PCs]]
    BY <1>11, <1>pcs, GotoType DEF GetConfigmap
  <2>2. put' \in [Pods -> [Threads -> Puts]]
    <3>1. put[p][t] \in Puts /\ cm.rv \in Nat /\ cm.data \in Data
      BY DEF TypeOK
    <3>2. [put[p][t] EXCEPT !.rv = cm.rv, !.data = cm.data] \in Puts
      BY <3>1, PutFields
    <3>3. put' = [put EXCEPT ![p][t] =
                    [put[p][t] EXCEPT !.rv = cm.rv, !.data = cm.data]]
      BY <1>11 DEF GetConfigmap, TypeOK
    <3> QED
      BY <3>2, <3>3, PutType
  <2> QED
    BY <1>11, <2>1, <2>2 DEF GetConfigmap, TypeOK, outside, counts
<1>12. CASE UpdateConfigmap(p, t)
  <2>1. put[p][t] \in Puts
    BY DEF TypeOK
  <2>2. cm' \in [rv : Nat, data : Data]
    BY <1>12, <2>1, ApplyType DEF UpdateConfigmap
  <2> QED
    BY <1>12, <2>2, ReturnType
    DEF UpdateConfigmap, TypeOK, LocalType, outside, counts
<1>13. CASE UpdateConflict(p, t)
  BY <1>13, ReturnType
  DEF UpdateConflict, TypeOK, LocalType, outside, counts
<1> QED
  BY <1>1, <1>2, <1>3, <1>4, <1>5, <1>6, <1>7, <1>8, <1>9, <1>10, <1>11,
     <1>12, <1>13 DEF Step

LEMMA FaultType ==
  ASSUME IndInv, NEW p \in Pods, NEW t \in Threads, ThreadFault(p, t)
  PROVE  TypeOK'
<1> USE DEF IndInv
<1>pcs. "save" \in PCs
  BY DEF PCs
<1>counts. /\ Fault => faults' \in Nat /\ requests' \in Nat /\ delays' \in Nat
           /\ Delay(p, t) => faults' \in Nat /\ requests' \in Nat /\ delays' \in Nat
  BY DEF Fault, Delay, TypeOK
<1>wire. Delay(p, t) => wire' \subseteq Pods \X Puts
  BY DEF Delay, TypeOK
<1>1. CASE FetchErrorPage(p, t)
  <2>1. pc' \in [Pods -> [Threads -> PCs]]
    BY <1>1, <1>pcs, GotoType DEF FetchErrorPage
  <2>2. frame[p][t] \in Frame /\ ErrorPage \in Contents
    BY DEF TypeOK, Contents
  <2>3. [frame[p][t] EXCEPT !.body = ErrorPage] \in Frame
    BY <2>2, FrameFields
  <2>4. frame' \in [Pods -> [Threads -> Frame]]
    BY <1>1, <2>3, FrameType DEF FetchErrorPage
  <2> QED
    BY <1>1, <1>counts, <2>1, <2>4 DEF FetchErrorPage, TypeOK, outside
<1>2. CASE SaveFails(p, t)
  <2>1. LocalType'
    BY <1>2, ReturnType DEF SaveFails
  <2>2. files' \in [Pods -> [Files -> Contents]]
    BY <1>2 DEF SaveFails, TypeOK, Contents
  <2> QED
    BY <1>2, <1>counts, <2>1, <2>2 DEF SaveFails, TypeOK, LocalType
<1>3. CASE LoadFails(p, t)
  <2>1. LocalType'
    BY <1>3, ReturnType DEF LoadFails
  <2>2. result[p] \in Results /\ <<result[p].Version, "failed">> \in Outcomes
    BY DEF TypeOK, Results, Outcomes
  <2>3. [result[p] EXCEPT !.Result = <<result[p].Version, "failed">>] \in Results
    BY <2>2, ResultFields
  <2>4. result' \in [Pods -> Results]
    BY <1>3, <2>3, ResultType DEF LoadFails
  <2> QED
    BY <1>3, <1>counts, <2>1, <2>4 DEF LoadFails, TypeOK, LocalType, outside
<1>4. CASE CallFails(p, t)
  <2>1. LocalType'
    BY <1>4, ReturnType DEF CallFails
  <2> QED
    BY <1>4, <1>counts, <2>1 DEF CallFails, TypeOK, LocalType, outside
<1>5. CASE UpdateReplyLost(p, t)
  <2>1. LocalType'
    BY <1>5, ReturnType DEF UpdateReplyLost
  <2> QED
    BY <1>5, <1>counts, <1>wire, <2>1
    DEF UpdateReplyLost, TypeOK, LocalType, outside
<1>6. CASE CrashDuringUpdate(p, t)
  <2>1. LocalType' /\ result' \in [Pods -> Results]
    BY <1>6, RestartType DEF CrashDuringUpdate
  <2> QED
    BY <1>6, <1>counts, <1>wire, <2>1
    DEF CrashDuringUpdate, TypeOK, LocalType, outside
<1> QED
  BY <1>1, <1>2, <1>3, <1>4, <1>5, <1>6 DEF ThreadFault

LEMMA DeliverType ==
  ASSUME IndInv, NEW m \in wire, DeliverLate(m)
  PROVE  TypeOK'
<1> USE DEF IndInv
<1>1. m[1] \in Pods /\ m[2] \in Puts
  BY DEF TypeOK
<1>2. cm' \in [rv : Nat, data : Data]
  BY <1>1, ApplyType DEF DeliverLate, TypeOK
<1> QED
  BY <1>2 DEF DeliverLate, TypeOK, local, outside, counts

LEMMA InitType == Init => TypeOK
<1> SUFFICES ASSUME Init PROVE TypeOK
  OBVIOUS
<1>1. cm \in [rv : Nat, data : Data]
  BY ZeroValues DEF Init
<1>2. /\ pc \in [Pods -> [Threads -> PCs]]
      /\ frame \in [Pods -> [Threads -> Frame]]
      /\ put \in [Pods -> [Threads -> Puts]]
  BY ZeroValues DEF Init
<1>3. /\ result \in [Pods -> Results]
      /\ files \in [Pods -> [Files -> Contents]]
      /\ loaded \in [Pods -> [Files -> Contents]]
      /\ anno \in [Pods -> Outcomes]
  BY ZeroValues DEF Init, Outcomes
<1> QED
  BY <1>1, <1>2, <1>3 DEF Init, TypeOK

LEMMA NextType ==
  ASSUME IndInv, [Next]_vars
  PROVE  TypeOK'
<1>1. CASE Next
  BY <1>1, StartStepType, RequestType, StepType, FaultType, DeliverType DEF Next
<1>2. CASE UNCHANGED vars
  BY <1>2 DEF IndInv, TypeOK, vars
<1> QED
  BY <1>1, <1>2

-----------------------------------------------------------------------------
(* What a step of goroutine t of pod p does to the state FlowInv and       *)
(* PutsFresh are about.                                                    *)

\* No other goroutine moves.
Moves(p, t, l) ==
  /\ pc'[p][t] = l
  /\ \A q \in Pods, s \in Threads : q # p \/ s # t => pc'[q][s] = pc[q][s]

SameResult ==
  \A q \in Pods : /\ result'[q].Version = result[q].Version
                  /\ result'[q].Url = result[q].Url

SameFrame(q, s) == /\ frame'[q][s].version = frame[q][s].version
                   /\ frame'[q][s].url = frame[q][s].url

\* The steps that only go on with a download or with storeData.
QuietMoves ==
  {<<"path", "fetch">>, <<"fetch", "save">>, <<"save", "load">>,
   <<"load", "report">>, <<"load", "store">>, <<"report", "store">>,
   <<"store", "patch">>, <<"patch", "pair">>}

Quiet(p, t, l, m) ==
  /\ pc[p][t] = l /\ Moves(p, t, m)
  /\ l = "path" => result[p].Url \in Urls
  /\ SameResult
  /\ \A q \in Pods, s \in Threads : SameFrame(q, s)
  /\ UNCHANGED <<put, cm, wire>>

\* The steps that end a goroutine's work.
Ends(p, t) ==
  /\ pc[p][t] \notin {"idle", "serving", "stopped"}
  /\ \/ t # Start /\ Moves(p, t, "idle")
     \/ t = Start /\ (Moves(p, t, "listen") \/ Moves(p, t, "stopped"))
  /\ SameResult
  /\ \A q \in Pods, s \in Threads :
       q # p \/ s # t => SameFrame(q, s) /\ put'[q][s] = put[q][s]

LEMMA GotoMoves ==
  ASSUME TypeOK, NEW p \in Pods, NEW t \in Threads, NEW l, Goto(p, t, l)
  PROVE  Moves(p, t, l)
  BY DEF TypeOK, Goto, Moves

LEMMA ReturnEnds ==
  ASSUME TypeOK, NEW p \in Pods, NEW t \in Threads, Finish(p, t) \/ Abort(p, t),
         pc[p][t] \notin {"idle", "serving", "stopped"}, SameResult
  PROVE  Ends(p, t)
<1>1. PICK l : /\ Return(p, t, l)
               /\ t # Start => l = "idle"
               /\ t = Start => l \in {"listen", "stopped"}
  BY DEF Finish, Abort
<1>2. Moves(p, t, l)
  BY <1>1, GotoMoves DEF Return
<1>3. \A q \in Pods, s \in Threads :
        q # p \/ s # t => frame'[q][s] = frame[q][s] /\ put'[q][s] = put[q][s]
  BY <1>1 DEF Return, TypeOK
<1> QED
  BY <1>1, <1>2, <1>3 DEF Ends, SameFrame

LEMMA QuietFlow ==
  ASSUME IndInv, NEW p \in Pods, NEW t \in Threads,
         NEW l, NEW m, <<l, m>> \in QuietMoves, Quiet(p, t, l, m)
  PROVE  FlowInv' /\ PutsFresh'
<1> USE DEF IndInv, FlowInv
<1>t. Start \in Threads /\ Handlers \subseteq Threads /\ Start \notin Handlers
  BY NamesAssumption DEF Threads
<1>1. Places'
  BY <1>t DEF Places, Quiet, Moves, QuietMoves, PCs, StartPCs, HandlerPCs
<1>2. HandlerKnows'
  BY <1>t DEF HandlerKnows, Quiet, Moves, QuietMoves, SameResult, SameFrame
<1>3. StartKnows'
  BY <1>t, NamesAssumption
  DEF StartKnows, Quiet, Moves, QuietMoves, SameResult, Downloading, Recording, Pairs
<1>4. PutsPairs'
  BY DEF PutsPairs, Quiet, Moves, QuietMoves
<1>5. RecordsPairs'
  BY DEF RecordsPairs, Quiet
<1>6. PutsFresh'
  BY DEF PutsFresh, Fresh, Quiet, Moves, QuietMoves
<1> QED
  BY <1>1, <1>2, <1>3, <1>4, <1>5, <1>6

\* The ConfigMap and the updates on the wire are left to the caller.
LEMMA EndsFlow ==
  ASSUME IndInv, NEW p \in Pods, NEW t \in Threads, Ends(p, t)
  PROVE  /\ Places' /\ HandlerKnows' /\ StartKnows'
         /\ \A q \in Pods, s \in Threads :
              pc'[q][s] \in {"get", "put"} =>
                put'[q][s] = put[q][s] /\ pc[q][s] = pc'[q][s]
<1> USE DEF IndInv, FlowInv
<1>t. Start \in Threads /\ Handlers \subseteq Threads /\ Start \notin Handlers
  BY NamesAssumption DEF Threads
<1>1. Places'
  BY <1>t DEF Places, Ends, Moves, PCs, StartPCs, HandlerPCs
<1>2. HandlerKnows'
  BY <1>t DEF HandlerKnows, Ends, Moves, SameResult, SameFrame
<1>3. StartKnows'
  BY <1>t DEF StartKnows, Ends, Moves, SameResult, Downloading, Recording
<1>4. \A q \in Pods, s \in Threads :
        pc'[q][s] \in {"get", "put"} =>
          put'[q][s] = put[q][s] /\ pc[q][s] = pc'[q][s]
  BY DEF Ends, Moves
<1> QED
  BY <1>1, <1>2, <1>3, <1>4

LEMMA RestartFlow ==
  ASSUME IndInv, NEW p \in Pods, RestartProcess(p)
  PROVE  /\ Places' /\ HandlerKnows' /\ StartKnows'
         /\ \A q \in Pods, s \in Threads :
              pc'[q][s] \in {"get", "put"} =>
                put'[q][s] = put[q][s] /\ pc[q][s] = pc'[q][s]
<1> USE DEF IndInv, FlowInv
<1>t. Start \in Threads /\ Handlers \subseteq Threads /\ Start \notin Handlers
  BY NamesAssumption DEF Threads
<1>1. \A s \in Threads : pc'[p][s] = IF s = Start THEN "start" ELSE "idle"
  BY DEF RestartProcess, NewProcess, TypeOK
<1>2. \A q \in Pods \ {p} : /\ pc'[q] = pc[q] /\ result'[q] = result[q]
                            /\ frame'[q] = frame[q] /\ put'[q] = put[q]
  BY DEF RestartProcess, TypeOK
<1>3. Places'
  BY <1>t, <1>1, <1>2 DEF Places, PCs, StartPCs, HandlerPCs
<1>4. HandlerKnows'
  BY <1>t, <1>1, <1>2 DEF HandlerKnows
<1>5. StartKnows'
  BY <1>t, <1>1, <1>2 DEF StartKnows, Downloading, Recording
<1>6. \A q \in Pods, s \in Threads :
        pc'[q][s] \in {"get", "put"} =>
          put'[q][s] = put[q][s] /\ pc[q][s] = pc'[q][s]
  BY <1>1, <1>2
<1> QED
  BY <1>3, <1>4, <1>5, <1>6

-----------------------------------------------------------------------------
(* The ConfigMap: an accepted update was prepared from the current data,   *)
(* so it sets its own pair and nothing else.                               *)

LEMMA ApplyPair ==
  ASSUME IndInv, NEW p \in Pods, NEW w \in Puts, Fresh(w), Accepts(w), Apply(p, w),
         <<w.version, w.url>> \in Pairs
  PROVE  /\ w.version \in AllVersions /\ w.url \in AllUrls
         /\ cm'.data = [cm.data EXCEPT ![p][w.version] = w.url]
         /\ RecordsPairs'
         /\ \A x \in Puts : Fresh(x) => Fresh(x)'
<1> USE DEF IndInv, FlowInv
<1>1. w.version \in AllVersions /\ w.url \in AllUrls
  BY DEF Pairs, AllVersions, AllUrls
<1>2. w.data = cm.data /\ cm.data \in Data /\ cm.rv \in Nat
  BY DEF Fresh, Accepts, TypeOK
<1>3. cm'.data = [cm.data EXCEPT ![p][w.version] = w.url]
  BY <1>2 DEF Apply, Merged
<1>4. RecordsPairs'
  <2> SUFFICES ASSUME NEW q \in Pods, NEW v \in AllVersions, cm'.data[q][v] # None
               PROVE  <<v, cm'.data[q][v]>> \in Pairs
    BY DEF RecordsPairs
  <2>1. CASE q = p /\ v = w.version
    BY <1>1, <1>2, <1>3, <2>1 DEF Data
  <2>2. CASE ~(q = p /\ v = w.version)
    <3>1. cm'.data[q][v] = cm.data[q][v]
      BY <1>1, <1>2, <1>3, <2>2 DEF Data
    <3> QED
      BY <3>1 DEF RecordsPairs
  <2> QED
    BY <2>1, <2>2
<1>5. \A x \in Puts : Fresh(x) => Fresh(x)'
  <2> SUFFICES ASSUME NEW x \in Puts, Fresh(x)
               PROVE  Fresh(x)'
    OBVIOUS
  <2>1. x.rv \in Nat
    BY DEF Puts
  <2>2. CASE Merged(p, w) = cm.data
    <3>1. cm'.rv = cm.rv /\ cm'.data = cm.data
      BY <2>2 DEF Apply
    <3> QED
      BY <3>1 DEF Fresh
  <2>3. CASE Merged(p, w) # cm.data
    <3>1. cm'.rv = cm.rv + 1
      BY <2>3 DEF Apply
    <3> QED
      BY <1>2, <2>1, <3>1 DEF Fresh
  <2> QED
    BY <2>2, <2>3
<1> QED
  BY <1>1, <1>3, <1>4, <1>5

\* Steps that leave the ConfigMap and the wire alone and give no goroutine
\* an update to send.
LEMMA IdleWrites ==
  ASSUME IndInv, UNCHANGED <<cm, wire>>,
         \A q \in Pods, s \in Threads :
           pc'[q][s] \in {"get", "put"} =>
             put'[q][s] = put[q][s] /\ pc[q][s] = pc'[q][s]
  PROVE  PutsPairs' /\ RecordsPairs' /\ PutsFresh'
<1> USE DEF IndInv, FlowInv
<1>1. PutsPairs'
  BY DEF PutsPairs
<1>2. RecordsPairs'
  BY DEF RecordsPairs
<1>3. PutsFresh'
  BY DEF PutsFresh, Fresh
<1> QED
  BY <1>1, <1>2, <1>3

LEMMA EndStep ==
  ASSUME IndInv, NEW p \in Pods, NEW t \in Threads, Finish(p, t) \/ Abort(p, t),
         pc[p][t] \notin {"idle", "serving", "stopped"}, SameResult,
         UNCHANGED <<cm, wire>>
  PROVE  FlowInv' /\ PutsFresh'
<1>1. Ends(p, t)
  BY ReturnEnds DEF IndInv
<1> QED
  BY <1>1, EndsFlow, IdleWrites DEF FlowInv

-----------------------------------------------------------------------------
(* Every kind of step keeps FlowInv and PutsFresh.                         *)

LEMMA StartStepFlow ==
  ASSUME IndInv, NEW p \in Pods, StartStep(p) \/ Crash(p) \/ Recreate(p)
  PROVE  FlowInv' /\ PutsFresh'
<1> USE DEF IndInv, FlowInv
<1>t. Start \in Threads /\ Handlers \subseteq Threads /\ Start \notin Handlers
  BY NamesAssumption DEF Threads
<1>1. CASE SetHotUpdateConfig(p)
  <2> DEFINE l == IF GetPersistenceInfo(p) \subseteq {<<OriginVersion, OriginUrl>>}
                  THEN "pair" ELSE "path"
  <2>1. Moves(p, Start, l) /\ pc[p][Start] = "start"
    BY <1>1, <1>t, GotoMoves DEF SetHotUpdateConfig
  <2>2. \A q \in Pods \ {p} : result'[q] = result[q]
    BY <1>1 DEF SetHotUpdateConfig, TypeOK
  <2>3. IF l = "pair"
          THEN <<result'[p].Version, result'[p].Url>> \in Pairs
          ELSE \/ <<result'[p].Version, result'[p].Url>> \in Versions \X Urls
               \/ result'[p].Url = None
    <3>1. CASE GetPersistenceInfo(p) \subseteq {<<OriginVersion, OriginUrl>>}
      <4>1. result' = [result EXCEPT ![p].Version = OriginVersion, ![p].Url = OriginUrl]
        BY <1>1, <3>1 DEF SetHotUpdateConfig
      <4>2. result'[p].Version = OriginVersion /\ result'[p].Url = OriginUrl
        BY <4>1 DEF TypeOK, Results
      <4> QED
        BY <3>1, <4>2 DEF Pairs
    <3>2. CASE ~(GetPersistenceInfo(p) \subseteq {<<OriginVersion, OriginUrl>>})
      <4>1. PICK i \in Newest(GetPersistenceInfo(p)) :
              result' = [result EXCEPT ![p].Version = i[1], ![p].Url = i[2]]
        BY <1>1, <3>2 DEF SetHotUpdateConfig
      <4>2. result'[p].Version = i[1] /\ result'[p].Url = i[2]
        BY <4>1 DEF TypeOK, Results
      <4>3. i = <<None, None>> \/ (i \in GetPersistenceInfo(p) /\ RankOf(i[1]) > 0)
        BY DEF Newest
      <4>4. CASE i = <<None, None>>
        BY <3>2, <4>2, <4>4
      <4>5. CASE i \in GetPersistenceInfo(p) /\ RankOf(i[1]) > 0
        <5>1. PICK q \in Pods : i \in Recorded(q)
          BY <4>5 DEF GetPersistenceInfo
        <5>2. PICK v \in AllVersions : i = <<v, cm.data[q][v]>> /\ cm.data[q][v] # None
          BY <5>1 DEF Recorded
        <5>3. i \in Pairs
          BY <5>2 DEF RecordsPairs
        <5>4. i[1] \in Versions
          BY <4>5 DEF RankOf
        <5>5. <<i[1], i[2]>> \in Versions \X Urls
          BY <5>3, <5>4, NamesAssumption DEF Pairs
        <5> QED
          BY <3>2, <4>2, <5>5
      <4> QED
        BY <4>3, <4>4, <4>5
    <3> QED
      BY <3>1, <3>2
  <2>4. UNCHANGED <<cm, wire, frame, put>>
    BY <1>1 DEF SetHotUpdateConfig
  <2>5. Places'
    BY <1>t, <2>1 DEF Places, Moves, PCs, StartPCs, HandlerPCs
  <2>6. HandlerKnows'
    <3>1. \A h \in Handlers : pc'[p][h] = "idle"
      BY <1>t, <2>1 DEF Places, Moves
    <3> QED
      BY <1>t, <2>1, <2>2, <2>4, <3>1 DEF HandlerKnows, Moves
  <2>7. StartKnows'
    BY <1>t, <2>1, <2>2, <2>3 DEF StartKnows, Moves, Downloading, Recording
  <2>8. \A q \in Pods, s \in Threads :
          pc'[q][s] \in {"get", "put"} =>
            put'[q][s] = put[q][s] /\ pc[q][s] = pc'[q][s]
    BY <2>1, <2>4 DEF Moves
  <2> QED
    BY <2>4, <2>5, <2>6, <2>7, <2>8, IdleWrites
<1>2. CASE Listen(p)
  <2>1. Moves(p, Start, "serving") /\ pc[p][Start] = "listen"
    BY <1>2, <1>t, GotoMoves DEF Listen
  <2>2. UNCHANGED <<cm, wire, frame, put, result>>
    BY <1>2 DEF Listen
  <2>3. Places'
    BY <1>t, <2>1 DEF Places, Moves, PCs, StartPCs, HandlerPCs
  <2>4. HandlerKnows'
    BY <1>t, <2>1, <2>2 DEF HandlerKnows, Moves
  <2>5. StartKnows'
    BY <1>t, <2>1, <2>2 DEF StartKnows, Moves, Downloading, Recording
  <2>6. \A q \in Pods, s \in Threads :
          pc'[q][s] \in {"get", "put"} =>
            put'[q][s] = put[q][s] /\ pc[q][s] = pc'[q][s]
    BY <2>1, <2>2 DEF Moves
  <2> QED
    BY <2>2, <2>3, <2>4, <2>5, <2>6, IdleWrites
<1>3. CASE Exit(p) \/ Crash(p) \/ Recreate(p)
  <2>1. RestartProcess(p) /\ UNCHANGED <<cm, wire>>
    BY <1>3 DEF Exit, Crash, Recreate
  <2> QED
    BY <2>1, RestartFlow, IdleWrites
<1> QED
  BY <1>1, <1>2, <1>3 DEF StartStep

LEMMA RequestFlow ==
  ASSUME IndInv, NEW p \in Pods, NEW h \in Handlers, NEW r \in Requests,
         Request(p, h, r)
  PROVE  FlowInv' /\ PutsFresh'
<1> USE DEF IndInv, FlowInv
<1>t. Start \in Threads /\ Handlers \subseteq Threads /\ Start \notin Handlers
  BY NamesAssumption DEF Threads
<1>1. CASE RejectRequest(p, h, r)
  BY <1>1 DEF RejectRequest, vars, Places, HandlerKnows, StartKnows, PutsPairs,
              RecordsPairs, PutsFresh, Fresh
<1>2. CASE ReceiveRequest(p, h, r)
  <2>1. r.version \in Versions
    BY <1>2 DEF ReceiveRequest, Malformed, Requests
  <2>2. Moves(p, h, "url") /\ pc[p][h] = "idle" /\ pc[p][Start] = "serving"
    BY <1>2, <1>t, GotoMoves DEF ReceiveRequest
  <2>3. /\ result'[p].Version = r.version /\ result'[p].Url = result[p].Url
        /\ \A q \in Pods \ {p} : result'[q] = result[q]
    BY <1>2 DEF ReceiveRequest, TypeOK, Results
  <2>4. /\ frame'[p][h].version = r.version
        /\ \A q \in Pods, s \in Threads : q # p \/ s # h => frame'[q][s] = frame[q][s]
    BY <1>2, <1>t DEF ReceiveRequest, TypeOK, Frame
  <2>5. UNCHANGED <<cm, wire, put>>
    BY <1>2 DEF ReceiveRequest
  <2>6. Places'
    BY <1>t, <2>2 DEF Places, Moves, PCs, StartPCs, HandlerPCs
  <2>7. HandlerKnows'
    BY <1>t, <2>1, <2>2, <2>3, <2>4 DEF HandlerKnows, Moves
  <2>8. StartKnows'
    BY <1>t, <2>2, <2>3 DEF StartKnows, Moves, Downloading, Recording
  <2>9. \A q \in Pods, s \in Threads :
          pc'[q][s] \in {"get", "put"} =>
            put'[q][s] = put[q][s] /\ pc[q][s] = pc'[q][s]
    BY <2>2, <2>5 DEF Moves
  <2> QED
    BY <2>5, <2>6, <2>7, <2>8, <2>9, IdleWrites
<1> QED
  BY <1>1, <1>2 DEF Request

LEMMA StepFlow ==
  ASSUME IndInv, NEW p \in Pods, NEW t \in Threads, Step(p, t)
  PROVE  FlowInv' /\ PutsFresh'
<1> USE DEF IndInv
<1>t. Start \in Threads /\ Handlers \subseteq Threads /\ Start \notin Handlers
  BY NamesAssumption DEF Threads
<1>1. CASE SetUrl(p, t)
  <2>1. CASE frame[p][t].url = None
    <3>1. SameResult
      BY <1>1, <2>1 DEF SetUrl, SameResult
    <3> QED
      BY <1>1, <2>1, <3>1, EndStep DEF SetUrl
  <2>2. CASE frame[p][t].url # None
    <3>1. t \in Handlers
      BY <1>1 DEF SetUrl, FlowInv, Places, StartPCs, Threads
    <3>2. frame[p][t].url \in Urls
      BY <2>2 DEF TypeOK, Frame
    <3>3. Moves(p, t, "path") /\ pc[p][t] = "url"
      BY <1>1, <2>2, GotoMoves DEF SetUrl
    <3>4. result' = [result EXCEPT ![p].Url = frame[p][t].url]
      BY <1>1, <2>2 DEF SetUrl
    <3>5. /\ result'[p].Version = result[p].Version
          /\ result'[p].Url = frame[p][t].url
          /\ \A q \in Pods \ {p} : result'[q] = result[q]
      BY <3>4 DEF TypeOK, Results
    <3>6. UNCHANGED <<cm, wire, frame, put>>
      BY <1>1, <2>2 DEF SetUrl
    <3>7. Places'
      BY <1>t, <3>1, <3>3 DEF FlowInv, Places, Moves, PCs, StartPCs, HandlerPCs
    <3>8. HandlerKnows'
      BY <1>t, <3>1, <3>2, <3>3, <3>5, <3>6 DEF FlowInv, HandlerKnows, Moves
    <3>9. StartKnows'
      BY <1>t, <3>1, <3>3, <3>5
      DEF FlowInv, Places, StartKnows, Moves, Downloading, Recording
    <3>10. \A q \in Pods, s \in Threads :
             pc'[q][s] \in {"get", "put"} =>
               put'[q][s] = put[q][s] /\ pc[q][s] = pc'[q][s]
      BY <3>3, <3>6 DEF Moves
    <3> QED
      BY <3>6, <3>7, <3>8, <3>9, <3>10, IdleWrites DEF FlowInv
  <2> QED
    BY <2>1, <2>2
<1>2. CASE PrepareFile(p, t)
  <2>1. CASE result[p].Url \in Urls
    <3>1. Moves(p, t, "fetch")
      BY <1>2, <2>1, GotoMoves DEF PrepareFile
    <3>2. frame' = [frame EXCEPT ![p][t].path = FileOf[result[p].Url]]
      BY <1>2, <2>1 DEF PrepareFile
    <3>3. SameResult /\ (\A q \in Pods, s \in Threads : SameFrame(q, s))
      BY <1>2, <3>2 DEF PrepareFile, SameResult, SameFrame, TypeOK, Frame
    <3>4. Quiet(p, t, "path", "fetch")
      BY <1>2, <2>1, <3>1, <3>3 DEF PrepareFile, Quiet
    <3> QED
      BY <3>4, QuietFlow DEF QuietMoves
  <2>2. CASE result[p].Url \notin Urls
    <3>1. SameResult
      BY <1>2 DEF PrepareFile, SameResult
    <3> QED
      BY <1>2, <2>2, <3>1, EndStep DEF PrepareFile
  <2> QED
    BY <2>1, <2>2
<1>3. CASE FetchFile(p, t)
  <2>1. Moves(p, t, "save")
    BY <1>3, GotoMoves DEF FetchFile
  <2>2. SameResult /\ (\A q \in Pods, s \in Threads : SameFrame(q, s))
    BY <1>3 DEF FetchFile, SameResult, SameFrame, TypeOK, Frame, Results
  <2>3. Quiet(p, t, "fetch", "save")
    BY <1>3, <2>1, <2>2 DEF FetchFile, Quiet
  <2> QED
    BY <2>3, QuietFlow DEF QuietMoves
<1>4. CASE SaveFile(p, t)
  <2>1. Moves(p, t, "load")
    BY <1>4, GotoMoves DEF SaveFile
  <2>2. SameResult /\ (\A q \in Pods, s \in Threads : SameFrame(q, s))
    BY <1>4 DEF SaveFile, SameResult, SameFrame, TypeOK, Frame, Results
  <2>3. Quiet(p, t, "save", "load")
    BY <1>4, <2>1, <2>2 DEF SaveFile, Quiet
  <2> QED
    BY <2>3, QuietFlow DEF QuietMoves
<1>5. CASE LoadBySignal(p, t)
  <2>1. Moves(p, t, "report")
    BY <1>5, GotoMoves DEF LoadBySignal
  <2>2. SameResult /\ (\A q \in Pods, s \in Threads : SameFrame(q, s))
    BY <1>5 DEF LoadBySignal, SameResult, SameFrame, TypeOK, Frame, Results
  <2>3. Quiet(p, t, "load", "report")
    BY <1>5, <2>1, <2>2 DEF LoadBySignal, Quiet
  <2> QED
    BY <2>3, QuietFlow DEF QuietMoves
<1>6. CASE LoadByRequest(p, t)
  <2>1. Moves(p, t, "store")
    BY <1>6, GotoMoves DEF LoadByRequest
  <2>2. SameResult /\ (\A q \in Pods, s \in Threads : SameFrame(q, s))
    BY <1>6 DEF LoadByRequest, SameResult, SameFrame, TypeOK, Frame, Results
  <2>3. Quiet(p, t, "load", "store")
    BY <1>6, <2>1, <2>2 DEF LoadByRequest, Quiet
  <2> QED
    BY <2>3, QuietFlow DEF QuietMoves
<1>7. CASE ReportSuccess(p, t)
  <2>1. Moves(p, t, "store")
    BY <1>7, GotoMoves DEF ReportSuccess
  <2>2. SameResult /\ (\A q \in Pods, s \in Threads : SameFrame(q, s))
    BY <1>7 DEF ReportSuccess, SameResult, SameFrame, TypeOK, Frame, Results
  <2>3. Quiet(p, t, "report", "store")
    BY <1>7, <2>1, <2>2 DEF ReportSuccess, Quiet
  <2> QED
    BY <2>3, QuietFlow DEF QuietMoves
<1>8. CASE ReadResult(p, t)
  <2>1. Moves(p, t, "patch")
    BY <1>8, GotoMoves DEF ReadResult
  <2>2. SameResult /\ (\A q \in Pods, s \in Threads : SameFrame(q, s))
    BY <1>8 DEF ReadResult, SameResult, SameFrame, TypeOK, Frame, Results
  <2>3. Quiet(p, t, "store", "patch")
    BY <1>8, <2>1, <2>2 DEF ReadResult, Quiet
  <2> QED
    BY <2>3, QuietFlow DEF QuietMoves
<1>9. CASE PatchPod(p, t)
  <2>1. Moves(p, t, "pair")
    BY <1>9, GotoMoves DEF PatchPod
  <2>2. SameResult /\ (\A q \in Pods, s \in Threads : SameFrame(q, s))
    BY <1>9 DEF PatchPod, SameResult, SameFrame, TypeOK, Frame, Results
  <2>3. Quiet(p, t, "patch", "pair")
    BY <1>9, <2>1, <2>2 DEF PatchPod, Quiet
  <2> QED
    BY <2>3, QuietFlow DEF QuietMoves
<1>10. CASE ReadPair(p, t)
  <2>1. Moves(p, t, "get") /\ pc[p][t] = "pair"
    BY <1>10, GotoMoves DEF ReadPair
  <2>2. /\ put'[p][t].version = result[p].Version /\ put'[p][t].url = result[p].Url
        /\ \A q \in Pods, s \in Threads : q # p \/ s # t => put'[q][s] = put[q][s]
    BY <1>10 DEF ReadPair, TypeOK, Puts
  <2>3. UNCHANGED <<cm, wire, frame, result>>
    BY <1>10 DEF ReadPair
  <2>4. <<result[p].Version, result[p].Url>> \in Pairs
    BY <2>1 DEF FlowInv, HandlerKnows, StartKnows, Recording, Threads, Pairs
  <2>5. Places'
    BY <1>t, <2>1 DEF FlowInv, Places, Moves, PCs, StartPCs, HandlerPCs
  <2>6. HandlerKnows'
    BY <1>t, <2>1, <2>3 DEF FlowInv, HandlerKnows, Moves
  <2>7. StartKnows'
    BY <1>t, <2>1, <2>3, <2>4 DEF FlowInv, StartKnows, Moves, Downloading, Recording
  <2>8. PutsPairs'
    BY <2>1, <2>2, <2>3, <2>4 DEF FlowInv, PutsPairs, Moves
  <2>9. RecordsPairs' /\ PutsFresh'
    BY <2>1, <2>2, <2>3 DEF FlowInv, RecordsPairs, PutsFresh, Fresh, Moves
  <2> QED
    BY <2>5, <2>6, <2>7, <2>8, <2>9 DEF FlowInv
<1>11. CASE GetConfigmap(p, t)
  <2>1. Moves(p, t, "put") /\ pc[p][t] = "get"
    BY <1>11, GotoMoves DEF GetConfigmap
  <2>2. /\ put'[p][t].version = put[p][t].version /\ put'[p][t].url = put[p][t].url
        /\ put'[p][t].rv = cm.rv /\ put'[p][t].data = cm.data
        /\ \A q \in Pods, s \in Threads : q # p \/ s # t => put'[q][s] = put[q][s]
    BY <1>11 DEF GetConfigmap, TypeOK, Puts
  <2>3. UNCHANGED <<cm, wire, frame, result>>
    BY <1>11 DEF GetConfigmap
  <2>4. cm.rv \in Nat
    BY DEF TypeOK
  <2>5. Places'
    BY <1>t, <2>1 DEF FlowInv, Places, Moves, PCs, StartPCs, HandlerPCs
  <2>6. HandlerKnows'
    BY <1>t, <2>1, <2>3 DEF FlowInv, HandlerKnows, Moves
  <2>7. StartKnows'
    BY <1>t, <2>1, <2>3 DEF FlowInv, StartKnows, Moves, Downloading, Recording
  <2>8. PutsPairs'
    BY <2>1, <2>2, <2>3 DEF FlowInv, PutsPairs, Moves
  <2>9. RecordsPairs' /\ PutsFresh'
    BY <2>1, <2>2, <2>3, <2>4 DEF FlowInv, RecordsPairs, PutsFresh, Fresh, Moves
  <2> QED
    BY <2>5, <2>6, <2>7, <2>8, <2>9 DEF FlowInv
<1>12. CASE UpdateConfigmap(p, t)
  <2> DEFINE w == put[p][t]
  <2>1. /\ w \in Puts /\ Fresh(w) /\ Accepts(w) /\ Apply(p, w)
        /\ <<w.version, w.url>> \in Pairs
    BY <1>12 DEF UpdateConfigmap, TypeOK, PutsFresh, FlowInv, PutsPairs
  <2>2. RecordsPairs' /\ \A x \in Puts : Fresh(x) => Fresh(x)'
    BY <2>1, ApplyPair
  <2>3. SameResult /\ wire' = wire
    BY <1>12 DEF UpdateConfigmap, SameResult
  <2>4. Ends(p, t)
    BY <1>12, <2>3, ReturnEnds DEF UpdateConfigmap
  <2>5. /\ Places' /\ HandlerKnows' /\ StartKnows'
        /\ \A q \in Pods, s \in Threads :
             pc'[q][s] \in {"get", "put"} =>
               put'[q][s] = put[q][s] /\ pc[q][s] = pc'[q][s]
    BY <2>4, EndsFlow
  <2>6. PutsPairs'
    BY <2>3, <2>5 DEF FlowInv, PutsPairs
  <2>7. PutsFresh'
    <3>1. \A q \in Pods, s \in Threads : pc'[q][s] = "put" => Fresh(put[q][s])'
      <4> SUFFICES ASSUME NEW q \in Pods, NEW s \in Threads, pc'[q][s] = "put"
                   PROVE  Fresh(put[q][s])'
        OBVIOUS
      <4>1. put'[q][s] = put[q][s] /\ pc[q][s] = "put"
        BY <2>5
      <4>2. Fresh(put[q][s]) /\ put[q][s] \in Puts
        BY <4>1 DEF PutsFresh, TypeOK
      <4> QED
        BY <2>2, <4>1, <4>2 DEF Fresh
    <3>2. \A m \in wire : Fresh(m[2])'
      BY <2>2 DEF PutsFresh, TypeOK, Fresh
    <3> QED
      BY <2>3, <3>1, <3>2 DEF PutsFresh, Fresh
  <2> QED
    BY <2>2, <2>5, <2>6, <2>7 DEF FlowInv
<1>13. CASE UpdateConflict(p, t)
  <2>1. SameResult
    BY <1>13 DEF UpdateConflict, SameResult
  <2> QED
    BY <1>13, <2>1, EndStep DEF UpdateConflict
<1> QED
  BY <1>1, <1>2, <1>3, <1>4, <1>5, <1>6, <1>7, <1>8, <1>9, <1>10, <1>11,
     <1>12, <1>13 DEF Step

LEMMA FaultFlow ==
  ASSUME IndInv, NEW p \in Pods, NEW t \in Threads, ThreadFault(p, t)
  PROVE  FlowInv' /\ PutsFresh'
<1> USE DEF IndInv
<1>delay. ASSUME Delay(p, t), UNCHANGED cm,
                 \A q \in Pods, s \in Threads :
                   pc'[q][s] \in {"get", "put"} =>
                     put'[q][s] = put[q][s] /\ pc[q][s] = pc'[q][s]
          PROVE  PutsPairs' /\ RecordsPairs' /\ PutsFresh'
  <2>1. pc[p][t] = "put" /\ wire' = wire \cup {<<p, put[p][t]>>}
    BY <1>delay DEF Delay
  <2>2. PutsPairs'
    BY <1>delay, <2>1 DEF FlowInv, PutsPairs
  <2>3. RecordsPairs'
    BY <1>delay DEF FlowInv, RecordsPairs
  <2>4. PutsFresh'
    BY <1>delay, <2>1 DEF PutsFresh, Fresh
  <2> QED
    BY <2>2, <2>3, <2>4
<1>1. CASE FetchErrorPage(p, t)
  <2>1. Moves(p, t, "save")
    BY <1>1, GotoMoves DEF FetchErrorPage
  <2>2. SameResult /\ (\A q \in Pods, s \in Threads : SameFrame(q, s))
    BY <1>1 DEF FetchErrorPage, SameResult, SameFrame, TypeOK, Frame, Results
  <2>3. Quiet(p, t, "fetch", "save")
    BY <1>1, <2>1, <2>2 DEF FetchErrorPage, Quiet
  <2> QED
    BY <2>3, QuietFlow DEF QuietMoves
<1>2. CASE SaveFails(p, t)
  <2>1. SameResult
    BY <1>2 DEF SaveFails, SameResult
  <2> QED
    BY <1>2, <2>1, EndStep DEF SaveFails
<1>4. CASE CallFails(p, t)
  <2>1. SameResult
    BY <1>4 DEF CallFails, SameResult
  <2> QED
    BY <1>4, <2>1, EndStep DEF CallFails, Fallible
<1>3. CASE LoadFails(p, t)
  <2>1. SameResult
    BY <1>3 DEF LoadFails, SameResult, TypeOK, Results
  <2> QED
    BY <1>3, <2>1, EndStep DEF LoadFails
<1>5. CASE UpdateReplyLost(p, t)
  <2>1. SameResult /\ Delay(p, t) /\ UNCHANGED cm
    BY <1>5 DEF UpdateReplyLost, SameResult
  <2>2. Ends(p, t)
    BY <1>5, <2>1, ReturnEnds DEF UpdateReplyLost, Delay
  <2> QED
    BY <1>delay, <2>1, <2>2, EndsFlow DEF FlowInv
<1>6. CASE CrashDuringUpdate(p, t)
  <2>1. RestartProcess(p) /\ Delay(p, t) /\ UNCHANGED cm
    BY <1>6 DEF CrashDuringUpdate
  <2> QED
    BY <1>delay, <2>1, RestartFlow DEF FlowInv
<1> QED
  BY <1>1, <1>2, <1>3, <1>4, <1>5, <1>6 DEF ThreadFault

LEMMA DeliverFlow ==
  ASSUME IndInv, NEW m \in wire, DeliverLate(m)
  PROVE  FlowInv' /\ PutsFresh'
<1> USE DEF IndInv
<1>1. /\ m[1] \in Pods /\ m[2] \in Puts /\ Fresh(m[2])
      /\ <<m[2].version, m[2].url>> \in Pairs
  BY DEF TypeOK, PutsFresh, FlowInv, PutsPairs
<1>2. wire' \subseteq wire /\ UNCHANGED <<pc, frame, put, result>>
  BY DEF DeliverLate, local
<1>3. Places' /\ HandlerKnows' /\ StartKnows' /\ PutsPairs'
  BY <1>2 DEF FlowInv, Places, HandlerKnows, StartKnows, PutsPairs
<1>4. RecordsPairs' /\ \A x \in Puts : Fresh(x) => Fresh(x)'
  <2>1. CASE Accepts(m[2])
    BY <1>1, <2>1, ApplyPair DEF DeliverLate
  <2>2. CASE ~Accepts(m[2])
    <3>1. UNCHANGED cm
      BY <2>2 DEF DeliverLate
    <3> QED
      BY <3>1 DEF FlowInv, RecordsPairs, Fresh
  <2> QED
    BY <2>1, <2>2
<1>5. PutsFresh'
  <2>1. \A q \in Pods, s \in Threads : pc[q][s] = "put" => Fresh(put[q][s])'
    <3> SUFFICES ASSUME NEW q \in Pods, NEW s \in Threads, pc[q][s] = "put"
                 PROVE  Fresh(put[q][s])'
      OBVIOUS
    <3>1. Fresh(put[q][s]) /\ put[q][s] \in Puts
      BY DEF PutsFresh, TypeOK
    <3> QED
      BY <1>2, <1>4, <3>1 DEF Fresh
  <2>2. \A x \in wire : Fresh(x[2])'
    BY <1>4 DEF PutsFresh, TypeOK, Fresh
  <2> QED
    BY <1>2, <2>1, <2>2 DEF PutsFresh, Fresh
<1> QED
  BY <1>3, <1>4, <1>5 DEF FlowInv

LEMMA InitFlow == Init => FlowInv /\ PutsFresh
<1> SUFFICES ASSUME Init PROVE FlowInv /\ PutsFresh
  OBVIOUS
<1>t. Start \in Threads /\ Handlers \subseteq Threads /\ Start \notin Handlers
  BY NamesAssumption DEF Threads
<1>1. \A p \in Pods : \A s \in Threads :
        pc[p][s] = IF s = Start THEN "start" ELSE "idle"
  BY DEF Init, NewProcess
<1>2. Places
  BY <1>t, <1>1 DEF Places, PCs, StartPCs, HandlerPCs
<1>3. HandlerKnows /\ StartKnows
  BY <1>t, <1>1 DEF HandlerKnows, StartKnows, Downloading, Recording
<1>4. PutsPairs /\ PutsFresh
  BY <1>1 DEF Init, PutsPairs, PutsFresh
<1>5. RecordsPairs
  BY DEF Init, NoData, RecordsPairs
<1> QED
  BY <1>2, <1>3, <1>4, <1>5 DEF FlowInv

LEMMA NextFlow ==
  ASSUME IndInv, [Next]_vars
  PROVE  FlowInv' /\ PutsFresh'
<1>1. CASE Next
  BY <1>1, StartStepFlow, RequestFlow, StepFlow, FaultFlow, DeliverFlow DEF Next
<1>2. CASE UNCHANGED vars
  BY <1>2 DEF IndInv, FlowInv, Places, HandlerKnows, StartKnows, PutsPairs,
              RecordsPairs, PutsFresh, Fresh, vars
<1> QED
  BY <1>1, <1>2

\* The invariant the theorems below rest on.
THEOREM Inductive == Spec => []IndInv
<1>1. Init => IndInv
  BY InitType, InitFlow DEF IndInv
<1>2. IndInv /\ [Next]_vars => IndInv'
  BY NextType, NextFlow DEF IndInv
<1> QED
  BY <1>1, <1>2, PTL DEF Spec

\* Every variable keeps its type, whatever the goroutines, the faults and the
\* API server do.
THEOREM TypeCorrect == Spec => []TypeOK
<1>1. IndInv => TypeOK
  BY DEF IndInv
<1> QED
  BY <1>1, Inductive, PTL

-----------------------------------------------------------------------------
(* THE CONFIGMAP IMPLEMENTS THE STORE                                      *)

\* An update that takes effect is a Put of the abstract store.
LEMMA UpdateIsPut ==
  ASSUME IndInv, NEW p \in Pods, NEW w \in Puts, Fresh(w), Accepts(w), Apply(p, w),
         <<w.version, w.url>> \in Pairs
  PROVE  Abstract!Next
<1>1. /\ w.version \in AllVersions /\ w.url \in AllUrls
      /\ cm'.data = [cm.data EXCEPT ![p][w.version] = w.url]
  BY ApplyPair
<1>2. Abstract!Put(p, w.version, w.url)
  BY <1>1 DEF Abstract!Put
<1> QED
  BY <1>1, <1>2 DEF Abstract!Next

\* The ConfigMap changes in no other step.
LEMMA WhoWrites ==
  ASSUME [Next]_vars, ~UNCHANGED cm
  PROVE  \/ \E p \in Pods, t \in Threads : UpdateConfigmap(p, t)
         \/ \E m \in wire : DeliverLate(m) /\ Accepts(m[2]) /\ Apply(m[1], m[2])
<1>1. \A p \in Pods : StartStep(p) \/ Crash(p) \/ Recreate(p) => UNCHANGED cm
  BY DEF StartStep, SetHotUpdateConfig, Listen, Exit, Crash, Recreate
<1>2. \A p \in Pods, t \in Threads : ThreadFault(p, t) => UNCHANGED cm
  BY DEF ThreadFault, FetchErrorPage, SaveFails, LoadFails, CallFails,
         UpdateReplyLost, CrashDuringUpdate
<1>3. \A p \in Pods, t \in Handlers, r \in Requests :
        Request(p, t, r) => UNCHANGED cm
  BY DEF Request, RejectRequest, ReceiveRequest, vars
<1>4. \A p \in Pods, t \in Threads :
        Step(p, t) => UpdateConfigmap(p, t) \/ UNCHANGED cm
  BY DEF Step, SetUrl, PrepareFile, FetchFile, SaveFile, LoadBySignal,
         LoadByRequest, ReportSuccess, ReadResult, PatchPod, ReadPair,
         GetConfigmap, UpdateConflict
<1>5. \A m \in wire :
        DeliverLate(m) => (Accepts(m[2]) /\ Apply(m[1], m[2])) \/ UNCHANGED cm
  BY DEF DeliverLate
<1>6. UNCHANGED vars => UNCHANGED cm
  BY DEF vars
<1> QED
  BY <1>1, <1>2, <1>3, <1>4, <1>5, <1>6 DEF Next

\* An update that a goroutine sends, or that arrives late, was prepared from
\* the data it changes.
LEMMA SendersFresh ==
  ASSUME IndInv
  PROVE  /\ \A p \in Pods, t \in Threads :
              UpdateConfigmap(p, t) =>
                /\ put[p][t] \in Puts /\ Fresh(put[p][t]) /\ Accepts(put[p][t])
                /\ Apply(p, put[p][t])
                /\ <<put[p][t].version, put[p][t].url>> \in Pairs
         /\ \A m \in wire :
              /\ m[1] \in Pods /\ m[2] \in Puts /\ Fresh(m[2])
              /\ <<m[2].version, m[2].url>> \in Pairs
<1>1. \A p \in Pods, t \in Threads :
        UpdateConfigmap(p, t) =>
          /\ put[p][t] \in Puts /\ Fresh(put[p][t]) /\ Accepts(put[p][t])
          /\ Apply(p, put[p][t])
          /\ <<put[p][t].version, put[p][t].url>> \in Pairs
  BY DEF IndInv, UpdateConfigmap, TypeOK, PutsFresh, FlowInv, PutsPairs
<1>2. \A m \in wire :
        /\ m[1] \in Pods /\ m[2] \in Puts /\ Fresh(m[2])
        /\ <<m[2].version, m[2].url>> \in Pairs
  BY DEF IndInv, TypeOK, PutsFresh, FlowInv, PutsPairs
<1> QED
  BY <1>1, <1>2

LEMMA StepRefines ==
  ASSUME IndInv, [Next]_vars
  PROVE  [Abstract!Next]_(cm.data)
<1>1. CASE UNCHANGED cm
  BY <1>1
<1>2. CASE ~UNCHANGED cm
  <2>1. ASSUME NEW p \in Pods, NEW t \in Threads, UpdateConfigmap(p, t)
        PROVE  Abstract!Next
    BY <2>1, SendersFresh, UpdateIsPut
  <2>2. ASSUME NEW m \in wire, Accepts(m[2]), Apply(m[1], m[2])
        PROVE  Abstract!Next
    BY <2>2, SendersFresh, UpdateIsPut
  <2> QED
    BY <1>2, <2>1, <2>2, WhoWrites
<1> QED
  BY <1>1, <1>2

\* SetPersistenceInfo, run at any time by any goroutines of any pods, with
\* crashes, lost answers and late updates, implements a store whose every
\* change sets one version of one pod.
THEOREM Refinement == Spec => StoreRefinement
<1>1. Init => Abstract!Init
  <2>1. Init => cm.data = NoData
    BY DEF Init
  <2> QED
    BY <2>1 DEF NoData, None, Abstract!Init, Abstract!Empty, Abstract!Absent
<1>2. IndInv /\ [Next]_vars => [Abstract!Next]_(cm.data)
  BY StepRefines
<1> QED
  BY <1>1, <1>2, Inductive, PTL DEF Spec, StoreRefinement, Abstract!Spec

\* So no recorded version is ever lost, by whichever pod and whatever fails.
THEOREM NothingForgotten == Spec => Abstract!NeverForgets
<1>1. ASSUME IndInv, [Next]_vars, NEW p \in Pods, NEW v \in AllVersions,
             cm.data[p][v] # None
      PROVE  cm.data'[p][v] # None
  <2>1. [Abstract!Next]_(cm.data)
    BY <1>1, StepRefines
  <2>2. CASE UNCHANGED cm.data
    BY <1>1, <2>2
  <2>3. CASE Abstract!Next
    <3>1. PICK q \in Pods, w \in AllVersions, u \in AllUrls :
            cm.data' = [cm.data EXCEPT ![q][w] = u]
      BY <2>3 DEF Abstract!Next, Abstract!Put
    <3>2. u # None
      BY NamesAssumption DEF AllUrls, OriginUrl, None
    <3>3. cm.data \in [Pods -> [AllVersions -> AllUrls \cup {None}]]
      BY <1>1 DEF IndInv, TypeOK, Data
    <3> QED
      BY <1>1, <3>1, <3>2, <3>3
  <2> QED
    BY <2>1, <2>2, <2>3
<1>2. IndInv /\ [Next]_vars => [Abstract!Keeps]_(cm.data)
  BY <1>1 DEF None, Abstract!Absent, Abstract!Keeps
<1> QED
  BY <1>2, Inductive, PTL DEF Spec, Abstract!NeverForgets

=============================================================================
