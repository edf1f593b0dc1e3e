----------------------------- MODULE HotUpdate -----------------------------
(***************************************************************************)
(* The hot_update plugin of the kidecar sidecar, in every pod that runs    *)
(* it, and the ConfigMap kube-system/sidecar-result they share.            *)
(*                                                                         *)
(* In a pod, the goroutine Start first brings back the newest recorded     *)
(* update (setHotUpdateConfigWhenStart) and then serves HTTP; net/http     *)
(* runs every POST /hot-update in a goroutine of its own.  A request       *)
(* downloads a file, makes the main container load it and records its      *)
(* version and url in the ConfigMap.  The goroutines of a pod share the    *)
(* unprotected struct h.result; the pods share the ConfigMap, guarded only *)
(* by its resourceVersion.                                                 *)
(*                                                                         *)
(* A step is what a goroutine does between two accesses to state it        *)
(* shares: h.result, the files, the API server.  Go strings are two words; *)
(* they are read and written here in one step, which is exact when the     *)
(* versions (and the urls) in play have the same length.                   *)
(***************************************************************************)
EXTENDS Naturals

CONSTANTS
  Pods,          \* pods that run the sidecar
  Handlers,      \* goroutines that can serve requests at once, per pod
  Versions,      \* versions that isValidVersion accepts
  Urls,          \* urls of update files
  Rank,          \* order of semver.Compare: 0 if not valid semver
  FileOf,        \* base name of the path of a url
  LoadPatchType, \* "signal" or "request", per pod
  MaxRequests,   \* bound: requests received, over all pods
  MaxFaults,     \* bound: failed calls and process deaths
  MaxDelays      \* bound: ConfigMap updates whose sender never hears back

OriginVersion == "OriginVersion"
OriginUrl     == "OriginUrl"
None          == ""      \* Go's zero string, and a key that is not in a map
ErrorPage     == "error page"
Truncated     == "truncated"
Start         == "Start" \* the goroutine that runs Plugin.Start

ASSUME NamesAssumption ==
  /\ {OriginVersion, None} \cap Versions = {}
  /\ {OriginUrl, None, ErrorPage, Truncated} \cap Urls = {}
  /\ Start \notin Handlers
ASSUME RankAssumption == Rank \in [Versions -> Nat]
ASSUME FileOfAssumption ==
  /\ DOMAIN FileOf = Urls
  /\ \A u \in Urls : FileOf[u] # None
ASSUME LoadPatchTypeAssumption ==
  LoadPatchType \in [Pods -> {"signal", "request"}]
ASSUME BoundsAssumption ==
  MaxRequests \in Nat /\ MaxFaults \in Nat /\ MaxDelays \in Nat

Threads     == Handlers \cup {Start}
AllVersions == Versions \cup {OriginVersion}
AllUrls     == Urls \cup {OriginUrl}
Files       == {FileOf[u] : u \in Urls}
Contents    == Urls \cup {None, ErrorPage, Truncated}  \* None: no such file

\* The values of the form fields of a request; None is also what
\* isValidVersion rejects.
Requests == [method  : {"POST", "GET"},
             version : Versions \cup {None},
             url     : Urls \cup {None}]

VARIABLES
  cm,       \* the ConfigMap: resourceVersion, and versions and urls per pod
  wire,     \* updates of the ConfigMap on their way without a waiting sender
  pc,       \* where each goroutine of each pod is
  frame,    \* the local variables of a download and of storeData
  put,      \* the ConfigMap update that SetPersistenceInfo prepares
  result,   \* h.result
  files,    \* the directory FileDir
  loaded,   \* the files as the main container last loaded them
  anno,     \* the pod annotation that StoreData patches
  asked,    \* history: version and url of every well-formed request
  requests, faults, delays  \* counters for the bounds

local   == <<pc, frame, put>>
outside == <<files, loaded, anno>>
counts  == <<requests, faults, delays>>
vars    == <<cm, wire, pc, frame, put, result, files, loaded, anno,
             asked, requests, faults, delays>>

Outcomes == {<<None, None>>} \cup ((AllVersions \cup {None}) \X {"success", "failed"})

NoResult == [Version |-> None, Url |-> None, Result |-> <<None, None>>]
NoFrame  == [version |-> None, url |-> None, path |-> None, body |-> None,
             data |-> <<None, None>>]
NoFiles  == [f \in Files |-> None]
NoData   == [q \in Pods |-> [v \in AllVersions |-> None]]
NoPut    == [version |-> None, url |-> None, rv |-> 0, data |-> NoData]

PCs == {"start", "listen", "serving", "stopped", "idle", "url", "path",
        "fetch", "save", "load", "report", "store", "patch", "pair", "get",
        "put"}
Data  == [Pods -> [AllVersions -> AllUrls \cup {None}]]
Puts  == [version : AllVersions \cup {None}, url : AllUrls \cup {None},
          rv : Nat, data : Data]
Frame == [version : Versions \cup {None}, url : Urls \cup {None},
          path : Files \cup {None}, body : Contents, data : Outcomes]
Results == [Version : AllVersions \cup {None}, Url : AllUrls \cup {None},
            Result : Outcomes]

TypeOK ==
  /\ cm \in [rv : Nat, data : Data]
  /\ wire \subseteq (Pods \X Puts)
  /\ pc \in [Pods -> [Threads -> PCs]]
  /\ frame \in [Pods -> [Threads -> Frame]]
  /\ put \in [Pods -> [Threads -> Puts]]
  /\ result \in [Pods -> Results]
  /\ files \in [Pods -> [Files -> Contents]]
  /\ loaded \in [Pods -> [Files -> Contents]]
  /\ anno \in [Pods -> Outcomes]
  /\ asked \subseteq (Versions \X Urls)
  /\ requests \in Nat /\ faults \in Nat /\ delays \in Nat

NewProcess == [t \in Threads |-> IF t = Start THEN "start" ELSE "idle"]

Init ==
  /\ cm = [rv |-> 1, data |-> NoData]
  /\ wire = {}
  /\ pc = [p \in Pods |-> NewProcess]
  /\ frame = [p \in Pods |-> [t \in Threads |-> NoFrame]]
  /\ put = [p \in Pods |-> [t \in Threads |-> NoPut]]
  /\ result = [p \in Pods |-> NoResult]
  /\ files = [p \in Pods |-> NoFiles]
  /\ loaded = [p \in Pods |-> NoFiles]
  /\ anno = [p \in Pods |-> <<None, None>>]
  /\ asked = {}
  /\ requests = 0 /\ faults = 0 /\ delays = 0

-----------------------------------------------------------------------------
(* How a goroutine moves on, and how it ends.  Start goes on to listen, or *)
(* stops and reports its error to the manager; a handler returns.          *)

Goto(p, t, l) == pc' = [pc EXCEPT ![p][t] = l]

Return(p, t, l) ==
  /\ Goto(p, t, l)
  /\ frame' = [frame EXCEPT ![p][t] = NoFrame]
  /\ put' = [put EXCEPT ![p][t] = NoPut]

Finish(p, t) == Return(p, t, IF t = Start THEN "listen" ELSE "idle")
Abort(p, t)  == Return(p, t, IF t = Start THEN "stopped" ELSE "idle")

Fault == faults < MaxFaults /\ faults' = faults + 1 /\ UNCHANGED <<requests, delays>>

-----------------------------------------------------------------------------
(* setHotUpdateConfigWhenStart: GetPersistenceInfo returns the pod's own   *)
(* entry or, without one, the entries of all pods merged in the random     *)
(* order of a Go map, so that any pod's url may win for a version.         *)

Recorded(q) == {<<v, cm.data[q][v]>> : v \in {w \in AllVersions : cm.data[q][w] # None}}

GetPersistenceInfo(p) ==
  IF Recorded(p) # {} THEN Recorded(p) ELSE UNION {Recorded(q) : q \in Pods}

RankOf(v) == IF v \in Versions THEN Rank[v] ELSE 0

\* Mutant: the comparison of the loop is turned round after the first version.
Oldest(info) ==
  LET valid == {i \in info : RankOf(i[1]) > 0}
  IN IF valid = {}
       THEN {<<None, None>>}
       ELSE {i \in valid : \A j \in valid : RankOf(j[1]) >= RankOf(i[1])}

\* What the loop over the map may pick: a version that no other one exceeds
\* (any of those semver holds equal), or nothing if no version is valid semver.
Newest(info) ==
  LET valid == {i \in info : RankOf(i[1]) > 0}
  IN IF valid = {}
       THEN {<<None, None>>}
       ELSE {i \in valid : \A j \in valid : RankOf(j[1]) <= RankOf(i[1])}

SetHotUpdateConfig(p) ==
  /\ pc[p][Start] = "start"
  /\ LET info == GetPersistenceInfo(p) IN
       IF info \subseteq {<<OriginVersion, OriginUrl>>}
         THEN /\ result' = [result EXCEPT ![p].Version = OriginVersion,
                                          ![p].Url = OriginUrl]
              /\ Goto(p, Start, "pair")
         ELSE \E i \in Newest(info) :
              /\ result' = [result EXCEPT ![p].Version = i[1], ![p].Url = i[2]]
              /\ Goto(p, Start, "path")
  /\ UNCHANGED <<cm, wire, frame, put, outside, asked, counts>>

\* http.HandleFunc and ListenAndServe.
Listen(p) ==
  /\ pc[p][Start] = "listen"
  /\ Goto(p, Start, "serving")
  /\ UNCHANGED <<cm, wire, frame, put, result, outside, asked, counts>>

-----------------------------------------------------------------------------
(* downloadHotUpdateFile: the checks of the request.  The version is       *)
(* written to h.result before the url is looked at.                        *)

Malformed(r) == r.method # "POST" \/ r.version = None

RejectRequest(p, t, r) ==
  /\ pc[p][Start] = "serving" /\ pc[p][t] = "idle" /\ t # Start
  /\ Malformed(r)
  /\ UNCHANGED vars

ReceiveRequest(p, t, r) ==
  /\ pc[p][Start] = "serving" /\ pc[p][t] = "idle" /\ t # Start
  /\ requests < MaxRequests
  /\ ~Malformed(r)
  /\ requests' = requests + 1
  /\ asked' = IF r.url = None THEN asked ELSE asked \cup {<<r.version, r.url>>}
  /\ result' = [result EXCEPT ![p].Version = r.version]
  /\ frame' = [frame EXCEPT ![p][t].version = r.version, ![p][t].url = r.url]
  /\ Goto(p, t, "url")
  /\ UNCHANGED <<cm, wire, put, outside, faults, delays>>

\* Mutant: the 400 answer to a missing url is not followed by a return.
SetUrlNoReturn(p, t) ==
  /\ pc[p][t] = "url"
  /\ result' = IF frame[p][t].url = None THEN result
               ELSE [result EXCEPT ![p].Url = frame[p][t].url]
  /\ Goto(p, t, "path")
  /\ UNCHANGED <<cm, wire, frame, put, outside, asked, counts>>

SetUrl(p, t) ==
  /\ pc[p][t] = "url"
  /\ IF frame[p][t].url = None
       THEN Abort(p, t) /\ UNCHANGED result
       ELSE /\ result' = [result EXCEPT ![p].Url = frame[p][t].url]
            /\ Goto(p, t, "path")
            /\ UNCHANGED <<frame, put>>
  /\ UNCHANGED <<cm, wire, outside, asked, counts>>

-----------------------------------------------------------------------------
(* downloadFileByUrl: h.result.Url is read once for the file name and      *)
(* again for the download.  Without a url neither the empty path nor the   *)
(* empty request can succeed.                                              *)

PrepareFile(p, t) ==
  /\ pc[p][t] = "path"
  /\ IF result[p].Url \in Urls
       THEN LET f == FileOf[result[p].Url] IN
            /\ frame' = [frame EXCEPT ![p][t].path = f]
            /\ files' = [files EXCEPT ![p][f] = None]
            /\ Goto(p, t, "fetch")
            /\ UNCHANGED put
       ELSE Abort(p, t) /\ UNCHANGED files
  /\ UNCHANGED <<cm, wire, result, loaded, anno, asked, counts>>

FetchFile(p, t) ==
  /\ pc[p][t] = "fetch"
  /\ frame' = [frame EXCEPT ![p][t].body = result[p].Url]
  /\ Goto(p, t, "save")
  /\ UNCHANGED <<cm, wire, put, result, outside, asked, counts>>

\* The status of the response is not looked at: the body of an error answer
\* is saved like a file.
FetchErrorPage(p, t) ==
  /\ pc[p][t] = "fetch"
  /\ Fault
  /\ frame' = [frame EXCEPT ![p][t].body = ErrorPage]
  /\ Goto(p, t, "save")
  /\ UNCHANGED <<cm, wire, put, result, outside, asked>>

SaveFile(p, t) ==
  /\ pc[p][t] = "save"
  /\ files' = [files EXCEPT ![p][frame[p][t].path] = frame[p][t].body]
  /\ Goto(p, t, "load")
  /\ UNCHANGED <<cm, wire, frame, put, result, loaded, anno, asked, counts>>

\* Mutant: the error of io.Copy is ignored.
SaveFailsUnnoticed(p, t) ==
  /\ pc[p][t] = "save"
  /\ Fault
  /\ files' = [files EXCEPT ![p][frame[p][t].path] = Truncated]
  /\ Goto(p, t, "load")
  /\ UNCHANGED <<cm, wire, frame, put, result, loaded, anno, asked>>

\* os.Create succeeds and io.Copy fails: what was copied stays.
SaveFails(p, t) ==
  /\ pc[p][t] = "save"
  /\ Fault
  /\ files' = [files EXCEPT ![p][frame[p][t].path] = Truncated]
  /\ Abort(p, t)
  /\ UNCHANGED <<cm, wire, result, loaded, anno, asked>>

-----------------------------------------------------------------------------
(* Loading: a signal to the main container, which then reads the files;    *)
(* loadHotUpdateFileByRequest does nothing yet.                            *)

LoadBySignal(p, t) ==
  /\ pc[p][t] = "load" /\ LoadPatchType[p] = "signal"
  /\ loaded' = [loaded EXCEPT ![p] = files[p]]
  /\ Goto(p, t, "report")
  /\ UNCHANGED <<cm, wire, frame, put, result, files, anno, asked, counts>>

\* ps or kill fails, or no process has the name.
LoadFails(p, t) ==
  /\ pc[p][t] = "load" /\ LoadPatchType[p] = "signal"
  /\ Fault
  /\ result' = [result EXCEPT ![p].Result = <<result[p].Version, "failed">>]
  /\ Abort(p, t)
  /\ UNCHANGED <<cm, wire, outside, asked>>

LoadByRequest(p, t) ==
  /\ pc[p][t] = "load" /\ LoadPatchType[p] = "request"
  /\ Goto(p, t, "store")
  /\ UNCHANGED <<cm, wire, frame, put, result, outside, asked, counts>>

\* The client is answered before anything is recorded.
ReportSuccess(p, t) ==
  /\ pc[p][t] = "report"
  /\ result' = [result EXCEPT ![p].Result = <<result[p].Version, "success">>]
  /\ Goto(p, t, "store")
  /\ UNCHANGED <<cm, wire, frame, put, outside, asked, counts>>

-----------------------------------------------------------------------------
(* storeData: the outcome goes to an annotation of the pod.                *)

ReadResult(p, t) ==
  /\ pc[p][t] = "store"
  /\ frame' = [frame EXCEPT ![p][t].data = result[p].Result]
  /\ Goto(p, t, "patch")
  /\ UNCHANGED <<cm, wire, put, result, outside, asked, counts>>

PatchPod(p, t) ==
  /\ pc[p][t] = "patch"
  /\ anno' = [anno EXCEPT ![p] = frame[p][t].data]
  /\ Goto(p, t, "pair")
  /\ UNCHANGED <<cm, wire, frame, put, result, files, loaded, asked, counts>>

-----------------------------------------------------------------------------
(* storeDataToConfigmap and SetPersistenceInfo: read h.result, get the     *)
(* ConfigMap, set the version in the pod's entry, update the ConfigMap.    *)
(* A conflict is an error like any other: nothing is tried again.          *)

\* Mutant: key and value of the recorded pair change places.
ReadPairSwapped(p, t) ==
  /\ pc[p][t] = "pair"
  /\ put' = [put EXCEPT ![p][t].version = result[p].Url,
                        ![p][t].url = result[p].Version]
  /\ Goto(p, t, "get")
  /\ UNCHANGED <<cm, wire, frame, result, outside, asked, counts>>

ReadPair(p, t) ==
  /\ pc[p][t] = "pair"
  /\ put' = [put EXCEPT ![p][t].version = result[p].Version,
                        ![p][t].url = result[p].Url]
  /\ Goto(p, t, "get")
  /\ UNCHANGED <<cm, wire, frame, result, outside, asked, counts>>

GetConfigmap(p, t) ==
  /\ pc[p][t] = "get"
  /\ put' = [put EXCEPT ![p][t].rv = cm.rv, ![p][t].data = cm.data]
  /\ Goto(p, t, "put")
  /\ UNCHANGED <<cm, wire, frame, result, outside, asked, counts>>

\* Mutant: the pod's entry is not read back before the version is set.
MergedAfresh(p, w) ==
  [w.data EXCEPT ![p] = [v \in AllVersions |-> IF v = w.version THEN w.url ELSE None]]

\* The data SetPersistenceInfo sends: what it read, with its own entry merged.
Merged(p, w) == [w.data EXCEPT ![p][w.version] = w.url]

\* The API server: an update is accepted only with the current
\* resourceVersion, and one that changes nothing leaves it as it is.
Accepts(w) == w.rv = cm.rv
Apply(p, w) ==
  cm' = [rv   |-> IF Merged(p, w) = cm.data THEN cm.rv ELSE cm.rv + 1,
         data |-> Merged(p, w)]

UpdateConfigmap(p, t) ==
  /\ pc[p][t] = "put"
  /\ Accepts(put[p][t])
  /\ Apply(p, put[p][t])
  /\ Finish(p, t)
  /\ UNCHANGED <<wire, result, outside, asked, counts>>

UpdateConflict(p, t) ==
  /\ pc[p][t] = "put"
  /\ ~Accepts(put[p][t])
  /\ Abort(p, t)
  /\ UNCHANGED <<cm, wire, result, outside, asked, counts>>

-----------------------------------------------------------------------------
(* Failures.                                                               *)

Fallible == {"start", "listen", "path", "fetch", "store", "patch", "get", "put"}

\* A call of the file system, the network or the API server fails without
\* effect, and the goroutine returns its error.
CallFails(p, t) ==
  /\ pc[p][t] \in Fallible
  /\ Fault
  /\ Abort(p, t)
  /\ UNCHANGED <<cm, wire, result, outside, asked>>

Delay(p, t) ==
  /\ pc[p][t] = "put"
  /\ delays < MaxDelays
  /\ delays' = delays + 1
  /\ wire' = wire \cup {<<p, put[p][t]>>}
  /\ UNCHANGED <<requests, faults>>

\* The answer of the API server is lost; the update may still take effect.
UpdateReplyLost(p, t) ==
  /\ Delay(p, t)
  /\ Abort(p, t)
  /\ UNCHANGED <<cm, result, outside, asked>>

\* The update reaches the API server after its sender gave up or died.
DeliverLate(m) ==
  /\ m \in wire
  /\ wire' = wire \ {m}
  /\ IF Accepts(m[2]) THEN Apply(m[1], m[2]) ELSE UNCHANGED cm
  /\ UNCHANGED <<local, result, outside, asked, counts>>

\* The sidecar's process ends and the kubelet starts it anew: the memory is
\* lost; the volume with the files and the main container are not.
RestartProcess(p) ==
  /\ pc' = [pc EXCEPT ![p] = NewProcess]
  /\ frame' = [frame EXCEPT ![p] = [t \in Threads |-> NoFrame]]
  /\ put' = [put EXCEPT ![p] = [t \in Threads |-> NoPut]]
  /\ result' = [result EXCEPT ![p] = NoResult]

\* Mutant: Start returns its error to nobody, and the process lives on.
ExitNever(p) ==
  /\ pc[p][Start] = "stopped"
  /\ UNCHANGED vars

\* The error Start sent to the manager ends the process.
Exit(p) ==
  /\ pc[p][Start] = "stopped"
  /\ RestartProcess(p)
  /\ UNCHANGED <<cm, wire, outside, asked, counts>>

Crash(p) ==
  /\ Fault
  /\ RestartProcess(p)
  /\ UNCHANGED <<cm, wire, outside, asked>>

CrashDuringUpdate(p, t) ==
  /\ Delay(p, t)
  /\ RestartProcess(p)
  /\ UNCHANGED <<cm, outside, asked>>

\* The pod is deleted and created again under its name.
Recreate(p) ==
  /\ Fault
  /\ RestartProcess(p)
  /\ files' = [files EXCEPT ![p] = NoFiles]
  /\ loaded' = [loaded EXCEPT ![p] = NoFiles]
  /\ anno' = [anno EXCEPT ![p] = <<None, None>>]
  /\ UNCHANGED <<cm, wire, asked>>

-----------------------------------------------------------------------------
\* What a goroutine does by itself when no call fails.
Step(p, t) ==
  \/ SetUrl(p, t) \/ PrepareFile(p, t) \/ FetchFile(p, t) \/ SaveFile(p, t)
  \/ LoadBySignal(p, t) \/ LoadByRequest(p, t) \/ ReportSuccess(p, t)
  \/ ReadResult(p, t) \/ PatchPod(p, t) \/ ReadPair(p, t)
  \/ GetConfigmap(p, t) \/ UpdateConfigmap(p, t) \/ UpdateConflict(p, t)

StartStep(p) == SetHotUpdateConfig(p) \/ Listen(p) \/ Exit(p)

ThreadFault(p, t) ==
  \/ FetchErrorPage(p, t) \/ SaveFails(p, t) \/ LoadFails(p, t)
  \/ CallFails(p, t) \/ UpdateReplyLost(p, t) \/ CrashDuringUpdate(p, t)

Request(p, t, r) == RejectRequest(p, t, r) \/ ReceiveRequest(p, t, r)

Next ==
  \/ \E p \in Pods : StartStep(p) \/ Crash(p) \/ Recreate(p)
  \/ \E p \in Pods, t \in Threads : Step(p, t) \/ ThreadFault(p, t)
  \/ \E p \in Pods, t \in Handlers, r \in Requests : Request(p, t, r)
  \/ \E m \in wire : DeliverLate(m)

Spec == Init /\ [][Next]_vars

\* The Go scheduler runs every goroutine, calls return, and the kubelet
\* restarts a container that has ended.
FairSpec ==
  /\ Spec
  /\ \A p \in Pods : WF_vars(StartStep(p))
  /\ \A p \in Pods, t \in Threads : WF_vars(Step(p, t))

-----------------------------------------------------------------------------
(* PROPERTIES                                                              *)

Abstract == INSTANCE ResultStore
            WITH Owners <- Pods, Keys <- AllVersions, Values <- AllUrls,
                 store <- cm.data

\* Whatever the interleaving of Gets and Updates of all goroutines of all
\* pods, lost answers and updates that arrive late included, every change of
\* the ConfigMap sets one version of one pod: SetPersistenceInfo never
\* undoes what another one has recorded.
StoreRefinement == Abstract!Spec

\* A recorded version has the url it was requested with, though
\* h.result.Version and h.result.Url are written apart, a request may be
\* rejected between the two, and another pod's record may be taken over.
PairIntegrity ==
  \A p \in Pods, v \in Versions :
    cm.data[p][v] # None => <<v, cm.data[p][v]>> \in asked

\* From the moment an update is reported until it is recorded, the main
\* container of a pod that loads by signal runs the body that the url of the
\* update answered: not a missing, a truncated or another update's file.
ReportedUpdateIsLoaded ==
  \A p \in Pods, t \in Threads :
    /\ LoadPatchType[p] = "signal"
    /\ pc[p][t] \in {"report", "store", "patch"}
    => LET u == result[p].Url IN
       u \in Urls /\ loaded[p][FileOf[u]] \in {u, ErrorPage}

\* Start does not listen before the pod is back at an update that none of
\* its recorded ones exceeds, with the file in place and, where a signal
\* loads it, loaded; whatever died in whatever step before.
StartRestoresNewest ==
  \A p \in Pods :
    pc[p][Start] = "listen" =>
      /\ \A v \in Versions :
           cm.data[p][v] # None => Rank[v] <= RankOf(result[p].Version)
      /\ result[p].Url # OriginUrl =>
           LET f == FileOf[result[p].Url] IN
           /\ files[p][f] \in {result[p].Url, ErrorPage}
           /\ LoadPatchType[p] = "signal" => loaded[p][f] = files[p][f]

\* Once requests and faults have ceased, every pod comes to serve and no
\* request hangs: the failures of Start, conflicts over the ConfigMap with
\* other pods among them, do not repeat for ever.
EventuallySettled ==
  <>[](\A p \in Pods : /\ pc[p][Start] = "serving"
                       /\ \A t \in Handlers : pc[p][t] = "idle")

\* PairIntegrity and ReportedUpdateIsLoaded need that no two requests of a pod
\* overlap: the handlers share h.result and the files without a lock.  With
\* one handler, as in the runs, there is nothing that could overlap.
Serialized ==
  \A p \in Pods, g, h \in Handlers :
    pc[p][g] # "idle" /\ pc[p][h] # "idle" => g = h

\* StartRestoresNewest needs that no update of the pod is still on its way
\* when Start has read the ConfigMap: it would be missed.
Timely == \A m \in wire : pc[m[1]][Start] \in {"start", "serving", "stopped"}

-----------------------------------------------------------------------------
(* What comments and answers of the code say, and the code does not keep.  *)

\* plugin.go:72 has Start set the newest update file "according to the
\* annotation of the pod".  The annotation is patched before the ConfigMap
\* is updated, and Start looks only at the latter.
StartFollowsAnnotation ==
  \A p \in Pods :
    pc[p][Start] = "listen" /\ anno[p][2] = "success" =>
      RankOf(anno[p][1]) <= RankOf(result[p].Version)

\* executor.go:39 answers "File downloaded and update successfully": then
\* the main container has loaded what the url stands for.
AckedUpdateIsLoaded ==
  \A p \in Pods, t \in Handlers :
    pc[p][t] = "store" /\ LoadPatchType[p] = "signal" =>
      loaded[p][FileOf[frame[p][t].url]] = frame[p][t].url

=============================================================================
