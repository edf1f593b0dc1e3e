------------------------------- MODULE Probe -------------------------------
(***************************************************************************)
(* The http_probe plugin of one sidecar and the storage it writes to.      *)
(*                                                                         *)
(* A goroutine per endpoint asks the endpoint for its state, resolves the  *)
(* templates of the storage configuration and patches the pod, and perhaps *)
(* one more object, with the data and with the markers of that state.  The *)
(* goroutines share, without a lock, the cache of the current pod and the  *)
(* lazy set-up of the storages; a panic in one of them ends the process.   *)
(*                                                                         *)
(* A step is what a goroutine does between two accesses to state it        *)
(* shares: the endpoint, the cache, the storages, the API server.          *)
(***************************************************************************)
EXTENDS Naturals, Sequences

CONSTANTS
  Endpoints,  \* goroutines of the plugin, one per endpoint it is given
  Settings,   \* endpoints that a configuration may list
  Keys,       \* annotations and labels of the pod and of the object
  Data,       \* strings that an endpoint may answer with
  Numbers,    \* those of them that ParseFloat accepts
  Marks,      \* values of markers
  Config,     \* the StorageConfig of each of them
  CanAnswer,  \* the answers it may give
  Steps,      \* attempts of retry.DefaultBackoff
  MaxTimers,  \* bound: expiry timers that are told apart
  MaxChanges  \* bound: changes of what an endpoint answers

None      == "none"       \* no such key; no data
UserValue == "user value" \* what the object held before
Bad       == "bad"        \* no answer, a wrong status, not JSON, no such path
NonString == "non-string" \* a JSON number, list or object

Answers == Data \cup {Bad, NonString}
Values  == Data \cup Marks \cup {None, UserValue}

\* target: "none", "named", "invalid" (IsValid refuses it, perhaps after a
\* template became ""), "unresolved" (its template has no value).
StorageConfig ==
  [type : {"InKube", "HTTPMetric", "other"}, dataKeys : SUBSET Keys,
   jsonPath : BOOLEAN,
   target : {"none", "named", "invalid", "unresolved"},
   policies : Seq([state : Data, marks : UNION {[K -> Marks] : K \in SUBSET Keys}])]

ASSUME NamesAssumption ==
  /\ Numbers \subseteq Data
  /\ (Data \cup Marks) \cap {None, UserValue, Bad, NonString} = {}
ASSUME ConfigAssumption ==
  Config \in [Settings -> StorageConfig] /\ None \notin Settings
ASSUME CanAnswerAssumption ==
  /\ DOMAIN CanAnswer = Settings
  /\ \A s \in Settings : CanAnswer[s] \subseteq Answers
ASSUME BoundsAssumption ==
  /\ Steps \in Nat \ {0} /\ MaxTimers \in Nat \ {0}
  /\ MaxChanges \in Nat

VARIABLES
  conf,      \* the endpoint each goroutine is for, or None
  truth,     \* what each endpoint answers now
  pod,       \* the annotations and labels of the pod
  object,    \* those of the object that target names
  wire,      \* patches of dead processes that the API server has yet to see
  pc,        \* where each goroutine is
  data,      \* the data it has extracted
  attempt,   \* failed attempts of its present round
  level,     \* levels of the configuration that are still to be parsed
  cached,    \* the cache holds the pod
  timers,    \* timers that will delete it from the cache
  ready,     \* storages that are set up
  shown,     \* history: data that the pod has been patched with
  changes,   \* bound: how often endpoints have changed their answers
  faults     \* bound: calls and processes that may still fail

outside   == <<conf, truth, changes>>
api       == <<pod, object, wire, shown>>
cache     == <<cached, timers>>
probeVars == <<conf, truth, pod, object, wire, pc, data, attempt, level,
               cached, timers, ready, shown, changes>>

PCs == {"off", "probe", "parse", "fetch", "storage", "setup", "store",
        "patch", "object", "sleep"}
Patches == [to : {"pod", "object"}, by : Endpoints, data : Data]

ProbeTypeOK ==
  /\ conf \in [Endpoints -> Settings \cup {None}]
  /\ truth \in [Endpoints -> Answers]
  /\ pod \in [Keys -> Values] /\ object \in [Keys -> Values]
  /\ wire \subseteq Patches
  /\ pc \in [Endpoints -> PCs]
  /\ data \in [Endpoints -> Data \cup {None}]
  /\ attempt \in [Endpoints -> 0..Steps]
  /\ level \in [Endpoints -> 0..3]
  /\ cached \in BOOLEAN /\ timers \in 0..MaxTimers
  /\ ready \subseteq {"InKube", "HTTPMetric"}
  /\ shown \in [Endpoints -> SUBSET Data]
  /\ changes \in Nat

endpoints == {e \in Endpoints : conf[e] # None}
Setting(e) == Config[conf[e]]

Off == [e \in Endpoints |-> "off"]
ProcessInit ==
  /\ pc = Off
  /\ data = [e \in Endpoints |-> None]
  /\ attempt = [e \in Endpoints |-> 0]
  /\ level = [e \in Endpoints |-> 0]
  /\ cached = FALSE /\ timers = 0 /\ ready = {}

ProbeInit ==
  /\ conf \in [Endpoints -> Settings \cup {None}]
  /\ truth \in [Endpoints -> Answers]
  /\ \A e \in Endpoints :
       truth[e] \in IF e \in endpoints THEN CanAnswer[conf[e]] ELSE {Bad}
  /\ pod = [k \in Keys |-> None]
  /\ object \in [Keys -> {None, UserValue}]
  /\ wire = {}
  /\ ProcessInit
  /\ shown = [e \in Endpoints |-> {}]
  /\ changes = 0

-----------------------------------------------------------------------------
(* The storage configuration.                                              *)

\* buildPolicyMap: of two policies for a state the later one counts.
PolicyIndex(s, d) ==
  {i \in DOMAIN Config[s].policies :
     /\ Config[s].policies[i].state = d
     /\ \A j \in DOMAIN Config[s].policies :
          Config[s].policies[j].state = d => j <= i}

MarksOf(s, d) ==
  IF PolicyIndex(s, d) = {} THEN [k \in {} |-> None]
  ELSE Config[s].policies[CHOOSE i \in PolicyIndex(s, d) : TRUE].marks

\* The markers of a policy are written over the data.
PatchOf ==
  [s \in Settings |-> [d \in Data |->
     LET marks == MarksOf(s, d)
     IN [k \in DOMAIN marks \cup Config[s].dataKeys |->
           IF k \in DOMAIN marks THEN marks[k] ELSE d]]]

Patched(obj, patch) ==
  [k \in Keys |-> IF k \in DOMAIN patch THEN patch[k] ELSE obj[k]]

\* generatePatch makes "replace" operations: the keys must be there.
Applicable(obj, patch) == \A k \in DOMAIN patch : obj[k] # None

IsValid(e) ==
  /\ Setting(e).target # "invalid"
  /\ Setting(e).jsonPath \/ Setting(e).dataKeys # {} \/ Setting(e).policies # <<>>

\* The structs that ParseConfig descends into: the configuration itself, that
\* of the storage, the target.
Levels(e) == IF Setting(e).target = "none" THEN 2 ELSE 3

StoresInObject(e) == Setting(e).target = "named" /\ Setting(e).policies # <<>>

-----------------------------------------------------------------------------
(* A round of a goroutine: attempts until one succeeds or there have been  *)
(* Steps of them, then a pause.                                            *)

Goto(e, l) == pc' = [pc EXCEPT ![e] = l]

Continue(e, l) == Goto(e, l) /\ UNCHANGED <<data, attempt, level>>

Finish(e, l, a) ==
  /\ Goto(e, l)
  /\ attempt' = [attempt EXCEPT ![e] = a]
  /\ data' = [data EXCEPT ![e] = None]
  /\ level' = [level EXCEPT ![e] = 0]

Succeed(e) == Finish(e, "sleep", 0)

\* Mutant: the goroutine ends with the first round that fails.
FailForGood(e) ==
  Finish(e, IF attempt[e] + 1 < Steps THEN "probe" ELSE "off", attempt[e] + 1)

\* retry.OnError: a failed attempt is followed by another whole Probe.
Fail(e) ==
  Finish(e, IF attempt[e] + 1 < Steps THEN "probe" ELSE "sleep", attempt[e] + 1)

\* Mutant: the backoff is shared by all rounds.
WakeBackoffKept(e) ==
  /\ pc[e] = "sleep"
  /\ Finish(e, "probe", attempt[e])
  /\ UNCHANGED <<outside, api, cache, ready, faults>>

Wake(e) ==
  /\ pc[e] = "sleep"
  /\ Finish(e, "probe", 0)
  /\ UNCHANGED <<outside, api, cache, ready, faults>>

Probe(e) ==
  /\ pc[e] = "probe"
  /\ \/ truth[e] = Bad /\ Fail(e)
     \/ /\ truth[e] \in Data
        /\ Goto(e, "parse")
        /\ data' = [data EXCEPT ![e] = truth[e]]
        /\ level' = [level EXCEPT ![e] = Levels(e)]
        /\ UNCHANGED attempt
  /\ UNCHANGED <<outside, api, cache, ready, faults>>

\* ParseConfig goes on with the pod: to the next level, or it is done.
Parsed(e) ==
  \/ /\ level[e] > 1
     /\ Goto(e, "parse")
     /\ level' = [level EXCEPT ![e] = @ - 1]
     /\ UNCHANGED <<data, attempt>>
  \/ level[e] = 1 /\ Setting(e).target = "unresolved" /\ Fail(e)
  \/ /\ level[e] = 1 /\ Setting(e).target # "unresolved"
     /\ Goto(e, "storage")
     /\ level' = [level EXCEPT ![e] = 0]
     /\ UNCHANGED <<data, attempt>>

\* Every level asks for the pod again.
ParseConfig(e) ==
  /\ pc[e] = "parse"
  /\ \/ cached /\ Parsed(e)
     \/ ~cached /\ Continue(e, "fetch")
  /\ UNCHANGED <<outside, api, cache, ready, faults>>

\* Mutant: a fetch that is made in order to store arms no timer.
FetchPodForGood(e) ==
  /\ pc[e] = "fetch"
  /\ cached' = TRUE
  /\ timers' = IF timers < MaxTimers /\ level[e] > 0 THEN timers + 1 ELSE timers
  /\ \/ level[e] > 0 /\ Parsed(e)
     \/ level[e] = 0 /\ Continue(e, "patch")
  /\ UNCHANGED <<outside, api, ready, faults>>

\* The pod is fetched and put into the cache; all that is used of it never
\* changes, so a fetch and its put are one step.
FetchPod(e) ==
  /\ pc[e] = "fetch"
  /\ cached' = TRUE
  /\ timers' = IF timers < MaxTimers THEN timers + 1 ELSE timers
  /\ \/ level[e] > 0 /\ Parsed(e)
     \/ level[e] = 0 /\ Continue(e, "patch")
  /\ UNCHANGED <<outside, api, ready, faults>>

\* A timer deletes whatever is under the key, also a younger pod.
Expire ==
  /\ timers > 0
  /\ timers' = timers - 1
  /\ cached' = FALSE
  /\ UNCHANGED <<outside, api, pc, data, attempt, level, ready, faults>>

GetStorage(e) ==
  /\ pc[e] = "storage"
  /\ \/ Setting(e).type = "other" /\ Fail(e)
     \/ Setting(e).type \in ready /\ Continue(e, "store")
     \/ Setting(e).type \notin ready \cup {"other"} /\ Continue(e, "setup")
  /\ UNCHANGED <<outside, api, cache, ready, faults>>

\* Two goroutines may both have found the storage not initialised.  For the
\* Kubernetes clients that does no harm; http.Handle panics (Panics).
SetUpStorage(e) ==
  /\ pc[e] = "setup"
  /\ Setting(e).type = "HTTPMetric" => "HTTPMetric" \notin ready
  /\ ready' = ready \cup {Setting(e).type}
  /\ Continue(e, "store")
  /\ UNCHANGED <<outside, api, cache, faults>>

\* Mutant: the other object is stored to instead of the pod.
StoreInObjectOnly(e) ==
  /\ pc[e] = "store"
  /\ \/ Setting(e).type = "HTTPMetric" /\ data[e] \notin Numbers /\ Fail(e)
     \/ Setting(e).type = "InKube" /\ ~IsValid(e) /\ Fail(e)
     \/ /\ Setting(e).type = "InKube" /\ IsValid(e)
        /\ \/ StoresInObject(e) /\ Continue(e, "object")
           \/ ~StoresInObject(e) /\ cached /\ Continue(e, "patch")
           \/ ~StoresInObject(e) /\ ~cached /\ Continue(e, "fetch")
  /\ UNCHANGED <<outside, api, cache, ready, faults>>

Store(e) ==
  /\ pc[e] = "store"
  /\ \/ Setting(e).type = "HTTPMetric" /\ data[e] \notin Numbers /\ Fail(e)
     \/ Setting(e).type = "InKube" /\ ~IsValid(e) /\ Fail(e)
     \/ /\ Setting(e).type = "InKube" /\ IsValid(e)
        /\ \/ cached /\ Continue(e, "patch")
           \/ ~cached /\ Continue(e, "fetch")
  /\ UNCHANGED <<outside, api, cache, ready, faults>>

\* Mutant: data and markers are sent in two requests, of which one may fail.
SetPodByParts(e, d) ==
  /\ \E K \in {Config[conf[e]].dataKeys, Keys} :
       pod' = [k \in Keys |-> IF k \in K THEN Patched(pod, PatchOf[conf[e]][d])[k] ELSE pod[k]]
  /\ shown' = [shown EXCEPT ![e] = @ \cup {d}]

SetPod(e, d) ==
  /\ pod' = Patched(pod, PatchOf[conf[e]][d])
  /\ shown' = [shown EXCEPT ![e] = @ \cup {d}]

\* Mutant: keys that the object does not have are left out.
SetObjectKeys(e, d) ==
  object' = [k \in Keys |-> IF object[k] = None THEN None
                            ELSE Patched(object, PatchOf[conf[e]][d])[k]]

SetObject(e, d) ==
  /\ Applicable(object, PatchOf[conf[e]][d])
  /\ object' = Patched(object, PatchOf[conf[e]][d])

\* A conflict is retried with the same patch, which changes nothing here.
PatchPod(e) ==
  /\ pc[e] = "patch"
  /\ SetPod(e, data[e])
  /\ \/ StoresInObject(e) /\ Continue(e, "object")
     \/ ~StoresInObject(e) /\ Succeed(e)
  /\ UNCHANGED <<outside, object, wire, cache, ready, faults>>

PatchObject(e) ==
  /\ pc[e] = "object"
  /\ \/ SetObject(e, data[e]) /\ Succeed(e)
     \/ /\ ~Applicable(object, PatchOf[conf[e]][data[e]])
        /\ Fail(e)
        /\ UNCHANGED object
  /\ UNCHANGED <<outside, pod, wire, shown, cache, ready, faults>>

Fault == faults > 0 /\ faults' = faults - 1

\* The endpoint or the API server does not answer, or answers with an error.
CallFails(e) ==
  /\ pc[e] \in {"probe", "fetch", "patch", "object"}
  /\ Fault
  /\ Fail(e)
  /\ UNCHANGED <<outside, api, cache, ready>>

\* The patch is applied, but the answer is lost.
ReplyLost(e) ==
  /\ \/ pc[e] = "patch" /\ SetPod(e, data[e]) /\ UNCHANGED object
     \/ pc[e] = "object" /\ SetObject(e, data[e]) /\ UNCHANGED <<pod, shown>>
  /\ Fault
  /\ Fail(e)
  /\ UNCHANGED <<outside, wire, cache, ready>>

-----------------------------------------------------------------------------
(* How the process ends, and what is left of it.                           *)

\* data.(string) of something else; http.Handle of a path that is taken; a
\* write to promMetric's nil map.
Panics(e) ==
  \/ pc[e] = "probe" /\ truth[e] = NonString
  \/ pc[e] = "setup" /\ Setting(e).type = "HTTPMetric" /\ "HTTPMetric" \in ready
  \/ pc[e] = "store" /\ Setting(e).type = "HTTPMetric" /\ data[e] \in Numbers

\* Go may end a process in which a map is written while it is accessed.
UsesCache(e) ==
  \/ pc[e] = "parse"
  \/ pc[e] = "store" /\ Setting(e).type = "InKube" /\ IsValid(e)
MapRace ==
  \E e \in endpoints :
    \/ pc[e] = "fetch" /\ timers > 0
    \/ UsesCache(e) /\ timers > 0
    \/ pc[e] = "fetch" /\ \E f \in endpoints \ {e} : UsesCache(f) \/ pc[f] = "fetch"

InFlight ==
  {[to |-> IF pc[e] = "patch" THEN "pod" ELSE "object", by |-> e, data |-> data[e]] :
     e \in {f \in endpoints : pc[f] \in {"patch", "object"}}}

\* Patches that are under way may still reach the API server.
ProcessEnds ==
  /\ \E W \in SUBSET InFlight : wire' = wire \cup W
  /\ pc' = Off
  /\ data' = [e \in Endpoints |-> None]
  /\ attempt' = [e \in Endpoints |-> 0]
  /\ level' = [e \in Endpoints |-> 0]
  /\ cached' = FALSE /\ timers' = 0 /\ ready' = {}
  /\ UNCHANGED <<outside, pod, object, shown>>

DeliverLate(m) ==
  /\ m \in wire
  /\ wire' = wire \ {m}
  /\ \/ m.to = "pod" /\ SetPod(m.by, m.data) /\ UNCHANGED object
     \/ /\ m.to = "object"
        /\ SetObject(m.by, m.data) \/ UNCHANGED object
        /\ UNCHANGED <<pod, shown>>
  /\ UNCHANGED <<outside, pc, data, attempt, level, cache, ready, faults>>

\* The plugin's Start, after the delay.
Launch ==
  /\ pc = Off
  /\ pc' = [e \in Endpoints |-> IF e \in endpoints THEN "probe" ELSE "off"]
  /\ UNCHANGED <<outside, api, data, attempt, level, cache, ready, faults>>

Change(e, a) ==
  /\ changes < MaxChanges
  /\ a \in CanAnswer[conf[e]] \ {truth[e]}
  /\ changes' = changes + 1
  /\ truth' = [truth EXCEPT ![e] = a]
  /\ UNCHANGED <<conf, api, pc, data, attempt, level, cache, ready, faults>>

\* One step of a goroutine that is not a failure of something else.
Work(e) ==
  \/ Wake(e) \/ Probe(e) \/ ParseConfig(e) \/ FetchPod(e)
  \/ GetStorage(e) \/ SetUpStorage(e) \/ Store(e) \/ PatchPod(e) \/ PatchObject(e)

ProbeNext ==
  \/ \E e \in endpoints : Work(e) \/ CallFails(e) \/ ReplyLost(e)
  \/ \E e \in endpoints, a \in Answers : Change(e, a)
  \/ \E m \in wire : DeliverLate(m)
  \/ Expire \/ Launch \/ ProcessEnds

ProbeSpec == ProbeInit /\ [][ProbeNext]_probeVars

-----------------------------------------------------------------------------
(* Properties.                                                             *)

KeysOf == [s \in Settings |-> UNION {DOMAIN PatchOf[s][d] : d \in Data}]

\* No other endpoint writes the keys of this one.
Exclusive(e) == \A f \in endpoints \ {e} : KeysOf[conf[e]] \cap KeysOf[conf[f]] = {}

Untouched(obj, e) == \A k \in KeysOf[conf[e]] : obj[k] \in {None, UserValue}

Shows(obj, e, d) == \A k \in DOMAIN PatchOf[conf[e]][d] : obj[k] = PatchOf[conf[e]][d][k]

Has(obj, e, d, k) == k \in DOMAIN PatchOf[conf[e]][d] /\ obj[k] = PatchOf[conf[e]][d][k]

\* What was sent together stands together: everything of one state, that of
\* the last patch, and of a state before it all but what has been overwritten
\* by states that do not set the key in question.
ShowsWholeStates(obj, e, states) ==
  /\ Untouched(obj, e) \/ \E d \in states : Shows(obj, e, d)
  /\ \A k \in KeysOf[conf[e]] :
       \/ obj[k] \in {None, UserValue}
       \/ \E d \in states :
            /\ Has(obj, e, d, k)
            /\ \A j \in DOMAIN PatchOf[conf[e]][d] :
                 \/ Has(obj, e, d, j)
                 \/ \E c \in states : Has(obj, e, c, j) /\ k \notin DOMAIN PatchOf[conf[e]][c]

(* The pod is marked with whole states (storeInCurrentPod sends one patch   *)
(* with all that a state sets), whatever is retried, lost, late or         *)
(* interrupted.  No key is ever deleted: a state with a policy for other   *)
(* keys, or with none, leaves the markers of earlier states beside its     *)
(* own.  Where all states set the same keys, all the markers are of one.   *)
PodMarksAreWhole ==
  \A e \in endpoints : Exclusive(e) => ShowsWholeStates(pod, e, shown[e])

(* The other object shows nothing but states that the pod has been marked  *)
(* with before (Store patches the pod first), and each as a whole or not   *)
(* at all (a JSON patch of replace operations fails if a key is missing).  *)
ObjectFollowsPod ==
  \A e \in endpoints : Exclusive(e) => ShowsWholeStates(object, e, shown[e])

(* Storing implements Marking: whatever the goroutines do to each other,   *)
(* and however calls and processes fail, a step applies one whole patch to *)
(* the pod (storeInCurrentPod), or one that the pod has had to the other   *)
(* object (storeInOtherObject), or changes neither.                        *)
AllPatches == {PatchOf[s][d] : s \in Settings, d \in Data}
Sent == {p \in AllPatches : \E e \in endpoints : \E d \in shown[e] : p = PatchOf[conf[e]][d]}
Promise == INSTANCE Marking WITH Absent <- None, Patches <- AllPatches, sent <- Sent
MarkingRefinement == Promise!Spec

(* A pod in the cache has a timer that will remove it (GetCurrentPod), no  *)
(* matter how many goroutines have fetched it at once and whose timers     *)
(* have fired.                                                             *)
CachedPodExpires == cached => timers > 0

=============================================================================
