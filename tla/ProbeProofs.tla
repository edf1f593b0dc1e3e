---------------------------- MODULE ProbeProofs ----------------------------
(* Theorems about Probe, for all endpoints, configurations and bounds. *)
EXTENDS Probe, TLAPS

-----------------------------------------------------------------------------
(* What patches are made of.                                               *)

(* The elements of a sequence.                                             *)
LEMMA SeqElement ==
  ASSUME NEW S, NEW q \in Seq(S), NEW i \in DOMAIN q
  PROVE  q[i] \in S
OBVIOUS

(* The markers of a state are values for some of the keys (buildPolicyMap, *)
(* GetPolicyOfState).                                                      *)
LEMMA MarksTyped ==
  ASSUME NEW s \in Settings, NEW d \in Data
  PROVE  /\ DOMAIN MarksOf(s, d) \subseteq Keys
         /\ \A k \in DOMAIN MarksOf(s, d) : MarksOf(s, d)[k] \in Marks
<1>1. CASE PolicyIndex(s, d) = {}
  BY <1>1 DEF MarksOf
<1>2. CASE PolicyIndex(s, d) # {}
  <2> DEFINE Maps == UNION {[K -> Marks] : K \in SUBSET Keys}
             i == CHOOSE j \in PolicyIndex(s, d) : TRUE
  <2>1. i \in DOMAIN Config[s].policies
    BY <1>2 DEF PolicyIndex
  <2>2. Config[s].policies \in Seq([state : Data, marks : Maps])
    BY ConfigAssumption DEF StorageConfig
  <2>3. Config[s].policies[i] \in [state : Data, marks : Maps]
    <3> HIDE DEF i, Maps
    <3> QED BY <2>1, <2>2, SeqElement
  <2>4. Config[s].policies[i].marks \in Maps
    BY <2>3
  <2>5. PICK K \in SUBSET Keys : Config[s].policies[i].marks \in [K -> Marks]
    BY <2>4
  <2>6. MarksOf(s, d) = Config[s].policies[i].marks
    BY <1>2 DEF MarksOf
  <2> QED BY <2>5, <2>6
<1> QED BY <1>1, <1>2

(* A patch sets some of the keys to the data or to markers                 *)
(* (storeInCurrentPod, generatePatch).                                     *)
LEMMA PatchTyped ==
  ASSUME NEW s \in Settings, NEW d \in Data
  PROVE  /\ DOMAIN PatchOf[s][d] \subseteq Keys
         /\ \A k \in DOMAIN PatchOf[s][d] : PatchOf[s][d][k] \in Data \cup Marks
<1> DEFINE marks == MarksOf(s, d)
           patch == [k \in DOMAIN marks \cup Config[s].dataKeys |->
                       IF k \in DOMAIN marks THEN marks[k] ELSE d]
<1>1. PatchOf[s][d] = patch
  BY DEF PatchOf
<1>2. Config[s].dataKeys \subseteq Keys
  BY ConfigAssumption DEF StorageConfig
<1>3. /\ DOMAIN marks \subseteq Keys
      /\ \A k \in DOMAIN marks : marks[k] \in Marks
  BY MarksTyped
<1> QED BY <1>1, <1>2, <1>3

(* The keys an endpoint may write contain those of every patch.            *)
LEMMA PatchKeys ==
  ASSUME NEW s \in Settings, NEW d \in Data
  PROVE  DOMAIN PatchOf[s][d] \subseteq KeysOf[s]
BY DEF KeysOf

(* Applying a patch yields an object whose keys show it, and changes no    *)
(* other key.                                                              *)
LEMMA PatchedTyped ==
  ASSUME NEW s \in Settings, NEW d \in Data, NEW obj \in [Keys -> Values]
  PROVE  LET new == Patched(obj, PatchOf[s][d])
         IN /\ new \in [Keys -> Values]
            /\ \A k \in DOMAIN PatchOf[s][d] : new[k] = PatchOf[s][d][k]
            /\ \A k \in Keys \ DOMAIN PatchOf[s][d] : new[k] = obj[k]
<1>1. /\ DOMAIN PatchOf[s][d] \subseteq Keys
      /\ \A k \in DOMAIN PatchOf[s][d] : PatchOf[s][d][k] \in Data \cup Marks
  BY PatchTyped
<1> QED BY <1>1 DEF Patched, Values

-----------------------------------------------------------------------------
(* The invariant.                                                          *)

Working == {"parse", "fetch", "storage", "setup", "store", "patch", "object"}

GoTyped ==
  /\ pc \in [Endpoints -> PCs]
  /\ data \in [Endpoints -> Data \cup {None}]
  /\ attempt \in [Endpoints -> 0..Steps]
  /\ level \in [Endpoints -> 0..3]

ApiTyped ==
  /\ pod \in [Keys -> Values] /\ object \in [Keys -> Values]
  /\ wire \subseteq Patches
  /\ shown \in [Endpoints -> SUBSET Data]

CacheTyped == cached \in BOOLEAN /\ timers \in 0..MaxTimers

OutsideTyped ==
  /\ conf \in [Endpoints -> Settings \cup {None}]
  /\ truth \in [Endpoints -> Answers]
  /\ ready \subseteq {"InKube", "HTTPMetric"}
  /\ changes \in Nat

\* A goroutine at work has an endpoint, data and an attempt left; the pod has
\* been patched before the other object is.
RoundInv ==
  \A e \in Endpoints :
    /\ pc[e] = "off" => attempt[e] = 0
    /\ pc[e] \notin {"off", "sleep"} => attempt[e] < Steps /\ conf[e] # None
    /\ pc[e] \in Working => data[e] \in Data
    /\ pc[e] = "object" => data[e] \in shown[e]
    /\ pc[e] = "setup" => Config[conf[e]].type # "other"

\* So it has for a patch whose sender is dead.
LateInv ==
  \A m \in wire :
    conf[m.by] # None /\ (m.to = "object" => m.data \in shown[m.by])

ProbeInv ==
  /\ OutsideTyped /\ ApiTyped /\ GoTyped /\ CacheTyped
  /\ RoundInv /\ LateInv
  /\ PodMarksAreWhole /\ ObjectFollowsPod /\ CachedPodExpires

\* What has been shown is not forgotten.
Grows == conf' = conf /\ \A f \in Endpoints : shown[f] \subseteq shown'[f]

(* The invariant contains the type invariant of the plugin.                *)
LEMMA InvTyped == ProbeInv => ProbeTypeOK
BY DEF ProbeInv, ProbeTypeOK, OutsideTyped, ApiTyped, GoTyped, CacheTyped

-----------------------------------------------------------------------------
(* Steps within a round.                                                   *)

(* The end of an attempt leaves a goroutine that pauses or has an attempt  *)
(* left (retry.OnError).                                                   *)
LEMMA FinishKeeps ==
  ASSUME GoTyped, RoundInv, Grows,
         NEW e \in Endpoints, conf[e] # None,
         NEW l \in {"probe", "sleep"}, NEW a \in 0..Steps,
         l = "probe" => a < Steps,
         Finish(e, l, a)
  PROVE  GoTyped' /\ RoundInv'
<1>1. GoTyped'
  BY DEF GoTyped, PCs, Finish, Goto
<1>2. ASSUME NEW f \in Endpoints
      PROVE  /\ pc'[f] = "off" => attempt'[f] = 0
             /\ pc'[f] \notin {"off", "sleep"} => attempt'[f] < Steps /\ conf'[f] # None
             /\ pc'[f] \in Working => data'[f] \in Data
             /\ pc'[f] = "object" => data'[f] \in shown'[f]
             /\ pc'[f] = "setup" => Config[conf'[f]].type # "other"
  <2>1. CASE f = e
    BY <2>1 DEF Finish, Goto, GoTyped, Working, Grows
  <2>2. CASE f # e
    BY <2>2 DEF Finish, Goto, GoTyped, RoundInv, Grows
  <2> QED BY <2>1, <2>2
<1> QED BY <1>1, <1>2 DEF RoundInv

(* A failed attempt counts, and the last one ends the round.               *)
LEMMA FailKeeps ==
  ASSUME GoTyped, RoundInv, Grows,
         NEW e \in Endpoints, pc[e] \notin {"off", "sleep"}, Fail(e)
  PROVE  GoTyped' /\ RoundInv'
<1> DEFINE l == IF attempt[e] + 1 < Steps THEN "probe" ELSE "sleep"
           a == attempt[e] + 1
<1>1. Steps \in Nat
  BY BoundsAssumption
<1>2. a \in 0..Steps /\ conf[e] # None
  BY <1>1 DEF GoTyped, RoundInv
<1>3. l \in {"probe", "sleep"} /\ (l = "probe" => a < Steps)
  OBVIOUS
<1>4. Finish(e, l, a)
  BY DEF Fail
<1> HIDE DEF l, a
<1> QED BY <1>2, <1>3, <1>4, FinishKeeps

(* A stored state ends the round.                                          *)
LEMMA SucceedKeeps ==
  ASSUME GoTyped, RoundInv, Grows,
         NEW e \in Endpoints, conf[e] # None, Succeed(e)
  PROVE  GoTyped' /\ RoundInv'
<1>1. 0 \in 0..Steps
  BY BoundsAssumption
<1> QED BY <1>1, FinishKeeps DEF Succeed

(* A step forward keeps the data and the attempt.                          *)
LEMMA ContinueKeeps ==
  ASSUME GoTyped, RoundInv, Grows,
         NEW e \in Endpoints, pc[e] \notin {"off", "sleep"},
         NEW l \in Working, data[e] \in Data, l = "object" => data[e] \in shown'[e],
         l = "setup" => Config[conf[e]].type # "other",
         Goto(e, l), UNCHANGED <<data, attempt>>, level' \in [Endpoints -> 0..3]
  PROVE  GoTyped' /\ RoundInv'
<1>1. GoTyped'
  BY DEF GoTyped, PCs, Goto, Working
<1>2. ASSUME NEW f \in Endpoints
      PROVE  /\ pc'[f] = "off" => attempt'[f] = 0
             /\ pc'[f] \notin {"off", "sleep"} => attempt'[f] < Steps /\ conf'[f] # None
             /\ pc'[f] \in Working => data'[f] \in Data
             /\ pc'[f] = "object" => data'[f] \in shown'[f]
             /\ pc'[f] = "setup" => Config[conf'[f]].type # "other"
  <2>1. CASE f = e
    BY <2>1 DEF Goto, GoTyped, RoundInv, Working, Grows
  <2>2. CASE f # e
    BY <2>2 DEF Goto, GoTyped, RoundInv, Grows
  <2> QED BY <2>1, <2>2
<1> QED BY <1>1, <1>2 DEF RoundInv

(* So does a level of ParseConfig, unless a template has no value.         *)
LEMMA ParsedKeeps ==
  ASSUME GoTyped, RoundInv, Grows,
         NEW e \in Endpoints, pc[e] \in Working, Parsed(e)
  PROVE  GoTyped' /\ RoundInv'
<1>1. pc[e] \notin {"off", "sleep"} /\ data[e] \in Data
  BY DEF Working, RoundInv
<1>2. CASE /\ level[e] > 1 /\ Goto(e, "parse")
           /\ level' = [level EXCEPT ![e] = @ - 1]
           /\ UNCHANGED <<data, attempt>>
  <2>1. level' \in [Endpoints -> 0..3]
    BY <1>2 DEF GoTyped
  <2> QED BY <1>1, <1>2, <2>1, ContinueKeeps DEF Working
<1>3. CASE Fail(e)
  BY <1>1, <1>3, FailKeeps
<1>4. CASE /\ Goto(e, "storage") /\ level' = [level EXCEPT ![e] = 0]
           /\ UNCHANGED <<data, attempt>>
  <2>1. level' \in [Endpoints -> 0..3]
    BY <1>4 DEF GoTyped
  <2> QED BY <1>1, <1>4, <2>1, ContinueKeeps DEF Working
<1> QED BY <1>2, <1>3, <1>4 DEF Parsed

-----------------------------------------------------------------------------
(* Steps of the API server.                                                *)

(* The keys of an endpoint are keys.                                       *)
LEMMA KeysTyped ==
  ASSUME NEW s \in Settings
  PROVE  KeysOf[s] \subseteq Keys
BY PatchTyped DEF KeysOf

(* A patch shows its state as a whole, and leaves beside it what earlier   *)
(* whole states have under keys of which it sets none (storeInCurrentPod,  *)
(* storeInOtherObject).                                                    *)
LEMMA PatchIsWhole ==
  ASSUME NEW e, NEW obj, NEW new, NEW states, NEW d \in states,
         \A k \in DOMAIN PatchOf[conf[e]][d] : new[k] = PatchOf[conf[e]][d][k],
         \A c \in states : DOMAIN PatchOf[conf[e]][c] \subseteq KeysOf[conf[e]],
         \A k \in KeysOf[conf[e]] \ DOMAIN PatchOf[conf[e]][d] : new[k] = obj[k],
         ShowsWholeStates(obj, e, states)
  PROVE  ShowsWholeStates(new, e, states)
<1>1. Shows(new, e, d)
  BY DEF Shows
<1>2. ASSUME NEW k \in KeysOf[conf[e]], new[k] \notin {None, UserValue}
      PROVE  \E c \in states :
               /\ Has(new, e, c, k)
               /\ \A j \in DOMAIN PatchOf[conf[e]][c] :
                    \/ Has(new, e, c, j)
                    \/ \E b \in states : Has(new, e, b, j) /\ k \notin DOMAIN PatchOf[conf[e]][b]
  <2>1. CASE k \in DOMAIN PatchOf[conf[e]][d]
    BY <2>1 DEF Has
  <2>2. CASE k \notin DOMAIN PatchOf[conf[e]][d]
    <3>1. new[k] = obj[k]
      BY <2>2
    <3>2. PICK c \in states :
            /\ Has(obj, e, c, k)
            /\ \A j \in DOMAIN PatchOf[conf[e]][c] :
                 \/ Has(obj, e, c, j)
                 \/ \E b \in states : Has(obj, e, b, j) /\ k \notin DOMAIN PatchOf[conf[e]][b]
      BY <1>2, <3>1 DEF ShowsWholeStates
    <3>3. Has(new, e, c, k)
      BY <3>1, <3>2 DEF Has
    <3>4. ASSUME NEW j \in DOMAIN PatchOf[conf[e]][c]
          PROVE  \/ Has(new, e, c, j)
                 \/ \E b \in states : Has(new, e, b, j) /\ k \notin DOMAIN PatchOf[conf[e]][b]
      <4>1. CASE j \in DOMAIN PatchOf[conf[e]][d]
        BY <2>2, <4>1 DEF Has
      <4>2. CASE j \notin DOMAIN PatchOf[conf[e]][d]
        <5>1. new[j] = obj[j]
          BY <4>2
        <5> QED BY <3>2, <5>1 DEF Has
      <4> QED BY <4>1, <4>2
    <3> QED BY <3>3, <3>4
  <2> QED BY <2>1, <2>2
<1> QED BY <1>1, <1>2 DEF ShowsWholeStates

(* What is whole stays so with more states, and depends on the endpoint's  *)
(* own keys only.                                                          *)
LEMMA WholeStays ==
  ASSUME NEW e, NEW obj, NEW new, NEW states, NEW more, states \subseteq more,
         \A d \in states : DOMAIN PatchOf[conf[e]][d] \subseteq KeysOf[conf[e]],
         \A k \in KeysOf[conf[e]] : new[k] = obj[k],
         ShowsWholeStates(obj, e, states)
  PROVE  ShowsWholeStates(new, e, more)
<1>1. \A d \in states : \A k \in DOMAIN PatchOf[conf[e]][d] : new[k] = obj[k]
  OBVIOUS
<1>2. Untouched(new, e) \/ \E d \in more : Shows(new, e, d)
  BY <1>1 DEF ShowsWholeStates, Untouched, Shows
<1>3. \A d \in states : \A k : Has(obj, e, d, k) => Has(new, e, d, k)
  BY <1>1 DEF Has
<1>4. ASSUME NEW k \in KeysOf[conf[e]], new[k] \notin {None, UserValue}
      PROVE  \E d \in more :
               /\ Has(new, e, d, k)
               /\ \A j \in DOMAIN PatchOf[conf[e]][d] :
                    \/ Has(new, e, d, j)
                    \/ \E c \in more : Has(new, e, c, j) /\ k \notin DOMAIN PatchOf[conf[e]][c]
  <2>1. PICK d \in states :
          /\ Has(obj, e, d, k)
          /\ \A j \in DOMAIN PatchOf[conf[e]][d] :
               \/ Has(obj, e, d, j)
               \/ \E c \in states : Has(obj, e, c, j) /\ k \notin DOMAIN PatchOf[conf[e]][c]
    BY <1>4 DEF ShowsWholeStates
  <2> QED BY <1>3, <2>1
<1> QED BY <1>2, <1>4 DEF ShowsWholeStates

(* A patch for one endpoint keeps all endpoints' states whole that share   *)
(* no key with another.                                                    *)
LEMMA PatchKeepsWhole ==
  ASSUME OutsideTyped, NEW e \in endpoints, NEW obj \in [Keys -> Values], NEW new,
         NEW before \in [Endpoints -> SUBSET Data], NEW after \in [Endpoints -> SUBSET Data],
         \A f \in endpoints : before[f] \subseteq after[f],
         NEW d \in after[e], new = Patched(obj, PatchOf[conf[e]][d]),
         \A f \in endpoints : Exclusive(f) => ShowsWholeStates(obj, f, before[f])
  PROVE  /\ new \in [Keys -> Values]
         /\ \A f \in endpoints : Exclusive(f) => ShowsWholeStates(new, f, after[f])
<1>1. conf[e] \in Settings /\ d \in Data
  BY DEF OutsideTyped, endpoints
<1>2. /\ new \in [Keys -> Values]
      /\ \A k \in DOMAIN PatchOf[conf[e]][d] : new[k] = PatchOf[conf[e]][d][k]
      /\ \A k \in Keys \ DOMAIN PatchOf[conf[e]][d] : new[k] = obj[k]
  BY <1>1, PatchedTyped
<1>3. ASSUME NEW f \in endpoints, Exclusive(f)
      PROVE  ShowsWholeStates(new, f, after[f])
  <2>1. conf[f] \in Settings /\ before[f] \subseteq Data /\ after[f] \subseteq Data
    BY DEF OutsideTyped, endpoints
  <2>2. /\ KeysOf[conf[f]] \subseteq Keys
        /\ \A x \in Data : DOMAIN PatchOf[conf[f]][x] \subseteq KeysOf[conf[f]]
    BY <2>1, KeysTyped, PatchKeys
  <2>3. CASE f = e
    <3>1. ShowsWholeStates(obj, e, after[e])
      BY <1>3, <2>1, <2>2, <2>3, WholeStays
    <3> QED BY <1>2, <2>1, <2>2, <2>3, <3>1, PatchIsWhole
  <2>4. CASE f # e
    <3>1. KeysOf[conf[f]] \cap KeysOf[conf[e]] = {}
      BY <1>3, <2>4 DEF Exclusive
    <3>2. DOMAIN PatchOf[conf[e]][d] \subseteq KeysOf[conf[e]]
      BY <1>1, PatchKeys
    <3>3. \A k \in KeysOf[conf[f]] : new[k] = obj[k]
      BY <1>2, <2>2, <3>1, <3>2
    <3> QED BY <1>3, <2>1, <2>2, <3>3, WholeStays
  <2> QED BY <2>3, <2>4
<1> QED BY <1>2, <1>3

(* A patch of the pod marks it with a whole state.                         *)
LEMMA SetPodKeeps ==
  ASSUME OutsideTyped, ApiTyped, PodMarksAreWhole, conf' = conf,
         NEW e \in endpoints, NEW d \in Data, SetPod(e, d)
  PROVE  /\ pod' \in [Keys -> Values] /\ shown' \in [Endpoints -> SUBSET Data]
         /\ Grows /\ d \in shown'[e]
         /\ PodMarksAreWhole'
<1>1. e \in Endpoints
  BY DEF endpoints
<1>2. shown' \in [Endpoints -> SUBSET Data] /\ Grows /\ d \in shown'[e]
  BY <1>1 DEF SetPod, ApiTyped, Grows
<1>3. pod' = Patched(pod, PatchOf[conf[e]][d])
  BY DEF SetPod
<1>4. \A f \in endpoints : shown[f] \subseteq shown'[f]
  BY <1>2 DEF Grows, endpoints
<1>5. /\ pod' \in [Keys -> Values]
      /\ \A f \in endpoints : Exclusive(f) => ShowsWholeStates(pod', f, shown'[f])
  BY <1>2, <1>3, <1>4, PatchKeepsWhole DEF ApiTyped, PodMarksAreWhole
<1>6. PodMarksAreWhole'
  BY <1>5 DEF PodMarksAreWhole, endpoints, Exclusive, ShowsWholeStates, Untouched, Shows, Has
<1> QED BY <1>2, <1>5, <1>6

(* A patch of the other object with data that the pod has shown.           *)
LEMMA SetObjectKeeps ==
  ASSUME OutsideTyped, ApiTyped, ObjectFollowsPod, UNCHANGED <<conf, shown>>,
         NEW e \in endpoints, NEW d \in shown[e], SetObject(e, d)
  PROVE  object' \in [Keys -> Values] /\ ObjectFollowsPod'
<1>1. object' = Patched(object, PatchOf[conf[e]][d])
  BY DEF SetObject
<1>2. /\ object' \in [Keys -> Values]
      /\ \A f \in endpoints : Exclusive(f) => ShowsWholeStates(object', f, shown[f])
  BY <1>1, PatchKeepsWhole DEF ApiTyped, ObjectFollowsPod
<1>3. ObjectFollowsPod'
  BY <1>2 DEF ObjectFollowsPod, endpoints, Exclusive, ShowsWholeStates, Untouched, Shows, Has
<1> QED BY <1>2, <1>3

(* What is true of an object stays true while only shown grows.            *)
LEMMA GrowsKeeps ==
  ASSUME OutsideTyped, ApiTyped, Grows
  PROVE  /\ pod' = pod /\ PodMarksAreWhole => PodMarksAreWhole'
         /\ object' = object /\ ObjectFollowsPod => ObjectFollowsPod'
         /\ LateInv /\ wire' \subseteq wire => LateInv'
<1>1. ASSUME NEW obj, NEW f \in endpoints, ShowsWholeStates(obj, f, shown[f])
      PROVE  ShowsWholeStates(obj, f, shown'[f])
  <2>1. conf[f] \in Settings /\ shown[f] \subseteq Data /\ shown[f] \subseteq shown'[f]
    BY DEF OutsideTyped, ApiTyped, endpoints, Grows
  <2>2. \A d \in shown[f] : DOMAIN PatchOf[conf[f]][d] \subseteq KeysOf[conf[f]]
    BY <2>1, PatchKeys
  <2> QED BY <1>1, <2>1, <2>2, WholeStays
<1>2. ASSUME pod' = pod, PodMarksAreWhole
      PROVE  PodMarksAreWhole'
  <2>1. \A f \in endpoints : Exclusive(f) => ShowsWholeStates(pod', f, shown'[f])
    BY <1>1, <1>2 DEF PodMarksAreWhole
  <2> QED BY <2>1
          DEF PodMarksAreWhole, endpoints, Exclusive, ShowsWholeStates, Untouched, Shows, Has, Grows
<1>3. ASSUME object' = object, ObjectFollowsPod
      PROVE  ObjectFollowsPod'
  <2>1. \A f \in endpoints : Exclusive(f) => ShowsWholeStates(object', f, shown'[f])
    BY <1>1, <1>3 DEF ObjectFollowsPod
  <2> QED BY <2>1
          DEF ObjectFollowsPod, endpoints, Exclusive, ShowsWholeStates, Untouched, Shows, Has, Grows
<1>4. ASSUME LateInv, wire' \subseteq wire
      PROVE  LateInv'
  <2>1. \A m \in wire : m.by \in Endpoints
    BY DEF Patches, ApiTyped
  <2> QED BY <1>4, <2>1 DEF LateInv, Grows
<1> QED BY <1>2, <1>3, <1>4

-----------------------------------------------------------------------------
(* Steps of the plugin.                                                    *)

(* A step that touches neither the API server nor the cache has only to    *)
(* keep its round in order.                                                *)
LEMMA QuietKeeps ==
  ASSUME ProbeInv, UNCHANGED <<conf, api, cache>>, OutsideTyped', GoTyped', RoundInv'
  PROVE  ProbeInv'
<1>1. Grows
  BY DEF Grows, api
<1>2. /\ PodMarksAreWhole' /\ ObjectFollowsPod' /\ LateInv'
  BY <1>1, GrowsKeeps DEF ProbeInv, ApiTyped, api
<1>3. ApiTyped' /\ CacheTyped' /\ CachedPodExpires'
  BY DEF ProbeInv, ApiTyped, CacheTyped, CachedPodExpires, api, cache
<1> QED BY <1>2, <1>3 DEF ProbeInv

(* The facts of the invariant about a goroutine.                           *)
LEMMA AtWork ==
  ASSUME ProbeInv, NEW e \in endpoints
  PROVE  /\ e \in Endpoints /\ conf[e] # None /\ conf[e] \in Settings
         /\ Setting(e) \in StorageConfig
         /\ GoTyped /\ RoundInv /\ OutsideTyped /\ ApiTyped
         /\ pc[e] \in Working => data[e] \in Data
BY ConfigAssumption DEF ProbeInv, endpoints, OutsideTyped, RoundInv, Setting

(* Waking, probing, parsing and choosing the storage.                      *)
LEMMA QuietSteps ==
  ASSUME ProbeInv, NEW e \in endpoints,
         \/ Wake(e) \/ Probe(e) \/ ParseConfig(e) \/ GetStorage(e)
         \/ SetUpStorage(e) \/ Store(e) \/ CallFails(e)
  PROVE  ProbeInv'
<1> USE AtWork
<1>1. UNCHANGED <<conf, api, cache>> /\ Grows
  BY DEF Wake, Probe, ParseConfig, GetStorage, SetUpStorage, Store, CallFails,
         outside, api, cache, Grows
<1>2. OutsideTyped'
  <2>1. CASE SetUpStorage(e)
    <3>1. Setting(e).type \in {"InKube", "HTTPMetric"}
      BY <2>1 DEF SetUpStorage, RoundInv, Setting, StorageConfig
    <3> QED BY <2>1, <3>1 DEF SetUpStorage, OutsideTyped, outside
  <2>2. CASE ~SetUpStorage(e)
    BY <2>2 DEF Wake, Probe, ParseConfig, GetStorage, Store, CallFails, outside, OutsideTyped
  <2> QED BY <2>1, <2>2
<1>3. GoTyped' /\ RoundInv'
  <2>1. CASE Wake(e)
    <3>1. 0 \in 0..Steps /\ 0 < Steps
      BY BoundsAssumption
    <3> QED BY <1>1, <2>1, <3>1, FinishKeeps DEF Wake
  <2>2. CASE Probe(e)
    <3>1. pc[e] \notin {"off", "sleep"}
      BY <2>2 DEF Probe
    <3>2. CASE Fail(e)
      BY <1>1, <3>1, <3>2, FailKeeps
    <3>3. CASE /\ truth[e] \in Data /\ Goto(e, "parse")
               /\ data' = [data EXCEPT ![e] = truth[e]]
               /\ level' = [level EXCEPT ![e] = Levels(e)]
               /\ UNCHANGED attempt
      <4>1. GoTyped'
        BY <3>3 DEF GoTyped, Goto, PCs, Levels
      <4>2. ASSUME NEW f \in Endpoints
            PROVE  /\ pc'[f] = "off" => attempt'[f] = 0
                   /\ pc'[f] \notin {"off", "sleep"} => attempt'[f] < Steps /\ conf'[f] # None
                   /\ pc'[f] \in Working => data'[f] \in Data
                   /\ pc'[f] = "object" => data'[f] \in shown'[f]
                   /\ pc'[f] = "setup" => Config[conf'[f]].type # "other"
        BY <1>1, <3>1, <3>3 DEF GoTyped, RoundInv, Goto, Working, Grows, api
      <4> QED BY <4>1, <4>2 DEF RoundInv
    <3> QED BY <2>2, <3>2, <3>3 DEF Probe
  <2>3. CASE ParseConfig(e)
    <3>1. pc[e] \in Working /\ pc[e] \notin {"off", "sleep"}
      BY <2>3 DEF ParseConfig, Working
    <3>2. CASE Parsed(e)
      BY <1>1, <3>1, <3>2, ParsedKeeps
    <3>3. CASE Continue(e, "fetch")
      BY <1>1, <3>1, <3>3, ContinueKeeps DEF Continue, Working, GoTyped
    <3> QED BY <2>3, <3>2, <3>3 DEF ParseConfig
  <2>4. CASE GetStorage(e)
    <3>1. pc[e] \in Working /\ pc[e] \notin {"off", "sleep"}
      BY <2>4 DEF GetStorage, Working
    <3>2. CASE Fail(e)
      BY <1>1, <3>1, <3>2, FailKeeps
    <3>3. CASE Continue(e, "store")
      BY <1>1, <3>1, <3>3, ContinueKeeps DEF Continue, Working, GoTyped
    <3>4. CASE Setting(e).type \notin ready \cup {"other"} /\ Continue(e, "setup")
      BY <1>1, <3>1, <3>4, ContinueKeeps DEF Continue, Working, GoTyped, Setting
    <3> QED BY <2>4, <3>2, <3>3, <3>4 DEF GetStorage
  <2>5. CASE SetUpStorage(e)
    <3>1. pc[e] \in Working /\ pc[e] \notin {"off", "sleep"} /\ Continue(e, "store")
      BY <2>5 DEF SetUpStorage, Working
    <3> QED BY <1>1, <3>1, ContinueKeeps DEF Continue, Working, GoTyped
  <2>6. CASE Store(e)
    <3>1. pc[e] \in Working /\ pc[e] \notin {"off", "sleep"}
      BY <2>6 DEF Store, Working
    <3>2. CASE Fail(e)
      BY <1>1, <3>1, <3>2, FailKeeps
    <3>3. CASE Continue(e, "patch")
      BY <1>1, <3>1, <3>3, ContinueKeeps DEF Continue, Working, GoTyped
    <3>4. CASE Continue(e, "fetch")
      BY <1>1, <3>1, <3>4, ContinueKeeps DEF Continue, Working, GoTyped
    <3> QED BY <2>6, <3>2, <3>3, <3>4 DEF Store
  <2>7. CASE CallFails(e)
    <3>1. pc[e] \notin {"off", "sleep"} /\ Fail(e)
      BY <2>7 DEF CallFails
    <3> QED BY <1>1, <3>1, FailKeeps
  <2> QED BY <2>1, <2>2, <2>3, <2>4, <2>5, <2>6, <2>7
<1> QED BY <1>1, <1>2, <1>3, QuietKeeps

(* Fetching the pod arms a timer.                                          *)
LEMMA FetchKeeps ==
  ASSUME ProbeInv, NEW e \in endpoints, FetchPod(e)
  PROVE  ProbeInv'
<1> USE AtWork
<1>1. Grows /\ UNCHANGED <<outside, api, ready>>
  BY DEF FetchPod, outside, api, Grows
<1>2. pc[e] \in Working /\ pc[e] \notin {"off", "sleep"}
  BY DEF FetchPod, Working
<1>3. GoTyped' /\ RoundInv'
  <2>1. CASE Parsed(e)
    BY <1>1, <1>2, <2>1, ParsedKeeps
  <2>2. CASE Continue(e, "patch")
    BY <1>1, <1>2, <2>2, ContinueKeeps DEF Continue, Working, GoTyped
  <2> QED BY <2>1, <2>2 DEF FetchPod
<1>4. CacheTyped' /\ CachedPodExpires'
  BY BoundsAssumption DEF FetchPod, ProbeInv, CacheTyped, CachedPodExpires
<1>5. PodMarksAreWhole' /\ ObjectFollowsPod' /\ LateInv'
  BY <1>1, GrowsKeeps DEF ProbeInv, ApiTyped, api
<1>6. OutsideTyped' /\ ApiTyped'
  BY <1>1 DEF OutsideTyped, ApiTyped, outside, api
<1> QED BY <1>3, <1>4, <1>5, <1>6 DEF ProbeInv

(* A patch of the pod, with or without its answer.                         *)
LEMMA PatchPodKeeps ==
  ASSUME ProbeInv, NEW e \in endpoints, pc[e] = "patch", SetPod(e, data[e]),
         UNCHANGED <<outside, object, wire, cache, ready>>,
         \/ Continue(e, "object") \/ Succeed(e) \/ Fail(e)
  PROVE  ProbeInv'
<1> USE AtWork
<1>1. pc[e] \in Working /\ pc[e] \notin {"off", "sleep"} /\ data[e] \in Data
  BY DEF Working
<1>2. /\ pod' \in [Keys -> Values] /\ shown' \in [Endpoints -> SUBSET Data]
      /\ Grows /\ data[e] \in shown'[e]
      /\ PodMarksAreWhole'
  BY <1>1, SetPodKeeps DEF ProbeInv, outside
<1>3. GoTyped' /\ RoundInv'
  <2>1. CASE Continue(e, "object")
    BY <1>1, <1>2, <2>1, ContinueKeeps DEF Continue, Working, GoTyped
  <2>2. CASE Succeed(e)
    BY <1>2, <2>2, SucceedKeeps
  <2>3. CASE Fail(e)
    BY <1>1, <1>2, <2>3, FailKeeps
  <2> QED BY <2>1, <2>2, <2>3
<1>4. ObjectFollowsPod' /\ LateInv'
  BY <1>2, GrowsKeeps DEF ProbeInv, ApiTyped
<1>5. OutsideTyped' /\ ApiTyped' /\ CacheTyped' /\ CachedPodExpires'
  BY <1>2 DEF ProbeInv, OutsideTyped, ApiTyped, CacheTyped, CachedPodExpires, outside, cache
<1> QED BY <1>2, <1>3, <1>4, <1>5 DEF ProbeInv

(* A patch of the other object, or its refusal.                            *)
LEMMA PatchObjectKeeps ==
  ASSUME ProbeInv, NEW e \in endpoints, pc[e] = "object",
         SetObject(e, data[e]) \/ UNCHANGED object,
         UNCHANGED <<outside, pod, wire, shown, cache, ready>>,
         Succeed(e) \/ Fail(e)
  PROVE  ProbeInv'
<1> USE AtWork
<1>1. pc[e] \notin {"off", "sleep"} /\ data[e] \in shown[e] /\ Grows
  BY DEF RoundInv, Grows, outside
<1>2. object' \in [Keys -> Values] /\ ObjectFollowsPod'
  <2>1. CASE SetObject(e, data[e])
    BY <1>1, <2>1, SetObjectKeeps DEF ProbeInv, outside
  <2>2. CASE UNCHANGED object
    BY <1>1, <2>2, GrowsKeeps DEF ProbeInv, ApiTyped
  <2> QED BY <2>1, <2>2
<1>3. GoTyped' /\ RoundInv'
  BY <1>1, SucceedKeeps, FailKeeps
<1>4. PodMarksAreWhole' /\ LateInv'
  BY <1>1, GrowsKeeps DEF ProbeInv, ApiTyped
<1>5. OutsideTyped' /\ ApiTyped' /\ CacheTyped' /\ CachedPodExpires'
  BY <1>2 DEF ProbeInv, OutsideTyped, ApiTyped, CacheTyped, CachedPodExpires, outside, cache
<1> QED BY <1>2, <1>3, <1>4, <1>5 DEF ProbeInv

(* A patch whose sender is dead.                                           *)
LEMMA LateKeeps ==
  ASSUME ProbeInv, NEW m \in Patches, DeliverLate(m)
  PROVE  ProbeInv'
<1>1. /\ m.by \in endpoints /\ m.data \in Data
      /\ m.to = "object" => m.data \in shown[m.by]
      /\ OutsideTyped /\ ApiTyped
  BY DEF DeliverLate, ProbeInv, LateInv, Patches, endpoints
<1>2. /\ UNCHANGED <<outside, pc, data, attempt, level, cache, ready>>
      /\ conf' = conf /\ wire' \subseteq wire
  BY DEF DeliverLate, outside
<1>3. /\ ApiTyped' /\ Grows
      /\ PodMarksAreWhole' /\ ObjectFollowsPod'
  <2>1. CASE SetPod(m.by, m.data) /\ UNCHANGED object
    <3>1. /\ pod' \in [Keys -> Values] /\ shown' \in [Endpoints -> SUBSET Data]
          /\ Grows /\ PodMarksAreWhole'
      BY <1>1, <1>2, <2>1, SetPodKeeps DEF ProbeInv
    <3>2. ObjectFollowsPod'
      BY <2>1, <3>1, GrowsKeeps DEF ProbeInv
    <3> QED BY <1>1, <1>2, <2>1, <3>1, <3>2 DEF ApiTyped
  <2>2. CASE m.to = "object" /\ SetObject(m.by, m.data) /\ UNCHANGED <<pod, shown>>
    <3>1. object' \in [Keys -> Values] /\ ObjectFollowsPod'
      BY <1>1, <1>2, <2>2, SetObjectKeeps DEF ProbeInv
    <3>2. Grows /\ PodMarksAreWhole'
      BY <1>2, <2>2, GrowsKeeps DEF ProbeInv, Grows
    <3> QED BY <1>1, <1>2, <2>2, <3>1, <3>2 DEF ApiTyped
  <2>3. CASE UNCHANGED <<pod, object, shown>>
    <3>1. Grows
      BY <1>2, <2>3 DEF Grows
    <3> QED BY <1>1, <1>2, <2>3, <3>1, GrowsKeeps DEF ProbeInv, ApiTyped
  <2> QED BY <2>1, <2>2, <2>3 DEF DeliverLate
<1>4. LateInv'
  BY <1>1, <1>2, <1>3, GrowsKeeps DEF ProbeInv, ApiTyped
<1>5. RoundInv' /\ GoTyped'
  BY <1>2, <1>3 DEF ProbeInv, RoundInv, GoTyped, Grows
<1>6. OutsideTyped' /\ CacheTyped' /\ CachedPodExpires'
  BY <1>2 DEF ProbeInv, OutsideTyped, CacheTyped, CachedPodExpires, outside, cache
<1> QED BY <1>3, <1>4, <1>5, <1>6 DEF ProbeInv

(* An endpoint that answers something else, a timer.                       *)
LEMMA OutsideKeeps ==
  ASSUME ProbeInv,
         Expire \/ \E e \in endpoints, a \in Answers : Change(e, a)
  PROVE  ProbeInv'
<1>1. UNCHANGED <<conf, api, pc, data, attempt, level>> /\ Grows
  BY DEF Expire, Change, outside, api, Grows
<1>2. GoTyped' /\ RoundInv'
  BY <1>1 DEF ProbeInv, GoTyped, RoundInv, api
<1>3. PodMarksAreWhole' /\ ObjectFollowsPod' /\ LateInv'
  BY <1>1, GrowsKeeps DEF ProbeInv, ApiTyped, api
<1>4. ApiTyped'
  BY <1>1 DEF ProbeInv, ApiTyped, api
<1>5. OutsideTyped' /\ CacheTyped' /\ CachedPodExpires'
  <2>1. CASE Expire
    <3>1. UNCHANGED <<outside, ready>> /\ cached' = FALSE /\ timers > 0 /\ timers' = timers - 1
      BY <2>1 DEF Expire
    <3>2. cached' \in BOOLEAN /\ ~cached'
      BY <3>1
    <3>3. timers' \in 0..MaxTimers
      BY <3>1, BoundsAssumption DEF ProbeInv, CacheTyped
    <3>4. OutsideTyped'
      BY <3>1 DEF ProbeInv, OutsideTyped, outside
    <3> QED BY <3>2, <3>3, <3>4 DEF CacheTyped, CachedPodExpires
  <2>2. ASSUME NEW e \in endpoints, NEW a \in Answers, Change(e, a)
        PROVE  OutsideTyped' /\ CacheTyped' /\ CachedPodExpires'
    <3>1. UNCHANGED <<cache, conf, ready>>
      BY <2>2 DEF Change
    <3>2. truth' = [truth EXCEPT ![e] = a] /\ changes' = changes + 1
      BY <2>2 DEF Change
    <3>3. truth' \in [Endpoints -> Answers]
      BY <3>2 DEF ProbeInv, OutsideTyped
    <3>4. changes' \in Nat
      BY <3>2 DEF ProbeInv, OutsideTyped
    <3> QED BY <3>1, <3>3, <3>4
            DEF ProbeInv, OutsideTyped, CacheTyped, CachedPodExpires, cache
  <2> QED BY <2>1, <2>2
<1> QED BY <1>2, <1>3, <1>4, <1>5 DEF ProbeInv

(* The plugin starts its goroutines.                                       *)
LEMMA LaunchKeeps ==
  ASSUME ProbeInv, Launch
  PROVE  ProbeInv'
<1>1. UNCHANGED <<outside, conf, api, data, attempt, level, cache, ready>>
  BY DEF Launch, outside
<1>2. GoTyped'
  BY <1>1 DEF Launch, ProbeInv, GoTyped, PCs
<1>3. RoundInv'
  <2>1. \A e \in Endpoints : pc[e] = "off" /\ attempt[e] = 0 /\ 0 < Steps
    BY BoundsAssumption DEF Launch, Off, ProbeInv, RoundInv
  <2> QED BY <1>1, <2>1 DEF Launch, RoundInv, Working, endpoints
<1>4. OutsideTyped'
  BY <1>1 DEF ProbeInv, OutsideTyped, outside
<1> QED BY <1>1, <1>2, <1>3, <1>4, QuietKeeps

(* The end of the process leaves its patches behind.                       *)
LEMMA EndKeeps ==
  ASSUME ProbeInv, ProcessEnds
  PROVE  ProbeInv'
<1>1. UNCHANGED <<outside, conf, pod, object, shown>> /\ Grows
  BY DEF ProcessEnds, outside, Grows
<1>2. PICK W \in SUBSET InFlight : wire' = wire \cup W
  BY DEF ProcessEnds
<1>3. \A m \in InFlight :
        /\ m \in Patches /\ conf[m.by] # None
        /\ m.to = "object" => m.data \in shown[m.by]
  BY DEF InFlight, Patches, endpoints, ProbeInv, RoundInv, Working
<1>4. \A m \in wire :
        /\ m \in Patches /\ conf[m.by] # None
        /\ m.to = "object" => m.data \in shown[m.by]
  BY DEF ProbeInv, ApiTyped, LateInv
<1>5. LateInv' /\ ApiTyped'
  <2>1. \A m \in wire' :
          /\ m \in Patches /\ conf[m.by] # None
          /\ m.to = "object" => m.data \in shown[m.by]
    BY <1>2, <1>3, <1>4
  <2> QED BY <1>1, <2>1 DEF LateInv, ApiTyped, ProbeInv
<1>6. GoTyped' /\ RoundInv'
  BY BoundsAssumption DEF ProcessEnds, Off, GoTyped, RoundInv, PCs, Working
<1>7. PodMarksAreWhole' /\ ObjectFollowsPod'
  BY <1>1, GrowsKeeps DEF ProbeInv
<1>8. cached' = FALSE /\ timers' = 0 /\ ready' = {}
  BY DEF ProcessEnds
<1>9. CacheTyped' /\ CachedPodExpires'
  <2>1. cached' \in BOOLEAN /\ ~cached'
    BY <1>8
  <2>2. timers' \in 0..MaxTimers
    BY <1>8, BoundsAssumption
  <2> QED BY <2>1, <2>2 DEF CacheTyped, CachedPodExpires
<1>10. OutsideTyped'
  BY <1>1, <1>8 DEF ProbeInv, OutsideTyped, outside
<1> QED BY <1>5, <1>6, <1>7, <1>9, <1>10 DEF ProbeInv

-----------------------------------------------------------------------------
(* Theorems.                                                               *)

(* The invariant holds when a sidecar starts.                              *)
LEMMA InvInit == ProbeInit => ProbeInv
<1> SUFFICES ASSUME ProbeInit PROVE ProbeInv
  OBVIOUS
<1>1. OutsideTyped
  BY CanAnswerAssumption DEF ProbeInit, ProcessInit, OutsideTyped
<1>2. GoTyped /\ RoundInv
  BY BoundsAssumption DEF ProbeInit, ProcessInit, Off, GoTyped, RoundInv, PCs, Working
<1>3. CacheTyped /\ CachedPodExpires
  <2>1. cached = FALSE /\ timers = 0
    BY DEF ProbeInit, ProcessInit
  <2>2. cached \in BOOLEAN /\ ~cached
    BY <2>1
  <2>3. timers \in 0..MaxTimers
    BY <2>1, BoundsAssumption
  <2> QED BY <2>2, <2>3 DEF CacheTyped, CachedPodExpires
<1>4. ApiTyped /\ LateInv
  BY DEF ProbeInit, ApiTyped, LateInv, Values
<1>5. \A e \in endpoints : Untouched(pod, e) /\ Untouched(object, e)
  <2>1. \A e \in endpoints : KeysOf[conf[e]] \subseteq Keys
    BY <1>1, KeysTyped DEF OutsideTyped, endpoints
  <2> QED BY <2>1 DEF ProbeInit, Untouched
<1>6. PodMarksAreWhole /\ ObjectFollowsPod
  BY <1>5 DEF PodMarksAreWhole, ObjectFollowsPod, ShowsWholeStates, Untouched
<1> QED BY <1>1, <1>2, <1>3, <1>4, <1>6 DEF ProbeInv

(* Every step keeps it.                                                    *)
LEMMA InvNext == ProbeInv /\ [ProbeNext]_probeVars => ProbeInv'
<1> SUFFICES ASSUME ProbeInv, [ProbeNext]_probeVars PROVE ProbeInv'
  OBVIOUS
<1>1. ASSUME NEW e \in endpoints,
             Wake(e) \/ Probe(e) \/ ParseConfig(e) \/ GetStorage(e)
               \/ SetUpStorage(e) \/ Store(e) \/ CallFails(e)
      PROVE  ProbeInv'
  BY <1>1, QuietSteps
<1>2. ASSUME NEW e \in endpoints, FetchPod(e)
      PROVE  ProbeInv'
  BY <1>2, FetchKeeps
<1>3. ASSUME NEW e \in endpoints, PatchPod(e)
      PROVE  ProbeInv'
  BY <1>3, PatchPodKeeps DEF PatchPod
<1>4. ASSUME NEW e \in endpoints, PatchObject(e)
      PROVE  ProbeInv'
  BY <1>4, PatchObjectKeeps DEF PatchObject
<1>5. ASSUME NEW e \in endpoints, ReplyLost(e)
      PROVE  ProbeInv'
  <2>1. CASE pc[e] = "patch" /\ SetPod(e, data[e]) /\ UNCHANGED object
    BY <1>5, <2>1, PatchPodKeeps DEF ReplyLost
  <2>2. CASE pc[e] = "object" /\ SetObject(e, data[e]) /\ UNCHANGED <<pod, shown>>
    BY <1>5, <2>2, PatchObjectKeeps DEF ReplyLost
  <2> QED BY <1>5, <2>1, <2>2 DEF ReplyLost
<1>6. ASSUME NEW m \in wire, DeliverLate(m)
      PROVE  ProbeInv'
  BY <1>6, LateKeeps DEF ProbeInv, ApiTyped
<1>7. CASE Expire \/ \E e \in endpoints, a \in Answers : Change(e, a)
  BY <1>7, OutsideKeeps
<1>8. CASE Launch
  BY <1>8, LaunchKeeps
<1>9. CASE ProcessEnds
  BY <1>9, EndKeeps
<1>10. CASE UNCHANGED probeVars
  <2>1. OutsideTyped' /\ GoTyped' /\ RoundInv'
    BY <1>10 DEF probeVars, ProbeInv, OutsideTyped, GoTyped, RoundInv
  <2>2. UNCHANGED <<conf, api, cache>>
    BY <1>10 DEF probeVars, api, cache
  <2> QED BY <2>1, <2>2, QuietKeeps
<1> QED BY <1>1, <1>2, <1>3, <1>4, <1>5, <1>6, <1>7, <1>8, <1>9, <1>10 DEF ProbeNext, Work

(* Whatever the endpoints answer, whichever calls and processes fail, and  *)
(* however late patches arrive: the pod is marked with whole states, the   *)
(* other object follows the pod, and a cached pod has a timer.             *)
THEOREM ProbeInvariant == ProbeSpec => []ProbeInv
BY InvInit, InvNext, PTL DEF ProbeSpec

-----------------------------------------------------------------------------
(* Storing implements Marking.                                             *)

(* The patches of an endpoint are patches.                                 *)
LEMMA PatchesTyped ==
  ASSUME OutsideTyped, NEW e \in endpoints, NEW d \in Data
  PROVE  PatchOf[conf[e]][d] \in AllPatches
BY DEF OutsideTyped, endpoints, AllPatches

(* At first the pod has no markers, and nothing has been sent.             *)
LEMMA MarkingInit == ProbeInit => Promise!Init
<1> SUFFICES ASSUME ProbeInit PROVE Promise!Init
  OBVIOUS
<1>1. \A e \in endpoints : shown[e] = {}
  BY DEF ProbeInit, endpoints
<1>2. Sent = {}
  BY <1>1 DEF Sent
<1> QED BY <1>2 DEF ProbeInit, Promise!Init

(* A step that neither patches nor sends is a stutter of Marking.          *)
LEMMA MarkingStutters ==
  ASSUME UNCHANGED <<conf, pod, object, shown>>
  PROVE  UNCHANGED <<pod, object, Sent>>
BY DEF Sent, endpoints

(* A patch of the pod is a Mark.                                           *)
LEMMA MarkingMarks ==
  ASSUME OutsideTyped, ApiTyped, UNCHANGED <<conf, object>>,
         NEW e \in endpoints, NEW d \in Data, SetPod(e, d)
  PROVE  Promise!Next
<1> DEFINE p == PatchOf[conf[e]][d]
<1>1. pod' = Promise!Apply(pod, p)
  BY DEF SetPod, Patched, Promise!Apply
<1>2. shown' = [shown EXCEPT ![e] = @ \cup {d}] /\ e \in Endpoints
  BY DEF SetPod, endpoints
<1>3. \A f \in endpoints : shown'[f] = IF f = e THEN shown[f] \cup {d} ELSE shown[f]
  BY <1>2 DEF ApiTyped, endpoints
<1>4. endpoints' = endpoints
  BY DEF endpoints
<1>5. p \in AllPatches
  BY PatchesTyped
<1>6. Sent' = Sent \cup {p}
  <2>1. \A q \in AllPatches :
          (\E f \in endpoints : \E x \in shown'[f] : q = PatchOf[conf[f]][x])
          <=> q = p \/ \E f \in endpoints : \E x \in shown[f] : q = PatchOf[conf[f]][x]
    BY <1>3
  <2>2. Sent' = {q \in AllPatches :
                   \E f \in endpoints : \E x \in shown'[f] : q = PatchOf[conf[f]][x]}
    BY <1>4 DEF Sent, AllPatches
  <2> QED BY <1>5, <2>1, <2>2 DEF Sent
<1>7. Promise!Mark(p)
  BY <1>1, <1>6 DEF Promise!Mark
<1> QED BY <1>5, <1>7 DEF Promise!Next

(* A patch of the other object is a Follow.                                *)
LEMMA MarkingFollows ==
  ASSUME OutsideTyped, ApiTyped, UNCHANGED <<conf, pod, shown>>,
         NEW e \in endpoints, NEW d \in shown[e], SetObject(e, d)
  PROVE  Promise!Next
<1> DEFINE p == PatchOf[conf[e]][d]
<1>1. d \in Data
  BY DEF ApiTyped, endpoints
<1>2. p \in Sent
  BY <1>1, PatchesTyped DEF Sent
<1>3. (\A k \in DOMAIN p : object[k] # None) /\ object' = Promise!Apply(object, p)
  BY DEF SetObject, Applicable, Patched, Promise!Apply
<1>4. Sent' = Sent
  BY DEF Sent, endpoints
<1>5. Promise!Follow(p)
  BY <1>2, <1>3, <1>4 DEF Promise!Follow
<1> QED BY <1>1, <1>5, PatchesTyped DEF Promise!Next

(* Every step is one of Marking, or a stutter.                             *)
LEMMA MarkingNext ==
  ProbeInv /\ [ProbeNext]_probeVars => [Promise!Next]_<<pod, object, Sent>>
<1> SUFFICES ASSUME ProbeInv, [ProbeNext]_probeVars
             PROVE  Promise!Next \/ UNCHANGED <<pod, object, Sent>>
  OBVIOUS
<1> USE DEF ProbeInv
<1>1. ASSUME NEW e \in endpoints,
             Wake(e) \/ Probe(e) \/ ParseConfig(e) \/ FetchPod(e) \/ GetStorage(e)
               \/ SetUpStorage(e) \/ Store(e) \/ CallFails(e)
      PROVE  UNCHANGED <<conf, pod, object, shown>>
  BY <1>1 DEF Wake, Probe, ParseConfig, FetchPod, GetStorage, SetUpStorage, Store,
              CallFails, outside, api
<1>2. ASSUME NEW e \in endpoints, PatchPod(e)
      PROVE  Promise!Next
  <2>1. data[e] \in Data
    BY <1>2 DEF PatchPod, RoundInv, Working, endpoints
  <2> QED BY <1>2, <2>1, MarkingMarks DEF PatchPod, outside
<1>3. ASSUME NEW e \in endpoints, PatchObject(e)
      PROVE  Promise!Next \/ UNCHANGED <<conf, pod, object, shown>>
  <2>1. data[e] \in shown[e]
    BY <1>3 DEF PatchObject, RoundInv, endpoints
  <2>2. UNCHANGED <<conf, pod, shown>> /\ (SetObject(e, data[e]) \/ UNCHANGED object)
    BY <1>3 DEF PatchObject, outside
  <2> QED BY <2>1, <2>2, MarkingFollows
<1>4. ASSUME NEW e \in endpoints, ReplyLost(e)
      PROVE  Promise!Next
  <2>1. conf' = conf
    BY <1>4 DEF ReplyLost, outside
  <2>2. CASE pc[e] = "patch" /\ SetPod(e, data[e]) /\ UNCHANGED object
    <3>1. data[e] \in Data
      BY <2>2 DEF RoundInv, Working, endpoints
    <3> QED BY <2>1, <2>2, <3>1, MarkingMarks
  <2>3. CASE pc[e] = "object" /\ SetObject(e, data[e]) /\ UNCHANGED <<pod, shown>>
    <3>1. data[e] \in shown[e]
      BY <2>3 DEF RoundInv, endpoints
    <3> QED BY <2>1, <2>3, <3>1, MarkingFollows
  <2> QED BY <1>4, <2>2, <2>3 DEF ReplyLost
<1>5. ASSUME NEW m \in wire, DeliverLate(m)
      PROVE  Promise!Next \/ UNCHANGED <<conf, pod, object, shown>>
  <2>1. m.by \in endpoints /\ m.data \in Data /\ (m.to = "object" => m.data \in shown[m.by])
    BY DEF LateInv, ApiTyped, Patches, endpoints
  <2>2. conf' = conf
    BY <1>5 DEF DeliverLate, outside
  <2>3. CASE m.to = "pod" /\ SetPod(m.by, m.data) /\ UNCHANGED object
    BY <2>1, <2>2, <2>3, MarkingMarks
  <2>4. CASE /\ m.to = "object"
             /\ SetObject(m.by, m.data) \/ UNCHANGED object
             /\ UNCHANGED <<pod, shown>>
    BY <2>1, <2>2, <2>4, MarkingFollows
  <2> QED BY <1>5, <2>3, <2>4 DEF DeliverLate
<1>6. ASSUME Expire \/ Launch \/ ProcessEnds \/ \E e \in endpoints, a \in Answers : Change(e, a)
      PROVE  UNCHANGED <<conf, pod, object, shown>>
  BY <1>6 DEF Expire, Launch, ProcessEnds, Change, outside, api
<1>7. CASE UNCHANGED probeVars
  BY <1>7, MarkingStutters DEF probeVars
<1> QED BY <1>1, <1>2, <1>3, <1>4, <1>5, <1>6, <1>7, MarkingStutters DEF ProbeNext, Work

(* Storing implements Marking: one whole patch at a time, and nothing for  *)
(* the other object that the pod has not been marked with (inKube.Store).  *)
THEOREM StoringImplementsMarking == ProbeSpec => MarkingRefinement
BY ProbeInvariant, MarkingInit, MarkingNext, PTL
   DEF ProbeSpec, MarkingRefinement, Promise!Spec

=============================================================================
