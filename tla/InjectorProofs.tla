--------------------------- MODULE InjectorProofs ---------------------------
(***************************************************************************)
(* Theorems about the webhook and the collector: for every number of       *)
(* requests, SidecarConfigs, namespaces and attempts, and any pods and     *)
(* SidecarConfigs.                                                         *)
(***************************************************************************)
EXTENDS Injector, PodMutationProofs, FiniteSetTheorems

-----------------------------------------------------------------------------
(* The histories of objects.                                               *)

(* The history g is h, or h and one more state, and x is its latest.       *)
Grows(h, g, x) ==
  /\ Len(g) \in {Len(h), Len(h) + 1}
  /\ \A i \in 1..Len(h) : g[i] = h[i]
  /\ \A i \in 1..Len(g) : i \in 1..Len(h) \/ g[i] = x
  /\ Latest(g) = x

(* What a history is.                                                      *)
LEMMA HistoryType ==
  ASSUME NEW S, NEW h \in Seq(S), Len(h) >= 1
  PROVE  /\ Len(h) \in Nat /\ DOMAIN h = 1..Len(h)
         /\ \A i \in 1..Len(h) : h[i] \in S
         /\ Latest(h) \in S
<1>1. /\ Len(h) \in Nat /\ DOMAIN h = 1..Len(h)
      /\ \A i \in 1..Len(h) : h[i] \in S
  BY LenProperties, ElementOfSeq
<1> QED BY <1>1 DEF Latest

(* A history grows at its end, and what it held stays.                     *)
LEMMA AppendGrows ==
  ASSUME NEW S, NEW h \in Seq(S), NEW x \in S
  PROVE  /\ Append(h, x) \in Seq(S) /\ Len(h) \in Nat
         /\ Len(Append(h, x)) = Len(h) + 1
         /\ Grows(h, Append(h, x), x)
<1>1. /\ Append(h, x) \in Seq(S) /\ Len(Append(h, x)) = Len(h) + 1
      /\ \A i \in 1..Len(h) : Append(h, x)[i] = h[i]
      /\ Append(h, x)[Len(h) + 1] = x
  BY AppendProperties
<1>2. Len(h) \in Nat
  BY LenProperties
<1>3. \A i \in 1..(Len(h) + 1) : i \in 1..Len(h) \/ i = Len(h) + 1
  BY <1>2
<1> QED BY <1>1, <1>2, <1>3 DEF Latest, Grows

(* An update makes x the latest state, or finds that it is.                *)
LEMMA UpdatedGrows ==
  ASSUME NEW S, NEW h \in Seq(S), Len(h) >= 1, NEW x \in S
  PROVE  /\ Updated(h, x) \in Seq(S) /\ Len(h) \in Nat
         /\ Grows(h, Updated(h, x), x)
<1>1. /\ Append(h, x) \in Seq(S) /\ Len(h) \in Nat
      /\ Grows(h, Append(h, x), x)
  BY AppendGrows
<1> QED BY <1>1 DEF Updated, Grows

-----------------------------------------------------------------------------
(* The inductive type invariant.                                           *)

Busy == PCs \ {"new", "done"}

CallType ==
  [request : Pod \cup {NoPod}, pod : Pod \cup {NoPod}, dryRun : BOOLEAN,
   config : Configs \cup {NoConfig}, listed : Object \cup {NoObject},
   read : Nat, tries : 0..RetrySteps]

CollectorType ==
  [pc : {"idle", "list", "get", "put"}, todo : SUBSET Configs,
   listed : [Configs -> Object \cup {NoObject}], config : Configs \cup {NoConfig},
   updated : Nat, ready : Nat, read : Nat, tries : 0..RetrySteps]

(* An object has had a state from the beginning, and the cache holds one   *)
(* of its states.                                                          *)
ObjectsType ==
  /\ config \in [Configs -> Seq(Object)]
  /\ cmap \in [Namespaces -> Seq(Configmap)]
  /\ phases \in Seq([Calls -> Phase])

CachesType ==
  /\ seenConfig \in [Configs -> Nat] /\ seenCmap \in [Namespaces -> Nat]
  /\ \A c \in Configs : seenConfig[c] \in 1..Len(config[c])
  /\ \A n \in Namespaces : seenCmap[n] \in 1..Len(cmap[n])
  /\ seenPods \in 1..Len(phases)

(* A request under way has chosen a SidecarConfig; the pod stays in the    *)
(* namespace it was submitted to.                                          *)
CallsType ==
  /\ pc \in [Calls -> PCs] /\ call \in [Calls -> CallType]
  /\ \A k \in Calls :
       /\ pc[k] = "new" => call[k].config = NoConfig
       /\ pc[k] # "new" =>
            /\ call[k].request \in Pod /\ call[k].pod \in Pod
            /\ call[k].pod.namespace = call[k].request.namespace
            /\ call[k].config # NoConfig => call[k].listed \in Object
       /\ pc[k] \in Busy => call[k].config \in Configs

CollectorTyped ==
  /\ collector \in CollectorType
  /\ collector.pc \in {"get", "put"} => collector.config \in Configs
  /\ collector.pc # "idle" => collector.listed \in [Configs -> Object]

(* Only a request that is done has created a pod.                          *)
CreatedDone == \A k \in Calls : Created(k) => pc[k] = "done"

TypeInv ==
  /\ ObjectsType /\ CachesType /\ CallsType /\ CollectorTyped
  /\ CreatedDone /\ events \in 0..MaxEvents

(* The strengthening implies what TLC checks.                              *)
LEMMA TypeInvType == TypeInv => TypeOK
BY DEF TypeInv, ObjectsType, CachesType, CallsType, CollectorTyped, TypeOK, CallType,
       CollectorType

(* What can be said of the histories in every state.                       *)
LEMMA Histories ==
  ASSUME TypeInv
  PROVE  /\ \A c \in Configs :
              /\ config[c] \in Seq(Object) /\ Len(config[c]) \in Nat /\ Len(config[c]) >= 1
              /\ \A i \in 1..Len(config[c]) : config[c][i] \in Object
              /\ Latest(config[c]) \in Object /\ Cached(c) \in Object
         /\ \A n \in Namespaces :
              /\ cmap[n] \in Seq(Configmap) /\ Len(cmap[n]) \in Nat /\ Len(cmap[n]) >= 1
              /\ DOMAIN cmap[n] = 1..Len(cmap[n])
              /\ \A i \in 1..Len(cmap[n]) : cmap[n][i] \in Configmap
              /\ Latest(cmap[n]) \in Configmap /\ CachedCm(n) \in Configmap
         /\ Len(phases) \in Nat /\ Len(phases) >= 1
         /\ Latest(phases) \in [Calls -> Phase]
<1>1. /\ \A c \in Configs : config[c] \in Seq(Object)
      /\ \A n \in Namespaces : cmap[n] \in Seq(Configmap)
      /\ phases \in Seq([Calls -> Phase])
  BY DEF TypeInv, ObjectsType
<1>2. /\ \A c \in Configs : Len(config[c]) \in Nat
      /\ \A n \in Namespaces : Len(cmap[n]) \in Nat
      /\ Len(phases) \in Nat
  BY <1>1, LenProperties
<1>3. /\ \A c \in Configs : Len(config[c]) >= 1 /\ seenConfig[c] \in 1..Len(config[c])
      /\ \A n \in Namespaces : Len(cmap[n]) >= 1 /\ seenCmap[n] \in 1..Len(cmap[n])
      /\ Len(phases) >= 1
  BY <1>2 DEF TypeInv, CachesType
<1>4. /\ \A c \in Configs : /\ \A i \in 1..Len(config[c]) : config[c][i] \in Object
                            /\ Latest(config[c]) \in Object
      /\ \A n \in Namespaces : /\ DOMAIN cmap[n] = 1..Len(cmap[n])
                               /\ \A i \in 1..Len(cmap[n]) : cmap[n][i] \in Configmap
                               /\ Latest(cmap[n]) \in Configmap
      /\ Latest(phases) \in [Calls -> Phase]
  BY <1>1, <1>3, HistoryType
<1> QED BY <1>1, <1>2, <1>3, <1>4 DEF Cached, CachedCm

(* What can be said of a request under way.                                *)
LEMMA BusyCall ==
  ASSUME TypeInv, NEW k \in Calls, pc[k] \in Busy
  PROVE  /\ call[k] \in CallType /\ call[k].config \in Configs
         /\ call[k].listed \in Object /\ Ns(k) \in Namespaces
         /\ Yaml(k) \in Yamls /\ Wanted(k) \in Configmap
         /\ Wanted(k).exists /\ Wanted(k).hash = Yaml(k) /\ Wanted(k).yaml = Yaml(k)
         /\ pc[k] # "new" /\ pc[k] # "done"
<1>1. pc[k] # "new" /\ pc[k] # "done"
  BY DEF Busy
<1>2. /\ call[k] \in CallType /\ call[k].config \in Configs
      /\ call[k].listed \in Object /\ call[k].request \in Pod
  BY <1>1, NoConfigAssumption DEF TypeInv, CallsType
<1>3. Ns(k) \in Namespaces
  BY <1>2 DEF Ns, Pod
<1>4. Yaml(k) \in Yamls
  BY <1>2, SpecsAssumption DEF Yaml, Object, SidecarConfig
<1> QED BY <1>1, <1>2, <1>3, <1>4 DEF Wanted, Holding, Configmap

(* Before a request has come, its variables are at their zero values.      *)
LEMMA ZeroType == NoObject \in Object \cup {NoObject} /\ NewCall \in CallType
  /\ IdleCollector \in CollectorType /\ IdleCollector.pc = "idle"
BY RetryAssumption DEF NewCall, CallType, IdleCollector, CollectorType

(* A pod in another namespace is a pod, and the same but for that.         *)
LEMMA InFields ==
  ASSUME NEW pod \in Pod, NEW n \in Namespaces
  PROVE  /\ In(n, pod) \in Pod
         /\ In(n, pod).annotations = pod.annotations
         /\ In(n, pod).containers = pod.containers
         /\ In(n, pod).inits = pod.inits /\ In(n, pod).volumes = pod.volumes
         /\ AllContainers(In(n, pod)) = AllContainers(pod)
         /\ AlreadyInjected(In(n, pod)) = AlreadyInjected(pod)
BY DEF In, Pod, AllContainers, AlreadyInjected

(* What users submit is a pod, and it came from them or is a copy of that  *)
(* of a done request.                                                      *)
LEMMA SubmittedPods ==
  ASSUME TypeInv, NEW pod \in Submitted
  PROVE  /\ pod \in Pod
         /\ \/ pod \in PodShapes
            \/ \E j \in Calls, n \in Namespaces :
                 pc[j] = "done" /\ call[j].pod \in Pod /\ pod = In(n, call[j].pod)
<1>1. ASSUME NEW j \in Calls, Latest(phases)[j] # "absent", NEW n \in Namespaces
      PROVE  pc[j] = "done" /\ call[j].pod \in Pod /\ In(n, call[j].pod) \in Pod
  BY <1>1, InFields DEF TypeInv, CreatedDone, Created, CallsType
<1> QED BY <1>1, ShapesAssumption DEF Submitted

(* The first state has the invariant.                                      *)
LEMMA InitType == Init => TypeInv
<1> SUFFICES ASSUME Init PROVE TypeInv
  OBVIOUS
<1>1. \A S, x : x \in S => <<x>> \in Seq(S) /\ Len(<<x>>) = 1 /\ <<x>>[1] = x
  OBVIOUS
<1>2. ObjectsType
  <2>1. \A c \in Configs : [spec |-> InitialSpec[c], status |-> NoStatus] \in Object
    BY SpecsAssumption DEF Object, Status, NoStatus
  <2>2. \A yaml \in InitialYamls : (IF yaml = None THEN Absent ELSE Holding(yaml)) \in Configmap
    BY InitialYamlsAssumption DEF Absent, Holding, Configmap
  <2>3. NoPods \in [Calls -> Phase]
    BY DEF NoPods, Phase
  <2> QED BY <1>1, <2>1, <2>2, <2>3 DEF Init, ObjectsType
<1>3. CachesType
  BY <1>1 DEF Init, CachesType
<1>4. CallsType
  BY ZeroType DEF Init, CallsType, PCs, Busy, NewCall
<1>5. CollectorTyped
  BY ZeroType DEF Init, CollectorTyped
<1>6. CreatedDone
  BY <1>1 DEF Init, CreatedDone, Created, Latest, NoPods
<1> QED BY <1>2, <1>3, <1>4, <1>5, <1>6, BoundsAssumption DEF Init, TypeInv

-----------------------------------------------------------------------------
(* What a step does to the requests.                                       *)

(* What a request was asked, and what it has listed, stays.                *)
SameFields(k) ==
  /\ call'[k].request = call[k].request /\ call'[k].dryRun = call[k].dryRun
  /\ call'[k].config = call[k].config /\ call'[k].listed = call[k].listed

(* Every step but the coming of a request: requests go on or end, a pod is *)
(* as InjectPod made it or as it was submitted, and is created at the end, *)
(* if at all: as InjectPod made it only when the webhook answers.          *)
Continues ==
  /\ pc' \in [Calls -> PCs] /\ call' \in [Calls -> CallType]
  /\ phases' \in Seq([Calls -> Phase]) /\ Len(phases') >= Len(phases)
  /\ \A k \in Calls :
       /\ SameFields(k)
       /\ pc'[k] = "new" <=> pc[k] = "new"
       /\ pc[k] = "done" => pc'[k] = "done"
       /\ pc[k] = "answer" => pc'[k] \in {"answer", "done"}
       /\ \/ call'[k].pod = call[k].pod
          \/ call'[k].pod = call[k].request /\ pc[k] \in Busy /\ pc'[k] = "done"
       /\ Created(k)' => \/ Created(k)
                         \/ /\ pc[k] \in Busy /\ pc'[k] = "done"
                            /\ pc[k] = "answer" \/ call'[k].pod = call[k].request

(* No step of a request.                                                   *)
LEMMA QuietContinues ==
  ASSUME TypeInv, UNCHANGED <<pc, call, phases>>
  PROVE  Continues
<1>1. pc' = pc /\ call' = call /\ phases' = phases
  OBVIOUS
<1>2. Len(phases) \in Nat /\ Len(phases) >= 1
  BY Histories
<1>3. \A k \in Calls : Created(k)' <=> Created(k)
  BY <1>1 DEF Created, Latest
<1>4. \A k \in Calls : pc[k] = "answer" => pc[k] \in {"answer", "done"}
  OBVIOUS
<1> QED BY <1>1, <1>2, <1>3, <1>4 DEF Continues, SameFields, TypeInv, CallsType, ObjectsType

(* A request goes from one place to another.                               *)
LEMMA MoveContinues ==
  ASSUME TypeInv, NEW k \in Calls, pc[k] \in Busy, pc[k] # "answer",
         NEW l \in Busy, Goto(k, l), UNCHANGED phases,
         NEW r \in Nat, NEW t \in 0..RetrySteps,
         \/ call' = call
         \/ call' = [call EXCEPT ![k].read = r]
         \/ call' = [call EXCEPT ![k].tries = t]
  PROVE  Continues
<1>1. pc' \in [Calls -> PCs] /\ \A j \in Calls : pc'[j] = IF j = k THEN l ELSE pc[j]
  BY DEF Goto, TypeInv, CallsType, Busy
<1>2. call \in [Calls -> CallType] /\ call[k] \in CallType
  BY DEF TypeInv, CallsType
<1>3. /\ call' \in [Calls -> CallType]
      /\ \A j \in Calls : SameFields(j) /\ call'[j].pod = call[j].pod
  BY <1>2 DEF CallType, SameFields
<1>4. /\ phases' \in Seq([Calls -> Phase]) /\ Len(phases') >= Len(phases)
      /\ \A j \in Calls : Created(j)' <=> Created(j)
  BY Histories DEF TypeInv, ObjectsType, Created, Latest
<1>5. l # "new" /\ l # "done" /\ pc[k] # "new" /\ pc[k] # "done"
  BY DEF Busy
<1> QED BY <1>1, <1>3, <1>4, <1>5 DEF Continues

(* What Create does.                                                       *)
LEMMA CreateGrows ==
  ASSUME TypeInv, NEW k \in Calls, NEW dryRun, Create(k, dryRun)
  PROVE  /\ phases' \in Seq([Calls -> Phase]) /\ Len(phases') >= Len(phases)
         /\ \A j \in Calls : Created(j)' => Created(j) \/ j = k
<1>1. /\ phases \in Seq([Calls -> Phase]) /\ Len(phases) \in Nat
      /\ Latest(phases) \in [Calls -> Phase]
  BY Histories DEF TypeInv, ObjectsType
<1>2. CASE dryRun
  BY <1>1, <1>2 DEF Create, Created, Latest
<1>3. CASE ~dryRun
  <2> DEFINE x == [Latest(phases) EXCEPT ![k] = "Pending"]
  <2>1. x \in [Calls -> Phase] /\ \A j \in Calls : j # k => x[j] = Latest(phases)[j]
    BY <1>1 DEF Phase
  <2>2. phases' = Append(phases, x)
    BY <1>3 DEF Create
  <2> HIDE DEF x
  <2>3. /\ phases' \in Seq([Calls -> Phase]) /\ Len(phases') = Len(phases) + 1
        /\ Latest(phases') = x
    BY <1>1, <2>1, <2>2, AppendGrows DEF Grows
  <2>4. \A j \in Calls : Created(j)' => Created(j) \/ j = k
    BY <2>1, <2>3 DEF Created, Latest
  <2> QED BY <1>1, <2>3, <2>4
<1> QED BY <1>2, <1>3

(* A request ends with the creation of the pod, as it is if the webhook    *)
(* answers, and otherwise as it was submitted.                             *)
LEMMA EndContinues ==
  ASSUME TypeInv, NEW k \in Calls, pc[k] \in Busy,
         Goto(k, "done"), Create(k, call[k].dryRun),
         \/ call' = call /\ pc[k] = "answer"
         \/ call' = [call EXCEPT ![k].pod = call[k].request]
  PROVE  Continues
<1>1. pc' \in [Calls -> PCs] /\ \A j \in Calls : pc'[j] = IF j = k THEN "done" ELSE pc[j]
  BY DEF Goto, TypeInv, CallsType, PCs
<1>2. call \in [Calls -> CallType] /\ call[k] \in CallType
  BY DEF TypeInv, CallsType
<1>3. /\ call' \in [Calls -> CallType]
      /\ \A j \in Calls : SameFields(j)
      /\ \A j \in Calls : \/ call'[j].pod = call[j].pod
                          \/ j = k /\ call'[j].pod = call[j].request
      /\ pc[k] = "answer" \/ call'[k].pod = call[k].request
  BY <1>2 DEF CallType, SameFields
<1>4. /\ phases' \in Seq([Calls -> Phase]) /\ Len(phases') >= Len(phases)
      /\ \A j \in Calls : Created(j)' => Created(j) \/ j = k
  BY CreateGrows
<1>5. pc[k] # "new" /\ pc[k] # "done"
  BY DEF Busy
<1> QED BY <1>1, <1>3, <1>4, <1>5 DEF Continues

(* A denied request ends without a pod.                                    *)
LEMMA DenyContinues ==
  ASSUME TypeInv, NEW k \in Calls, pc[k] \in Busy, Deny(k)
  PROVE  Continues
<1>1. call' = call /\ phases' = phases
  BY DEF Deny
<1>2. pc' \in [Calls -> PCs] /\ \A j \in Calls : pc'[j] = IF j = k THEN "done" ELSE pc[j]
  BY DEF Deny, Goto, TypeInv, CallsType, PCs
<1>3. Len(phases) \in Nat /\ Len(phases) >= 1
  BY Histories
<1>4. \A j \in Calls : Created(j)' <=> Created(j)
  BY <1>1 DEF Created, Latest
<1>5. pc[k] # "new" /\ pc[k] # "done"
  BY DEF Busy
<1> QED BY <1>1, <1>2, <1>3, <1>4, <1>5
        DEF Continues, SameFields, TypeInv, CallsType, ObjectsType

(* Every step of a request is of one of these kinds.                       *)
LEMMA StepContinues ==
  ASSUME TypeInv, NEW k \in Calls, Step(k) \/ Failure(k)
  PROVE  Continues
<1>1. /\ call[k].tries \in 0..RetrySteps /\ call[k].read \in Nat /\ 0 \in 0..RetrySteps
      /\ call[k].tries + 1 < RetrySteps => call[k].tries + 1 \in 0..RetrySteps
  BY RetryAssumption DEF TypeInv, CallsType, CallType
<1>2. /\ {"ensure", "create", "getcm", "putcm", "getst", "putst", "answer"} \subseteq Busy
      /\ \A l \in {"ensure", "create", "getcm", "putcm", "getst", "putst"} : l # "answer"
  BY DEF Busy, PCs
<1>3. ASSUME NEW l \in {"getcm", "getst"}, Retry(k, l), pc[k] \in Busy, pc[k] # "answer"
      PROVE  Continues
  <2>1. /\ call' = [call EXCEPT ![k].tries = call[k].tries + 1]
        /\ call[k].tries + 1 \in 0..RetrySteps /\ Goto(k, l) /\ UNCHANGED phases
    BY <1>1, <1>3 DEF Retry
  <2> QED BY <1>1, <1>2, <1>3, <2>1, MoveContinues
<1>4. CASE EnsureConfigmap(k)
  <2>1. PICK l \in Busy : Goto(k, l)
    BY <1>2, <1>4 DEF EnsureConfigmap
  <2> QED BY <1>1, <1>2, <1>4, <2>1, MoveContinues DEF EnsureConfigmap, objects
<1>5. CASE CreateConfigmap(k)
  BY <1>1, <1>2, <1>5, MoveContinues DEF CreateConfigmap
<1>6. CASE GetConfigmap(k)
  <2>1. CASE Deny(k)
    BY <1>2, <1>6, <2>1, DenyContinues DEF GetConfigmap
  <2>2. CASE ~Deny(k)
    <3>1. Ns(k) \in Namespaces
      BY <1>2, <1>6, BusyCall DEF GetConfigmap
    <3>2. seenCmap[Ns(k)] \in Nat
      BY <3>1 DEF TypeInv, CachesType
    <3> QED BY <1>1, <1>2, <1>6, <2>2, <3>2, MoveContinues DEF GetConfigmap
  <2> QED BY <2>1, <2>2
<1>7. CASE UpdateConfigmap(k)
  BY <1>1, <1>2, <1>7, MoveContinues DEF UpdateConfigmap
<1>8. CASE UpdateConfigmapFails(k)
  BY <1>2, <1>3, <1>8, DenyContinues DEF UpdateConfigmapFails
<1>9. CASE GetStatus(k)
  <2>1. call[k].config \in Configs
    BY <1>2, <1>9, BusyCall DEF GetStatus
  <2>2. seenConfig[call[k].config] \in Nat
    BY <2>1 DEF TypeInv, CachesType
  <2> QED BY <1>1, <1>2, <1>9, <2>2, MoveContinues DEF GetStatus, objects
<1>10. CASE UpdateStatus(k)
  BY <1>1, <1>2, <1>10, MoveContinues DEF UpdateStatus
<1>11. CASE UpdateStatusConflict(k)
  <2>1. CASE Retry(k, "getst")
    BY <1>2, <1>3, <1>11, <2>1 DEF UpdateStatusConflict
  <2>2. CASE GivesUp(k) /\ Goto(k, "answer") /\ UNCHANGED <<phases, call>>
    BY <1>1, <1>2, <1>11, <2>2, MoveContinues DEF UpdateStatusConflict
  <2> QED BY <1>11, <2>1, <2>2 DEF UpdateStatusConflict
<1>12. CASE Answer(k)
  BY <1>2, <1>12, EndContinues DEF Answer
<1>13. CASE CallFails(k)
  BY <1>2, <1>13, DenyContinues DEF CallFails
<1>14. CASE WebhookTimesOut(k)
  <2>1. pc[k] \in Busy
    BY <1>14 DEF WebhookTimesOut, Busy, TypeInv, CallsType
  <2> QED BY <1>14, <2>1, EndContinues DEF WebhookTimesOut
<1>15. CASE StatusFails(k)
  BY <1>1, <1>2, <1>15, MoveContinues DEF StatusFails, objects
<1> QED BY <1>4, <1>5, <1>6, <1>7, <1>8, <1>9, <1>10, <1>11, <1>12, <1>13, <1>14, <1>15
        DEF Step, Failure

(* A restart ends the requests under way.                                  *)
LEMMA RestartContinues ==
  ASSUME TypeInv, Restart
  PROVE  Continues
<1> DEFINE lost == {k \in Calls : pc[k] \notin {"new", "done"}}
           x == [k \in Calls |-> IF k \in lost /\ ~call[k].dryRun
                                 THEN "Pending" ELSE Latest(phases)[k]]
<1>1. /\ phases \in Seq([Calls -> Phase]) /\ Len(phases) \in Nat /\ Len(phases) >= 1
      /\ Latest(phases) \in [Calls -> Phase]
  BY Histories DEF TypeInv, ObjectsType
<1>2. x \in [Calls -> Phase] /\ phases' = Updated(phases, x)
  BY <1>1 DEF Restart, Phase
<1>3. \A k \in Calls : /\ k \in lost => pc[k] \in Busy
                       /\ k \notin lost => pc[k] \in {"new", "done"}
                       /\ k \notin lost => x[k] = Latest(phases)[k]
  BY DEF TypeInv, CallsType, Busy
<1>4. /\ pc' \in [Calls -> PCs]
      /\ \A k \in Calls : pc'[k] = IF k \in lost THEN "done" ELSE pc[k]
  BY DEF Restart, TypeInv, CallsType, PCs
<1>5. /\ call \in [Calls -> CallType]
      /\ call' = [k \in Calls |-> IF k \in lost
                                  THEN [call[k] EXCEPT !.pod = call[k].request]
                                  ELSE call[k]]
  BY DEF Restart, TypeInv, CallsType
<1>6. call' \in [Calls -> CallType]
  BY <1>5 DEF CallType
<1>7. \A k \in Calls : SameFields(k) /\ call'[k].pod \in {call[k].pod, call[k].request}
                       /\ (k \notin lost => call'[k].pod = call[k].pod)
                       /\ (k \in lost => call'[k].pod = call[k].request)
  BY <1>5 DEF CallType, SameFields
<1> HIDE DEF x, lost
<1>8. /\ phases' \in Seq([Calls -> Phase]) /\ Len(phases') >= Len(phases)
      /\ Latest(phases') = x
  BY <1>1, <1>2, UpdatedGrows DEF Grows
<1>9. \A k \in Calls : Created(k)' => Created(k) \/ k \in lost
  BY <1>3, <1>8 DEF Created, Latest
<1>10. \A k \in Calls : pc[k] = "answer" => pc'[k] \in {"answer", "done"}
  BY <1>4
<1>11. \A k \in Busy : k # "new" /\ k # "done"
  BY DEF Busy
<1> QED BY <1>3, <1>4, <1>6, <1>7, <1>8, <1>9, <1>10, <1>11 DEF Continues

(* A created pod begins to run.                                            *)
LEMMA RunContinues ==
  ASSUME TypeInv, NEW k \in Calls, RunPod(k)
  PROVE  Continues
<1> DEFINE x == [Latest(phases) EXCEPT ![k] = "Running"]
<1>1. /\ phases \in Seq([Calls -> Phase]) /\ Len(phases) \in Nat
      /\ Latest(phases) \in [Calls -> Phase]
  BY Histories DEF TypeInv, ObjectsType
<1>2. /\ x \in [Calls -> Phase] /\ phases' = Append(phases, x)
      /\ \A j \in Calls : x[j] # "absent" => Latest(phases)[j] # "absent"
  BY <1>1 DEF RunPod, Phase
<1> HIDE DEF x
<1>3. /\ phases' \in Seq([Calls -> Phase]) /\ Len(phases') >= Len(phases)
      /\ Latest(phases') = x
  BY <1>1, <1>2, AppendGrows DEF Grows
<1>4. \A j \in Calls : Created(j)' => Created(j)
  BY <1>2, <1>3 DEF Created, Latest
<1>5. pc' = pc /\ call' = call
  BY DEF RunPod
<1>6. \A j \in Calls : pc[j] = "answer" => pc[j] \in {"answer", "done"}
  OBVIOUS
<1> QED BY <1>3, <1>4, <1>5, <1>6 DEF Continues, SameFields, TypeInv, CallsType

(* A step of the system is the coming of a request, or continues.          *)
LEMMA NextContinues ==
  ASSUME TypeInv, [Next]_vars
  PROVE  \/ \E k \in Calls, pod \in Submitted, dryRun \in CanDryRun : Default(k, pod, dryRun)
         \/ Continues
<1>1. CASE UNCHANGED vars
  BY <1>1, QuietContinues DEF vars
<1>2. ASSUME NEW k \in Calls, Step(k) \/ Failure(k) \/ RunPod(k)
      PROVE  Continues
  BY <1>2, StepContinues, RunContinues
<1>3. CASE CollectorStep \/ CollectorFails
  BY <1>3, QuietContinues
     DEF CollectorStep, CollectorFails, Tick, CollectPods, GetCollected, UpdateCollected,
         UpdateCollectedConflict, objects
<1>4. CASE Sync
  BY <1>4, QuietContinues DEF Sync, SyncConfig, SyncConfigmap, SyncPods, objects
<1>5. CASE Restart
  BY <1>5, RestartContinues
<1>6. ASSUME NEW c \in Configs, NEW spec \in Specs, EditConfig(c, spec)
      PROVE  Continues
  BY <1>6, QuietContinues DEF EditConfig
<1>7. ASSUME NEW n \in Namespaces, ChangeConfigmap(n)
      PROVE  Continues
  BY <1>7, QuietContinues DEF ChangeConfigmap
<1> QED BY <1>1, <1>2, <1>3, <1>4, <1>5, <1>6, <1>7 DEF Next

-----------------------------------------------------------------------------
(* What a step does to the objects.                                        *)

(* What can be the next state of a SidecarConfig: a request has counted    *)
(* itself, the collector has counted pods, or a user has edited the spec.  *)
CountedState(c, x) ==
  /\ x.spec = Latest(config[c]).spec
  /\ x.status.updated = Latest(config[c]).status.updated
  /\ x.status.ready = Latest(config[c]).status.ready
  /\ \E k \in Calls : /\ pc[k] = "putst" /\ pc'[k] = "answer" /\ call[k].config = c
                      /\ x.status.matched = call[k].listed.status.matched + 1

CollectedState(c, x) ==
  /\ x.spec = Latest(config[c]).spec
  /\ x.status.matched = Latest(config[c]).status.matched

EditedState(c, x) == x.status = Latest(config[c]).status

ConfigStep(c) ==
  \/ config'[c] = config[c]
  \/ \E x \in Object :
       /\ Grows(config[c], config'[c], x)
       /\ CountedState(c, x) \/ CollectedState(c, x) \/ EditedState(c, x)

(* What can be the next state of a kidecar-config: what a request under    *)
(* way wants, or something without a hash.                                 *)
CmapStep(n) ==
  \/ cmap'[n] = cmap[n]
  \/ \E x \in Configmap :
       /\ Grows(cmap[n], cmap'[n], x)
       /\ x.hash = None \/ \E k \in Calls : pc[k] \in Busy /\ Ns(k) = n /\ x = Wanted(k)

ObjectSteps ==
  /\ config' \in [Configs -> Seq(Object)] /\ \A c \in Configs : ConfigStep(c)
  /\ cmap' \in [Namespaces -> Seq(Configmap)] /\ \A n \in Namespaces : CmapStep(n)

LEMMA QuietObjects ==
  ASSUME TypeInv, UNCHANGED <<config, cmap>>
  PROVE  ObjectSteps
BY DEF ObjectSteps, ConfigStep, CmapStep, TypeInv, ObjectsType

(* One SidecarConfig is updated.                                           *)
LEMMA ConfigUpdate ==
  ASSUME TypeInv, NEW c \in Configs, NEW x \in Object, UNCHANGED cmap,
         config' = [config EXCEPT ![c] = Updated(config[c], x)],
         CountedState(c, x) \/ CollectedState(c, x) \/ EditedState(c, x)
  PROVE  ObjectSteps
<1>1. config[c] \in Seq(Object) /\ Len(config[c]) >= 1
  BY Histories
<1>2. Updated(config[c], x) \in Seq(Object) /\ Grows(config[c], Updated(config[c], x), x)
  BY <1>1, UpdatedGrows
<1>3. config \in [Configs -> Seq(Object)] /\ cmap \in [Namespaces -> Seq(Configmap)]
  BY DEF TypeInv, ObjectsType
<1>4. /\ config' \in [Configs -> Seq(Object)]
      /\ config'[c] = Updated(config[c], x)
      /\ \A d \in Configs : d # c => config'[d] = config[d]
  BY <1>2, <1>3
<1>5. ConfigStep(c)
  BY <1>2, <1>4 DEF ConfigStep
<1>6. \A d \in Configs : ConfigStep(d)
  BY <1>4, <1>5 DEF ConfigStep
<1> QED BY <1>3, <1>4, <1>6 DEF ObjectSteps, CmapStep

(* One kidecar-config is written.                                          *)
LEMMA CmapWrite ==
  ASSUME TypeInv, NEW n \in Namespaces, NEW x \in Configmap, UNCHANGED config,
         \/ cmap' = [cmap EXCEPT ![n] = Updated(cmap[n], x)]
         \/ cmap' = [cmap EXCEPT ![n] = Append(cmap[n], x)],
         x.hash = None \/ \E k \in Calls : pc[k] \in Busy /\ Ns(k) = n /\ x = Wanted(k)
  PROVE  /\ ObjectSteps /\ Latest(cmap'[n]) = x /\ Latest(cmap'[n]) \in Configmap
         /\ DOMAIN cmap'[n] = 1..Len(cmap'[n]) /\ Len(cmap'[n]) \in DOMAIN cmap'[n]
<1>1. cmap[n] \in Seq(Configmap) /\ Len(cmap[n]) \in Nat /\ Len(cmap[n]) >= 1
  BY Histories
<1>2. /\ Updated(cmap[n], x) \in Seq(Configmap) /\ Grows(cmap[n], Updated(cmap[n], x), x)
      /\ Append(cmap[n], x) \in Seq(Configmap) /\ Grows(cmap[n], Append(cmap[n], x), x)
  BY <1>1, UpdatedGrows, AppendGrows
<1>3. config \in [Configs -> Seq(Object)] /\ cmap \in [Namespaces -> Seq(Configmap)]
  BY DEF TypeInv, ObjectsType
<1>4. /\ cmap' \in [Namespaces -> Seq(Configmap)]
      /\ cmap'[n] \in Seq(Configmap) /\ Grows(cmap[n], cmap'[n], x)
      /\ \A m \in Namespaces : m # n => cmap'[m] = cmap[m]
  BY <1>2, <1>3
<1>5. CmapStep(n)
  BY <1>4 DEF CmapStep
<1>6. \A m \in Namespaces : CmapStep(m)
  BY <1>4, <1>5 DEF CmapStep
<1>7. Latest(cmap'[n]) = x /\ Len(cmap'[n]) >= 1
  BY <1>1, <1>4 DEF Grows
<1>8. DOMAIN cmap'[n] = 1..Len(cmap'[n]) /\ Len(cmap'[n]) \in Nat
  BY <1>4, LenProperties
<1>9. Len(cmap'[n]) \in DOMAIN cmap'[n]
  BY <1>7, <1>8
<1>10. ObjectSteps
  BY <1>3, <1>4, <1>6 DEF ObjectSteps, ConfigStep
<1> QED BY <1>7, <1>8, <1>9, <1>10

(* The three writers of a SidecarConfig.                                   *)
LEMMA UpdateStatusObjects ==
  ASSUME TypeInv, NEW k \in Calls, UpdateStatus(k)
  PROVE  ObjectSteps
<1> DEFINE c == call[k].config
           n == call[k].listed.status.matched + 1
           x == [Latest(config[c]) EXCEPT !.status.matched = n]
<1>1. pc[k] \in Busy /\ pc[k] = "putst" /\ pc'[k] = "answer"
  BY DEF UpdateStatus, Goto, Busy, PCs, TypeInv, CallsType
<1>2. c \in Configs /\ call[k].listed \in Object
  BY <1>1, BusyCall
<1>3. n \in Nat
  BY <1>2 DEF Object, Status
<1>4. Latest(config[c]) \in Object
  BY <1>2, Histories
<1> HIDE DEF n
<1>5. /\ x \in Object /\ x.spec = Latest(config[c]).spec /\ x.status.matched = n
      /\ x.status.updated = Latest(config[c]).status.updated
      /\ x.status.ready = Latest(config[c]).status.ready
  BY <1>3, <1>4 DEF Object, Status
<1>6. config' = [config EXCEPT ![c] = Updated(config[c], x)] /\ cmap' = cmap
  BY DEF UpdateStatus, Counted, Latest, n
<1> HIDE DEF x
<1>7. CountedState(c, x)
  BY <1>1, <1>5 DEF CountedState, n
<1> QED BY <1>2, <1>5, <1>6, <1>7, ConfigUpdate

LEMMA UpdateCollectedObjects ==
  ASSUME TypeInv, UpdateCollected
  PROVE  ObjectSteps
<1> DEFINE c == collector.config
           x == [Latest(config[c]) EXCEPT !.status.updated = collector.updated,
                                          !.status.ready = collector.ready]
<1>1. c \in Configs /\ collector.updated \in Nat /\ collector.ready \in Nat
  BY DEF UpdateCollected, TypeInv, CollectorTyped, CollectorType
<1>2. Latest(config[c]) \in Object
  BY <1>1, Histories
<1>3. /\ x \in Object /\ x.spec = Latest(config[c]).spec
      /\ x.status.matched = Latest(config[c]).status.matched
  BY <1>1, <1>2 DEF Object, Status
<1>4. config' = [config EXCEPT ![c] = Updated(config[c], x)] /\ cmap' = cmap
  BY DEF UpdateCollected
<1> HIDE DEF x
<1>5. CollectedState(c, x)
  BY <1>3 DEF CollectedState
<1> QED BY <1>1, <1>3, <1>4, <1>5, ConfigUpdate

LEMMA EditConfigObjects ==
  ASSUME TypeInv, NEW c \in Configs, NEW spec \in Specs, EditConfig(c, spec)
  PROVE  ObjectSteps
<1> DEFINE x == [Latest(config[c]) EXCEPT !.spec = spec]
<1>1. Latest(config[c]) \in Object
  BY Histories
<1>2. x \in Object /\ x.status = Latest(config[c]).status
  BY <1>1 DEF Object
<1>3. config' = [config EXCEPT ![c] = Updated(config[c], x)] /\ cmap' = cmap
  BY DEF EditConfig
<1> HIDE DEF x
<1> QED BY <1>2, <1>3, ConfigUpdate DEF EditedState

(* The writers of kidecar-config.                                          *)
LEMMA CreateConfigmapObjects ==
  ASSUME TypeInv, NEW k \in Calls, CreateConfigmap(k)
  PROVE  ObjectSteps /\ \E i \in DOMAIN cmap'[Ns(k)] : cmap'[Ns(k)][i].exists
<1>1. pc[k] \in Busy
  BY DEF CreateConfigmap, Busy, PCs
<1>2. Ns(k) \in Namespaces /\ Wanted(k) \in Configmap /\ Wanted(k).exists
  BY <1>1, BusyCall
<1>3. CASE Latest(cmap[Ns(k)]).exists
  <2>1. cmap' = cmap /\ config' = config
    BY <1>3 DEF CreateConfigmap
  <2>2. Len(cmap[Ns(k)]) \in DOMAIN cmap[Ns(k)]
    BY <1>2, Histories
  <2> QED BY <1>3, <2>1, <2>2, QuietObjects DEF Latest
<1>4. CASE ~Latest(cmap[Ns(k)]).exists
  <2>1. cmap' = [cmap EXCEPT ![Ns(k)] = Append(cmap[Ns(k)], Wanted(k))] /\ config' = config
    BY <1>4 DEF CreateConfigmap
  <2>2. /\ ObjectSteps /\ Latest(cmap'[Ns(k)]) = Wanted(k)
        /\ Len(cmap'[Ns(k)]) \in DOMAIN cmap'[Ns(k)]
    BY <1>1, <1>2, <2>1, CmapWrite
  <2> QED BY <1>2, <2>2 DEF Latest
<1> QED BY <1>3, <1>4

LEMMA UpdateConfigmapObjects ==
  ASSUME TypeInv, NEW k \in Calls, UpdateConfigmap(k)
  PROVE  ObjectSteps /\ \E i \in DOMAIN cmap'[Ns(k)] : cmap'[Ns(k)][i].exists
<1>1. pc[k] \in Busy
  BY DEF UpdateConfigmap, Busy, PCs
<1>2. Ns(k) \in Namespaces /\ Wanted(k) \in Configmap /\ Wanted(k).exists
  BY <1>1, BusyCall
<1>3. cmap' = [cmap EXCEPT ![Ns(k)] = Updated(cmap[Ns(k)], Wanted(k))] /\ config' = config
  BY DEF UpdateConfigmap
<1>4. /\ ObjectSteps /\ Latest(cmap'[Ns(k)]) = Wanted(k)
      /\ Len(cmap'[Ns(k)]) \in DOMAIN cmap'[Ns(k)]
  BY <1>1, <1>2, <1>3, CmapWrite
<1> QED BY <1>2, <1>4 DEF Latest

LEMMA ChangeConfigmapObjects ==
  ASSUME TypeInv, NEW n \in Namespaces, ChangeConfigmap(n)
  PROVE  ObjectSteps
<1> DEFINE x == IF Latest(cmap[n]).exists THEN Absent
                ELSE [exists |-> TRUE, yaml |-> None, hash |-> None]
<1>1. x \in Configmap /\ x.hash = None
  BY DEF Configmap, Absent
<1>2. cmap' = [cmap EXCEPT ![n] = Append(cmap[n], x)] /\ config' = config
  BY DEF ChangeConfigmap
<1> HIDE DEF x
<1> QED BY <1>1, <1>2, CmapWrite

(* Every step.                                                             *)
LEMMA NextObjects ==
  ASSUME TypeInv, [Next]_vars
  PROVE  ObjectSteps
<1>1. CASE UNCHANGED vars
  BY <1>1, QuietObjects DEF vars
<1>2. ASSUME NEW k \in Calls, NEW pod \in Submitted, NEW dryRun \in CanDryRun,
             Default(k, pod, dryRun)
      PROVE  ObjectSteps
  BY <1>2, QuietObjects
     DEF Default, SkipPod, RejectPod, MissWebhook, InjectPod, Unchanged, objects
<1>3. ASSUME NEW k \in Calls, Step(k) \/ Failure(k) \/ RunPod(k)
      PROVE  ObjectSteps
  <2>1. CASE CreateConfigmap(k) \/ UpdateConfigmap(k) \/ UpdateStatus(k)
    BY <2>1, CreateConfigmapObjects, UpdateConfigmapObjects, UpdateStatusObjects
  <2>2. CASE \/ EnsureConfigmap(k) \/ GetConfigmap(k) \/ UpdateConfigmapFails(k)
             \/ GetStatus(k) \/ UpdateStatusConflict(k) \/ Answer(k)
    BY <2>2, QuietObjects
       DEF EnsureConfigmap, GetConfigmap, UpdateConfigmapFails, GetStatus,
           UpdateStatusConflict, Answer, objects
  <2>3. CASE Failure(k) \/ RunPod(k)
    BY <2>3, QuietObjects
       DEF Failure, CallFails, WebhookTimesOut, StatusFails, RunPod, objects
  <2> QED BY <1>3, <2>1, <2>2, <2>3 DEF Step
<1>4. CASE CollectorStep \/ CollectorFails
  BY <1>4, QuietObjects, UpdateCollectedObjects
     DEF CollectorStep, CollectorFails, Tick, CollectPods, GetCollected,
         UpdateCollectedConflict, objects
<1>5. CASE Sync \/ Restart
  BY <1>5, QuietObjects DEF Sync, SyncConfig, SyncConfigmap, SyncPods, Restart, objects
<1>6. ASSUME NEW c \in Configs, NEW spec \in Specs, EditConfig(c, spec)
      PROVE  ObjectSteps
  BY <1>6, EditConfigObjects
<1>7. ASSUME NEW n \in Namespaces, ChangeConfigmap(n)
      PROVE  ObjectSteps
  BY <1>7, ChangeConfigmapObjects
<1> QED BY <1>1, <1>2, <1>3, <1>4, <1>5, <1>6, <1>7 DEF Next

-----------------------------------------------------------------------------
(* The type invariant is inductive.                                        *)

(* The coming of a request: it is done at once, or is injected.            *)
LEMMA DefaultStep ==
  ASSUME TypeInv, NEW k \in Calls, NEW pod \in Submitted, NEW dryRun \in CanDryRun,
         Default(k, pod, dryRun)
  PROVE  /\ pc[k] = "new" /\ pod \in Pod /\ dryRun \in BOOLEAN
         /\ UNCHANGED <<config, cmap, caches, collector>>
         /\ pc' \in [Calls -> PCs] /\ call' \in [Calls -> CallType]
         /\ \A j \in Calls : j # k => pc'[j] = pc[j] /\ call'[j] = call[j]
         /\ phases' = phases \/ Create(k, dryRun)
         /\ call'[k].request = pod
         /\ \/ /\ Unchanged(k, pod, dryRun)
               /\ call'[k].pod = pod /\ call'[k].config = NoConfig /\ pc'[k] = "done"
            \/ \E c \in Configs :
                 /\ InjectPod(k, pod, dryRun, c) /\ ~AlreadyInjected(pod)
                 /\ call'[k].pod = Injected(pod, Cached(c).spec)
                 /\ call'[k].config = c /\ call'[k].listed = Cached(c)
                 /\ pc'[k] = IF Cached(c).spec.injectKidecar THEN "ensure" ELSE "getst"
                 /\ phases' = phases
<1>1. pc[k] = "new" /\ UNCHANGED <<config, cmap, caches, collector>>
  BY DEF Default, SkipPod, RejectPod, MissWebhook, InjectPod, Unchanged, objects
<1>2. pod \in Pod /\ dryRun \in BOOLEAN
  BY SubmittedPods, FlagsAssumption
<1>3. NewCall \in CallType /\ call \in [Calls -> CallType] /\ pc \in [Calls -> PCs]
  BY ZeroType DEF TypeInv, CallsType
<1>4. phases' = phases \/ Create(k, dryRun)
  BY DEF Default, SkipPod, RejectPod, MissWebhook, InjectPod, objects
<1>5. CASE Unchanged(k, pod, dryRun)
  <2> DEFINE x == [NewCall EXCEPT !.request = pod, !.pod = pod, !.dryRun = dryRun]
  <2>1. x \in CallType /\ x.request = pod /\ x.pod = pod /\ x.config = NoConfig
    BY <1>2, <1>3 DEF CallType, NewCall
  <2>2. call' = [call EXCEPT ![k] = x] /\ pc' = [pc EXCEPT ![k] = "done"]
    BY <1>5 DEF Unchanged, Goto
  <2> HIDE DEF x
  <2>3. "done" \in PCs
    BY DEF PCs
  <2> QED BY <1>1, <1>2, <1>3, <1>4, <1>5, <2>1, <2>2, <2>3
<1>6. ASSUME NEW c \in Configs, InjectPod(k, pod, dryRun, c)
      PROVE  /\ pc' \in [Calls -> PCs] /\ call' \in [Calls -> CallType]
             /\ \A j \in Calls : j # k => pc'[j] = pc[j] /\ call'[j] = call[j]
             /\ call'[k].request = pod
             /\ ~AlreadyInjected(pod)
             /\ call'[k].pod = Injected(pod, Cached(c).spec)
             /\ call'[k].config = c /\ call'[k].listed = Cached(c)
             /\ pc'[k] = IF Cached(c).spec.injectKidecar THEN "ensure" ELSE "getst"
             /\ phases' = phases
  <2> DEFINE x == [NewCall EXCEPT !.request = pod, !.pod = Injected(pod, Cached(c).spec),
                     !.dryRun = dryRun, !.config = c, !.listed = Cached(c)]
             l == IF Cached(c).spec.injectKidecar THEN "ensure" ELSE "getst"
  <2>1. Cached(c) \in Object /\ Cached(c).spec \in SidecarConfig
    BY Histories, SpecsAssumption DEF Object
  <2>2. Injected(pod, Cached(c).spec) \in Pod
    BY <1>2, <2>1, InjectedFields
  <2>3. /\ x \in CallType /\ x.request = pod /\ x.pod = Injected(pod, Cached(c).spec)
        /\ x.config = c /\ x.listed = Cached(c)
    BY <1>2, <1>3, <2>1, <2>2 DEF CallType, NewCall
  <2>4. call' = [call EXCEPT ![k] = x] /\ pc' = [pc EXCEPT ![k] = l]
    BY <1>6 DEF InjectPod, Goto
  <2>5. l \in PCs
    BY DEF PCs
  <2> HIDE DEF x, l
  <2>6. /\ pc' \in [Calls -> PCs] /\ call' \in [Calls -> CallType]
        /\ \A j \in Calls : j # k => pc'[j] = pc[j] /\ call'[j] = call[j]
        /\ call'[k] = x /\ pc'[k] = l
    BY <1>3, <2>3, <2>4, <2>5
  <2>7. ~AlreadyInjected(pod) /\ phases' = phases
    BY <1>6 DEF InjectPod, objects
  <2> QED BY <2>3, <2>6, <2>7 DEF l
<1>7. Unchanged(k, pod, dryRun) \/ \E c \in Configs : InjectPod(k, pod, dryRun, c)
  BY DEF Default, SkipPod, RejectPod, MissWebhook
<1> QED BY <1>1, <1>2, <1>4, <1>5, <1>6, <1>7

(* The requests, and the pods they have created.                           *)
LEMMA DefaultCalls ==
  ASSUME TypeInv, NEW k \in Calls, NEW pod \in Submitted, NEW dryRun \in CanDryRun,
         Default(k, pod, dryRun)
  PROVE  /\ CallsType' /\ CreatedDone'
         /\ phases' \in Seq([Calls -> Phase]) /\ Len(phases') >= Len(phases)
         /\ \A j \in Calls : j # k => (Created(j)' => Created(j))
<1>1. /\ pc[k] = "new" /\ pod \in Pod
      /\ pc' \in [Calls -> PCs] /\ call' \in [Calls -> CallType]
      /\ \A j \in Calls : j # k => pc'[j] = pc[j] /\ call'[j] = call[j]
      /\ call'[k].request = pod
  BY DefaultStep
<1>2. \/ /\ Unchanged(k, pod, dryRun)
         /\ call'[k].pod = pod /\ call'[k].config = NoConfig /\ pc'[k] = "done"
      \/ \E c \in Configs :
           /\ call'[k].pod = Injected(pod, Cached(c).spec)
           /\ call'[k].config = c /\ call'[k].listed = Cached(c)
           /\ pc'[k] \in {"ensure", "getst"} /\ phases' = phases
  BY DefaultStep
<1>3. \A c \in Configs : /\ Cached(c) \in Object
                         /\ Injected(pod, Cached(c).spec) \in Pod
                         /\ Injected(pod, Cached(c).spec).namespace = pod.namespace
  BY <1>1, Histories, InjectedFields, SpecsAssumption DEF Object
<1>4. /\ call'[k].pod \in Pod /\ call'[k].pod.namespace = pod.namespace
      /\ pc'[k] # "new"
      /\ call'[k].config # NoConfig => call'[k].listed \in Object
      /\ pc'[k] # "done" => call'[k].config \in Configs
  BY <1>1, <1>2, <1>3
<1>5. CallsType'
  BY <1>1, <1>4 DEF CallsType, TypeInv, Busy
<1>6. CASE phases' = phases
  BY <1>1, <1>5, <1>6, Histories DEF TypeInv, ObjectsType, CreatedDone, Created, Latest
<1>7. CASE Create(k, dryRun) /\ pc'[k] = "done"
  <2>1. /\ phases' \in Seq([Calls -> Phase]) /\ Len(phases') >= Len(phases)
        /\ \A j \in Calls : Created(j)' => Created(j) \/ j = k
    BY <1>7, CreateGrows
  <2> QED BY <1>1, <1>5, <1>7, <2>1 DEF TypeInv, CreatedDone
<1>8. phases' = phases \/ Create(k, dryRun)
  BY DefaultStep
<1> QED BY <1>2, <1>6, <1>7, <1>8

LEMMA ContinuesCalls ==
  ASSUME TypeInv, Continues
  PROVE  /\ CallsType' /\ CreatedDone'
         /\ phases' \in Seq([Calls -> Phase]) /\ Len(phases') >= Len(phases)
<1>1. ASSUME NEW k \in Calls
      PROVE  /\ pc'[k] = "new" => call'[k].config = NoConfig
             /\ pc'[k] # "new" =>
                  /\ call'[k].request \in Pod /\ call'[k].pod \in Pod
                  /\ call'[k].pod.namespace = call'[k].request.namespace
                  /\ call'[k].config # NoConfig => call'[k].listed \in Object
             /\ pc'[k] \in Busy => call'[k].config \in Configs
  <2>1. pc'[k] \in Busy => pc[k] \in Busy
    BY DEF Continues, Busy, TypeInv, CallsType
  <2> QED BY <2>1 DEF Continues, SameFields, TypeInv, CallsType
<1>2. CallsType'
  BY <1>1 DEF Continues, CallsType
<1>3. CreatedDone'
  BY DEF Continues, TypeInv, CreatedDone
<1> QED BY <1>2, <1>3 DEF Continues

LEMMA NextCalls ==
  ASSUME TypeInv, [Next]_vars
  PROVE  /\ CallsType' /\ CreatedDone'
         /\ phases' \in Seq([Calls -> Phase]) /\ Len(phases') >= Len(phases)
BY NextContinues, DefaultCalls, ContinuesCalls

(* Histories do not get shorter.                                           *)
LEMMA NextLengths ==
  ASSUME TypeInv, [Next]_vars
  PROVE  /\ \A c \in Configs : Len(config'[c]) \in Nat /\ Len(config'[c]) >= Len(config[c])
         /\ \A n \in Namespaces : Len(cmap'[n]) \in Nat /\ Len(cmap'[n]) >= Len(cmap[n])
         /\ Len(phases') \in Nat
<1>1. ObjectSteps
  BY NextObjects
<1>2. /\ \A c \in Configs : Len(config[c]) \in Nat
      /\ \A n \in Namespaces : Len(cmap[n]) \in Nat
  BY Histories
<1>3. /\ \A c \in Configs : Len(config'[c]) \in {Len(config[c]), Len(config[c]) + 1}
      /\ \A n \in Namespaces : Len(cmap'[n]) \in {Len(cmap[n]), Len(cmap[n]) + 1}
  BY <1>1 DEF ObjectSteps, ConfigStep, CmapStep, Grows
<1>4. Len(phases') \in Nat
  BY NextCalls, LenProperties
<1> QED BY <1>2, <1>3, <1>4

(* The cache is left alone, is sent one more state, or is filled afresh.   *)
LEMMA NextCaches ==
  ASSUME TypeInv, [Next]_vars
  PROVE  CachesType'
<1>1. /\ \A c \in Configs : /\ Len(config'[c]) \in Nat /\ Len(config[c]) \in Nat
                            /\ Len(config'[c]) >= Len(config[c])
      /\ \A n \in Namespaces : /\ Len(cmap'[n]) \in Nat /\ Len(cmap[n]) \in Nat
                               /\ Len(cmap'[n]) >= Len(cmap[n])
      /\ Len(phases') \in Nat /\ Len(phases) \in Nat /\ Len(phases') >= Len(phases)
  BY NextLengths, NextCalls, Histories
<1>2. /\ seenConfig \in [Configs -> Nat] /\ seenCmap \in [Namespaces -> Nat]
      /\ \A c \in Configs : seenConfig[c] \in 1..Len(config[c])
      /\ \A n \in Namespaces : seenCmap[n] \in 1..Len(cmap[n])
      /\ seenPods \in 1..Len(phases)
  BY DEF TypeInv, CachesType
<1>3. CASE UNCHANGED caches
  <2>1. seenConfig' = seenConfig /\ seenCmap' = seenCmap /\ seenPods' = seenPods
    BY <1>3 DEF caches
  <2>2. /\ \A c \in Configs : seenConfig[c] \in 1..Len(config'[c])
        /\ \A n \in Namespaces : seenCmap[n] \in 1..Len(cmap'[n])
        /\ seenPods \in 1..Len(phases')
    BY <1>1, <1>2
  <2> QED BY <1>2, <2>1, <2>2 DEF CachesType
<1>4. ASSUME NEW c \in Configs, SyncConfig(c)
      PROVE  CachesType'
  BY <1>1, <1>2, <1>4 DEF SyncConfig, Cache, CachesType, objects
<1>5. ASSUME NEW n \in Namespaces, SyncConfigmap(n)
      PROVE  CachesType'
  BY <1>1, <1>2, <1>5 DEF SyncConfigmap, Cache, CachesType, objects
<1>6. CASE SyncPods
  BY <1>1, <1>2, <1>6 DEF SyncPods, Cache, CachesType, objects
<1>7. CASE Restart
  <2>1. /\ seenConfig' = [c \in Configs |-> Len(config[c])] /\ config' = config
        /\ seenCmap' = [n \in Namespaces |-> Len(cmap[n])] /\ cmap' = cmap
        /\ seenPods' = Len(phases')
    BY <1>7 DEF Restart, Cache
  <2>2. /\ \A c \in Configs : Len(config[c]) >= 1
        /\ \A n \in Namespaces : Len(cmap[n]) >= 1
        /\ Len(phases) >= 1
    BY Histories
  <2>3. /\ \A c \in Configs : Len(config[c]) \in 1..Len(config[c])
        /\ \A n \in Namespaces : Len(cmap[n]) \in 1..Len(cmap[n])
        /\ Len(phases') \in 1..Len(phases')
    BY <1>1, <2>2
  <2> QED BY <1>1, <2>1, <2>3 DEF CachesType
<1>8. CASE UNCHANGED vars
  BY <1>3, <1>8 DEF vars, caches
<1>9. ASSUME NEW k \in Calls, NEW pod \in Submitted, NEW dryRun \in CanDryRun,
             Default(k, pod, dryRun)
      PROVE  CachesType'
  BY <1>3, <1>9, DefaultStep
<1>10. ASSUME NEW k \in Calls, Step(k) \/ Failure(k) \/ RunPod(k)
       PROVE  CachesType'
  BY <1>3, <1>10
     DEF Step, EnsureConfigmap, CreateConfigmap, GetConfigmap, UpdateConfigmap,
         UpdateConfigmapFails, GetStatus, UpdateStatus, UpdateStatusConflict, Answer,
         Failure, CallFails, WebhookTimesOut, StatusFails, RunPod
<1>11. CASE CollectorStep \/ CollectorFails
  BY <1>3, <1>11 DEF CollectorStep, CollectorFails, Tick, CollectPods, GetCollected,
                     UpdateCollected, UpdateCollectedConflict
<1>12. ASSUME NEW c \in Configs, NEW spec \in Specs, EditConfig(c, spec)
       PROVE  CachesType'
  BY <1>3, <1>12 DEF EditConfig
<1>13. ASSUME NEW n \in Namespaces, ChangeConfigmap(n)
       PROVE  CachesType'
  BY <1>3, <1>13 DEF ChangeConfigmap
<1> QED BY <1>4, <1>5, <1>6, <1>7, <1>8, <1>9, <1>10, <1>11, <1>12, <1>13 DEF Next, Sync

(* The collector goes on to the next SidecarConfig.                        *)
LEMMA NextConfigType ==
  ASSUME CollectorTyped, NextConfig, collector.pc # "idle"
  PROVE  CollectorTyped'
<1>1. IdleCollector \in CollectorType /\ IdleCollector.pc = "idle"
  BY ZeroType
<1>2. CASE collector.todo = {}
  BY <1>1, <1>2 DEF NextConfig, CollectorTyped
<1>3. CASE collector.todo # {}
  <2> DEFINE x == [IdleCollector EXCEPT !.pc = "list", !.todo = collector.todo,
                                        !.listed = collector.listed]
  <2>1. x \in CollectorType /\ x.pc = "list" /\ x.listed = collector.listed
    BY <1>1 DEF CollectorTyped, CollectorType
  <2>2. collector' = x
    BY <1>3 DEF NextConfig
  <2> HIDE DEF x
  <2> QED BY <2>1, <2>2 DEF CollectorTyped
<1> QED BY <1>2, <1>3

(* It counts pods of requests, which are finitely many.                    *)
LEMMA CollectPodsType ==
  ASSUME TypeInv, NEW c \in Configs, CollectPods(c)
  PROVE  CollectorTyped'
<1> DEFINE spec == collector.listed[c].spec
           pods == Selected(spec, phases[seenPods])
           run  == {k \in pods : phases[seenPods][k] = "Running"}
           u    == Cardinality(pods)
           r    == Cardinality(run)
           rest == [collector EXCEPT !.config = c, !.todo = @ \ {c}, !.pc = "get",
                                     !.updated = u, !.ready = r]
           skip == [collector EXCEPT !.todo = rest.todo]
<1>1. /\ collector \in CollectorType /\ collector.pc = "list"
      /\ collector.listed \in [Configs -> Object]
  BY DEF TypeInv, CollectorTyped, CollectPods
<1>2. u \in Nat /\ r \in Nat
  <2>1. pods \in SUBSET Calls /\ run \in SUBSET Calls
    BY DEF Selected
  <2> HIDE DEF pods, run
  <2>2. IsFiniteSet(pods) /\ IsFiniteSet(run)
    BY <2>1, CallsAssumption, FS_Subset
  <2> QED BY <2>2, FS_CardinalityType
<1>3. collector' \in {rest, IdleCollector, skip}
  BY DEF CollectPods
<1> HIDE DEF u, r
<1>4. /\ rest \in CollectorType /\ rest.config = c /\ rest.listed = collector.listed
      /\ rest.todo \subseteq Configs
  BY <1>1, <1>2 DEF CollectorType
<1> HIDE DEF rest
<1>5. skip \in CollectorType /\ skip.pc = "list" /\ skip.listed = collector.listed
  BY <1>1, <1>4 DEF CollectorType
<1>6. IdleCollector \in CollectorType /\ IdleCollector.pc = "idle"
  BY ZeroType
<1> HIDE DEF skip
<1> QED BY <1>1, <1>3, <1>4, <1>5, <1>6 DEF CollectorTyped

(* Its other steps.                                                        *)
LEMMA CollectorSteps ==
  ASSUME TypeInv, CollectorStep \/ CollectorFails
  PROVE  CollectorTyped'
<1>1. /\ collector \in CollectorType
      /\ collector.pc \in {"get", "put"} => collector.config \in Configs
      /\ collector.pc # "idle" => collector.listed \in [Configs -> Object]
      /\ CollectorTyped
  BY DEF TypeInv, CollectorTyped
<1>2. CASE Tick
  <2> DEFINE l == [c \in Configs |-> Cached(c)]
             x == [IdleCollector EXCEPT !.pc = "list", !.todo = Configs, !.listed = l]
  <2>1. l \in [Configs -> Object]
    BY Histories
  <2>2. collector' = x
    BY <1>2 DEF Tick
  <2> HIDE DEF l
  <2>3. x \in CollectorType /\ x.pc = "list" /\ x.listed = l
    BY <2>1, ZeroType DEF CollectorType
  <2> HIDE DEF x
  <2> QED BY <2>1, <2>2, <2>3 DEF CollectorTyped
<1>3. ASSUME NEW c \in Configs, CollectPods(c)
      PROVE  CollectorTyped'
  BY <1>3, CollectPodsType
<1>4. CASE GetCollected
  <2> DEFINE r == seenConfig[collector.config]
             x == [collector EXCEPT !.read = r, !.pc = "put"]
  <2>1. collector' = x /\ collector.pc = "get"
    BY <1>4 DEF GetCollected
  <2>2. r \in Nat
    BY <1>1, <2>1 DEF TypeInv, CachesType
  <2> HIDE DEF r
  <2>3. x \in CollectorType /\ x.config = collector.config /\ x.listed = collector.listed
    BY <1>1, <2>2 DEF CollectorType
  <2> HIDE DEF x
  <2> QED BY <1>1, <2>1, <2>3 DEF CollectorTyped
<1>5. CASE UpdateCollected
  BY <1>1, <1>5, NextConfigType DEF UpdateCollected
<1>6. CASE UpdateCollectedConflict
  <2>1. CASE collector.tries + 1 < RetrySteps
    <3> DEFINE t == collector.tries + 1
               x == [collector EXCEPT !.tries = t, !.pc = "get"]
    <3>1. t \in 0..RetrySteps
      BY <1>1, <2>1, RetryAssumption DEF CollectorType
    <3>2. collector' = x /\ collector.pc = "put"
      BY <1>6, <2>1 DEF UpdateCollectedConflict
    <3> HIDE DEF t
    <3>3. x \in CollectorType /\ x.config = collector.config /\ x.listed = collector.listed
      BY <1>1, <3>1 DEF CollectorType
    <3> HIDE DEF x
    <3> QED BY <1>1, <3>2, <3>3 DEF CollectorTyped
  <2>2. CASE ~(collector.tries + 1 < RetrySteps)
    BY <1>1, <1>6, <2>2, NextConfigType DEF UpdateCollectedConflict
  <2> QED BY <2>1, <2>2
<1>7. CASE CollectorFails
  BY <1>1, <1>7, NextConfigType DEF CollectorFails
<1> QED BY <1>2, <1>3, <1>4, <1>5, <1>6, <1>7 DEF CollectorStep

LEMMA NextCollector ==
  ASSUME TypeInv, [Next]_vars
  PROVE  CollectorTyped'
<1>1. CASE UNCHANGED collector
  BY <1>1 DEF TypeInv, CollectorTyped
<1>2. CASE UNCHANGED vars
  BY <1>1, <1>2 DEF vars
<1>3. ASSUME NEW k \in Calls, NEW pod \in Submitted, NEW dryRun \in CanDryRun,
             Default(k, pod, dryRun)
      PROVE  CollectorTyped'
  BY <1>1, <1>3, DefaultStep
<1>4. ASSUME NEW k \in Calls, Step(k) \/ Failure(k) \/ RunPod(k)
      PROVE  CollectorTyped'
  BY <1>1, <1>4
     DEF Step, EnsureConfigmap, CreateConfigmap, GetConfigmap, UpdateConfigmap,
         UpdateConfigmapFails, GetStatus, UpdateStatus, UpdateStatusConflict, Answer,
         Failure, CallFails, WebhookTimesOut, StatusFails, RunPod
<1>5. CASE CollectorStep \/ CollectorFails
  BY <1>5, CollectorSteps
<1>6. CASE Sync
  BY <1>1, <1>6 DEF Sync, SyncConfig, SyncConfigmap, SyncPods
<1>7. CASE Restart
  BY <1>7, ZeroType DEF Restart, CollectorTyped
<1>8. ASSUME NEW c \in Configs, NEW spec \in Specs, EditConfig(c, spec)
      PROVE  CollectorTyped'
  BY <1>1, <1>8 DEF EditConfig
<1>9. ASSUME NEW n \in Namespaces, ChangeConfigmap(n)
      PROVE  CollectorTyped'
  BY <1>1, <1>9 DEF ChangeConfigmap
<1> QED BY <1>2, <1>3, <1>4, <1>5, <1>6, <1>7, <1>8, <1>9 DEF Next

(* The bound on events.                                                    *)
LEMMA NextEvents ==
  ASSUME TypeInv, [Next]_vars
  PROVE  events' \in 0..MaxEvents
<1>1. CASE UNCHANGED events
  BY <1>1 DEF TypeInv
<1>2. CASE Event
  BY <1>2, BoundsAssumption DEF TypeInv, Event
<1>3. CASE UNCHANGED vars
  BY <1>1, <1>3 DEF vars
<1>4. ASSUME NEW k \in Calls, NEW pod \in Submitted, NEW dryRun \in CanDryRun,
             Default(k, pod, dryRun)
      PROVE  UNCHANGED events \/ Event
  BY <1>4 DEF Default, SkipPod, RejectPod, MissWebhook, InjectPod
<1>5. ASSUME NEW k \in Calls, Step(k) \/ Failure(k) \/ RunPod(k)
      PROVE  UNCHANGED events \/ Event
  BY <1>5
     DEF Step, EnsureConfigmap, CreateConfigmap, GetConfigmap, UpdateConfigmap,
         UpdateConfigmapFails, GetStatus, UpdateStatus, UpdateStatusConflict, Answer,
         Failure, CallFails, WebhookTimesOut, StatusFails, RunPod
<1>6. ASSUME CollectorStep \/ CollectorFails
      PROVE  UNCHANGED events \/ Event
  BY <1>6 DEF CollectorStep, CollectorFails, Tick, CollectPods, GetCollected,
              UpdateCollected, UpdateCollectedConflict
<1>7. ASSUME Sync \/ Restart
      PROVE  UNCHANGED events \/ Event
  BY <1>7 DEF Sync, SyncConfig, SyncConfigmap, SyncPods, Restart
<1>8. ASSUME NEW c \in Configs, NEW spec \in Specs, EditConfig(c, spec)
      PROVE  Event
  BY <1>8 DEF EditConfig
<1>9. ASSUME NEW n \in Namespaces, ChangeConfigmap(n)
      PROVE  Event
  BY <1>9 DEF ChangeConfigmap
<1> QED BY <1>1, <1>2, <1>3, <1>4, <1>5, <1>6, <1>7, <1>8, <1>9 DEF Next

LEMMA TypeStep ==
  ASSUME TypeInv, [Next]_vars
  PROVE  TypeInv'
<1>1. ObjectsType'
  BY NextObjects, NextCalls DEF ObjectSteps, ObjectsType
<1> QED BY <1>1, NextCaches, NextCalls, NextCollector, NextEvents DEF TypeInv

(* The type invariant of the webhook and the collector.                    *)
THEOREM TypeKept == Spec => []TypeInv
<1>1. Init => TypeInv
  BY InitType
<1>2. TypeInv /\ [Next]_vars => TypeInv'
  BY TypeStep
<1> QED BY <1>1, <1>2, PTL DEF Spec

(* Objects, requests and the collector keep their types: histories are     *)
(* never empty, the cache never holds a state that was not written, and    *)
(* the attempts of a retry stay within its steps.                          *)
THEOREM TypeCorrect == Spec => []TypeOK
BY TypeKept, TypeInvType, PTL

-----------------------------------------------------------------------------
(* kidecar-config holds one configuration, and one that was wanted.        *)

(* A request that has listed a SidecarConfig keeps what it wants.          *)
LEMMA WantedKept ==
  ASSUME TypeInv, [Next]_vars, NEW k \in Calls, pc[k] # "new"
  PROVE  /\ call'[k].config = call[k].config
         /\ call'[k].request = call[k].request /\ call'[k].listed = call[k].listed
         /\ pc'[k] # "new"
<1>1. CASE Continues
  BY <1>1 DEF Continues, SameFields
<1>2. ASSUME NEW j \in Calls, NEW pod \in Submitted, NEW dryRun \in CanDryRun,
             Default(j, pod, dryRun)
      PROVE  pc'[k] = pc[k] /\ call'[k] = call[k]
  BY <1>2, DefaultStep
<1> QED BY <1>1, <1>2, NextContinues

LEMMA ConsistentStep ==
  ASSUME TypeInv, ConfigmapConsistent, [Next]_vars
  PROVE  ConfigmapConsistent'
<1> SUFFICES ASSUME NEW n \in Namespaces, Latest(cmap'[n]).hash # None
             PROVE  /\ Latest(cmap'[n]).yaml = Latest(cmap'[n]).hash
                    /\ \/ Latest(cmap'[n]) = cmap'[n][1]
                       \/ \E k \in Calls : /\ call'[k].config # NoConfig
                                           /\ Ns(k)' = n
                                           /\ Yaml(k)' = Latest(cmap'[n]).yaml
  BY DEF ConfigmapConsistent, Latest
<1>1. ASSUME NEW k \in Calls, call[k].config # NoConfig
      PROVE  call'[k].config # NoConfig /\ Ns(k)' = Ns(k) /\ Yaml(k)' = Yaml(k)
  <2>1. pc[k] # "new"
    BY <1>1 DEF TypeInv, CallsType
  <2> QED BY <1>1, <2>1, WantedKept DEF Ns, Yaml
<1>2. Len(cmap[n]) \in Nat /\ Len(cmap[n]) >= 1
  BY Histories
<1>3. CmapStep(n)
  BY NextObjects DEF ObjectSteps
<1>4. CASE cmap'[n] = cmap[n]
  BY <1>1, <1>4 DEF ConfigmapConsistent
<1>5. ASSUME NEW k \in Calls, pc[k] \in Busy, Ns(k) = n, Latest(cmap'[n]) = Wanted(k)
      PROVE  /\ Latest(cmap'[n]).yaml = Latest(cmap'[n]).hash
             /\ call'[k].config # NoConfig /\ Ns(k)' = n
             /\ Yaml(k)' = Latest(cmap'[n]).yaml
  <2>1. call[k].config # NoConfig /\ Wanted(k).yaml = Yaml(k) /\ Wanted(k).hash = Yaml(k)
    BY <1>5, BusyCall, NoConfigAssumption
  <2> QED BY <1>1, <1>5, <2>1
<1> QED BY <1>3, <1>4, <1>5 DEF CmapStep, Grows

(* The hash of kidecar-config is that of its data, and the data is what    *)
(* was there at first or what one SidecarConfig held when a request of the *)
(* namespace had listed it: concurrent creations, updates and retries      *)
(* never mix two configurations, or those of two namespaces.               *)
THEOREM ConfigmapNeverMixed == Spec => []ConfigmapConsistent
<1>1. Init => ConfigmapConsistent
  <2> SUFFICES ASSUME Init, NEW n \in Namespaces
               PROVE  LET cm == Latest(cmap[n]) IN
                      cm = cmap[n][1] /\ (cm.hash # None => cm.yaml = cm.hash)
    BY DEF ConfigmapConsistent
  <2>1. PICK yaml \in InitialYamls :
          cmap[n] = <<IF yaml = None THEN Absent ELSE Holding(yaml)>>
    BY DEF Init
  <2>2. Latest(cmap[n]) = cmap[n][1]
        /\ cmap[n][1] \in {Absent, Holding(yaml)}
    BY <2>1 DEF Latest
  <2> QED BY <2>2 DEF Absent, Holding
<1>2. TypeInv /\ ConfigmapConsistent /\ [Next]_vars => ConfigmapConsistent'
  BY ConsistentStep
<1> QED BY <1>1, <1>2, TypeKept, PTL DEF Spec

-----------------------------------------------------------------------------
(* The status: who writes which field, and how far matchedPods can get.    *)

(* A request and the collector each write the whole status, yet neither    *)
(* takes back a count of the other or an edit of the spec.                 *)
THEOREM FieldsKept == Spec => StatusFieldsKept
<1> DEFINE Kept ==
      \A c \in Configs :
        LET old == Latest(config[c])
            new == Latest(config'[c])
            counted == new.status.matched # old.status.matched
            collected == <<new.status.updated, new.status.ready>>
                           # <<old.status.updated, old.status.ready>>
        IN ~(counted /\ collected) /\ (counted \/ collected => new.spec = old.spec)
<1>1. ASSUME TypeInv, [Next]_vars
      PROVE  Kept
  <2> SUFFICES ASSUME NEW c \in Configs
               PROVE  LET old == Latest(config[c])
                          new == Latest(config'[c])
                          counted == new.status.matched # old.status.matched
                          collected == <<new.status.updated, new.status.ready>>
                                         # <<old.status.updated, old.status.ready>>
                      IN /\ ~(counted /\ collected)
                         /\ counted \/ collected => new.spec = old.spec
    OBVIOUS
  <2>1. ConfigStep(c)
    BY <1>1, NextObjects DEF ObjectSteps
  <2> QED BY <2>1 DEF ConfigStep, Grows, CountedState, CollectedState, EditedState
<1>2. TypeInv /\ [Next]_vars => [Kept]_vars
  BY <1>1
<1> QED BY <1>2, TypeKept, PTL DEF Spec, StatusFieldsKept

(* The requests that have counted themselves, or given up.                 *)
Past(c) == {k \in Calls : call[k].config = c /\ pc[k] \in {"answer", "done"}}

(* Neither a state of the SidecarConfig, however old, nor a copy that a    *)
(* request has listed counts more requests than have passed.               *)
CountsPast ==
  \A c \in Configs :
    /\ \A i \in 1..Len(config[c]) :
         config[c][i].status.matched <= Cardinality(Past(c))
    /\ \A k \in Calls :
         call[k].config = c => call[k].listed.status.matched <= Cardinality(Past(c))

(* No request is taken back.                                               *)
LEMMA PastGrows ==
  ASSUME TypeInv, [Next]_vars, NEW c \in Configs
  PROVE  /\ IsFiniteSet(Past(c)) /\ Cardinality(Past(c)) \in Nat
         /\ Cardinality(Past(c)') \in Nat /\ Cardinality(Past(c)) <= Cardinality(Past(c)')
         /\ \A k \in Calls :
              pc[k] = "putst" /\ call[k].config = c /\ pc'[k] = "answer"
              => Cardinality(Past(c)) + 1 <= Cardinality(Past(c)')
<1>1. Past(c) \in SUBSET Calls /\ Past(c)' \in SUBSET Calls
  BY DEF Past
<1>2. IsFiniteSet(Past(c)) /\ IsFiniteSet(Past(c)')
  BY <1>1, CallsAssumption, FS_Subset
<1>3. Cardinality(Past(c)) \in Nat /\ Cardinality(Past(c)') \in Nat
  BY <1>2, FS_CardinalityType
<1>4. \A k \in Past(c) : k \in Past(c)'
  <2> SUFFICES ASSUME NEW k \in Past(c) PROVE k \in Past(c)'
    OBVIOUS
  <2>1. k \in Calls /\ call[k].config = c /\ pc[k] \in {"answer", "done"}
    BY DEF Past
  <2>2. call'[k].config = c
    BY <2>1, WantedKept
  <2>3. pc'[k] \in {"answer", "done"}
    <3>1. CASE Continues
      BY <2>1, <3>1 DEF Continues
    <3>2. ASSUME NEW j \in Calls, NEW pod \in Submitted, NEW dryRun \in CanDryRun,
                 Default(j, pod, dryRun)
          PROVE  pc'[k] = pc[k]
      BY <2>1, <3>2, DefaultStep
    <3> QED BY <2>1, <3>1, <3>2, NextContinues
  <2> QED BY <2>1, <2>2, <2>3 DEF Past
<1>5. Cardinality(Past(c)) <= Cardinality(Past(c)')
  BY <1>2, <1>4, FS_Subset
<1>6. ASSUME NEW k \in Calls, pc[k] = "putst", call[k].config = c, pc'[k] = "answer"
      PROVE  Cardinality(Past(c)) + 1 <= Cardinality(Past(c)')
  <2>1. k \notin Past(c)
    BY <1>6 DEF Past
  <2>2. k \in Past(c)'
    <3>1. call'[k].config = c
      BY <1>6, WantedKept
    <3> QED BY <1>6, <3>1 DEF Past
  <2>3. Past(c) \cup {k} \in SUBSET Past(c)'
    BY <1>4, <2>2
  <2>4. Cardinality(Past(c) \cup {k}) = Cardinality(Past(c)) + 1
    BY <1>2, <2>1, FS_AddElement
  <2>5. Cardinality(Past(c) \cup {k}) <= Cardinality(Past(c)')
    BY <1>2, <2>3, FS_Subset
  <2> QED BY <2>4, <2>5
<1> QED BY <1>2, <1>3, <1>5, <1>6

LEMMA CountsStep ==
  ASSUME TypeInv, CountsPast, [Next]_vars
  PROVE  CountsPast'
<1> SUFFICES ASSUME NEW c \in Configs
             PROVE  /\ \A i \in 1..Len(config'[c]) :
                         config'[c][i].status.matched <= Cardinality(Past(c)')
                    /\ \A k \in Calls : call'[k].config = c =>
                         call'[k].listed.status.matched <= Cardinality(Past(c)')
  BY DEF CountsPast
<1> DEFINE n == Cardinality(Past(c))
           m == Cardinality(Past(c)')
<1>1. /\ n \in Nat /\ m \in Nat /\ n <= m
      /\ \A k \in Calls :
           pc[k] = "putst" /\ call[k].config = c /\ pc'[k] = "answer" => n + 1 <= m
  BY PastGrows
<1>2. /\ \A i \in 1..Len(config[c]) : config[c][i].status.matched <= n
      /\ \A k \in Calls : call[k].config = c => call[k].listed.status.matched <= n
  BY DEF CountsPast
<1> HIDE DEF n, m
<1>3. /\ Len(config[c]) \in Nat /\ Len(config[c]) >= 1
      /\ \A i \in 1..Len(config[c]) : config[c][i] \in Object
      /\ Cached(c) \in Object
  BY Histories
<1>4. \A x \in Object : x.status.matched \in Nat
  BY DEF Object, Status
<1>5. \A i \in 1..Len(config[c]) : config[c][i].status.matched <= m
  BY <1>1, <1>2, <1>3, <1>4
<1>6. \A i \in 1..Len(config'[c]) : config'[c][i].status.matched <= m
  <2>1. CASE config'[c] = config[c]
    BY <1>5, <2>1
  <2>2. ASSUME NEW x \in Object, Grows(config[c], config'[c], x),
               CountedState(c, x) \/ CollectedState(c, x) \/ EditedState(c, x)
        PROVE  x.status.matched <= m
    <3>1. Latest(config[c]).status.matched <= m
      BY <1>3, <1>5 DEF Latest
    <3>2. CASE CollectedState(c, x) \/ EditedState(c, x)
      BY <3>1, <3>2 DEF CollectedState, EditedState
    <3>3. CASE CountedState(c, x)
      <4>1. PICK k \in Calls : /\ pc[k] = "putst" /\ pc'[k] = "answer"
                               /\ call[k].config = c
                               /\ x.status.matched = call[k].listed.status.matched + 1
        BY <3>3 DEF CountedState
      <4>2. call[k].listed \in Object
        BY <4>1, BusyCall DEF Busy, PCs
      <4>3. call[k].listed.status.matched <= n /\ n + 1 <= m
        BY <1>1, <1>2, <4>1
      <4>4. call[k].listed.status.matched \in Nat
        BY <1>4, <4>2
      <4> QED BY <1>1, <4>1, <4>3, <4>4
    <3> QED BY <2>2, <3>2, <3>3
  <2>3. ConfigStep(c)
    BY NextObjects DEF ObjectSteps
  <2> QED BY <1>5, <2>1, <2>2, <2>3 DEF ConfigStep, Grows
<1>7. ASSUME NEW k \in Calls, call'[k].config = c
      PROVE  call'[k].listed.status.matched <= m
  <2>1. CASE pc[k] # "new"
    <3>1. call'[k].config = call[k].config /\ call'[k].listed = call[k].listed
      BY <2>1, WantedKept
    <3>2. call[k].listed \in Object
      BY <1>7, <2>1, <3>1, NoConfigAssumption DEF TypeInv, CallsType
    <3> QED BY <1>1, <1>2, <1>4, <1>7, <3>1, <3>2
  <2>2. CASE pc[k] = "new"
    <3>1. call[k].config = NoConfig
      BY <2>2 DEF TypeInv, CallsType
    <3>2. ~Continues
      BY <1>7, <3>1, NoConfigAssumption DEF Continues, SameFields
    <3>3. PICK j \in Calls, pod \in Submitted, dryRun \in CanDryRun : Default(j, pod, dryRun)
      BY <3>2, NextContinues
    <3>4. j = k
      BY <1>7, <3>1, <3>3, DefaultStep, NoConfigAssumption
    <3>5. call'[k].listed = Cached(c)
      BY <1>7, <3>3, <3>4, DefaultStep, NoConfigAssumption
    <3>6. seenConfig[c] \in 1..Len(config[c])
      BY DEF TypeInv, CachesType
    <3> QED BY <1>5, <3>5, <3>6 DEF Cached
  <2> QED BY <2>1, <2>2
<1> QED BY <1>6, <1>7 DEF m

(* matchedPods never exceeds the number of requests the SidecarConfig was  *)
(* chosen for: the count comes from a listed copy that may be old, so it   *)
(* must be shown that no copy counts a request that is still under way.    *)
THEOREM MatchedNeverTooHigh == Spec => []MatchedBounded
<1>1. Init => CountsPast
  <2> SUFFICES ASSUME Init, NEW c \in Configs
               PROVE  /\ \A i \in 1..Len(config[c]) :
                           config[c][i].status.matched <= Cardinality(Past(c))
                      /\ \A k \in Calls : call[k].config # c
    BY DEF CountsPast
  <2>1. Past(c) = {}
    BY DEF Init, Past
  <2>2. Cardinality(Past(c)) = 0
    BY <2>1, FS_EmptySet
  <2>3. Len(config[c]) = 1 /\ config[c][1].status.matched = 0
    BY DEF Init, NoStatus
  <2>4. \A k \in Calls : call[k].config # c
    BY NoConfigAssumption DEF Init, NewCall
  <2> QED BY <2>2, <2>3, <2>4
<1>2. TypeInv /\ CountsPast /\ [Next]_vars => CountsPast'
  BY CountsStep
<1>3. TypeInv /\ CountsPast => MatchedBounded
  <2> SUFFICES ASSUME TypeInv, CountsPast, NEW c \in Configs
               PROVE  Latest(config[c]).status.matched <= Cardinality(Requesting(c))
    BY DEF MatchedBounded
  <2>1. Past(c) \in SUBSET Requesting(c) /\ Requesting(c) \in SUBSET Calls
    BY DEF Past, Requesting
  <2>2. IsFiniteSet(Requesting(c)) /\ IsFiniteSet(Past(c))
    BY <2>1, CallsAssumption, FS_Subset
  <2>3. Cardinality(Past(c)) <= Cardinality(Requesting(c))
    BY <2>1, <2>2, FS_Subset
  <2>4. Cardinality(Past(c)) \in Nat /\ Cardinality(Requesting(c)) \in Nat
    BY <2>2, FS_CardinalityType
  <2>5. Len(config[c]) \in Nat /\ Len(config[c]) >= 1 /\ Latest(config[c]) \in Object
    BY Histories
  <2>6. Latest(config[c]).status.matched \in Nat
    BY <2>5 DEF Object, Status
  <2>7. Latest(config[c]).status.matched <= Cardinality(Past(c))
    BY <2>5 DEF CountsPast, Latest
  <2> QED BY <2>3, <2>4, <2>6, <2>7
<1> QED BY <1>1, <1>2, <1>3, TypeKept, PTL DEF Spec

-----------------------------------------------------------------------------
(* The pods: what every one of them keeps of its own containers.           *)

ContainersKept ==
  \A k \in Calls :
    pc[k] # "new" => Keeps(call[k].request.containers, call[k].pod.containers)

LEMMA KeptStep ==
  ASSUME TypeInv, ContainersKept, [Next]_vars
  PROVE  ContainersKept'
<1> SUFFICES ASSUME NEW k \in Calls, pc'[k] # "new"
             PROVE  Keeps(call'[k].request.containers, call'[k].pod.containers)
  BY DEF ContainersKept
<1>1. \A pod \in Pod : Keeps(pod.containers, pod.containers)
  BY KeepsItself DEF Pod
<1>2. CASE Continues
  <2>1. pc[k] # "new" /\ call'[k].request = call[k].request
    BY <1>2 DEF Continues, SameFields
  <2>2. call'[k].pod \in {call[k].pod, call[k].request}
    BY <1>2 DEF Continues
  <2>3. call[k].request \in Pod
    BY <2>1 DEF TypeInv, CallsType
  <2> QED BY <1>1, <2>1, <2>2, <2>3 DEF ContainersKept
<1>3. ASSUME NEW j \in Calls, NEW pod \in Submitted, NEW dryRun \in CanDryRun,
             Default(j, pod, dryRun)
      PROVE  Keeps(call'[k].request.containers, call'[k].pod.containers)
  <2>1. CASE j # k
    BY <1>3, <2>1, DefaultStep DEF ContainersKept
  <2>2. CASE j = k
    <3>1. /\ pod \in Pod /\ call'[k].request = pod
          /\ \/ call'[k].pod = pod
             \/ \E c \in Configs : call'[k].pod = Injected(pod, Cached(c).spec)
      BY <1>3, <2>2, DefaultStep
    <3>2. \A c \in Configs : Cached(c).spec \in SidecarConfig
      BY Histories, SpecsAssumption DEF Object
    <3> QED BY <1>1, <3>1, <3>2, InjectedKeeps
  <2> QED BY <2>1, <2>2
<1> QED BY <1>2, <1>3, NextContinues

(* The containers a user submits are in the created pod, together and in   *)
(* their order, and have lost no mount but that of the account's token.    *)
THEOREM AppsKept == Spec => []AppKept
<1>1. Init => ContainersKept
  BY DEF Init, ContainersKept
<1>2. TypeInv /\ ContainersKept /\ [Next]_vars => ContainersKept'
  BY KeptStep
<1>3. TypeInv /\ ContainersKept => AppKept
  <2> SUFFICES ASSUME TypeInv, ContainersKept, NEW k \in Calls, Created(k)
               PROVE  Keeps(call[k].request.containers, call[k].pod.containers)
    BY DEF AppKept
  <2>1. pc[k] = "done"
    BY DEF TypeInv, CreatedDone
  <2> QED BY <2>1 DEF ContainersKept
<1> QED BY <1>1, <1>2, <1>3, TypeKept, PTL DEF Spec

-----------------------------------------------------------------------------
(* The kidecar: its volume, and the ConfigMap of the volume.               *)

(* Where a request has made sure of the ConfigMap.                         *)
Ensured == {"getst", "putst", "answer"}

(* A pod with a kidecar has the volume.  If the kidecar is one that the    *)
(* request has added, the ConfigMap has come to exist before the request   *)
(* goes on to the status, and before its pod is created.                   *)
KidecarInv ==
  \A k \in Calls : pc[k] # "new" =>
    /\ HasKidecar(call[k].request) => HasVolume(call[k].request)
    /\ HasKidecar(call[k].pod) => HasVolume(call[k].pod)
    /\ /\ HasKidecar(call[k].pod) /\ ~HasKidecar(call[k].request)
       /\ pc[k] \in Ensured \/ Created(k)
       => HasExisted(cmap[call[k].request.namespace])

(* What has existed stays in the history.                                  *)
LEMMA ConfigmapStays ==
  ASSUME TypeInv, [Next]_vars, NEW n \in Namespaces, HasExisted(cmap[n])
  PROVE  HasExisted(cmap'[n])
<1>1. PICK i \in DOMAIN cmap[n] : cmap[n][i].exists
  BY DEF HasExisted
<1>2. DOMAIN cmap[n] = 1..Len(cmap[n]) /\ Len(cmap[n]) \in Nat
  BY Histories
<1>3. CmapStep(n) /\ cmap'[n] \in Seq(Configmap)
  BY NextObjects DEF ObjectSteps
<1>4. DOMAIN cmap'[n] = 1..Len(cmap'[n]) /\ Len(cmap'[n]) \in Nat
        /\ Len(cmap'[n]) >= Len(cmap[n])
  BY <1>3, NextLengths, LenProperties
<1>5. i \in DOMAIN cmap'[n] /\ cmap'[n][i] = cmap[n][i]
  <2>1. i \in DOMAIN cmap'[n]
    BY <1>2, <1>4
  <2>2. cmap'[n][i] = cmap[n][i]
    BY <1>2, <1>3 DEF CmapStep, Grows
  <2> QED BY <2>1, <2>2
<1> QED BY <1>1, <1>5 DEF HasExisted

(* A request goes on to the status when it has seen the ConfigMap, has     *)
(* created or written it, or has found that another one has.               *)
LEMMA ConfigmapEnsured ==
  ASSUME TypeInv, [Next]_vars, Continues,
         NEW k \in Calls, pc[k] \in Busy, pc'[k] \in Ensured, pc[k] \notin Ensured
  PROVE  HasExisted(cmap'[Ns(k)])
<1> DEFINE Written == \E i \in DOMAIN cmap'[Ns(k)] : cmap'[Ns(k)][i].exists
<1>1. Ns(k)' = Ns(k) /\ Ns(k) \in Namespaces
  BY BusyCall DEF Continues, SameFields, Ns
<1>2. CASE EnsureConfigmap(k)
  <2>1. CachedCm(Ns(k)).exists /\ cmap' = cmap
    BY <1>2 DEF EnsureConfigmap, Goto, Ensured, TypeInv, CallsType, objects
  <2>2. seenCmap[Ns(k)] \in DOMAIN cmap[Ns(k)]
    BY <1>1, Histories DEF TypeInv, CachesType
  <2> QED BY <1>1, <2>1, <2>2 DEF HasExisted, CachedCm
<1>3. CASE CreateConfigmap(k)
  <2>1. Written
    BY <1>3, CreateConfigmapObjects
  <2> QED BY <1>1, <2>1 DEF HasExisted
<1>4. CASE UpdateConfigmap(k)
  <2>1. Written
    BY <1>4, UpdateConfigmapObjects
  <2> QED BY <1>1, <2>1 DEF HasExisted
<1>5. ~(GetConfigmap(k) \/ UpdateConfigmapFails(k) \/ CallFails(k) \/ WebhookTimesOut(k))
  <2>1. ~Goto(k, "putcm") /\ ~Goto(k, "getcm") /\ ~Goto(k, "done")
    BY DEF Goto, Ensured, TypeInv, CallsType
  <2> QED BY <2>1
          DEF GetConfigmap, UpdateConfigmapFails, CallFails, WebhookTimesOut, Deny, Retry
<1>6. ~(GetStatus(k) \/ UpdateStatus(k) \/ UpdateStatusConflict(k) \/ Answer(k)
        \/ StatusFails(k))
  BY DEF GetStatus, UpdateStatus, UpdateStatusConflict, Answer, StatusFails, Ensured
<1>7. pc'[k] # pc[k]
  OBVIOUS
<1>8. ASSUME NEW j \in Calls, j # k, Step(j) \/ Failure(j)
      PROVE  FALSE
  BY <1>7, <1>8
     DEF Step, EnsureConfigmap, CreateConfigmap, GetConfigmap, UpdateConfigmap,
         UpdateConfigmapFails, GetStatus, UpdateStatus, UpdateStatusConflict, Answer,
         Failure, CallFails, WebhookTimesOut, StatusFails, Deny, Retry, Goto, TypeInv,
         CallsType
<1>9. ASSUME NEW j \in Calls, NEW pod \in Submitted, NEW dryRun \in CanDryRun,
             Default(j, pod, dryRun)
      PROVE  FALSE
  BY <1>7, <1>9, DefaultStep DEF Busy
<1>10. ~Restart
  BY DEF Restart, Busy, Ensured, TypeInv, CallsType
<1>11. /\ ~CollectorStep /\ ~CollectorFails /\ ~Sync /\ ~UNCHANGED vars
       /\ \A j \in Calls : ~RunPod(j)
       /\ \A c \in Configs, spec \in Specs : ~EditConfig(c, spec)
       /\ \A n \in Namespaces : ~ChangeConfigmap(n)
  BY <1>7 DEF CollectorStep, CollectorFails, Tick, CollectPods, GetCollected,
              UpdateCollected, UpdateCollectedConflict, Sync, SyncConfig, SyncConfigmap,
              SyncPods, RunPod, EditConfig, ChangeConfigmap, vars
<1> QED BY <1>2, <1>3, <1>4, <1>5, <1>6, <1>8, <1>9, <1>10, <1>11 DEF Next, Step, Failure

(* What a submitted pod brings along.                                      *)
LEMMA SubmittedKidecar ==
  ASSUME TypeInv, KidecarInv, KidecarIsOurs, NEW pod \in Submitted, HasKidecar(pod)
  PROVE  HasVolume(pod)
<1>1. pod \notin PodShapes
  BY DEF KidecarIsOurs, HasKidecar
<1>2. PICK j \in Calls, n \in Namespaces :
        pc[j] = "done" /\ call[j].pod \in Pod /\ pod = In(n, call[j].pod)
  BY <1>1, SubmittedPods
<1>3. HasKidecar(call[j].pod) /\ pod.volumes = (call[j].pod).volumes
  BY <1>2, InFields DEF HasKidecar
<1> QED BY <1>2, <1>3 DEF KidecarInv, HasVolume

(* The coming of a request with or without an injection.                   *)
LEMMA KidecarDefault ==
  ASSUME TypeInv, KidecarInv, KidecarIsOurs, NEW k \in Calls, NEW pod \in Submitted,
         NEW dryRun \in CanDryRun, Default(k, pod, dryRun)
  PROVE  /\ HasKidecar(call'[k].request) => HasVolume(call'[k].request)
         /\ HasKidecar(call'[k].pod) => HasVolume(call'[k].pod)
         /\ HasKidecar(call'[k].pod) => \/ HasKidecar(call'[k].request)
                                        \/ pc'[k] \notin Ensured /\ ~Created(k)'
<1>1. /\ pod \in Pod /\ call'[k].request = pod
      /\ \/ call'[k].pod = pod
         \/ \E c \in Configs :
              /\ call'[k].pod = Injected(pod, Cached(c).spec)
              /\ pc'[k] = IF Cached(c).spec.injectKidecar THEN "ensure" ELSE "getst"
  BY DefaultStep
<1>2. HasKidecar(pod) => HasVolume(pod)
  BY SubmittedKidecar
<1>3. CASE call'[k].pod = pod
  BY <1>1, <1>2, <1>3
<1>4. ASSUME NEW c \in Configs, call'[k].pod = Injected(pod, Cached(c).spec),
             pc'[k] = IF Cached(c).spec.injectKidecar THEN "ensure" ELSE "getst"
      PROVE  /\ HasKidecar(call'[k].pod) => HasVolume(call'[k].pod)
             /\ HasKidecar(call'[k].pod) => \/ HasKidecar(pod)
                                            \/ pc'[k] \notin Ensured /\ ~Created(k)'
  <2> DEFINE spec == Cached(c).spec
  <2>1. spec \in Specs /\ spec \in SidecarConfig
    BY Histories, SpecsAssumption DEF Object
  <2>2. Kidecar \notin Names(AllContainers(spec))
    BY <2>1 DEF KidecarIsOurs
  <2>3. /\ spec.injectKidecar => HasVolume(call'[k].pod)
        /\ Range(pod.volumes) \subseteq Range((call'[k].pod).volumes)
    BY <1>1, <1>4, <2>1, InjectedVolumes DEF HasVolume
  <2>4. Names(AllContainers(call'[k].pod)) = Names(AllContainers(pod)) \cup
          IF spec.injectKidecar THEN {Kidecar} ELSE Names(AllContainers(spec))
    BY <1>1, <1>4, <2>1, InjectedNames
  <2>5. CASE spec.injectKidecar
    <3>1. pc'[k] = "ensure"
      BY <1>4, <2>5
    <3>2. ~Created(k)'
      BY <3>1, DefaultCalls DEF CreatedDone
    <3> QED BY <2>3, <2>5, <3>1, <3>2 DEF Ensured
  <2>6. CASE ~spec.injectKidecar
    <3>1. HasKidecar(call'[k].pod) => HasKidecar(pod)
      BY <2>2, <2>4, <2>6 DEF HasKidecar
    <3> QED BY <1>2, <2>3, <3>1 DEF HasVolume
  <2> QED BY <2>5, <2>6
<1> QED BY <1>1, <1>2, <1>3, <1>4

LEMMA KidecarStep ==
  ASSUME TypeInv, KidecarInv, KidecarIsOurs, [Next]_vars
  PROVE  KidecarInv'
<1> SUFFICES ASSUME NEW k \in Calls, pc'[k] # "new"
             PROVE  /\ HasKidecar(call'[k].request) => HasVolume(call'[k].request)
                    /\ HasKidecar(call'[k].pod) => HasVolume(call'[k].pod)
                    /\ /\ HasKidecar(call'[k].pod) /\ ~HasKidecar(call'[k].request)
                       /\ pc'[k] \in Ensured \/ Created(k)'
                       => HasExisted(cmap'[call'[k].request.namespace])
  BY DEF KidecarInv, HasExisted
<1>1. \A n \in Namespaces : HasExisted(cmap[n]) => HasExisted(cmap'[n])
  BY ConfigmapStays
<1>2. CASE pc[k] # "new" /\ call'[k] = call[k] /\ pc'[k] = pc[k] /\ (Created(k)' => Created(k))
  BY <1>1, <1>2 DEF KidecarInv, TypeInv, CallsType, Pod
<1>3. CASE Continues
  <2>1. /\ pc[k] # "new" /\ call'[k].request = call[k].request
        /\ call[k].request.namespace \in Namespaces
    BY <1>3 DEF Continues, SameFields, TypeInv, CallsType, Pod
  <2>2. CASE call'[k].pod = call[k].request
    BY <2>1, <2>2 DEF KidecarInv
  <2>3. CASE call'[k].pod = call[k].pod /\ call[k].pod # call[k].request
    <3>1. CASE pc[k] \in Ensured \/ Created(k)
      BY <1>1, <2>1, <2>3, <3>1 DEF KidecarInv
    <3>2. CASE pc[k] \notin Ensured /\ pc'[k] \in Ensured
      <4>1. pc[k] # "done"
        BY <1>3, <3>2 DEF Continues, Ensured
      <4>2. pc[k] \in Busy
        BY <2>1, <4>1 DEF Busy, TypeInv, CallsType
      <4>3. HasExisted(cmap'[Ns(k)])
        BY <1>3, <3>2, <4>2, ConfigmapEnsured
      <4> QED BY <2>1, <2>3, <4>3 DEF KidecarInv, Ns
    <3>3. CASE ~Created(k) /\ Created(k)'
      <4>1. pc[k] \in Ensured
        BY <1>3, <2>3, <3>3 DEF Continues, Ensured
      <4> QED BY <3>1, <4>1
    <3>4. CASE pc'[k] \notin Ensured /\ ~Created(k)'
      BY <2>1, <2>3, <3>4 DEF KidecarInv
    <3> QED BY <3>1, <3>2, <3>3, <3>4
  <2> QED BY <1>3, <2>2, <2>3 DEF Continues
<1>4. ASSUME NEW pod \in Submitted, NEW dryRun \in CanDryRun, Default(k, pod, dryRun)
      PROVE  /\ HasKidecar(call'[k].request) => HasVolume(call'[k].request)
             /\ HasKidecar(call'[k].pod) => HasVolume(call'[k].pod)
             /\ HasKidecar(call'[k].pod) => \/ HasKidecar(call'[k].request)
                                            \/ pc'[k] \notin Ensured /\ ~Created(k)'
  BY <1>4, KidecarDefault
<1>5. ASSUME NEW j \in Calls, NEW pod \in Submitted, NEW dryRun \in CanDryRun,
             Default(j, pod, dryRun), j # k
      PROVE  /\ pc[k] # "new" /\ call'[k] = call[k] /\ pc'[k] = pc[k]
             /\ Created(k)' => Created(k)
  BY <1>5, DefaultStep, DefaultCalls
<1> QED BY <1>2, <1>3, <1>4, <1>5, NextContinues

(* A pod created with a kidecar has the volume that its container mounts.  *)
(* If its own request has brought the kidecar, the ConfigMap of the volume *)
(* has come to exist in its namespace: through failures, denials, timeouts *)
(* and conflicts of any number of requests, and through restarts.  All this *)
(* if only the manager's container is called kidecar.                      *)
THEOREM KidecarNeverAlone ==
  ASSUME KidecarIsOurs
  PROVE  Spec => []KidecarComplete
<1>1. Init => KidecarInv
  BY DEF Init, KidecarInv
<1>2. TypeInv /\ KidecarInv /\ [Next]_vars => KidecarInv'
  BY KidecarStep
<1>3. TypeInv /\ KidecarInv => KidecarComplete
  <2> SUFFICES ASSUME TypeInv, KidecarInv, NEW k \in Calls,
                      Created(k), HasKidecar(call[k].pod)
               PROVE  /\ HasVolume(call[k].pod)
                      /\ \/ HasKidecar(call[k].request)
                         \/ HasExisted(cmap[call[k].pod.namespace])
    BY DEF KidecarComplete
  <2>1. pc[k] = "done" /\ call[k].pod.namespace = call[k].request.namespace
    BY DEF TypeInv, CreatedDone, CallsType
  <2> QED BY <2>1 DEF KidecarInv
<1> QED BY <1>1, <1>2, <1>3, TypeKept, PTL DEF Spec

-----------------------------------------------------------------------------
(* No pod is injected twice.                                               *)

(* A pod is as a user submitted it, or such a pod injected once, copied to *)
(* any namespace before and after.                                         *)
Fresh == PodShapes \cup {In(n, pod) : n \in Namespaces, pod \in PodShapes}

Origin(p) ==
  \/ p \in Fresh
  \/ \E n \in Namespaces, pod \in Fresh, spec \in Specs :
       p \in {Injected(pod, spec), In(n, Injected(pod, spec))}

InjectedOnce ==
  \A k \in Calls : pc[k] # "new" => Origin(call[k].request) /\ Origin(call[k].pod)

(* A fresh pod has the containers of one that a user has submitted.        *)
LEMMA FreshPods ==
  ASSUME NEW p \in Fresh
  PROVE  /\ p \in Pod
         /\ \A n \in Namespaces : In(n, p) \in Fresh
         /\ \E pod \in PodShapes : AllContainers(p) = AllContainers(pod)
<1>1. CASE p \in PodShapes
  BY <1>1, ShapesAssumption DEF Fresh
<1>2. ASSUME NEW m \in Namespaces, NEW pod \in PodShapes, p = In(m, pod)
      PROVE  /\ p \in Pod
             /\ \A n \in Namespaces : In(n, p) \in Fresh
             /\ AllContainers(p) = AllContainers(pod)
  <2>1. pod \in Pod
    BY ShapesAssumption
  <2>2. \A n \in Namespaces : In(n, p) = In(n, pod)
    BY <1>2, <2>1 DEF In, Pod
  <2> QED BY <1>2, <2>1, <2>2, InFields DEF Fresh
<1> QED BY <1>1, <1>2 DEF Fresh

(* A copy has the origin of what it was made of.                           *)
LEMMA CopyOrigin ==
  ASSUME NEW p, Origin(p), NEW n \in Namespaces
  PROVE  Origin(In(n, p))
<1>1. CASE p \in Fresh
  BY <1>1, FreshPods DEF Origin
<1>2. ASSUME NEW m \in Namespaces, NEW pod \in Fresh, NEW spec \in Specs,
             p \in {Injected(pod, spec), In(m, Injected(pod, spec))}
      PROVE  Origin(In(n, p))
  <2>1. Injected(pod, spec) \in Pod
    BY FreshPods, SpecsAssumption, InjectedFields
  <2>2. In(n, In(m, Injected(pod, spec))) = In(n, Injected(pod, spec))
    BY <2>1 DEF In, Pod
  <2> QED BY <1>2, <2>2 DEF Origin
<1> QED BY <1>1, <1>2 DEF Origin

(* The mark is what tells them apart.                                      *)
LEMMA UnmarkedOrigin ==
  ASSUME NEW p, Origin(p), ~AlreadyInjected(p)
  PROVE  p \in Fresh
<1>1. ASSUME NEW n \in Namespaces, NEW pod \in Fresh, NEW spec \in Specs
      PROVE  /\ AlreadyInjected(Injected(pod, spec))
             /\ AlreadyInjected(In(n, Injected(pod, spec)))
  <2>1. pod \in Pod /\ spec \in SidecarConfig
    BY FreshPods, SpecsAssumption
  <2> QED BY <2>1, InjectedFields, InFields
<1> QED BY <1>1 DEF Origin

LEMMA OnceStep ==
  ASSUME TypeInv, InjectedOnce, [Next]_vars
  PROVE  InjectedOnce'
<1> SUFFICES ASSUME NEW k \in Calls, pc'[k] # "new"
             PROVE  Origin(call'[k].request) /\ Origin(call'[k].pod)
  BY DEF InjectedOnce, Origin, Fresh, In
<1>1. CASE pc[k] # "new" /\ call'[k] = call[k]
  BY <1>1 DEF InjectedOnce
<1>2. CASE Continues
  BY <1>2 DEF Continues, SameFields, InjectedOnce
<1>3. ASSUME NEW pod \in Submitted, NEW dryRun \in CanDryRun, Default(k, pod, dryRun)
      PROVE  Origin(call'[k].request) /\ Origin(call'[k].pod)
  <2>1. Origin(pod)
    <3>1. CASE pod \in PodShapes
      BY <3>1 DEF Origin, Fresh
    <3>2. CASE \E j \in Calls, n \in Namespaces : pc[j] = "done" /\ pod = In(n, call[j].pod)
      BY <3>2, CopyOrigin DEF InjectedOnce
    <3> QED BY <3>1, <3>2, SubmittedPods
  <2>2. call'[k].request = pod
    BY <1>3, DefaultStep
  <2>3. \/ call'[k].pod = pod
        \/ \E c \in Configs : /\ ~AlreadyInjected(pod)
                              /\ call'[k].pod = Injected(pod, Cached(c).spec)
    BY <1>3, DefaultStep
  <2>4. \A c \in Configs : Cached(c).spec \in Specs
    BY Histories DEF Object
  <2>5. ~AlreadyInjected(pod) => pod \in Fresh
    BY <2>1, UnmarkedOrigin
  <2>6. pod.namespace \in Namespaces
    BY SubmittedPods DEF Pod
  <2> QED BY <2>1, <2>2, <2>3, <2>4, <2>5, <2>6 DEF Origin
<1>4. ASSUME NEW j \in Calls, NEW pod \in Submitted, NEW dryRun \in CanDryRun,
             Default(j, pod, dryRun), j # k
      PROVE  pc[k] # "new" /\ call'[k] = call[k]
  BY <1>4, DefaultStep
<1> QED BY <1>1, <1>2, <1>3, <1>4, NextContinues

(* One injection of one SidecarConfig leaves all names apart.              *)
LEMMA OriginNames ==
  ASSUME NamesApart, NEW p, Origin(p)
  PROVE  NamesDiffer(AllContainers(p))
<1>1. CASE p \in Fresh
  BY <1>1, FreshPods DEF NamesApart
<1>2. ASSUME NEW n \in Namespaces, NEW pod \in Fresh, NEW spec \in Specs,
             p \in {Injected(pod, spec), In(n, Injected(pod, spec))}
      PROVE  NamesDiffer(AllContainers(p))
  <2>1. pod \in Pod /\ spec \in SidecarConfig
    BY FreshPods, SpecsAssumption
  <2>2. /\ NamesDiffer(AllContainers(pod)) /\ NamesDiffer(AllContainers(spec))
        /\ Kidecar \notin Names(AllContainers(pod))
        /\ Names(AllContainers(pod)) \cap Names(AllContainers(spec)) = {}
    BY FreshPods DEF NamesApart, KidecarIsOurs
  <2> DEFINE added == IF spec.injectKidecar THEN {Kidecar} ELSE Names(AllContainers(spec))
  <2>3. Names(AllContainers(pod)) \cap added = {}
    BY <2>2
  <2> HIDE DEF added
  <2>4. /\ NamesDiffer(AllContainers(pod)) /\ Names(AllContainers(pod)) \cap added = {}
        /\ spec.injectKidecar \/ NamesDiffer(AllContainers(spec))
        => NamesDiffer(AllContainers(Injected(pod, spec)))
    BY <2>1, InjectedNames DEF added
  <2>5. AllContainers(In(n, Injected(pod, spec))) = AllContainers(Injected(pod, spec))
    BY <2>1, InjectedFields, InFields
  <2> QED BY <1>2, <2>2, <2>3, <2>4, <2>5
<1> QED BY <1>1, <1>2 DEF Origin

(* No pod is injected twice, or half twice, even one that was taken from   *)
(* the cluster after an injection by another SidecarConfig, or for another *)
(* namespace: every created pod has at most one injection behind it, and   *)
(* its containers' names differ, if those that users write do.             *)
THEOREM NeverTwice ==
  ASSUME NamesApart
  PROVE  Spec => []NamesUnique
<1>1. Init => InjectedOnce
  BY DEF Init, InjectedOnce
<1>2. TypeInv /\ InjectedOnce /\ [Next]_vars => InjectedOnce'
  BY OnceStep
<1>3. TypeInv /\ InjectedOnce => NamesUnique
  <2> SUFFICES ASSUME TypeInv, InjectedOnce, NEW k \in Calls, Created(k)
               PROVE  NamesDiffer(AllContainers(call[k].pod))
    BY DEF NamesUnique
  <2>1. pc[k] = "done"
    BY DEF TypeInv, CreatedDone
  <2> QED BY <2>1, OriginNames DEF InjectedOnce
<1> QED BY <1>1, <1>2, <1>3, TypeKept, PTL DEF Spec

=============================================================================
