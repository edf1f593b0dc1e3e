------------------------------ MODULE Injector ------------------------------
(***************************************************************************)
(* The kidecar manager: the pod webhook (PodInjector.Default, InjectPod),  *)
(* which runs in a goroutine per admission request, and the pod info       *)
(* collector, which runs every ten seconds.  They share the status of the  *)
(* SidecarConfigs, and the requests share the ConfigMap kidecar-config of  *)
(* their namespace; both are guarded by resourceVersions only.             *)
(*                                                                         *)
(* An object of the API server is the sequence of the states it has had,   *)
(* so that its length is its resourceVersion.  The manager's client reads  *)
(* from an informer's cache, which trails the API server: seen is how many *)
(* of the states of an object it has been sent.                            *)
(***************************************************************************)
EXTENDS PodMutation, Naturals, FiniteSets

CONSTANTS
  Calls,      \* admission requests: each creates a pod
  Configs,    \* SidecarConfigs
  RetrySteps, \* Steps of retry.DefaultRetry: attempts before it gives up
  PodShapes,  \* the pods that users submit
  Specs,      \* the SidecarConfigs that users write
  InitialSpec, \* what each SidecarConfig is at first
  InitialYamls, \* what kidecar-config may hold at first; None: it is absent
  MaxEvents,  \* bound: failures, restarts, and what others change
  CanDryRun,  \* whether requests may be dry runs: a subset of BOOLEAN
  IsLeader    \* whether this manager runs the collector: only a leader does

ASSUME CallsAssumption == IsFiniteSet(Calls)
ASSUME RetryAssumption == RetrySteps \in Nat \ {0}
ASSUME ShapesAssumption == PodShapes \subseteq Pod
ASSUME SpecsAssumption ==
  Specs \subseteq SidecarConfig /\ InitialSpec \in [Configs -> Specs]
ASSUME InitialYamlsAssumption == InitialYamls \subseteq Yamls \cup {None}
ASSUME BoundsAssumption == MaxEvents \in Nat
ASSUME FlagsAssumption == CanDryRun \subseteq BOOLEAN /\ IsLeader \in BOOLEAN

NoConfig == "no config"
ASSUME NoConfigAssumption == NoConfig \notin Configs

VARIABLES
  config,     \* the states each SidecarConfig has had: spec and status
  cmap,       \* the states each namespace's kidecar-config has had
  phases,     \* the states the pods have had: the phase of each
  seenConfig, seenCmap, seenPods, \* what the informers have delivered
  pc,         \* where the goroutine of each request is
  call,       \* its local variables
  collector,  \* the collector's
  events      \* counter for the bound

objects == <<config, cmap, phases>>
caches  == <<seenConfig, seenCmap, seenPods>>
vars    == <<config, cmap, phases, seenConfig, seenCmap, seenPods, pc, call,
             collector, events>>

Status == [matched : Nat, updated : Nat, ready : Nat]
Object == [spec : Specs, status : Status]
\* The hash is that of the yaml it is taken of; None: no annotations at all.
Configmap == [exists : BOOLEAN, yaml : Yamls \cup {None}, hash : Yamls \cup {None}]
Phase == {"absent", "Pending", "Running"}

NoStatus == [matched |-> 0, updated |-> 0, ready |-> 0]
Absent   == [exists |-> FALSE, yaml |-> None, hash |-> None]
Holding(yaml) == [exists |-> TRUE, yaml |-> yaml, hash |-> yaml]

PCs == {"new", "ensure", "create", "getcm", "putcm", "getst", "putst", "answer", "done"}

TypeOK ==
  /\ config \in [Configs -> Seq(Object)]
  /\ cmap \in [Namespaces -> Seq(Configmap)]
  /\ phases \in Seq([Calls -> Phase])
  /\ seenConfig \in [Configs -> Nat] /\ seenCmap \in [Namespaces -> Nat]
  /\ seenPods \in 1..Len(phases)
  /\ \A c \in Configs : seenConfig[c] \in 1..Len(config[c])
  /\ \A n \in Namespaces : seenCmap[n] \in 1..Len(cmap[n])
  /\ pc \in [Calls -> PCs]
  /\ \A k \in Calls : pc[k] # "new" =>
       /\ call[k].request \in Pod /\ call[k].pod \in Pod
       /\ call[k].dryRun \in BOOLEAN
       /\ call[k].config \in Configs \cup {NoConfig}
       /\ call[k].config # NoConfig => call[k].listed \in Object
       /\ call[k].read \in Nat /\ call[k].tries \in 0..RetrySteps
  /\ collector.pc \in {"idle", "list", "get", "put"}
  /\ collector.todo \subseteq Configs
  /\ collector.tries \in 0..RetrySteps
  /\ events \in 0..MaxEvents

-----------------------------------------------------------------------------
(* The API server and the cache.                                           *)

Latest(h) == h[Len(h)]

\* An update without effect leaves the resourceVersion as it is.
Updated(h, x) == IF x = Latest(h) THEN h ELSE Append(h, x)

Cached(c)   == config[c][seenConfig[c]]
CachedCm(n) == cmap[n][seenCmap[n]]

NoPods == [k \in Calls |-> "absent"]

\* What variables hold that are not yet set.
NoPod == [namespace |-> None, labels |-> {}, annotations |-> [k \in Keys |-> None],
          sa |-> None, containers |-> <<>>, inits |-> <<>>, volumes |-> <<>>,
          share |-> FALSE]
NoObject == [spec |-> CHOOSE spec \in Specs : TRUE, status |-> NoStatus]

NewCall == [request |-> NoPod, pod |-> NoPod, dryRun |-> FALSE, config |-> NoConfig,
            listed |-> NoObject, read |-> 0, tries |-> 0]

IdleCollector == [pc |-> "idle", todo |-> {}, listed |-> [c \in Configs |-> NoObject],
                  config |-> NoConfig, updated |-> 0, ready |-> 0, read |-> 0,
                  tries |-> 0]

Init ==
  /\ config = [c \in Configs |-> << [spec |-> InitialSpec[c], status |-> NoStatus] >>]
  /\ \E yaml \in InitialYamls :
       cmap = [n \in Namespaces |-> <<IF yaml = None THEN Absent ELSE Holding(yaml)>>]
  /\ phases = <<NoPods>>
  /\ seenConfig = [c \in Configs |-> 1]
  /\ seenCmap = [n \in Namespaces |-> 1]
  /\ seenPods = 1
  /\ pc = [k \in Calls |-> "new"]
  /\ call = [k \in Calls |-> NewCall]
  /\ collector = IdleCollector
  /\ events = 0

\* What only happens so often: a failure or a change by others.
Event == events < MaxEvents /\ events' = events + 1

Goto(k, l) == pc' = [pc EXCEPT ![k] = l]

\* The API server creates the pod, unless this is a dry run.
Create(k, dryRun) ==
  phases' = IF dryRun THEN phases
            ELSE Append(phases, [Latest(phases) EXCEPT ![k] = "Pending"])

\* An error of Default is answered as a denial, and the pod is not created:
\* failurePolicy=ignore is about calls of the webhook that get no answer.
Deny(k) == Goto(k, "done") /\ UNCHANGED <<call, phases>>

-----------------------------------------------------------------------------
(* InjectPod up to the first write: list the SidecarConfigs (the cache     *)
(* lists them in any order), take the first that matches.                  *)

Answers(pod, a) == {c \in Configs : Match(pod, Cached(c).spec) = a}

\* What users submit: a pod of their own, or one they took from the cluster,
\* for its namespace or another one.
In(n, pod) == [pod EXCEPT !.namespace = n]

Submitted ==
  PodShapes \cup
  {In(n, call[k].pod) : n \in Namespaces, k \in {j \in Calls : Latest(phases)[j] # "absent"}}

\* The request is over, and its pod is not changed.
Unchanged(k, pod, dryRun) ==
  /\ call' = [call EXCEPT ![k] = [NewCall EXCEPT !.request = pod, !.pod = pod,
                                                 !.dryRun = dryRun]]
  /\ Goto(k, "done")
  /\ UNCHANGED <<config, cmap, caches, collector>>

\* No SidecarConfig matches, or the one that does finds its annotation.
SkipPod(k, pod, dryRun) ==
  /\ pc[k] = "new"
  /\ \/ Answers(pod, "yes") \cup Answers(pod, "error") = {}
     \/ AlreadyInjected(pod) /\ Answers(pod, "yes") # {}
  /\ Unchanged(k, pod, dryRun)
  /\ Create(k, dryRun)
  /\ UNCHANGED events

\* A selector is invalid, or the list, the namespace or the ServiceAccount
\* cannot be read: the pod is denied.
RejectPod(k, pod, dryRun) ==
  /\ pc[k] = "new"
  /\ \/ Answers(pod, "error") # {} /\ UNCHANGED events
     \/ Event
  /\ Unchanged(k, pod, dryRun)
  /\ UNCHANGED phases

\* The API server does not reach the webhook, and creates the pod.
MissWebhook(k, pod, dryRun) ==
  /\ pc[k] = "new"
  /\ Event
  /\ Unchanged(k, pod, dryRun)
  /\ Create(k, dryRun)

InjectPod(k, pod, dryRun, c) ==
  /\ pc[k] = "new"
  /\ c \in Answers(pod, "yes")
  /\ ~AlreadyInjected(pod)
  /\ call' = [call EXCEPT ![k] = [NewCall EXCEPT
                !.request = pod, !.pod = Injected(pod, Cached(c).spec),
                !.dryRun = dryRun, !.config = c, !.listed = Cached(c)]]
  /\ Goto(k, IF Cached(c).spec.injectKidecar THEN "ensure" ELSE "getst")
  /\ UNCHANGED <<objects, caches, collector, events>>

-----------------------------------------------------------------------------
(* EnsureConfigmap.                                                        *)

Ns(k)   == call[k].request.namespace
Yaml(k) == call[k].listed.spec.kidecar

Wanted(k) == Holding(Yaml(k))

EnsureConfigmap(k) ==
  /\ pc[k] = "ensure"
  /\ Goto(k, CASE ~CachedCm(Ns(k)).exists          -> "create"
               [] CachedCm(Ns(k)).exists
                  /\ CachedCm(Ns(k)).hash # Yaml(k) -> "getcm"
               [] OTHER                            -> "getst")
  /\ UNCHANGED <<objects, caches, call, collector, events>>

\* AlreadyExists is no error, whatever the ConfigMap holds.
CreateConfigmap(k) ==
  /\ pc[k] = "create"
  /\ cmap' = IF Latest(cmap[Ns(k)]).exists THEN cmap
             ELSE [cmap EXCEPT ![Ns(k)] = Append(@, Wanted(k))]
  /\ Goto(k, "getst")
  /\ UNCHANGED <<config, phases, caches, call, collector, events>>

\* The Get in updateConfigmap's loop.  Not found is an error; so is a
\* ConfigMap without annotations, whose nil map cannot be written (the panic
\* is recovered and answered like an error).
GetConfigmap(k) ==
  /\ pc[k] = "getcm"
  /\ IF CachedCm(Ns(k)).exists /\ CachedCm(Ns(k)).hash # None
       THEN /\ call' = [call EXCEPT ![k].read = seenCmap[Ns(k)]]
            /\ Goto(k, "putcm")
            /\ UNCHANGED phases
       ELSE Deny(k)
  /\ UNCHANGED <<config, cmap, caches, collector, events>>

\* Mutant: every conflict is tried again.
RetryAlways(k, l) ==
  /\ call' = [call EXCEPT ![k].tries = @ + 1]
  /\ Goto(k, l)
  /\ UNCHANGED phases

\* RetryOnConflict: the next attempt, unless that was the last.
Retry(k, l) ==
  /\ call[k].tries + 1 < RetrySteps
  /\ call' = [call EXCEPT ![k].tries = @ + 1]
  /\ Goto(k, l)
  /\ UNCHANGED phases

GivesUp(k) == call[k].tries + 1 >= RetrySteps

\* Mutant: the hash is not written with the data.
UpdateConfigmapKeepsHash(k) ==
  /\ pc[k] = "putcm"
  /\ call[k].read = Len(cmap[Ns(k)])
  /\ cmap' = [cmap EXCEPT ![Ns(k)] = Updated(@, [Latest(@) EXCEPT !.yaml = Yaml(k)])]
  /\ call' = [call EXCEPT ![k].tries = 0]
  /\ Goto(k, "getst")
  /\ UNCHANGED <<config, phases, caches, collector, events>>

UpdateConfigmap(k) ==
  /\ pc[k] = "putcm"
  /\ call[k].read = Len(cmap[Ns(k)])
  /\ cmap' = [cmap EXCEPT ![Ns(k)] = Updated(@, Wanted(k))]
  /\ call' = [call EXCEPT ![k].tries = 0]
  /\ Goto(k, "getst")
  /\ UNCHANGED <<config, phases, caches, collector, events>>

\* Not found, if it has been deleted, is not tried again.  The error denies
\* the pod.
UpdateConfigmapFails(k) ==
  /\ pc[k] = "putcm"
  /\ call[k].read # Len(cmap[Ns(k)])
  /\ \/ Latest(cmap[Ns(k)]).exists /\ Retry(k, "getcm")
     \/ (GivesUp(k) \/ ~Latest(cmap[Ns(k)]).exists) /\ Deny(k)
  /\ UNCHANGED <<config, cmap, caches, collector, events>>

-----------------------------------------------------------------------------
(* The status of the SidecarConfig: the count of the listed copy plus one, *)
(* written over what a Get returns.                                        *)

GetStatus(k) ==
  /\ pc[k] = "getst"
  /\ call' = [call EXCEPT ![k].read = seenConfig[call[k].config]]
  /\ Goto(k, "putst")
  /\ UNCHANGED <<objects, caches, collector, events>>

\* Mutant: the status is that of the listed copy, not of the one just read.
CountedFromList(k) ==
  [config[call[k].config][call[k].read] EXCEPT
     !.status = [call[k].listed.status EXCEPT !.matched = @ + 1]]

\* Mutant: the closure increments the count it captured, once per attempt.
CountedPerTry(k) ==
  [config[call[k].config][call[k].read] EXCEPT
     !.status.matched = call[k].listed.status.matched + 1 + call[k].tries]

Counted(k) ==
  [config[call[k].config][call[k].read] EXCEPT
     !.status.matched = call[k].listed.status.matched + 1]

UpdateStatus(k) ==
  /\ pc[k] = "putst"
  /\ call[k].read = Len(config[call[k].config])
  /\ config' = [config EXCEPT ![call[k].config] = Updated(@, Counted(k))]
  /\ Goto(k, "answer")
  /\ UNCHANGED <<cmap, phases, caches, call, collector, events>>

UpdateStatusConflict(k) ==
  /\ pc[k] = "putst"
  /\ call[k].read # Len(config[call[k].config])
  /\ \/ Retry(k, "getst")
     \/ GivesUp(k) /\ Goto(k, "answer") /\ UNCHANGED <<phases, call>>
  /\ UNCHANGED <<config, cmap, caches, collector, events>>

\* The webhook answers with the injected pod.
Answer(k) ==
  /\ pc[k] = "answer"
  /\ Goto(k, "done")
  /\ Create(k, call[k].dryRun)
  /\ UNCHANGED <<config, cmap, caches, call, collector, events>>

-----------------------------------------------------------------------------
(* Failures of the webhook.                                                *)

\* Mutant: the error of EnsureConfigmap is only logged.
CallFailsLogged(k) ==
  /\ pc[k] \in {"ensure", "create", "getcm", "putcm"}
  /\ Event
  /\ Goto(k, "getst")
  /\ UNCHANGED <<objects, caches, call, collector>>

\* A call of EnsureConfigmap fails, and with it Default.
CallFails(k) ==
  /\ pc[k] \in {"ensure", "create", "getcm", "putcm"}
  /\ Event
  /\ Deny(k)
  /\ UNCHANGED <<config, cmap, caches, collector>>

\* The API server has waited too long for the webhook, and creates the pod as
\* it was submitted (failurePolicy=ignore).  The request's cancelled context
\* fails what the goroutine has yet to write.
WebhookTimesOut(k) ==
  /\ pc[k] \notin {"new", "done"}
  /\ Event
  /\ Goto(k, "done")
  /\ call' = [call EXCEPT ![k].pod = call[k].request]
  /\ Create(k, call[k].dryRun)
  /\ UNCHANGED <<config, cmap, caches, collector>>

\* The error of the status update is only logged.
StatusFails(k) ==
  /\ pc[k] \in {"getst", "putst"}
  /\ Event
  /\ Goto(k, "answer")
  /\ UNCHANGED <<objects, caches, call, collector>>

-----------------------------------------------------------------------------
(* The collector: list the SidecarConfigs, then for each one list the pods *)
(* and write two fields of its status.                                     *)

\* The pods of the cluster that a List with the SidecarConfig's selector and
\* namespace returns: none for a nil selector.
Selected(spec, phase) ==
  {k \in Calls : /\ phase[k] # "absent"
                 /\ spec.selector.kind = "labels"
                 /\ spec.selector.labels \subseteq call[k].pod.labels
                 /\ spec.namespace \in {None, call[k].pod.namespace}}

Tick ==
  /\ IsLeader /\ collector.pc = "idle"
  /\ collector' = [IdleCollector EXCEPT !.pc = "list", !.todo = Configs,
                                        !.listed = [c \in Configs |-> Cached(c)]]
  /\ UNCHANGED <<objects, caches, pc, call, events>>

\* On to the next SidecarConfig, or to waiting for the next tick.
NextConfig ==
  collector' = IF collector.todo = {} THEN IdleCollector
               ELSE [IdleCollector EXCEPT !.pc = "list", !.todo = collector.todo,
                                          !.listed = collector.listed]

CollectPods(c) ==
  /\ collector.pc = "list" /\ c \in collector.todo
  /\ LET spec == collector.listed[c].spec
         pods == Selected(spec, phases[seenPods])
         rest == [collector EXCEPT
                    !.config = c, !.todo = @ \ {c}, !.pc = "get",
                    !.updated = Cardinality(pods),
                    !.ready = Cardinality({k \in pods :
                                             phases[seenPods][k] = "Running"})]
     IN collector' = IF spec.selector.kind # "invalid" THEN rest
                     ELSE IF rest.todo = {} THEN IdleCollector
                     ELSE [collector EXCEPT !.todo = rest.todo]
  /\ UNCHANGED <<objects, caches, pc, call, events>>

GetCollected ==
  /\ collector.pc = "get"
  /\ collector' = [collector EXCEPT !.read = seenConfig[collector.config], !.pc = "put"]
  /\ UNCHANGED <<objects, caches, pc, call, events>>

UpdateCollected ==
  LET c == collector.config IN
  /\ collector.pc = "put"
  /\ collector.read = Len(config[c])
  /\ config' = [config EXCEPT ![c] = Updated(@,
                  [Latest(@) EXCEPT !.status.updated = collector.updated,
                                    !.status.ready = collector.ready])]
  /\ NextConfig
  /\ UNCHANGED <<cmap, phases, caches, pc, call, events>>

\* Mutant: the error ends the collector's loop.
UpdateCollectedConflictEnds ==
  /\ collector.pc = "put"
  /\ collector.read # Len(config[collector.config])
  /\ collector' = IF collector.tries + 1 < RetrySteps
                   THEN [collector EXCEPT !.tries = @ + 1, !.pc = "get"]
                   ELSE [IdleCollector EXCEPT !.pc = "ended"]
  /\ UNCHANGED <<objects, caches, pc, call, events>>

UpdateCollectedConflict ==
  /\ collector.pc = "put"
  /\ collector.read # Len(config[collector.config])
  /\ IF collector.tries + 1 < RetrySteps
       THEN collector' = [collector EXCEPT !.tries = @ + 1, !.pc = "get"]
       ELSE NextConfig
  /\ UNCHANGED <<objects, caches, pc, call, events>>

CollectorFails ==
  /\ collector.pc \in {"get", "put"}
  /\ Event
  /\ NextConfig
  /\ UNCHANGED <<objects, caches, pc, call>>

-----------------------------------------------------------------------------
(* The surroundings.                                                       *)

Cache(c, n, p) == seenConfig' = c /\ seenCmap' = n /\ seenPods' = p

SyncConfig(c) ==
  /\ seenConfig[c] < Len(config[c])
  /\ Cache([seenConfig EXCEPT ![c] = @ + 1], seenCmap, seenPods)
  /\ UNCHANGED <<objects, pc, call, collector, events>>

SyncConfigmap(n) ==
  /\ seenCmap[n] < Len(cmap[n])
  /\ Cache(seenConfig, [seenCmap EXCEPT ![n] = @ + 1], seenPods)
  /\ UNCHANGED <<objects, pc, call, collector, events>>

SyncPods ==
  /\ seenPods < Len(phases)
  /\ Cache(seenConfig, seenCmap, seenPods + 1)
  /\ UNCHANGED <<objects, pc, call, collector, events>>

\* The manager's process ends and starts anew: the calls under way break off,
\* so that their pods are created as submitted; the caches are filled afresh.
Restart ==
  LET lost == {k \in Calls : pc[k] \notin {"new", "done"}} IN
  /\ Event
  /\ pc' = [k \in Calls |-> IF k \in lost THEN "done" ELSE pc[k]]
  /\ call' = [k \in Calls |-> IF k \in lost
                              THEN [call[k] EXCEPT !.pod = call[k].request]
                              ELSE call[k]]
  /\ phases' = LET new == [k \in Calls |-> IF k \in lost /\ ~call[k].dryRun
                                           THEN "Pending" ELSE Latest(phases)[k]]
               IN Updated(phases, new)
  /\ collector' = IdleCollector
  /\ Cache([c \in Configs |-> Len(config[c])],
           [n \in Namespaces |-> Len(cmap[n])], Len(phases'))
  /\ UNCHANGED <<config, cmap>>

EditConfig(c, spec) ==
  /\ Event
  /\ config' = [config EXCEPT ![c] = Updated(@, [Latest(@) EXCEPT !.spec = spec])]
  /\ UNCHANGED <<cmap, phases, caches, pc, call, collector>>

\* Others delete the ConfigMap (the garbage collector, if its owner is gone),
\* or make one by hand, without annotations.
ChangeConfigmap(n) ==
  /\ Event
  /\ cmap' = [cmap EXCEPT ![n] = Append(@,
                IF Latest(@).exists THEN Absent
                ELSE [exists |-> TRUE, yaml |-> None, hash |-> None])]
  /\ UNCHANGED <<config, phases, caches, pc, call, collector>>

RunPod(k) ==
  /\ Latest(phases)[k] = "Pending"
  /\ Event
  /\ phases' = Append(phases, [Latest(phases) EXCEPT ![k] = "Running"])
  /\ UNCHANGED <<config, cmap, caches, pc, call, collector>>

-----------------------------------------------------------------------------
Default(k, pod, dryRun) ==
  \/ SkipPod(k, pod, dryRun) \/ RejectPod(k, pod, dryRun) \/ MissWebhook(k, pod, dryRun)
  \/ \E c \in Configs : InjectPod(k, pod, dryRun, c)

Step(k) ==
  \/ EnsureConfigmap(k) \/ CreateConfigmap(k) \/ GetConfigmap(k)
  \/ UpdateConfigmap(k) \/ UpdateConfigmapFails(k)
  \/ GetStatus(k) \/ UpdateStatus(k) \/ UpdateStatusConflict(k) \/ Answer(k)

Failure(k) == CallFails(k) \/ WebhookTimesOut(k) \/ StatusFails(k)

CollectorStep ==
  \/ Tick \/ (\E c \in Configs : CollectPods(c))
  \/ GetCollected \/ UpdateCollected \/ UpdateCollectedConflict

Sync ==
  \/ \E c \in Configs : SyncConfig(c)
  \/ \E n \in Namespaces : SyncConfigmap(n)
  \/ SyncPods

Next ==
  \/ \E k \in Calls, pod \in Submitted, dryRun \in CanDryRun : Default(k, pod, dryRun)
  \/ \E k \in Calls : Step(k) \/ Failure(k) \/ RunPod(k)
  \/ CollectorStep \/ CollectorFails
  \/ Sync \/ Restart
  \/ \E c \in Configs, spec \in Specs : EditConfig(c, spec)
  \/ \E n \in Namespaces : ChangeConfigmap(n)

Spec == Init /\ [][Next]_vars

\* The Go scheduler runs every goroutine, calls return, the ticker ticks,
\* and the watches deliver what they are sent.
FairSpec ==
  /\ Spec
  /\ \A k \in Calls : WF_vars(Step(k))
  /\ WF_vars(CollectorStep)
  /\ \A c \in Configs : WF_vars(SyncConfig(c))
  /\ WF_vars(SyncPods)

-----------------------------------------------------------------------------
(* PROPERTIES                                                              *)

Created(k)    == Latest(phases)[k] # "absent"
Requesting(c) == {k \in Calls : call[k].config = c}

\* In what users write, only the manager's container is called kidecar.
KidecarIsOurs ==
  /\ \A pod \in PodShapes : Kidecar \notin Names(AllContainers(pod))
  /\ \A spec \in Specs : Kidecar \notin Names(AllContainers(spec))

\* No two containers that meet in a pod have been given the same name.
NamesApart ==
  /\ KidecarIsOurs
  /\ \A pod \in PodShapes : NamesDiffer(AllContainers(pod))
  /\ \A spec \in Specs : NamesDiffer(AllContainers(spec))
  /\ \A pod \in PodShapes, spec \in Specs :
       Names(AllContainers(pod)) \cap Names(AllContainers(spec)) = {}

\* matchedPods never exceeds the number of requests the SidecarConfig was
\* chosen for, though requests retry their update after a conflict, their
\* counts come from copies of any age, and the collector and users write too.
MatchedBounded ==
  \A c \in Configs :
    Latest(config[c]).status.matched <= Cardinality(Requesting(c))

\* InjectPod and the collector each write the whole status, after a Get of
\* their own in every attempt: a step that changes matchedPods leaves the two
\* counts of the collector and the user's spec as they are, and vice versa.
StatusFieldsKept ==
  [][\A c \in Configs :
       LET old == Latest(config[c])
           new == Latest(config'[c])
           counted == new.status.matched # old.status.matched
           collected == <<new.status.updated, new.status.ready>>
                          # <<old.status.updated, old.status.ready>>
       IN ~(counted /\ collected) /\ (counted \/ collected => new.spec = old.spec)]_vars

\* Once pods and SidecarConfigs change no more, updatedPods comes to be, and
\* stays, the number the collector means to write, although ticks give up
\* after conflicts and read pods and SidecarConfigs from a late cache: that of
\* the pods in the cluster that Selector and Namespace select, injected or not.
\* What the API says it is, is UpdatedCountsInjected below.
CountsConverge ==
  <>[](\A c \in Configs :
         LET now == Latest(config[c]) IN
         now.spec.selector.kind # "invalid" =>
           now.status.updated = Cardinality(Selected(now.spec, Latest(phases))))

\* The hash by which isConfigChanged recognises a configuration is that of
\* the data, and the data is what was there at first or what a SidecarConfig
\* that matched a pod of the namespace held when it was listed: concurrent
\* creations, updates and retries never mix two configurations, nor those of
\* two namespaces.
ConfigmapConsistent ==
  \A n \in Namespaces :
    LET cm == Latest(cmap[n]) IN
    cm.hash # None =>
      /\ cm.yaml = cm.hash
      /\ \/ cm = cmap[n][1]
         \/ \E k \in Calls : /\ call[k].config # NoConfig
                             /\ Ns(k) = n /\ Yaml(k) = cm.yaml

HasKidecar(pod) == Kidecar \in Names(AllContainers(pod))
HasVolume(pod)  == KidecarConfigmapName \in Range(pod.volumes)
HasExisted(h)   == \E i \in DOMAIN h : h[i].exists

\* A pod created with a kidecar container has the volume it mounts.  If the
\* container comes from its own request, the ConfigMap of the volume has come
\* to exist in its namespace: no failure, conflict or deletion on the way lets
\* such a pod into the cluster.  The container of a copy comes from the pod it
\* was made of.  That pod's namespace has had the ConfigMap; in another one
\* nobody looks for it, since the copy brings the annotation along.
KidecarComplete ==
  \A k \in Calls :
    LET pod == call[k].pod IN
    Created(k) /\ HasKidecar(pod) =>
      /\ HasVolume(pod)
      /\ HasKidecar(call[k].request) \/ HasExisted(cmap[pod.namespace])

\* No pod is injected twice, or half twice: in a created pod every container
\* has a name of its own, even if it was made from a pod of the cluster that
\* had been injected, by another SidecarConfig or in another namespace perhaps.
NamesUnique ==
  \A k \in Calls : Created(k) => NamesDiffer(AllContainers(call[k].pod))

\* The containers a user submits are in the created pod, together and in
\* their order, and have lost no mount but that of the account's token.
AppKept ==
  \A k \in Calls :
    Created(k) => Keeps(call[k].request.containers, call[k].pod.containers)

-----------------------------------------------------------------------------
(* What the comments of the API say, and the code does not keep.           *)

\* sidecarconfig_types.go:140: matchedPods "is the number of Pods whose labels
\* are matched with this SidecarSet's selector and are created after" it.
MatchedCountsPods ==
  (\A k \in Calls : pc[k] = "done") =>
    \A c \in Configs :
      Latest(config[c]).status.matched
        = Cardinality({k \in Requesting(c) : Created(k)})

\* sidecarconfig_types.go:143: updatedPods "is the number of matched Pods that
\* are injected with the latest SidecarSet's containers"; here from some time
\* on.  The collector counts what Selector and Namespace select.
HasContainersOf(pod, spec) ==
  IF spec.injectKidecar THEN HasKidecar(pod)
  ELSE /\ Range(spec.containers) \subseteq Range(pod.containers)
       /\ Range(spec.inits) \subseteq Range(pod.inits)

UpdatedCountsInjected ==
  <>[](\A c \in Configs :
         LET now == Latest(config[c]) IN
         now.status.updated =
           Cardinality({k \in Calls : /\ Created(k)
                                      /\ Match(call[k].pod, now.spec) = "yes"
                                      /\ HasContainersOf(call[k].pod, now.spec)}))

=============================================================================
