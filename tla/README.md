# Kidecar in TLA+

This directory specifies, model-checks and proves properties of kidecar, a
sidecar for Kubernetes pods and the manager that injects it. The modules are
translated from the Go source in `../src`; every definition that stands for code
is listed with its lines in `PROJECT.json` under `map`.

## 1. The system

Kidecar consists of two programs that meet in the Kubernetes API.

**The manager** (`cmd/main.go`) runs once per cluster, or as several replicas
with one leader.

| Part | State it keeps | Operations | What makes it correct |
|---|---|---|---|
| Pod webhook and injector: `pkg/webhook/pod_inject.go`, `pkg/injector/pod.go` | the pod of the request; the status of a `SidecarConfig` | list and match SidecarConfigs, change the pod, count it in `matchedPods` | a created pod is injected once, wholly, from one SidecarConfig, and keeps what the user wrote; each pod is counted once |
| `kidecar-config`: `pkg/injector/configmap.go` | one ConfigMap per namespace, with a hash of its data | create, compare, update with retries | an injected pod finds the ConfigMap it mounts; hash and data agree; no configuration nobody asked for |
| Collector: `pkg/collector/pods.go` | `updatedPods`, `readyPods` | every 10 s list SidecarConfigs and pods, write the counts with retries | what is counted comes to be written; `matchedPods` and the spec are left alone |
| Reconciler and SidecarConfig webhooks | none | return at once | - |

**The sidecar** (`cmd/sidecar/main.go`) runs in every injected pod.

| Part | State it keeps | Operations | What makes it correct |
|---|---|---|---|
| Assembler: `pkg/assembler/mgr.go` | plugins and their last statuses, an error channel | load the configuration, initialise and start plugins, poll, end with the first error | every configured plugin runs; an error ends the process |
| hot_update: `pkg/plugins/hot_update` | `h.result`, the files in `FileDir` | at start go back to the newest recorded update; `POST /hot-update`: download, load, report, record | what is reported is loaded; what is recorded was asked for; a restart comes back to the newest record |
| Persisted results: `pkg/store/persistent.go` | ConfigMap `kube-system/sidecar-result`: version and url per pod | Get, and Get-change-Update | no record lost or mixed up |
| http_probe: `pkg/plugins/http_probe` | goroutines per endpoint, a counter and a status | probe, extract, store, retry | what an endpoint goes on answering comes to stand on the pod |
| binary: `pkg/plugins/binary` | a child process and a mutex | start, wait | its end ends the sidecar |
| Storage: `pkg/store`, `pkg/template`, `pkg/extractor` | gauges, HTTP mux, annotations and labels | set up lazily, store, markers and templates | set up once; a state is marked as a whole, on the pod and then on the other object |
| Pod cache: `pkg/info/pod.go` | map and timers | read through, expire | an entry does not outlive its timers |

**Interactions.** The webhook gives the pod the sidecar's container and a volume
of `kidecar-config`, which the sidecar reads as its configuration. Webhook
requests and collector share the status of the SidecarConfig. The goroutines of
the hot_update plugin share `h.result`, the files and the process-wide HTTP mux;
the plugins of *all* pods share `sidecar-result`. Nothing but the API server's
optimistic concurrency (resourceVersion) protects the shared objects; the manager
moreover reads them from informer caches. The goroutines of http_probe share the
pod cache and the storages, and patch the same pod; a plugin's report over the
unbuffered `errorCh`, or a panic anywhere, ends them all.

**What is hard.** Interleavings of unlocked goroutines; read-change-write of
shared objects with and without retry; late or lost answers; a crash between two
of the five places an update is written to (file, process, annotation, answer,
ConfigMap); caches that trail. `PROJECT.json`, `hazards`, lists each at its line.

## 2. Modules

| Module | Models |
|---|---|
| `ResultStore` | abstract: a store in which a step sets one key of one owner, and nothing is forgotten |
| `HotUpdate` | hot_update plugin in all pods, the ConfigMap they share, their restarts |
| `HotUpdateProofs`, `HotUpdateRestoreProofs` | theorems about `HotUpdate` |
| `MCHotUpdate` | constants for TLC |
| `PodMutation` | pure operators: which SidecarConfig matches, what `InjectPod` makes of a pod |
| `Injector` | webhook requests, `kidecar-config`, status and collector of one manager; extends `PodMutation` |
| `PodMutationProofs` | lemmas about the operators of `PodMutation`: what an injection changes and keeps |
| `InjectorProofs` | theorems about `Injector` |
| `MCInjector` | constants for TLC |
| `Marking` | abstract: a pod is marked with one whole patch at a time, another object only with patches the pod has had |
| `Probe` | http_probe's goroutines, storage configuration, storages, pod cache, the patched objects |
| `Sidecar` | the process: main, the assembler, all plugins, the kubelet; extends `Probe` |
| `ProbeProofs`, `SidecarProofs` | theorems about `Probe` and `Sidecar` |
| `MCSidecar` | constants for TLC |

### HotUpdate

A pod has the goroutine `Start` (of `Plugin.Start`) and some `Handlers` (the
goroutines net/http starts). `pc[p][t]` is where a goroutine is; a step is what
it does between two accesses to state it shares.

| Code | Action |
|---|---|
| `setHotUpdateConfigWhenStart` up to the download | `SetHotUpdateConfig`; `GetPersistenceInfo`, `Newest` are its operators |
| `http.ListenAndServe` | `Listen` |
| `downloadHotUpdateFile` | `RejectRequest`, `ReceiveRequest`, `SetUrl` |
| `downloadFileByUrl` | `PrepareFile`, `FetchFile`, `FetchErrorPage`, `SaveFile`, `SaveFails` |
| `loadHotUpdateFileBySignal`, `...ByRequest` | `LoadBySignal`, `LoadFails`, `LoadByRequest` |
| `hotUpdateHandle` after the load | `ReportSuccess`, `ReadResult`, `PatchPod` |
| `storeDataToConfigmap`, `SetPersistenceInfo` | `ReadPair`, `GetConfigmap`, `UpdateConfigmap`, `UpdateConflict` |
| errors of calls | `CallFails`, `UpdateReplyLost` |
| Start's error ends the process (assembler) | `Exit` |
| surroundings | `Crash`, `CrashDuringUpdate`, `Recreate`, `DeliverLate` |

`setHotUpdateConfigWhenStart` downloads, loads and records with the functions the
handlers use, so `Start` goes through the same steps from `"path"` on; without a
record it sets `OriginVersion` and goes straight to recording.

`files`, `loaded` and `anno` are the outside: the volume survives a restart of
the container and is lost with the pod (`Recreate`). `wire` holds updates of the
ConfigMap whose sender will not hear of them.

*Abstractions.* Strings are read and written in one step (exact for versions and
for urls of equal length; a torn string is not modelled). The two reads of
`ReadPair` are one step. `SaveFile` creates and copies in one step, so two
handlers do not interleave copies into one file. Calls have no timeout in the
code; here they return. The name of a pod's entry is taken to be unique. Loading
by request does nothing in the code and nothing here. The storage is the
annotation of the pod (InKube).

### Injector

An object of the API server is the sequence of its states: its length is its
resourceVersion, an update is accepted if it was read at that length.
`seenConfig`, `seenCmap`, `seenPods` say how far the informers are; every read of
the manager's client is of a seen state. The objects are delivered independently
of one another.

| Code | Action or operator |
|---|---|
| `GetSidecarConfigOfPod`, `Match`, `MatchLabelSelector`, `MatchNamespace` | `Answers`, `Match`, `MatchLabelSelector` (the cache lists in any order) |
| `InjectPod` up to the status | `SkipPod`, `RejectPod`, `InjectPod`, `Injected` and the operators of `PodMutation` it calls |
| `EnsureConfigmap`, `createConfigmap`, `updateConfigmap` | `EnsureConfigmap`, `CreateConfigmap`, `GetConfigmap`, `UpdateConfigmap`, `UpdateConfigmapFails` |
| the status update and its `RetryOnConflict` | `GetStatus`, `UpdateStatus`, `UpdateStatusConflict`, `StatusFails` |
| an error of `Default`: controller-runtime answers it as a denial, and the pod is not created | `Deny`, `RejectPod`, `CallFails`; also in `GetConfigmap` and `UpdateConfigmapFails` |
| a call of the webhook that gets no answer: `failurePolicy=ignore` creates the pod as submitted | `MissWebhook`, `WebhookTimesOut`, `Restart` |
| `syncPodInfoToSidecarSet`, `collectPodAndUpdateStatus` | `Tick`, `CollectPods`, `GetCollected`, `UpdateCollected`, `UpdateCollectedConflict`, `CollectorFails` |
| surroundings | `SyncConfig`, `SyncConfigmap`, `SyncPods`, `Restart`, `EditConfig`, `ChangeConfigmap`, `RunPod` |

`kidecar-config` is absent at first, or as an earlier manager left it
(`InitialYamls`). A request (`Calls`) is served once and creates at most one pod, which is named
after it; a user may submit a pod taken from the cluster, for its namespace or
another one (`Submitted`). Such a copy brings the annotation along, so that nobody
looks for the ConfigMap it mounts.
`AddVolumeMounts` is what `addVolumeMounts` does: its loops append to copies of
the containers, so nothing changes.

*Abstractions.* A container is its name, mount paths and restart policy; a
selector is a set of labels, nil or invalid; a configuration is a value whose hash
collides with no other. One manager replica is modelled (`IsLeader` says whether
it runs the collector); a SidecarConfig is not deleted, a pod not removed. After a
timeout a goroutine writes nothing more, since its context is cancelled.

### Probe

`pc[e]` is where the goroutine of endpoint `e` is; a step is what it does between
two accesses to state it shares. `Config` gives the storage configuration of each
endpoint that may be configured, `truth` what the endpoint answers now.

| Code | Action or operator |
|---|---|
| `probeAndStore`, `retry.OnError` | `Wake`, `Succeed`, `Fail`, `Finish` |
| `Executor.Probe`, `extractData` | `Probe`; `Bad` stands for no answer, a wrong status, not JSON, no such path; `NonString` for what `data.(string)` panics of |
| `ParseConfig`, `ReplaceValue` | `ParseConfig` once per struct (`level`), `Parsed` |
| `GetCurrentPod` and its timer | `FetchPod`, `Expire`; look-ups are guards on `cached` |
| `GetStorage`, `SetupWithManager` | `GetStorage`, `SetUpStorage` |
| `inKube.Store`, `storeInCurrentPod`, `storeInOtherObject` | `Store`, `PatchPod`, `PatchObject` |
| `promMetric.Store` | `Store` for data that is no number, else `Panics` |
| `buildPolicyMap`, `GetPolicyOfState`, `IsValid`, `generatePatch` | `PolicyIndex`, `MarksOf`, `PatchOf`, `IsValid`, `Applicable` |
| `httpProber.Start` | `Launch` |
| failures | `CallFails`, `ReplyLost`, `MapRace`, `ProcessEnds` |
| surroundings | `Change`, `DeliverLate` |

`wire` holds patches that were under way when their process ended: the API server
may process them at any later time. `shown` is a history variable.

*Abstractions.* Annotations and labels are keys of one map per object. The data a
state is stored with is the state itself. A fetch of the pod and its entry into
the cache are one step, since nothing that is used of the pod changes while it
lives; the same goes for `http.Handle` and the assignment of the registry. A
conflict is retried with the same patch, so `RetryOnConflict` shows nothing. In
the code templates are replaced in place, so that only the first round of a
process can find one; here every round looks, with the same result. The plugin's
context is never cancelled and nothing is sent to `reloadConfig`: those branches
are not there. Two endpoints that share keys overwrite each other; the properties
are about endpoints with keys of their own (`Exclusive`).

### Sidecar

| Code | Action |
|---|---|
| `main`, `LoadConfig`, `NewManager` | `LoadConfig`, `LoadFails` |
| `InitPlugins`, `AddPlugin` | `InitPlugins`, `InitFails` |
| `startAllPlugins`, `isPluginRunning`, `PluginStatus` | `StartPlugin`, `IsPluginRunning`, `MutexHeld` |
| the loop with `pollPluginStatus` | `PollPlugin` |
| `err := <-errorCh`, the end of `main` | `Receive`, `End` |
| `binary.Start`, the goroutine that waits | `StartsUp`, `StartFails`, `Stops` (hot_update's `Start` takes the same steps) |
| `httpProber.Start` | `StartProbes` |
| panics, races, kills, the kubelet | `ProbePanics`, `CacheRace`, `Killed`, `Restart` |

`gor[k]` is the goroutine that the plugin `k` reports with; `plugins` and `gor`
are kept after the end of a process to tell how it ended. A binary plugin is
registered under its configured name and asked for its status under `Name()`,
which is always `"binary"`: `NameOf`. Every recorded status is read before the
pollers refresh it for the first time, so the records are not in the model.
`/metrics` shares the default mux with `/hot-update`, but neither path nor port; the
health server is never started.

## 3. Checks

Passing runs:

| Run | Instance | Shows |
|---|---|---|
| `hotupdate_store` | 2 pods (one by signal, one by request), 1 handler each, 2 versions, 2 urls with one file name, 2 requests, 1 late update | `StoreRefinement`: the Gets and Updates of all pods, late ones included, implement `ResultStore`. `PairIntegrity`: a recorded version has the url it was asked for with, though rejected requests leave half a pair behind and pods take over each other's entries. `TypeOK` |
| `hotupdate_recovery` | the same with urls of their own file names, 1 fault of any kind, fairness | `StartRestoresNewest`, `ReportedUpdateIsLoaded`, `EventuallySettled` |
| `injector_status` | 2 requests, collector, 1 SidecarConfig, 2 attempts, 1 failure, restart or change by others; fairness | `MatchedBounded`, `StatusFieldsKept`, `CountsConverge` |
| `injector_pods` | 2 requests out of 3 shapes of pods, or copies into any namespace, dry or not; 2 SidecarConfigs of 4 kinds; 2 namespaces; 1 failure, restart or change | `ConfigmapConsistent`, `KidecarComplete`, `NamesUnique`, `AppKept`, `TypeOK` |
| `sidecar_probes` | 12 configurations: an endpoint with markers for two states on the pod and on an object that has all keys, or lacks one; an endpoint with two markers for one state, one for another and none for a third; two endpoints on one pod; two on metrics; refused types, templates and targets; one and two binary plugins, with and without `OnFailure`. 2 attempts, 1 changed answer, up to 3 failures of any kind; fairness | `PodMarksAreWhole`, `ObjectFollowsPod`, `CachedPodExpires`; `MarkingRefinement`: no step of any goroutine, failure or late patch changes pod or object otherwise than `Marking` allows; `AnswersComeToStand` through failures, late patches and restarts; `EveryPluginStarted`, `CleanExitIsABinarys`, `ReportEndsProcess`; `TypeOK` |

Runs that TLC finds violated; each is a disagreement of the code with its own
comments or answers, described under `findings`:

| Run | Property | What happens |
|---|---|---|
| `hotupdate_race` | `PairIntegrity` with two handlers | two requests mix in `h.result`; a wrong file is recorded for a version |
| `hotupdate_annotation` | `StartFollowsAnnotation` | the annotation names an update that Start does not bring back |
| `hotupdate_crashloop` | `EventuallySettled` | a version that `isValidVersion` accepts and semver does not makes every later Start fail |
| `hotupdate_errorpage` | `AckedUpdateIsLoaded` | the page of a 404 is saved, loaded and reported as a success |
| `injector_matched` | `MatchedCountsPods` | of two pods admitted together one is never counted |
| `injector_updated` | `UpdatedCountsInjected` | a pod outside the namespaces of `NamespaceSelector` is never injected, and stays counted as updated |
| `sidecar_markers` | `MarkersDeletedOnFailure` | the markers of the last state stay while the probes of an endpoint fail |

Every property of a passing run has a mutant in `PROJECT.json`: a definition of
the model changed as a bug of the code would change it, under which TLC finds
the property violated.

**Bounds.** `MaxRequests`, `MaxFaults`, `MaxDelays` (HotUpdate) and `MaxEvents`
(Injector) bound what comes from outside; nothing of the code's own is bounded,
except that `RetrySteps` is 2 for 5: one conflict that is retried and one that
ends the retries. Two pods, or requests, are what it takes to conflict; two
versions to have a newer one; one fault reaches every step, because it may strike
at each of them; one handler per pod in the passing runs, because with two
`PairIntegrity` fails (`hotupdate_race`). `StartRestoresNewest` is checked without
late updates: with one, the ConfigMap may name a newer version after Start has
looked, and the property does not hold of the code. In
`Sidecar` the number of failures that may still happen is part of a configuration:
two goroutines and one failure reach every step of either at every place of the
other, two failures make both attempts of a round fail, three let several plugins
fail at once. `MaxTimers` says how many timers are told apart; two are what it
takes for one to delete the entry of another. One change of an answer lets an old
patch arrive after a newer one. `CHECK_DEADLOCK FALSE` stands
where a model is at rest when everything is served and the bounds are used up.

**Fairness.** `HotUpdate!FairSpec`: each goroutine that can move does, and the
kubelet restarts a process that has ended. Requests, faults and late deliveries
are not fair. The code sets no timeouts on `http.Get` and on API calls, so that
they return is an assumption. `Injector!FairSpec`: requests under way, the
collector (its ticker never stops) and the watches go on; users, kubelet and
failures need not. `Sidecar!FairSpec`: main and every goroutine that can go on do,
timers fire, a plugin's `Start` gets somewhere, a panic happens when it is due, and
the kubelet restarts a container as `restartPolicy` says. Failures, changed answers
and late patches are not fair: a late patch may never arrive, or undo what stands,
until the next round stores it again.

**The exceptions of `AnswersComeToStand` and `ReportEndsProcess`** are what the
checks found out about the code. An endpoint that answers a number where a metric
is configured (`p.metrics` is a nil map), or with a JSON number or object under its
path, ends every process of the sidecar it is in (`Deadly`). Two binary plugins, one
of them called `binary`: if that one's `Start` fails it waits for `main` with its
mutex locked, `main` asks it for the status of the other, and both wait for ever
(`CanDeadlock`). Under `OnFailure` a binary that ends successfully takes all other
plugins down for good (`StaysDown`).

**What `PodMarksAreWhole` says.** `storeInCurrentPod` sends one patch with all that a
state sets and deletes nothing. If a state has a policy for other keys than the one
before, or no policy, the old markers stay beside its own, and the pod then shows
markers of several states, and TLC reaches such pods. So the property does not say that all markers are of one
state. It says that everything the last patch set is there, and that whatever else is
there was once set together: what a state has under one key it has under all of its
keys, except those that states without that key have overwritten. A patch that is
sent in parts, or a retry that mixes two answers, violates it.

**What `CountsConverge` says.** `updatedPods` comes to be the number the collector
means to write, in spite of conflicts, late caches and restarts. That this is the
number the API describes is another claim, which `injector_updated` refutes.

## 4. Proofs

`HotUpdateProofs` is about every number of pods, handlers, versions, urls,
requests, faults and late updates, from the assumptions `HotUpdate` states about
its constants (names are distinct, functions have their domains, bounds are
naturals).

* `TypeCorrect`: `Spec => []TypeOK`.
* `Refinement`: `Spec => StoreRefinement`. Every step of `HotUpdate` changes the
  ConfigMap as one step of `ResultStore` or not at all.
* `NothingForgotten`: a recorded version stays recorded.
* `Inductive`: the invariant they rest on, `TypeOK /\ FlowInv /\ PutsFresh`.

*The argument.* `TypeOK` is not inductive: that a recorded pair is a version and
a url depends on the goroutine having come through the steps that fill
`h.result` and `put`. `FlowInv` says which places of the code `Start` and the
handlers can be at, what they have filled in there, and that every prepared,
travelling or recorded pair is a whole one. What makes the refinement hold is
`PutsFresh`: an update that is being prepared, or is on its way, and carries the
current resourceVersion, carries the current data. A Get establishes it; every
accepted update either raises the resourceVersion, so that all others are stale,
or changes nothing. Hence an accepted update sets the one key its sender set, and
a stale one is refused however late it comes.

`HotUpdateRestoreProofs` is about the same behaviours, two of its theorems under a
hypothesis that `HotUpdate` defines next to the properties and one under another:

* `ReportedIsLoaded`: `Spec /\ []Serialized => []ReportedUpdateIsLoaded`.
* `PairsRequested`: `Spec /\ []Serialized => []PairIntegrity`.
* `NewestRestored`: `Spec /\ []Timely => []StartRestoresNewest`.
* `StartBrings`: the part of the last that needs no hypothesis; what `Start`
  downloads and loads no other goroutine touches.

*The hypotheses.* `Serialized` says that no two requests of one pod overlap, however
many there are and whatever the other pods do; the plugin has no lock, and with two
handlers TLC refutes both properties (`hotupdate_race` shows one). In the runs a pod
has one handler, so it always holds (`OneHandlerSerializes`). `Timely` says that of a pod whose `Start` is
between its look at the records and listening no update is on its way: a newer one
that arrives then is missed, and TLC refutes the property with one late update. Late
updates of other pods' serving processes, and those that arrive before `Start` looks,
are allowed. It holds in the run, which has none (`NothingDelayedIsTimely`).

*The argument.* A goroutine that is alone at work in its pod (`Alone`: `Start` always
is, a handler under `Serialized`) finds `h.result`, its locals and the files as it left
them: `Interference` says so once for all steps of all others. So three invariants need
only the goroutine's own steps. `Delivers` says how far the file of the url in
`h.result` has come: named, fetched, saved, loaded. `Restores` bounds the pod's records
by the version that `Start` brings back, and ties what it will record to that version;
that no other step changes the pod's records is `OwnRecords`, which rests on `PutsFresh`
again. `Carries` says that the pair a goroutine holds, in `h.result`, in a prepared
update or on the wire, has been requested; at `"url"`, when only the version has been
written, it says so of the request, since the url in `h.result` is still the old one.

`ProbeProofs` and `SidecarProofs` are about all sets of plugins, endpoints, keys,
states and configurations, and any number of failures, changes and late patches.

* `Implements`: `Spec => ProbeSpec`. A process with its other plugins, failures of
  main, kills and restarts does to the plugin only what `ProbeSpec` allows: however
  a process ends, it is `ProcessEnds`.
* `ProbeInvariant`: `ProbeSpec => []ProbeInv`, hence through `Implements`
  `MarksCorrect`, `ObjectCorrect`, `CacheCorrect` and `TypeCorrect` for the whole
  process.
* `StoringImplementsMarking`: `ProbeSpec => MarkingRefinement`, hence
  `MarkingCorrect`: `Spec => MarkingRefinement`. The refinement mapping takes the
  patches sent to be those of the data in `shown`: a patch of the pod, also one
  whose answer is lost or that arrives late, is `Mark`, one of the other object is
  `Follow`, and everything else stutters.
* `HostInvariant`: `Spec => []HostInv`, hence `AllStarted` and `CleanExit`.

*The argument.* A patch of the pod makes it show the data that is added to `shown`
in the same step, and leaves the keys of an `Exclusive` endpoint alone
(`PatchKeepsWhole`). What it leaves behind under other keys was whole before, and
stays so for want of the keys that have now been overwritten (`PatchIsWhole`): this is
why `ShowsWholeStates` looks at each key that is set, and not at one state. That the other object follows is not inductive: a goroutine, or a
patch of a dead process, might be about to send data that the pod never showed.
`RoundInv` and `LateInv` exclude it: who is at `"object"`, and every late patch of
an object, carries data in `shown`, which is also why it may be `Follow`. `RoundInv`
also bounds the attempts, which `TypeOK` needs. `StartInv` says which goroutines exist at each place of `main`.

`PodMutationProofs` and `InjectorProofs` are about any finite set of requests, all pods
and SidecarConfigs, any number of attempts, of failures and of changes by others, and
caches however late. That `Calls` is finite is all that counting needs. The names,
paths and labels are elements of a constant set `Strings`, which the runs set to
`STRING`: nothing is proved from their being strings.

* `TypeCorrect`: `Spec => []TypeOK`; `TypeKept` is the inductive `TypeInv` behind it.
* `ConfigmapNeverMixed`: `Spec => []ConfigmapConsistent`.
* `MatchedNeverTooHigh`: `Spec => []MatchedBounded`.
* `FieldsKept`: `Spec => StatusFieldsKept`, an action property.
* `AppsKept`: `Spec => []AppKept`.
* `KidecarNeverAlone`: `Spec => []KidecarComplete`, assuming `KidecarIsOurs`: users do
  not call a container of their own `kidecar`. Every created pod with the container has
  the volume; the ConfigMap has come to exist in the pod's namespace if the pod was
  injected by its own request. Of a copy in another namespace that cannot be said, and
  TLC refutes the property without this exception.
* `NeverTwice`: `Spec => []NamesUnique`, for copies in any namespace too, assuming `NamesApart`: the containers that
  users write for pods and for SidecarConfigs have names of their own. The code checks
  neither; `MCInjector` asserts both of the instances that are checked.

*The argument.* `TypeInv` adds to the types that histories are never empty, that a
cache is at a state that was written, that a request under way has chosen a
SidecarConfig and stays in its namespace. Two classifications carry the rest.
`Continues` says what any step but the coming of a request may do to requests and pods;
`ObjectSteps` what it may do to SidecarConfigs and to `kidecar-config`: append one
state, which a counting, a collecting or an editing step, or a request with the
configuration it wants, has made. `MatchedBounded` is not inductive, because
a request adds one to what it has listed, maybe long ago: `CountsPast` bounds every
state of the SidecarConfig, and every listed copy, by the requests that are past their
update (`Past`), of which the one that counts is not yet one. `KidecarInv` follows the
pod and the ConfigMap through the steps of a request, and through pods submitted again;
it holds because a request that fails on its way is denied (`DenyContinues`) or its pod
created as submitted, never as far as it has been changed.
`InjectedOnce` says that every pod is one a user wrote, or such a pod injected once
(`Origin`): the annotation stops the second injection, and the lemmas of
`PodMutationProofs` say what the first one adds (`InjectedNames`), has in place
(`InjectedVolumes`) and leaves alone (`InjectedKeeps`).

All safety invariants and action properties that the passing runs check are theorems.
Only model-checked, because they are out of reach of the prover: the liveness
properties (`EventuallySettled`, `CountsConverge`, `AnswersComeToStand`,
`ReportEndsProcess`: TLAPS has no ENABLED and so no fairness).

## 5. Not modelled, and the plan

Not modelled and not to be: the reconciler and the SidecarConfig webhooks (they
do nothing), generated code, set-up and wiring, JSON and JSONPath evaluation,
logging; `RemovePlugin`, `Stop`, `updateStatus`, `isPluginEnabled` and the health
server, which no code calls; the fields `bootOrder`, `restartPolicy` and
`sidecarStartOrder` of the sidecar's configuration, which no code reads; the
status records, which nothing reads after the start.

In this order:

1. `Injector`: several replicas; the order in which slow requests write
   `kidecar-config`. Modelled, but without a property of their own, are two plain
   disagreements with comments: a dry run writes `kidecar-config` and `matchedPods`
   although `pod_inject.go:32` declares `sideEffects=None`, and `Match` ignores
   `Namespace` (`sidecarconfig_types.go:41`).
2. `HotUpdate`: files written block by block by two handlers.
3. Proofs: what each step of the plugin needs of fairness, as step lemmas of
   `EventuallySettled` (no goroutine is stuck at a place that has no step).
