------------------------------ MODULE Sidecar ------------------------------
(***************************************************************************)
(* The process of the sidecar: main, which reads the configuration, starts *)
(* the plugins and waits for the first of them to report its end, the      *)
(* goroutines of the plugins, and the kubelet that restarts the process.   *)
(* The http_probe plugin is Probe; hot_update is what main sees of it      *)
(* (module HotUpdate has the rest).                                        *)
(***************************************************************************)
EXTENDS Probe, FiniteSets

CONSTANTS
  Binaries,      \* names that binary plugins have in configurations
  Refused,       \* names or configurations that AddPlugin refuses
  Configurations \* what sidecars are started with

BuiltIns == {"http_probe", "hot_update"}
Names    == Binaries \cup BuiltIns
Policies == {"Always", "OnFailure"}

ASSUME PluginsAssumption ==
  /\ Binaries \cap BuiltIns = {} /\ Names \cap Refused = {}
  /\ Configurations \subseteq [plugins : SUBSET (Names \cup Refused),
                               endpoints : [Endpoints -> Settings \cup {None}],
                               objectKeys : SUBSET Keys,
                               restartPolicy : Policies, faults : Nat]

VARIABLES
  config,   \* plugins in the file, and the restartPolicy of the container
  main,     \* where main is
  exit,     \* how the process has ended
  plugins,  \* s.plugins: names of the plugins
  todo,     \* those that main's present loop has yet to come to
  gor       \* where the goroutine of each plugin is

hostVars == <<config, main, exit, plugins, todo, gor>>
vars     == <<probeVars, faults, config, main, exit, plugins, todo, gor>>

Mains == {"load", "init", "start", "poll", "wait", "exited"}
Exits == {None, "success", "error"}
\* failed: Start has failed and its goroutine is sending the error; ended and
\* broke: so is the goroutine that waited for a child, with nil or an error.
Goroutines == {"none", "starting", "running", "stopped", "failed", "ended", "broke"}
Reporting  == {"failed", "ended", "broke"}

(* Every variable has its type; in particular a round makes at most Steps *)
(* attempts (retry.DefaultBackoff).                                       *)
TypeOK ==
  /\ ProbeTypeOK /\ faults \in Nat
  /\ config \in [plugins : SUBSET (Names \cup Refused), restartPolicy : Policies]
  /\ main \in Mains /\ exit \in Exits
  /\ plugins \subseteq Names /\ todo \subseteq Names
  /\ gor \in [Names -> Goroutines]

NoGoroutines == [k \in Names |-> "none"]

NewProcess ==
  /\ main' = "load" /\ exit' = None /\ plugins' = {} /\ todo' = {}
  /\ gor' = NoGoroutines

Init ==
  /\ \E c \in Configurations :
       /\ conf = c.endpoints
       /\ object = [k \in Keys |-> IF k \in c.objectKeys THEN UserValue ELSE None]
       /\ config = [plugins |-> c.plugins, restartPolicy |-> c.restartPolicy]
       /\ faults = c.faults
  /\ ProbeInit
  /\ main = "load" /\ exit = None /\ plugins = {} /\ todo = {}
  /\ gor = NoGoroutines

Alive == main # "exited"

\* The goroutines and what they know are gone; plugins and gor are kept to
\* tell how the process ended, until there is a new one.
End(code) ==
  /\ Alive
  /\ main' = "exited" /\ exit' = code
  /\ ProcessEnds
  /\ UNCHANGED <<config, plugins, todo, gor>>

-----------------------------------------------------------------------------
(* What the assembler knows of a plugin.  A binary plugin is kept under    *)
(* its name in the configuration, but its Name() is "binary".              *)

NameOf(k) == IF k \in Binaries THEN "binary" ELSE k

\* Start of a binary plugin holds the mutex while it reports its error.
MutexHeld(n) == n \in Binaries /\ gor[n] = "failed"

\* Mutant: a plugin that is registered counts as running.
IsPluginKnown(n) == n \in plugins

\* PluginStatus: nothing has been recorded when Start asks, so the plugin is
\* asked.  hot_update sets "Running" only when its server has ended without
\* an error, which it never does; Status() of a binary plugin is an error,
\* since nothing sets its status.
IsPluginRunning(n) == n = "http_probe" /\ n \in plugins /\ gor[n] = "running"

-----------------------------------------------------------------------------
(* main.                                                                   *)

LoadConfig ==
  /\ main = "load"
  /\ main' = "init"
  /\ UNCHANGED <<probeVars, faults, config, exit, plugins, todo, gor>>

\* The file is not readable, or there is no manager.
LoadFails == main = "load" /\ Fault /\ End("error")

InitPlugins ==
  /\ main = "init"
  /\ config.plugins \cap Refused = {}
  /\ plugins' = config.plugins /\ todo' = config.plugins
  /\ main' = IF plugins' = {} THEN "wait" ELSE "start"
  /\ UNCHANGED <<probeVars, faults, config, exit, gor>>

InitFails ==
  /\ main = "init"
  /\ config.plugins \cap Refused # {}
  /\ End("error")
  /\ UNCHANGED faults

\* A loop over s.plugins, in any order.
NextPlugin(k, from, to) ==
  IF todo = {k} THEN main' = to /\ todo' = plugins
                ELSE main' = from /\ todo' = todo \ {k}

\* main waits for the mutex if the plugin whose status it asks for holds it.
StartPlugin(k) ==
  /\ main = "start" /\ k \in todo
  /\ ~MutexHeld(NameOf(k))
  /\ gor' = IF IsPluginRunning(NameOf(k)) THEN gor ELSE [gor EXCEPT ![k] = "starting"]
  /\ NextPlugin(k, "start", "poll")
  /\ UNCHANGED <<probeVars, faults, config, exit, plugins>>

PollPlugin(k) ==
  /\ main = "poll" /\ k \in todo
  /\ NextPlugin(k, "poll", "wait")
  /\ UNCHANGED <<probeVars, faults, config, exit, plugins, gor>>

\* Mutant: Start logs the error and returns nil.
ReceiveNil(k) ==
  /\ main = "wait"
  /\ gor[k] \in Reporting
  /\ End("success")
  /\ UNCHANGED faults

\* Mutant: nil is taken for no report.
ReceiveErrors(k) ==
  /\ main = "wait"
  /\ gor[k] \in Reporting \ {"ended"}
  /\ End("error")
  /\ UNCHANGED faults

\* The first report ends the sidecar, whatever it is.
Receive(k) ==
  /\ main = "wait"
  /\ gor[k] \in Reporting
  /\ End(IF gor[k] = "ended" THEN "success" ELSE "error")
  /\ UNCHANGED faults

MainStep ==
  \/ LoadConfig \/ InitPlugins \/ InitFails
  \/ \E k \in Names : StartPlugin(k) \/ PollPlugin(k) \/ Receive(k)

-----------------------------------------------------------------------------
(* The goroutines of the plugins.                                          *)

Becomes(k, from, to) ==
  /\ Alive /\ gor[k] = from
  /\ gor' = [gor EXCEPT ![k] = to]
  /\ UNCHANGED <<config, main, exit, plugins, todo>>

StartsUp(k) ==
  /\ k # "http_probe"
  /\ Becomes(k, "starting", "running")
  /\ UNCHANGED <<probeVars, faults>>

StartFails(k) ==
  /\ k # "http_probe"
  /\ Becomes(k, "starting", "failed")
  /\ Fault
  /\ UNCHANGED probeVars

\* The child exits, or the server of hot_update returns its error.
Stops(k) ==
  /\ \/ k \in Binaries /\ Becomes(k, "running", "ended")
     \/ k # "http_probe" /\ Becomes(k, "running", "broke")
  /\ Fault
  /\ UNCHANGED probeVars

\* The delay of http_probe is over; without endpoints its Start returns.
StartProbes ==
  \/ endpoints # {} /\ Becomes("http_probe", "starting", "running")
     /\ Launch
  \/ endpoints = {} /\ Becomes("http_probe", "starting", "stopped")
     /\ UNCHANGED <<probeVars, faults>>

-----------------------------------------------------------------------------
(* A panic in a probing goroutine, a fatal error of the Go runtime, a kill *)
(* from outside; the kubelet.                                              *)

ProbePanics == (\E e \in endpoints : Panics(e)) /\ End("error") /\ UNCHANGED faults

CacheRace == MapRace /\ Fault /\ End("error")

Killed == Fault /\ End("error")

Restart ==
  /\ main = "exited"
  /\ config.restartPolicy = "Always" \/ exit = "error"
  /\ NewProcess
  /\ UNCHANGED <<probeVars, faults, config>>

Probing == \E e \in endpoints : Work(e) /\ UNCHANGED hostVars

Disturbance ==
  \/ \E e \in endpoints : (CallFails(e) \/ ReplyLost(e)) /\ UNCHANGED hostVars
  \/ \E e \in endpoints, a \in Answers : Change(e, a) /\ UNCHANGED hostVars
  \/ \E m \in wire : DeliverLate(m) /\ UNCHANGED hostVars

Next ==
  \/ MainStep \/ LoadFails
  \/ \E k \in Names : StartsUp(k) \/ StartFails(k) \/ Stops(k)
  \/ StartProbes
  \/ Probing
  \/ Expire /\ UNCHANGED hostVars
  \/ ProbePanics \/ CacheRace \/ Killed
  \/ Restart
  \/ Disturbance

Spec == Init /\ [][Next]_vars

\* Goroutines that can go on do, timers fire, a child that is started starts,
\* and the kubelet restarts the container.
FairSpec ==
  /\ Spec
  /\ WF_vars(MainStep)
  /\ \A k \in Names : WF_vars(StartsUp(k))
  /\ WF_vars(StartProbes)
  /\ \A e \in Endpoints : WF_vars(e \in endpoints /\ Work(e) /\ UNCHANGED hostVars)
  /\ WF_vars(Expire /\ UNCHANGED hostVars)
  /\ WF_vars(ProbePanics)
  /\ WF_vars(Restart)

-----------------------------------------------------------------------------
(* Properties.                                                             *)

(* When main waits for reports it has started every configured plugin      *)
(* (startAllPlugins skips those that are running already: none is).        *)
EveryPluginStarted ==
  main \in {"poll", "wait"} => \A k \in config.plugins : gor[k] # "none"

(* A container that has ended without an error, and so stays down under    *)
(* restartPolicy OnFailure, has a binary plugin that ended successfully    *)
(* (Start returns what it receives): no other plugin, and no panic, does   *)
(* that.                                                                   *)
CleanExitIsABinarys ==
  exit = "success" => \E k \in Binaries \cap plugins : gor[k] = "ended"

(* A report of a plugin ends the process (errorCh has no buffer, and main  *)
(* receives only after it has started and polled all plugins), unless a    *)
(* binary plugin is called "binary" and there is another: main then asks   *)
(* for its status while its Start holds the mutex and waits for main.      *)
CanDeadlock ==
  "binary" \in config.plugins /\ config.plugins \cap Binaries # {"binary"}
ReportEndsProcess ==
  \A k \in Names :
    gor[k] \in Reporting /\ ~CanDeadlock ~> main = "exited"

\* An endpoint's answer that makes a probing goroutine panic.
Deadly(e) ==
  \/ truth[e] = NonString
  \/ Setting(e).type = "HTTPMetric" /\ truth[e] \in Numbers

Marked(e) ==
  /\ Shows(pod, e, truth[e])
  /\ StoresInObject(e) /\ Applicable(object, PatchOf[conf[e]][truth[e]])
       => Shows(object, e, truth[e])

Storable(e) ==
  /\ "http_probe" \in config.plugins
  /\ Setting(e).type = "InKube" /\ Setting(e).target # "unresolved" /\ IsValid(e)

StaysDown == exit = "success" /\ config.restartPolicy = "OnFailure"

(* What an endpoint goes on answering comes to stand on the pod, and on    *)
(* the other object, under all the keys that its patch sets, and stays     *)
(* there: through failed calls, lost and late patches and restarts,        *)
(* because every round stores again.  Markers of earlier states may stay   *)
(* under other keys.  The exceptions are an endpoint whose answer kills    *)
(* the process, a plugin that cannot be initialised, main's deadlock, and  *)
(* a clean exit that is not restarted.                                     *)
AnswersComeToStand ==
  \A e \in Endpoints :
    <>[]( e \in endpoints /\ Storable(e) /\ Exclusive(e) /\ truth[e] \in Data
          => \/ Marked(e)
             \/ \E f \in endpoints : Deadly(f)
             \/ config.plugins \cap Refused # {}
             \/ CanDeadlock \/ StaysDown )

Failed(s) == \E i \in DOMAIN Config[s].policies : Config[s].policies[i].state = "Failed"

(* The comment of ProbeMarkerPolicy (store/config.go:54): if no policy is  *)
(* for the state "Failed" and the probe fails, the keys of the markers     *)
(* are deleted; here from some time on, if it goes on failing.  Probe      *)
(* returns before it stores anything, and no code deletes a key.           *)
MarkersDeletedOnFailure ==
  \A e \in Endpoints :
    <>[]( e \in endpoints /\ truth[e] = Bad /\ Exclusive(e) /\ ~Failed(conf[e])
          => \A k \in KeysOf[conf[e]] : pod[k] = None )

=============================================================================
