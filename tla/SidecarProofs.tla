--------------------------- MODULE SidecarProofs ---------------------------
(* Theorems about Sidecar, for all plugins, endpoints and configurations.  *)
(* That the process implements the plugin's specification carries the      *)
(* theorems of ProbeProofs over to it.                                     *)
EXTENDS Sidecar, ProbeProofs

-----------------------------------------------------------------------------
(* The process implements the plugin.                                      *)

(* A process starts with the plugin's initial state.                       *)
LEMMA ImplementsInit == Init => ProbeInit
BY DEF Init

(* However a process ends, it is ProcessEnds for the plugin; everything    *)
(* else is a step of the plugin or none of its concern.                    *)
LEMMA ImplementsNext == [Next]_vars => [ProbeNext]_probeVars
<1> SUFFICES ASSUME [Next]_vars PROVE ProbeNext \/ UNCHANGED probeVars
  OBVIOUS
<1>1. CASE MainStep
  BY <1>1 DEF MainStep, LoadConfig, InitPlugins, InitFails, StartPlugin, PollPlugin,
              Receive, End, ProbeNext
<1>2. CASE LoadFails
  BY <1>2 DEF LoadFails, End, ProbeNext
<1>3. CASE \E k \in Names : StartsUp(k) \/ StartFails(k) \/ Stops(k)
  BY <1>3 DEF StartsUp, StartFails, Stops
<1>4. CASE StartProbes
  BY <1>4 DEF StartProbes, ProbeNext
<1>5. CASE Probing
  BY <1>5 DEF Probing, ProbeNext
<1>6. CASE Expire
  BY <1>6 DEF ProbeNext
<1>7. CASE ProbePanics \/ CacheRace \/ Killed
  BY <1>7 DEF ProbePanics, CacheRace, Killed, End, ProbeNext
<1>8. CASE Restart
  BY <1>8 DEF Restart
<1>9. CASE Disturbance
  BY <1>9 DEF Disturbance, ProbeNext
<1>10. CASE UNCHANGED vars
  BY <1>10 DEF vars
<1> QED BY <1>1, <1>2, <1>3, <1>4, <1>5, <1>6, <1>7, <1>8, <1>9, <1>10 DEF Next

(* Every behaviour of the process, with the failures of main, of other     *)
(* plugins and of the container, is one the plugin's specification allows. *)
THEOREM Implements == Spec => ProbeSpec
BY ImplementsInit, ImplementsNext, PTL DEF Spec, ProbeSpec

(* The pod shows all that one answered state sets, and under other keys    *)
(* what whole patches of other answered states have left, which the code   *)
(* never deletes (storeInCurrentPod).                                      *)
THEOREM MarksCorrect == Spec => []PodMarksAreWhole
<1>1. ProbeInv => PodMarksAreWhole
  BY DEF ProbeInv
<1> QED BY <1>1, Implements, ProbeInvariant, PTL

(* The other object shows only what the pod has shown (inKube.Store).      *)
THEOREM ObjectCorrect == Spec => []ObjectFollowsPod
<1>1. ProbeInv => ObjectFollowsPod
  BY DEF ProbeInv
<1> QED BY <1>1, Implements, ProbeInvariant, PTL

(* With all that can go wrong in the process, storing implements Marking   *)
(* (storeInCurrentPod, storeInOtherObject).                                *)
THEOREM MarkingCorrect == Spec => MarkingRefinement
BY Implements, StoringImplementsMarking, PTL

(* A pod in the cache has a timer (GetCurrentPod).                         *)
THEOREM CacheCorrect == Spec => []CachedPodExpires
<1>1. ProbeInv => CachedPodExpires
  BY DEF ProbeInv
<1> QED BY <1>1, Implements, ProbeInvariant, PTL

-----------------------------------------------------------------------------
(* main and the goroutines it starts.                                      *)

HostTyped ==
  /\ faults \in Nat
  /\ config \in [plugins : SUBSET (Names \cup Refused), restartPolicy : Policies]
  /\ main \in Mains /\ exit \in Exits
  /\ plugins \subseteq Names /\ todo \subseteq plugins
  /\ gor \in [Names -> Goroutines]

\* Which goroutines there are follows from where main is.
StartInv ==
  /\ main \in {"load", "init"} => gor = NoGoroutines
  /\ main \in {"start", "poll", "wait"} => plugins = config.plugins
  /\ main = "start" => \A k \in plugins \ todo : gor[k] # "none"
  /\ main \in {"poll", "wait"} => \A k \in plugins : gor[k] # "none"
  /\ \A k \in Names : gor[k] # "none" => k \in plugins
  /\ \A k \in Names : gor[k] = "ended" => k \in Binaries
  /\ Alive => exit = None

HostInv == HostTyped /\ StartInv /\ CleanExitIsABinarys

(* A sidecar starts without goroutines.                                    *)
LEMMA HostInit == Init => HostInv
<1> SUFFICES ASSUME Init PROVE HostInv
  OBVIOUS
<1>1. config \in [plugins : SUBSET (Names \cup Refused), restartPolicy : Policies]
  BY PluginsAssumption DEF Init
<1>2. HostTyped
  BY <1>1, PluginsAssumption DEF Init, HostTyped, Mains, Exits, Goroutines, NoGoroutines
<1>3. StartInv
  BY DEF Init, StartInv, NoGoroutines, Alive
<1>4. CleanExitIsABinarys
  BY DEF Init, CleanExitIsABinarys, None
<1> QED BY <1>2, <1>3, <1>4 DEF HostInv

(* The end of the process keeps the records of its goroutines.             *)
LEMMA EndKeepsHost ==
  ASSUME HostInv, faults' \in Nat, NEW code \in {"success", "error"}, End(code),
         code = "success" => \E k \in Binaries \cap plugins : gor[k] = "ended"
  PROVE  HostInv'
<1>1. /\ main' = "exited" /\ exit' = code
      /\ UNCHANGED <<config, plugins, todo, gor>>
  BY DEF End
<1>2. HostTyped'
  BY <1>1 DEF HostInv, HostTyped, Mains, Exits
<1>3. StartInv'
  BY <1>1 DEF HostInv, StartInv, Alive
<1>4. CleanExitIsABinarys'
  BY <1>1 DEF CleanExitIsABinarys
<1> QED BY <1>2, <1>3, <1>4 DEF HostInv

(* A goroutine changes its own state only.                                 *)
LEMMA BecomesKeepsHost ==
  ASSUME HostInv, faults' \in Nat, NEW k \in Names,
         NEW from \in Goroutines \ {"none"}, NEW to \in Goroutines \ {"none"},
         to = "ended" => k \in Binaries, Becomes(k, from, to)
  PROVE  HostInv'
<1>1. /\ Alive /\ gor[k] = from /\ gor' = [gor EXCEPT ![k] = to]
      /\ UNCHANGED <<config, main, exit, plugins, todo>>
  BY DEF Becomes
<1>2. HostTyped'
  BY <1>1 DEF HostInv, HostTyped
<1>3. main \notin {"load", "init"}
  BY <1>1 DEF HostInv, StartInv, NoGoroutines
<1>4. \A j \in Names : gor'[j] = "none" <=> gor[j] = "none"
  BY <1>1 DEF HostInv, HostTyped
<1>5. \A j \in Names : gor'[j] = "ended" => j \in Binaries
  BY <1>1 DEF HostInv, HostTyped, StartInv
<1>6. StartInv'
  BY <1>1, <1>3, <1>4, <1>5 DEF HostInv, HostTyped, StartInv, Alive
<1>7. CleanExitIsABinarys'
  BY <1>1 DEF HostInv, StartInv, CleanExitIsABinarys, None
<1> QED BY <1>2, <1>6, <1>7 DEF HostInv

(* main's loop over the plugins starts each of them.                       *)
LEMMA MainKeepsHost ==
  ASSUME HostInv, MainStep
  PROVE  HostInv'
<1>0. HostTyped /\ StartInv /\ exit \in Exits /\ faults \in Nat
  BY DEF HostInv, HostTyped
<1>1. CASE LoadConfig
  <2>1. /\ main = "load" /\ main' = "init"
        /\ UNCHANGED <<faults, config, exit, plugins, todo, gor>>
    BY <1>1 DEF LoadConfig
  <2> QED BY <1>0, <2>1 DEF HostInv, HostTyped, StartInv, CleanExitIsABinarys, Mains, Alive
<1>2. CASE InitPlugins
  <2>1. /\ main = "init" /\ main' \in {"start", "wait"}
        /\ main' = "wait" => plugins' = {}
        /\ plugins' = config.plugins /\ todo' = config.plugins
        /\ config.plugins \subseteq Names
        /\ UNCHANGED <<faults, config, exit, gor>>
    BY <1>0, <1>2 DEF InitPlugins, HostTyped
  <2>2. exit = None /\ \A k \in Names : gor[k] = "none"
    BY <1>0, <2>1 DEF StartInv, Alive, NoGoroutines
  <2>3. HostTyped'
    BY <1>0, <2>1 DEF HostTyped, Mains
  <2>4. StartInv'
    BY <1>0, <2>1, <2>2 DEF StartInv, Alive
  <2> QED BY <2>1, <2>2, <2>3, <2>4 DEF HostInv, CleanExitIsABinarys, None
<1>3. CASE InitFails
  BY <1>0, <1>3, EndKeepsHost DEF InitFails
<1>4. ASSUME NEW k \in Names, StartPlugin(k)
      PROVE  HostInv'
  <2>1. /\ main = "start" /\ k \in todo /\ exit = None
        /\ UNCHANGED <<faults, config, exit, plugins>>
    BY <1>0, <1>4 DEF StartPlugin, StartInv, Alive
  <2>2. \/ todo = {k} /\ main' = "poll" /\ todo' = plugins
        \/ main' = "start" /\ todo' = todo \ {k}
    BY <1>4 DEF StartPlugin, NextPlugin
  <2>3. gor' \in [Names -> Goroutines]
    BY <1>0, <1>4 DEF StartPlugin, HostTyped, Goroutines
  <2>4. gor'[k] \notin {"none", "ended"} /\ \A j \in Names \ {k} : gor'[j] = gor[j]
    <3>1. CASE IsPluginRunning(NameOf(k))
      <4>1. NameOf(k) = "http_probe" /\ gor["http_probe"] = "running"
        BY <3>1 DEF IsPluginRunning
      <4>2. k = "http_probe"
        BY <4>1 DEF NameOf
      <4> QED BY <1>4, <3>1, <4>1, <4>2 DEF StartPlugin
    <3>2. CASE ~IsPluginRunning(NameOf(k))
      BY <1>0, <1>4, <3>2 DEF StartPlugin, HostTyped
    <3> QED BY <3>1, <3>2
  <2>5. HostTyped'
    BY <1>0, <2>1, <2>2, <2>3 DEF HostTyped, Mains
  <2>6. StartInv'
    BY <1>0, <2>1, <2>2, <2>4 DEF StartInv, HostTyped, Alive
  <2> QED BY <2>1, <2>5, <2>6 DEF HostInv, CleanExitIsABinarys, None
<1>5. ASSUME NEW k \in Names, PollPlugin(k)
      PROVE  HostInv'
  <2>1. /\ main = "poll" /\ exit = None
        /\ UNCHANGED <<faults, config, exit, plugins, gor>>
    BY <1>0, <1>5 DEF PollPlugin, StartInv, Alive
  <2>2. main' \in {"poll", "wait"} /\ todo' \in {plugins, todo \ {k}}
    BY <1>5 DEF PollPlugin, NextPlugin
  <2>3. HostTyped'
    BY <1>0, <2>1, <2>2 DEF HostTyped, Mains
  <2>4. StartInv'
    BY <1>0, <2>1, <2>2 DEF StartInv, Alive
  <2> QED BY <2>1, <2>3, <2>4 DEF HostInv, CleanExitIsABinarys, None
<1>6. ASSUME NEW k \in Names, Receive(k)
      PROVE  HostInv'
  <2> DEFINE code == IF gor[k] = "ended" THEN "success" ELSE "error"
  <2>1. End(code) /\ faults' = faults /\ gor[k] # "none"
    BY <1>6 DEF Receive, Reporting
  <2>2. code = "success" => k \in Binaries \cap plugins /\ gor[k] = "ended"
    BY <1>0, <1>6 DEF StartInv
  <2>3. code \in {"success", "error"}
    OBVIOUS
  <2> HIDE DEF code
  <2> QED BY <1>0, <2>1, <2>2, <2>3, EndKeepsHost
<1> QED BY <1>1, <1>2, <1>3, <1>4, <1>5, <1>6 DEF MainStep

(* Every step keeps the invariant of the process.                          *)
LEMMA HostNext == HostInv /\ [Next]_vars => HostInv'
<1> SUFFICES ASSUME HostInv, [Next]_vars PROVE HostInv'
  OBVIOUS
<1>0. faults \in Nat
  BY DEF HostInv, HostTyped
<1>1. CASE MainStep
  BY <1>1, MainKeepsHost
<1>2. CASE LoadFails \/ CacheRace \/ Killed
  <2>1. faults' \in Nat /\ End("error")
    BY <1>0, <1>2 DEF LoadFails, CacheRace, Killed, Fault
  <2> QED BY <2>1, EndKeepsHost
<1>3. CASE ProbePanics
  BY <1>0, <1>3, EndKeepsHost DEF ProbePanics
<1>4. ASSUME NEW k \in Names, StartsUp(k) \/ StartFails(k) \/ Stops(k)
      PROVE  HostInv'
  <2>1. faults' \in Nat
    BY <1>0, <1>4 DEF StartsUp, StartFails, Stops, Fault
  <2>2. CASE Becomes(k, "starting", "running")
    BY <2>1, <2>2, BecomesKeepsHost DEF Goroutines
  <2>3. CASE Becomes(k, "starting", "failed")
    BY <2>1, <2>3, BecomesKeepsHost DEF Goroutines
  <2>4. CASE k \in Binaries /\ Becomes(k, "running", "ended")
    BY <2>1, <2>4, BecomesKeepsHost DEF Goroutines
  <2>5. CASE Becomes(k, "running", "broke")
    BY <2>1, <2>5, BecomesKeepsHost DEF Goroutines
  <2> QED BY <1>4, <2>2, <2>3, <2>4, <2>5 DEF StartsUp, StartFails, Stops
<1>5. CASE StartProbes
  <2>1. faults' = faults /\ "http_probe" \in Names
    BY <1>5 DEF StartProbes, Launch, Names, BuiltIns
  <2>2. CASE Becomes("http_probe", "starting", "running")
    BY <1>0, <2>1, <2>2, BecomesKeepsHost DEF Goroutines
  <2>3. CASE Becomes("http_probe", "starting", "stopped")
    BY <1>0, <2>1, <2>3, BecomesKeepsHost DEF Goroutines
  <2> QED BY <1>5, <2>2, <2>3 DEF StartProbes
<1>6. CASE Restart
  <2>1. /\ main' = "load" /\ exit' = None /\ plugins' = {} /\ todo' = {}
        /\ gor' = NoGoroutines /\ UNCHANGED <<faults, config>>
    BY <1>6 DEF Restart, NewProcess
  <2>2. HostTyped'
    BY <2>1 DEF HostInv, HostTyped, Mains, Exits, Goroutines, NoGoroutines
  <2>3. StartInv'
    BY <2>1 DEF StartInv, Alive, NoGoroutines
  <2> QED BY <2>1, <2>2, <2>3 DEF HostInv, CleanExitIsABinarys, None
<1>7. ASSUME UNCHANGED hostVars, faults' \in Nat
      PROVE  HostInv'
  <2>1. UNCHANGED <<config, main, exit, plugins, todo, gor>>
    BY <1>7 DEF hostVars
  <2>2. HostTyped'
    BY <1>7, <2>1 DEF HostInv, HostTyped
  <2>3. StartInv' /\ CleanExitIsABinarys'
    BY <2>1 DEF HostInv, StartInv, CleanExitIsABinarys, Alive
  <2> QED BY <2>2, <2>3 DEF HostInv
<1>8. CASE Probing
  BY <1>0, <1>7, <1>8 DEF Probing, Work, Wake, Probe, ParseConfig, FetchPod, GetStorage,
     SetUpStorage, Store, PatchPod, PatchObject
<1>9. CASE Expire /\ UNCHANGED hostVars
  BY <1>0, <1>7, <1>9 DEF Expire
<1>10. CASE Disturbance
  BY <1>0, <1>7, <1>10 DEF Disturbance, CallFails, ReplyLost, Change, DeliverLate, Fault
<1>11. CASE UNCHANGED vars
  BY <1>0, <1>7, <1>11 DEF vars, hostVars
<1> QED BY <1>1, <1>2, <1>3, <1>4, <1>5, <1>6, <1>8, <1>9, <1>10, <1>11 DEF Next

(* The invariant of the process.                                           *)
THEOREM HostInvariant == Spec => []HostInv
BY HostInit, HostNext, PTL DEF Spec

(* Every variable has its type, and no round exceeds its attempts.         *)
THEOREM TypeCorrect == Spec => []TypeOK
<1>1. ProbeInv /\ HostInv => TypeOK
  BY InvTyped DEF HostInv, HostTyped, TypeOK
<1> QED BY <1>1, Implements, ProbeInvariant, HostInvariant, PTL

(* main waits for reports only after it has started every configured       *)
(* plugin (startAllPlugins).                                               *)
THEOREM AllStarted == Spec => []EveryPluginStarted
<1>1. HostInv => EveryPluginStarted
  BY DEF HostInv, StartInv, EveryPluginStarted
<1> QED BY <1>1, HostInvariant, PTL

(* Only a binary plugin that ended well ends the sidecar well (Start).     *)
THEOREM CleanExit == Spec => []CleanExitIsABinarys
<1>1. HostInv => CleanExitIsABinarys
  BY DEF HostInv
<1> QED BY <1>1, HostInvariant, PTL

=============================================================================
