----------------------------- MODULE MCInjector -----------------------------
(* Small instances of Injector for TLC. *)
EXTENDS Injector

NoAnnotations == [k \in Keys |-> None]

MCStrings == STRING

MCNamespaceLabels == [n \in Namespaces |-> IF n = "ns1" THEN {"team=a"} ELSE {}]

Nil       == [kind |-> "nil", labels |-> {}]
Invalid   == [kind |-> "invalid", labels |-> {}]
Having(l) == [kind |-> "labels", labels |-> {l}]

App(mounts) == [name |-> "app", mounts |-> mounts, restartPolicy |-> None]
Helper      == [name |-> "helper", mounts |-> <<"/data">>, restartPolicy |-> None]
Setup       == [name |-> "setup", mounts |-> <<>>, restartPolicy |-> None]

PodIn(n, labels) ==
  [namespace |-> n, labels |-> labels, annotations |-> NoAnnotations,
   sa |-> "default", containers |-> <<App(<<"/data", TokenMountPath>>)>>,
   inits |-> <<>>, volumes |-> <<>>, share |-> FALSE]

\* A SidecarConfig that injects the kidecar into every pod with label app=x.
KidecarSpec(yaml) ==
  [selector |-> Having("app=x"), namespaceSelector |-> Nil, namespace |-> None,
   annotations |-> NoAnnotations, sa |-> None, forceSa |-> FALSE,
   injectKidecar |-> TRUE, native |-> FALSE, containers |-> <<>>,
   inits |-> <<>>, volumes |-> <<>>, volumeMounts |-> <<>>, share |-> FALSE,
   kidecar |-> yaml]

\* One that injects containers of the user's own into the pods of team a.
UserSpec ==
  [KidecarSpec("y1") EXCEPT
     !.selector = Nil, !.namespaceSelector = Having("team=a"), !.sa = "helper",
     !.annotations = [NoAnnotations EXCEPT !["note"] = "helped"],
     !.injectKidecar = FALSE, !.containers = <<Helper>>, !.inits = <<Setup>>,
     !.volumes = <<"data">>, !.volumeMounts = <<"/data">>, !.share = TRUE]

NativeSpec  == [KidecarSpec("y1") EXCEPT !.native = TRUE, !.forceSa = TRUE]
InvalidSpec == [KidecarSpec("y1") EXCEPT !.selector = Invalid]

\* Runs with one SidecarConfig of the user's own containers and its edits.
OtherSpec == [UserSpec EXCEPT !.selector = Having("team=a")]
OneSpec   == [UserSpec EXCEPT !.selector = Having("app=x"), !.namespace = "ns1"]
MCEditedSpecs == {OneSpec, OtherSpec}
MCEdited == [c \in Configs |-> OneSpec]
MCOnePod == {PodIn("ns1", {"app=x"})}

\* Runs with pods and SidecarConfigs of all kinds.
MCMixedSpecs == {KidecarSpec("y2"), UserSpec, NativeSpec, InvalidSpec}
MCMixed == [c \in Configs |-> IF c = "c1" THEN NativeSpec ELSE UserSpec]
MCMixedPods ==
  {PodIn("ns2", {"app=x"}), PodIn("ns2", {}),
   [PodIn("ns1", {"app=x"}) EXCEPT
      !.containers = <<App(<<TokenMountPath>>), [Helper EXCEPT !.name = "web"]>>,
      !.inits = <<[Setup EXCEPT !.name = "prepare"]>>, !.sa = "web"]}

\* Runs with one SidecarConfig for the namespaces of team a, and pods elsewhere.
WideSpec    == [UserSpec EXCEPT !.selector = Having("app=x")]
MCWideSpecs == {WideSpec}
MCWide      == [c \in Configs |-> WideSpec]
MCWidePods  == {PodIn(n, {"app=x"}) : n \in Namespaces}

\* What the theorems about names ask of pods and SidecarConfigs holds here.
ASSUME NamesApart

=============================================================================
