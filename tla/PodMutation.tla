---------------------------- MODULE PodMutation ----------------------------
(***************************************************************************)
(* What pkg/injector/pod.go computes without touching shared state: which  *)
(* SidecarConfig matches a pod, and the pod that InjectPod makes of it.    *)
(* Of a container only its name, its mount paths and its restart policy    *)
(* are kept, of a volume its name; labels are key=value atoms, and a       *)
(* selector is the set of labels it requires.                              *)
(***************************************************************************)
EXTENDS Naturals, Sequences, SequencesExt

CONSTANTS
  Strings,         \* names, mount paths, and values of annotations
  Namespaces,
  Labels,          \* labels of pods and of namespaces
  NamespaceLabels, \* the labels of each namespace
  AnnotationKeys,  \* keys of annotations beside the one InjectPod sets
  Yamls            \* kidecar configurations, as buildConfigYaml renders them

InjectAnnotationKey == "sidecarconfig.kidecar.io/inject"
KidecarConfigmapName == "kidecar-config"
Kidecar == "kidecar"
TokenMountPath == "/var/run/secrets/kubernetes.io/serviceaccount"
None == ""       \* Go's zero string, and a key that is not in a map

ASSUME StringsAssumption ==
  {None, "true", "Always", Kidecar, KidecarConfigmapName, "/opt/kidecar"} \subseteq Strings
ASSUME NamespaceLabelsAssumption ==
  NamespaceLabels \in [Namespaces -> SUBSET Labels]
ASSUME AnnotationKeysAssumption == InjectAnnotationKey \notin AnnotationKeys
ASSUME YamlsAssumption == None \notin Yamls

Keys        == AnnotationKeys \cup {InjectAnnotationKey}
Annotations == [Keys -> Strings]

Container == [name : Strings, mounts : Seq(Strings), restartPolicy : Strings]

Pod == [namespace   : Namespaces,
        labels      : SUBSET Labels,
        annotations : Annotations,
        sa          : Strings,
        containers  : Seq(Container),
        inits       : Seq(Container),
        volumes     : Seq(Strings),
        share       : BOOLEAN]

\* A nil selector, one that LabelSelectorAsSelector rejects, or labels.
Selector == [kind : {"nil", "invalid", "labels"}, labels : SUBSET Labels]

\* The Spec and the annotations of a SidecarConfig.
SidecarConfig ==
  [selector          : Selector,
   namespaceSelector : Selector,
   namespace         : Namespaces \cup {None},
   annotations       : Annotations,
   sa                : Strings,
   forceSa           : BOOLEAN,
   injectKidecar     : BOOLEAN,
   native            : BOOLEAN,          \* UseKubeNativeSidecar
   containers        : Seq(Container),
   inits             : Seq(Container),
   volumes           : Seq(Strings),
   volumeMounts      : Seq(Strings),
   share             : BOOLEAN,
   kidecar           : Yamls]

-----------------------------------------------------------------------------
(* Matching.                                                               *)

\* MatchLabelSelector, with its error as a third answer.
MatchLabelSelector(s, labels) ==
  CASE s.kind = "nil"     -> "yes"
    [] s.kind = "invalid" -> "error"
    [] s.kind = "labels"  -> IF s.labels \subseteq labels THEN "yes" ELSE "no"

\* Injection.Namespace is not looked at.
Match(pod, spec) ==
  LET n == MatchLabelSelector(spec.namespaceSelector, NamespaceLabels[pod.namespace])
  IN IF n = "yes" THEN MatchLabelSelector(spec.selector, pod.labels) ELSE n

-----------------------------------------------------------------------------
(* The changes InjectPod makes to the pod, in their order.                 *)

\* Existing mounts of the token of the old account are pruned, the first of
\* each container.
Pruned(own) ==
  [i \in DOMAIN own |-> [own[i] EXCEPT !.mounts = RemoveFirst(@, TokenMountPath)]]

\* Init containers keep their mounts.
InjectServiceAccount(pod, spec) ==
  [pod EXCEPT
     !.sa = IF spec.forceSa \/ (spec.sa # None /\ @ \in {"default", None})
              THEN spec.sa ELSE @,
     !.containers = Pruned(@)]

KidecarContainer(spec) ==
  [name |-> Kidecar, mounts |-> <<"/opt/kidecar">>,
   restartPolicy |-> IF spec.native THEN "Always" ELSE None]

AddKidecarContainer(pod, spec) ==
  [pod EXCEPT
     !.inits = IF spec.native THEN Append(@, KidecarContainer(spec)) ELSE @,
     !.containers = IF spec.native THEN @ ELSE Append(@, KidecarContainer(spec)),
     !.volumes = Append(@, KidecarConfigmapName)]

\* Mutant: the user's containers take the place of the pod's.
ReplaceContainers(pod, spec) ==
  [pod EXCEPT !.containers = spec.containers, !.inits = spec.inits \o @]

\* addContainers and addInitContainers.
AddContainers(pod, spec) ==
  [pod EXCEPT !.containers = spec.containers \o @, !.inits = spec.inits \o @]

AddVolumes(pod, spec) == [pod EXCEPT !.volumes = spec.volumes \o @]

\* The loops append to copies of the containers: no container changes.
AddVolumeMounts(pod, spec) == pod

ShareProcessNamespace(pod, spec) == [pod EXCEPT !.share = @ \/ spec.share]

\* Mutant: the pod is not marked.
AddAnnotationsUnmarked(pod, spec) ==
  [pod EXCEPT !.annotations =
     [k \in Keys |-> IF spec.annotations[k] # None THEN spec.annotations[k] ELSE @[k]]]

\* The annotations of the SidecarConfig win over the pod's own.
AddAnnotations(pod, spec) ==
  [pod EXCEPT !.annotations =
     [k \in Keys |-> CASE k = InjectAnnotationKey     -> "true"
                       [] k # InjectAnnotationKey /\ spec.annotations[k] # None
                                                      -> spec.annotations[k]
                       [] OTHER                       -> @[k]]]

Injected(pod, spec) ==
  LET p1 == InjectServiceAccount(pod, spec)
      p2 == IF spec.injectKidecar THEN AddKidecarContainer(p1, spec)
                                  ELSE AddContainers(p1, spec)
      p3 == AddVolumeMounts(AddVolumes(p2, spec), spec)
  IN AddAnnotations(ShareProcessNamespace(p3, spec), spec)

AlreadyInjected(pod) == pod.annotations[InjectAnnotationKey] # None

-----------------------------------------------------------------------------
(* What the properties say of containers.                                  *)

AllContainers(x)  == x.containers \o x.inits
Names(containers) == {c.name : c \in Range(containers)}

NamesDiffer(containers) ==
  \A i, j \in DOMAIN containers : containers[i].name = containers[j].name => i = j

\* The pod's own containers are among all of them, together and in their
\* order, and have lost no mount but that of the account's token.
Keeps(own, all) ==
  \E d \in 0..Len(all) - Len(own) : \A i \in DOMAIN own :
    /\ all[d + i].name = own[i].name
    /\ Range(own[i].mounts) \ {TokenMountPath} \subseteq Range(all[d + i].mounts)
    /\ Range(all[d + i].mounts) \subseteq Range(own[i].mounts)

=============================================================================
