------------------------- MODULE PodMutationProofs -------------------------
(* What InjectPod makes of a pod, for all pods and all SidecarConfigs. *)
EXTENDS PodMutation, SequenceTheorems, WellFoundedInduction, TLAPS

-----------------------------------------------------------------------------
(* Sequences.                                                              *)

(* The elements of a concatenation are those of its parts.                 *)
LEMMA ConcatElements ==
  ASSUME NEW S, NEW s \in Seq(S), NEW t \in Seq(S)
  PROVE  /\ s \o t \in Seq(S)
         /\ Len(s \o t) = Len(s) + Len(t)
         /\ DOMAIN s = 1..Len(s) /\ DOMAIN t = 1..Len(t)
         /\ DOMAIN (s \o t) = 1..(Len(s) + Len(t))
         /\ \A i \in DOMAIN s : i \in DOMAIN (s \o t) /\ (s \o t)[i] = s[i]
         /\ \A i \in DOMAIN t : Len(s) + i \in DOMAIN (s \o t) /\ (s \o t)[Len(s) + i] = t[i]
         /\ \A j \in DOMAIN (s \o t) : j \notin DOMAIN s => j - Len(s) \in DOMAIN t
<1> DEFINE u == s \o t
<1>1. /\ Len(s) \in Nat /\ Len(t) \in Nat
      /\ DOMAIN s = 1..Len(s) /\ DOMAIN t = 1..Len(t)
  BY LenProperties
<1>2. /\ u \in Seq(S) /\ Len(u) = Len(s) + Len(t)
      /\ \A i \in 1..(Len(s) + Len(t)) : u[i] = IF i <= Len(s) THEN s[i] ELSE t[i - Len(s)]
  BY ConcatProperties
<1>3. DOMAIN u = 1..(Len(s) + Len(t))
  BY <1>2, LenProperties
<1> HIDE DEF u
<1>4. \A i \in DOMAIN s : i \in DOMAIN u /\ u[i] = s[i]
  BY <1>1, <1>2, <1>3
<1>5. \A i \in DOMAIN t : Len(s) + i \in DOMAIN u /\ u[Len(s) + i] = t[i]
  <2> SUFFICES ASSUME NEW i \in 1..Len(t)
               PROVE  Len(s) + i \in DOMAIN u /\ u[Len(s) + i] = t[i]
    BY <1>1
  <2>1. Len(s) + i \in 1..(Len(s) + Len(t)) /\ ~(Len(s) + i <= Len(s)) /\ Len(s) + i - Len(s) = i
    BY <1>1
  <2> QED BY <1>2, <1>3, <2>1
<1>6. \A j \in DOMAIN u : j \notin DOMAIN s => j - Len(s) \in DOMAIN t
  BY <1>1, <1>3
<1> QED BY <1>1, <1>2, <1>3, <1>4, <1>5, <1>6 DEF u

(* A set of natural numbers that is not empty has a smallest one.          *)
LEMMA Smallest ==
  ASSUME NEW I \in SUBSET Nat, I # {}
  PROVE  \E m \in I : \A i \in I : m <= i
<1>1. PICK m \in I : \A i \in I : ~(<<i, m>> \in OpToRel(<, Nat))
  BY NatLessThanWellFounded, WFMin
<1>2. \A i \in I : ~(i < m)
  BY <1>1 DEF OpToRel
<1> QED BY <1>2

(* RemoveFirst takes away one occurrence of an element and nothing else.   *)
LEMMA RemoveFirstElements ==
  ASSUME NEW S, NEW s \in Seq(S), NEW e
  PROVE  /\ RemoveFirst(s, e) \in Seq(S)
         /\ Range(RemoveFirst(s, e)) \subseteq Range(s)
         /\ Range(s) \ {e} \subseteq Range(RemoveFirst(s, e))
<1>1. CASE ~\E i \in 1..Len(s) : s[i] = e
  BY <1>1 DEF RemoveFirst
<1>2. CASE \E i \in 1..Len(s) : s[i] = e
  <2> DEFINE I == {i \in 1..Len(s) : s[i] = e}
             m == Min(I)
             a == SubSeq(s, 1, m - 1)
             b == SubSeq(s, m + 1, Len(s))
  <2>1. PICK n \in I : \A i \in I : n <= i
    <3>1. I \in SUBSET Nat /\ I # {}
      BY <1>2, LenProperties
    <3> QED BY <3>1, Smallest
  <2>2. m \in I
    BY <2>1 DEF Min
  <2>3. RemoveFirst(s, e) = a \o b
    BY <1>2 DEF RemoveFirst, RemoveAt, SelectInSeq
  <2>4. m \in 1..Len(s) /\ s[m] = e /\ Len(s) \in Nat /\ DOMAIN s = 1..Len(s)
    BY <2>2, LenProperties
  <2> HIDE DEF m
  <2>5. /\ a \in Seq(S) /\ Len(a) = m - 1
        /\ \A i \in 1..(m - 1) : a[i] = s[i]
    <3>1. \A i \in 1..(m - 1) : s[i] \in S
      BY <2>4, ElementOfSeq
    <3>2. 1 \in Int /\ m - 1 \in Int
      BY <2>4
    <3>3. /\ a \in Seq(S)
          /\ Len(a) = IF 1 <= m - 1 THEN (m - 1) - 1 + 1 ELSE 0
          /\ \A i \in 1..((m - 1) - 1 + 1) : a[i] = s[1 + i - 1]
      BY <3>1, <3>2, SubSeqProperties
    <3>4. \A i \in 1..(m - 1) : i \in 1..((m - 1) - 1 + 1) /\ 1 + i - 1 = i
      BY <2>4
    <3> HIDE DEF a
    <3>5. \A i \in 1..(m - 1) : a[i] = s[i]
      BY <3>3, <3>4
    <3> QED BY <2>4, <3>3, <3>5
  <2> HIDE DEF a
  <2>6. /\ b \in Seq(S) /\ Len(b) = Len(s) - m
        /\ \A i \in 1..(Len(s) - m) : b[i] = s[m + i]
    <3>1. \A i \in (m + 1)..Len(s) : s[i] \in S
      BY <2>4, ElementOfSeq
    <3>2. m + 1 \in Int /\ Len(s) \in Int
      BY <2>4
    <3>3. /\ b \in Seq(S)
          /\ Len(b) = IF m + 1 <= Len(s) THEN Len(s) - (m + 1) + 1 ELSE 0
          /\ \A i \in 1..(Len(s) - (m + 1) + 1) : b[i] = s[(m + 1) + i - 1]
      BY <3>1, <3>2, SubSeqProperties
    <3>4. \A i \in 1..(Len(s) - m) :
            i \in 1..(Len(s) - (m + 1) + 1) /\ (m + 1) + i - 1 = m + i
      BY <2>4
    <3> HIDE DEF b
    <3>5. \A i \in 1..(Len(s) - m) : b[i] = s[m + i]
      BY <3>3, <3>4
    <3>6. Len(b) = Len(s) - m
      <4>1. m \in Nat /\ Len(s) \in Nat /\ m <= Len(s)
        BY <2>4
      <4>2. Len(b) = IF m + 1 <= Len(s) THEN Len(s) - (m + 1) + 1 ELSE 0
        BY <3>3
      <4> QED BY ONLY <4>1, <4>2
    <3> QED BY <3>3, <3>5, <3>6
  <2> HIDE DEF b
  <2>7. DOMAIN a = 1..(m - 1) /\ DOMAIN b = 1..(Len(s) - m)
    BY <2>5, <2>6, LenProperties
  <2>8. a \o b \in Seq(S) /\ Range(a \o b) = Range(a) \cup Range(b)
    BY <2>5, <2>6, ConcatProperties, RangeConcatenation
  <2>9. Range(a) \cup Range(b) \subseteq Range(s)
    <3>1. \A i \in DOMAIN a : a[i] = s[i] /\ i \in DOMAIN s
      BY <2>4, <2>5, <2>7
    <3>2. \A i \in DOMAIN b : b[i] = s[m + i] /\ m + i \in DOMAIN s
      BY <2>4, <2>6, <2>7
    <3> QED BY <3>1, <3>2 DEF Range
  <2>10. Range(s) \ {e} \subseteq Range(a) \cup Range(b)
    <3>1. SUFFICES ASSUME NEW i \in 1..Len(s), s[i] # e
                   PROVE  s[i] \in Range(a) \cup Range(b)
      BY <2>4 DEF Range
    <3>2. CASE i < m
      BY <2>4, <2>5, <2>7, <3>2 DEF Range
    <3>3. CASE i > m
      <4>1. i - m \in DOMAIN b /\ b[i - m] = s[i]
        BY <2>4, <2>6, <2>7, <3>3
      <4> QED BY <4>1 DEF Range
    <3> QED BY <2>4, <3>1, <3>2, <3>3
  <2> QED BY <2>3, <2>8, <2>9, <2>10
<1> QED BY <1>1, <1>2

-----------------------------------------------------------------------------
(* The injected pod, field by field.                                       *)

(* Pruning changes the mounts of the containers and nothing else.          *)
LEMMA PrunedType ==
  ASSUME NEW own \in Seq(Container)
  PROVE  /\ Pruned(own) \in Seq(Container)
         /\ DOMAIN Pruned(own) = DOMAIN own
         /\ Len(Pruned(own)) = Len(own)
         /\ \A i \in DOMAIN own :
              /\ Pruned(own)[i].name = own[i].name
              /\ Pruned(own)[i].mounts = RemoveFirst(own[i].mounts, TokenMountPath)
<1>1. Len(own) \in Nat /\ DOMAIN own = 1..Len(own)
  BY LenProperties
<1>2. \A i \in DOMAIN own : own[i] \in Container
  BY <1>1, ElementOfSeq
<1>3. \A i \in DOMAIN own :
        /\ Pruned(own)[i] \in Container
        /\ Pruned(own)[i].name = own[i].name
        /\ Pruned(own)[i].mounts = RemoveFirst(own[i].mounts, TokenMountPath)
  <2> SUFFICES ASSUME NEW i \in DOMAIN own
               PROVE  /\ Pruned(own)[i] \in Container
                      /\ Pruned(own)[i].name = own[i].name
                      /\ Pruned(own)[i].mounts
                           = RemoveFirst(own[i].mounts, TokenMountPath)
    OBVIOUS
  <2>1. RemoveFirst(own[i].mounts, TokenMountPath) \in Seq(Strings)
    BY <1>2, RemoveFirstElements DEF Container
  <2> QED BY <1>2, <2>1 DEF Pruned, Container
<1>4. Pruned(own) \in [1..Len(own) -> Container]
  BY <1>1, <1>3 DEF Pruned
<1>5. Pruned(own) \in Seq(Container)
  BY <1>1, <1>4, SeqDef
<1>6. DOMAIN Pruned(own) = DOMAIN own
  BY DEF Pruned
<1>7. Len(Pruned(own)) = Len(own)
  <2>1. Len(Pruned(own)) \in Nat /\ DOMAIN Pruned(own) = 1..Len(Pruned(own))
    BY <1>5, LenProperties
  <2> QED BY <1>1, <1>6, <2>1
<1> QED BY <1>3, <1>5, <1>6, <1>7

(* The kidecar's container is a container, its volume is named.            *)
LEMMA KidecarContainerType ==
  ASSUME NEW spec
  PROVE  /\ KidecarContainer(spec) \in Container
         /\ KidecarContainer(spec).name = Kidecar
         /\ KidecarConfigmapName \in Strings
<1>1. "/opt/kidecar" \in Strings /\ Kidecar \in Strings
      /\ "Always" \in Strings /\ None \in Strings /\ KidecarConfigmapName \in Strings
  BY StringsAssumption
<1>2. <<"/opt/kidecar">> \in Seq(Strings)
  BY <1>1
<1> QED BY <1>1, <1>2 DEF KidecarContainer, Container

(* The account and the mounts of its token are all that the first step     *)
(* changes.                                                                *)
LEMMA ServiceAccountFields ==
  ASSUME NEW pod \in Pod, NEW spec \in SidecarConfig
  PROVE  LET p == InjectServiceAccount(pod, spec) IN
         /\ p \in Pod
         /\ p.containers = Pruned(pod.containers)
         /\ p.namespace = pod.namespace /\ p.labels = pod.labels
         /\ p.annotations = pod.annotations
         /\ p.inits = pod.inits /\ p.volumes = pod.volumes
<1>1. pod.containers \in Seq(Container) /\ pod.sa \in Strings /\ spec.sa \in Strings
  BY DEF Pod, SidecarConfig
<1>2. Pruned(pod.containers) \in Seq(Container)
  BY <1>1, PrunedType
<1> DEFINE sa == IF spec.forceSa \/ (spec.sa # None /\ pod.sa \in {"default", None})
                   THEN spec.sa ELSE pod.sa
<1>3. InjectServiceAccount(pod, spec)
        = [pod EXCEPT !.sa = sa, !.containers = Pruned(pod.containers)]
  BY DEF InjectServiceAccount
<1>4. sa \in Strings
  BY <1>1
<1> HIDE DEF sa
<1> QED BY <1>2, <1>3, <1>4 DEF Pod

(* The kidecar's container comes after the pod's own.                      *)
LEMMA KidecarFields ==
  ASSUME NEW pod \in Pod, NEW spec \in SidecarConfig
  PROVE  LET p == AddKidecarContainer(pod, spec) IN
         /\ p \in Pod
         /\ p.containers = IF spec.native THEN pod.containers
                           ELSE pod.containers \o <<KidecarContainer(spec)>>
         /\ p.inits = IF spec.native THEN pod.inits \o <<KidecarContainer(spec)>>
                      ELSE pod.inits
         /\ p.volumes = pod.volumes \o <<KidecarConfigmapName>>
         /\ p.namespace = pod.namespace /\ p.labels = pod.labels
         /\ p.annotations = pod.annotations
<1>1. /\ pod.containers \in Seq(Container) /\ pod.inits \in Seq(Container)
      /\ pod.volumes \in Seq(Strings) /\ spec.native \in BOOLEAN
  BY DEF Pod, SidecarConfig
<1>2. KidecarContainer(spec) \in Container /\ KidecarConfigmapName \in Strings
  BY KidecarContainerType
<1>3. \A s \in Seq(Container) :
        /\ Append(s, KidecarContainer(spec)) \in Seq(Container)
        /\ Append(s, KidecarContainer(spec)) = s \o <<KidecarContainer(spec)>>
  BY <1>2, AppendProperties, AppendIsConcat
<1>4. /\ Append(pod.volumes, KidecarConfigmapName) \in Seq(Strings)
      /\ Append(pod.volumes, KidecarConfigmapName) = pod.volumes \o <<KidecarConfigmapName>>
  BY <1>1, <1>2, AppendProperties, AppendIsConcat
<1> QED BY <1>1, <1>3, <1>4 DEF AddKidecarContainer, Pod

(* The user's containers come before the pod's own.                        *)
LEMMA ContainersFields ==
  ASSUME NEW pod \in Pod, NEW spec \in SidecarConfig
  PROVE  LET p == AddContainers(pod, spec) IN
         /\ p \in Pod
         /\ p.containers = spec.containers \o pod.containers
         /\ p.inits = spec.inits \o pod.inits
         /\ p.volumes = pod.volumes
         /\ p.namespace = pod.namespace /\ p.labels = pod.labels
         /\ p.annotations = pod.annotations
<1>1. /\ pod.containers \in Seq(Container) /\ pod.inits \in Seq(Container)
      /\ spec.containers \in Seq(Container) /\ spec.inits \in Seq(Container)
  BY DEF Pod, SidecarConfig
<1>2. /\ spec.containers \o pod.containers \in Seq(Container)
      /\ spec.inits \o pod.inits \in Seq(Container)
  BY <1>1, ConcatProperties
<1> QED BY <1>2 DEF AddContainers, Pod

(* The steps that follow in both cases: the user's volumes come first, and *)
(* the pod is marked.                                                      *)
LEMMA MarkedFields ==
  ASSUME NEW pod \in Pod, NEW spec \in SidecarConfig
  PROVE  LET p == AddAnnotations(ShareProcessNamespace(
                     AddVolumeMounts(AddVolumes(pod, spec), spec), spec), spec) IN
         /\ p \in Pod
         /\ p.containers = pod.containers /\ p.inits = pod.inits
         /\ p.volumes = spec.volumes \o pod.volumes
         /\ p.namespace = pod.namespace /\ p.labels = pod.labels
         /\ AlreadyInjected(p)
<1> DEFINE q == ShareProcessNamespace(AddVolumeMounts(AddVolumes(pod, spec), spec), spec)
           p == AddAnnotations(q, spec)
<1>1. spec.volumes \o pod.volumes \in Seq(Strings)
  BY ConcatProperties DEF Pod, SidecarConfig
<1>2. /\ q \in Pod
      /\ q.containers = pod.containers /\ q.inits = pod.inits
      /\ q.volumes = spec.volumes \o pod.volumes
      /\ q.namespace = pod.namespace /\ q.labels = pod.labels
  BY <1>1 DEF ShareProcessNamespace, AddVolumeMounts, AddVolumes, Pod, SidecarConfig
<1> HIDE DEF q
<1>3. p.annotations \in Annotations
  <2>1. \A k \in Keys : spec.annotations[k] \in Strings /\ q.annotations[k] \in Strings
    BY <1>2 DEF Pod, SidecarConfig, Annotations
  <2>2. "true" \in Strings
    BY StringsAssumption
  <2>3. p.annotations = [k \in Keys |->
          CASE k = InjectAnnotationKey     -> "true"
            [] k # InjectAnnotationKey /\ spec.annotations[k] # None
                                           -> spec.annotations[k]
            [] OTHER                       -> q.annotations[k]]
    BY <1>2 DEF AddAnnotations, Pod
  <2>4. \A k \in Keys : p.annotations[k] \in Strings
    BY <2>1, <2>2, <2>3
  <2> QED BY <2>3, <2>4 DEF Annotations
<1>4. /\ p \in Pod
      /\ p.containers = q.containers /\ p.inits = q.inits /\ p.volumes = q.volumes
      /\ p.namespace = q.namespace /\ p.labels = q.labels
  BY <1>2, <1>3 DEF AddAnnotations, Pod
<1>5. AlreadyInjected(p)
  <2>1. InjectAnnotationKey \in Keys
    BY DEF Keys
  <2>2. p.annotations[InjectAnnotationKey] = "true"
    BY <1>2, <2>1 DEF AddAnnotations, Pod
  <2> QED BY <2>2 DEF AlreadyInjected, None
<1> QED BY <1>2, <1>4, <1>5 DEF q

(* All of InjectPod: the containers it adds, and the mark it leaves.       *)
LEMMA InjectedFields ==
  ASSUME NEW pod \in Pod, NEW spec \in SidecarConfig
  PROVE  LET p   == Injected(pod, spec)
             own == Pruned(pod.containers)
             kidecar == <<KidecarContainer(spec)>>
         IN
         /\ p \in Pod /\ AlreadyInjected(p)
         /\ p.namespace = pod.namespace /\ p.labels = pod.labels
         /\ spec.injectKidecar =>
              /\ p.containers = IF spec.native THEN own ELSE own \o kidecar
              /\ p.inits = IF spec.native THEN pod.inits \o kidecar ELSE pod.inits
              /\ p.volumes = spec.volumes \o (pod.volumes \o <<KidecarConfigmapName>>)
         /\ ~spec.injectKidecar =>
              /\ p.containers = spec.containers \o own
              /\ p.inits = spec.inits \o pod.inits
              /\ p.volumes = spec.volumes \o pod.volumes
<1> DEFINE p1 == InjectServiceAccount(pod, spec)
           p2 == IF spec.injectKidecar THEN AddKidecarContainer(p1, spec)
                                       ELSE AddContainers(p1, spec)
<1>1. /\ p1 \in Pod /\ p1.containers = Pruned(pod.containers)
      /\ p1.namespace = pod.namespace /\ p1.labels = pod.labels
      /\ p1.inits = pod.inits /\ p1.volumes = pod.volumes
  BY ServiceAccountFields
<1> HIDE DEF p1
<1>2. /\ p2 \in Pod
      /\ p2.namespace = p1.namespace /\ p2.labels = p1.labels
      /\ spec.injectKidecar =>
           /\ p2.containers = IF spec.native THEN p1.containers
                              ELSE p1.containers \o <<KidecarContainer(spec)>>
           /\ p2.inits = IF spec.native THEN p1.inits \o <<KidecarContainer(spec)>>
                         ELSE p1.inits
           /\ p2.volumes = p1.volumes \o <<KidecarConfigmapName>>
      /\ ~spec.injectKidecar =>
           /\ p2.containers = spec.containers \o p1.containers
           /\ p2.inits = spec.inits \o p1.inits
           /\ p2.volumes = p1.volumes
  BY <1>1, KidecarFields, ContainersFields
<1>3. Injected(pod, spec) = AddAnnotations(ShareProcessNamespace(
                     AddVolumeMounts(AddVolumes(p2, spec), spec), spec), spec)
  BY DEF Injected, p1
<1> HIDE DEF p2
<1>4. LET p == Injected(pod, spec) IN
      /\ p \in Pod
      /\ p.containers = p2.containers /\ p.inits = p2.inits
      /\ p.volumes = spec.volumes \o p2.volumes
      /\ p.namespace = p2.namespace /\ p.labels = p2.labels
      /\ AlreadyInjected(p)
  <2> DEFINE q == AddAnnotations(ShareProcessNamespace(
                     AddVolumeMounts(AddVolumes(p2, spec), spec), spec), spec)
  <2>1. /\ q \in Pod
        /\ q.containers = p2.containers /\ q.inits = p2.inits
        /\ q.volumes = spec.volumes \o p2.volumes
        /\ q.namespace = p2.namespace /\ q.labels = p2.labels
        /\ AlreadyInjected(q)
    BY <1>2, MarkedFields
  <2>2. Injected(pod, spec) = q
    BY <1>3
  <2> HIDE DEF q
  <2> QED BY <2>1, <2>2
<1> QED BY <1>1, <1>2, <1>4

-----------------------------------------------------------------------------
(* The containers of the injected pod.                                     *)

(* A sequence of containers keeps itself.                                  *)
LEMMA KeepsItself ==
  ASSUME NEW own \in Seq(Container)
  PROVE  Keeps(own, own)
<1>1. Len(own) \in Nat /\ DOMAIN own = 1..Len(own)
  BY LenProperties
<1>2. 0 \in 0..Len(own) - Len(own) /\ \A i \in DOMAIN own : 0 + i = i
  BY <1>1
<1> QED BY <1>2 DEF Keeps

(* Containers are kept by their pruned copies, whatever is put around them. *)
LEMMA KeepsPruned ==
  ASSUME NEW own \in Seq(Container),
         NEW a \in Seq(Container), NEW b \in Seq(Container)
  PROVE  Keeps(own, a \o (Pruned(own) \o b))
<1> DEFINE mid == Pruned(own) \o b
           all == a \o mid
<1>1. /\ Len(own) \in Nat /\ DOMAIN own = 1..Len(own)
      /\ Len(a) \in Nat /\ Len(b) \in Nat
  BY LenProperties
<1>2. /\ Pruned(own) \in Seq(Container)
      /\ DOMAIN Pruned(own) = DOMAIN own /\ Len(Pruned(own)) = Len(own)
      /\ \A i \in DOMAIN own :
           /\ Pruned(own)[i].name = own[i].name
           /\ Pruned(own)[i].mounts = RemoveFirst(own[i].mounts, TokenMountPath)
  BY PrunedType
<1>3. /\ mid \in Seq(Container) /\ Len(mid) = Len(own) + Len(b)
      /\ \A i \in DOMAIN own : i \in DOMAIN mid /\ mid[i] = Pruned(own)[i]
  <2> DEFINE q == Pruned(own)
  <2>1. q \in Seq(Container) /\ DOMAIN q = DOMAIN own /\ Len(q) = Len(own)
    BY <1>2
  <2> HIDE DEF q
  <2>2. q \o b \in Seq(Container) /\ Len(q \o b) = Len(q) + Len(b)
    BY <2>1, ConcatElements
  <2>3. \A i \in DOMAIN q : i \in DOMAIN (q \o b) /\ (q \o b)[i] = q[i]
    BY <2>1, ConcatElements
  <2> QED BY <2>1, <2>2, <2>3 DEF q
<1> HIDE DEF mid
<1>4. /\ Len(all) = Len(a) + Len(mid)
      /\ \A i \in DOMAIN mid : all[Len(a) + i] = mid[i]
  <2>1. mid \in Seq(Container)
    BY <1>3
  <2> QED BY <2>1, ConcatElements
<1> HIDE DEF all
<1>5. Len(a) \in 0..Len(all) - Len(own)
  BY <1>1, <1>3, <1>4
<1>6. ASSUME NEW i \in DOMAIN own
      PROVE  /\ all[Len(a) + i].name = own[i].name
             /\ Range(own[i].mounts) \ {TokenMountPath}
                  \subseteq Range(all[Len(a) + i].mounts)
             /\ Range(all[Len(a) + i].mounts) \subseteq Range(own[i].mounts)
  <2>1. all[Len(a) + i] = Pruned(own)[i]
    BY <1>3, <1>4
  <2>2. own[i] \in Container
    BY <1>1, ElementOfSeq
  <2>3. own[i].mounts \in Seq(Strings)
    BY <2>2 DEF Container
  <2> QED BY <1>2, <2>1, <2>3, RemoveFirstElements
<1>7. Keeps(own, all)
  BY <1>5, <1>6 DEF Keeps
<1> QED BY <1>7 DEF all, mid

(* Nobody's containers are lost by an injection.                           *)
LEMMA InjectedKeeps ==
  ASSUME NEW pod \in Pod, NEW spec \in SidecarConfig
  PROVE  Keeps(pod.containers, Injected(pod, spec).containers)
<1> DEFINE own == pod.containers
           all == Injected(pod, spec).containers
           kidecar == <<KidecarContainer(spec)>>
<1>1. /\ own \in Seq(Container) /\ spec.containers \in Seq(Container)
      /\ Pruned(own) \in Seq(Container)
      /\ kidecar \in Seq(Container) /\ <<>> \in Seq(Container)
  BY PrunedType, KidecarContainerType DEF Pod, SidecarConfig
<1>2. all = IF ~spec.injectKidecar THEN spec.containers \o Pruned(own)
            ELSE IF spec.native THEN Pruned(own) ELSE Pruned(own) \o kidecar
  BY InjectedFields
<1> HIDE DEF own, all, kidecar
<1>3. Pruned(own) \o kidecar \in Seq(Container)
  BY <1>1, ConcatProperties
<1>4. /\ <<>> \o (Pruned(own) \o kidecar) = Pruned(own) \o kidecar
      /\ <<>> \o (Pruned(own) \o <<>>) = Pruned(own)
      /\ spec.containers \o (Pruned(own) \o <<>>) = spec.containers \o Pruned(own)
  BY <1>1, <1>3, ConcatEmptySeq
<1>5. /\ Keeps(own, <<>> \o (Pruned(own) \o kidecar))
      /\ Keeps(own, <<>> \o (Pruned(own) \o <<>>))
      /\ Keeps(own, spec.containers \o (Pruned(own) \o <<>>))
  BY <1>1, KeepsPruned
<1>6. Keeps(own, all)
  BY <1>2, <1>4, <1>5
<1> QED BY <1>6 DEF own, all

-----------------------------------------------------------------------------
(* Names.                                                                  *)

(* The names of a sequence of containers are those at its indices.         *)
LEMMA NamesAt ==
  ASSUME NEW s \in Seq(Container)
  PROVE  Names(s) = {s[i].name : i \in DOMAIN s}
BY DEF Names, Range

(* The names of a concatenation, and when they differ.                     *)
LEMMA ConcatNames ==
  ASSUME NEW s \in Seq(Container), NEW t \in Seq(Container)
  PROVE  /\ s \o t \in Seq(Container)
         /\ Names(s \o t) = Names(s) \cup Names(t)
         /\ NamesDiffer(s \o t)
              <=> /\ NamesDiffer(s) /\ NamesDiffer(t)
                  /\ Names(s) \cap Names(t) = {}
<1> DEFINE u == s \o t
<1>1. Len(s) \in Nat /\ Len(t) \in Nat
  BY LenProperties
<1>2. /\ u \in Seq(Container)
      /\ DOMAIN s = 1..Len(s) /\ DOMAIN t = 1..Len(t)
      /\ DOMAIN u = 1..(Len(s) + Len(t))
      /\ \A i \in DOMAIN s : i \in DOMAIN u /\ u[i] = s[i]
      /\ \A i \in DOMAIN t : Len(s) + i \in DOMAIN u /\ u[Len(s) + i] = t[i]
      /\ \A j \in DOMAIN u : j \notin DOMAIN s => j - Len(s) \in DOMAIN t
  BY ConcatElements
<1> HIDE DEF u
<1>3. \A j \in DOMAIN u : j \notin DOMAIN s => u[j] = t[j - Len(s)]
  BY <1>1, <1>2
<1>4. Names(u) = Names(s) \cup Names(t)
  <2>1. Names(u) = {u[i].name : i \in DOMAIN u}
    BY <1>2, NamesAt
  <2>2. Names(s) = {s[i].name : i \in DOMAIN s} /\ Names(t) = {t[i].name : i \in DOMAIN t}
    BY NamesAt
  <2>3. Names(u) \subseteq Names(s) \cup Names(t)
    BY <1>2, <1>3, <2>1, <2>2
  <2>4. Names(s) \subseteq Names(u)
    BY <1>2, <2>1, <2>2
  <2>5. Names(t) \subseteq Names(u)
    BY <1>2, <2>1, <2>2
  <2> QED BY <2>3, <2>4, <2>5
<1>5. ASSUME NamesDiffer(u)
      PROVE  NamesDiffer(s) /\ NamesDiffer(t) /\ Names(s) \cap Names(t) = {}
  <2>1. NamesDiffer(s)
    BY <1>2, <1>5 DEF NamesDiffer
  <2>2. NamesDiffer(t)
    <3> SUFFICES ASSUME NEW i \in DOMAIN t, NEW j \in DOMAIN t, t[i].name = t[j].name
                 PROVE  i = j
      BY DEF NamesDiffer
    <3>1. Len(s) + i = Len(s) + j
      BY <1>2, <1>5 DEF NamesDiffer
    <3> QED BY <1>1, <1>2, <3>1
  <2>3. \A i \in DOMAIN s, j \in DOMAIN t : s[i].name # t[j].name
    <3> SUFFICES ASSUME NEW i \in DOMAIN s, NEW j \in DOMAIN t, s[i].name = t[j].name
                 PROVE  FALSE
      OBVIOUS
    <3>1. i = Len(s) + j
      BY <1>2, <1>5 DEF NamesDiffer
    <3> QED BY <1>1, <1>2, <3>1
  <2> QED BY <2>1, <2>2, <2>3, NamesAt
<1>6. ASSUME NamesDiffer(s), NamesDiffer(t), Names(s) \cap Names(t) = {}
      PROVE  NamesDiffer(u)
  <2> SUFFICES ASSUME NEW i \in DOMAIN u, NEW j \in DOMAIN u, u[i].name = u[j].name
               PROVE  i = j
    BY DEF NamesDiffer
  <2>0. \A a \in DOMAIN s, b \in DOMAIN t : s[a].name # t[b].name
    BY <1>6, NamesAt
  <2>1. CASE i \in DOMAIN s /\ j \in DOMAIN s
    BY <1>2, <1>6, <2>1 DEF NamesDiffer
  <2>2. CASE i \notin DOMAIN s /\ j \notin DOMAIN s
    <3>1. i - Len(s) = j - Len(s)
      BY <1>2, <1>3, <1>6, <2>2 DEF NamesDiffer
    <3> QED BY <1>1, <1>2, <3>1
  <2>3. CASE i \in DOMAIN s /\ j \notin DOMAIN s
    BY <1>2, <1>3, <2>0, <2>3
  <2>4. CASE i \notin DOMAIN s /\ j \in DOMAIN s
    BY <1>2, <1>3, <2>0, <2>4
  <2> QED BY <2>1, <2>2, <2>3, <2>4
<1>7. NamesDiffer(u) <=> NamesDiffer(s) /\ NamesDiffer(t) /\ Names(s) \cap Names(t) = {}
  BY <1>5, <1>6
<1> QED BY <1>2, <1>4, <1>7 DEF u

(* Pruning changes no name.                                                *)
LEMMA PrunedNames ==
  ASSUME NEW own \in Seq(Container)
  PROVE  Names(Pruned(own)) = Names(own) /\ (NamesDiffer(Pruned(own)) <=> NamesDiffer(own))
<1>1. /\ Pruned(own) \in Seq(Container) /\ DOMAIN Pruned(own) = DOMAIN own
      /\ \A i \in DOMAIN own : Pruned(own)[i].name = own[i].name
  BY PrunedType
<1>2. /\ Names(Pruned(own)) = {Pruned(own)[i].name : i \in DOMAIN own}
      /\ Names(own) = {own[i].name : i \in DOMAIN own}
  BY <1>1, NamesAt
<1> QED BY <1>1, <1>2 DEF NamesDiffer

(* A single container.                                                     *)
LEMMA SingleNames ==
  ASSUME NEW c \in Container
  PROVE  <<c>> \in Seq(Container) /\ Names(<<c>>) = {c.name} /\ NamesDiffer(<<c>>)
<1>1. <<c>> \in Seq(Container) /\ DOMAIN <<c>> = {1} /\ <<c>>[1] = c
  BY LenProperties
<1> QED BY <1>1, NamesAt DEF NamesDiffer

(* The names in an injected pod are the pod's and those of what was added. *)
(* They differ if those of both did, and from each other.                  *)
LEMMA InjectedNames ==
  ASSUME NEW pod \in Pod, NEW spec \in SidecarConfig
  PROVE  LET old   == AllContainers(pod)
             new   == AllContainers(Injected(pod, spec))
             added == IF spec.injectKidecar THEN {Kidecar} ELSE Names(AllContainers(spec))
         IN  /\ Names(new) = Names(old) \cup added
             /\ /\ NamesDiffer(old) /\ Names(old) \cap added = {}
                /\ spec.injectKidecar \/ NamesDiffer(AllContainers(spec))
                => NamesDiffer(new)
<1> DEFINE own == pod.containers
           inits == pod.inits
           p == Injected(pod, spec)
           k == <<KidecarContainer(spec)>>
<1>1. /\ own \in Seq(Container) /\ inits \in Seq(Container)
      /\ spec.containers \in Seq(Container) /\ spec.inits \in Seq(Container)
      /\ Pruned(own) \in Seq(Container)
  BY PrunedType DEF Pod, SidecarConfig
<1>2. /\ Names(Pruned(own)) = Names(own)
      /\ NamesDiffer(Pruned(own)) <=> NamesDiffer(own)
  BY <1>1, PrunedNames
<1>3. k \in Seq(Container) /\ Names(k) = {Kidecar} /\ NamesDiffer(k)
  BY KidecarContainerType, SingleNames
<1>4. /\ spec.injectKidecar =>
           /\ p.containers = IF spec.native THEN Pruned(own) ELSE Pruned(own) \o k
           /\ p.inits = IF spec.native THEN inits \o k ELSE inits
      /\ ~spec.injectKidecar =>
           /\ p.containers = spec.containers \o Pruned(own)
           /\ p.inits = spec.inits \o inits
  BY InjectedFields
<1>5. /\ AllContainers(pod) = own \o inits
      /\ AllContainers(p) = p.containers \o p.inits
      /\ AllContainers(spec) = spec.containers \o spec.inits
  BY DEF AllContainers
<1> HIDE DEF own, inits, p, k
<1>6. /\ Names(AllContainers(pod)) = Names(own) \cup Names(inits)
      /\ NamesDiffer(AllContainers(pod))
           <=> NamesDiffer(own) /\ NamesDiffer(inits) /\ Names(own) \cap Names(inits) = {}
  BY <1>1, <1>5, ConcatNames
<1>7. CASE spec.injectKidecar /\ spec.native
  <2>1. /\ inits \o k \in Seq(Container)
        /\ Names(inits \o k) = Names(inits) \cup {Kidecar}
        /\ NamesDiffer(inits \o k) <=> NamesDiffer(inits) /\ Kidecar \notin Names(inits)
    BY <1>1, <1>3, ConcatNames
  <2> DEFINE q == Pruned(own)
             i == inits \o k
  <2>3. /\ q \in Seq(Container) /\ i \in Seq(Container)
        /\ AllContainers(p) = q \o i
    BY <1>1, <1>4, <1>5, <1>7, <2>1
  <2> HIDE DEF q, i
  <2>4. /\ Names(q \o i) = Names(q) \cup Names(i)
        /\ NamesDiffer(q \o i) <=> NamesDiffer(q) /\ NamesDiffer(i) /\ Names(q) \cap Names(i) = {}
    BY <2>3, ConcatNames
  <2>2. /\ Names(AllContainers(p)) = Names(own) \cup (Names(inits) \cup {Kidecar})
        /\ NamesDiffer(AllContainers(p))
             <=> /\ NamesDiffer(own) /\ NamesDiffer(inits) /\ Kidecar \notin Names(inits)
                 /\ Names(own) \cap (Names(inits) \cup {Kidecar}) = {}
    BY <1>2, <2>1, <2>3, <2>4 DEF q, i
  <2> QED BY <1>6, <1>7, <2>2 DEF p
<1>8. CASE spec.injectKidecar /\ ~spec.native
  <2>1. /\ Pruned(own) \o k \in Seq(Container)
        /\ Names(Pruned(own) \o k) = Names(own) \cup {Kidecar}
        /\ NamesDiffer(Pruned(own) \o k) <=> NamesDiffer(own) /\ Kidecar \notin Names(own)
    BY <1>1, <1>2, <1>3, ConcatNames
  <2> DEFINE q == Pruned(own) \o k
  <2>3. q \in Seq(Container) /\ AllContainers(p) = q \o inits
    BY <1>4, <1>5, <1>8, <2>1
  <2> HIDE DEF q
  <2>4. /\ Names(q \o inits) = Names(q) \cup Names(inits)
        /\ NamesDiffer(q \o inits)
             <=> NamesDiffer(q) /\ NamesDiffer(inits) /\ Names(q) \cap Names(inits) = {}
    BY <1>1, <2>3, ConcatNames
  <2>2. /\ Names(AllContainers(p)) = (Names(own) \cup {Kidecar}) \cup Names(inits)
        /\ NamesDiffer(AllContainers(p))
             <=> /\ NamesDiffer(own) /\ NamesDiffer(inits) /\ Kidecar \notin Names(own)
                 /\ (Names(own) \cup {Kidecar}) \cap Names(inits) = {}
    BY <2>1, <2>3, <2>4 DEF q
  <2> QED BY <1>6, <1>8, <2>2 DEF p
<1>9. CASE ~spec.injectKidecar
  <2> DEFINE c == spec.containers
             i == spec.inits
  <2>1. /\ c \o Pruned(own) \in Seq(Container)
        /\ Names(c \o Pruned(own)) = Names(c) \cup Names(own)
        /\ NamesDiffer(c \o Pruned(own))
             <=> NamesDiffer(c) /\ NamesDiffer(own) /\ Names(c) \cap Names(own) = {}
    BY <1>1, <1>2, ConcatNames
  <2>2. /\ i \o inits \in Seq(Container)
        /\ Names(i \o inits) = Names(i) \cup Names(inits)
        /\ NamesDiffer(i \o inits)
             <=> NamesDiffer(i) /\ NamesDiffer(inits) /\ Names(i) \cap Names(inits) = {}
    BY <1>1, ConcatNames
  <2>3. /\ Names(AllContainers(spec)) = Names(c) \cup Names(i)
        /\ NamesDiffer(AllContainers(spec))
             <=> NamesDiffer(c) /\ NamesDiffer(i) /\ Names(c) \cap Names(i) = {}
    BY <1>1, <1>5, ConcatNames
  <2>4. AllContainers(p) = (c \o Pruned(own)) \o (i \o inits)
    BY <1>4, <1>5, <1>9
  <2> DEFINE q == c \o Pruned(own)
             r == i \o inits
  <2>6. q \in Seq(Container) /\ r \in Seq(Container) /\ AllContainers(p) = q \o r
    BY <2>1, <2>2, <2>4
  <2> HIDE DEF c, i, q, r
  <2>7. /\ Names(q \o r) = Names(q) \cup Names(r)
        /\ NamesDiffer(q \o r) <=> NamesDiffer(q) /\ NamesDiffer(r) /\ Names(q) \cap Names(r) = {}
    BY <2>6, ConcatNames
  <2>5. /\ Names(AllContainers(p)) = (Names(c) \cup Names(own)) \cup (Names(i) \cup Names(inits))
        /\ NamesDiffer(AllContainers(p))
             <=> /\ NamesDiffer(c) /\ NamesDiffer(own) /\ Names(c) \cap Names(own) = {}
                 /\ NamesDiffer(i) /\ NamesDiffer(inits) /\ Names(i) \cap Names(inits) = {}
                 /\ (Names(c) \cup Names(own)) \cap (Names(i) \cup Names(inits)) = {}
    BY <2>1, <2>2, <2>6, <2>7 DEF q, r
  <2> QED BY <1>6, <1>9, <2>3, <2>5 DEF p
<1> QED BY <1>7, <1>8, <1>9

(* The kidecar's volume comes with its container, and is never taken away. *)
LEMMA InjectedVolumes ==
  ASSUME NEW pod \in Pod, NEW spec \in SidecarConfig
  PROVE  LET p == Injected(pod, spec) IN
         /\ spec.injectKidecar => KidecarConfigmapName \in Range(p.volumes)
         /\ Range(pod.volumes) \subseteq Range(p.volumes)
<1> DEFINE p == Injected(pod, spec)
           v == <<KidecarConfigmapName>>
<1>1. /\ pod.volumes \in Seq(Strings) /\ spec.volumes \in Seq(Strings)
      /\ v \in Seq(Strings)
  BY KidecarContainerType DEF Pod, SidecarConfig
<1>2. KidecarConfigmapName \in Range(v)
  BY DEF Range
<1>3. p.volumes = spec.volumes \o IF spec.injectKidecar THEN pod.volumes \o v
                                  ELSE pod.volumes
  BY InjectedFields
<1> HIDE DEF p, v
<1>4. /\ pod.volumes \o v \in Seq(Strings)
      /\ Range(pod.volumes \o v) = Range(pod.volumes) \cup Range(v)
  BY <1>1, ConcatProperties, RangeConcatenation
<1>5. \A s \in Seq(Strings) : Range(spec.volumes \o s) = Range(spec.volumes) \cup Range(s)
  BY <1>1, RangeConcatenation
<1>6. Range(p.volumes) = Range(spec.volumes) \cup
        IF spec.injectKidecar THEN Range(pod.volumes) \cup Range(v) ELSE Range(pod.volumes)
  BY <1>1, <1>3, <1>4, <1>5
<1> QED BY <1>2, <1>6 DEF p

=============================================================================
