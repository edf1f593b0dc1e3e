------------------------------ MODULE Marking ------------------------------
(* What storing in Kubernetes objects promises: the pod is marked with one *)
(* whole patch at a time, and the other object with nothing but patches    *)
(* that the pod has been marked with, and only if it has all their keys.   *)
CONSTANTS Keys, Absent, Patches
VARIABLES pod, object,
          sent  \* patches that the pod has been marked with

Apply(obj, p) == [k \in Keys |-> IF k \in DOMAIN p THEN p[k] ELSE obj[k]]

Init == pod = [k \in Keys |-> Absent] /\ sent = {}

Mark(p) ==
  /\ pod' = Apply(pod, p)
  /\ sent' = sent \cup {p}
  /\ UNCHANGED object

Follow(p) ==
  /\ p \in sent
  /\ \A k \in DOMAIN p : object[k] # Absent
  /\ object' = Apply(object, p)
  /\ UNCHANGED <<pod, sent>>

Next == \E p \in Patches : Mark(p) \/ Follow(p)

Spec == Init /\ [][Next]_<<pod, object, sent>>

=============================================================================
