---------------------------- MODULE ResultStore ----------------------------
(***************************************************************************)
(* What the sidecars of all pods rely on when they keep their hot-update   *)
(* history in one shared ConfigMap (kube-system/sidecar-result): a store   *)
(* with one entry per pod, each a map from versions to urls, in which a    *)
(* step sets one version of one pod and touches nothing else.              *)
(***************************************************************************)
CONSTANTS Owners,   \* the keys of the ConfigMap: one per pod
          Keys,     \* the versions an entry may hold
          Values    \* the urls a version may have

\* A Go map has no value under a missing key; the model writes "" for it.
Absent == ""

VARIABLE store

StoreType == store \in [Owners -> [Keys -> Values \cup {Absent}]]

Empty == [o \in Owners |-> [k \in Keys |-> Absent]]

Init == store = Empty

Put(o, k, v) == store' = [store EXCEPT ![o][k] = v]

Next == \E o \in Owners, k \in Keys, v \in Values : Put(o, k, v)

Spec == Init /\ [][Next]_store

-----------------------------------------------------------------------------
(* A version that has been recorded for a pod stays recorded.              *)
Keeps ==
  \A o \in Owners, k \in Keys : store[o][k] # Absent => store'[o][k] # Absent

NeverForgets == [][Keeps]_store

=============================================================================
