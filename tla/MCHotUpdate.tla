---------------------------- MODULE MCHotUpdate ----------------------------
(* Small instances of HotUpdate for TLC. *)
EXTENDS HotUpdate

\* v1 < v2 in the order of semver.Compare.
MCRank == [v \in Versions |-> CASE v = "v1" -> 1 [] v = "v2" -> 2]

\* v1.0.0.0 passes isValidVersion and is not valid semver.
MCRankOdd == [v \in Versions |-> IF v = "v1" THEN 1 ELSE 0]

\* Both urls end in the same base name, as the urls of two releases do.
MCSameFile == [u \in Urls |-> "app.bin"]

\* The urls have names of their own.
MCOwnFile == [u \in Urls |-> u]

MCLoadPatchType == [p \in Pods |-> IF p = "pod1" THEN "signal" ELSE "request"]

MCSignal == [p \in Pods |-> "signal"]

=============================================================================
