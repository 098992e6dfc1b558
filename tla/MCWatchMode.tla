---------------------------- MODULE MCWatchMode ----------------------------
(* Instances of WatchMode for TLC. *)
EXTENDS WatchMode, TLC
Symmetry == Permutations(Paths) \cup Permutations(Contents)
=============================================================================
