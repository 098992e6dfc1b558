---------------------------- MODULE MCGraphIndex ----------------------------
(* Model-checking instances of GraphIndex.                                 *)
EXTENDS GraphIndex, TLC

\* Files, contents and processes are interchangeable.
Symmetry == Permutations(Files) \cup Permutations(Contents) \cup Permutations(Procs)
=============================================================================
