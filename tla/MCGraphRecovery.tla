-------------------------- MODULE MCGraphRecovery --------------------------
(* Model-checking instance of GraphRecovery.                               *)
EXTENDS GraphRecovery, TLC

\* Files and processes are interchangeable.
Symmetry == Permutations(Files) \cup Permutations(Procs)
=============================================================================
