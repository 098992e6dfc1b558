--------------------------- MODULE MCDurableTasks ---------------------------
(* Model-checking instances of DurableTasks.                               *)
EXTENDS DurableTasks, TLC

\* Task ids are interchangeable, and so are client requests.
Symmetry == Permutations(TaskIds) \cup Permutations(Clients)
=============================================================================
