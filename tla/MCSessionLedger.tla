--------------------------- MODULE MCSessionLedger ---------------------------
(* Instances of SessionLedger for TLC. *)
EXTENDS SessionLedger, TLC

\* A decision and two results of one source.
MCHookEvents ==
  {[kind |-> "DECISION", key |-> "d", pri |-> 2, n |-> 1],
   [kind |-> "REASONING_RESULT", key |-> "s", pri |-> 2, n |-> 1],
   [kind |-> "REASONING_RESULT", key |-> "s", pri |-> 3, n |-> 2]}

\* A bridge file with a decision that has no summary and another account of the
\* hooks' decision.
MCFileEvents ==
  [f \in Files |-> <<[kind |-> "DECISION", key |-> "", pri |-> 1, n |-> 2],
                     [kind |-> "DECISION", key |-> "d", pri |-> 2, n |-> 2]>>]

Symmetry == Permutations(Procs)
=============================================================================
