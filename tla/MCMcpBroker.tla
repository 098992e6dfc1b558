----------------------------- MODULE MCMcpBroker -----------------------------
(* Model-checking instances of McpBroker.                                  *)
EXTENDS McpBroker, TLC

\* Brokers are interchangeable, and so are the process ids of daemons.
Symmetry == Permutations(Brokers) \cup Permutations(Daemons)
=============================================================================
