--------------------------- MODULE MCContentIndex ---------------------------
(* An instance of ContentIndex for TLC: two artifacts with the same id that    *)
(* differ from their second chunk on, one of them longer than MaxChunks and    *)
(* with a chunk twice, each whole or cut to the one chunk that is left of the  *)
(* run; and an artifact of one chunk.                                          *)
EXTENDS ContentIndex, TLC
CONSTANTS s1, s2, a, b

MCSources == {s1, s2}
MCTexts == s1 :> {<<a, b>>, <<a, a, b>>} @@ s2 :> {<<b>>}

Symmetry == Permutations(Procs) \cup Permutations(Sessions)
=============================================================================
