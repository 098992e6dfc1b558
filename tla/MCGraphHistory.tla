--------------------------- MODULE MCGraphHistory ---------------------------
(* Instances of GraphHistory for TLC: two repositories of three commits, one   *)
(* linear and one forked, with a copy, a rename, a deletion, a move out of an  *)
(* unsupported path and an opaque blob between their trees.                    *)
EXTENDS GraphHistory, TLC
CONSTANTS a, b, t, h1, h2, bin

MCPaths == {a, b, t}
MCSupported == {a, b}
MCBlobs == {h1, h2, bin}
MCOpaque == {bin}

Files(x, y, z) == a :> x @@ b :> y @@ t :> z

Linear == [parent |-> <<0, 1, 2>>,
           tree |-> <<Files(h1, bin, h2), Files(h1, h1, NoBlob), Files(NoBlob, h1, NoBlob)>>]
Forked == [parent |-> <<0, 1, 1>>,
           tree |-> <<Files(h1, h2, NoBlob), Files(h2, NoBlob, h1), Files(bin, h2, NoBlob)>>]
MCHistories == {Linear, Forked}
MCSelections == {<<1, 2>>, <<3>>}

Symmetry == Permutations(Procs)
=============================================================================
