----------------------------- MODULE MCUnionFind -----------------------------
(* Values of the constants for model checking UnionFind.                     *)
EXTENDS UnionFind

MCPow2 == [k \in 0 .. RankMax |-> 2 ^ k]

\* Enough pairs, in no helpful order, to build a tree of rank 2 with paths
\* long enough to be halved, and to hang a lone element from either side.
LadderPairs == {<<1, 0>>, <<2, 3>>, <<3, 1>>, <<4, 2>>, <<0, 4>>}
=============================================================================
