----------------------------- MODULE RepForest -----------------------------
(***************************************************************************)
(* The disjoint-set structure of union_find.rs as its callers see it: the  *)
(* representative of each ordinal and the ranks, without parent pointers.  *)
(* UnionFind shows that find returns `rep' and that a call of union does   *)
(* what Unite does (UnionIsUnite); the merge pipeline is built on it.      *)
(***************************************************************************)
EXTENDS Integers

NewForest(Ordinals) ==
  [rep |-> [o \in Ordinals |-> o], rank |-> [o \in Ordinals |-> 0]]

\* The representative that survives a union of the classes of two of them:
\* the higher rank wins, the lower ordinal on a tie.
Winner(rank, r, s) ==
  IF rank[r] > rank[s] \/ (rank[r] = rank[s] /\ r < s) THEN r ELSE s

\* Mutant: only the absorbed representative learns of the new one.
UniteRootsOnly(f, a, b) ==
  LET r     == f.rep[a]
      s     == f.rep[b]
      top   == Winner(f.rank, r, s)
      child == IF top = r THEN s ELSE r
  IN IF r = s THEN f
     ELSE [rep  |-> [f.rep EXCEPT ![child] = top],
           rank |-> IF f.rank[r] = f.rank[s]
                    THEN [f.rank EXCEPT ![top] = f.rank[top] + 1]
                    ELSE f.rank]

Unite(f, a, b) ==
  LET r     == f.rep[a]
      s     == f.rep[b]
      top   == Winner(f.rank, r, s)
      child == IF top = r THEN s ELSE r
  IN IF r = s THEN f
     ELSE [rep  |-> [o \in DOMAIN f.rep |->
                       IF f.rep[o] = child THEN top ELSE f.rep[o]],
           rank |-> IF f.rank[r] = f.rank[s]
                    THEN [f.rank EXCEPT ![top] = f.rank[top] + 1]
                    ELSE f.rank]

ClassOf(f, r) == {o \in DOMAIN f.rep : f.rep[o] = r}
Representatives(f) == {f.rep[o] : o \in DOMAIN f.rep}

\* The representative of each ordinal is its own representative.
ForestOK(f, ordinals) ==
  /\ f.rep \in [ordinals -> ordinals]
  /\ f.rank \in [ordinals -> Nat]
  /\ \A o \in ordinals : f.rep[f.rep[o]] = f.rep[o]
=============================================================================
