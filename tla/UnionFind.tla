------------------------------ MODULE UnionFind ------------------------------
(***************************************************************************)
(* omts-core/src/union_find.rs, one step per loop iteration: path-halving  *)
(* find and union by rank.  `find' writes to the parent array while it     *)
(* climbs, and `union' keeps the first root in a local while the second    *)
(* find rewrites the array it came from.                                   *)
(*                                                                         *)
(* `root' and `joined' are history variables: no action's guard and no     *)
(* other variable's next value reads them.                                 *)
(***************************************************************************)
EXTENDS Integers, FiniteSets, RepForest

CONSTANTS
  N,         \* number of elements
  RankMax,   \* largest value of the rank type (255 for u8)
  Pow2,      \* powers of two up to RankMax
  UnionArgs  \* the pairs callers may pass to union

ASSUME NAssumption == N \in Nat \ {0}
ASSUME RankMaxAssumption == RankMax \in Nat
ASSUME Pow2Assumption ==
  /\ Pow2 \in [0 .. RankMax -> Nat]
  /\ Pow2[0] = 1
  /\ \A k \in 0 .. RankMax - 1 : Pow2[k + 1] = 2 * Pow2[k]
\* A usize counts fewer than 2^255 elements.
ASSUME CapacityAssumption == N < Pow2[RankMax]

Elem == 0 .. N - 1
NoAnswer == -1

ASSUME UnionArgsAssumption == UnionArgs \subseteq Elem \X Elem

VARIABLES
  parent,    \* parent pointers; a root points at itself
  rank,      \* upper bound on the height of the tree below
  call,      \* the call in progress with its arguments, or Idle
  pc,        \* which loop the call is in: "idle", "find", "findA", "findB"
  x,         \* the cursor of the running find
  ra,        \* union's local: root of the first argument
  answer,    \* what the latest completed find returned
  root,      \* history: the root above each element
  joined     \* history: the pairs united so far

vars == <<parent, rank, call, pc, x, ra, answer, root, joined>>

Idle            == [op |-> "none"]
FindCall(e)     == [op |-> "find", a |-> e, b |-> e]
UnionCall(a, b) == [op |-> "union", a |-> a, b |-> b]
Calls == {FindCall(e) : e \in Elem} \cup {UnionCall(a, b) : a, b \in Elem}

\* Mutant of Init: the pointers are built from 1 ..= n instead of 0 .. n.
InitFromOne ==
  /\ parent = [e \in Elem |-> e + 1]
  /\ rank = [e \in Elem |-> 0]
  /\ call = Idle
  /\ pc = "idle"
  /\ x = 0
  /\ ra = 0
  /\ answer = NoAnswer
  /\ root = [e \in Elem |-> e]
  /\ joined = {}

Init ==
  /\ parent = [e \in Elem |-> e]
  /\ rank = [e \in Elem |-> 0]
  /\ call = Idle
  /\ pc = "idle"
  /\ x = 0
  /\ ra = 0
  /\ answer = NoAnswer
  /\ root = [e \in Elem |-> e]
  /\ joined = {}

-----------------------------------------------------------------------------
(* The caller enters find(e) or union(a, b). *)
BeginFind(e) ==
  /\ pc = "idle"
  /\ call' = FindCall(e)
  /\ pc' = "find"
  /\ x' = e
  /\ UNCHANGED <<parent, rank, ra, answer, root, joined>>

BeginUnion(a, b) ==
  /\ pc = "idle"
  /\ call' = UnionCall(a, b)
  /\ pc' = "findA"
  /\ x' = a
  /\ UNCHANGED <<parent, rank, ra, answer, root, joined>>

\* Mutant of HalveStep: the cursor is not moved to the grandparent.
HalveStepInPlace ==
  /\ pc # "idle"
  /\ parent[x] # x
  /\ parent' = [parent EXCEPT ![x] = parent[parent[x]]]
  /\ UNCHANGED <<rank, call, pc, x, ra, answer, root, joined>>

(* One iteration of the while loop of find: x skips to its grandparent.    *)
HalveStep ==
  /\ pc # "idle"
  /\ parent[x] # x
  /\ LET grandparent == parent[parent[x]] IN
       /\ parent' = [parent EXCEPT ![x] = grandparent]
       /\ x' = grandparent
  /\ UNCHANGED <<rank, call, pc, ra, answer, root, joined>>

(* The call is over; its locals are dead and get their initial value.      *)
Returns ==
  /\ call' = Idle
  /\ pc' = "idle"
  /\ x' = 0
  /\ ra' = 0

\* Mutant of FindReturns: find answers before it has reached a root.
FindReturnsEarly ==
  /\ pc = "find"
  /\ answer' = x
  /\ Returns
  /\ UNCHANGED <<parent, rank, root, joined>>

FindReturns ==
  /\ pc = "find"
  /\ parent[x] = x
  /\ answer' = x
  /\ Returns
  /\ UNCHANGED <<parent, rank, root, joined>>

\* Mutant of FirstRoot: the first find stops before it has reached a root.
FirstRootEarly ==
  /\ pc = "findA"
  /\ ra' = x
  /\ pc' = "findB"
  /\ x' = call.b
  /\ UNCHANGED <<parent, rank, call, answer, root, joined>>

(* let ra = self.find(a); the second find starts at b.                     *)
FirstRoot ==
  /\ pc = "findA"
  /\ parent[x] = x
  /\ ra' = x
  /\ pc' = "findB"
  /\ x' = call.b
  /\ UNCHANGED <<parent, rank, call, answer, root, joined>>

\* Mutant of SecondRoot: the second find stops before it has reached a root.
SecondRootEarly == pc = "findB"

SecondRoot == pc = "findB" /\ parent[x] = x

SameSet ==
  /\ SecondRoot
  /\ ra = x
  /\ joined' = joined \cup {<<call.a, call.b>>}
  /\ Returns
  /\ UNCHANGED <<parent, rank, answer, root>>

\* The tree under `child' is hung below `top'.
Link(child, top) ==
  /\ parent' = [parent EXCEPT ![child] = top]
  /\ root' = [e \in Elem |-> IF root[e] = child THEN top ELSE root[e]]
  /\ joined' = joined \cup {<<call.a, call.b>>}
  /\ Returns
  /\ UNCHANGED answer

\* Mutant of LinkLess: the first root stays on top whatever the ranks.
LinkLessKeepsFirst ==
  /\ SecondRoot
  /\ ra # x
  /\ rank[ra] < rank[x]
  /\ Link(x, ra)
  /\ UNCHANGED rank

LinkLess ==
  /\ SecondRoot
  /\ ra # x
  /\ rank[ra] < rank[x]
  /\ Link(ra, x)
  /\ UNCHANGED rank

\* Mutant of LinkGreater: the rank grows on every link.
LinkGreaterGrows ==
  /\ SecondRoot
  /\ ra # x
  /\ rank[ra] > rank[x]
  /\ Link(x, ra)
  /\ rank' = [rank EXCEPT ![ra] = rank[ra] + 1]

LinkGreater ==
  /\ SecondRoot
  /\ ra # x
  /\ rank[ra] > rank[x]
  /\ Link(x, ra)
  /\ UNCHANGED rank

\* Mutant of LinkEqual: the new root keeps its rank.
LinkEqualSameRank ==
  /\ SecondRoot
  /\ ra # x
  /\ rank[ra] = rank[x]
  /\ IF ra < x THEN Link(x, ra) ELSE Link(ra, x)
  /\ UNCHANGED rank

LinkEqual ==
  /\ SecondRoot
  /\ ra # x
  /\ rank[ra] = rank[x]
  /\ LET top   == IF ra < x THEN ra ELSE x
         child == IF ra < x THEN x ELSE ra
     IN /\ Link(child, top)
        /\ rank' = [rank EXCEPT ![top] = (rank[top] + 1) % (RankMax + 1)]

Step == \/ HalveStep \/ FindReturns \/ FirstRoot \/ SameSet
        \/ LinkLess \/ LinkGreater \/ LinkEqual

Next == \/ \E e \in Elem : BeginFind(e)
        \/ \E p \in UnionArgs : BeginUnion(p[1], p[2])
        \/ Step

Spec == Init /\ [][Next]_vars
\* The functions run to completion on one thread once they are called.
FairSpec == Spec /\ WF_vars(Step)

-----------------------------------------------------------------------------
TypeOK ==
  /\ parent \in [Elem -> Elem]
  /\ rank \in [Elem -> 0 .. RankMax]
  /\ pc \in {"idle", "find", "findA", "findB"}
  /\ call = Idle <=> pc = "idle"
  /\ pc = "find" => call \in {FindCall(e) : e \in Elem}
  /\ pc \in {"findA", "findB"} => call \in {UnionCall(a, b) : a, b \in Elem}
  /\ x \in Elem
  /\ ra \in Elem
  /\ answer \in Elem \cup {NoAnswer}
  /\ root \in [Elem -> Elem]
  /\ joined \subseteq Elem \X Elem

(* The parent pointers are a forest whose roots are the ones the history   *)
(* names: following a pointer stays in the class, only a root points at    *)
(* itself, and rank grows along every other pointer, so there is no cycle. *)
Forest ==
  \A e \in Elem :
    /\ root[parent[e]] = root[e]
    /\ parent[e] = e <=> root[e] = e
    /\ parent[root[e]] = root[e]
    /\ parent[e] # e => rank[e] < rank[parent[e]]

(* The locals of a call in progress are still right although find rewrites *)
(* the array under them: the cursor is in the class of the argument, and   *)
(* the root that union took first is still a root when the second is found.*)
LocalsValid ==
  /\ pc \in {"find", "findA"} => root[x] = root[call.a]
  /\ pc = "findB" => root[x] = root[call.b] /\ ra = root[call.a]

Class(r) == {e \in Elem : root[e] = r}

(* A root of rank k has at least 2^k elements below it: the u8 that holds  *)
(* the rank can then never wrap.                                           *)
RankBounded ==
  \A e \in Elem : root[e] = e => Pow2[rank[e]] <= Cardinality(Class(e))

(* The classes are exactly the equivalence closure of the pairs passed to  *)
(* union: the members of a pair share a root, and every labelling that is  *)
(* constant on the united pairs is constant on each class (so no two       *)
(* elements were put together that no chain of unions connects).           *)
ClassesAreClosure ==
  /\ \A p \in joined : root[p[1]] = root[p[2]]
  /\ \A f \in [Elem -> Elem] :
       (\A p \in joined : f[p[1]] = f[p[2]]) => \A e \in Elem : f[root[e]] = f[e]

(* A union returns with exactly the representatives and ranks that Unite   *)
(* computes from those at its call, and no other step changes either: all  *)
(* that the callers of union_find.rs see of it is RepForest.               *)
RootsAndRanks == [rep |-> root, rank |-> rank]
UnionIsUnite ==
  [][IF pc = "findB" /\ pc' = "idle"
       THEN RootsAndRanks' = Unite(RootsAndRanks, call.a, call.b)
       ELSE RootsAndRanks' = RootsAndRanks]_vars

(* The structure implements the abstract disjoint sets.                    *)
Sets == INSTANCE DisjointSets WITH rep <- root
SetsSpec == Sets!Spec

(* Every find and every union returns: the halving loop reaches a root.    *)
CallsReturn == (pc # "idle") ~> (pc = "idle")
=============================================================================
