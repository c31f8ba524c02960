-------------------------- MODULE UnionFindProofs --------------------------
(***************************************************************************)
(* Proofs about UnionFind, for every number of elements, every width of    *)
(* the rank type that can hold their number, and every set of union        *)
(* arguments.  The inductive invariant is IInv: the forest needs the rank  *)
(* bound (a rank that wrapped would break the order along the pointers),   *)
(* the rank bound needs the classes, and a union step needs the locals it  *)
(* carries across the second find.                                         *)
(***************************************************************************)
EXTENDS UnionFind, TLAPS, FiniteSetTheorems

IInv ==
  /\ TypeOK
  /\ Forest
  /\ LocalsValid
  /\ RankBounded
  /\ ClassesAreClosure

LEMMA ModRange ==
  ASSUME NEW a \in Nat, NEW b \in Nat, b > 0
  PROVE  a % b \in 0 .. b - 1
  OBVIOUS

LEMMA ModSmall ==
  ASSUME NEW a \in Nat, NEW b \in Nat, a < b
  PROVE  a % b = a
  OBVIOUS

LEMMA ZeroIsElem == 0 \in Elem
  BY NAssumption DEF Elem

-----------------------------------------------------------------------------
(* Type correctness.                                                       *)

LEMMA TypeInit == Init => TypeOK
  BY ZeroIsElem, RankMaxAssumption DEF Init, TypeOK, Idle, FindCall, UnionCall

LEMMA TypeStep == TypeOK /\ [Next]_vars => TypeOK'
<1> SUFFICES ASSUME TypeOK, [Next]_vars PROVE TypeOK'
  OBVIOUS
<1> USE DEF TypeOK
<1>1. ASSUME NEW e \in Elem, BeginFind(e) PROVE TypeOK'
  BY <1>1 DEF BeginFind, FindCall, Idle
<1>2. ASSUME NEW p \in UnionArgs, BeginUnion(p[1], p[2]) PROVE TypeOK'
  <2>1. p[1] \in Elem /\ p[2] \in Elem
    BY UnionArgsAssumption
  <2>2. QED
    BY <1>2, <2>1 DEF BeginUnion, UnionCall, Idle
<1>3. CASE HalveStep
  BY <1>3 DEF HalveStep
<1>4. CASE FindReturns
  BY <1>4, ZeroIsElem DEF FindReturns, Returns, Idle
<1>5. CASE FirstRoot
  BY <1>5 DEF FirstRoot, UnionCall, Idle
<1>6. ASSUME SecondRoot PROVE call.a \in Elem /\ call.b \in Elem
  BY <1>6 DEF SecondRoot, UnionCall
<1>7. CASE SameSet
  BY <1>6, <1>7, ZeroIsElem DEF SameSet, SecondRoot, Returns, Idle
<1>8. CASE LinkLess
  BY <1>6, <1>8, ZeroIsElem DEF LinkLess, SecondRoot, Link, Returns, Idle
<1>9. CASE LinkGreater
  BY <1>6, <1>9, ZeroIsElem DEF LinkGreater, SecondRoot, Link, Returns, Idle
<1>10. CASE LinkEqual
  <2> DEFINE top == IF ra < x THEN ra ELSE x
             child == IF ra < x THEN x ELSE ra
  <2>1. top \in Elem /\ child \in Elem
    OBVIOUS
  <2>2. Link(child, top) /\ rank' = [rank EXCEPT ![top] = (rank[top] + 1) % (RankMax + 1)]
    BY <1>10 DEF LinkEqual
  <2>3. rank' \in [Elem -> 0 .. RankMax]
    BY <2>1, <2>2, RankMaxAssumption, ModRange
  <2>4. SecondRoot
    BY <1>10 DEF LinkEqual
  <2> HIDE DEF top, child
  <2>5. QED
    BY <1>6, <2>1, <2>2, <2>3, <2>4, ZeroIsElem DEF SecondRoot, Link, Returns, Idle
<1>11. CASE UNCHANGED vars
  BY <1>11 DEF vars
<1>12. QED
  BY <1>1, <1>2, <1>3, <1>4, <1>5, <1>7, <1>8, <1>9, <1>10, <1>11 DEF Next, Step

(* Every field of the structure and every local keeps its type; in         *)
(* particular a parent is always an index into the array, so find cannot   *)
(* panic on an out-of-bounds read.                                         *)
THEOREM TypeCorrect == Spec => []TypeOK
<1>1. QED
  BY TypeInit, TypeStep, PTL DEF Spec

-----------------------------------------------------------------------------
(* The classes: how the history variable `root' moves.                     *)

\* A union step that links has two different roots in hand.
LEMMA TwoRoots ==
  ASSUME TypeOK, Forest, LocalsValid, SecondRoot, ra # x
  PROVE  /\ root[ra] = ra
         /\ root[x] = x
         /\ ra = root[call.a]
         /\ x = root[call.b]
         /\ call.a \in Elem
         /\ call.b \in Elem
<1>1. call.a \in Elem /\ call.b \in Elem
  BY DEF TypeOK, SecondRoot, UnionCall
<1>2. QED
  BY <1>1 DEF TypeOK, Forest, LocalsValid, SecondRoot

\* The pieces of a link: which root goes below which, and what the ranks do.
LinkStep(child, top) ==
  /\ {child, top} = {ra, x}
  /\ child # top
  /\ Link(child, top)
  /\ rank' \in [Elem -> 0 .. RankMax]
  /\ \A e \in Elem \ {top} : rank'[e] = rank[e]
  /\ rank[child] < rank'[top]
  /\ \/ rank'[top] = rank[top]
     \/ rank[child] = rank[top] /\ rank'[top] = rank[top] + 1

\* A class of rank k holds 2^k of the N elements, so the rank can still grow.
LEMMA RankHasRoom ==
  ASSUME TypeOK, RankBounded, NEW e \in Elem, root[e] = e
  PROVE  rank[e] < RankMax
<1>1. IsFiniteSet(Elem) /\ Cardinality(Elem) = N
  BY FS_Interval, NAssumption DEF Elem
<1>2. Class(e) \in SUBSET Elem
  BY DEF Class
<1>3. Cardinality(Class(e)) <= N
  BY <1>1, <1>2, FS_Subset
<1>3a. Cardinality(Class(e)) \in Nat
  BY <1>1, <1>2, FS_Subset, FS_CardinalityType
<1>4. Pow2[rank[e]] <= Cardinality(Class(e))
  BY DEF RankBounded
<1>5. rank[e] \in 0 .. RankMax
  BY DEF TypeOK
<1>6. Pow2[rank[e]] \in Nat /\ Pow2[RankMax] \in Nat
  BY <1>5, Pow2Assumption, RankMaxAssumption
<1>7. rank[e] # RankMax
  BY <1>3, <1>3a, <1>4, <1>6, CapacityAssumption, NAssumption
<1>8. QED
  BY <1>5, <1>7, RankMaxAssumption

LEMMA LinksAreLinkSteps ==
  ASSUME TypeOK, Forest, LocalsValid, RankBounded,
         LinkLess \/ LinkGreater \/ LinkEqual
  PROVE  /\ SecondRoot
         /\ ra # x
         /\ \E child, top \in Elem : LinkStep(child, top)
<1>1. SecondRoot /\ ra # x /\ ra \in Elem /\ x \in Elem
  BY DEF LinkLess, LinkGreater, LinkEqual, TypeOK
<1>2. CASE LinkLess
  <2>1. LinkStep(ra, x)
    BY <1>1, <1>2 DEF LinkLess, LinkStep, TypeOK
  <2>2. QED
    BY <1>1, <2>1
<1>3. CASE LinkGreater
  <2>1. LinkStep(x, ra)
    BY <1>1, <1>3 DEF LinkGreater, LinkStep, TypeOK
  <2>2. QED
    BY <1>1, <2>1
<1>4. CASE LinkEqual
  <2> DEFINE top == IF ra < x THEN ra ELSE x
             child == IF ra < x THEN x ELSE ra
  <2>1. /\ Link(child, top)
        /\ rank' = [rank EXCEPT ![top] = (rank[top] + 1) % (RankMax + 1)]
        /\ rank[ra] = rank[x]
    BY <1>4 DEF LinkEqual
  <2>2. /\ top \in Elem /\ child \in Elem
        /\ child # top
        /\ {child, top} = {ra, x}
        /\ root[top] = top
        /\ rank[child] = rank[top]
    BY <1>1, <2>1, TwoRoots
  <2> HIDE DEF top, child
  <2>3. rank \in [Elem -> 0 .. RankMax] /\ rank[top] \in 0 .. RankMax
    BY <2>2 DEF TypeOK
  <2>4. rank[top] + 1 \in Nat /\ rank[top] + 1 < RankMax + 1
    BY <2>2, <2>3, RankHasRoom, RankMaxAssumption
  <2>5. (rank[top] + 1) % (RankMax + 1) = rank[top] + 1
    BY <2>4, ModSmall, RankMaxAssumption
  <2>6. rank' = [rank EXCEPT ![top] = rank[top] + 1]
    BY <2>1, <2>5
  <2>7. LinkStep(child, top)
    BY <2>1, <2>2, <2>3, <2>4, <2>6, RankMaxAssumption DEF LinkStep
  <2>8. QED
    BY <1>1, <2>2, <2>7
<1>5. QED
  BY <1>2, <1>3, <1>4

-----------------------------------------------------------------------------
(* What a link does to the forest, the ranks and the classes.              *)

LEMMA LinkForest ==
  ASSUME TypeOK, Forest, NEW child \in Elem, NEW top \in Elem,
         root[child] = child, root[top] = top, LinkStep(child, top)
  PROVE  Forest'
<1>1. /\ parent' = [parent EXCEPT ![child] = top]
      /\ root' = [e \in Elem |-> IF root[e] = child THEN top ELSE root[e]]
      /\ child # top
  BY DEF LinkStep, Link
<1>2. /\ parent \in [Elem -> Elem] /\ root \in [Elem -> Elem]
      /\ rank \in [Elem -> 0 .. RankMax] /\ rank' \in [Elem -> 0 .. RankMax]
  BY DEF TypeOK, LinkStep
<1>3. ASSUME NEW e \in Elem
      PROVE /\ root'[parent'[e]] = root'[e]
            /\ parent'[e] = e <=> root'[e] = e
            /\ parent'[root'[e]] = root'[e]
  BY <1>1, <1>2 DEF Forest
<1>4. ASSUME NEW e \in Elem, parent'[e] # e
      PROVE  rank'[e] < rank'[parent'[e]]
  <2>1. CASE e = child
    BY <1>1, <1>2, <2>1 DEF LinkStep
  <2>2. CASE e # child
    <3>1. parent'[e] = parent[e] /\ parent[e] # e /\ rank[e] < rank[parent[e]]
      BY <1>1, <1>2, <1>4, <2>2 DEF Forest
    <3>2. e # top
      BY <1>2, <3>1 DEF Forest
    <3>3. rank'[e] = rank[e] /\ rank'[parent[e]] >= rank[parent[e]]
      BY <1>2, <3>2 DEF LinkStep
    <3>4. QED
      BY <1>2, <3>1, <3>3
  <2>3. QED
    BY <2>1, <2>2
<1>5. QED
  BY <1>3, <1>4 DEF Forest

LEMMA ClassesFinite ==
  ASSUME NEW r \in Elem
  PROVE  IsFiniteSet(Class(r)) /\ Cardinality(Class(r)) \in Nat
<1>1. IsFiniteSet(Elem)
  BY FS_Interval, NAssumption DEF Elem
<1>2. Class(r) \in SUBSET Elem
  BY DEF Class
<1>3. QED
  BY <1>1, <1>2, FS_Subset, FS_CardinalityType

\* The class of `top' swallows the class of `child'; the sizes add up.
LEMMA LinkSize ==
  ASSUME TypeOK, NEW child \in Elem, NEW top \in Elem, root[child] = child,
         root[top] = top, LinkStep(child, top)
  PROVE  /\ Cardinality(Class(top)') = Cardinality(Class(top)) + Cardinality(Class(child))
         /\ \A e \in Elem \ {child, top} : Class(e)' = Class(e)
<1>1. /\ root' = [e \in Elem |-> IF root[e] = child THEN top ELSE root[e]]
      /\ child # top
  BY DEF LinkStep, Link
<1>2. Class(top)' = Class(top) \cup Class(child)
  BY <1>1 DEF Class, TypeOK
<1>3. Class(top) \cap Class(child) = {}
  BY <1>1 DEF Class
<1>4. Cardinality(Class(top) \cap Class(child)) = 0
  BY <1>3, FS_EmptySet
<1>5. Cardinality(Class(top)') = Cardinality(Class(top)) + Cardinality(Class(child))
  <2>1. Cardinality(Class(top) \cup Class(child))
          = Cardinality(Class(top)) + Cardinality(Class(child))
            - Cardinality(Class(top) \cap Class(child))
    BY ClassesFinite, FS_Union
  <2>2. Cardinality(Class(top) \cup Class(child))
          = Cardinality(Class(top)) + Cardinality(Class(child))
    BY <1>4, <2>1, ClassesFinite
  <2>3. QED
    BY <1>2, <2>2
<1>6. \A e \in Elem \ {child, top} : Class(e)' = Class(e)
  BY <1>1 DEF Class, TypeOK
<1>7. QED
  BY <1>5, <1>6

LEMMA LinkRanks ==
  ASSUME TypeOK, Forest, RankBounded, NEW child \in Elem, NEW top \in Elem,
         root[child] = child, root[top] = top, LinkStep(child, top)
  PROVE  RankBounded'
<1> SUFFICES ASSUME NEW e \in Elem, root'[e] = e
             PROVE  Pow2[rank'[e]] <= Cardinality(Class(e)')
  BY DEF RankBounded
<1>1. /\ root' = [i \in Elem |-> IF root[i] = child THEN top ELSE root[i]]
      /\ child # top
  BY DEF LinkStep, Link
<1>2. e # child /\ root[e] = e
  BY <1>1 DEF TypeOK
<1>3. CASE e # top
  <2>1. Class(e)' = Class(e) /\ rank'[e] = rank[e]
    BY <1>2, <1>3, LinkSize DEF LinkStep
  <2>2. QED
    BY <1>2, <2>1 DEF RankBounded
<1>4. CASE e = top
  <2>1. /\ Pow2[rank[top]] <= Cardinality(Class(top))
        /\ Pow2[rank[child]] <= Cardinality(Class(child))
    BY DEF RankBounded
  <2>2. /\ Cardinality(Class(top)) \in Nat
        /\ Cardinality(Class(child)) \in Nat
        /\ Cardinality(Class(top)') = Cardinality(Class(top)) + Cardinality(Class(child))
    BY LinkSize, ClassesFinite
  <2>3. /\ rank[top] \in 0 .. RankMax
        /\ rank'[top] \in 0 .. RankMax
        /\ Pow2[rank[top]] \in Nat
        /\ Pow2[rank[child]] \in Nat
    BY Pow2Assumption DEF TypeOK, LinkStep
  <2>4. CASE rank'[top] = rank[top]
    BY <1>4, <2>1, <2>2, <2>3, <2>4
  <2>5. CASE rank[child] = rank[top] /\ rank'[top] = rank[top] + 1
    <3>1. rank[top] \in 0 .. RankMax - 1
      BY <2>3, <2>5, RankMaxAssumption
    <3>2. Pow2[rank'[top]] = 2 * Pow2[rank[top]]
      BY <2>5, <3>1, Pow2Assumption
    <3>3. QED
      BY <1>4, <2>1, <2>2, <2>3, <2>5, <3>2
  <2>6. QED
    BY <2>4, <2>5 DEF LinkStep
<1>5. QED
  BY <1>3, <1>4

LEMMA LinkClosure ==
  ASSUME TypeOK, ClassesAreClosure, NEW child \in Elem, NEW top \in Elem,
         root[child] = child, root[top] = top, LinkStep(child, top),
         call.a \in Elem, call.b \in Elem, ra = root[call.a], x = root[call.b]
  PROVE  ClassesAreClosure'
<1>1. /\ root' = [e \in Elem |-> IF root[e] = child THEN top ELSE root[e]]
      /\ joined' = joined \cup {<<call.a, call.b>>}
      /\ {child, top} = {root[call.a], root[call.b]}
  BY DEF LinkStep, Link
<1>2. root \in [Elem -> Elem] /\ joined \subseteq Elem \X Elem
  BY DEF TypeOK
<1>3. \A p \in joined' : root'[p[1]] = root'[p[2]]
  <2>1. ASSUME NEW p \in joined PROVE root'[p[1]] = root'[p[2]]
    BY <1>1, <1>2 DEF ClassesAreClosure
  <2>2. root'[call.a] = top /\ root'[call.b] = top
    BY <1>1, <1>2
  <2>3. QED
    BY <1>1, <2>1, <2>2
<1>4. ASSUME NEW f \in [Elem -> Elem], \A p \in joined' : f[p[1]] = f[p[2]],
             NEW e \in Elem
      PROVE  f[root'[e]] = f[e]
  <2>1. \A i \in Elem : f[root[i]] = f[i]
    BY <1>1, <1>4 DEF ClassesAreClosure
  <2>2. f[call.a] = f[call.b]
    <3>1. <<call.a, call.b>> \in joined'
      BY <1>1
    <3>2. QED
      BY <1>4, <3>1
  <2>3. f[child] = f[top]
    BY <1>1, <2>1, <2>2
  <2>4. QED
    BY <1>1, <1>2, <2>1, <2>3
<1>5. QED
  BY <1>3, <1>4 DEF ClassesAreClosure

-----------------------------------------------------------------------------
(* The inductive invariant.                                                *)

LEMMA InvInit == Init => IInv
<1> SUFFICES ASSUME Init PROVE IInv
  OBVIOUS
<1>1. TypeOK
  BY TypeInit
<1>2. Forest /\ LocalsValid /\ ClassesAreClosure
  BY DEF Init, Forest, LocalsValid, ClassesAreClosure
<1>3. RankBounded
  <2> SUFFICES ASSUME NEW e \in Elem PROVE Pow2[rank[e]] <= Cardinality(Class(e))
    BY DEF RankBounded
  <2>1. Class(e) = {e}
    BY DEF Class, Init
  <2>2. Cardinality(Class(e)) = 1
    BY <2>1, FS_Singleton
  <2>3. QED
    BY <2>2, Pow2Assumption DEF Init
<1>4. QED
  BY <1>1, <1>2, <1>3 DEF IInv

\* A halving step moves a pointer inside its class: nothing else changes.
LEMMA HalveKeepsForest ==
  ASSUME TypeOK, Forest, HalveStep
  PROVE  Forest' /\ root[x'] = root[x] /\ \A r \in Elem : parent[r] = r => parent'[r] = r
<1> DEFINE g == parent[parent[x]]
<1>1. /\ parent' = [parent EXCEPT ![x] = g]
      /\ x' = g /\ parent[x] # x
      /\ root' = root /\ rank' = rank
  BY DEF HalveStep
<1>2. /\ g \in Elem /\ x \in Elem /\ parent[x] \in Elem
      /\ root[g] = root[x]
      /\ rank[x] < rank[g]
  BY <1>1 DEF TypeOK, Forest
<1>3. root[x] # x /\ g # x
  BY <1>1, <1>2 DEF TypeOK, Forest
<1> HIDE DEF g
<1>4. Forest'
  BY <1>1, <1>2, <1>3 DEF TypeOK, Forest
<1>5. QED
  BY <1>1, <1>2, <1>4 DEF TypeOK

LEMMA InvStep == IInv /\ [Next]_vars => IInv'
<1> SUFFICES ASSUME IInv, [Next]_vars PROVE IInv'
  OBVIOUS
<1> USE DEF IInv
<1>0. TypeOK'
  BY TypeStep
<1>1. ASSUME UNCHANGED <<parent, rank, root>>
      PROVE  Forest' /\ RankBounded'
  BY <1>1 DEF Forest, RankBounded, Class
<1>2. ASSUME UNCHANGED <<root, joined>>
      PROVE  ClassesAreClosure'
  BY <1>2 DEF ClassesAreClosure
<1>3. ASSUME NEW e \in Elem, BeginFind(e) PROVE IInv'
  <2>1. LocalsValid'
    BY <1>3 DEF BeginFind, FindCall, LocalsValid
  <2>2. QED
    BY <1>0, <1>1, <1>2, <1>3, <2>1 DEF BeginFind
<1>4. ASSUME NEW p \in UnionArgs, BeginUnion(p[1], p[2]) PROVE IInv'
  <2>1. LocalsValid'
    BY <1>4 DEF BeginUnion, UnionCall, LocalsValid
  <2>2. QED
    BY <1>0, <1>1, <1>2, <1>4, <2>1 DEF BeginUnion
<1>5. CASE HalveStep
  <2>1. Forest'
    BY <1>5, HalveKeepsForest
  <2>2. LocalsValid'
    BY <1>5, HalveKeepsForest DEF HalveStep, LocalsValid
  <2>3. RankBounded'
    BY <1>5 DEF HalveStep, RankBounded, Class
  <2>4. QED
    BY <1>0, <1>2, <1>5, <2>1, <2>2, <2>3 DEF HalveStep
<1>6. CASE FindReturns
  <2>1. LocalsValid'
    BY <1>6 DEF FindReturns, Returns, LocalsValid
  <2>2. QED
    BY <1>0, <1>1, <1>2, <1>6, <2>1 DEF FindReturns
<1>7. CASE FirstRoot
  <2>1. root[x] = x
    BY <1>7 DEF FirstRoot, Forest, TypeOK
  <2>2. LocalsValid'
    BY <1>7, <2>1 DEF FirstRoot, LocalsValid
  <2>3. QED
    BY <1>0, <1>1, <1>2, <1>7, <2>2 DEF FirstRoot
<1>8. CASE SameSet
  <2>1. LocalsValid'
    BY <1>8 DEF SameSet, Returns, LocalsValid
  <2>2. root[call.a] = root[call.b] /\ call.a \in Elem /\ call.b \in Elem
    BY <1>8 DEF SameSet, SecondRoot, Forest, LocalsValid, TypeOK, UnionCall
  <2>3. ClassesAreClosure'
    BY <1>8, <2>2 DEF SameSet, ClassesAreClosure
  <2>4. QED
    BY <1>0, <1>1, <1>8, <2>1, <2>3 DEF SameSet
<1>9. CASE LinkLess \/ LinkGreater \/ LinkEqual
  <2>1. SecondRoot /\ ra # x
    BY <1>9, LinksAreLinkSteps
  <2>2. PICK child \in Elem, top \in Elem : LinkStep(child, top)
    BY <1>9, LinksAreLinkSteps
  <2>3. root[child] = child /\ root[top] = top
    BY <2>1, <2>2, TwoRoots DEF LinkStep
  <2>4. Forest' /\ RankBounded'
    BY <2>2, <2>3, LinkForest, LinkRanks
  <2>5. ClassesAreClosure'
    BY <2>1, <2>2, <2>3, TwoRoots, LinkClosure
  <2>6. LocalsValid'
    BY <2>2 DEF LinkStep, Link, Returns, LocalsValid
  <2>7. QED
    BY <1>0, <2>4, <2>5, <2>6
<1>10. CASE UNCHANGED vars
  <2>1. LocalsValid'
    BY <1>10 DEF vars, LocalsValid
  <2>2. QED
    BY <1>0, <1>1, <1>2, <1>10, <2>1 DEF vars
<1>11. QED
  BY <1>3, <1>4, <1>5, <1>6, <1>7, <1>8, <1>9, <1>10 DEF Next, Step

LEMMA InvHolds == Spec => []IInv
  BY InvInit, InvStep, PTL DEF Spec

(* The pointers stay a forest: ranks grow towards the root, so every climb *)
(* of find ends, and it ends at the root of the class.                     *)
THEOREM ForestHolds == Spec => []Forest
<1>1. IInv => Forest
  BY DEF IInv
<1>2. QED
  BY <1>1, InvHolds, PTL

(* The root that union took first survives the second find.                *)
THEOREM LocalsHold == Spec => []LocalsValid
<1>1. IInv => LocalsValid
  BY DEF IInv
<1>2. QED
  BY <1>1, InvHolds, PTL

(* A root of rank k has 2^k elements, hence rank + 1 never wraps a u8.     *)
THEOREM RanksHold == Spec => []RankBounded
<1>1. IInv => RankBounded
  BY DEF IInv
<1>2. QED
  BY <1>1, InvHolds, PTL

(* The classes are the equivalence closure of the pairs passed to union.   *)
THEOREM ClosureHolds == Spec => []ClassesAreClosure
<1>1. IInv => ClassesAreClosure
  BY DEF IInv
<1>2. QED
  BY <1>1, InvHolds, PTL

-----------------------------------------------------------------------------
(* What the callers see.                                                   *)

\* The two representatives Unite works on are the roots in hand, and a link
\* under Winner gives the representatives of Unite.
LEMMA LinkReps ==
  ASSUME TypeOK, Forest, LocalsValid, SecondRoot, ra # x,
         NEW child, NEW top, Link(child, top),
         top = Winner(rank, ra, x), child = IF top = ra THEN x ELSE ra,
         rank' = IF rank[ra] = rank[x]
                   THEN [rank EXCEPT ![top] = rank[top] + 1] ELSE rank
  PROVE  RootsAndRanks' = Unite(RootsAndRanks, call.a, call.b)
<1>1. /\ ra = root[call.a] /\ x = root[call.b]
      /\ DOMAIN root = Elem
  BY TwoRoots DEF TypeOK
<1>2. root' = [e \in DOMAIN root |-> IF root[e] = child THEN top ELSE root[e]]
  BY <1>1 DEF Link
<1>3. QED
  BY <1>1, <1>2 DEF RootsAndRanks, Unite

\* The rank of the surviving root grows without wrapping.
LEMMA EqualRankGrows ==
  ASSUME TypeOK, Forest, LocalsValid, RankBounded, LinkEqual,
         NEW top, top = IF ra < x THEN ra ELSE x
  PROVE  rank' = [rank EXCEPT ![top] = rank[top] + 1]
<1>1. rank' = [rank EXCEPT ![top] = (rank[top] + 1) % (RankMax + 1)]
  BY DEF LinkEqual
<1>2. top \in Elem /\ root[top] = top
  BY TwoRoots DEF LinkEqual, TypeOK
<1>3. rank[top] \in 0 .. RankMax /\ rank[top] < RankMax
  BY <1>2, RankHasRoom DEF TypeOK
<1>4. (rank[top] + 1) % (RankMax + 1) = rank[top] + 1
  BY <1>3, ModSmall, RankMaxAssumption
<1>5. QED
  BY <1>1, <1>4

\* The action of UnionIsUnite.
UniteOrKeep ==
  IF pc = "findB" /\ pc' = "idle"
    THEN RootsAndRanks' = Unite(RootsAndRanks, call.a, call.b)
    ELSE RootsAndRanks' = RootsAndRanks

LEMMA UniteStep == IInv /\ [Next]_vars => [UniteOrKeep]_vars
<1> SUFFICES ASSUME IInv, Next PROVE UniteOrKeep
  OBVIOUS
<1> USE DEF IInv
<1>1. ASSUME UNCHANGED <<root, rank>>, pc # "findB" \/ pc' # "idle"
      PROVE  UniteOrKeep
  BY <1>1 DEF UniteOrKeep, RootsAndRanks
<1>2. ASSUME NEW e \in Elem, BeginFind(e) PROVE UniteOrKeep
  BY <1>1, <1>2 DEF BeginFind
<1>3. ASSUME NEW p \in UnionArgs, BeginUnion(p[1], p[2]) PROVE UniteOrKeep
  BY <1>1, <1>3 DEF BeginUnion
<1>4. CASE HalveStep
  BY <1>1, <1>4 DEF HalveStep
<1>5. CASE FindReturns
  BY <1>1, <1>5 DEF FindReturns
<1>6. CASE FirstRoot
  BY <1>1, <1>6 DEF FirstRoot
<1>7. CASE SameSet
  <2>1. root[call.a] = root[call.b]
    BY <1>7 DEF SameSet, SecondRoot, TypeOK, Forest, LocalsValid
  <2>2. Unite(RootsAndRanks, call.a, call.b) = RootsAndRanks
    BY <2>1 DEF Unite, RootsAndRanks
  <2>3. QED
    BY <1>7, <2>2 DEF SameSet, SecondRoot, Returns, UniteOrKeep, RootsAndRanks
<1>8. CASE LinkLess \/ LinkGreater \/ LinkEqual
  <2>1. /\ SecondRoot /\ ra # x
        /\ pc = "findB" /\ pc' = "idle"
        /\ ra \in Elem /\ x \in Elem
        /\ rank[ra] \in Nat /\ rank[x] \in Nat
    BY <1>8, RankMaxAssumption
    DEF LinkLess, LinkGreater, LinkEqual, Link, Returns, SecondRoot, TypeOK
  <2>2. CASE LinkLess
    <3>1. Winner(rank, ra, x) = x
      BY <2>1, <2>2 DEF LinkLess, Winner
    <3>2. RootsAndRanks' = Unite(RootsAndRanks, call.a, call.b)
      BY <2>1, <2>2, <3>1, LinkReps DEF LinkLess
    <3>3. QED
      BY <2>1, <3>2 DEF UniteOrKeep
  <2>3. CASE LinkGreater
    <3>1. Winner(rank, ra, x) = ra
      BY <2>1, <2>3 DEF LinkGreater, Winner
    <3>2. RootsAndRanks' = Unite(RootsAndRanks, call.a, call.b)
      BY <2>1, <2>3, <3>1, LinkReps DEF LinkGreater
    <3>3. QED
      BY <2>1, <3>2 DEF UniteOrKeep
  <2>4. CASE LinkEqual
    <3> DEFINE top == IF ra < x THEN ra ELSE x
               child == IF ra < x THEN x ELSE ra
    <3>1. /\ Winner(rank, ra, x) = top
          /\ child = IF top = ra THEN x ELSE ra
      BY <2>1, <2>4 DEF LinkEqual, Winner
    <3>2. Link(child, top) /\ rank[ra] = rank[x]
      BY <2>4 DEF LinkEqual
    <3>3. rank' = [rank EXCEPT ![top] = rank[top] + 1]
      BY <2>4, EqualRankGrows
    <3>4. RootsAndRanks' = Unite(RootsAndRanks, call.a, call.b)
      <4> HIDE DEF top, child
      <4> QED
        BY <2>1, <3>1, <3>2, <3>3, LinkReps
    <3>5. QED
      BY <2>1, <3>4 DEF UniteOrKeep
  <2>5. QED
    BY <1>8, <2>2, <2>3, <2>4
<1>9. QED
  BY <1>2, <1>3, <1>4, <1>5, <1>6, <1>7, <1>8 DEF Next, Step

(* A call of union changes representatives and ranks exactly as Unite      *)
(* does, and nothing else changes them: the modules that use RepForest for *)
(* union_find.rs lose nothing that a caller can see.                       *)
THEOREM UnionsAreUnite == Spec => UnionIsUnite
<1>1. Spec => [][UniteOrKeep]_vars
  BY UniteStep, InvHolds, PTL DEF Spec
<1>2. QED
  BY <1>1 DEF UnionIsUnite, UniteOrKeep

-----------------------------------------------------------------------------
(* Refinement: with the root of each element as its representative, every  *)
(* step of the arrays is a step of the abstract sets or leaves them alone. *)

LEMMA RefineInit == Init => Sets!Init
  BY DEF Init, Sets!Init, Idle, Sets!Idle

LEMMA RefineStep == IInv /\ [Next]_vars => [Sets!Next]_(Sets!vars)
<1> SUFFICES ASSUME IInv, [Next]_vars PROVE [Sets!Next]_(Sets!vars)
  OBVIOUS
<1> USE DEF IInv, Idle, Sets!Idle, Sets!vars
<1>1. ASSUME NEW e \in Elem, BeginFind(e) PROVE Sets!Next
  <2>1. call = Idle
    BY <1>1 DEF BeginFind, TypeOK
  <2>2. Sets!Begin(FindCall(e)) /\ FindCall(e) \in Sets!Calls
    BY <1>1, <2>1 DEF BeginFind, Sets!Begin, Sets!Calls, FindCall, Sets!FindCall
  <2>3. QED
    BY <2>2 DEF Sets!Next
<1>2. ASSUME NEW p \in UnionArgs, BeginUnion(p[1], p[2]) PROVE Sets!Next
  <2>1. call = Idle /\ p[1] \in Elem /\ p[2] \in Elem
    BY <1>2, UnionArgsAssumption DEF BeginUnion, TypeOK
  <2>2. Sets!Begin(UnionCall(p[1], p[2])) /\ UnionCall(p[1], p[2]) \in Sets!Calls
    BY <1>2, <2>1 DEF BeginUnion, Sets!Begin, Sets!Calls, UnionCall, Sets!UnionCall
  <2>3. QED
    BY <2>2 DEF Sets!Next
<1>3. CASE HalveStep
  BY <1>3 DEF HalveStep
<1>4. CASE FindReturns
  <2>1. call.op = "find" /\ answer' = root[call.a]
    BY <1>4 DEF FindReturns, TypeOK, Forest, LocalsValid, FindCall
  <2>2. QED
    BY <1>4, <2>1 DEF FindReturns, Returns, Sets!FindReturns, Sets!Next
<1>5. CASE FirstRoot
  BY <1>5 DEF FirstRoot
<1>6. ASSUME SecondRoot
      PROVE  /\ call.op = "union"
             /\ ra = root[call.a]
             /\ x = root[call.b]
  BY <1>6 DEF SecondRoot, TypeOK, Forest, LocalsValid, UnionCall
<1>7. CASE SameSet
  <2>1. ra = x /\ SecondRoot
    BY <1>7 DEF SameSet
  <2>2. root' = [e \in Elem |-> IF root[e] \in {root[call.a], root[call.b]}
                                  THEN x ELSE root[e]]
    BY <1>6, <1>7, <2>1 DEF SameSet, TypeOK
  <2>3. Sets!UnionReturns
    BY <1>6, <1>7, <2>1, <2>2 DEF SameSet, Returns, Sets!UnionReturns
  <2>4. QED
    BY <2>3 DEF Sets!Next
<1>8. CASE LinkLess \/ LinkGreater \/ LinkEqual
  <2>1. SecondRoot
    BY <1>8, LinksAreLinkSteps
  <2>2. PICK child \in Elem, top \in Elem : LinkStep(child, top)
    BY <1>8, LinksAreLinkSteps
  <2>3. {child, top} = {root[call.a], root[call.b]}
    BY <1>6, <2>1, <2>2 DEF LinkStep
  <2>4. root' = [e \in Elem |-> IF root[e] \in {root[call.a], root[call.b]}
                                  THEN top ELSE root[e]]
    BY <2>2, <2>3 DEF LinkStep, Link, TypeOK
  <2>5. Sets!UnionReturns
    BY <1>6, <2>1, <2>2, <2>3, <2>4 DEF LinkStep, Link, Returns, Sets!UnionReturns
  <2>6. QED
    BY <2>5 DEF Sets!Next
<1>9. CASE UNCHANGED vars
  BY <1>9 DEF vars
<1>10. QED
  BY <1>1, <1>2, <1>3, <1>4, <1>5, <1>7, <1>8, <1>9 DEF Next, Step

(* union_find.rs implements DisjointSets (safety part).                    *)
THEOREM Implements == Spec => SetsSpec
<1>1. Spec => Sets!Init /\ [][Sets!Next]_(Sets!vars)
  BY RefineInit, RefineStep, InvHolds, PTL DEF Spec
<1>2. QED
  BY <1>1 DEF SetsSpec, Sets!Spec
=============================================================================
