----------------------------- MODULE DiffProofs -----------------------------
(***************************************************************************)
(* Proofs about Diff, for all parsed files, every filter and every order   *)
(* in which the shared identifiers are visited.                            *)
(***************************************************************************)
EXTENDS Diff, CommonLemmas

Ordinals == 1 .. Len(a.nodes) + Len(b.nodes)

LEMMA IndexFacts ==
  ASSUME Parsed(a), Parsed(b)
  PROVE  /\ Len(a.nodes) \in Nat /\ DOMAIN a.nodes = 1 .. Len(a.nodes)
         /\ Len(b.nodes) \in Nat /\ DOMAIN b.nodes = 1 .. Len(b.nodes)
         /\ Len(a.edges) \in Nat /\ DOMAIN a.edges = 1 .. Len(a.edges)
         /\ Len(b.edges) \in Nat /\ DOMAIN b.edges = 1 .. Len(b.edges)
         /\ IsFiniteSet(DOMAIN a.nodes) /\ IsFiniteSet(DOMAIN b.nodes)
         /\ Ordinals \subseteq Int
         /\ \A i \in DOMAIN a.nodes : i \in Ordinals
         /\ \A j \in DOMAIN b.nodes : Ordinal(j) \in Ordinals
         /\ \A i \in DOMAIN a.nodes, j \in DOMAIN b.nodes : i # Ordinal(j)
<1>1. /\ Len(a.nodes) \in Nat /\ DOMAIN a.nodes = 1 .. Len(a.nodes)
      /\ Len(b.nodes) \in Nat /\ DOMAIN b.nodes = 1 .. Len(b.nodes)
      /\ Len(a.edges) \in Nat /\ DOMAIN a.edges = 1 .. Len(a.edges)
      /\ Len(b.edges) \in Nat /\ DOMAIN b.edges = 1 .. Len(b.edges)
  BY DEF Parsed, IsSequence
<1>2. IsFiniteSet(1 .. Len(a.nodes)) /\ IsFiniteSet(1 .. Len(b.nodes))
  <2>1. ASSUME NEW n \in Nat PROVE IsFiniteSet(1 .. n)
    BY FS_Interval
  <2> QED
    BY <1>1, <2>1
<1>3. ASSUME NEW m \in Nat, NEW n \in Nat
      PROVE  /\ 1 .. m + n \subseteq Int
             /\ \A i \in 1 .. m : i \in 1 .. m + n
             /\ \A j \in 1 .. n : m + j \in 1 .. m + n
             /\ \A i \in 1 .. m, j \in 1 .. n : i # m + j
  OBVIOUS
<1>4. /\ Ordinals \subseteq Int
      /\ \A i \in 1 .. Len(a.nodes) : i \in Ordinals
      /\ \A j \in 1 .. Len(b.nodes) : Ordinal(j) \in Ordinals
      /\ \A i \in 1 .. Len(a.nodes), j \in 1 .. Len(b.nodes) : i # Ordinal(j)
  BY <1>1, <1>3 DEF Ordinals, Ordinal
<1> HIDE DEF Ordinals, Ordinal
<1> QED
  BY <1>1, <1>2, <1>4

-----------------------------------------------------------------------------
(* All pairs of a set are united, nothing else is put together.            *)

Joined(f, pairs) == \A p \in pairs : Together(f, p[1], Ordinal(p[2]))
Keeps(f, S) == \A x, y \in Ordinals : Together(f, x, y) => (x \in S <=> y \in S)
\* S does not tell the nodes of a pair apart.
Respects(S, pairs) == \A p \in pairs : p[1] \in S <=> Ordinal(p[2]) \in S

\* The recursive function of UniteAll, for the pairs in a given order.
Unites(g, n, f, order) ==
  g = [k \in 0 .. n |-> IF k = 0 THEN f ELSE Unite(g[k - 1], order[k][1], Ordinal(order[k][2]))]

Forests == {f \in [rep : [Ordinals -> Ordinals], rank : [Ordinals -> Nat]] : ForestOK(f, Ordinals)}

LEMMA UniteStaysForest ==
  ASSUME Parsed(a), Parsed(b), NEW f \in Forests, NEW x \in Ordinals, NEW y \in Ordinals
  PROVE  Unite(f, x, y) \in Forests
<1>1. Ordinals \subseteq Int /\ ForestOK(f, Ordinals)
  BY IndexFacts DEF Forests
<1>2. ForestOK(Unite(f, x, y), Ordinals)
  BY <1>1, UniteKeeps
<1>3. Unite(f, x, y) = [rep |-> Unite(f, x, y).rep, rank |-> Unite(f, x, y).rank]
  BY DEF Unite, Forests
<1> QED
  BY <1>2, <1>3 DEF Forests, ForestOK

LEMMA UnitesExists ==
  ASSUME Parsed(a), Parsed(b), NEW f \in Forests, NEW n \in Nat, NEW order,
         \A k \in 1 .. n : order[k] \in (DOMAIN a.nodes) \X (DOMAIN b.nodes)
  PROVE  \E g : Unites(g, n, f, order)
<1> DEFINE step == [m \in Nat |-> [v \in Forests |->
                      IF m + 1 <= n THEN Unite(v, order[m + 1][1], Ordinal(order[m + 1][2])) ELSE v]]
<1>1. ASSUME NEW m \in Nat, NEW v \in Forests, m + 1 <= n
      PROVE  Unite(v, order[m + 1][1], Ordinal(order[m + 1][2])) \in Forests
  <2>1. order[m + 1] \in (DOMAIN a.nodes) \X (DOMAIN b.nodes)
    BY <1>1
  <2>2. order[m + 1][1] \in Ordinals /\ Ordinal(order[m + 1][2]) \in Ordinals
    BY <2>1, IndexFacts
  <2> QED
    BY <2>2, UniteStaysForest
<1>2. step \in [Nat -> [Forests -> Forests]]
  BY <1>1
<1>3. \A m \in Nat, v \in Forests :
        m + 1 <= n => step[m][v] = Unite(v, order[m + 1][1], Ordinal(order[m + 1][2]))
  OBVIOUS
<1> HIDE DEF step
<1>4. PICK h : Recurs(Forests, f, step, h)
  BY <1>2, Recursion
<1>5. h \in [Nat -> Forests] /\ h[0] = f /\ \A m \in Nat : h[m + 1] = step[m][h[m]]
  BY <1>4 DEF Recurs
<1> DEFINE g == [k \in 0 .. n |-> h[k]]
<1>6. ASSUME NEW k \in 0 .. n
      PROVE  h[k] = IF k = 0 THEN f ELSE Unite(g[k - 1], order[k][1], Ordinal(order[k][2]))
  <2>1. CASE k = 0
    BY <1>5, <2>1
  <2>2. CASE k # 0
    <3>1. PICK m \in Nat : k = m + 1 /\ m + 1 <= n /\ m \in 0 .. n /\ k - 1 = m
      <4>1. k - 1 \in Nat /\ k = (k - 1) + 1
        BY <2>2
      <4> QED
        BY <4>1
    <3>2. h[m + 1] = Unite(h[m], order[m + 1][1], Ordinal(order[m + 1][2]))
      BY <1>3, <1>5, <3>1
    <3>3. g[k - 1] = h[m]
      BY <3>1
    <3> HIDE DEF g
    <3> QED
      BY <2>2, <3>1, <3>2, <3>3
  <2> QED
    BY <2>1, <2>2
<1>7. Unites(g, n, f, order)
  BY <1>6 DEF Unites
<1> QED
  BY <1>7

LEMMA UnitesSteps ==
  ASSUME NEW n \in Nat, NEW g, NEW f, NEW order, Unites(g, n, f, order)
  PROVE  /\ g[0] = f
         /\ \A k \in 0 .. n : k < n => g[k + 1] = Unite(g[k], order[k + 1][1], Ordinal(order[k + 1][2]))
<1> DEFINE E == [k \in 0 .. n |-> IF k = 0 THEN f
                                  ELSE Unite(g[k - 1], order[k][1], Ordinal(order[k][2]))]
<1>1. g = E
  BY DEF Unites
<1>2. E[0] = f
  OBVIOUS
<1>3. ASSUME NEW k \in 0 .. n, k < n
      PROVE  E[k + 1] = Unite(g[k], order[k + 1][1], Ordinal(order[k + 1][2]))
  <2>1. k + 1 \in 0 .. n /\ k + 1 # 0 /\ (k + 1) - 1 = k
    BY <1>3
  <2> QED
    BY <2>1
<1> HIDE DEF E
<1> QED
  BY <1>1, <1>2, <1>3

LEMMA PairsOrdered ==
  ASSUME Parsed(a), Parsed(b), NEW pairs \in SUBSET ((DOMAIN a.nodes) \X (DOMAIN b.nodes))
  PROVE  /\ IsFiniteSet(pairs)
         /\ StrictOrder({q \in pairs \X pairs : PairLess(q[1], q[2])}, pairs)
         /\ Enumerates(SortedBy(pairs, PairLess), {q \in pairs \X pairs : PairLess(q[1], q[2])}, pairs)
         /\ Len(SortedBy(pairs, PairLess)) = Cardinality(pairs)
<1> DEFINE R == {q \in pairs \X pairs : PairLess(q[1], q[2])}
           order == [i \in 1 .. Cardinality(pairs) |->
                       CHOOSE e \in pairs : Cardinality({d \in pairs : PairLess(d, e)}) = i - 1]
<1>1. IsFiniteSet(pairs)
  <2>1. IsFiniteSet((DOMAIN a.nodes) \X (DOMAIN b.nodes))
    BY IndexFacts, FS_Product
  <2> QED
    BY <2>1, FS_Subset
<1>2. \A p \in pairs : p = <<p[1], p[2]>> /\ p[1] \in Nat /\ p[2] \in Nat
  BY IndexFacts
<1>3. \A p, q \in pairs : <<p, q>> \in R <=> PairLess(p, q)
  OBVIOUS
<1>4. StrictOrder(R, pairs)
  <2> HIDE DEF R
  <2>1. \A p \in pairs : ~PairLess(p, p)
    BY <1>2 DEF PairLess
  <2>2. \A p, q, r \in pairs : PairLess(p, q) /\ PairLess(q, r) => PairLess(p, r)
    BY <1>2 DEF PairLess
  <2>3. \A p, q \in pairs : p = q \/ PairLess(p, q) \/ PairLess(q, p)
    BY <1>2 DEF PairLess
  <2> QED
    BY <1>3, <2>1, <2>2, <2>3 DEF StrictOrder
<1>5. ASSUME NEW e \in pairs PROVE {d \in pairs : PairLess(d, e)} = Below(R, pairs, e)
  BY DEF Below
<1>6. SortedBy(pairs, PairLess) = order
  BY DEF SortedBy
<1>7. DOMAIN order = 1 .. Cardinality(pairs) /\ order = [i \in 1 .. Cardinality(pairs) |-> order[i]]
  <2> DEFINE n == Cardinality(pairs)
             pick(i) == CHOOSE e \in pairs : Cardinality({d \in pairs : PairLess(d, e)}) = i - 1
  <2>1. order = [i \in 1 .. n |-> pick(i)]
    OBVIOUS
  <2> HIDE DEF n, pick, order
  <2>2. DOMAIN order = 1 .. n /\ order = [i \in 1 .. n |-> order[i]]
    BY <2>1
  <2> QED
    BY <2>2 DEF n
<1>8. \A i \in 1 .. Cardinality(pairs) :
        (\E e \in pairs : RankIn(R, pairs, e) = i - 1)
          => order[i] \in pairs /\ RankIn(R, pairs, order[i]) = i - 1
  <2>1. \A e \in pairs : Cardinality({d \in pairs : PairLess(d, e)}) = RankIn(R, pairs, e)
    BY <1>5 DEF RankIn
  <2> HIDE DEF R
  <2> QED
    BY <2>1
<1> HIDE DEF R, order
<1>9. Enumerates(order, R, pairs)
  BY <1>1, <1>4, <1>7, <1>8, EnumerationByRank
<1>10. Len(order) = Cardinality(pairs)
  BY <1>1, <1>7, FS_CardinalityType, FunctionLen
<1> QED
  BY <1>1, <1>4, <1>6, <1>9, <1>10 DEF R

\* The first m of n pairs have been united in f, which has become h.
United(h, f, m, n, order) ==
  /\ h \in Forests
  /\ \A k \in 1 .. m : Together(h, order[k][1], Ordinal(order[k][2]))
  /\ \A x, y \in Ordinals : Together(f, x, y) => Together(h, x, y)
  /\ \A S \in SUBSET Ordinals :
       Keeps(f, S) /\ (\A k \in 1 .. n : order[k][1] \in S <=> Ordinal(order[k][2]) \in S)
         => Keeps(h, S)

LEMMA UnionsJoin ==
  ASSUME Parsed(a), Parsed(b), NEW f \in Forests, NEW n \in Nat, NEW order,
         \A k \in 1 .. n : order[k] \in (DOMAIN a.nodes) \X (DOMAIN b.nodes),
         NEW g, Unites(g, n, f, order)
  PROVE  United(g[n], f, n, n, order)
<1> USE DEF United
<1> DEFINE T == {m \in 0 .. n : United(g[m], f, m, n, order)}
<1>1. 0 \in T
  <2>1. g[0] = f
    BY UnitesSteps
  <2> QED
    BY <2>1
<1>2. ASSUME NEW m \in 0 .. n, m \in T, m < n PROVE m + 1 \in T
  <2> DEFINE x == order[m + 1][1]
             y == Ordinal(order[m + 1][2])
             h == Unite(g[m], x, y)
  <2>1. g[m + 1] = h
    BY <1>2, UnitesSteps
  <2>2. x \in Ordinals /\ y \in Ordinals /\ m + 1 \in 1 .. n /\ m + 1 \in 0 .. n
    <3>1. m + 1 \in 1 .. n /\ m + 1 \in 0 .. n
      BY <1>2
    <3>2. order[m + 1] \in (DOMAIN a.nodes) \X (DOMAIN b.nodes)
      BY <3>1
    <3> QED
      BY <3>1, <3>2, IndexFacts
  <2>3. g[m] \in Forests /\ United(g[m], f, m, n, order)
    BY <1>2
  <2>4. h \in Forests
    BY <2>2, <2>3, UniteStaysForest
  <2>5. ForestOK(g[m], Ordinals) /\ Ordinals \subseteq Int
    BY <2>3, IndexFacts DEF Forests
  <2> HIDE DEF x, y
  <2>6. Together(h, x, y) /\ \A u, v \in Ordinals : Together(g[m], u, v) => Together(h, u, v)
    BY <2>2, <2>5, UniteKeeps
  <2>7. ASSUME NEW k \in 1 .. m + 1 PROVE Together(h, order[k][1], Ordinal(order[k][2]))
    <3>1. CASE k = m + 1
      BY <2>6, <3>1 DEF x, y
    <3>2. CASE k # m + 1
      <4>1. k \in 1 .. m /\ k \in 1 .. n
        BY <2>2, <3>2
      <4>2. order[k] \in (DOMAIN a.nodes) \X (DOMAIN b.nodes)
        BY <4>1
      <4>3. order[k][1] \in Ordinals /\ Ordinal(order[k][2]) \in Ordinals
        BY <4>2, IndexFacts
      <4> HIDE DEF h
      <4> QED
        BY <2>3, <2>6, <4>1, <4>3
    <3> QED
      BY <3>1, <3>2
  <2>8. ASSUME NEW S \in SUBSET Ordinals, Keeps(g[m], S), x \in S <=> y \in S PROVE Keeps(h, S)
    <3> SUFFICES ASSUME NEW u \in Ordinals, NEW v \in Ordinals, Together(h, u, v)
                 PROVE  u \in S <=> v \in S
      BY DEF Keeps
    <3>1. \/ Together(g[m], u, v)
          \/ Together(g[m], u, x) /\ Together(g[m], v, y)
          \/ Together(g[m], u, y) /\ Together(g[m], v, x)
      BY <2>2, <2>5, UniteOnly
    <3> QED
      BY <2>2, <2>8, <3>1 DEF Keeps
  <2> HIDE DEF h
  <2>9. United(h, f, m + 1, n, order)
    <3>1. \A u, v \in Ordinals : Together(f, u, v) => Together(h, u, v)
      BY <2>3, <2>6
    <3>2. ASSUME NEW S \in SUBSET Ordinals, Keeps(f, S),
                 \A k \in 1 .. n : order[k][1] \in S <=> Ordinal(order[k][2]) \in S
          PROVE  Keeps(h, S)
      <4>1. Keeps(g[m], S)
        BY <2>3, <3>2
      <4>2. x \in S <=> y \in S
        BY <2>2, <3>2 DEF x, y
      <4> QED
        BY <2>8, <4>1, <4>2
    <3> QED
      BY <2>4, <2>7, <3>1, <3>2
  <2> QED
    BY <2>1, <2>2, <2>9 DEF T
<1>3. 0 .. n \subseteq T
  <2> HIDE DEF T
  <2> QED
    BY <1>1, <1>2, IntervalInduction
<1>4. n \in 0 .. n
  OBVIOUS
<1> QED
  BY <1>3, <1>4

LEMMA UniteAllIs ==
  ASSUME Parsed(a), Parsed(b), NEW f \in Forests,
         NEW pairs \in SUBSET ((DOMAIN a.nodes) \X (DOMAIN b.nodes)),
         NEW h, h = UniteAll(f, pairs)
  PROVE  /\ h \in Forests
         /\ Joined(h, pairs)
         /\ \A x, y \in Ordinals : Together(f, x, y) => Together(h, x, y)
         /\ \A S \in SUBSET Ordinals : Keeps(f, S) /\ Respects(S, pairs) => Keeps(h, S)
<1> DEFINE order == SortedBy(pairs, PairLess)
           n == Len(order)
           g == CHOOSE after : Unites(after, n, f, order)
           R == {q \in pairs \X pairs : PairLess(q[1], q[2])}
<1>1. UniteAll(f, pairs) = g[n]
  BY DEF UniteAll, Unites
<1>2. /\ IsFiniteSet(pairs) /\ StrictOrder(R, pairs) /\ Enumerates(order, R, pairs)
      /\ n = Cardinality(pairs)
  BY PairsOrdered
<1> HIDE DEF order, R
<1>3. /\ n \in Nat
      /\ \A k \in 1 .. n : order[k] \in pairs
      /\ \A p \in pairs : \E k \in 1 .. n : order[k] = p
  <2>1. n \in Nat
    BY <1>2, FS_CardinalityType
  <2>2. \A p \in pairs : RankIn(R, pairs, p) + 1 \in DOMAIN order /\ order[RankIn(R, pairs, p) + 1] = p
    BY <1>2, EnumerationIs
  <2>3. DOMAIN order = 1 .. n /\ \A k \in 1 .. n : order[k] \in pairs
    BY <1>2 DEF Enumerates
  <2> HIDE DEF n
  <2> QED
    BY <2>1, <2>2, <2>3
<1> HIDE DEF n
<1>4. \A k \in 1 .. n : order[k] \in (DOMAIN a.nodes) \X (DOMAIN b.nodes)
  BY <1>3
<1>5. Unites(g, n, f, order)
  BY <1>3, <1>4, UnitesExists
<1> HIDE DEF g
<1>6. United(g[n], f, n, n, order)
  BY <1>3, <1>4, <1>5, UnionsJoin
<1>7. Joined(g[n], pairs)
  BY <1>3, <1>6 DEF Joined, United
<1>8. \A S \in SUBSET Ordinals : Keeps(f, S) /\ Respects(S, pairs) => Keeps(g[n], S)
  BY <1>3, <1>6 DEF Respects, United
<1> QED
  BY <1>1, <1>6, <1>7, <1>8 DEF United

-----------------------------------------------------------------------------
(* The inductive invariant.                                                *)

FilesOK == Parsed(a) /\ Parsed(b)

StageOK ==
  /\ stage \in {"nodes", "edges", "done"}
  /\ exit \in {None, 0, 1}
  /\ exit # None <=> stage = "done"
  /\ pending \subseteq SharedKeys(a, b)
  /\ stage = "nodes" => cursor = 1 /\ edges = NoEdges

\* The classes of the forest are those that the pairs make.
ForestInv ==
  /\ forest \in Forests
  /\ DOMAIN by \subseteq Active(a) \X Active(b)
  /\ Joined(forest, DOMAIN by)
  /\ \A S \in SUBSET Ordinals : Respects(S, DOMAIN by) => Keeps(forest, S)

FoundFor(keys) ==
  {p \in (DOMAIN a.nodes) \X (DOMAIN b.nodes) : \E key \in keys : FoundBy(key, p[1], p[2])}

\* The nodes that identifiers leave, and the pairs that their ids make.
RestA == Active(a) \ {p[1] : p \in Identified}
RestB == Active(b) \ {p[2] : p \in Identified}
Fallbacks == {w \in [Ids(b, RestB) -> RestB] : \A id \in DOMAIN w : b.nodes[w[id]].id = id}
SameIdPairs(w) == {<<i, w[a.nodes[i].id]>> : i \in {k \in RestA : a.nodes[k].id \in DOMAIN w}}

\* Which pairs there are: those of the keys visited so far, and in the end
\* those of the ids that a choice of nodes stands for.
FoundOK ==
  /\ stage = "nodes" => DOMAIN by = FoundFor(SharedKeys(a, b) \ pending)
  /\ stage # "nodes" =>
       /\ nodes = Classified(forest)
       /\ \E w \in Fallbacks : DOMAIN by = Identified \cup SameIdPairs(w)

ActiveEdges(file) == {i \in DOMAIN file.edges : EdgeActive(file.edges[i])}
Similar ==
  {p \in ActiveEdges(a) \X ActiveEdges(b) :
     SameBucket(a.edges[p[1]], b.edges[p[2]]) /\ EdgesMatch(a.edges[p[1]], b.edges[p[2]])}

\* The edges of b before the cursor are settled.
EdgesOK ==
  /\ cursor \in 1 .. Len(b.edges) + 1
  /\ stage = "done" => cursor = Len(b.edges) + 1
  /\ edges \in [matched : SUBSET Similar, added : SUBSET (1 .. cursor - 1)]
  /\ \A p \in edges.matched : p[2] < cursor
  /\ \A p, q \in edges.matched : p[1] = q[1] \/ p[2] = q[2] => p = q
  /\ \A j \in 1 .. cursor - 1 :
       j \in edges.added <=> j \in ActiveEdges(b) /\ ~\E p \in edges.matched : p[2] = j

ExitOK == stage = "done" => exit = IF IsEmpty(Result) THEN 0 ELSE 1

DiffInv == FilesOK /\ StageOK /\ ForestInv /\ FoundOK /\ EdgesOK /\ ExitOK

-----------------------------------------------------------------------------
(* A comparison begins, this way or the other.                             *)

Fresh ==
  /\ stage = "nodes" /\ exit = None
  /\ pending = SharedKeys(a, b)
  /\ forest = NewForest(1 .. Len(a.nodes) + Len(b.nodes))
  /\ by = NoPairs /\ cursor = 1 /\ edges = NoEdges

LEMMA FreshStarts == FilesOK /\ Fresh => DiffInv
<1> SUFFICES ASSUME FilesOK, Fresh PROVE DiffInv
  OBVIOUS
<1>1. StageOK
  <2>1. None \notin {0, 1}
    BY DiffAssumption
  <2> QED
    BY <2>1 DEF Fresh, StageOK
<1>2. DOMAIN by = {}
  BY DEF Fresh, NoPairs
<1>3. ForestInv
  <2>1. forest \in Forests
    <3>1. forest = NewForest(Ordinals)
      BY DEF Fresh, Ordinals
    <3>2. ForestOK(forest, Ordinals)
      BY <3>1, NewForestIs
    <3>3. forest = [rep |-> forest.rep, rank |-> forest.rank]
      BY <3>1 DEF NewForest
    <3> QED
      BY <3>2, <3>3 DEF Forests, ForestOK
  <2>2. \A o \in Ordinals : forest.rep[o] = o
    BY NewForestIs DEF Fresh, Ordinals
  <2>3. ASSUME NEW S \in SUBSET Ordinals PROVE Keeps(forest, S)
    BY <2>2 DEF Keeps, Together
  <2> QED
    BY <1>2, <2>1, <2>3 DEF ForestInv, Joined
<1>4. FoundOK
  <2>1. SharedKeys(a, b) \ pending = {}
    BY DEF Fresh
  <2>2. FoundFor({}) = {}
    BY DEF FoundFor
  <2> QED
    BY <1>2, <2>1, <2>2 DEF Fresh, FoundOK
<1>5. EdgesOK
  <2>1. Len(b.edges) \in Nat /\ cursor = 1 /\ stage = "nodes"
    BY IndexFacts DEF FilesOK, Fresh
  <2>2. 1 \in 1 .. Len(b.edges) + 1 /\ 1 .. 1 - 1 = {}
    BY <2>1
  <2>3. edges = [matched |-> {}, added |-> {}]
    BY DEF Fresh, NoEdges
  <2> QED
    BY <2>1, <2>2, <2>3 DEF EdgesOK
<1>6. ExitOK
  BY DEF Fresh, ExitOK
<1> QED
  BY <1>1, <1>3, <1>4, <1>5, <1>6 DEF DiffInv

LEMMA DiffInit == Init => DiffInv
<1> SUFFICES ASSUME Init PROVE DiffInv
  OBVIOUS
<1>1. FilesOK
  BY DiffAssumption DEF Init, FilesOK
<1>2. Fresh
  BY DEF Init, Fresh
<1> QED
  BY <1>1, <1>2, FreshStarts

LEMMA ReverseStep ==
  ASSUME DiffInv, Reverse
  PROVE  DiffInv'
<1>1. FilesOK'
  BY DEF DiffInv, FilesOK, Reverse
<1>2. Fresh'
  BY DEF Reverse, Fresh
<1>3. (FilesOK /\ Fresh => DiffInv)'
  BY FreshStarts, PTL
<1> QED
  BY <1>1, <1>2, <1>3

-----------------------------------------------------------------------------
(* Nodes are paired.                                                       *)

LEMMA ActiveIs ==
  ASSUME FilesOK
  PROVE  /\ Active(a) \subseteq DOMAIN a.nodes /\ Active(b) \subseteq DOMAIN b.nodes
         /\ \A i \in Active(a) : i \in Ordinals
         /\ \A j \in Active(b) : Ordinal(j) \in Ordinals
BY IndexFacts DEF FilesOK, Active

LEMMA ForestGrows ==
  ASSUME FilesOK, ForestInv, NEW pairs \in SUBSET (Active(a) \X Active(b)),
         forest' = UniteAll(forest, pairs), DOMAIN by' = DOMAIN by \cup pairs,
         UNCHANGED <<a, b, filter>>
  PROVE  ForestInv'
<1>1. /\ Ordinals' = Ordinals /\ Forests' = Forests
      /\ Active(a)' = Active(a) /\ Active(b)' = Active(b)
  BY DEF Ordinals, Forests, Active
<1>2. pairs \in SUBSET ((DOMAIN a.nodes) \X (DOMAIN b.nodes)) /\ Parsed(a) /\ Parsed(b)
  BY ActiveIs DEF FilesOK
<1>3. forest \in Forests
  BY DEF ForestInv
<1>4. /\ forest' \in Forests
      /\ Joined(forest', pairs)
      /\ \A x, y \in Ordinals : Together(forest, x, y) => Together(forest', x, y)
      /\ \A S \in SUBSET Ordinals : Keeps(forest, S) /\ Respects(S, pairs) => Keeps(forest', S)
  BY <1>2, <1>3, UniteAllIs
<1>5. Joined(forest', DOMAIN by \cup pairs)
  <2>1. \A p \in DOMAIN by : p[1] \in Ordinals /\ Ordinal(p[2]) \in Ordinals
    BY ActiveIs DEF ForestInv
  <2> QED
    BY <1>4, <2>1 DEF ForestInv, Joined
<1>6. ASSUME NEW S \in SUBSET Ordinals, Respects(S, DOMAIN by \cup pairs) PROVE Keeps(forest', S)
  <2>1. Respects(S, DOMAIN by) /\ Respects(S, pairs)
    BY <1>6 DEF Respects
  <2> QED
    BY <1>4, <2>1 DEF ForestInv
<1>7. DOMAIN by' \subseteq Active(a) \X Active(b)
  BY DEF ForestInv
<1>8. Joined(forest, DOMAIN by)'
  BY <1>5 DEF Joined, Ordinal
<1>9. ASSUME NEW S \in SUBSET Ordinals, Respects(S, DOMAIN by)' PROVE Keeps(forest, S)'
  <2>1. Respects(S, DOMAIN by \cup pairs)
    BY <1>9 DEF Respects, Ordinal
  <2>2. Keeps(forest', S)
    BY <1>6, <2>1
  <2> QED
    BY <2>2 DEF Keeps, Ordinals
<1> QED
  BY <1>1, <1>4, <1>7, <1>8, <1>9 DEF ForestInv

LEMMA NotedDomain ==
  ASSUME NEW pairs, NEW what
  PROVE  DOMAIN Noted(pairs, what) = DOMAIN by \cup pairs
BY DEF Noted

LEMMA VisitStep ==
  ASSUME DiffInv, NEW key \in pending, VisitKey(key)
  PROVE  DiffInv'
<1> DEFINE pairs == {p \in (DOMAIN a.nodes) \X (DOMAIN b.nodes) : FoundBy(key, p[1], p[2])}
<1> USE DEF DiffInv
<1>1. /\ stage = "nodes" /\ pending' = pending \ {key}
      /\ forest' = UniteAll(forest, pairs) /\ by' = Noted(pairs, key)
      /\ UNCHANGED <<a, b, filter, stage, nodes, cursor, edges, exit, before>>
  BY DEF VisitKey
<1>2. pairs \in SUBSET (Active(a) \X Active(b))
  BY DEF FoundBy
<1>3. pairs = FoundFor({key})
  BY DEF FoundFor
<1> HIDE DEF pairs
<1>4. DOMAIN by' = DOMAIN by \cup pairs
  BY <1>1, NotedDomain
<1>5. FilesOK'
  BY <1>1 DEF FilesOK
<1>6. StageOK'
  BY <1>1 DEF StageOK
<1>7. ForestInv'
  BY <1>1, <1>2, <1>4, ForestGrows
<1>8. FoundOK'
  <2>1. SharedKeys(a, b) \ pending' = (SharedKeys(a, b) \ pending) \cup {key}
    BY <1>1 DEF StageOK
  <2>2. FoundFor((SharedKeys(a, b) \ pending) \cup {key})
          = FoundFor(SharedKeys(a, b) \ pending) \cup FoundFor({key})
    BY DEF FoundFor
  <2>3. DOMAIN by' = FoundFor(SharedKeys(a, b) \ pending')
    BY <1>1, <1>3, <1>4, <2>1, <2>2 DEF FoundOK
  <2>4. \A keys : FoundFor(keys)' = FoundFor(keys)
    BY <1>1 DEF FoundFor, FoundBy, Active
  <2>5. SharedKeys(a, b)' = SharedKeys(a, b)
    BY <1>1
  <2>6. FoundFor(SharedKeys(a, b) \ pending)' = FoundFor(SharedKeys(a, b) \ pending')
    BY <2>4, <2>5
  <2> QED
    BY <1>1, <2>3, <2>6 DEF FoundOK
<1>9. EdgesOK'
  BY <1>1 DEF EdgesOK, StageOK, NoEdges
<1>10. ExitOK'
  BY <1>1 DEF ExitOK
<1> QED
  BY <1>5, <1>6, <1>7, <1>8, <1>9, <1>10

LEMMA RecordsAre ==
  ASSUME NEW x, IsSequence(x.ids)
  PROVE  /\ RecordsOf(x) = {x.ids[k] : k \in {l \in DOMAIN x.ids : x.ids[l].scheme # "internal"}}
         /\ ExternalKeys(x.ids) = {CanonicalId(r) : r \in RecordsOf(x)}
<1> DEFINE ext == External(x.ids)
<1>1. /\ \A i \in DOMAIN ext : \E k \in DOMAIN x.ids :
           x.ids[k].scheme # "internal" /\ ext[i] = x.ids[k]
      /\ \A k \in DOMAIN x.ids : x.ids[k].scheme # "internal" =>
           \E i \in DOMAIN ext : ext[i] = x.ids[k]
  BY ExternalIs
<1>2. /\ RecordsOf(x) = {ext[k] : k \in DOMAIN ext}
      /\ ExternalKeys(x.ids) = {CanonicalId(ext[k]) : k \in DOMAIN ext}
  BY DEF RecordsOf, ExternalKeys
<1> HIDE DEF ext
<1>3. {ext[k] : k \in DOMAIN ext}
        = {x.ids[k] : k \in {l \in DOMAIN x.ids : x.ids[l].scheme # "internal"}}
  BY <1>1
<1>4. {CanonicalId(ext[k]) : k \in DOMAIN ext} = {CanonicalId(r) : r \in RecordsOf(x)}
  BY <1>2
<1> QED
  BY <1>2, <1>3, <1>4

LEMMA AnyMatchOf ==
  ASSUME NEW x, NEW ids
  PROVE  AnyMatch(<<x>>, ids) <=> \E m \in DOMAIN ids : IdentifiersMatch(x, ids[m])
BY DEF AnyMatch

LEMMA NodeIds ==
  ASSUME FilesOK
  PROVE  /\ \A i \in DOMAIN a.nodes : IsSequence(a.nodes[i].ids)
         /\ \A j \in DOMAIN b.nodes : IsSequence(b.nodes[j].ids)
BY DEF FilesOK, Parsed, Typed, HasIdentifiers

\* The keys together find the nodes that identifiers link.
LEMMA FoundIsIdentified ==
  ASSUME FilesOK
  PROVE  FoundFor(SharedKeys(a, b)) = Identified
<1>1. ASSUME NEW p \in FoundFor(SharedKeys(a, b)) PROVE p \in Identified
  <2>1. PICK key \in SharedKeys(a, b) : FoundBy(key, p[1], p[2])
    BY DEF FoundFor
  <2>2. /\ p \in (DOMAIN a.nodes) \X (DOMAIN b.nodes)
        /\ p[1] \in Active(a) /\ p[2] \in Active(b)
        /\ key \in ExternalKeys(b.nodes[p[2]].ids)
    BY <2>1 DEF FoundFor, FoundBy
  <2>3. PICK k \in DOMAIN a.nodes[p[1]].ids :
          /\ CanonicalId(a.nodes[p[1]].ids[k]) = key
          /\ AnyMatch(<<a.nodes[p[1]].ids[k]>>, b.nodes[p[2]].ids)
    BY <2>1 DEF FoundBy
  <2> DEFINE x == a.nodes[p[1]].ids[k]
  <2>4. x.scheme # "internal"
    <3> HIDE DEF x
    <3>1. AnyMatch(<<x>>, b.nodes[p[2]].ids)
      BY <2>3 DEF x
    <3> QED
      BY <3>1, AnyMatchOf DEF IdentifiersMatch
  <2>5. x \in RecordsOf(a.nodes[p[1]])
    BY <2>2, <2>4, NodeIds, RecordsAre
  <2>6. p \in Active(a) \X Active(b)
    BY <2>2
  <2> QED
    BY <2>2, <2>3, <2>5, <2>6 DEF Identified
<1>2. ASSUME NEW p \in Identified PROVE p \in FoundFor(SharedKeys(a, b))
  <2>1. p \in Active(a) \X Active(b)
    BY DEF Identified
  <2>2. PICK x \in RecordsOf(a.nodes[p[1]]) :
          /\ CanonicalId(x) \in ExternalKeys(b.nodes[p[2]].ids)
          /\ AnyMatch(<<x>>, b.nodes[p[2]].ids)
    BY DEF Identified
  <2>3. p[1] \in DOMAIN a.nodes /\ p[2] \in DOMAIN b.nodes
    BY <2>1, ActiveIs
  <2>4. PICK k \in DOMAIN a.nodes[p[1]].ids : x = a.nodes[p[1]].ids[k]
    BY <2>3, NodeIds, RecordsAre
  <2>5. CanonicalId(x) \in ExternalKeys(a.nodes[p[1]].ids)
    BY <2>3, NodeIds, RecordsAre
  <2>6. FoundBy(CanonicalId(x), p[1], p[2])
    BY <2>1, <2>2, <2>4, <2>5 DEF FoundBy
  <2>7. CanonicalId(x) \in SharedKeys(a, b)
    BY <2>2, <2>3, <2>5 DEF SharedKeys
  <2> QED
    BY <2>1, <2>3, <2>6, <2>7 DEF FoundFor
<1> QED
  BY <1>1, <1>2

LEMMA SameIdPairsAre ==
  ASSUME NEW w \in Fallbacks
  PROVE  /\ SameIdPairs(w) \subseteq RestA \X RestB
         /\ \A p \in SameIdPairs(w) : a.nodes[p[1]].id = b.nodes[p[2]].id
BY DEF Fallbacks, SameIdPairs

LEMMA MatchRestStep ==
  ASSUME DiffInv, MatchRest
  PROVE  DiffInv'
<1> USE DEF DiffInv
<1>1. /\ stage = "nodes" /\ pending = {} /\ stage' = "edges" /\ nodes' = Classified(forest')
      /\ UNCHANGED <<a, b, filter, pending, cursor, edges, exit, before>>
  BY DEF MatchRest
<1>2. DOMAIN by = Identified
  <2>1. SharedKeys(a, b) \ pending = SharedKeys(a, b)
    BY <1>1
  <2> QED
    BY <1>1, <2>1, FoundIsIdentified DEF FoundOK
<1>3. FallbackChoices = Fallbacks /\ LeftA = RestA
  BY <1>2 DEF FallbackChoices, Fallbacks, LeftA, LeftB, RestA, RestB
<1>4. PICK w \in Fallbacks :
        /\ forest' = UniteAll(forest, SameIdPairs(w))
        /\ by' = Noted(SameIdPairs(w), <<"node-id">>)
  BY <1>3 DEF MatchRest, SameIdPairs
<1>5. DOMAIN by' = Identified \cup SameIdPairs(w)
  BY <1>2, <1>4, NotedDomain
<1>6. FilesOK'
  BY <1>1 DEF FilesOK
<1>7. StageOK'
  BY <1>1 DEF StageOK
<1>8. SameIdPairs(w) \in SUBSET (Active(a) \X Active(b))
  BY SameIdPairsAre DEF RestA, RestB
<1>9. ForestInv'
  BY <1>1, <1>2, <1>4, <1>5, <1>8, ForestGrows
<1>10. FoundOK'
  <2>1. Identified' = Identified
    BY <1>1 DEF Identified, Active
  <2>2. Fallbacks' = Fallbacks
    BY <1>1, <2>1 DEF Fallbacks, RestB, Active, Ids
  <2>3. SameIdPairs(w)' = SameIdPairs(w)
    BY <1>1, <2>1 DEF SameIdPairs, RestA, Active
  <2>4. Classified(forest)' = Classified(forest')
    BY <1>1 DEF Classified, Active, Ordinal
  <2>5. \E u \in Fallbacks' : DOMAIN by' = Identified' \cup SameIdPairs(u)'
    BY <1>5, <2>1, <2>2, <2>3
  <2> QED
    BY <1>1, <2>4, <2>5 DEF FoundOK
<1>11. EdgesOK'
  BY <1>1 DEF EdgesOK, StageOK, NoEdges
<1>12. ExitOK'
  BY <1>1 DEF ExitOK
<1> QED
  BY <1>6, <1>7, <1>9, <1>10, <1>11, <1>12

-----------------------------------------------------------------------------
(* Edges are paired.                                                       *)

\* What the edge steps leave alone.
LEMMA EdgeFrame ==
  ASSUME DiffInv, AtEdge, UNCHANGED <<a, b, filter, stage, pending, forest, by, nodes, exit, before>>
  PROVE  /\ FilesOK' /\ StageOK' /\ ForestInv' /\ FoundOK' /\ ExitOK'
         /\ cursor \in DOMAIN b.edges /\ DOMAIN b.edges = 1 .. Len(b.edges) /\ Len(b.edges) \in Nat
<1> USE DEF DiffInv, AtEdge
<1>1. FilesOK' /\ StageOK' /\ ExitOK'
  BY DEF FilesOK, StageOK, ExitOK
<1>2. ForestInv'
  BY DEF ForestInv, Forests, Ordinals, Active, Joined, Respects, Keeps, Ordinal
<1>3. FoundOK'
  <2>1. Identified' = Identified /\ Classified(forest)' = Classified(forest)
    BY DEF Identified, Active, Classified, Ordinal
  <2>2. Fallbacks' = Fallbacks
    BY <2>1 DEF Fallbacks, RestB, Active, Ids
  <2>3. \A w : SameIdPairs(w)' = SameIdPairs(w)
    BY <2>1 DEF SameIdPairs, RestA, Active
  <2> QED
    BY <2>1, <2>2, <2>3 DEF FoundOK
<1>4. cursor \in DOMAIN b.edges /\ DOMAIN b.edges = 1 .. Len(b.edges) /\ Len(b.edges) \in Nat
  BY IndexFacts DEF FilesOK
<1> QED
  BY <1>1, <1>2, <1>3, <1>4

LEMMA SimilarAre ==
  ASSUME FilesOK
  PROVE  \A p \in Similar : p[1] \in Nat /\ p[2] \in Nat
BY IndexFacts DEF FilesOK, Similar, ActiveEdges

LEMMA EdgeSetsStay ==
  ASSUME UNCHANGED <<a, b, filter, forest>>
  PROVE  ActiveEdges(a)' = ActiveEdges(a) /\ ActiveEdges(b)' = ActiveEdges(b) /\ Similar' = Similar
<1>1. \A id : RepOf(id)' = RepOf(id)
  BY DEF RepOf, Ordinal
<1>2. \A id : EndAllowed(id)' <=> EndAllowed(id)
  BY DEF EndAllowed
<1>3. \A e : EdgeActive(e)' <=> EdgeActive(e)
  BY <1>2 DEF EdgeActive
<1>4. \A file : ActiveEdges(file)' = ActiveEdges(file)
  BY <1>3 DEF ActiveEdges
<1>5. ActiveEdges(a)' = ActiveEdges(a) /\ ActiveEdges(b)' = ActiveEdges(b)
  BY <1>4
<1>6. Similar' = Similar
  BY <1>1, <1>5 DEF SameBucket, Similar
<1> QED
  BY <1>5, <1>6

\* The next edge is looked at, the settled ones stay so.
Settles(m) ==
  /\ edges' = m
  /\ m \in [matched : SUBSET Similar, added : SUBSET (1 .. cursor)]
  /\ \A p \in m.matched : p[2] <= cursor
  /\ \A p, q \in m.matched : p[1] = q[1] \/ p[2] = q[2] => p = q
  /\ \A j \in 1 .. cursor :
       j \in m.added <=> j \in ActiveEdges(b) /\ ~\E p \in m.matched : p[2] = j

LEMMA EdgeStep ==
  ASSUME DiffInv, AtEdge, NEW m, Settles(m), cursor' = cursor + 1,
         UNCHANGED <<a, b, filter, stage, pending, forest, by, nodes, exit, before>>
  PROVE  DiffInv'
<1>1. /\ FilesOK' /\ StageOK' /\ ForestInv' /\ FoundOK' /\ ExitOK'
      /\ cursor \in DOMAIN b.edges /\ DOMAIN b.edges = 1 .. Len(b.edges) /\ Len(b.edges) \in Nat
  BY EdgeFrame
<1>2. /\ cursor' \in 1 .. Len(b'.edges) + 1 /\ 1 .. cursor' - 1 = 1 .. cursor
      /\ \A j \in DOMAIN b.edges : j <= cursor => j < cursor'
  BY <1>1
<1>3. ActiveEdges(b)' = ActiveEdges(b) /\ Similar' = Similar
  BY EdgeSetsStay
<1>4. stage' = "edges"
  BY DEF AtEdge
<1>5. \A p \in Similar : p[2] \in DOMAIN b.edges
  BY DEF Similar, ActiveEdges
<1>6. \A p \in m.matched : p[2] < cursor'
  BY <1>2, <1>5 DEF Settles
<1>7. EdgesOK'
  BY <1>2, <1>3, <1>4, <1>6 DEF EdgesOK, Settles
<1> QED
  BY <1>1, <1>7 DEF DiffInv

LEMMA SkipStep ==
  ASSUME DiffInv, SkipEdge
  PROVE  DiffInv'
<1>1. /\ AtEdge /\ ~EdgeActive(b.edges[cursor]) /\ cursor' = cursor + 1 /\ edges' = edges
      /\ UNCHANGED <<a, b, filter, stage, pending, forest, by, nodes, exit, before>>
  BY DEF SkipEdge
<1>2. cursor \in Nat \ {0}
  BY <1>1, EdgeFrame
<1>3. Settles(edges)
  <2>1. EdgesOK
    BY DEF DiffInv
  <2>2. \A p \in edges.matched : p[2] # cursor /\ p[2] <= cursor
    BY <1>2, <2>1, SimilarAre DEF DiffInv, EdgesOK
  <2>3. cursor \notin edges.added /\ cursor \notin ActiveEdges(b)
    BY <1>1, <1>2, <2>1 DEF EdgesOK, ActiveEdges
  <2>4. \A j \in 1 .. cursor : j = cursor \/ j \in 1 .. cursor - 1
    BY <1>2
  <2>5. 1 .. cursor - 1 \subseteq 1 .. cursor
    BY <1>2
  <2> QED
    BY <1>1, <2>1, <2>2, <2>3, <2>4, <2>5 DEF EdgesOK, Settles
<1> QED
  BY <1>1, <1>3, EdgeStep

LEMMA PairStep ==
  ASSUME DiffInv, PairEdge
  PROVE  DiffInv'
<1>1. /\ AtEdge /\ EdgeActive(b.edges[cursor]) /\ cursor' = cursor + 1
      /\ UNCHANGED <<a, b, filter, stage, pending, forest, by, nodes, exit, before>>
  BY DEF PairEdge
<1>2. cursor \in Nat \ {0}
  BY <1>1, EdgeFrame
<1>3. PICK i \in Candidates(b.edges[cursor]) :
        edges' = [edges EXCEPT !.matched = @ \cup {<<i, cursor>>}]
  BY DEF PairEdge
<1>4. EdgesOK
  BY DEF DiffInv
<1> DEFINE m == [matched |-> edges.matched \cup {<<i, cursor>>}, added |-> edges.added]
<1>5. edges' = m
  BY <1>3, <1>4 DEF EdgesOK
<1>6. Settles(m)
  <2>1. \A p \in edges.matched : p[2] # cursor /\ p[1] # i /\ p[2] <= cursor
    <3>1. \A p \in edges.matched : p[2] \in Nat /\ p[2] < cursor
      BY <1>4, SimilarAre DEF DiffInv, EdgesOK
    <3>2. \A p \in edges.matched : p[1] # i
      BY <1>3 DEF Candidates
    <3> QED
      BY <1>2, <3>1, <3>2
  <2>2. cursor \notin edges.added
    BY <1>2, <1>4 DEF EdgesOK
  <2>3. \A j \in 1 .. cursor : j = cursor \/ j \in 1 .. cursor - 1
    BY <1>2
  <2>4. 1 .. cursor - 1 \subseteq 1 .. cursor
    BY <1>2
  <2>5. <<i, cursor>> \in Similar
    <3>1. i \in ActiveEdges(a) /\ cursor \in ActiveEdges(b)
      BY <1>1, <1>3 DEF ActiveEdges, Candidates, AtEdge
    <3> QED
      BY <1>3, <3>1 DEF Similar, Candidates
  <2>6. m \in [matched : SUBSET Similar, added : SUBSET (1 .. cursor)]
    BY <1>4, <2>4, <2>5 DEF EdgesOK
  <2>7. \A p \in m.matched : p[2] <= cursor
    BY <1>2, <2>1
  <2>8. \A p, q \in m.matched : p[1] = q[1] \/ p[2] = q[2] => p = q
    BY <1>4, <2>1 DEF EdgesOK
  <2>9. ASSUME NEW j \in 1 .. cursor
        PROVE  j \in m.added <=> j \in ActiveEdges(b) /\ ~\E p \in m.matched : p[2] = j
    <3>1. CASE j = cursor
      <4>1. <<i, cursor>> \in m.matched /\ <<i, cursor>>[2] = cursor
        OBVIOUS
      <4>2. m.added = edges.added
        OBVIOUS
      <4> HIDE DEF m
      <4> QED
        BY <2>2, <3>1, <4>1, <4>2
    <3>2. CASE j # cursor
      <4>1. j \in 1 .. cursor - 1
        BY <2>3, <3>2
      <4>2. (\E p \in m.matched : p[2] = j) <=> (\E p \in edges.matched : p[2] = j)
        BY <3>2
      <4> QED
        BY <1>4, <4>1, <4>2 DEF EdgesOK
    <3> QED
      BY <3>1, <3>2
  <2> HIDE DEF m
  <2> QED
    BY <1>5, <2>6, <2>7, <2>8, <2>9 DEF Settles
<1> HIDE DEF m
<1> QED
  BY <1>1, <1>6, EdgeStep

LEMMA AddStep ==
  ASSUME DiffInv, AddEdge
  PROVE  DiffInv'
<1>1. /\ AtEdge /\ EdgeActive(b.edges[cursor]) /\ cursor' = cursor + 1
      /\ edges' = [edges EXCEPT !.added = @ \cup {cursor}]
      /\ UNCHANGED <<a, b, filter, stage, pending, forest, by, nodes, exit, before>>
  BY DEF AddEdge
<1>2. cursor \in Nat \ {0}
  BY <1>1, EdgeFrame
<1>3. EdgesOK
  BY DEF DiffInv
<1> DEFINE m == [matched |-> edges.matched, added |-> edges.added \cup {cursor}]
<1>4. edges' = m
  BY <1>1, <1>3 DEF EdgesOK
<1>5. Settles(m)
  <2>1. \A p \in edges.matched : p[2] # cursor /\ p[2] <= cursor
    BY <1>2, <1>3, SimilarAre DEF DiffInv, EdgesOK
  <2>2. \A j \in 1 .. cursor : j = cursor \/ j \in 1 .. cursor - 1
    BY <1>2
  <2>3. 1 .. cursor - 1 \subseteq 1 .. cursor /\ cursor \in 1 .. cursor
    BY <1>2
  <2>4. m \in [matched : SUBSET Similar, added : SUBSET (1 .. cursor)]
    BY <1>3, <2>3 DEF EdgesOK
  <2>5. cursor \in ActiveEdges(b)
    BY <1>1 DEF ActiveEdges, AtEdge
  <2>6. \A j \in 1 .. cursor :
          j \in m.added <=> j \in ActiveEdges(b) /\ ~\E p \in m.matched : p[2] = j
    BY <1>3, <2>1, <2>2, <2>5 DEF EdgesOK
  <2> QED
    BY <1>3, <1>4, <2>1, <2>4, <2>6 DEF EdgesOK, Settles
<1> HIDE DEF m
<1> QED
  BY <1>1, <1>5, EdgeStep

LEMMA ResultIs ==
  Result =
    [nodesRemoved  |-> nodes.removed,
     nodesAdded    |-> nodes.added,
     nodesMatched  |-> nodes.matched,
     nodesModified |-> {p \in nodes.matched : IsModified(a.nodes[p[1]], b.nodes[p[2]])},
     edgesRemoved  |-> ActiveEdges(a) \ {p[1] : p \in edges.matched},
     edgesAdded    |-> edges.added,
     edgesMatched  |-> edges.matched,
     edgesModified |-> {p \in edges.matched : IsModified(a.edges[p[1]], b.edges[p[2]])}]
BY DEF Result, RemovedEdges, ActiveEdges

LEMMA ResultStays ==
  ASSUME UNCHANGED <<a, b, filter, forest, nodes, edges>>
  PROVE  Result' = Result
<1>1. \A x, y : IsModified(x, y)' <=> IsModified(x, y)
  BY DEF IsModified, PropertyChanges
<1> DEFINE modifiedNodes == {p \in nodes.matched : IsModified(a.nodes[p[1]], b.nodes[p[2]])}
           modifiedEdges == {p \in edges.matched : IsModified(a.edges[p[1]], b.edges[p[2]])}
<1>2. modifiedNodes' = modifiedNodes /\ modifiedEdges' = modifiedEdges
  BY <1>1
<1>3. RemovedEdges' = RemovedEdges
  BY EdgeSetsStay DEF RemovedEdges, ActiveEdges
<1> QED
  BY <1>2, <1>3 DEF Result

LEMMA FinishStep ==
  ASSUME DiffInv, Finish
  PROVE  DiffInv'
<1> USE DEF DiffInv
<1>1. /\ stage = "edges" /\ cursor \notin DOMAIN b.edges /\ stage' = "done"
      /\ exit' = IF IsEmpty(Result) THEN 0 ELSE 1
      /\ UNCHANGED <<a, b, filter, pending, forest, by, nodes, cursor, edges, before>>
  BY DEF Finish
<1>2. FilesOK'
  BY <1>1 DEF FilesOK
<1>3. StageOK'
  <2>1. exit' # None /\ exit' \in {0, 1}
    BY <1>1, DiffAssumption
  <2> QED
    BY <1>1, <2>1 DEF StageOK
<1>4. ForestInv'
  BY <1>1 DEF ForestInv, Forests, Ordinals, Active, Joined, Respects, Keeps, Ordinal
<1>5. FoundOK'
  <2>1. Identified' = Identified /\ Classified(forest)' = Classified(forest)
    BY <1>1 DEF Identified, Active, Classified, Ordinal
  <2>2. Fallbacks' = Fallbacks
    BY <1>1, <2>1 DEF Fallbacks, RestB, Active, Ids
  <2>3. \A w : SameIdPairs(w)' = SameIdPairs(w)
    BY <1>1, <2>1 DEF SameIdPairs, RestA, Active
  <2> QED
    BY <1>1, <2>1, <2>2, <2>3 DEF FoundOK
<1>6. EdgesOK'
  <2>1. cursor = Len(b.edges) + 1
    <3>1. DOMAIN b.edges = 1 .. Len(b.edges) /\ Len(b.edges) \in Nat
      BY IndexFacts DEF FilesOK
    <3> QED
      BY <1>1, <3>1 DEF EdgesOK
  <2> QED
    BY <1>1, <2>1, EdgeSetsStay DEF EdgesOK
<1>7. ExitOK'
  <2>1. Result' = Result
    BY <1>1, ResultStays
  <2>2. IsEmpty(Result)' <=> IsEmpty(Result)
    BY <2>1 DEF IsEmpty
  <2> QED
    BY <1>1, <2>2 DEF ExitOK
<1> QED
  BY <1>2, <1>3, <1>4, <1>5, <1>6, <1>7

LEMMA DiffStep == DiffInv /\ [Next]_vars => DiffInv'
<1> SUFFICES ASSUME DiffInv, [Next]_vars PROVE DiffInv'
  OBVIOUS
<1>1. CASE UNCHANGED vars
  <2> USE <1>1 DEF vars, DiffInv
  <2>1. FilesOK' /\ StageOK'
    BY DEF FilesOK, StageOK
  <2>2. ForestInv'
    BY DEF ForestInv, Forests, Ordinals, Active, Joined, Respects, Keeps, Ordinal
  <2>3. FoundOK'
    <3>1. Identified' = Identified /\ Classified(forest)' = Classified(forest)
      BY DEF Identified, Active, Classified, Ordinal
    <3>2. Fallbacks' = Fallbacks
      BY <3>1 DEF Fallbacks, RestB, Active, Ids
    <3>3. \A w : SameIdPairs(w)' = SameIdPairs(w)
      BY <3>1 DEF SameIdPairs, RestA, Active
    <3>4. FoundFor(SharedKeys(a, b) \ pending)' = FoundFor(SharedKeys(a, b) \ pending)
      BY DEF FoundFor, FoundBy, Active
    <3> QED
      BY <3>1, <3>2, <3>3, <3>4 DEF FoundOK
  <2>4. EdgesOK'
    BY EdgeSetsStay DEF EdgesOK
  <2>5. ExitOK'
    <3>1. Result' = Result
      BY ResultStays
    <3>2. IsEmpty(Result)' <=> IsEmpty(Result)
      BY <3>1 DEF IsEmpty
    <3> QED
      BY <3>2 DEF ExitOK
  <2> QED
    BY <2>1, <2>2, <2>3, <2>4, <2>5
<1> QED
  BY <1>1, VisitStep, MatchRestStep, SkipStep, PairStep, AddStep, FinishStep, ReverseStep DEF Next

(* The pairs found so far are the classes of the forest, and each edge of  *)
(* the second file before the cursor is paired once or added.              *)
THEOREM DiffInvHolds == Spec => []DiffInv
<1> QED
  BY DiffInit, DiffStep, PTL DEF Spec

-----------------------------------------------------------------------------
(* What the invariant says of a finished classification.                   *)

LEMMA NodesAre ==
  ASSUME DiffInv, stage # "nodes"
  PROVE  /\ nodes.matched = {p \in Active(a) \X Active(b) : Together(forest, p[1], Ordinal(p[2]))}
         /\ nodes.removed = Active(a) \ {p[1] : p \in nodes.matched}
         /\ nodes.added = Active(b) \ {p[2] : p \in nodes.matched}
         /\ DOMAIN by \subseteq nodes.matched
<1>1. nodes = Classified(forest)
  BY DEF DiffInv, FoundOK
<1>2. nodes.matched = {p \in Active(a) \X Active(b) : Together(forest, p[1], Ordinal(p[2]))}
  BY <1>1 DEF Classified, Together
<1>3. /\ nodes.removed = Active(a) \ {p[1] : p \in nodes.matched}
      /\ nodes.added = Active(b) \ {p[2] : p \in nodes.matched}
  BY <1>1 DEF Classified
<1>4. DOMAIN by \subseteq nodes.matched
  BY <1>2 DEF DiffInv, ForestInv, Joined
<1> QED
  BY <1>2, <1>3, <1>4

LEMMA TypesAre == DiffInv => TypeOK
<1> SUFFICES ASSUME DiffInv PROVE TypeOK
  OBVIOUS
<1> USE DEF DiffInv
<1>1. DOMAIN forest.rep = 1 .. Len(a.nodes) + Len(b.nodes)
  BY DEF ForestInv, Forests, Ordinals
<1>2. ASSUME stage # "nodes"
      PROVE  /\ DOMAIN by \subseteq nodes.matched
             /\ Active(a) = nodes.removed \cup {p[1] : p \in nodes.matched}
             /\ Active(b) = nodes.added \cup {p[2] : p \in nodes.matched}
  BY <1>2, NodesAre
<1>3. ASSUME NEW j \in 1 .. cursor - 1, EdgeActive(b.edges[j])
      PROVE  Cardinality({p \in edges.matched : p[2] = j}) = IF j \in edges.added THEN 0 ELSE 1
  <2>1. j \in ActiveEdges(b)
    <3>1. Len(b.edges) \in Nat /\ DOMAIN b.edges = 1 .. Len(b.edges)
      BY IndexFacts DEF FilesOK
    <3>2. j \in DOMAIN b.edges
      BY <3>1 DEF EdgesOK
    <3> QED
      BY <1>3, <3>2 DEF ActiveEdges
  <2>2. CASE j \in edges.added
    <3>1. {p \in edges.matched : p[2] = j} = {}
      BY <2>2 DEF EdgesOK
    <3> QED
      BY <2>2, <3>1, FS_EmptySet
  <2>3. CASE j \notin edges.added
    <3>1. PICK p \in edges.matched : p[2] = j
      BY <2>1, <2>3 DEF EdgesOK
    <3>2. {q \in edges.matched : q[2] = j} = {p}
      BY <3>1 DEF EdgesOK
    <3> QED
      BY <2>3, <3>2, FS_Singleton
  <2> QED
    BY <2>2, <2>3
<1>4. \A p, q \in edges.matched : p[1] = q[1] => p = q
  BY DEF EdgesOK
<1> QED
  BY <1>1, <1>2, <1>3, <1>4 DEF TypeOK, StageOK, ForestInv

(* Every active node and edge that has been looked at is either matched or *)
(* reported as added or removed, and no edge is matched twice.             *)
THEOREM DiffTypeCorrect == Spec => []TypeOK
<1> QED
  BY DiffInvHolds, TypesAre, PTL

-----------------------------------------------------------------------------
(* Pairs of nodes are chains of links.                                     *)

LEMMA IdsUnique ==
  ASSUME NEW file, Parsed(file), UniqueIds(file)
  PROVE  \A i, k \in DOMAIN file.nodes : file.nodes[i].id = file.nodes[k].id => i = k
<1> DEFINE n == Len(file.nodes)
           g == [i \in 1 .. n |-> file.nodes[i].id]
<1>1. n \in Nat /\ DOMAIN file.nodes = 1 .. n
  BY DEF Parsed, IsSequence
<1>2. {g[i] : i \in 1 .. n} = Ids(file, DOMAIN file.nodes)
  BY <1>1 DEF Ids
<1>3. Cardinality({g[i] : i \in 1 .. n}) = n
  BY <1>2 DEF UniqueIds
<1>4. \A i \in 1 .. n : g[i] = file.nodes[i].id
  OBVIOUS
<1> HIDE DEF g, n
<1>5. \A i, k \in 1 .. n : g[i] = g[k] => i = k
  BY <1>1, <1>3, AllDistinct
<1> QED
  BY <1>1, <1>4, <1>5

\* Where the ids of the second file are unique there is no choice.
LEMMA FallbacksAre ==
  ASSUME FilesOK, UniqueIds(b), NEW w \in Fallbacks
  PROVE  SameIdPairs(w) = {p \in RestA \X RestB : a.nodes[p[1]].id = b.nodes[p[2]].id}
<1>1. SameIdPairs(w) \subseteq {p \in RestA \X RestB : a.nodes[p[1]].id = b.nodes[p[2]].id}
  BY SameIdPairsAre
<1>2. ASSUME NEW p \in RestA \X RestB, a.nodes[p[1]].id = b.nodes[p[2]].id
      PROVE  p \in SameIdPairs(w)
  <2> DEFINE i == p[1]
             j == p[2]
  <2>1. p = <<i, j>> /\ i \in RestA /\ j \in RestB
    OBVIOUS
  <2>2. a.nodes[i].id \in DOMAIN w
    BY <1>2, <2>1 DEF Fallbacks, Ids
  <2>3. w[a.nodes[i].id] \in RestB /\ b.nodes[w[a.nodes[i].id]].id = b.nodes[j].id
    BY <1>2, <2>2 DEF Fallbacks
  <2>4. RestB \subseteq DOMAIN b.nodes
    BY ActiveIs DEF RestB
  <2>5. w[a.nodes[i].id] = j
    BY <2>1, <2>3, <2>4, IdsUnique DEF FilesOK
  <2> QED
    BY <2>1, <2>2, <2>5 DEF SameIdPairs
<1> QED
  BY <1>1, <1>2

LEMMA PairsAreLinks ==
  ASSUME DiffInv, stage # "nodes", UniqueIds(b)
  PROVE  DOMAIN by = Links
<1>1. PICK w \in Fallbacks : DOMAIN by = Identified \cup SameIdPairs(w)
  BY DEF DiffInv, FoundOK
<1>2. SameIdPairs(w) = {p \in RestA \X RestB : a.nodes[p[1]].id = b.nodes[p[2]].id}
  BY FallbacksAre DEF DiffInv
<1> QED
  BY <1>1, <1>2 DEF Links, RestA, RestB

\* Linked through sets that tell no link apart.
Linked(p) ==
  \A S \in SUBSET Ordinals : Respects(S, Links) => (p[1] \in S => Ordinal(p[2]) \in S)

LEMMA MatchedIsLinked ==
  ASSUME DiffInv, stage # "nodes", UniqueIds(b), NEW p \in Active(a) \X Active(b)
  PROVE  p \in nodes.matched <=> Linked(p)
<1>1. DOMAIN by = Links /\ p[1] \in Ordinals /\ Ordinal(p[2]) \in Ordinals
  BY PairsAreLinks, ActiveIs DEF DiffInv
<1>2. ASSUME p \in nodes.matched PROVE Linked(p)
  <2>1. Together(forest, p[1], Ordinal(p[2]))
    BY <1>2, NodesAre
  <2> QED
    BY <1>1, <2>1 DEF Linked, DiffInv, ForestInv, Keeps
<1>3. ASSUME Linked(p) PROVE p \in nodes.matched
  <2> DEFINE S == {o \in Ordinals : forest.rep[o] = forest.rep[p[1]]}
  <2>1. Respects(S, Links)
    <3>1. \A q \in Links : q[1] \in Ordinals /\ Ordinal(q[2]) \in Ordinals
      BY <1>1, ActiveIs DEF DiffInv, ForestInv
    <3>2. \A q \in Links : forest.rep[q[1]] = forest.rep[Ordinal(q[2])]
      BY <1>1 DEF DiffInv, ForestInv, Joined, Together
    <3> QED
      BY <3>1, <3>2 DEF Respects
  <2>2. S \in SUBSET Ordinals /\ p[1] \in S
    BY <1>1
  <2>3. Ordinal(p[2]) \in S
    BY <1>3, <2>1, <2>2 DEF Linked
  <2>4. Together(forest, p[1], Ordinal(p[2]))
    BY <2>3 DEF Together
  <2> QED
    BY <2>4, NodesAre
<1> QED
  BY <1>2, <1>3

LEMMA ChainsHold == DiffInv => PairsAreChains
<1> SUFFICES ASSUME DiffInv, stage = "edges", UniqueIds(a), UniqueIds(b),
                    NEW p \in Active(a) \X Active(b)
             PROVE  p \in nodes.matched
                      <=> \A S \in {T \in SUBSET DOMAIN forest.rep :
                                      \A q \in Links : q[1] \in T <=> Ordinal(q[2]) \in T} :
                            p[1] \in S => Ordinal(p[2]) \in S
  BY DEF PairsAreChains
<1>1. DOMAIN forest.rep = Ordinals
  BY DEF DiffInv, ForestInv, Forests
<1>2. p \in nodes.matched <=> Linked(p)
  BY MatchedIsLinked
<1> QED
  BY <1>1, <1>2 DEF Linked, Respects

(* Whatever order the shared identifiers are visited in, two nodes are     *)
(* reported as a pair exactly when a chain of shared identifiers, or of    *)
(* equal ids where nothing else is known, connects them.                   *)
THEOREM DiffPairsChains == Spec => []PairsAreChains
<1> QED
  BY DiffInvHolds, ChainsHold, PTL

-----------------------------------------------------------------------------
(* Paired edges join paired nodes.                                         *)

LEMMA WithIdIs ==
  ASSUME NEW file, Parsed(file), UniqueIds(file), NEW i \in DOMAIN file.nodes
  PROVE  WithId(file, file.nodes[i].id) = {i} /\ Last({i}) = i
<1>1. WithId(file, file.nodes[i].id) = {i}
  BY IdsUnique DEF WithId
<1>2. i \in Nat
  BY DEF Parsed, IsSequence
<1>3. \A k \in {i} : \A j \in {i} : j <= k
  BY <1>2
<1> QED
  BY <1>1, <1>3 DEF Last

\* What an id stands for, if the files use it for one node only.
LEMMA RepOfIs ==
  ASSUME DiffInv, stage # "nodes", NoIdReused
  PROVE  /\ \A i \in DOMAIN a.nodes : RepOf(a.nodes[i].id) = forest.rep[i]
         /\ \A j \in DOMAIN b.nodes : RepOf(b.nodes[j].id) = forest.rep[Ordinal(j)]
<1>1. Parsed(a) /\ Parsed(b) /\ UniqueIds(a) /\ UniqueIds(b)
  BY DEF DiffInv, FilesOK, NoIdReused
<1>2. ASSUME NEW j \in DOMAIN b.nodes PROVE RepOf(b.nodes[j].id) = forest.rep[Ordinal(j)]
  <2>1. WithId(b, b.nodes[j].id) = {j} /\ Last({j}) = j
    BY <1>1, WithIdIs
  <2> QED
    BY <2>1 DEF RepOf
<1>3. ASSUME NEW i \in DOMAIN a.nodes PROVE RepOf(a.nodes[i].id) = forest.rep[i]
  <2>1. WithId(a, a.nodes[i].id) = {i} /\ Last({i}) = i
    BY <1>1, WithIdIs
  <2>2. CASE WithId(b, a.nodes[i].id) = {}
    BY <2>1, <2>2 DEF RepOf
  <2>3. CASE WithId(b, a.nodes[i].id) # {}
    <3>1. PICK j \in DOMAIN b.nodes : b.nodes[j].id = a.nodes[i].id
      BY <2>3 DEF WithId
    <3>2. <<i, j>> \in nodes.matched
      BY <3>1 DEF NoIdReused
    <3>3. forest.rep[i] = forest.rep[Ordinal(j)]
      BY <3>2, NodesAre DEF Together
    <3> QED
      BY <1>2, <3>1, <3>3
  <2> QED
    BY <2>2, <2>3
<1> QED
  BY <1>2, <1>3

LEMMA EndAllowedIs ==
  ASSUME DiffInv, stage # "nodes", NoIdReused
  PROVE  /\ \A i \in DOMAIN a.nodes : EndAllowed(a.nodes[i].id) <=> i \in Active(a)
         /\ \A j \in DOMAIN b.nodes : EndAllowed(b.nodes[j].id) <=> j \in Active(b)
<1>1. Parsed(a) /\ Parsed(b) /\ UniqueIds(a) /\ UniqueIds(b)
  BY DEF DiffInv, FilesOK, NoIdReused
<1>2. ASSUME NEW i \in DOMAIN a.nodes PROVE EndAllowed(a.nodes[i].id) <=> i \in Active(a)
  <2>1. WithId(a, a.nodes[i].id) = {i} /\ Last({i}) = i
    BY <1>1, WithIdIs
  <2> QED
    BY <2>1 DEF EndAllowed, Active, Allowed
<1>3. ASSUME NEW j \in DOMAIN b.nodes PROVE EndAllowed(b.nodes[j].id) <=> j \in Active(b)
  <2>1. WithId(b, b.nodes[j].id) = {j} /\ Last({j}) = j
    BY <1>1, WithIdIs
  <2>2. CASE WithId(a, b.nodes[j].id) = {}
    BY <2>1, <2>2 DEF EndAllowed, Active, Allowed
  <2>3. CASE WithId(a, b.nodes[j].id) # {}
    <3>1. PICK i \in DOMAIN a.nodes : a.nodes[i].id = b.nodes[j].id
      BY <2>3 DEF WithId
    <3>2. <<i, j>> \in nodes.matched
      BY <3>1 DEF NoIdReused
    <3>3. i \in Active(a) /\ j \in Active(b)
      BY <3>2, NodesAre
    <3> QED
      BY <1>2, <3>1, <3>3
  <2> QED
    BY <2>2, <2>3
<1> QED
  BY <1>2, <1>3

LEMMA EdgesComeLast ==
  ASSUME DiffInv, edges.matched # {}
  PROVE  stage # "nodes"
BY DEF DiffInv, StageOK, NoEdges

LEMMA EndsPaired == DiffInv => PairedEdgesJoinPairedNodes
<1> SUFFICES ASSUME DiffInv, NoIdReused, EndsExist(a), EndsExist(b), NEW p \in edges.matched
             PROVE  /\ SameGroup(a.edges[p[1]].source, b.edges[p[2]].source)
                    /\ SameGroup(a.edges[p[1]].target, b.edges[p[2]].target)
  BY DEF PairedEdgesJoinPairedNodes, EdgesJoinMatchedNodes
<1> DEFINE d == a.edges[p[1]]
           e == b.edges[p[2]]
<1>1. stage # "nodes"
  BY EdgesComeLast
<1>2. /\ p[1] \in DOMAIN a.edges /\ p[2] \in DOMAIN b.edges
      /\ EdgeActive(d) /\ EdgeActive(e) /\ SameBucket(d, e)
  BY DEF DiffInv, EdgesOK, Similar, ActiveEdges
<1>3. /\ \E i \in DOMAIN a.nodes : a.nodes[i].id = d.source
      /\ \E i \in DOMAIN a.nodes : a.nodes[i].id = d.target
      /\ \E j \in DOMAIN b.nodes : b.nodes[j].id = e.source
      /\ \E j \in DOMAIN b.nodes : b.nodes[j].id = e.target
  BY <1>2 DEF EndsExist, Ids
<1>4. ASSUME NEW i \in DOMAIN a.nodes, NEW j \in DOMAIN b.nodes,
             EndAllowed(a.nodes[i].id), EndAllowed(b.nodes[j].id),
             RepOf(a.nodes[i].id) = RepOf(b.nodes[j].id)
      PROVE  SameGroup(a.nodes[i].id, b.nodes[j].id)
  <2>1. i \in Active(a) /\ j \in Active(b) /\ forest.rep[i] = forest.rep[Ordinal(j)]
    BY <1>1, <1>4, RepOfIs, EndAllowedIs
  <2>2. <<i, j>> \in nodes.matched
    BY <1>1, <2>1, NodesAre DEF Together
  <2> QED
    BY <2>2 DEF SameGroup
<1>5. /\ EndAllowed(d.source) /\ EndAllowed(d.target)
      /\ EndAllowed(e.source) /\ EndAllowed(e.target)
      /\ RepOf(d.source) = RepOf(e.source) /\ RepOf(d.target) = RepOf(e.target)
  BY <1>2 DEF EdgeActive, SameBucket
<1> HIDE DEF d, e
<1>6. SameGroup(d.source, e.source) /\ SameGroup(d.target, e.target)
  BY <1>3, <1>4, <1>5
<1> QED
  BY <1>6 DEF d, e

(* Edges are paired only when the nodes they join are, as long as the two  *)
(* files do not use one id for different nodes and no edge leads nowhere.  *)
THEOREM DiffPairsJoinPairs == Spec => []PairedEdgesJoinPairedNodes
<1> QED
  BY DiffInvHolds, EndsPaired, PTL

-----------------------------------------------------------------------------
(* Periods with a common day.                                              *)

LEMMA CommonDayIs ==
  ASSUME NEW x, NEW y,
         x.from \in Int \cup {None}, x.to \in Int \cup {None, Open},
         y.from \in Int \cup {None}, y.to \in Int \cup {None, Open},
         ~IntervalsDisjoint(x.to, x.from), ~IntervalsDisjoint(y.to, y.from)
  PROVE  TemporalCompatible(x, y) <=> \E day \in Days({x, y}) : Covers(x, day) /\ Covers(y, day)
<1>1. None \notin Int /\ Open \notin Int
  BY DiffAssumption
<1>2. Days({x, y}) = {0} \cup ({x.from, y.from, x.to, y.to} \ {None, Open})
  BY DEF Days
<1>3. TemporalCompatible(x, y) <=> ~IntervalsDisjoint(x.to, y.from) /\ ~IntervalsDisjoint(y.to, x.from)
  BY DEF TemporalCompatible, HasTemporal, IntervalsDisjoint
<1>4. ASSUME NEW day \in Days({x, y}), Covers(x, day), Covers(y, day)
      PROVE  ~IntervalsDisjoint(x.to, y.from) /\ ~IntervalsDisjoint(y.to, x.from)
  <2>1. day \in Int
    BY <1>2
  <2> QED
    BY <1>1, <1>4, <2>1 DEF Covers, IntervalsDisjoint
<1>5. ASSUME ~IntervalsDisjoint(x.to, y.from), ~IntervalsDisjoint(y.to, x.from)
      PROVE  \E day \in Days({x, y}) : Covers(x, day) /\ Covers(y, day)
  <2>1. ASSUME NEW day \in Days({x, y}), day \in Int,
               x.from # None => x.from <= day, y.from # None => y.from <= day,
               x.to \in Int => day <= x.to, y.to \in Int => day <= y.to
        PROVE  \E d \in Days({x, y}) : Covers(x, d) /\ Covers(y, d)
    BY <2>1 DEF Covers
  <2>2. CASE x.from # None /\ y.from # None
    <3>1. CASE x.from <= y.from
      BY <1>1, <1>2, <1>5, <2>1, <2>2, <3>1 DEF IntervalsDisjoint
    <3>2. CASE ~(x.from <= y.from)
      BY <1>1, <1>2, <1>5, <2>1, <2>2, <3>2 DEF IntervalsDisjoint
    <3> QED
      BY <3>1, <3>2
  <2>3. CASE x.from # None /\ y.from = None
    BY <1>1, <1>2, <1>5, <2>1, <2>3 DEF IntervalsDisjoint
  <2>4. CASE x.from = None /\ y.from # None
    BY <1>1, <1>2, <1>5, <2>1, <2>4 DEF IntervalsDisjoint
  <2>5. CASE x.from = None /\ y.from = None
    <3>1. CASE x.to \notin Int /\ y.to \notin Int
      BY <1>1, <1>2, <2>1, <2>5, <3>1
    <3>2. CASE x.to \in Int /\ y.to \notin Int
      BY <1>1, <1>2, <2>1, <2>5, <3>2
    <3>3. CASE x.to \notin Int /\ y.to \in Int
      BY <1>1, <1>2, <2>1, <2>5, <3>3
    <3>4. CASE x.to \in Int /\ y.to \in Int
      <4>1. x.to <= y.to \/ y.to <= x.to
        BY <3>4
      <4> QED
        BY <1>1, <1>2, <2>1, <2>5, <3>4, <4>1
    <3> QED
      BY <3>1, <3>2, <3>3, <3>4
  <2> QED
    BY <2>2, <2>3, <2>4, <2>5
<1> QED
  BY <1>3, <1>4, <1>5

\* The records that link two nodes.
LEMMA RecordFacts ==
  ASSUME FilesOK
  PROVE  /\ \A i \in DOMAIN a.nodes : Typed(a.nodes[i])
         /\ \A j \in DOMAIN b.nodes : Typed(b.nodes[j])
         /\ \A k \in DOMAIN a.edges : Typed(a.edges[k])
         /\ \A l \in DOMAIN b.edges : Typed(b.edges[l])
BY DEF FilesOK, Parsed

LEMMA RecordTyped ==
  ASSUME NEW n, Typed(n), NEW x \in RecordsOf(n)
  PROVE  /\ IsIdentifier(x) /\ x.scheme # "internal"
         /\ x.from \in Int \cup {None} /\ x.to \in Int \cup {None, Open}
         /\ PeriodsOrdered(n) => ~IntervalsDisjoint(x.to, x.from)
         /\ \E k \in DOMAIN n.ids : n.ids[k] = x
         /\ CanonicalId(x) \in ExternalKeys(n.ids)
<1>1. IsSequence(n.ids)
  BY DEF Typed, HasIdentifiers
<1>2. PICK k \in DOMAIN n.ids : n.ids[k] = x /\ x.scheme # "internal"
  BY <1>1, RecordsAre
<1>3. CanonicalId(x) \in ExternalKeys(n.ids)
  BY <1>1, RecordsAre
<1> QED
  BY <1>2, <1>3 DEF Typed, HasIdentifiers, PeriodsOrdered

LEMMA AnyRecordMatches ==
  ASSUME NEW x, NEW n, IsSequence(n.ids)
  PROVE  AnyMatch(<<x>>, n.ids) <=> \E y \in RecordsOf(n) : IdentifiersMatch(x, y)
<1>1. AnyMatch(<<x>>, n.ids) <=> \E m \in DOMAIN n.ids : IdentifiersMatch(x, n.ids[m])
  BY AnyMatchOf
<1>2. \A y : IdentifiersMatch(x, y) => y.scheme # "internal"
  BY DEF IdentifiersMatch
<1> QED
  BY <1>1, <1>2, RecordsAre

\* Two nodes are linked by an identifier.
LEMMA IdentifiedIs ==
  ASSUME FilesOK, NEW i \in Active(a), NEW j \in Active(b)
  PROVE  <<i, j>> \in Identified <=>
           \E x \in RecordsOf(a.nodes[i]), y \in RecordsOf(b.nodes[j]) :
             CanonicalId(x) \in ExternalKeys(b.nodes[j].ids) /\ IdentifiersMatch(x, y)
<1>1. IsSequence(b.nodes[j].ids)
  BY ActiveIs, NodeIds
<1>2. \A x : AnyMatch(<<x>>, b.nodes[j].ids) <=> \E y \in RecordsOf(b.nodes[j]) : IdentifiersMatch(x, y)
  BY <1>1, AnyRecordMatches
<1> QED
  BY <1>2 DEF Identified

LEMMA CommonDays == DiffInv => PairedIffCommonDay
<1> SUFFICES ASSUME DiffInv, stage = "edges", NEW i \in Active(a), NEW j \in Active(b),
                    NEW x \in RecordsOf(a.nodes[i]), NEW y \in RecordsOf(b.nodes[j]),
                    RecordsOf(a.nodes[i]) = {x}, RecordsOf(b.nodes[j]) = {y},
                    CanonicalId(x) = CanonicalId(y), SameAuthority(x, y),
                    a.nodes[i].id # b.nodes[j].id,
                    PeriodsOrdered(a.nodes[i]), PeriodsOrdered(b.nodes[j]),
                    Cardinality(nodes.matched) <= 1
             PROVE  <<i, j>> \in nodes.matched
                      <=> \E day \in Days({x, y}) : Covers(x, day) /\ Covers(y, day)
  BY DEF PairedIffCommonDay
<1>1. Typed(a.nodes[i]) /\ Typed(b.nodes[j])
  BY ActiveIs, RecordFacts DEF DiffInv
<1>2. /\ IsIdentifier(x) /\ x.scheme # "internal" /\ ~IntervalsDisjoint(x.to, x.from)
      /\ x.from \in Int \cup {None} /\ x.to \in Int \cup {None, Open}
      /\ IsIdentifier(y) /\ y.scheme # "internal" /\ ~IntervalsDisjoint(y.to, y.from)
      /\ y.from \in Int \cup {None} /\ y.to \in Int \cup {None, Open}
      /\ CanonicalId(y) \in ExternalKeys(b.nodes[j].ids)
  BY <1>1, RecordTyped
<1>3. TemporalCompatible(x, y) <=> \E day \in Days({x, y}) : Covers(x, day) /\ Covers(y, day)
  BY <1>2, CommonDayIs
<1>4. IdentifiersMatch(x, y) <=> TemporalCompatible(x, y)
  BY <1>2, CanonicalIdTells DEF IdentifiersMatch
<1>5. <<i, j>> \in Identified <=> IdentifiersMatch(x, y)
  BY <1>2, IdentifiedIs DEF DiffInv
<1>6. PICK w \in Fallbacks : DOMAIN by = Identified \cup SameIdPairs(w)
  BY DEF DiffInv, FoundOK
<1>7. DOMAIN by \subseteq nodes.matched
  BY NodesAre
<1>8. ASSUME <<i, j>> \in nodes.matched PROVE <<i, j>> \in Identified
  <2> SUFFICES ASSUME <<i, j>> \notin Identified PROVE FALSE
    OBVIOUS
  <2>1. <<i, j>> \notin DOMAIN by
    BY <1>6, SameIdPairsAre
  <2>2. IsFiniteSet(nodes.matched)
    <3>1. IsFiniteSet((DOMAIN a.nodes) \X (DOMAIN b.nodes))
      BY IndexFacts, FS_Product DEF DiffInv, FilesOK
    <3>2. nodes.matched \subseteq (DOMAIN a.nodes) \X (DOMAIN b.nodes)
      BY NodesAre, ActiveIs DEF DiffInv
    <3> QED
      BY <3>1, <3>2, FS_Subset
  <2>3. DOMAIN by = {}
    <3> SUFFICES ASSUME NEW p \in DOMAIN by PROVE FALSE
      OBVIOUS
    <3>1. p \in nodes.matched /\ p # <<i, j>>
      BY <1>7, <2>1
    <3>2. Cardinality(nodes.matched) \in Nat /\ Cardinality(nodes.matched) > 1
      BY <1>8, <2>2, <3>1, TwoElements
    <3> QED
      BY <3>2
  <2>4. i \in Ordinals /\ Ordinal(j) \in Ordinals /\ i # Ordinal(j)
    BY ActiveIs, IndexFacts DEF DiffInv, FilesOK
  <2>5. Keeps(forest, {i})
    BY <2>3, <2>4 DEF DiffInv, ForestInv, Respects
  <2>6. Together(forest, i, Ordinal(j))
    BY <1>8, NodesAre
  <2> QED
    BY <2>4, <2>5, <2>6 DEF Keeps
<1> QED
  BY <1>3, <1>4, <1>5, <1>6, <1>7, <1>8

(* Identifiers pair two nodes only through records that denote the same    *)
(* entity on a common day, and always when there are such records with one *)
(* canonical string.                                                       *)
THEOREM DiffPairsOnCommonDays == Spec => []PairedIffCommonDay
<1> QED
  BY DiffInvHolds, CommonDays, PTL

-----------------------------------------------------------------------------
(* Silence.                                                                *)

\* Fields that have not changed have one meaning.
LEMMA UnchangedFields ==
  ASSUME NEW f, NEW g, \A name \in DOMAIN f : f[name] # None, \A name \in DOMAIN g : g[name] # None,
         ChangedFields(f, g) = {}
  PROVE  Meaning(f) = Meaning(g)
<1>1. \A name \in DOMAIN f \cup DOMAIN g : SameValue(Property(f, name), Property(g, name))
  BY DEF ChangedFields
<1>2. DOMAIN f = DOMAIN g
  BY <1>1 DEF SameValue, Property
<1>3. \A name \in DOMAIN f : f[name][1] = g[name][1]
  BY <1>1, <1>2 DEF SameValue, Property
<1> QED
  BY <1>2, <1>3 DEF Meaning

LEMMA RecordsDistinct ==
  ASSUME NEW x, Typed(x), OneRecordPerKey(x)
  PROVE  \A r, s \in RecordsOf(x) : CanonicalId(r) = CanonicalId(s) => r = s
<1> DEFINE ext == External(x.ids)
           n == Len(ext)
           g == [k \in 1 .. n |-> CanonicalId(ext[k])]
<1>1. n \in Nat /\ DOMAIN ext = 1 .. n
  BY ExternalIs DEF Typed, HasIdentifiers, IsSequence
<1>2. RecordsOf(x) = {ext[k] : k \in DOMAIN ext}
  BY DEF RecordsOf
<1>3. {g[k] : k \in 1 .. n} = ExternalKeys(x.ids)
  BY <1>1 DEF ExternalKeys
<1>4. Cardinality({g[k] : k \in 1 .. n}) = n
  BY <1>3 DEF OneRecordPerKey
<1>5. \A k \in 1 .. n : g[k] = CanonicalId(ext[k])
  OBVIOUS
<1> HIDE DEF ext, n, g
<1>6. \A k, l \in 1 .. n : g[k] = g[l] => k = l
  BY <1>1, <1>4, AllDistinct
<1> QED
  BY <1>1, <1>2, <1>5, <1>6

LEMMA RecordOfIs ==
  ASSUME NEW x, Typed(x), OneRecordPerKey(x), NEW r \in RecordsOf(x)
  PROVE  RecordOf(x.ids, CanonicalId(r)) = r
<1> DEFINE at == {k \in DOMAIN x.ids : x.ids[k].scheme # "internal" /\ CanonicalId(x.ids[k]) = CanonicalId(r)}
<1>1. /\ IsSequence(x.ids)
      /\ RecordsOf(x) = {x.ids[k] : k \in {l \in DOMAIN x.ids : x.ids[l].scheme # "internal"}}
  BY RecordsAre DEF Typed, HasIdentifiers
<1>2. at # {}
  BY <1>1
<1>3. at \in SUBSET Nat /\ IsFiniteSet(at)
  <2>1. at \in SUBSET DOMAIN x.ids
    OBVIOUS
  <2> QED
    BY <1>1, <2>1, PositionsFinite
<1>4. \A k \in at : x.ids[k] = r
  BY <1>1, RecordsDistinct
<1>5. RecordOf(x.ids, CanonicalId(r)) = x.ids[CHOOSE k \in at : \A l \in at : l <= k]
  BY DEF RecordOf
<1> HIDE DEF at
<1>6. \E k \in at : \A l \in at : l <= k
  BY <1>2, <1>3, GreatestNatural
<1>7. (CHOOSE k \in at : \A l \in at : l <= k) \in at
  BY <1>6
<1> QED
  BY <1>4, <1>5, <1>7

LEMMA UnmodifiedIsSame ==
  ASSUME NEW x, Typed(x), OneRecordPerKey(x), NEW y, Typed(y), OneRecordPerKey(y),
         filter.ignore = {}, ~IsModified(x, y)
  PROVE  SameContent(x, y)
<1>1. PropertyChanges(x, y) = {} /\ IdentifierChanges(x, y) = {} /\ LabelChanges(x, y) = {}
  BY DEF IsModified
<1>2. ChangedFields(x.props, y.props) = {} /\ QualityChanges(x, y) = {}
  BY <1>1 DEF PropertyChanges
<1>3. Meaning(x.props) = Meaning(y.props)
  BY <1>2, UnchangedFields DEF Typed
<1>4. IF None \in {x.quality, y.quality} THEN x.quality = y.quality
      ELSE Meaning(x.quality) = Meaning(y.quality)
  <2>1. CASE None \in {x.quality, y.quality}
    BY <1>2, <2>1 DEF QualityChanges
  <2>2. CASE None \notin {x.quality, y.quality}
    <3>1. ChangedFields(x.quality, y.quality) = {}
      BY <1>2, <2>2 DEF QualityChanges
    <3>2. /\ \A name \in DOMAIN x.quality : x.quality[name] # None
          /\ \A name \in DOMAIN y.quality : y.quality[name] # None
      BY <2>2 DEF Typed
    <3>3. Meaning(x.quality) = Meaning(y.quality)
      BY <3>1, <3>2, UnchangedFields
    <3> QED
      BY <2>2, <3>3
  <2> QED
    BY <2>1, <2>2
<1>5. x.labels = y.labels
  BY <1>1 DEF LabelChanges
<1>6. RecordsOf(x) = RecordsOf(y)
  <2> DEFINE inX == ExternalKeys(x.ids)
             inY == ExternalKeys(y.ids)
  <2>1. inX = inY /\ \A key \in inX \cap inY : RecordOf(x.ids, key) = RecordOf(y.ids, key)
    <3>1. (inX \ inY) \cup (inY \ inX)
            \cup {key \in inX \cap inY : RecordOf(x.ids, key) # RecordOf(y.ids, key)} = {}
      BY <1>1 DEF IdentifierChanges
    <3> HIDE DEF inX, inY
    <3> QED
      BY <3>1
  <2>2. inX = {CanonicalId(r) : r \in RecordsOf(x)} /\ inY = {CanonicalId(r) : r \in RecordsOf(y)}
    BY RecordsAre DEF Typed, HasIdentifiers
  <2> HIDE DEF inX, inY
  <2>3. ASSUME NEW r \in RecordsOf(x) PROVE r \in RecordsOf(y)
    <3>0. CanonicalId(r) \in {CanonicalId(s) : s \in RecordsOf(x)}
      OBVIOUS
    <3>1. PICK s \in RecordsOf(y) : CanonicalId(s) = CanonicalId(r)
      <4>1. CanonicalId(r) \in inY
        BY <2>1, <2>2, <3>0
      <4> QED
        BY <2>2, <4>1
    <3>2. RecordOf(x.ids, CanonicalId(r)) = r /\ RecordOf(y.ids, CanonicalId(s)) = s
      BY RecordOfIs
    <3>3. r = s
      BY <2>1, <2>2, <3>1, <3>2
    <3> QED
      BY <3>3
  <2>4. ASSUME NEW s \in RecordsOf(y) PROVE s \in RecordsOf(x)
    <3>0. CanonicalId(s) \in {CanonicalId(r) : r \in RecordsOf(y)}
      OBVIOUS
    <3>1. PICK r \in RecordsOf(x) : CanonicalId(s) = CanonicalId(r)
      <4>1. CanonicalId(s) \in inX
        BY <2>1, <2>2, <3>0
      <4> QED
        BY <2>2, <4>1
    <3>2. RecordOf(x.ids, CanonicalId(r)) = r /\ RecordOf(y.ids, CanonicalId(s)) = s
      BY RecordOfIs
    <3>3. r = s
      BY <2>1, <2>2, <3>1, <3>2
    <3> QED
      BY <3>3
  <2> QED
    BY <2>3, <2>4
<1> QED
  BY <1>3, <1>4, <1>5, <1>6 DEF SameContent

-----------------------------------------------------------------------------
(* Silence means the same content.                                         *)

LEMMA SilentResult ==
  ASSUME DiffInv, exit = 0
  PROVE  /\ stage = "done"
         /\ nodes.removed = {} /\ nodes.added = {} /\ edges.added = {}
         /\ \A p \in nodes.matched : ~IsModified(a.nodes[p[1]], b.nodes[p[2]])
         /\ \A k \in ActiveEdges(a) : \E p \in edges.matched : p[1] = k
         /\ \A p \in edges.matched : ~IsModified(a.edges[p[1]], b.edges[p[2]])
<1>1. exit # None
  BY DiffAssumption
<1>2. stage = "done"
  BY <1>1 DEF DiffInv, StageOK
<1>3. exit = IF IsEmpty(Result) THEN 0 ELSE 1
  BY <1>2 DEF DiffInv, ExitOK
<1>4. IsEmpty(Result)
  BY <1>3
<1>5. /\ nodes.removed = {} /\ nodes.added = {} /\ edges.added = {}
      /\ {p \in nodes.matched : IsModified(a.nodes[p[1]], b.nodes[p[2]])} = {}
      /\ ActiveEdges(a) \ {p[1] : p \in edges.matched} = {}
      /\ {p \in edges.matched : IsModified(a.edges[p[1]], b.edges[p[2]])} = {}
  BY <1>4, ResultIs DEF IsEmpty
<1> QED
  BY <1>2, <1>5

NoFilter == filter = [nodeTypes |-> {}, edgeTypes |-> {}, ignore |-> {}]

LEMMA UnfilteredActive ==
  ASSUME NoFilter
  PROVE  /\ Active(a) = DOMAIN a.nodes /\ Active(b) = DOMAIN b.nodes
         /\ ActiveEdges(a) = DOMAIN a.edges /\ ActiveEdges(b) = DOMAIN b.edges
         /\ filter.ignore = {}
<1>1. filter.nodeTypes = {} /\ filter.edgeTypes = {} /\ filter.ignore = {}
  BY DEF NoFilter
<1>2. \A e : EdgeActive(e)
  BY <1>1 DEF EdgeActive, EndAllowed, Allowed
<1> QED
  BY <1>1, <1>2 DEF Active, Allowed, ActiveEdges

Partners(R, m, n) ==
  /\ R \subseteq (1 .. m) \X (1 .. n)
  /\ \A i \in 1 .. m : \E p \in R : p[1] = i
  /\ \A j \in 1 .. n : \E p \in R : p[2] = j
  /\ \A p, q \in R : p[1] = q[1] \/ p[2] = q[2] => p = q

\* Where every edge of both files has its partner there are as many of each.
LEMMA PartnersCount ==
  ASSUME NEW m \in Nat, NEW n \in Nat, NEW R, Partners(R, m, n)
  PROVE  m = n
<1> USE DEF Partners
<1> DEFINE h == [i \in 1 .. m |-> CHOOSE j \in 1 .. n : <<i, j>> \in R]
<1>1. \A i \in 1 .. m : \E j \in 1 .. n : <<i, j>> \in R
  OBVIOUS
<1>2. \A i \in 1 .. m : h[i] \in 1 .. n /\ <<i, h[i]>> \in R
  BY <1>1
<1>3. h \in [1 .. m -> 1 .. n]
  BY <1>2
<1> HIDE DEF h
<1>4. \A x, y \in 1 .. m : h[x] = h[y] => x = y
  <2> TAKE x, y \in 1 .. m
  <2> HAVE h[x] = h[y]
  <2>1. <<x, h[x]>> \in R /\ <<y, h[y]>> \in R
    BY <1>2
  <2>2. <<x, h[x]>> = <<y, h[y]>>
    BY <2>1
  <2> QED
    BY <2>2
<1>5. \A y \in 1 .. n : \E x \in 1 .. m : h[x] = y
  <2> TAKE y \in 1 .. n
  <2>1. PICK p \in R : p[2] = y
    OBVIOUS
  <2>2. p[1] \in 1 .. m
    OBVIOUS
  <2>3. <<p[1], h[p[1]]>> \in R
    BY <1>2, <2>2
  <2>4. <<p[1], h[p[1]]>> = p
    BY <2>3
  <2>5. h[p[1]] = y
    BY <2>1, <2>4
  <2> QED
    BY <2>2, <2>5
<1>6. IsFiniteSet(1 .. m) /\ Cardinality(1 .. m) = m /\ Cardinality(1 .. n) = n
  BY FS_Interval
<1>7. Cardinality(1 .. n) = Cardinality(1 .. m)
  <2> DEFINE S == 1 .. m
             T == 1 .. n
  <2>1. /\ IsFiniteSet(S) /\ h \in [S -> T]
        /\ \A x, y \in S : h[x] = h[y] => x = y
        /\ \A y \in T : \E x \in S : h[x] = y
    BY <1>3, <1>4, <1>5, <1>6
  <2> HIDE DEF S, T
  <2>2. Cardinality(T) = Cardinality(S)
    BY <2>1, SameSize
  <2> QED
    BY <2>2 DEF S, T
<1> QED
  BY <1>6, <1>7

LEMMA SilenceHolds == DiffInv => SilenceMeansSameContent
<1> SUFFICES ASSUME DiffInv, exit = 0, NoFilter,
                    \A file \in {a, b} :
                      /\ \A i \in DOMAIN file.nodes : OneRecordPerKey(file.nodes[i])
                      /\ \A i \in DOMAIN file.edges : OneRecordPerKey(file.edges[i])
             PROVE  /\ \A i \in DOMAIN a.nodes : \E j \in DOMAIN b.nodes :
                         SameContent(a.nodes[i], b.nodes[j])
                    /\ \A j \in DOMAIN b.nodes : \E i \in DOMAIN a.nodes :
                         SameContent(a.nodes[i], b.nodes[j])
                    /\ Len(a.edges) = Len(b.edges)
                    /\ \A i \in DOMAIN a.edges : \E j \in DOMAIN b.edges :
                         /\ SameContent(a.edges[i], b.edges[j])
                         /\ a.edges[i].type = b.edges[j].type
  BY DEF SilenceMeansSameContent, NoFilter
<1>1. FilesOK
  BY DEF DiffInv
<1>2. stage = "done" /\ nodes.removed = {} /\ nodes.added = {} /\ edges.added = {}
  BY SilentResult
<1>3. /\ Active(a) = DOMAIN a.nodes /\ Active(b) = DOMAIN b.nodes
      /\ ActiveEdges(a) = DOMAIN a.edges /\ ActiveEdges(b) = DOMAIN b.edges
      /\ filter.ignore = {}
  BY UnfilteredActive
<1>4. /\ nodes.matched \subseteq Active(a) \X Active(b)
      /\ nodes.removed = Active(a) \ {p[1] : p \in nodes.matched}
      /\ nodes.added = Active(b) \ {p[2] : p \in nodes.matched}
  BY <1>2, NodesAre
<1>5. \A p \in nodes.matched : SameContent(a.nodes[p[1]], b.nodes[p[2]])
  <2> TAKE p \in nodes.matched
  <2> DEFINE x == a.nodes[p[1]]
             y == b.nodes[p[2]]
  <2>1. p[1] \in DOMAIN a.nodes /\ p[2] \in DOMAIN b.nodes
    BY <1>3, <1>4
  <2>2. Typed(x) /\ Typed(y)
    BY <1>1, <2>1, RecordFacts
  <2>3. OneRecordPerKey(x) /\ OneRecordPerKey(y)
    BY <2>1
  <2>4. ~IsModified(x, y)
    BY SilentResult
  <2> HIDE DEF x, y
  <2>5. SameContent(x, y)
    BY <1>3, <2>2, <2>3, <2>4, UnmodifiedIsSame
  <2> QED
    BY <2>5 DEF x, y
<1>6. edges.matched \subseteq Similar
  BY DEF DiffInv, EdgesOK
<1>7. \A p \in edges.matched :
        /\ p \in (DOMAIN a.edges) \X (DOMAIN b.edges)
        /\ SameContent(a.edges[p[1]], b.edges[p[2]])
        /\ a.edges[p[1]].type = b.edges[p[2]].type
  <2> TAKE p \in edges.matched
  <2> DEFINE x == a.edges[p[1]]
             y == b.edges[p[2]]
  <2>1. p \in ActiveEdges(a) \X ActiveEdges(b) /\ SameBucket(x, y)
    BY <1>6 DEF Similar
  <2>2. p[1] \in DOMAIN a.edges /\ p[2] \in DOMAIN b.edges /\ p \in (DOMAIN a.edges) \X (DOMAIN b.edges)
    BY <1>3, <2>1
  <2>3. Typed(x) /\ Typed(y)
    BY <1>1, <2>2, RecordFacts
  <2>4. OneRecordPerKey(x) /\ OneRecordPerKey(y)
    BY <2>2
  <2>5. ~IsModified(x, y)
    BY SilentResult
  <2>6. x.type = y.type
    BY <2>1 DEF SameBucket
  <2> HIDE DEF x, y
  <2>7. SameContent(x, y)
    BY <1>3, <2>3, <2>4, <2>5, UnmodifiedIsSame
  <2> QED
    BY <2>2, <2>6, <2>7 DEF x, y
<1>8. \A k \in DOMAIN a.edges : \E p \in edges.matched : p[1] = k
  BY <1>3, SilentResult
<1>9. \A l \in DOMAIN b.edges : \E p \in edges.matched : p[2] = l
  <2> TAKE l \in DOMAIN b.edges
  <2>1. cursor = Len(b.edges) + 1
    BY <1>2 DEF DiffInv, EdgesOK
  <2>2. l \in 1 .. cursor - 1
    BY <1>1, <2>1, IndexFacts DEF FilesOK
  <2>3. l \in ActiveEdges(b)
    BY <1>3
  <2>4. l \in edges.added <=> l \in ActiveEdges(b) /\ ~\E p \in edges.matched : p[2] = l
    BY <2>2 DEF DiffInv, EdgesOK
  <2> QED
    BY <1>2, <2>3, <2>4
<1>10. \A p, q \in edges.matched : p[1] = q[1] \/ p[2] = q[2] => p = q
  BY DEF DiffInv, EdgesOK
<1>11. Len(a.edges) = Len(b.edges)
  <2>1. /\ Len(a.edges) \in Nat /\ DOMAIN a.edges = 1 .. Len(a.edges)
        /\ Len(b.edges) \in Nat /\ DOMAIN b.edges = 1 .. Len(b.edges)
    BY <1>1, IndexFacts DEF FilesOK
  <2>2. edges.matched \in SUBSET ((1 .. Len(a.edges)) \X (1 .. Len(b.edges)))
    BY <1>7, <2>1
  <2> DEFINE m == Len(a.edges)
             n == Len(b.edges)
             R == edges.matched
  <2>3. m \in Nat /\ n \in Nat /\ Partners(R, m, n)
    BY <1>8, <1>9, <1>10, <2>1, <2>2 DEF Partners
  <2> HIDE DEF m, n, R
  <2>4. m = n
    BY <2>3, PartnersCount
  <2> QED
    BY <2>4 DEF m, n
<1>12. \A i \in DOMAIN a.nodes : \E p \in nodes.matched : p[1] = i
  BY <1>2, <1>3, <1>4
<1>13. \A j \in DOMAIN b.nodes : \E p \in nodes.matched : p[2] = j
  BY <1>2, <1>3, <1>4
<1>14. \A p \in nodes.matched : p[1] \in DOMAIN a.nodes /\ p[2] \in DOMAIN b.nodes
  BY <1>3, <1>4
<1>15. \A i \in DOMAIN a.nodes : \E j \in DOMAIN b.nodes : SameContent(a.nodes[i], b.nodes[j])
  BY <1>5, <1>12, <1>14
<1>16. \A j \in DOMAIN b.nodes : \E i \in DOMAIN a.nodes : SameContent(a.nodes[i], b.nodes[j])
  BY <1>5, <1>13, <1>14
<1>17. \A i \in DOMAIN a.edges : \E j \in DOMAIN b.edges :
         SameContent(a.edges[i], b.edges[j]) /\ a.edges[i].type = b.edges[j].type
  BY <1>7, <1>8
<1> QED
  BY <1>11, <1>15, <1>16, <1>17

\* Without a filter, exit code 0 means that each file says what the other
\* does, whatever the files hold.
THEOREM DiffSilenceMeansSameContent == Spec => []SilenceMeansSameContent
BY DiffInvHolds, SilenceHolds, PTL

-----------------------------------------------------------------------------
(* A file and itself.                                                      *)

LEMMA UnmodifiedItself ==
  ASSUME NEW x
  PROVE  ~IsModified(x, x)
<1>1. \A f : ChangedFields(f, f) = {}
  BY DEF ChangedFields, SameValue
<1>2. QualityChanges(x, x) = {}
  BY <1>1 DEF QualityChanges
<1>3. PropertyChanges(x, x) = {}
  BY <1>1, <1>2 DEF PropertyChanges
<1>4. IdentifierChanges(x, x) = {}
  <2> DEFINE keys == ExternalKeys(x.ids)
  <2>1. IdentifierChanges(x, x)
          = (keys \ keys) \cup (keys \ keys)
              \cup {key \in keys \cap keys : RecordOf(x.ids, key) # RecordOf(x.ids, key)}
    BY DEF IdentifierChanges
  <2> HIDE DEF keys
  <2> QED
    BY <2>1
<1>5. LabelChanges(x, x) = {}
  BY DEF LabelChanges
<1> QED
  BY <1>3, <1>4, <1>5 DEF IsModified

LEMMA MatchesItself ==
  ASSUME NEW n, Typed(n), PeriodsOrdered(n), NEW x \in RecordsOf(n)
  PROVE  IdentifiersMatch(x, x)
<1>1. x.scheme # "internal" /\ ~IntervalsDisjoint(x.to, x.from)
  BY RecordTyped
<1> QED
  BY <1>1 DEF IdentifiersMatch, SameAuthority, TemporalCompatible

\* A node finds itself, by its identifiers if it has any.
LEMMA SelfLinked ==
  ASSUME FilesOK, a = b, NEW i \in Active(a), PeriodsOrdered(a.nodes[i])
  PROVE  <<i, i>> \in Links
<1>1. i \in Active(b) /\ i \in DOMAIN a.nodes /\ Typed(a.nodes[i])
  BY RecordFacts DEF Active
<1>2. CASE \E x : x \in RecordsOf(a.nodes[i])
  <2>1. PICK x \in RecordsOf(a.nodes[i]) : TRUE
    BY <1>2
  <2>2. IdentifiersMatch(x, x)
    BY <1>1, <2>1, MatchesItself
  <2>3. CanonicalId(x) \in ExternalKeys(b.nodes[i].ids) /\ x \in RecordsOf(b.nodes[i])
    BY <1>1, <2>1, RecordTyped
  <2>4. <<i, i>> \in Identified
    BY <1>1, <2>1, <2>2, <2>3, IdentifiedIs
  <2> QED
    BY <2>4 DEF Links
<1>3. CASE ~\E x : x \in RecordsOf(a.nodes[i])
  <2>1. \A p \in Identified : p[1] # i /\ p[2] # i
    <3> TAKE p \in Identified
    <3>1. p \in Active(a) \X Active(b)
      BY DEF Identified
    <3>2. p[1] \in Active(a) /\ p[2] \in Active(b) /\ <<p[1], p[2]>> \in Identified
      BY <3>1
    <3>3. \E x \in RecordsOf(a.nodes[p[1]]), y \in RecordsOf(b.nodes[p[2]]) : TRUE
      BY <3>2, IdentifiedIs
    <3> QED
      BY <1>3, <3>3
  <2>2. i \in Active(a) \ {p[1] : p \in Identified} /\ i \in Active(b) \ {p[2] : p \in Identified}
    BY <1>1, <2>1
  <2>3. a.nodes[i].id = b.nodes[i].id
    OBVIOUS
  <2> HIDE DEF Identified
  <2> QED
    BY <2>2, <2>3 DEF Links
<1> QED
  BY <1>2, <1>3

\* So no node is missing on either side.
LEMMA SelfNodes ==
  ASSUME DiffInv, stage # "nodes", a = b, UniqueIds(a),
         \A i \in DOMAIN a.nodes : PeriodsOrdered(a.nodes[i])
  PROVE  nodes.removed = {} /\ nodes.added = {}
<1>1. FilesOK
  BY DEF DiffInv
<1>2. /\ nodes.matched = {p \in Active(a) \X Active(b) : Together(forest, p[1], Ordinal(p[2]))}
      /\ nodes.removed = Active(a) \ {p[1] : p \in nodes.matched}
      /\ nodes.added = Active(b) \ {p[2] : p \in nodes.matched}
      /\ DOMAIN by \subseteq nodes.matched
  BY NodesAre
<1>3. DOMAIN by = Links
  BY PairsAreLinks
<1>4. \A i \in Active(a) : <<i, i>> \in nodes.matched
  <2> TAKE i \in Active(a)
  <2>1. i \in DOMAIN a.nodes
    BY DEF Active
  <2>2. <<i, i>> \in Links
    BY <1>1, <2>1, SelfLinked
  <2> QED
    BY <1>2, <1>3, <2>2
<1>5. Active(b) = Active(a)
  OBVIOUS
<1>6. nodes.removed = {} /\ nodes.added = {}
  <2> DEFINE matched == nodes.matched
  <2>1. /\ nodes.removed = Active(a) \ {p[1] : p \in matched}
        /\ nodes.added = Active(b) \ {p[2] : p \in matched}
        /\ \A i \in Active(a) : <<i, i>> \in matched
    BY <1>2, <1>4
  <2> HIDE DEF matched
  <2>2. \A i \in Active(a) : i \in {p[1] : p \in matched} /\ i \in {p[2] : p \in matched}
    <3> TAKE i \in Active(a)
    <3>1. <<i, i>> \in matched
      BY <2>1
    <3>2. \E p \in matched : p[1] = i
      BY <3>1
    <3>3. \E p \in matched : p[2] = i
      BY <3>1
    <3> QED
      BY <3>2, <3>3
  <2> QED
    BY <1>5, <2>1, <2>2
<1> QED
  BY <1>6

LEMMA ModifiedSymmetric ==
  ASSUME NEW m, NEW n
  PROVE  IsModified(m, n) <=> IsModified(n, m)
<1>1. \A v, w : SameValue(v, w) <=> SameValue(w, v)
  BY DEF SameValue
<1>2. \A f, g : ChangedFields(f, g) = ChangedFields(g, f)
  <2> TAKE f, g
  <2>1. \A name : name \in ChangedFields(f, g) <=> name \in ChangedFields(g, f)
    BY <1>1 DEF ChangedFields
  <2> QED
    BY <2>1
<1>3. QualityChanges(m, n) = QualityChanges(n, m)
  BY <1>2 DEF QualityChanges
<1>4. PropertyChanges(m, n) = PropertyChanges(n, m)
  BY <1>2, <1>3 DEF PropertyChanges
<1>5. IdentifierChanges(m, n) = IdentifierChanges(n, m)
  <2>1. \A key : key \in IdentifierChanges(m, n) <=> key \in IdentifierChanges(n, m)
    BY DEF IdentifierChanges
  <2> QED
    BY <2>1
<1>6. LabelChanges(m, n) = LabelChanges(n, m)
  BY DEF LabelChanges
<1> QED
  BY <1>4, <1>5, <1>6 DEF IsModified

\* Nodes without changes between them make classes.
LEMMA UnmodifiedTransitive ==
  ASSUME NEW x, NEW y, NEW z, ~IsModified(x, y), ~IsModified(y, z)
  PROVE  ~IsModified(x, z)
<1>1. ASSUME NEW f, NEW g, NEW h PROVE ChangedFields(f, h) \subseteq ChangedFields(f, g) \cup ChangedFields(g, h)
  <2>1. \A u, v, w : SameValue(u, v) /\ SameValue(v, w) => SameValue(u, w)
    BY DEF SameValue
  <2>2. ASSUME NEW name \in ChangedFields(f, h)
        PROVE  name \in ChangedFields(f, g) \cup ChangedFields(g, h)
    <3>1. ~SameValue(Property(f, name), Property(h, name)) /\ name \in DOMAIN f \cup DOMAIN h
      BY DEF ChangedFields
    <3>2. \/ ~SameValue(Property(f, name), Property(g, name))
          \/ ~SameValue(Property(g, name), Property(h, name))
      BY <2>1, <3>1
    <3>3. ASSUME name \notin DOMAIN f, name \notin DOMAIN g PROVE SameValue(Property(f, name), Property(g, name))
      BY <3>3 DEF Property, SameValue
    <3>4. ASSUME name \notin DOMAIN g, name \notin DOMAIN h PROVE SameValue(Property(g, name), Property(h, name))
      BY <3>4 DEF Property, SameValue
    <3> QED
      BY <3>1, <3>2, <3>3, <3>4 DEF ChangedFields
  <2> QED
    BY <2>2
<1>2. PropertyChanges(x, z) = {}
  <2>1. PropertyChanges(x, y) = {} /\ PropertyChanges(y, z) = {}
    BY DEF IsModified
  <2>2. ChangedFields(x.props, z.props) \ filter.ignore = {}
    BY <1>1, <2>1 DEF PropertyChanges
  <2>3. ASSUME "data_quality" \notin filter.ignore
        PROVE  QualityChanges(x, z) \ filter.ignore = {}
    <3>1. QualityChanges(x, y) \ filter.ignore = {} /\ QualityChanges(y, z) \ filter.ignore = {}
      BY <2>1, <2>3 DEF PropertyChanges
    <3>2. CASE None \in {x.quality, y.quality, z.quality}
      BY <2>3, <3>1, <3>2 DEF QualityChanges
    <3>3. CASE None \notin {x.quality, y.quality, z.quality}
      BY <1>1, <3>1, <3>3 DEF QualityChanges
    <3> QED
      BY <3>2, <3>3
  <2> QED
    BY <2>2, <2>3 DEF PropertyChanges
<1>3. IdentifierChanges(x, z) = {}
  <2>1. IdentifierChanges(x, y) = {} /\ IdentifierChanges(y, z) = {}
    BY DEF IsModified
  <2>2. \A key : key \in IdentifierChanges(x, z) =>
          key \in IdentifierChanges(x, y) \/ key \in IdentifierChanges(y, z)
    BY DEF IdentifierChanges
  <2> QED
    BY <2>1, <2>2
<1>4. LabelChanges(x, z) = {}
  BY DEF IsModified, LabelChanges
<1> QED
  BY <1>2, <1>3, <1>4 DEF IsModified

\* Nodes that fall together have no changes if those that share an identifier
\* have none: chains are of such pairs, and of nodes with themselves.
LEMMA SelfUnmodified ==
  ASSUME DiffInv, stage # "nodes", a = b, UniqueIds(a),
         \A p \in Identified : ~IsModified(a.nodes[p[1]], b.nodes[p[2]]),
         NEW d \in nodes.matched
  PROVE  ~IsModified(a.nodes[d[1]], b.nodes[d[2]])
<1> DEFINE n == Len(a.nodes)
           Like(i) == ~IsModified(a.nodes[d[1]], a.nodes[i])
           S == {o \in Ordinals : IF o \in DOMAIN a.nodes THEN Like(o) ELSE Like(o - n)}
<1>1. FilesOK
  BY DEF DiffInv
<1>2. d \in Active(a) \X Active(b)
  BY NodesAre
<1>3. /\ n \in Nat /\ DOMAIN a.nodes = 1 .. n
      /\ \A i \in DOMAIN a.nodes : i \in Ordinals
      /\ \A j \in DOMAIN a.nodes : Ordinal(j) \in Ordinals /\ Ordinal(j) = n + j
  BY <1>1, IndexFacts DEF FilesOK, Ordinal
<1>4. Active(a) \subseteq DOMAIN a.nodes /\ Active(b) \subseteq DOMAIN a.nodes
  BY DEF Active
<1> HIDE DEF n, Like
<1>5. \A i \in DOMAIN a.nodes : (i \in S <=> Like(i)) /\ (Ordinal(i) \in S <=> Like(i))
  <2> TAKE i \in DOMAIN a.nodes
  <2>1. Ordinal(i) \notin DOMAIN a.nodes /\ Ordinal(i) - n = i
    BY <1>3
  <2> QED
    BY <1>3, <2>1
<1> HIDE DEF S
<1>6. ASSUME NEW q \in Links
      PROVE  /\ q[1] \in DOMAIN a.nodes /\ q[2] \in DOMAIN a.nodes
             /\ ~IsModified(a.nodes[q[1]], a.nodes[q[2]])
  <2>1. q \in Active(a) \X Active(b)
    BY DEF Links, Identified
  <2>2. q[1] \in DOMAIN a.nodes /\ q[2] \in DOMAIN a.nodes
    BY <1>4, <2>1
  <2>3. CASE q \in Identified
    BY <2>2, <2>3
  <2>4. CASE q \notin Identified
    <3>1. a.nodes[q[1]].id = a.nodes[q[2]].id
      BY <2>4 DEF Links
    <3>2. q[1] = q[2]
      BY <1>1, <2>2, <3>1, IdsUnique DEF FilesOK
    <3> QED
      BY <2>2, <3>2, UnmodifiedItself
  <2> QED
    BY <2>3, <2>4
<1>7. ASSUME NEW q \in Links PROVE Like(q[1]) <=> Like(q[2])
  BY <1>6, UnmodifiedTransitive, ModifiedSymmetric DEF Like
<1>8. Respects(S, Links)
  BY <1>5, <1>6, <1>7 DEF Respects
<1>9. d[1] \in S
  <2>1. d[1] \in DOMAIN a.nodes /\ Like(d[1])
    BY <1>2, <1>4, UnmodifiedItself DEF Like
  <2> QED
    BY <1>5, <2>1
<1>10. Ordinal(d[2]) \in S
  <2>1. Linked(d)
    BY <1>2, MatchedIsLinked
  <2>2. S \in SUBSET Ordinals
    BY DEF S
  <2> QED
    BY <1>8, <1>9, <2>1, <2>2 DEF Linked
<1> QED
  BY <1>2, <1>4, <1>5, <1>10 DEF Like

\* What a file must be like for its edges to find themselves.
Itself == a = b /\ \A k \in DOMAIN a.edges : PeriodsOrdered(a.edges[k])
SettledEdges == {k \in ActiveEdges(a) : k < cursor /\ Pairable(a.edges[k])}
SelfInv == Itself => edges.matched = {<<k, k>> : k \in SettledEdges}

LEMMA SelfSimilar ==
  ASSUME DiffInv, Itself, NEW k \in DOMAIN a.edges, Pairable(a.edges[k])
  PROVE  SameBucket(a.edges[k], a.edges[k]) /\ EdgesMatch(a.edges[k], a.edges[k])
<1> DEFINE e == a.edges[k]
<1>1. FilesOK /\ ForestInv
  BY DEF DiffInv
<1>2. Typed(e) /\ PeriodsOrdered(e) /\ e.type # "same_as"
  BY <1>1, RecordFacts DEF Itself, Pairable
<1>3. \A id : (\E i \in DOMAIN b.nodes : b.nodes[i].id = id) => RepOf(id) # None
  <2> TAKE id
  <2> HAVE \E i \in DOMAIN b.nodes : b.nodes[i].id = id
  <2> DEFINE S == WithId(b, id)
  <2>1. S # {} /\ S \subseteq DOMAIN b.nodes
    BY DEF WithId
  <2>2. IsFiniteSet(DOMAIN b.nodes) /\ DOMAIN b.nodes \subseteq Nat
    BY <1>1, IndexFacts DEF FilesOK
  <2>3. IsFiniteSet(S) /\ S \in SUBSET Nat
    BY <2>1, <2>2, FS_Subset
  <2> HIDE DEF S
  <2>4. \E m \in S : \A l \in S : l <= m
    BY <2>1, <2>3, GreatestNatural
  <2>5. Last(S) \in S
    BY <2>4 DEF Last
  <2>6. Ordinal(Last(S)) \in Ordinals
    BY <1>1, <2>1, <2>5, IndexFacts DEF FilesOK
  <2>7. RepOf(id) = forest.rep[Ordinal(Last(S))]
    BY <2>1 DEF RepOf, S
  <2>8. forest.rep[Ordinal(Last(S))] \in Ordinals
    BY <1>1, <2>6 DEF ForestInv, Forests
  <2>9. Ordinals \subseteq Int
    BY <1>1, IndexFacts DEF FilesOK
  <2> QED
    BY <2>7, <2>8, <2>9, DiffAssumption
<1>4. {e.source, e.target} \subseteq Ids(b, DOMAIN b.nodes)
  BY DEF Itself, Pairable
<1>5. \E i \in DOMAIN b.nodes : b.nodes[i].id = e.source
  BY <1>4 DEF Ids
<1>6. \E i \in DOMAIN b.nodes : b.nodes[i].id = e.target
  BY <1>4 DEF Ids
<1>7. RepOf(e.source) # None /\ RepOf(e.target) # None
  BY <1>3, <1>5, <1>6
<1> HIDE DEF e
<1>8. SameBucket(e, e)
  BY <1>7 DEF SameBucket
<1>9. EdgesMatch(e, e)
  <2> DEFINE ext == External(e.ids)
  <2>1. IsSequence(e.ids)
    BY <1>2 DEF Typed, HasIdentifiers
  <2>2. IsSequence(ext)
    BY <2>1, ExternalIs
  <2>3. CASE ext = <<>>
    BY <1>2, <2>3 DEF EdgesMatch, IdentityPropertiesMatch
  <2>4. CASE ext # <<>>
    <3>1. PICK l \in DOMAIN e.ids : e.ids[l].scheme # "internal"
      BY <2>1, <2>4, ExternalEmpty
    <3>2. e.ids[l] \in RecordsOf(e)
      BY <2>1, <3>1, RecordsAre
    <3>3. IdentifiersMatch(e.ids[l], e.ids[l])
      BY <1>2, <3>2, MatchesItself
    <3>4. PICK i \in DOMAIN ext : ext[i] = e.ids[l]
      BY <2>1, <3>1, ExternalIs
    <3>5. AnyMatch(ext, ext)
      BY <3>3, <3>4 DEF AnyMatch
    <3> QED
      BY <1>2, <2>4, <3>5 DEF EdgesMatch
  <2> QED
    BY <2>3, <2>4
<1> QED
  BY <1>8, <1>9 DEF e

LEMMA SelfStarts ==
  ASSUME FilesOK, cursor = 1, edges = NoEdges
  PROVE  SelfInv
<1>1. ActiveEdges(a) \subseteq Nat \ {0}
  BY IndexFacts DEF FilesOK, ActiveEdges
<1>2. SettledEdges = {}
  BY <1>1 DEF SettledEdges
<1> QED
  BY <1>2 DEF SelfInv, NoEdges

LEMMA SelfStartsNext == (FilesOK /\ cursor = 1 /\ edges = NoEdges)' => SelfInv'
<1>1. FilesOK /\ cursor = 1 /\ edges = NoEdges => SelfInv
  BY SelfStarts
<1> QED
  BY <1>1, PTL

\* Only an edge that can be paired with itself is paired at all.
LEMMA SelfPairable ==
  ASSUME DiffInv, Itself, NEW d, NEW e, SameBucket(d, e), EdgesMatch(d, e)
  PROVE  Pairable(d) /\ Pairable(e)
<1>1. d.type # "same_as" /\ e.type # "same_as"
  BY DEF EdgesMatch
<1>2. ASSUME NEW id, RepOf(id) # None PROVE id \in Ids(a, DOMAIN a.nodes)
  <2>1. WithId(a, id) # {}
    BY <1>2 DEF RepOf, Itself, WithId
  <2> QED
    BY <2>1 DEF WithId, Ids
<1>3. /\ RepOf(d.source) # None /\ RepOf(d.target) # None
      /\ RepOf(e.source) # None /\ RepOf(e.target) # None
  BY DEF SameBucket
<1> QED
  BY <1>1, <1>2, <1>3 DEF Pairable

\* The edges of a file are paired each with itself, in their order.
LEMMA SelfEdge ==
  ASSUME DiffInv, SelfInv, Itself, AtEdge, EdgeActive(b.edges[cursor]),
         NEW i \in Candidates(b.edges[cursor]), \A k \in Candidates(b.edges[cursor]) : i <= k
  PROVE  i = cursor
<1>1. FilesOK
  BY DEF DiffInv
<1>2. cursor \in DOMAIN a.edges /\ a.edges = b.edges /\ Pairable(b.edges[cursor])
  BY SelfPairable DEF AtEdge, Itself, Candidates
<1>3. DOMAIN a.edges \subseteq Nat
  BY <1>1, IndexFacts DEF FilesOK
<1>4. edges.matched = {<<k, k>> : k \in SettledEdges}
  BY DEF SelfInv
<1>5. \A k : k \in {p[1] : p \in edges.matched} <=> k \in SettledEdges
  <2> DEFINE S == SettledEdges
  <2>1. edges.matched = {<<k, k>> : k \in S}
    BY <1>4
  <2> HIDE DEF S
  <2> TAKE k
  <2>2. k \in {p[1] : p \in edges.matched} => k \in S
    BY <2>1
  <2>3. k \in S => <<k, k>> \in edges.matched
    BY <2>1
  <2>4. <<k, k>> \in edges.matched => k \in {p[1] : p \in edges.matched}
    BY SMT
  <2> QED
    BY <2>2, <2>3, <2>4 DEF S
<1>6. cursor \notin {p[1] : p \in edges.matched}
  BY <1>2, <1>3, <1>5 DEF SettledEdges
<1>7. cursor \in Candidates(b.edges[cursor])
  <2>1. SameBucket(a.edges[cursor], b.edges[cursor]) /\ EdgesMatch(a.edges[cursor], b.edges[cursor])
    BY <1>2, SelfSimilar
  <2> QED
    BY <1>2, <1>6, <2>1 DEF Candidates
<1>8. i <= cursor
  BY <1>7
<1>9. i \in ActiveEdges(a) /\ i \notin SettledEdges /\ i \in Nat /\ Pairable(a.edges[i])
  BY <1>3, <1>5, SelfPairable DEF Candidates, ActiveEdges
<1> QED
  BY <1>2, <1>3, <1>8, <1>9 DEF SettledEdges

LEMMA SelfCandidate ==
  ASSUME DiffInv, SelfInv, Itself, AtEdge, Pairable(b.edges[cursor])
  PROVE  EdgeActive(b.edges[cursor]) => Candidates(b.edges[cursor]) # {}
<1> SUFFICES ASSUME EdgeActive(b.edges[cursor]) PROVE Candidates(b.edges[cursor]) # {}
  OBVIOUS
<1>1. cursor \in DOMAIN a.edges /\ a.edges = b.edges
  BY DEF AtEdge, Itself
<1>2. DOMAIN a.edges \subseteq Nat
  BY IndexFacts DEF DiffInv, FilesOK
<1>3. edges.matched = {<<k, k>> : k \in SettledEdges}
  BY DEF SelfInv
<1>4. cursor \notin {p[1] : p \in edges.matched}
  BY <1>1, <1>2, <1>3 DEF SettledEdges
<1>5. SameBucket(a.edges[cursor], b.edges[cursor]) /\ EdgesMatch(a.edges[cursor], b.edges[cursor])
  BY <1>1, SelfSimilar
<1>6. cursor \in Candidates(b.edges[cursor])
  BY <1>1, <1>4, <1>5 DEF Candidates
<1> QED
  BY <1>6

LEMMA SelfInit == Init => SelfInv
<1>1. Init => FilesOK /\ cursor = 1 /\ edges = NoEdges
  BY DiffInit DEF DiffInv, Init
<1> QED
  BY <1>1, SelfStarts

LEMMA SelfFrame ==
  ASSUME UNCHANGED <<a, b, filter, cursor, edges>>, SelfInv
  PROVE  SelfInv'
<1>1. ActiveEdges(a)' = ActiveEdges(a)
  <2>1. \A e : EdgeActive(e)' <=> EdgeActive(e)
    BY DEF EdgeActive, EndAllowed, WithId
  <2>2. \A k : k \in ActiveEdges(a)' <=> k \in ActiveEdges(a)
    BY <2>1 DEF ActiveEdges
  <2> QED
    BY <2>2
<1>2. SettledEdges' = SettledEdges
  BY <1>1 DEF SettledEdges, Pairable, Ids
<1>3. Itself' <=> Itself
  BY DEF Itself
<1> QED
  BY <1>2, <1>3 DEF SelfInv

\* The cursor moves on.
LEMMA SelfCursor ==
  ASSUME DiffInv, SelfInv, Itself, AtEdge, cursor' = cursor + 1,
         UNCHANGED <<a, b, filter, forest>>
  PROVE  IF EdgeActive(b.edges[cursor]) /\ Pairable(b.edges[cursor])
           THEN SettledEdges' = SettledEdges \cup {cursor}
           ELSE SettledEdges' = SettledEdges
<1>1. ActiveEdges(a)' = ActiveEdges(a)
  BY EdgeSetsStay
<1>2. ActiveEdges(a) \subseteq Nat /\ cursor \in Nat
  BY IndexFacts DEF DiffInv, FilesOK, ActiveEdges, AtEdge
<1>3. \A k \in ActiveEdges(a) : k < cursor + 1 <=> k < cursor \/ k = cursor
  BY <1>2
<1>4. SettledEdges' = {k \in ActiveEdges(a) : k < cursor + 1 /\ Pairable(a.edges[k])}
  BY <1>1 DEF SettledEdges, Pairable, Ids
<1>5. /\ cursor \in ActiveEdges(a) <=> EdgeActive(b.edges[cursor])
      /\ a.edges[cursor] = b.edges[cursor]
  BY DEF AtEdge, Itself, ActiveEdges
<1> QED
  BY <1>3, <1>4, <1>5 DEF SettledEdges

LEMMA SelfStep == DiffInv /\ SelfInv /\ [Next]_vars => SelfInv'
<1> SUFFICES ASSUME DiffInv, SelfInv, [Next]_vars
             PROVE  SelfInv'
  OBVIOUS
<1>1. FilesOK'
  <2>1. DiffInv'
    BY DiffStep
  <2> QED
    BY <2>1 DEF DiffInv
<1>2. CASE \E key \in pending : VisitKey(key)
  <2>1. (cursor = 1 /\ edges = NoEdges)'
    BY <1>2 DEF VisitKey, DiffInv, StageOK
  <2> QED
    BY <1>1, <2>1, SelfStartsNext
<1>3. CASE MatchRest
  <2>1. (cursor = 1 /\ edges = NoEdges)'
    BY <1>3 DEF MatchRest, DiffInv, StageOK
  <2> QED
    BY <1>1, <2>1, SelfStartsNext
<1>4. CASE Reverse
  <2>1. (cursor = 1 /\ edges = NoEdges)'
    BY <1>4 DEF Reverse
  <2> QED
    BY <1>1, <2>1, SelfStartsNext
<1>5. CASE Finish
  BY <1>5, SelfFrame DEF Finish
<1>6. CASE UNCHANGED vars
  BY <1>6, SelfFrame DEF vars
<1>7. ASSUME AtEdge, cursor' = cursor + 1, UNCHANGED <<a, b, filter, forest>>,
             SkipEdge \/ PairEdge \/ AddEdge
      PROVE  SelfInv'
  <2>1. Itself' <=> Itself
    BY <1>7 DEF Itself
  <2> SUFFICES ASSUME Itself
               PROVE  edges'.matched = {<<k, k>> : k \in SettledEdges'}
    BY <2>1 DEF SelfInv
  <2>2. edges.matched = {<<k, k>> : k \in SettledEdges}
    BY DEF SelfInv
  <2>3. CASE SkipEdge
    <3>1. edges' = edges /\ ~EdgeActive(b.edges[cursor])
      BY <2>3 DEF SkipEdge
    <3>2. SettledEdges' = SettledEdges
      BY <1>7, <3>1, SelfCursor
    <3> QED
      BY <2>2, <3>1, <3>2
  <2>4. CASE PairEdge
    <3>1. EdgeActive(b.edges[cursor])
      BY <2>4 DEF PairEdge
    <3>2. PICK i \in Candidates(b.edges[cursor]) :
             /\ \A k \in Candidates(b.edges[cursor]) : i <= k
             /\ edges' = [edges EXCEPT !.matched = @ \cup {<<i, cursor>>}]
      BY <2>4 DEF PairEdge
    <3>3. i = cursor /\ Pairable(b.edges[cursor])
      BY <1>7, <3>1, <3>2, SelfEdge, SelfPairable DEF Candidates
    <3>4. edges \in [matched : SUBSET Similar, added : SUBSET (1 .. cursor - 1)]
      BY DEF DiffInv, EdgesOK
    <3>5. edges'.matched = edges.matched \cup {<<cursor, cursor>>}
      BY <3>2, <3>3, <3>4
    <3>6. SettledEdges' = SettledEdges \cup {cursor}
      BY <1>7, <3>1, <3>3, SelfCursor
    <3> DEFINE S == SettledEdges
               T == SettledEdges'
    <3>7. edges'.matched = {<<k, k>> : k \in S} \cup {<<cursor, cursor>>} /\ T = S \cup {cursor}
      BY <2>2, <3>5, <3>6
    <3> HIDE DEF S, T
    <3>8. edges'.matched = {<<k, k>> : k \in T}
      BY <3>7
    <3> QED
      BY <3>8 DEF T
  <2>5. CASE AddEdge
    <3>1. EdgeActive(b.edges[cursor]) /\ Candidates(b.edges[cursor]) = {}
      BY <2>5 DEF AddEdge
    <3>2. ~Pairable(b.edges[cursor])
      BY <1>7, <3>1, SelfCandidate
    <3>3. SettledEdges' = SettledEdges
      BY <1>7, <3>2, SelfCursor
    <3>4. edges'.matched = edges.matched
      <4>1. edges \in [matched : SUBSET Similar, added : SUBSET (1 .. cursor - 1)]
        BY DEF DiffInv, EdgesOK
      <4>2. edges' = [edges EXCEPT !.added = @ \cup {cursor}]
        BY <2>5 DEF AddEdge
      <4> QED
        BY <4>1, <4>2
    <3> QED
      BY <2>2, <3>3, <3>4
  <2> QED
    BY <1>7, <2>3, <2>4, <2>5
<1>8. CASE SkipEdge
  BY <1>7, <1>8 DEF SkipEdge
<1>9. CASE PairEdge
  BY <1>7, <1>9 DEF PairEdge
<1>10. CASE AddEdge
  BY <1>7, <1>10 DEF AddEdge
<1> QED
  BY <1>2, <1>3, <1>4, <1>5, <1>6, <1>8, <1>9, <1>10 DEF Next

LEMMA SelfHolds == DiffInv /\ SelfInv => NothingDiffersFromItself
<1> SUFFICES ASSUME DiffInv, SelfInv, a = b, exit # None, UniqueIds(a),
                    \A i \in DOMAIN a.nodes : PeriodsOrdered(a.nodes[i]),
                    \A i \in DOMAIN a.edges : PeriodsOrdered(a.edges[i])
             PROVE  exit = 0
                      <=> /\ \A p \in Identified : ~IsModified(a.nodes[p[1]], b.nodes[p[2]])
                          /\ \A i \in DOMAIN a.edges : EdgeActive(a.edges[i]) => Pairable(a.edges[i])
  BY DEF NothingDiffersFromItself
<1>1. FilesOK
  BY DEF DiffInv
<1>2. stage = "done"
  BY DEF DiffInv, StageOK
<1>3. nodes.removed = {} /\ nodes.added = {}
  BY <1>2, SelfNodes
<1>4. Itself
  BY DEF Itself
<1>5. cursor = Len(b.edges) + 1
  BY <1>2 DEF DiffInv, EdgesOK
<1>6. /\ ActiveEdges(a) \subseteq Nat /\ \A k \in ActiveEdges(a) : k < cursor
      /\ ActiveEdges(b) = ActiveEdges(a)
  <2>1. DOMAIN b.edges = 1 .. Len(b.edges) /\ Len(b.edges) \in Nat
    BY <1>1, IndexFacts DEF FilesOK
  <2> QED
    BY <1>5, <2>1 DEF ActiveEdges
<1>7. edges.matched = {<<k, k>> : k \in SettledEdges}
  BY <1>4 DEF SelfInv
<1>8. \A k \in ActiveEdges(a) : Pairable(a.edges[k]) => <<k, k>> \in edges.matched
  BY <1>6, <1>7 DEF SettledEdges
<1>9. \A p \in edges.matched : p[1] = p[2] /\ Pairable(a.edges[p[1]])
  BY <1>7 DEF SettledEdges
<1>10. ASSUME exit = 0
       PROVE  /\ \A p \in Identified : ~IsModified(a.nodes[p[1]], b.nodes[p[2]])
              /\ \A i \in DOMAIN a.edges : EdgeActive(a.edges[i]) => Pairable(a.edges[i])
  <2>1. /\ \A p \in nodes.matched : ~IsModified(a.nodes[p[1]], b.nodes[p[2]])
        /\ \A k \in ActiveEdges(a) : \E p \in edges.matched : p[1] = k
    BY <1>10, SilentResult
  <2>2. Identified \subseteq nodes.matched
    BY <1>2, NodesAre, PairsAreLinks DEF Links
  <2>3. \A k \in ActiveEdges(a) : Pairable(a.edges[k])
    BY <1>9, <2>1
  <2> QED
    BY <2>1, <2>2, <2>3 DEF ActiveEdges
<1>11. ASSUME \A p \in Identified : ~IsModified(a.nodes[p[1]], b.nodes[p[2]]),
              \A i \in DOMAIN a.edges : EdgeActive(a.edges[i]) => Pairable(a.edges[i])
       PROVE  exit = 0
  <2>1. {p \in nodes.matched : IsModified(a.nodes[p[1]], b.nodes[p[2]])} = {}
    BY <1>2, <1>11, SelfUnmodified
  <2>2. \A k \in ActiveEdges(a) : <<k, k>> \in edges.matched
    BY <1>8, <1>11 DEF ActiveEdges
  <2>3. {p \in edges.matched : IsModified(a.edges[p[1]], b.edges[p[2]])} = {}
    BY <1>9, UnmodifiedItself
  <2>4. ActiveEdges(a) \ {p[1] : p \in edges.matched} = {}
    <3> DEFINE S == ActiveEdges(a)
    <3>1. \A k \in S : \E p \in edges.matched : p[1] = k
      BY <2>2
    <3> HIDE DEF S
    <3> QED
      BY <3>1 DEF S
  <2>5. edges.added = {}
    <3>1. \A j \in 1 .. cursor - 1 : j \in edges.added =>
            j \in ActiveEdges(b) /\ ~\E p \in edges.matched : p[2] = j
      BY DEF DiffInv, EdgesOK
    <3>2. edges.added \subseteq 1 .. cursor - 1
      BY DEF DiffInv, EdgesOK
    <3>3. \A k \in ActiveEdges(b) : \E p \in edges.matched : p[2] = k
      BY <1>6, <2>2
    <3> QED
      BY <3>1, <3>2, <3>3
  <2>6. IsEmpty(Result)
    BY <1>3, <2>1, <2>3, <2>4, <2>5, ResultIs DEF IsEmpty
  <2> QED
    BY <1>2, <2>6 DEF DiffInv, ExitOK
<1> QED
  BY <1>10, <1>11

(* A file compared with itself, filtered or not, gives exit code 0 exactly *)
(* when no two of its nodes that share an identifier differ and each edge  *)
(* that passes the filter joins nodes of the file and is not same_as.      *)
THEOREM DiffNothingDiffersFromItself == Spec => []NothingDiffersFromItself
<1>1. Spec => []SelfInv
  <2>1. DiffInv /\ SelfInv /\ [Next]_vars => SelfInv'
    BY SelfStep
  <2> QED
    BY <2>1, SelfInit, DiffInvHolds, PTL DEF Spec
<1> QED
  BY <1>1, DiffInvHolds, SelfHolds, PTL

-----------------------------------------------------------------------------
(* The comparison the other way.  Going through the edges of b and taking  *)
(* the first edge of a that is left yields the stable matching of those    *)
(* that match: a pair is left out only because one of the two has a better *)
(* partner, an earlier one.  There is only one, from either side.          *)

StableMatch(M, R) ==
  /\ M \subseteq R
  /\ \A p, q \in M : p[1] = q[1] \/ p[2] = q[2] => p = q
  /\ \A e \in R \ M : \E q \in M :
       (q[1] = e[1] /\ q[2] < e[2]) \/ (q[2] = e[2] /\ q[1] < e[1])

LEMMA StableLess ==
  ASSUME NEW R \in SUBSET (Nat \X Nat), NEW M, StableMatch(M, R), NEW N, StableMatch(N, R),
         NEW e \in M, e \notin N
  PROVE  \E q \in N : q \notin M /\ q[1] + q[2] < e[1] + e[2]
<1>1. e \in R \ N
  BY DEF StableMatch
<1>2. PICK q \in N : (q[1] = e[1] /\ q[2] < e[2]) \/ (q[2] = e[2] /\ q[1] < e[1])
  BY <1>1 DEF StableMatch
<1>3. q \in R /\ e \in R
  BY <1>1, <1>2 DEF StableMatch
<1>4. q[1] \in Nat /\ q[2] \in Nat /\ e[1] \in Nat /\ e[2] \in Nat
  BY <1>3
<1>5. q[1] + q[2] < e[1] + e[2]
  BY <1>2, <1>4
<1>6. q # e
  BY <1>2, <1>4
<1>7. q \notin M
  BY <1>2, <1>6 DEF StableMatch
<1> QED
  BY <1>5, <1>7

LEMMA StableUnique ==
  ASSUME NEW R \in SUBSET (Nat \X Nat), NEW M, StableMatch(M, R), NEW N, StableMatch(N, R)
  PROVE  M = N
<1> DEFINE D == (M \ N) \cup (N \ M)
           sums == {e[1] + e[2] : e \in D}
<1> SUFFICES ASSUME D # {} PROVE FALSE
  OBVIOUS
<1>1. D \subseteq R
  BY DEF StableMatch
<1>2. sums \in SUBSET Nat /\ sums # {}
  <2>1. \A e \in D : e[1] \in Nat /\ e[2] \in Nat
    BY <1>1
  <2> HIDE DEF D
  <2> QED
    BY <2>1
<1>3. \A e \in D : \E q \in D : q[1] + q[2] < e[1] + e[2]
  <2>1. \A e \in M : e \notin N => \E q \in N : q \notin M /\ q[1] + q[2] < e[1] + e[2]
    BY StableLess
  <2>2. \A e \in N : e \notin M => \E q \in M : q \notin N /\ q[1] + q[2] < e[1] + e[2]
    BY StableLess
  <2> QED
    BY <2>1, <2>2
<1>4. PICK m \in sums : \A k \in sums : m <= k
  <2> HIDE DEF sums
  <2> QED
    BY <1>2, LeastNatural
<1>5. PICK e \in D : m = e[1] + e[2]
  <2> HIDE DEF D
  <2> QED
    BY <1>4
<1>6. PICK q \in D : q[1] + q[2] < e[1] + e[2]
  BY <1>3, <1>5
<1>7. q[1] + q[2] \in sums
  <2> HIDE DEF D
  <2> QED
    BY <1>6
<1>8. m \in Nat /\ q[1] + q[2] \in Nat
  BY <1>2, <1>4, <1>7
<1>9. m <= q[1] + q[2]
  BY <1>4, <1>7
<1> HIDE DEF D, sums
<1> QED
  BY <1>5, <1>6, <1>8, <1>9

LEMMA InTransposed ==
  ASSUME NEW R \in SUBSET (Nat \X Nat)
  PROVE  /\ Transposed(R) \in SUBSET (Nat \X Nat)
         /\ \A e : e \in Transposed(R) <=> e \in Nat \X Nat /\ <<e[2], e[1]>> \in R
<1>1. \A p \in R : p[1] \in Nat /\ p[2] \in Nat /\ p = <<p[1], p[2]>>
  OBVIOUS
<1>2. Transposed(R) \in SUBSET (Nat \X Nat)
  BY <1>1 DEF Transposed
<1>3. ASSUME NEW e \in Transposed(R) PROVE <<e[2], e[1]>> \in R
  <2>1. PICK p \in R : e = <<p[2], p[1]>>
    BY <1>3 DEF Transposed
  <2> QED
    BY <1>1, <2>1
<1>4. ASSUME NEW e \in Nat \X Nat, <<e[2], e[1]>> \in R PROVE e \in Transposed(R)
  <2> DEFINE p == <<e[2], e[1]>>
  <2>1. e = <<p[2], p[1]>>
    OBVIOUS
  <2>2. p \in R
    BY <1>4
  <2> HIDE DEF p
  <2> QED
    BY <2>1, <2>2 DEF Transposed
<1> QED
  BY <1>2, <1>3, <1>4

LEMMA StableTransposed ==
  ASSUME NEW R \in SUBSET (Nat \X Nat), NEW M, StableMatch(M, R)
  PROVE  StableMatch(Transposed(M), Transposed(R))
<1>1. M \in SUBSET (Nat \X Nat)
  BY DEF StableMatch
<1>2. /\ Transposed(M) \in SUBSET (Nat \X Nat) /\ Transposed(R) \in SUBSET (Nat \X Nat)
      /\ \A e : e \in Transposed(M) <=> e \in Nat \X Nat /\ <<e[2], e[1]>> \in M
      /\ \A e : e \in Transposed(R) <=> e \in Nat \X Nat /\ <<e[2], e[1]>> \in R
  BY <1>1, InTransposed
<1>3. Transposed(M) \subseteq Transposed(R)
  BY <1>2 DEF StableMatch
<1>4. ASSUME NEW p \in Transposed(M), NEW q \in Transposed(M), p[1] = q[1] \/ p[2] = q[2]
      PROVE  p = q
  <2>1. p \in Nat \X Nat /\ q \in Nat \X Nat /\ <<p[2], p[1]>> \in M /\ <<q[2], q[1]>> \in M
    BY <1>2
  <2>2. <<p[2], p[1]>> = <<q[2], q[1]>>
    BY <1>4, <2>1 DEF StableMatch
  <2> QED
    BY <2>1, <2>2
<1>5. ASSUME NEW e \in Transposed(R), e \notin Transposed(M)
      PROVE  \E q \in Transposed(M) : (q[1] = e[1] /\ q[2] < e[2]) \/ (q[2] = e[2] /\ q[1] < e[1])
  <2>1. e \in Nat \X Nat /\ <<e[2], e[1]>> \in R \ M
    BY <1>2, <1>5
  <2>2. PICK p \in M : (p[1] = e[2] /\ p[2] < e[1]) \/ (p[2] = e[1] /\ p[1] < e[2])
    BY <2>1 DEF StableMatch
  <2>3. p = <<p[1], p[2]>> /\ p[1] \in Nat /\ p[2] \in Nat
    BY <1>1
  <2>4. <<p[2], p[1]>> \in Transposed(M)
    BY <1>2, <2>3
  <2> QED
    BY <2>2, <2>4
<1> QED
  BY <1>3, <1>4, <1>5 DEF StableMatch

SettledPairs == {p \in Similar : p[2] < cursor}
StableInv == StableMatch(edges.matched, SettledPairs)

LEMMA StableStarts ==
  ASSUME FilesOK, cursor = 1, edges = NoEdges
  PROVE  StableInv
<1>1. \A p \in Similar : p[2] \in Nat /\ p[2] # 0
  BY IndexFacts DEF FilesOK, ActiveEdges, Similar
<1>2. SettledPairs = {}
  BY <1>1 DEF SettledPairs
<1> QED
  BY <1>2 DEF StableInv, StableMatch, NoEdges

LEMMA StableStartsNext == (FilesOK /\ cursor = 1 /\ edges = NoEdges)' => StableInv'
<1>1. FilesOK /\ cursor = 1 /\ edges = NoEdges => StableInv
  BY StableStarts
<1> QED
  BY <1>1, PTL

LEMMA StableInit == Init => StableInv
<1>1. Init => FilesOK /\ cursor = 1 /\ edges = NoEdges
  BY DiffInit DEF DiffInv, Init
<1> QED
  BY <1>1, StableStarts

LEMMA StableFrame ==
  ASSUME UNCHANGED <<a, b, filter, cursor, edges, forest>>, StableInv
  PROVE  StableInv'
<1>1. Similar' = Similar
  BY EdgeSetsStay
<1>2. SettledPairs' = SettledPairs
  BY <1>1 DEF SettledPairs
<1> QED
  BY <1>2 DEF StableInv

\* The edges of a that match an edge of b are its candidates, except those
\* that have their partner.
LEMMA CandidatesAre ==
  ASSUME DiffInv, AtEdge, NEW i, <<i, cursor>> \in Similar, i \notin Candidates(b.edges[cursor])
  PROVE  \E q \in edges.matched : q[1] = i /\ q[2] < cursor
<1>1. i \in ActiveEdges(a) /\ SameBucket(a.edges[i], b.edges[cursor])
        /\ EdgesMatch(a.edges[i], b.edges[cursor])
  BY DEF Similar
<1>2. i \in {p[1] : p \in edges.matched}
  BY <1>1 DEF Candidates, ActiveEdges
<1>3. PICK q \in edges.matched : q[1] = i
  BY <1>2
<1>4. q[2] < cursor
  BY <1>3 DEF DiffInv, EdgesOK
<1> QED
  BY <1>3, <1>4

LEMMA SettledGrow ==
  ASSUME DiffInv, AtEdge, cursor' = cursor + 1, UNCHANGED <<a, b, filter, forest>>
  PROVE  /\ \A p : p \in SettledPairs' <=> p \in Similar /\ (p \in SettledPairs \/ p[2] = cursor)
         /\ \A p \in Similar : p = <<p[1], p[2]>> /\ p[1] \in Nat /\ p[2] \in Nat
         /\ SettledPairs \subseteq Similar /\ cursor \in Nat
<1>1. Similar' = Similar
  BY EdgeSetsStay
<1>2. \A p \in Similar : p[1] \in Nat /\ p[2] \in Nat
  BY SimilarAre DEF DiffInv
<1>3. cursor \in Nat
  BY IndexFacts DEF DiffInv, FilesOK, AtEdge
<1>4. \A p \in Similar : p = <<p[1], p[2]>>
  BY DEF Similar
<1>5. \A p \in Similar : p[2] < cursor + 1 <=> p[2] < cursor \/ p[2] = cursor
  BY <1>2, <1>3
<1>6. \A p : p \in SettledPairs' <=> p \in Similar /\ p[2] < cursor + 1
  BY <1>1 DEF SettledPairs
<1> QED
  BY <1>2, <1>3, <1>4, <1>5, <1>6 DEF SettledPairs

LEMMA StablePair ==
  ASSUME DiffInv, StableInv, PairEdge
  PROVE  StableInv'
<1>1. AtEdge /\ cursor' = cursor + 1 /\ UNCHANGED <<a, b, filter, forest>>
  BY DEF PairEdge
<1>2. PICK i \in Candidates(b.edges[cursor]) :
         /\ \A k \in Candidates(b.edges[cursor]) : i <= k
         /\ edges' = [edges EXCEPT !.matched = @ \cup {<<i, cursor>>}]
  BY DEF PairEdge
<1> DEFINE M == edges.matched
           new == <<i, cursor>>
           R == SettledPairs
           Q == SettledPairs'
<1>3. edges'.matched = M \cup {new}
  <2>1. edges \in [matched : SUBSET Similar, added : SUBSET (1 .. cursor - 1)]
    BY DEF DiffInv, EdgesOK
  <2> QED
    BY <1>2, <2>1
<1>4. StableMatch(M, R)
  BY DEF StableInv
<1>5. /\ \A p : p \in Q <=> p \in Similar /\ (p \in R \/ p[2] = cursor)
      /\ \A p \in Similar : p = <<p[1], p[2]>> /\ p[1] \in Nat /\ p[2] \in Nat
      /\ R \subseteq Similar /\ cursor \in Nat
  BY <1>1, SettledGrow
<1>6. new \in Similar
  BY <1>1, <1>2 DEF Similar, Candidates, ActiveEdges, AtEdge, PairEdge
<1>7. \A p \in M : p[1] # i /\ p[2] < cursor
  BY <1>2 DEF Candidates, DiffInv, EdgesOK
<1>8. \A k : <<k, cursor>> \in Similar => k = i \/ i < k \/ \E q \in M : q[1] = k /\ q[2] < cursor
  <2> TAKE k
  <2> HAVE <<k, cursor>> \in Similar
  <2>1. CASE k \in Candidates(b.edges[cursor])
    <3>1. i <= k
      BY <1>2, <2>1
    <3>2. i \in Nat /\ k \in Nat
      <4>1. new[1] \in Nat /\ <<k, cursor>>[1] \in Nat
        BY <1>5, <1>6
      <4> QED
        BY <4>1
    <3> QED
      BY <3>1, <3>2
  <2>2. CASE k \notin Candidates(b.edges[cursor])
    BY <1>1, <2>2, CandidatesAre
  <2> QED
    BY <2>1, <2>2
<1> HIDE DEF M, R, Q
<1>9. M \cup {new} \subseteq Q
  BY <1>4, <1>5, <1>6 DEF StableMatch
<1>10. ASSUME NEW p \in M \cup {new}, NEW q \in M \cup {new}, p[1] = q[1] \/ p[2] = q[2]
       PROVE  p = q
  <2>1. \A r \in M : r[1] # new[1] /\ r[2] # new[2]
    <3>1. \A r \in M : r[2] \in Nat
      BY <1>4, <1>5 DEF StableMatch
    <3> QED
      BY <1>5, <1>7, <3>1
  <2> HIDE DEF new
  <2> QED
    BY <1>4, <1>10, <2>1 DEF StableMatch
<1>11. ASSUME NEW e \in Q \ (M \cup {new})
       PROVE  \E q \in M \cup {new} : (q[1] = e[1] /\ q[2] < e[2]) \/ (q[2] = e[2] /\ q[1] < e[1])
  <2>1. CASE e \in R
    BY <1>4, <1>11, <2>1 DEF StableMatch
  <2>2. CASE e \notin R
    <3>1. e \in Similar /\ e[2] = cursor
      BY <1>5, <1>11, <2>2
    <3>2. e = <<e[1], cursor>>
      BY <1>5, <3>1
    <3>3. e[1] # i
      BY <1>11, <3>2
    <3>4. i < e[1] \/ \E q \in M : q[1] = e[1] /\ q[2] < cursor
      BY <1>8, <3>1, <3>2, <3>3
    <3>5. new[1] = i /\ new[2] = cursor /\ new \in M \cup {new}
      OBVIOUS
    <3> HIDE DEF new
    <3> QED
      BY <3>1, <3>4, <3>5
  <2> QED
    BY <2>1, <2>2
<1>12. StableMatch(M \cup {new}, Q)
  BY <1>9, <1>10, <1>11 DEF StableMatch
<1> QED
  BY <1>3, <1>12 DEF StableInv, Q

LEMMA StablePassed ==
  ASSUME DiffInv, StableInv, AtEdge, cursor' = cursor + 1, UNCHANGED <<a, b, filter, forest>>,
         edges'.matched = edges.matched,
         EdgeActive(b.edges[cursor]) => Candidates(b.edges[cursor]) = {}
  PROVE  StableInv'
<1> DEFINE M == edges.matched
           R == SettledPairs
           Q == SettledPairs'
<1>1. StableMatch(M, R)
  BY DEF StableInv
<1>2. /\ \A p : p \in Q <=> p \in Similar /\ (p \in R \/ p[2] = cursor)
      /\ \A p \in Similar : p = <<p[1], p[2]>> /\ p[1] \in Nat /\ p[2] \in Nat
      /\ R \subseteq Similar /\ cursor \in Nat
  BY SettledGrow
<1>3. \A k : <<k, cursor>> \in Similar => \E q \in M : q[1] = k /\ q[2] < cursor
  <2> TAKE k
  <2> HAVE <<k, cursor>> \in Similar
  <2>1. EdgeActive(b.edges[cursor])
    BY DEF Similar, ActiveEdges
  <2>2. k \notin Candidates(b.edges[cursor])
    BY <2>1
  <2> QED
    BY <2>2, CandidatesAre
<1> HIDE DEF M, R, Q
<1>4. M \subseteq Q
  BY <1>1, <1>2 DEF StableMatch
<1>5. ASSUME NEW e \in Q \ M
      PROVE  \E q \in M : (q[1] = e[1] /\ q[2] < e[2]) \/ (q[2] = e[2] /\ q[1] < e[1])
  <2>1. CASE e \in R
    BY <1>1, <1>5, <2>1 DEF StableMatch
  <2>2. CASE e \notin R
    <3>1. e \in Similar /\ e[2] = cursor
      BY <1>2, <1>5, <2>2
    <3>2. e = <<e[1], cursor>>
      BY <1>2, <3>1
    <3> QED
      BY <1>3, <3>1, <3>2
  <2> QED
    BY <2>1, <2>2
<1>6. StableMatch(M, Q)
  BY <1>1, <1>4, <1>5 DEF StableMatch
<1> QED
  BY <1>6 DEF StableInv, M, Q

LEMMA StableStep == DiffInv /\ StableInv /\ [Next]_vars => StableInv'
<1> SUFFICES ASSUME DiffInv, StableInv, [Next]_vars
             PROVE  StableInv'
  OBVIOUS
<1>1. FilesOK'
  <2>1. DiffInv'
    BY DiffStep
  <2> QED
    BY <2>1 DEF DiffInv
<1>2. CASE \E key \in pending : VisitKey(key)
  <2>1. (cursor = 1 /\ edges = NoEdges)'
    BY <1>2 DEF VisitKey, DiffInv, StageOK
  <2> QED
    BY <1>1, <2>1, StableStartsNext
<1>3. CASE MatchRest
  <2>1. (cursor = 1 /\ edges = NoEdges)'
    BY <1>3 DEF MatchRest, DiffInv, StageOK
  <2> QED
    BY <1>1, <2>1, StableStartsNext
<1>4. CASE Reverse
  <2>1. (cursor = 1 /\ edges = NoEdges)'
    BY <1>4 DEF Reverse
  <2> QED
    BY <1>1, <2>1, StableStartsNext
<1>5. CASE Finish
  BY <1>5, StableFrame DEF Finish
<1>6. CASE UNCHANGED vars
  BY <1>6, StableFrame DEF vars
<1>7. CASE SkipEdge
  BY <1>7, StablePassed DEF SkipEdge
<1>8. CASE PairEdge
  BY <1>8, StablePair
<1>9. CASE AddEdge
  <2>1. edges \in [matched : SUBSET Similar, added : SUBSET (1 .. cursor - 1)]
    BY DEF DiffInv, EdgesOK
  <2>2. edges'.matched = edges.matched
    BY <1>9, <2>1 DEF AddEdge
  <2> QED
    BY <1>9, <2>2, StablePassed DEF AddEdge
<1> QED
  BY <1>2, <1>3, <1>4, <1>5, <1>6, <1>7, <1>8, <1>9 DEF Next

LEMMA StableHolds == Spec => []StableInv
<1>1. DiffInv /\ StableInv /\ [Next]_vars => StableInv'
  BY StableStep
<1> QED
  BY <1>1, StableInit, DiffInvHolds, PTL DEF Spec

-----------------------------------------------------------------------------
(* What a comparison of x with y finds, told by the files alone.           *)

RecordLink(m, n) ==
  \E r \in RecordsOf(m), s \in RecordsOf(n) :
    CanonicalId(r) \in ExternalKeys(n.ids) /\ IdentifiersMatch(r, s)
IdentifiedIn(x, y) ==
  {p \in Active(x) \X Active(y) : RecordLink(x.nodes[p[1]], y.nodes[p[2]])}
Linking(x, y, p) ==
  \/ p \in IdentifiedIn(x, y)
  \/ /\ p \in Active(x) \X Active(y)
     /\ ~\E q \in IdentifiedIn(x, y) : q[1] = p[1] \/ q[2] = p[2]
     /\ x.nodes[p[1]].id = y.nodes[p[2]].id
LinksIn(x, y) == {p \in Active(x) \X Active(y) : Linking(x, y, p)}

\* Sets of nodes of x and of y that do not tell the ends of a link apart.
Even(x, y, U, V) ==
  /\ U \subseteq DOMAIN x.nodes /\ V \subseteq DOMAIN y.nodes
  /\ \A p \in LinksIn(x, y) : p[1] \in U <=> p[2] \in V
PairedIn(x, y, i, j) == \A U, V : Even(x, y, U, V) => (i \in U <=> j \in V)

\* The node that an edge calls by this id is in one of the sets.
EndIn(x, y, U, V, id) ==
  (\E i \in U : x.nodes[i].id = id) \/ (\E j \in V : y.nodes[j].id = id)
KnownIn(x, y, id) == EndIn(x, y, DOMAIN x.nodes, DOMAIN y.nodes, id)
SameNodeIn(x, y, id1, id2) ==
  /\ KnownIn(x, y, id1) /\ KnownIn(x, y, id2)
  /\ \A U, V : Even(x, y, U, V) => (EndIn(x, y, U, V, id1) <=> EndIn(x, y, U, V, id2))
EndAllowedIn(x, y, id) == filter.nodeTypes = {} \/ EndIn(x, y, Active(x), Active(y), id)
EdgeActiveIn(x, y, e) ==
  /\ Allowed(filter.edgeTypes, e.type)
  /\ EndAllowedIn(x, y, e.source) /\ EndAllowedIn(x, y, e.target)
EdgesIn(x, y, file) == {k \in DOMAIN file.edges : EdgeActiveIn(x, y, file.edges[k])}
SimilarEdges(x, y, d, e) ==
  /\ SameNodeIn(x, y, d.source, e.source) /\ SameNodeIn(x, y, d.target, e.target)
  /\ d.type = e.type /\ EdgesMatch(d, e)
SimilarIn(x, y) ==
  {p \in EdgesIn(x, y, x) \X EdgesIn(x, y, y) : SimilarEdges(x, y, x.edges[p[1]], y.edges[p[2]])}
NoIdReusedIn(x, y) ==
  \A i \in DOMAIN x.nodes, j \in DOMAIN y.nodes :
    x.nodes[i].id = y.nodes[j].id =>
      i \in Active(x) /\ j \in Active(y) /\ PairedIn(x, y, i, j)

-----------------------------------------------------------------------------
(* It is the same from either side.                                        *)

LEMMA MatchSymmetric ==
  ASSUME NEW r, NEW s
  PROVE  IdentifiersMatch(r, s) <=> IdentifiersMatch(s, r)
<1>1. SameAuthority(r, s) <=> SameAuthority(s, r)
  BY DEF SameAuthority
<1>2. TemporalCompatible(r, s) <=> TemporalCompatible(s, r)
  BY DEF TemporalCompatible
<1> QED
  BY <1>1, <1>2 DEF IdentifiersMatch

LEMMA EdgesMatchSymmetric ==
  ASSUME NEW d, NEW e
  PROVE  EdgesMatch(d, e) <=> EdgesMatch(e, d)
<1>1. AnyMatch(External(d.ids), External(e.ids)) <=> AnyMatch(External(e.ids), External(d.ids))
  BY MatchSymmetric DEF AnyMatch
<1>2. d.type = e.type =>
        (IdentityPropertiesMatch(d.type, d.props, e.props)
           <=> IdentityPropertiesMatch(e.type, e.props, d.props))
  BY DEF IdentityPropertiesMatch
<1> QED
  BY <1>1, <1>2 DEF EdgesMatch

\* Records of one spelling that match a record with their key have that key.
LEMMA LinkSymmetric ==
  ASSUME NEW m, Typed(m), NEW n, Typed(n),
         \A x, y \in RecordsOf(n) : Plain(x) = Plain(y) => CanonicalId(x) = CanonicalId(y),
         RecordLink(m, n)
  PROVE  RecordLink(n, m)
<1>1. PICK r \in RecordsOf(m), s \in RecordsOf(n) :
        CanonicalId(r) \in ExternalKeys(n.ids) /\ IdentifiersMatch(r, s)
  BY DEF RecordLink
<1>2. ExternalKeys(n.ids) = {CanonicalId(t) : t \in RecordsOf(n)}
  BY RecordsAre DEF Typed, HasIdentifiers
<1>3. PICK t \in RecordsOf(n) : CanonicalId(t) = CanonicalId(r)
  BY <1>1, <1>2
<1>4. IsIdentifier(r) /\ IsIdentifier(s) /\ IsIdentifier(t)
  BY <1>1, <1>3, RecordTyped
<1>5. /\ t.scheme = r.scheme /\ t.value[1] = r.value[1]
      /\ RequiresAuthority(t.scheme) =>
           (IF t.auth = None THEN NoText ELSE t.auth) = (IF r.auth = None THEN NoText ELSE r.auth)
  BY <1>3, <1>4, CanonicalIdTells
<1>6. Plain(t) = Plain(r)
  BY <1>5 DEF Plain, NoText
<1>7. Plain(r) = Plain(s)
  BY <1>1 DEF IdentifiersMatch, SameAuthority, Plain
<1>8. CanonicalId(s) = CanonicalId(r)
  BY <1>1, <1>3, <1>6, <1>7
<1>9. CanonicalId(s) \in ExternalKeys(m.ids)
  BY <1>1, <1>8, RecordTyped
<1>10. IdentifiersMatch(s, r)
  BY <1>1, MatchSymmetric
<1> QED
  BY <1>1, <1>9, <1>10 DEF RecordLink

LEMMA IdentifiedMirror ==
  ASSUME NEW x, Parsed(x), OneSpelling(x), NEW y, Parsed(y), OneSpelling(y), NEW i, NEW j
  PROVE  <<i, j>> \in IdentifiedIn(x, y) <=> <<j, i>> \in IdentifiedIn(y, x)
<1>1. CASE i \in Active(x) /\ j \in Active(y)
  <2> DEFINE m == x.nodes[i]
             n == y.nodes[j]
  <2>1. i \in DOMAIN x.nodes /\ j \in DOMAIN y.nodes
    BY <1>1 DEF Active
  <2>2. Typed(m) /\ Typed(n)
    BY <2>1 DEF Parsed
  <2>3. /\ \A r, s \in RecordsOf(m) : Plain(r) = Plain(s) => CanonicalId(r) = CanonicalId(s)
        /\ \A r, s \in RecordsOf(n) : Plain(r) = Plain(s) => CanonicalId(r) = CanonicalId(s)
    BY <2>1 DEF OneSpelling
  <2> HIDE DEF m, n
  <2>4. RecordLink(m, n) <=> RecordLink(n, m)
    BY <2>2, <2>3, LinkSymmetric
  <2> QED
    BY <1>1, <2>4 DEF IdentifiedIn, m, n
<1>2. CASE ~(i \in Active(x) /\ j \in Active(y))
  BY <1>2 DEF IdentifiedIn
<1> QED
  BY <1>1, <1>2

LEMMA LinksMirror ==
  ASSUME NEW x, Parsed(x), OneSpelling(x), NEW y, Parsed(y), OneSpelling(y), NEW i, NEW j
  PROVE  <<i, j>> \in LinksIn(x, y) <=> <<j, i>> \in LinksIn(y, x)
<1> DEFINE F == IdentifiedIn(x, y)
           G == IdentifiedIn(y, x)
<1>1. \A k, l : <<k, l>> \in F <=> <<l, k>> \in G
  BY IdentifiedMirror
<1>2. (\A q \in F : q = <<q[1], q[2]>>) /\ (\A q \in G : q = <<q[1], q[2]>>)
  BY DEF IdentifiedIn
<1> HIDE DEF F, G
<1>3. (\E q \in F : q[1] = i \/ q[2] = j) <=> (\E q \in G : q[1] = j \/ q[2] = i)
  <2>1. ASSUME NEW q \in F, q[1] = i \/ q[2] = j
        PROVE  \E o \in G : o[1] = j \/ o[2] = i
    <3>1. <<q[2], q[1]>> \in G
      BY <1>1, <1>2
    <3> QED
      BY <2>1, <3>1
  <2>2. ASSUME NEW q \in G, q[1] = j \/ q[2] = i
        PROVE  \E o \in F : o[1] = i \/ o[2] = j
    <3>1. <<q[2], q[1]>> \in F
      BY <1>1, <1>2
    <3> QED
      BY <2>2, <3>1
  <2> QED
    BY <2>1, <2>2
<1>4. <<i, j>> \in LinksIn(x, y) <=>
        /\ i \in Active(x) /\ j \in Active(y)
        /\ \/ <<i, j>> \in F
           \/ ~(\E q \in F : q[1] = i \/ q[2] = j) /\ x.nodes[i].id = y.nodes[j].id
  BY DEF LinksIn, Linking, F
<1>5. <<j, i>> \in LinksIn(y, x) <=>
        /\ j \in Active(y) /\ i \in Active(x)
        /\ \/ <<j, i>> \in G
           \/ ~(\E q \in G : q[1] = j \/ q[2] = i) /\ y.nodes[j].id = x.nodes[i].id
  BY DEF LinksIn, Linking, G
<1> QED
  BY <1>1, <1>3, <1>4, <1>5

LEMMA EvenMirror ==
  ASSUME NEW x, Parsed(x), OneSpelling(x), NEW y, Parsed(y), OneSpelling(y), NEW U, NEW V
  PROVE  Even(x, y, U, V) <=> Even(y, x, V, U)
<1> DEFINE L == LinksIn(x, y)
           K == LinksIn(y, x)
<1>1. \A k, l : <<k, l>> \in L <=> <<l, k>> \in K
  BY LinksMirror
<1>2. (\A q \in L : q = <<q[1], q[2]>>) /\ (\A q \in K : q = <<q[1], q[2]>>)
  BY DEF LinksIn
<1> HIDE DEF L, K
<1>3. (\A p \in L : p[1] \in U <=> p[2] \in V) <=> (\A p \in K : p[1] \in V <=> p[2] \in U)
  <2>1. ASSUME \A p \in L : p[1] \in U <=> p[2] \in V, NEW p \in K
        PROVE  p[1] \in V <=> p[2] \in U
    <3>1. <<p[2], p[1]>> \in L
      BY <1>1, <1>2
    <3> QED
      BY <2>1, <3>1
  <2>2. ASSUME \A p \in K : p[1] \in V <=> p[2] \in U, NEW p \in L
        PROVE  p[1] \in U <=> p[2] \in V
    <3>1. <<p[2], p[1]>> \in K
      BY <1>1, <1>2
    <3> QED
      BY <2>2, <3>1
  <2> QED
    BY <2>1, <2>2
<1> QED
  BY <1>3 DEF Even, L, K

\* Two files that are compared both ways.
TwoFiles(x, y) ==
  /\ Parsed(x) /\ UniqueIds(x) /\ OneSpelling(x)
  /\ Parsed(y) /\ UniqueIds(y) /\ OneSpelling(y)

LEMMA PairedMirror ==
  ASSUME NEW x, NEW y, TwoFiles(x, y), NEW i, NEW j
  PROVE  PairedIn(x, y, i, j) <=> PairedIn(y, x, j, i)
<1>1. \A U, V : Even(x, y, U, V) <=> Even(y, x, V, U)
  BY EvenMirror DEF TwoFiles
<1> QED
  BY <1>1 DEF PairedIn

LEMMA EndMirror ==
  ASSUME NEW x, NEW y, NEW U, NEW V, NEW id
  PROVE  EndIn(x, y, U, V, id) <=> EndIn(y, x, V, U, id)
BY DEF EndIn

LEMMA SameNodeMirror ==
  ASSUME NEW x, NEW y, TwoFiles(x, y), NEW id1, NEW id2
  PROVE  SameNodeIn(x, y, id1, id2) <=> SameNodeIn(y, x, id2, id1)
<1>1. \A U, V : Even(x, y, U, V) <=> Even(y, x, V, U)
  BY EvenMirror DEF TwoFiles
<1>2. \A U, V, id : EndIn(x, y, U, V, id) <=> EndIn(y, x, V, U, id)
  BY EndMirror
<1> QED
  BY <1>1, <1>2 DEF SameNodeIn, KnownIn

LEMMA EdgesMirror ==
  ASSUME NEW x, NEW y, NEW file
  PROVE  EdgesIn(x, y, file) = EdgesIn(y, x, file)
<1>1. \A e : EdgeActiveIn(x, y, e) <=> EdgeActiveIn(y, x, e)
  BY EndMirror DEF EdgeActiveIn, EndAllowedIn
<1> QED
  BY <1>1 DEF EdgesIn

LEMMA SimilarMirror ==
  ASSUME NEW x, NEW y, TwoFiles(x, y), NEW k, NEW l
  PROVE  <<k, l>> \in SimilarIn(x, y) <=> <<l, k>> \in SimilarIn(y, x)
<1> DEFINE d == x.edges[k]
           e == y.edges[l]
<1>1. EdgesIn(x, y, x) = EdgesIn(y, x, x) /\ EdgesIn(x, y, y) = EdgesIn(y, x, y)
  BY EdgesMirror
<1>2. SimilarEdges(x, y, d, e) <=> SimilarEdges(y, x, e, d)
  <2> HIDE DEF d, e
  <2>1. /\ SameNodeIn(x, y, d.source, e.source) <=> SameNodeIn(y, x, e.source, d.source)
        /\ SameNodeIn(x, y, d.target, e.target) <=> SameNodeIn(y, x, e.target, d.target)
    BY SameNodeMirror
  <2> QED
    BY <2>1, EdgesMatchSymmetric DEF SimilarEdges
<1>3. <<k, l>> \in SimilarIn(x, y) <=>
        k \in EdgesIn(x, y, x) /\ l \in EdgesIn(x, y, y) /\ SimilarEdges(x, y, d, e)
  BY DEF SimilarIn
<1>4. <<l, k>> \in SimilarIn(y, x) <=>
        l \in EdgesIn(y, x, y) /\ k \in EdgesIn(y, x, x) /\ SimilarEdges(y, x, e, d)
  BY DEF SimilarIn
<1> QED
  BY <1>1, <1>2, <1>3, <1>4

LEMMA ReusedMirror ==
  ASSUME NEW x, NEW y, TwoFiles(x, y), NoIdReusedIn(x, y)
  PROVE  NoIdReusedIn(y, x)
BY PairedMirror DEF NoIdReusedIn

-----------------------------------------------------------------------------
(* The comparison finds what the files say.                                *)

LEMMA LinksAre ==
  ASSUME FilesOK
  PROVE  Links = LinksIn(a, b)
<1>1. Identified = IdentifiedIn(a, b)
  <2>1. ASSUME NEW i \in Active(a), NEW j \in Active(b)
        PROVE  <<i, j>> \in Identified <=> <<i, j>> \in IdentifiedIn(a, b)
    <3>1. <<i, j>> \in IdentifiedIn(a, b) <=> RecordLink(a.nodes[i], b.nodes[j])
      BY DEF IdentifiedIn
    <3> QED
      BY <3>1, IdentifiedIs DEF RecordLink
  <2>2. Identified \subseteq Active(a) \X Active(b) /\ IdentifiedIn(a, b) \subseteq Active(a) \X Active(b)
    BY DEF Identified, IdentifiedIn
  <2>3. \A p \in Active(a) \X Active(b) : p \in Identified <=> p \in IdentifiedIn(a, b)
    <3> TAKE p \in Active(a) \X Active(b)
    <3>1. p = <<p[1], p[2]>> /\ p[1] \in Active(a) /\ p[2] \in Active(b)
      OBVIOUS
    <3>2. <<p[1], p[2]>> \in Identified <=> <<p[1], p[2]>> \in IdentifiedIn(a, b)
      BY <2>1, <3>1
    <3> QED
      BY <3>1, <3>2
  <2> QED
    BY <2>2, <2>3
<1> DEFINE F == Identified
<1>2. F \subseteq Active(a) \X Active(b)
  BY DEF Identified
<1>3. Links = F \cup {p \in (Active(a) \ {p[1] : p \in F}) \X (Active(b) \ {p[2] : p \in F}) :
                        a.nodes[p[1]].id = b.nodes[p[2]].id}
  BY DEF Links
<1>4. LinksIn(a, b) =
        {p \in Active(a) \X Active(b) :
           p \in F \/ ( /\ p \in Active(a) \X Active(b)
                        /\ ~\E q \in F : q[1] = p[1] \/ q[2] = p[2]
                        /\ a.nodes[p[1]].id = b.nodes[p[2]].id)}
  BY <1>1 DEF LinksIn, Linking
<1> HIDE DEF F
<1>5. \A p \in Active(a) \X Active(b) :
        p \in (Active(a) \ {q[1] : q \in F}) \X (Active(b) \ {q[2] : q \in F})
          <=> ~\E q \in F : q[1] = p[1] \/ q[2] = p[2]
  <2> TAKE p \in Active(a) \X Active(b)
  <2>1. p = <<p[1], p[2]>> /\ p[1] \in Active(a) /\ p[2] \in Active(b)
    OBVIOUS
  <2>2. p[1] \in {q[1] : q \in F} <=> \E q \in F : q[1] = p[1]
    OBVIOUS
  <2>3. p[2] \in {q[2] : q \in F} <=> \E q \in F : q[2] = p[2]
    OBVIOUS
  <2> DEFINE A == Active(a) \ {q[1] : q \in F}
             B == Active(b) \ {q[2] : q \in F}
  <2>4. p \in A \X B <=> p[1] \in A /\ p[2] \in B
    <3> HIDE DEF A, B
    <3> QED
      BY <2>1
  <2> QED
    BY <2>1, <2>2, <2>3, <2>4
<1> DEFINE R == (Active(a) \ {q[1] : q \in F}) \X (Active(b) \ {q[2] : q \in F})
<1>6. R \subseteq Active(a) \X Active(b)
  OBVIOUS
<1>7. \A p \in Active(a) \X Active(b) : p \in R <=> ~\E q \in F : q[1] = p[1] \/ q[2] = p[2]
  BY <1>5
<1>8. Links = F \cup {p \in R : a.nodes[p[1]].id = b.nodes[p[2]].id}
  BY <1>3
<1> HIDE DEF R
<1> QED
  BY <1>2, <1>4, <1>6, <1>7, <1>8

LEMMA LinksJoinActive ==
  Links \subseteq Active(a) \X Active(b)
<1>1. Identified \subseteq Active(a) \X Active(b)
  BY DEF Identified
<1> HIDE DEF Identified
<1> QED
  BY <1>1 DEF Links

\* The two sides of a set of ordinals.
Sides(S, U, V) ==
  /\ S \subseteq Ordinals /\ U \subseteq DOMAIN a.nodes /\ V \subseteq DOMAIN b.nodes
  /\ \A i \in DOMAIN a.nodes : i \in S <=> i \in U
  /\ \A j \in DOMAIN b.nodes : Ordinal(j) \in S <=> j \in V

LEMMA SidesExist ==
  ASSUME FilesOK
  PROVE  /\ \A S \in SUBSET Ordinals : \E U, V : Sides(S, U, V)
         /\ \A U \in SUBSET DOMAIN a.nodes, V \in SUBSET DOMAIN b.nodes : \E S : Sides(S, U, V)
<1>1. /\ Len(a.nodes) \in Nat /\ DOMAIN a.nodes = 1 .. Len(a.nodes)
      /\ Len(b.nodes) \in Nat /\ DOMAIN b.nodes = 1 .. Len(b.nodes)
      /\ \A i \in DOMAIN a.nodes : i \in Ordinals
      /\ \A j \in DOMAIN b.nodes : Ordinal(j) \in Ordinals
      /\ \A i \in DOMAIN a.nodes, j \in DOMAIN b.nodes : i # Ordinal(j)
  BY IndexFacts DEF FilesOK
<1>2. \A j, k \in DOMAIN b.nodes : Ordinal(j) = Ordinal(k) => j = k
  BY <1>1 DEF Ordinal
<1>3. ASSUME NEW S \in SUBSET Ordinals PROVE \E U, V : Sides(S, U, V)
  <2> DEFINE U == {i \in DOMAIN a.nodes : i \in S}
             V == {j \in DOMAIN b.nodes : Ordinal(j) \in S}
  <2>1. Sides(S, U, V)
    BY DEF Sides
  <2> QED
    BY <2>1
<1>4. ASSUME NEW U \in SUBSET DOMAIN a.nodes, NEW V \in SUBSET DOMAIN b.nodes
      PROVE  \E S : Sides(S, U, V)
  <2> DEFINE S == U \cup {Ordinal(j) : j \in V}
  <2>1. S \subseteq Ordinals
    BY <1>1
  <2>2. \A i \in DOMAIN a.nodes : i \in S <=> i \in U
    BY <1>1
  <2>3. \A j \in DOMAIN b.nodes : Ordinal(j) \in S <=> j \in V
    BY <1>1, <1>2
  <2> HIDE DEF S
  <2>4. Sides(S, U, V)
    BY <2>1, <2>2, <2>3 DEF Sides
  <2> QED
    BY <2>4
<1> QED
  BY <1>3, <1>4

LEMMA SidesEven ==
  ASSUME FilesOK, NEW S, NEW U, NEW V, Sides(S, U, V)
  PROVE  Respects(S, Links) <=> Even(a, b, U, V)
<1>1. \A p \in Links : p[1] \in DOMAIN a.nodes /\ p[2] \in DOMAIN b.nodes
  BY LinksJoinActive DEF Active
<1>2. \A p \in Links : (p[1] \in S <=> p[1] \in U) /\ (Ordinal(p[2]) \in S <=> p[2] \in V)
  BY <1>1 DEF Sides
<1> DEFINE L == Links
<1>3. Respects(S, L) <=> \A p \in L : p[1] \in S <=> Ordinal(p[2]) \in S
  BY DEF Respects
<1>4. Even(a, b, U, V) <=> \A p \in L : p[1] \in U <=> p[2] \in V
  BY LinksAre DEF Even, Sides
<1> HIDE DEF L
<1>5. \A p \in L : (p[1] \in S <=> p[1] \in U) /\ (Ordinal(p[2]) \in S <=> p[2] \in V)
  BY <1>2 DEF L
<1> QED
  BY <1>3, <1>4, <1>5 DEF L

\* Two nodes are in one group when nothing that respects the links tells
\* them apart.
LEMMA TogetherIs ==
  ASSUME DiffInv, stage # "nodes", UniqueIds(b), NEW o1 \in Ordinals, NEW o2 \in Ordinals
  PROVE  Together(forest, o1, o2)
           <=> \A S \in SUBSET Ordinals : Respects(S, Links) => (o1 \in S <=> o2 \in S)
<1>1. DOMAIN by = Links
  BY PairsAreLinks
<1>2. /\ Joined(forest, Links)
      /\ \A S \in SUBSET Ordinals : Respects(S, Links) => Keeps(forest, S)
  BY <1>1 DEF DiffInv, ForestInv
<1>3. ASSUME Together(forest, o1, o2), NEW S \in SUBSET Ordinals, Respects(S, Links)
      PROVE  o1 \in S <=> o2 \in S
  BY <1>2, <1>3 DEF Keeps
<1>4. ASSUME \A S \in SUBSET Ordinals : Respects(S, Links) => (o1 \in S <=> o2 \in S)
      PROVE  Together(forest, o1, o2)
  <2> DEFINE S == {z \in Ordinals : Together(forest, o1, z)}
  <2>1. \A p \in Links : p[1] \in Ordinals /\ Ordinal(p[2]) \in Ordinals
    BY LinksJoinActive, ActiveIs DEF DiffInv
  <2>2. \A p \in Links : Together(forest, p[1], Ordinal(p[2]))
    BY <1>2 DEF Joined
  <2>3. \A p \in Links : p[1] \in S <=> Ordinal(p[2]) \in S
    BY <2>1, <2>2 DEF Together
  <2>4. Respects(S, Links)
    BY <2>3 DEF Respects
  <2>5. o1 \in S
    BY DEF Together
  <2>6. o2 \in S
    BY <1>4, <2>4, <2>5
  <2> QED
    BY <2>6
<1> QED
  BY <1>3, <1>4

LEMMA PairedIs ==
  ASSUME DiffInv, stage # "nodes", UniqueIds(b), NEW i \in DOMAIN a.nodes, NEW j \in DOMAIN b.nodes
  PROVE  Together(forest, i, Ordinal(j)) <=> PairedIn(a, b, i, j)
<1>1. FilesOK
  BY DEF DiffInv
<1>2. i \in Ordinals /\ Ordinal(j) \in Ordinals
  BY <1>1, IndexFacts DEF FilesOK
<1>3. ASSUME \A S \in SUBSET Ordinals : Respects(S, Links) => (i \in S <=> Ordinal(j) \in S),
             NEW U, NEW V, Even(a, b, U, V)
      PROVE  i \in U <=> j \in V
  <2>1. U \in SUBSET DOMAIN a.nodes /\ V \in SUBSET DOMAIN b.nodes
    BY <1>3 DEF Even
  <2>2. PICK S : Sides(S, U, V)
    BY <1>1, <2>1, SidesExist
  <2>3. Respects(S, Links) /\ S \in SUBSET Ordinals
    BY <1>1, <1>3, <2>2, SidesEven DEF Sides
  <2> QED
    BY <1>3, <2>2, <2>3 DEF Sides
<1>4. ASSUME PairedIn(a, b, i, j), NEW S \in SUBSET Ordinals, Respects(S, Links)
      PROVE  i \in S <=> Ordinal(j) \in S
  <2>1. PICK U, V : Sides(S, U, V)
    BY <1>1, SidesExist
  <2>2. Even(a, b, U, V)
    BY <1>1, <1>4, <2>1, SidesEven
  <2>3. i \in U <=> j \in V
    BY <1>4, <2>2 DEF PairedIn
  <2> QED
    BY <2>1, <2>3 DEF Sides
<1> QED
  BY <1>2, <1>3, <1>4, TogetherIs DEF PairedIn

LEMMA MatchedIs ==
  ASSUME DiffInv, stage # "nodes", UniqueIds(b)
  PROVE  nodes.matched = {p \in Active(a) \X Active(b) : PairedIn(a, b, p[1], p[2])}
<1>1. nodes.matched = {p \in Active(a) \X Active(b) : Together(forest, p[1], Ordinal(p[2]))}
  BY NodesAre
<1>2. \A p \in Active(a) \X Active(b) :
        Together(forest, p[1], Ordinal(p[2])) <=> PairedIn(a, b, p[1], p[2])
  BY PairedIs DEF Active
<1> QED
  BY <1>1, <1>2

LEMMA NoIdReusedIs ==
  ASSUME DiffInv, stage # "nodes", UniqueIds(a), UniqueIds(b)
  PROVE  NoIdReused <=> NoIdReusedIn(a, b)
<1>1. \A i, j : <<i, j>> \in nodes.matched <=>
        i \in Active(a) /\ j \in Active(b) /\ PairedIn(a, b, i, j)
  BY MatchedIs
<1> QED
  BY <1>1 DEF NoIdReused, NoIdReusedIn

\* The node that an edge calls by an id the files know.
Spot(o, id) ==
  /\ o \in Ordinals /\ RepOf(id) = forest.rep[o]
  /\ \A S, U, V : Sides(S, U, V) /\ Respects(S, Links) => (o \in S <=> EndIn(a, b, U, V, id))

LEMMA SpotExists ==
  ASSUME DiffInv, stage # "nodes", UniqueIds(a), UniqueIds(b), NoIdReused,
         NEW id, KnownIn(a, b, id)
  PROVE  \E o : Spot(o, id)
<1>1. FilesOK
  BY DEF DiffInv
<1>2. /\ \A i \in DOMAIN a.nodes : i \in Ordinals
      /\ \A j \in DOMAIN b.nodes : Ordinal(j) \in Ordinals
  BY <1>1, IndexFacts DEF FilesOK
<1>3. /\ \A i, k \in DOMAIN a.nodes : a.nodes[i].id = a.nodes[k].id => i = k
      /\ \A j, k \in DOMAIN b.nodes : b.nodes[j].id = b.nodes[k].id => j = k
  BY <1>1, IdsUnique DEF FilesOK
<1>4. ASSUME NEW i \in DOMAIN a.nodes, NEW j \in DOMAIN b.nodes, a.nodes[i].id = b.nodes[j].id,
             NEW S \in SUBSET Ordinals, Respects(S, Links)
      PROVE  i \in S <=> Ordinal(j) \in S
  <2>1. <<i, j>> \in nodes.matched
    BY <1>4 DEF NoIdReused
  <2>2. Together(forest, i, Ordinal(j))
    BY <2>1, NodesAre
  <2> QED
    BY <1>2, <1>4, <2>2, TogetherIs
<1>5. CASE \E j \in DOMAIN b.nodes : b.nodes[j].id = id
  <2>1. PICK j \in DOMAIN b.nodes : b.nodes[j].id = id
    BY <1>5
  <2>2. RepOf(id) = forest.rep[Ordinal(j)]
    BY <2>1, RepOfIs
  <2>3. ASSUME NEW S, NEW U, NEW V, Sides(S, U, V), Respects(S, Links)
        PROVE  Ordinal(j) \in S <=> EndIn(a, b, U, V, id)
    <3>1. S \in SUBSET Ordinals /\ (Ordinal(j) \in S <=> j \in V)
            /\ U \subseteq DOMAIN a.nodes /\ V \subseteq DOMAIN b.nodes
      BY <2>3 DEF Sides
    <3>2. \A i \in U : a.nodes[i].id = id => Ordinal(j) \in S
      <4> TAKE i \in U
      <4> HAVE a.nodes[i].id = id
      <4>1. i \in DOMAIN a.nodes /\ i \in S
        BY <2>3, <3>1 DEF Sides
      <4> QED
        BY <1>4, <2>1, <2>3, <3>1, <4>1
    <3>3. \A k \in V : b.nodes[k].id = id => k = j
      BY <1>3, <2>1, <3>1
    <3> QED
      BY <2>1, <3>1, <3>2, <3>3 DEF EndIn
  <2>4. Spot(Ordinal(j), id)
    BY <1>2, <2>1, <2>2, <2>3 DEF Spot
  <2> QED
    BY <2>4
<1>6. CASE ~\E j \in DOMAIN b.nodes : b.nodes[j].id = id
  <2>1. PICK i \in DOMAIN a.nodes : a.nodes[i].id = id
    BY <1>6 DEF KnownIn, EndIn
  <2>2. RepOf(id) = forest.rep[i]
    BY <2>1, RepOfIs
  <2>3. ASSUME NEW S, NEW U, NEW V, Sides(S, U, V), Respects(S, Links)
        PROVE  i \in S <=> EndIn(a, b, U, V, id)
    <3>1. (i \in S <=> i \in U) /\ U \subseteq DOMAIN a.nodes /\ V \subseteq DOMAIN b.nodes
      BY <2>1, <2>3 DEF Sides
    <3>2. \A k \in U : a.nodes[k].id = id => k = i
      BY <1>3, <2>1, <3>1
    <3> QED
      BY <1>6, <2>1, <3>1, <3>2 DEF EndIn
  <2>4. Spot(i, id)
    BY <1>2, <2>1, <2>2, <2>3 DEF Spot
  <2> QED
    BY <2>4
<1> QED
  BY <1>5, <1>6

LEMMA SameNodeIs ==
  ASSUME DiffInv, stage # "nodes", UniqueIds(a), UniqueIds(b), NoIdReused, NEW id1, NEW id2
  PROVE  SameNodeIn(a, b, id1, id2) <=> RepOf(id1) # None /\ RepOf(id1) = RepOf(id2)
<1>1. FilesOK /\ ForestInv
  BY DEF DiffInv
<1>2. \A o \in Ordinals : forest.rep[o] # None
  <2>1. Ordinals \subseteq Int
    BY <1>1, IndexFacts DEF FilesOK
  <2>2. \A o \in Ordinals : forest.rep[o] \in Ordinals
    BY <1>1 DEF ForestInv, Forests
  <2> QED
    BY <2>1, <2>2, DiffAssumption
<1>3. \A id : ~KnownIn(a, b, id) => RepOf(id) = None
  BY DEF KnownIn, EndIn, RepOf, WithId
<1>4. \A id : KnownIn(a, b, id) => RepOf(id) # None
  BY <1>2, SpotExists DEF Spot
<1>5. CASE ~(KnownIn(a, b, id1) /\ KnownIn(a, b, id2))
  BY <1>3, <1>5 DEF SameNodeIn
<1>6. CASE KnownIn(a, b, id1) /\ KnownIn(a, b, id2)
  <2>1. PICK o1 : Spot(o1, id1)
    BY <1>6, SpotExists
  <2>2. PICK o2 : Spot(o2, id2)
    BY <1>6, SpotExists
  <2>3. o1 \in Ordinals /\ o2 \in Ordinals
    BY <2>1, <2>2 DEF Spot
  <2>4. RepOf(id1) = RepOf(id2) <=> Together(forest, o1, o2)
    BY <2>1, <2>2 DEF Spot, Together
  <2>5. ASSUME \A S \in SUBSET Ordinals : Respects(S, Links) => (o1 \in S <=> o2 \in S),
               NEW U, NEW V, Even(a, b, U, V)
        PROVE  EndIn(a, b, U, V, id1) <=> EndIn(a, b, U, V, id2)
    <3>1. U \in SUBSET DOMAIN a.nodes /\ V \in SUBSET DOMAIN b.nodes
      BY <2>5 DEF Even
    <3>2. PICK S : Sides(S, U, V)
      BY <1>1, <3>1, SidesExist
    <3>3. Respects(S, Links) /\ S \in SUBSET Ordinals
      BY <1>1, <2>5, <3>2, SidesEven DEF Sides
    <3>4. (o1 \in S <=> EndIn(a, b, U, V, id1)) /\ (o2 \in S <=> EndIn(a, b, U, V, id2))
      BY <2>1, <2>2, <3>2, <3>3 DEF Spot
    <3> QED
      BY <2>5, <3>3, <3>4
  <2>6. ASSUME SameNodeIn(a, b, id1, id2), NEW S \in SUBSET Ordinals, Respects(S, Links)
        PROVE  o1 \in S <=> o2 \in S
    <3>1. PICK U, V : Sides(S, U, V)
      BY <1>1, SidesExist
    <3>2. Even(a, b, U, V)
      BY <1>1, <2>6, <3>1, SidesEven
    <3>3. EndIn(a, b, U, V, id1) <=> EndIn(a, b, U, V, id2)
      BY <2>6, <3>2 DEF SameNodeIn
    <3>4. (o1 \in S <=> EndIn(a, b, U, V, id1)) /\ (o2 \in S <=> EndIn(a, b, U, V, id2))
      BY <2>1, <2>2, <2>6, <3>1 DEF Spot
    <3> QED
      BY <3>3, <3>4
  <2>7. SameNodeIn(a, b, id1, id2) <=> Together(forest, o1, o2)
    BY <1>6, <2>3, <2>5, <2>6, TogetherIs DEF SameNodeIn
  <2> QED
    BY <1>4, <1>6, <2>4, <2>7
<1> QED
  BY <1>5, <1>6

LEMMA EdgeActiveIs ==
  ASSUME DiffInv, stage # "nodes", UniqueIds(a), UniqueIds(b), NoIdReused
  PROVE  ActiveEdges(a) = EdgesIn(a, b, a) /\ ActiveEdges(b) = EdgesIn(a, b, b)
<1>1. Active(a) \subseteq DOMAIN a.nodes /\ Active(b) \subseteq DOMAIN b.nodes
  BY DEF Active
<1>2. ASSUME NEW id PROVE EndAllowed(id) <=> EndAllowedIn(a, b, id)
  <2>1. CASE filter.nodeTypes = {}
    BY <2>1 DEF EndAllowed, EndAllowedIn
  <2>2. CASE filter.nodeTypes # {} /\ ~KnownIn(a, b, id)
    BY <1>1, <2>2 DEF EndAllowed, EndAllowedIn, KnownIn, EndIn, WithId
  <2>3. CASE filter.nodeTypes # {} /\ KnownIn(a, b, id)
    <3>1. \A i \in DOMAIN a.nodes : a.nodes[i].id = id => (EndAllowed(id) <=> i \in Active(a))
      BY EndAllowedIs
    <3>2. \A j \in DOMAIN b.nodes : b.nodes[j].id = id => (EndAllowed(id) <=> j \in Active(b))
      BY EndAllowedIs
    <3>3. EndAllowed(id) => EndIn(a, b, Active(a), Active(b), id)
      BY <2>3, <3>1, <3>2 DEF KnownIn, EndIn
    <3>4. EndIn(a, b, Active(a), Active(b), id) => EndAllowed(id)
      BY <1>1, <3>1, <3>2 DEF EndIn
    <3> QED
      BY <2>3, <3>3, <3>4 DEF EndAllowedIn
  <2> QED
    BY <2>1, <2>2, <2>3
<1>3. \A e : EdgeActive(e) <=> EdgeActiveIn(a, b, e)
  BY <1>2 DEF EdgeActive, EdgeActiveIn
<1> QED
  BY <1>3 DEF ActiveEdges, EdgesIn

LEMMA SimilarIs ==
  ASSUME DiffInv, stage # "nodes", UniqueIds(a), UniqueIds(b), NoIdReused
  PROVE  Similar = SimilarIn(a, b)
<1>1. \A d, e : SameBucket(d, e) /\ EdgesMatch(d, e) <=> SimilarEdges(a, b, d, e)
  <2> TAKE d, e
  <2>1. SameNodeIn(a, b, d.source, e.source)
          <=> RepOf(d.source) # None /\ RepOf(d.source) = RepOf(e.source)
    BY SameNodeIs
  <2>2. SameNodeIn(a, b, d.target, e.target)
          <=> RepOf(d.target) # None /\ RepOf(d.target) = RepOf(e.target)
    BY SameNodeIs
  <2> QED
    BY <2>1, <2>2 DEF SameBucket, SimilarEdges
<1>2. ActiveEdges(a) = EdgesIn(a, b, a) /\ ActiveEdges(b) = EdgesIn(a, b, b)
  BY EdgeActiveIs
<1>3. Similar = {p \in EdgesIn(a, b, a) \X EdgesIn(a, b, b) :
                   SameBucket(a.edges[p[1]], b.edges[p[2]]) /\ EdgesMatch(a.edges[p[1]], b.edges[p[2]])}
  BY <1>2 DEF Similar
<1> QED
  BY <1>1, <1>3 DEF SimilarIn

\* What the result of comparing x with y says.
ReportsNodes(r, x, y) ==
  /\ r.nodesMatched = {p \in Active(x) \X Active(y) : PairedIn(x, y, p[1], p[2])}
  /\ r.nodesRemoved = Active(x) \ {p[1] : p \in r.nodesMatched}
  /\ r.nodesAdded = Active(y) \ {p[2] : p \in r.nodesMatched}
  /\ r.nodesModified = {p \in r.nodesMatched : IsModified(x.nodes[p[1]], y.nodes[p[2]])}
ReportsEdges(r, x, y) ==
  /\ StableMatch(r.edgesMatched, SimilarIn(x, y))
  /\ r.edgesRemoved = EdgesIn(x, y, x) \ {p[1] : p \in r.edgesMatched}
  /\ r.edgesAdded = EdgesIn(x, y, y) \ {p[2] : p \in r.edgesMatched}
  /\ r.edgesModified = {p \in r.edgesMatched : IsModified(x.edges[p[1]], y.edges[p[2]])}
Reports(r, x, y) ==
  UniqueIds(x) /\ UniqueIds(y) =>
    ReportsNodes(r, x, y) /\ (NoIdReusedIn(x, y) => ReportsEdges(r, x, y))

LEMMA ResultReports ==
  ASSUME DiffInv, StableInv, stage = "done"
  PROVE  Reports(Result, a, b)
<1> SUFFICES ASSUME UniqueIds(a), UniqueIds(b)
             PROVE  /\ ReportsNodes(Result, a, b)
                    /\ NoIdReusedIn(a, b) => ReportsEdges(Result, a, b)
  BY DEF Reports
<1>1. FilesOK
  BY DEF DiffInv
<1>2. ReportsNodes(Result, a, b)
  <2>1. /\ nodes.removed = Active(a) \ {p[1] : p \in nodes.matched}
        /\ nodes.added = Active(b) \ {p[2] : p \in nodes.matched}
        /\ nodes.matched = {p \in Active(a) \X Active(b) : PairedIn(a, b, p[1], p[2])}
    BY NodesAre, MatchedIs
  <2>2. /\ Result.nodesMatched = nodes.matched /\ Result.nodesRemoved = nodes.removed
        /\ Result.nodesAdded = nodes.added
        /\ Result.nodesModified = {p \in nodes.matched : IsModified(a.nodes[p[1]], b.nodes[p[2]])}
    BY ResultIs
  <2> QED
    BY <2>1, <2>2 DEF ReportsNodes
<1>3. ASSUME NoIdReusedIn(a, b) PROVE ReportsEdges(Result, a, b)
  <2>1. NoIdReused
    BY <1>3, NoIdReusedIs
  <2>2. /\ ActiveEdges(a) = EdgesIn(a, b, a) /\ ActiveEdges(b) = EdgesIn(a, b, b)
        /\ Similar = SimilarIn(a, b)
    BY <2>1, EdgeActiveIs, SimilarIs
  <2>3. cursor = Len(b.edges) + 1 /\ Len(b.edges) \in Nat /\ DOMAIN b.edges = 1 .. Len(b.edges)
    BY <1>1, IndexFacts DEF DiffInv, EdgesOK, FilesOK
  <2>4. SettledPairs = Similar
    <3>1. \A p \in Similar : p[2] \in DOMAIN b.edges
      BY DEF Similar, ActiveEdges
    <3>2. \A p \in Similar : p[2] < cursor
      BY <2>3, <3>1
    <3> QED
      BY <3>2 DEF SettledPairs
  <2>5. StableMatch(edges.matched, SimilarIn(a, b))
    BY <2>2, <2>4 DEF StableInv
  <2>6. edges.added = ActiveEdges(b) \ {p[2] : p \in edges.matched}
    <3>1. \A j \in 1 .. cursor - 1 :
            j \in edges.added <=> j \in ActiveEdges(b) /\ ~\E p \in edges.matched : p[2] = j
      BY DEF DiffInv, EdgesOK
    <3>2. edges.added \subseteq 1 .. cursor - 1
      BY DEF DiffInv, EdgesOK
    <3>3. ActiveEdges(b) \subseteq 1 .. cursor - 1
      BY <2>3 DEF ActiveEdges
    <3> HIDE DEF ActiveEdges
    <3> QED
      BY <3>1, <3>2, <3>3
  <2>7. /\ Result.edgesMatched = edges.matched /\ Result.edgesAdded = edges.added
        /\ Result.edgesRemoved = ActiveEdges(a) \ {p[1] : p \in edges.matched}
        /\ Result.edgesModified = {p \in edges.matched : IsModified(a.edges[p[1]], b.edges[p[2]])}
    BY ResultIs
  <2> QED
    BY <2>2, <2>5, <2>6, <2>7 DEF ReportsEdges
<1> QED
  BY <1>2, <1>3

-----------------------------------------------------------------------------
(* What was found before still holds: the filter does not change.          *)

LEMMA LinksStay ==
  ASSUME UNCHANGED filter, NEW x, NEW y
  PROVE  Active(x)' = Active(x) /\ Active(y)' = Active(y) /\ LinksIn(x, y)' = LinksIn(x, y)
<1>1. Active(x)' = Active(x) /\ Active(y)' = Active(y)
  BY DEF Active
<1>2. IdentifiedIn(x, y)' = IdentifiedIn(x, y)
  BY <1>1 DEF IdentifiedIn
<1>3. \A p : Linking(x, y, p)' <=> Linking(x, y, p)
  BY <1>1, <1>2 DEF Linking
<1>4. LinksIn(x, y)' = LinksIn(x, y)
  <2>1. LinksIn(x, y)' = {p \in Active(x)' \X Active(y)' : Linking(x, y, p)'}
    BY DEF LinksIn
  <2> QED
    BY <1>1, <1>3, <2>1 DEF LinksIn
<1> QED
  BY <1>1, <1>4

LEMMA PairsStay ==
  ASSUME UNCHANGED filter, NEW x, NEW y
  PROVE  /\ \A U, V : Even(x, y, U, V)' <=> Even(x, y, U, V)
         /\ \A i, j : PairedIn(x, y, i, j)' <=> PairedIn(x, y, i, j)
         /\ \A id1, id2 : SameNodeIn(x, y, id1, id2)' <=> SameNodeIn(x, y, id1, id2)
<1>1. LinksIn(x, y)' = LinksIn(x, y)
  BY LinksStay
<1>2. \A U, V : Even(x, y, U, V)' <=> Even(x, y, U, V)
  BY <1>1 DEF Even
<1>3. \A i, j : PairedIn(x, y, i, j)' <=> PairedIn(x, y, i, j)
  BY <1>2 DEF PairedIn
<1>4. \A id1, id2 : SameNodeIn(x, y, id1, id2)' <=> SameNodeIn(x, y, id1, id2)
  BY <1>2 DEF SameNodeIn
<1> QED
  BY <1>2, <1>3, <1>4

LEMMA EdgesStay ==
  ASSUME UNCHANGED filter, NEW x, NEW y
  PROVE  /\ \A file : EdgesIn(x, y, file)' = EdgesIn(x, y, file)
         /\ SimilarIn(x, y)' = SimilarIn(x, y)
<1>1. \A id : EndAllowedIn(x, y, id)' <=> EndAllowedIn(x, y, id)
  BY LinksStay DEF EndAllowedIn
<1>2. \A e : EdgeActiveIn(x, y, e)' <=> EdgeActiveIn(x, y, e)
  BY <1>1 DEF EdgeActiveIn
<1>3. \A file : EdgesIn(x, y, file)' = EdgesIn(x, y, file)
  BY <1>2 DEF EdgesIn
<1>4. \A d, e : SimilarEdges(x, y, d, e)' <=> SimilarEdges(x, y, d, e)
  BY PairsStay DEF SimilarEdges
<1>5. SimilarIn(x, y)' = SimilarIn(x, y)
  <2>1. SimilarIn(x, y)' =
          {p \in EdgesIn(x, y, x)' \X EdgesIn(x, y, y)' : SimilarEdges(x, y, x.edges[p[1]], y.edges[p[2]])'}
    BY DEF SimilarIn
  <2> QED
    BY <1>3, <1>4, <2>1 DEF SimilarIn
<1> QED
  BY <1>3, <1>5

LEMMA ReportsStay ==
  ASSUME UNCHANGED filter, NEW r, NEW x, NEW y
  PROVE  Reports(r, x, y)' <=> Reports(r, x, y)
<1>1. \A m, n : IsModified(m, n)' <=> IsModified(m, n)
  <2>1. \A m, n : PropertyChanges(m, n)' = PropertyChanges(m, n)
    BY DEF PropertyChanges
  <2> QED
    BY <2>1 DEF IsModified
<1>2. /\ Active(x)' = Active(x) /\ Active(y)' = Active(y)
      /\ \A i, j : PairedIn(x, y, i, j)' <=> PairedIn(x, y, i, j)
  BY LinksStay, PairsStay
<1>3. ReportsNodes(r, x, y)' <=> ReportsNodes(r, x, y)
  BY <1>1, <1>2 DEF ReportsNodes
<1>4. NoIdReusedIn(x, y)' <=> NoIdReusedIn(x, y)
  BY <1>2 DEF NoIdReusedIn
<1>5. ReportsEdges(r, x, y)' <=> ReportsEdges(r, x, y)
  BY <1>1, EdgesStay DEF ReportsEdges
<1> QED
  BY <1>3, <1>4, <1>5 DEF Reports

BeforeInv ==
  before # None =>
    \A r, x, y : r = before /\ x = b /\ y = a => Reports(r, x, y)

LEMMA BeforeStep == DiffInv /\ StableInv /\ BeforeInv /\ [Next]_vars => BeforeInv'
<1> SUFFICES ASSUME DiffInv, StableInv, BeforeInv, [Next]_vars
             PROVE  BeforeInv'
  OBVIOUS
<1>1. CASE Reverse
  <2>1. Reports(Result, a, b)
    BY <1>1, ResultReports DEF Reverse
  <2>2. before' = Result /\ a' = b /\ b' = a /\ filter' = filter
    BY <1>1 DEF Reverse
  <2>3. \A r, x, y : r = Result /\ x = a /\ y = b => Reports(r, x, y)
    BY <2>1
  <2>4. \A r, x, y : Reports(r, x, y)' <=> Reports(r, x, y)
    BY <2>2, ReportsStay
  <2> QED
    BY <2>2, <2>3, <2>4 DEF BeforeInv
<1>2. CASE UNCHANGED <<a, b, filter, before>>
  <2>1. \A r, x, y : Reports(r, x, y)' <=> Reports(r, x, y)
    BY <1>2, ReportsStay
  <2> QED
    BY <1>2, <2>1 DEF BeforeInv
<1>3. ASSUME NEW key \in pending, VisitKey(key) PROVE UNCHANGED <<a, b, filter, before>>
  BY <1>3 DEF VisitKey
<1>4. MatchRest => UNCHANGED <<a, b, filter, before>>
  BY DEF MatchRest
<1>5. SkipEdge => UNCHANGED <<a, b, filter, before>>
  BY DEF SkipEdge
<1>6. PairEdge => UNCHANGED <<a, b, filter, before>>
  BY DEF PairEdge
<1>7. AddEdge => UNCHANGED <<a, b, filter, before>>
  BY DEF AddEdge
<1>8. Finish => UNCHANGED <<a, b, filter, before>>
  BY DEF Finish
<1>9. UNCHANGED vars => UNCHANGED <<a, b, filter, before>>
  BY DEF vars
<1> QED
  BY <1>1, <1>2, <1>3, <1>4, <1>5, <1>6, <1>7, <1>8, <1>9 DEF Next

LEMMA BeforeHolds == Spec => []BeforeInv
<1>1. DiffInv /\ StableInv /\ BeforeInv /\ [Next]_vars => BeforeInv'
  BY BeforeStep
<1>2. Init => BeforeInv
  BY DEF Init, BeforeInv
<1> QED
  BY <1>1, <1>2, DiffInvHolds, StableHolds, PTL DEF Spec

-----------------------------------------------------------------------------
(* Two reports that mirror each other.                                     *)

LEMMA TransposedOf ==
  ASSUME NEW R, \A p \in R : p = <<p[1], p[2]>>, NEW Q, \A p \in Q : p = <<p[1], p[2]>>,
         \A i, j : <<i, j>> \in R <=> <<j, i>> \in Q
  PROVE  /\ R = Transposed(Q)
         /\ {p[1] : p \in R} = {p[2] : p \in Q} /\ {p[2] : p \in R} = {p[1] : p \in Q}
<1>1. \A p \in R : <<p[2], p[1]>> \in Q /\ p = <<p[1], p[2]>>
  OBVIOUS
<1>2. \A p \in Q : <<p[2], p[1]>> \in R /\ p = <<p[1], p[2]>>
  OBVIOUS
<1>3. R = Transposed(Q)
  <2>1. ASSUME NEW p \in R PROVE p \in Transposed(Q)
    <3> DEFINE q == <<p[2], p[1]>>
    <3>1. q \in Q /\ p = <<q[2], q[1]>>
      BY <1>1
    <3> HIDE DEF q
    <3> QED
      BY <3>1 DEF Transposed
  <2>2. ASSUME NEW p \in Transposed(Q) PROVE p \in R
    BY <1>2 DEF Transposed
  <2> QED
    BY <2>1, <2>2
<1>4. {p[1] : p \in R} = {p[2] : p \in Q}
  <2>1. ASSUME NEW p \in R PROVE \E q \in Q : q[2] = p[1]
    BY <1>1
  <2>2. ASSUME NEW q \in Q PROVE \E p \in R : p[1] = q[2]
    BY <1>2
  <2> QED
    BY <2>1, <2>2
<1>5. {p[2] : p \in R} = {p[1] : p \in Q}
  <2>1. ASSUME NEW p \in R PROVE \E q \in Q : q[1] = p[2]
    BY <1>1
  <2>2. ASSUME NEW q \in Q PROVE \E p \in R : p[2] = q[1]
    BY <1>2
  <2> QED
    BY <2>1, <2>2
<1> QED
  BY <1>3, <1>4, <1>5

LEMMA NodesMirror ==
  ASSUME NEW x, NEW y, TwoFiles(x, y), NEW r, ReportsNodes(r, x, y), NEW s, ReportsNodes(s, y, x)
  PROVE  /\ r.nodesMatched = Transposed(s.nodesMatched)
         /\ r.nodesAdded = s.nodesRemoved /\ r.nodesRemoved = s.nodesAdded
         /\ r.nodesModified = Transposed(s.nodesModified)
<1> DEFINE R == r.nodesMatched
           Q == s.nodesMatched
<1>1. \A i, j : <<i, j>> \in R <=> i \in Active(x) /\ j \in Active(y) /\ PairedIn(x, y, i, j)
  BY DEF ReportsNodes
<1>2. \A i, j : <<j, i>> \in Q <=> j \in Active(y) /\ i \in Active(x) /\ PairedIn(y, x, j, i)
  BY DEF ReportsNodes
<1>3. \A i, j : <<i, j>> \in R <=> <<j, i>> \in Q
  BY <1>1, <1>2, PairedMirror
<1>4. (\A p \in R : p = <<p[1], p[2]>>) /\ (\A p \in Q : p = <<p[1], p[2]>>)
  BY DEF ReportsNodes
<1>5. /\ r.nodesRemoved = Active(x) \ {p[1] : p \in R}
      /\ r.nodesAdded = Active(y) \ {p[2] : p \in R}
      /\ s.nodesRemoved = Active(y) \ {p[1] : p \in Q}
      /\ s.nodesAdded = Active(x) \ {p[2] : p \in Q}
      /\ r.nodesModified = {p \in R : IsModified(x.nodes[p[1]], y.nodes[p[2]])}
      /\ s.nodesModified = {p \in Q : IsModified(y.nodes[p[1]], x.nodes[p[2]])}
  BY DEF ReportsNodes
<1> HIDE DEF R, Q
<1>6. /\ R = Transposed(Q)
      /\ {p[1] : p \in R} = {p[2] : p \in Q} /\ {p[2] : p \in R} = {p[1] : p \in Q}
  BY <1>3, <1>4, TransposedOf
<1>7. r.nodesModified = Transposed(s.nodesModified)
  <2> DEFINE M == r.nodesModified
             N == s.nodesModified
  <2>1. \A i, j : <<i, j>> \in M <=> <<i, j>> \in R /\ IsModified(x.nodes[i], y.nodes[j])
    BY <1>5
  <2>2. \A i, j : <<j, i>> \in N <=> <<j, i>> \in Q /\ IsModified(y.nodes[j], x.nodes[i])
    BY <1>5
  <2>3. \A i, j : <<i, j>> \in M <=> <<j, i>> \in N
    BY <1>3, <2>1, <2>2, ModifiedSymmetric
  <2>4. (\A p \in M : p = <<p[1], p[2]>>) /\ (\A p \in N : p = <<p[1], p[2]>>)
    BY <1>4, <1>5
  <2> HIDE DEF M, N
  <2>5. M = Transposed(N)
    BY <2>3, <2>4, TransposedOf
  <2> QED
    BY <2>5 DEF M, N
<1> QED
  BY <1>5, <1>6, <1>7 DEF R, Q

LEMMA EdgesOfReports ==
  ASSUME NEW x, NEW y, TwoFiles(x, y), NEW r, ReportsEdges(r, x, y), NEW s, ReportsEdges(s, y, x)
  PROVE  /\ r.edgesMatched = Transposed(s.edgesMatched)
         /\ r.edgesAdded = s.edgesRemoved /\ r.edgesRemoved = s.edgesAdded
         /\ r.edgesModified = Transposed(s.edgesModified)
<1> DEFINE R == r.edgesMatched
           Q == s.edgesMatched
           C == SimilarIn(x, y)
           D == SimilarIn(y, x)
<1>1. DOMAIN x.edges \subseteq Nat /\ DOMAIN y.edges \subseteq Nat
  BY DEF TwoFiles, Parsed, IsSequence
<1>2. C \in SUBSET (Nat \X Nat) /\ D \in SUBSET (Nat \X Nat)
  BY <1>1 DEF SimilarIn, EdgesIn
<1>3. \A i, j : <<i, j>> \in C <=> <<j, i>> \in D
  BY SimilarMirror
<1>4. StableMatch(R, C) /\ StableMatch(Q, D)
  BY DEF ReportsEdges
<1>5. /\ r.edgesRemoved = EdgesIn(x, y, x) \ {p[1] : p \in R}
      /\ r.edgesAdded = EdgesIn(x, y, y) \ {p[2] : p \in R}
      /\ s.edgesRemoved = EdgesIn(y, x, y) \ {p[1] : p \in Q}
      /\ s.edgesAdded = EdgesIn(y, x, x) \ {p[2] : p \in Q}
      /\ r.edgesModified = {p \in R : IsModified(x.edges[p[1]], y.edges[p[2]])}
      /\ s.edgesModified = {p \in Q : IsModified(y.edges[p[1]], x.edges[p[2]])}
  BY DEF ReportsEdges
<1>6. EdgesIn(x, y, x) = EdgesIn(y, x, x) /\ EdgesIn(x, y, y) = EdgesIn(y, x, y)
  BY EdgesMirror
<1> HIDE DEF R, Q, C, D
<1>7. (\A p \in C : p = <<p[1], p[2]>>) /\ (\A p \in D : p = <<p[1], p[2]>>)
  BY <1>2
<1>8. C = Transposed(D)
  BY <1>3, <1>7, TransposedOf
<1>9. R = Transposed(Q)
  <2>1. StableMatch(Transposed(Q), C)
    BY <1>2, <1>4, <1>8, StableTransposed
  <2> QED
    BY <1>2, <1>4, <2>1, StableUnique
<1>10. Q \in SUBSET (Nat \X Nat) /\ R \in SUBSET (Nat \X Nat)
  BY <1>2, <1>4 DEF StableMatch
<1>11. \A i, j : <<i, j>> \in R <=> <<j, i>> \in Q
  <2>1. \A e : e \in R <=> e \in Nat \X Nat /\ <<e[2], e[1]>> \in Q
    BY <1>9, <1>10, InTransposed
  <2> TAKE i, j
  <2>2. <<i, j>> \in R <=> <<i, j>> \in Nat \X Nat /\ <<j, i>> \in Q
    BY <2>1
  <2>3. <<j, i>> \in Q => <<i, j>> \in Nat \X Nat
    BY <1>10
  <2> QED
    BY <2>2, <2>3
<1>12. (\A p \in R : p = <<p[1], p[2]>>) /\ (\A p \in Q : p = <<p[1], p[2]>>)
  BY <1>10
<1>13. {p[1] : p \in R} = {p[2] : p \in Q} /\ {p[2] : p \in R} = {p[1] : p \in Q}
  BY <1>11, <1>12, TransposedOf
<1>14. r.edgesModified = Transposed(s.edgesModified)
  <2> DEFINE M == r.edgesModified
             N == s.edgesModified
  <2>1. \A i, j : <<i, j>> \in M <=> <<i, j>> \in R /\ IsModified(x.edges[i], y.edges[j])
    BY <1>5
  <2>2. \A i, j : <<j, i>> \in N <=> <<j, i>> \in Q /\ IsModified(y.edges[j], x.edges[i])
    BY <1>5
  <2>3. \A i, j : <<i, j>> \in M <=> <<j, i>> \in N
    BY <1>11, <2>1, <2>2, ModifiedSymmetric
  <2>4. (\A p \in M : p = <<p[1], p[2]>>) /\ (\A p \in N : p = <<p[1], p[2]>>)
    BY <1>5, <1>12
  <2> HIDE DEF M, N
  <2>5. M = Transposed(N)
    BY <2>3, <2>4, TransposedOf
  <2> QED
    BY <2>5 DEF M, N
<1> QED
  BY <1>5, <1>6, <1>9, <1>13, <1>14 DEF R, Q

LEMMA MirrorHolds == DiffInv /\ StableInv /\ BeforeInv => ReverseMirrors
<1> SUFFICES ASSUME DiffInv, StableInv, BeforeInv, stage = "done", before # None,
                    UniqueIds(a), UniqueIds(b), OneSpelling(a), OneSpelling(b)
             PROVE  /\ Result.nodesMatched = Transposed(before.nodesMatched)
                    /\ Result.nodesAdded = before.nodesRemoved
                    /\ Result.nodesRemoved = before.nodesAdded
                    /\ Result.nodesModified = Transposed(before.nodesModified)
                    /\ NoIdReused =>
                         /\ Result.edgesMatched = Transposed(before.edgesMatched)
                         /\ Result.edgesAdded = before.edgesRemoved
                         /\ Result.edgesRemoved = before.edgesAdded
                         /\ Result.edgesModified = Transposed(before.edgesModified)
  BY DEF ReverseMirrors
<1>1. TwoFiles(a, b)
  BY DEF TwoFiles, DiffInv, FilesOK
<1>2. Reports(Result, a, b)
  BY ResultReports
<1>3. Reports(before, b, a)
  BY DEF BeforeInv
<1>4. ReportsNodes(Result, a, b) /\ ReportsNodes(before, b, a)
  BY <1>2, <1>3 DEF Reports
<1>5. ASSUME NoIdReused PROVE ReportsEdges(Result, a, b) /\ ReportsEdges(before, b, a)
  <2>1. NoIdReusedIn(a, b)
    BY <1>5, NoIdReusedIs
  <2>2. NoIdReusedIn(b, a)
    BY <1>1, <2>1, ReusedMirror
  <2> QED
    BY <1>2, <1>3, <2>1, <2>2 DEF Reports
<1> QED
  BY <1>1, <1>4, <1>5, NodesMirror, EdgesOfReports

\* The comparison the other way finds the same, mirrored, whatever order it
\* takes: that there is a first file and a second one does not show.
THEOREM DiffReverseMirrors == Spec => []ReverseMirrors
BY DiffInvHolds, StableHolds, BeforeHolds, MirrorHolds, PTL
=============================================================================
