---------------------------- MODULE MergeProofs ----------------------------
(***************************************************************************)
(* Proofs about MergePipeline, for all well-formed files, every threshold  *)
(* and every order in which the HashMaps yield their buckets.              *)
(***************************************************************************)
EXTENDS MergePipeline, CommonLemmas

-----------------------------------------------------------------------------
(* Nodes and edges of all files in one list.                               *)

Labelled(lists, f) == {[item |-> lists[f][k], file |-> f] : k \in DOMAIN lists[f]}
Items(lists) == UNION {Labelled(lists, f) : f \in DOMAIN lists}

\* The recursive function of FlattenSeq.
Flattens(g, n, seqs) ==
  g = [i \in 1 .. n |-> IF i = 1 THEN seqs[i] ELSE g[i - 1] \o seqs[i]]

LEMMA FlattenStarts ==
  ASSUME NEW n \in Nat \ {0}, NEW g, NEW seqs, Flattens(g, n, seqs)
  PROVE  /\ g[1] = seqs[1]
         /\ \A i \in 1 .. n - 1 : g[i + 1] = g[i] \o seqs[i + 1]
<1> DEFINE E == [i \in 1 .. n |-> IF i = 1 THEN seqs[i] ELSE g[i - 1] \o seqs[i]]
<1>1. g = E
  BY DEF Flattens
<1>2. E[1] = seqs[1]
  OBVIOUS
<1>3. ASSUME NEW i \in 1 .. n - 1 PROVE E[i + 1] = g[i] \o seqs[i + 1]
  <2>1. i + 1 \in 1 .. n /\ i + 1 # 1 /\ (i + 1) - 1 = i
    OBVIOUS
  <2> QED
    BY <2>1
<1> HIDE DEF E
<1> QED
  BY <1>1, <1>2, <1>3

LEMMA FlattenExists ==
  ASSUME NEW A, NEW n \in Nat \ {0}, NEW seqs, \A i \in 1 .. n : seqs[i] \in Seq(A)
  PROVE  \E g : Flattens(g, n, seqs)
<1> DEFINE V == Seq(A)
           base == seqs[1]
           step == [m \in Nat |-> [v \in V |-> IF m + 2 <= n THEN v \o seqs[m + 2] ELSE v]]
<1>1. base \in V /\ step \in [Nat -> [V -> V]]
  OBVIOUS
<1>2. \A m \in Nat, v \in V : m + 2 <= n => step[m][v] = v \o seqs[m + 2]
  OBVIOUS
<1> HIDE DEF V, base, step
<1>3. PICK f : Recurs(V, base, step, f)
  BY <1>1, Recursion
<1>4. f \in [Nat -> V] /\ f[0] = base /\ \A m \in Nat : f[m + 1] = step[m][f[m]]
  BY <1>3 DEF Recurs
<1> DEFINE g == [i \in 1 .. n |-> f[i - 1]]
<1>5. ASSUME NEW i \in 1 .. n
      PROVE  f[i - 1] = IF i = 1 THEN seqs[i] ELSE g[i - 1] \o seqs[i]
  <2>1. CASE i = 1
    BY <1>4, <2>1 DEF base
  <2>2. CASE i # 1
    <3>1. i - 2 \in Nat /\ (i - 2) + 1 = i - 1 /\ (i - 2) + 2 = i /\ i - 1 \in 1 .. n
      BY <2>2
    <3>2. f[i - 2] \in V /\ f[(i - 2) + 1] = step[i - 2][f[i - 2]]
      BY <1>4, <3>1
    <3>3. f[(i - 2) + 1] = f[i - 2] \o seqs[(i - 2) + 2]
      <4>1. (i - 2) + 2 <= n
        BY <3>1
      <4>2. step[i - 2][f[i - 2]] = f[i - 2] \o seqs[(i - 2) + 2]
        <5> DEFINE m == i - 2
        <5>1. m \in Nat /\ m + 2 <= n /\ f[m] \in V
          BY <3>1, <3>2, <4>1
        <5> HIDE DEF m
        <5>2. step[m][f[m]] = f[m] \o seqs[m + 2]
          BY <1>2, <5>1
        <5> QED
          BY <5>2 DEF m
      <4> QED
        BY <3>2, <4>2
    <3>4. g[i - 1] = f[i - 2]
      BY <3>1
    <3> QED
      BY <2>2, <3>1, <3>3, <3>4
  <2> QED
    BY <2>1, <2>2
<1>6. Flattens(g, n, seqs)
  BY <1>5 DEF Flattens
<1> QED
  BY <1>6

LEMMA FlattenIs ==
  ASSUME NEW A, NEW n \in Nat, NEW seqs, seqs = [i \in 1 .. n |-> seqs[i]],
         \A i \in 1 .. n : seqs[i] \in Seq(A)
  PROVE  FlattenSeq(seqs) \in Seq(A)
<1>1. Len(seqs) = n
  BY FunctionLen
<1>2. CASE n = 0
  <2>1. FlattenSeq(seqs) = seqs
    BY <1>1, <1>2 DEF FlattenSeq
  <2>2. \A i \in 1 .. n : seqs[i] \in A
    BY <1>2
  <2>3. seqs \in [1 .. n -> A]
    BY <2>2
  <2> QED
    BY <2>1, <2>3
<1>3. CASE n # 0
  <2> DEFINE h == CHOOSE g : Flattens(g, n, seqs)
             T == {k \in 0 .. n - 1 : h[k + 1] \in Seq(A)}
  <2>1. FlattenSeq(seqs) = h[n]
    BY <1>1, <1>3 DEF FlattenSeq, Flattens
  <2>2. Flattens(h, n, seqs)
    BY <1>3, FlattenExists
  <2>3. h[1] = seqs[1] /\ \A i \in 1 .. n - 1 : h[i + 1] = h[i] \o seqs[i + 1]
    <3>1. n \in Nat \ {0}
      BY <1>3
    <3> HIDE DEF h
    <3> QED
      BY <2>2, <3>1, FlattenStarts
  <2> HIDE DEF h
  <2>4. n - 1 \in Nat /\ 0 \in T
    BY <1>3, <2>3
  <2>5. ASSUME NEW k \in 0 .. n - 1, k \in T, k < n - 1 PROVE k + 1 \in T
    <3>1. k + 1 \in 1 .. n - 1 /\ k + 1 \in 0 .. n - 1 /\ k + 2 \in 1 .. n /\ (k + 1) + 1 = k + 2
      BY <2>5
    <3>2. h[(k + 1) + 1] = h[k + 1] \o seqs[(k + 1) + 1] /\ seqs[k + 2] \in Seq(A)
      BY <2>3, <3>1
    <3>3. h[(k + 1) + 1] \in Seq(A)
      BY <2>5, <3>1, <3>2
    <3> QED
      BY <3>1, <3>3
  <2> HIDE DEF T
  <2>6. 0 .. n - 1 \subseteq T
    BY <2>4, <2>5, IntervalInduction
  <2>7. h[(n - 1) + 1] \in Seq(A)
    BY <2>4, <2>6 DEF T
  <2> QED
    BY <2>1, <2>7
<1> QED
  BY <1>2, <1>3

LEMMA ConcatenatedIs ==
  ASSUME NEW lists, IsSequence(lists), \A f \in DOMAIN lists : IsSequence(lists[f])
  PROVE  Concatenated(lists) \in Seq(Items(lists))
<1> DEFINE n == Len(lists)
           seqs == [f \in DOMAIN lists |->
                     [k \in DOMAIN lists[f] |-> [item |-> lists[f][k], file |-> f]]]
<1>1. n \in Nat /\ DOMAIN lists = 1 .. n
  BY DEF IsSequence
<1>2. \A f \in 1 .. n : seqs[f] \in Seq(Items(lists))
  <2> TAKE f \in 1 .. n
  <2>1. Len(lists[f]) \in Nat /\ DOMAIN lists[f] = 1 .. Len(lists[f])
    BY <1>1 DEF IsSequence
  <2>2. \A k \in DOMAIN lists[f] : [item |-> lists[f][k], file |-> f] \in Items(lists)
    BY <1>1 DEF Items, Labelled
  <2>3. seqs[f] = [k \in 1 .. Len(lists[f]) |-> [item |-> lists[f][k], file |-> f]]
    BY <1>1, <2>1
  <2>4. seqs[f] \in [1 .. Len(lists[f]) -> Items(lists)]
    BY <2>1, <2>2, <2>3
  <2> HIDE DEF seqs
  <2> QED
    BY <2>1, <2>4
<1>3. seqs = [f \in 1 .. n |-> seqs[f]]
  BY <1>1
<1>4. Concatenated(lists) = FlattenSeq(seqs)
  BY DEF Concatenated
<1> HIDE DEF seqs
<1> QED
  BY <1>1, <1>2, <1>3, <1>4, FlattenIs

-----------------------------------------------------------------------------
(* What the pipeline keeps true while it puts nodes together.              *)

Joined(a, b) == Together(forest, a, b)

\* The input is what Init made of the argument.
InputOK ==
  /\ files \in Inputs
  /\ allNodes = Concatenated([f \in DOMAIN files |-> files[f].nodes])
  /\ allEdges = Concatenated([f \in DOMAIN files |-> files[f].edges])

\* The work lists of the two passes over buckets.
WorkOK ==
  /\ phase \in {"start", "no_input"} => forest = NewForest(NodeOrdinals)
  /\ phase \in {"start", "match_nodes"} => cursor = 1
  /\ phase = "match_nodes" =>
       /\ todo \subseteq SharedKeys
       /\ \A p \in pairs : Keys(Node(p[1]).ids) \cap Keys(Node(p[2]).ids) # {}
  /\ phase \notin {"match_nodes", "match_edges"} => pairs = {}
  /\ \A p \in pairs : p[1] < p[2]
  /\ phase = "no_input" => NodeOrdinals = {} /\ EdgeOrdinals = {}

\* A pair that is linked is joined, or it is still to be compared.
NodesSettled ==
  /\ phase = "match_nodes" =>
       \A a, b \in NodeOrdinals : a < b /\ Linked(a, b) =>
         \/ Joined(a, b)
         \/ <<a, b>> \in pairs
         \/ \E key \in todo : a \in Bucket(key) /\ b \in Bucket(key)
  /\ phase \notin {"start", "match_nodes"} =>
       \A a, b \in NodeOrdinals : a < b /\ Linked(a, b) => Joined(a, b)

\* So is an honoured edge.
SameAsSettled ==
  phase \notin {"start", "match_nodes"} =>
    \A e \in EdgeOrdinals : Honoured(e) /\ (phase = "same_as" => e < cursor) =>
      Joined(Source(e), Target(e))

MergeInv == TypeOK /\ InputOK /\ WorkOK /\ NodesSettled /\ SameAsSettled

-----------------------------------------------------------------------------
(* The input.                                                              *)

LEMMA ListsOf ==
  ASSUME NEW fs, IsSequence(fs), NEW part, part = [f \in DOMAIN fs |-> part[f]],
         \A f \in DOMAIN fs : IsSequence(part[f])
  PROVE  IsSequence(part) /\ DOMAIN part = DOMAIN fs /\ Concatenated(part) \in Seq(Items(part))
<1>1. Len(fs) \in Nat /\ DOMAIN fs = 1 .. Len(fs)
  BY DEF IsSequence
<1>2. DOMAIN part = 1 .. Len(fs) /\ part = [f \in 1 .. Len(fs) |-> part[f]]
  BY <1>1
<1>3. Len(part) = Len(fs)
  BY <1>1, <1>2, FunctionLen
<1>4. IsSequence(part)
  BY <1>1, <1>2, <1>3 DEF IsSequence
<1> QED
  BY <1>1, <1>2, <1>4, ConcatenatedIs

LEMMA ItemComesFrom ==
  ASSUME NEW lists, NEW x \in Items(lists)
  PROVE  \E f \in DOMAIN lists : \E k \in DOMAIN lists[f] :
           x = [item |-> lists[f][k], file |-> f]
BY DEF Items, Labelled

\* Nodes and edges are numbered from 1, each has a file, and identifiers.
LEMMA InputFacts ==
  ASSUME InputOK
  PROVE  /\ IsSequence(allNodes)
         /\ \A o \in NodeOrdinals : allNodes[o].file \in DOMAIN files /\ HasIdentifiers(Node(o))
         /\ IsSequence(allEdges)
         /\ \A e \in EdgeOrdinals : allEdges[e].file \in DOMAIN files /\ IsEdge(Edge(e))
<1> DEFINE ns == [f \in DOMAIN files |-> files[f].nodes]
           es == [f \in DOMAIN files |-> files[f].edges]
<1>1. IsSequence(files) /\ \A f \in DOMAIN files : WellFormed(files[f])
  BY InputsAssumption DEF InputOK
<1>2. \A f \in DOMAIN files :
        /\ IsSequence(ns[f]) /\ \A k \in DOMAIN ns[f] : HasIdentifiers(ns[f][k])
        /\ IsSequence(es[f]) /\ \A k \in DOMAIN es[f] : IsEdge(es[f][k])
  BY <1>1 DEF WellFormed
<1>3. allNodes = Concatenated(ns) /\ allEdges = Concatenated(es)
  BY DEF InputOK
<1>4. ns = [f \in DOMAIN files |-> ns[f]] /\ es = [f \in DOMAIN files |-> es[f]]
  OBVIOUS
<1> HIDE DEF ns, es
<1>5. DOMAIN ns = DOMAIN files /\ allNodes \in Seq(Items(ns))
  BY <1>1, <1>2, <1>3, <1>4, ListsOf
<1>6. DOMAIN es = DOMAIN files /\ allEdges \in Seq(Items(es))
  BY <1>1, <1>2, <1>3, <1>4, ListsOf
<1>7. IsSequence(allNodes) /\ \A o \in DOMAIN allNodes : allNodes[o] \in Items(ns)
  BY <1>5 DEF IsSequence
<1>8. IsSequence(allEdges) /\ \A e \in DOMAIN allEdges : allEdges[e] \in Items(es)
  BY <1>6 DEF IsSequence
<1>9. ASSUME NEW o \in NodeOrdinals
      PROVE  allNodes[o].file \in DOMAIN files /\ HasIdentifiers(Node(o))
  <2>1. PICK f \in DOMAIN ns : \E k \in DOMAIN ns[f] : allNodes[o] = [item |-> ns[f][k], file |-> f]
    BY <1>7, ItemComesFrom DEF NodeOrdinals
  <2> QED
    BY <1>2, <1>5, <2>1 DEF Node
<1>10. ASSUME NEW e \in EdgeOrdinals
       PROVE  allEdges[e].file \in DOMAIN files /\ IsEdge(Edge(e))
  <2>1. PICK f \in DOMAIN es : \E k \in DOMAIN es[f] : allEdges[e] = [item |-> es[f][k], file |-> f]
    BY <1>8, ItemComesFrom DEF EdgeOrdinals
  <2> QED
    BY <1>2, <1>6, <2>1 DEF Edge
<1> QED
  BY <1>7, <1>8, <1>9, <1>10

LEMMA OrdinalsAre ==
  ASSUME InputOK
  PROVE  /\ Len(allNodes) \in Nat /\ NodeOrdinals = 1 .. Len(allNodes) /\ IsFiniteSet(NodeOrdinals)
         /\ Len(allEdges) \in Nat /\ EdgeOrdinals = 1 .. Len(allEdges) /\ IsFiniteSet(EdgeOrdinals)
<1>1. IsSequence(allNodes) /\ IsSequence(allEdges)
  BY InputFacts
<1> QED
  BY <1>1, FS_Interval DEF IsSequence, NodeOrdinals, EdgeOrdinals

\* The end points of an edge that has both are nodes of its file.
LEMMA LargestIs ==
  ASSUME NEW S \in SUBSET Nat, IsFiniteSet(S), S # {}
  PROVE  Max(S) \in S
<1>1. PICK m \in S : \A k \in S : k <= m
  BY GreatestNatural
<1>2. \A k \in S : m >= k
  BY <1>1
<1> QED
  BY <1>2 DEF Max

LEMMA EndPoints ==
  ASSUME InputOK, NEW e \in EdgeOrdinals, Resolves(e)
  PROVE  /\ Source(e) \in Candidates(e, Edge(e).source) /\ Source(e) \in NodeOrdinals
         /\ Target(e) \in Candidates(e, Edge(e).target) /\ Target(e) \in NodeOrdinals
<1>1. NodeOrdinals \subseteq Nat /\ IsFiniteSet(NodeOrdinals)
  BY OrdinalsAre
<1>2. ASSUME NEW id, Candidates(e, id) # {}
      PROVE  Max(Candidates(e, id)) \in Candidates(e, id) /\ Max(Candidates(e, id)) \in NodeOrdinals
  <2>1. Candidates(e, id) \in SUBSET NodeOrdinals
    BY DEF Candidates
  <2>2. IsFiniteSet(Candidates(e, id)) /\ Candidates(e, id) \in SUBSET Nat
    BY <1>1, <2>1, FS_Subset
  <2> QED
    BY <1>2, <2>1, <2>2, LargestIs
<1> QED
  BY <1>2 DEF Resolves, Source, Target

-----------------------------------------------------------------------------
(* What depends on the input alone does not change.                        *)

LEMMA InputStep ==
  ASSUME [Next]_vars
  PROVE  files' = files /\ allNodes' = allNodes /\ allEdges' = allEdges
BY DEF vars, input, Next, NoInputFiles, Start, MatchNodes, NextBucket, ComparePair,
       NodesCompared, ApplySameAs, MatchEdges, NextEdgeBucket, CompareEdges, Assemble,
       CheckGroupSizes, OrderNodes, BuildNodes, OrderEdges, BuildEdges, Finish,
       SaltFails, Accept, Reject

LEMMA InputStays ==
  ASSUME allNodes' = allNodes, allEdges' = allEdges
  PROVE  /\ NodeOrdinals' = NodeOrdinals /\ EdgeOrdinals' = EdgeOrdinals
         /\ \A o : Node(o)' = Node(o) /\ Edge(o)' = Edge(o)
         /\ \A a, b : Linked(a, b)' <=> Linked(a, b)
         /\ \A key : Bucket(key)' = Bucket(key)
         /\ SharedKeys' = SharedKeys
<1>1. /\ NodeOrdinals' = NodeOrdinals /\ EdgeOrdinals' = EdgeOrdinals
      /\ \A o : Node(o)' = Node(o) /\ Edge(o)' = Edge(o)
  BY DEF NodeOrdinals, EdgeOrdinals, Node, Edge
<1>2. \A a, b : Linked(a, b)' <=> Linked(a, b)
  BY <1>1 DEF Linked, NodesMatch
<1>3. \A key : Bucket(key)' = Bucket(key)
  BY <1>1 DEF Bucket
<1>4. SharedKeys' = SharedKeys
  BY <1>1, <1>3 DEF SharedKeys
<1> QED
  BY <1>1, <1>2, <1>3, <1>4

LEMMA EdgesStay ==
  ASSUME allNodes' = allNodes, allEdges' = allEdges
  PROVE  \A e : /\ Resolves(e)' <=> Resolves(e)
                /\ Honoured(e)' <=> Honoured(e)
                /\ Source(e)' = Source(e) /\ Target(e)' = Target(e)
<1>1. /\ NodeOrdinals' = NodeOrdinals
      /\ \A o : Node(o)' = Node(o) /\ Edge(o)' = Edge(o)
  BY InputStays
<1>2. \A e, id : Candidates(e, id)' = Candidates(e, id)
  BY <1>1 DEF Candidates
<1>3. \A e : Resolves(e)' <=> Resolves(e)
  BY <1>1, <1>2 DEF Resolves
<1>4. \A e : Honoured(e)' <=> Honoured(e)
  BY <1>1, <1>3 DEF Honoured
<1>5. \A e : Source(e)' = Source(e) /\ Target(e)' = Target(e)
  BY <1>1, <1>2 DEF Source, Target
<1> QED
  BY <1>3, <1>4, <1>5

LEMMA LinksStay ==
  ASSUME allNodes' = allNodes, allEdges' = allEdges
  PROVE  Links' = Links
<1>1. NodeOrdinals' = NodeOrdinals /\ EdgeOrdinals' = EdgeOrdinals
  BY InputStays
<1>2. {p \in NodeOrdinals \X NodeOrdinals : p[1] < p[2] /\ Linked(p[1], p[2])}' =
      {p \in NodeOrdinals \X NodeOrdinals : p[1] < p[2] /\ Linked(p[1], p[2])}
  BY <1>1, InputStays
<1>3. {<<Source(e), Target(e)>> : e \in {d \in EdgeOrdinals : Honoured(d)}}' =
      {<<Source(e), Target(e)>> : e \in {d \in EdgeOrdinals : Honoured(d)}}
  BY <1>1, EdgesStay
<1> QED
  BY <1>2, <1>3 DEF Links

(* The first pair of a bucket is one of its pairs.                         *)
LEMMA FirstPairIs ==
  ASSUME pairs \subseteq Nat \X Nat, pairs # {}
  PROVE  FirstPair \in pairs
<1>1. \E p \in pairs : \A q \in pairs : p[1] < q[1] \/ (p[1] = q[1] /\ p[2] <= q[2])
  BY LeastPair
<1> QED
  BY <1>1 DEF FirstPair

-----------------------------------------------------------------------------
(* Types, work lists, and what is joined.                                  *)

LEMMA MergeInit == Init => MergeInv
<1> SUFFICES ASSUME Init PROVE MergeInv
  OBVIOUS
<1>1. TypeOK
  BY NewForestIs DEF Init, TypeOK, Phases
<1>2. InputOK
  BY DEF Init, InputOK
<1>3. WorkOK /\ NodesSettled /\ SameAsSettled
  BY DEF Init, WorkOK, NodesSettled, SameAsSettled
<1> QED
  BY <1>1, <1>2, <1>3 DEF MergeInv

\* Two groups of nodes become one only along a link.
LEMMA ForestStep ==
  ASSUME MergeInv, [Next]_vars
  PROVE  \/ forest' = forest
         \/ /\ phase \in {"match_nodes", "same_as"} /\ phase' = phase
            /\ \E a, b \in NodeOrdinals :
                 <<a, b>> \in Links /\ forest' = Unite(forest, a, b)
<1>1. CASE ComparePair
  <2> DEFINE a == FirstPair[1]
             b == FirstPair[2]
  <2>1. NodeOrdinals \subseteq Nat /\ pairs \subseteq NodeOrdinals \X NodeOrdinals
    BY <1>1, OrdinalsAre DEF MergeInv, TypeOK, ComparePair
  <2>2. FirstPair \in pairs
    BY <1>1, <2>1, FirstPairIs DEF ComparePair
  <2>3. a \in NodeOrdinals /\ b \in NodeOrdinals
    BY <2>1, <2>2
  <2>4. a < b /\ Keys(Node(a).ids) \cap Keys(Node(b).ids) # {}
    BY <1>1, <2>2 DEF MergeInv, WorkOK, ComparePair
  <2>5. NodesMatch(a, b) => <<a, b>> \in Links
    BY <2>3, <2>4 DEF Linked, Links
  <2>6. forest' = forest \/ (NodesMatch(a, b) /\ forest' = Unite(forest, a, b))
    BY <1>1 DEF ComparePair
  <2>7. phase = "match_nodes" /\ phase' = phase
    BY <1>1 DEF ComparePair
  <2> HIDE DEF a, b
  <2> QED
    BY <2>3, <2>5, <2>6, <2>7
<1>2. CASE ApplySameAs
  <2>1. Honoured(cursor) =>
          /\ Source(cursor) \in NodeOrdinals /\ Target(cursor) \in NodeOrdinals
          /\ <<Source(cursor), Target(cursor)>> \in Links
    BY <1>2, EndPoints DEF ApplySameAs, MergeInv, Honoured, Links
  <2> QED
    BY <1>2, <2>1 DEF ApplySameAs
<1>3. CASE ~ComparePair /\ ~ApplySameAs
  BY <1>3 DEF vars, Next, NoInputFiles, Start, MatchNodes, NextBucket,
       NodesCompared, MatchEdges, NextEdgeBucket, CompareEdges, Assemble,
       CheckGroupSizes, OrderNodes, BuildNodes, OrderEdges, BuildEdges, Finish,
       SaltFails, Accept, Reject
<1> QED
  BY <1>1, <1>2, <1>3

LEMMA EdgeForestStep ==
  ASSUME MergeInv, [Next]_vars
  PROVE  \/ edgeForest' = edgeForest
         \/ \E a, b \in EdgeOrdinals : edgeForest' = Unite(edgeForest, a, b)
<1>1. CASE CompareEdges
  <2>1. EdgeOrdinals \subseteq Nat /\ pairs \subseteq EdgeOrdinals \X EdgeOrdinals
    BY <1>1, OrdinalsAre DEF MergeInv, TypeOK, CompareEdges
  <2>2. FirstPair \in pairs
    BY <1>1, <2>1, FirstPairIs DEF CompareEdges
  <2>3. FirstPair[1] \in EdgeOrdinals /\ FirstPair[2] \in EdgeOrdinals
    BY <2>1, <2>2
  <2> QED
    BY <1>1, <2>3 DEF CompareEdges
<1>2. CASE ~CompareEdges
  BY <1>2 DEF vars, Next, NoInputFiles, Start, MatchNodes, NextBucket, ComparePair,
       NodesCompared, ApplySameAs, MatchEdges, NextEdgeBucket, Assemble,
       CheckGroupSizes, OrderNodes, BuildNodes, OrderEdges, BuildEdges, Finish,
       SaltFails, Accept, Reject
<1> QED
  BY <1>1, <1>2

LEMMA TypeStep ==
  ASSUME MergeInv, [Next]_vars
  PROVE  TypeOK'
<1> USE DEF MergeInv
<1>1. NodeOrdinals' = NodeOrdinals /\ EdgeOrdinals' = EdgeOrdinals
  BY InputStep, InputStays
<1>2. NodeOrdinals \subseteq Int /\ EdgeOrdinals \subseteq Int
  BY OrdinalsAre
<1>3. ForestOK(forest', NodeOrdinals)
  BY <1>2, ForestStep, UniteKeeps DEF TypeOK
<1>4. ForestOK(edgeForest', EdgeOrdinals)
  <2>1. ForestOK(edgeForest, EdgeOrdinals)
    BY DEF TypeOK
  <2>2. \A a, b \in EdgeOrdinals : ForestOK(Unite(edgeForest, a, b), EdgeOrdinals)
    BY <1>2, <2>1, UniteKeeps
  <2> QED
    BY <2>1, <2>2, EdgeForestStep
<1>5. phase' \in Phases /\ cursor' \in Nat \ {0}
  BY DEF TypeOK, Phases, Final, vars, control, Next, NoInputFiles, Start, MatchNodes, NextBucket,
       ComparePair, NodesCompared, ApplySameAs, MatchEdges, NextEdgeBucket, CompareEdges,
       Assemble, CheckGroupSizes, OrderNodes, BuildNodes, OrderEdges, BuildEdges, Finish,
       SaltFails, Accept, Reject
<1>6. pairs' \subseteq IF phase' = "match_nodes" THEN NodeOrdinals \X NodeOrdinals
                       ELSE EdgeOrdinals \X EdgeOrdinals
  <2>1. ASSUME NEW key \in todo, NextBucket(key) PROVE pairs' \subseteq NodeOrdinals \X NodeOrdinals
    BY <2>1 DEF NextBucket, PairsOf, Bucket
  <2>2. ASSUME NEW key \in todo, NextEdgeBucket(key) PROVE pairs' \subseteq EdgeOrdinals \X EdgeOrdinals
    BY <2>2 DEF NextEdgeBucket, PairsOf, EdgeBucket
  <2>3. CASE \E key \in todo : NextBucket(key)
    BY <2>1, <2>3 DEF NextBucket
  <2>4. CASE \E key \in todo : NextEdgeBucket(key)
    BY <2>2, <2>4 DEF NextEdgeBucket
  <2>5. CASE ~(\E key \in todo : NextBucket(key)) /\ ~(\E key \in todo : NextEdgeBucket(key))
    BY <2>5 DEF TypeOK, WorkOK, vars, Next, NoInputFiles, Start, MatchNodes,
       ComparePair, NodesCompared, ApplySameAs, MatchEdges, CompareEdges,
       Assemble, CheckGroupSizes, OrderNodes, BuildNodes, OrderEdges, BuildEdges, Finish,
       SaltFails, Accept, Reject
  <2> QED
    BY <2>3, <2>4, <2>5
<1>7. warnings' \subseteq NodeOrdinals
  <2>1. CASE CheckGroupSizes
    <3>1. Representatives(forest) \subseteq NodeOrdinals
      BY DEF TypeOK, ForestOK, Representatives
    <3> QED
      BY <2>1, <3>1 DEF CheckGroupSizes
  <2>2. CASE ~CheckGroupSizes
    BY <2>2 DEF TypeOK, vars, results, Next, NoInputFiles, Start, MatchNodes, NextBucket,
       ComparePair, NodesCompared, ApplySameAs, MatchEdges, NextEdgeBucket, CompareEdges,
       Assemble, OrderNodes, BuildNodes, OrderEdges, BuildEdges, Finish,
       SaltFails, Accept, Reject
  <2> QED
    BY <2>1, <2>2
<1>8. output' # None => L1Valid(output')
  BY DEF TypeOK, vars, results, Next, NoInputFiles, Start, MatchNodes, NextBucket,
       ComparePair, NodesCompared, ApplySameAs, MatchEdges, NextEdgeBucket, CompareEdges,
       Assemble, CheckGroupSizes, OrderNodes, BuildNodes, OrderEdges, BuildEdges, Finish,
       SaltFails, Accept, Reject
<1> QED
  BY <1>1, <1>3, <1>4, <1>5, <1>6, <1>7, <1>8 DEF TypeOK

\* The lists of pairs and keys hold what they should.
LEMMA WorkStep ==
  ASSUME MergeInv, [Next]_vars
  PROVE  WorkOK'
<1> USE DEF MergeInv
<1>1. /\ NodeOrdinals' = NodeOrdinals /\ EdgeOrdinals' = EdgeOrdinals /\ SharedKeys' = SharedKeys
      /\ \A o : Node(o)' = Node(o)
  BY InputStep, InputStays
<1>2. ASSUME NEW key \in todo, NextBucket(key) PROVE WorkOK'
  <2>1. todo' \subseteq todo /\ pairs' = PairsOf(Bucket(key)) /\ phase = "match_nodes"
        /\ phase' = phase /\ cursor' = cursor
    BY <1>2 DEF NextBucket
  <2>2. \A p \in pairs' : p[1] < p[2] /\ Keys(Node(p[1]).ids) \cap Keys(Node(p[2]).ids) # {}
    BY <2>1 DEF PairsOf, Bucket
  <2> QED
    BY <1>1, <2>1, <2>2 DEF WorkOK
<1>3. ASSUME NEW key \in todo, NextEdgeBucket(key) PROVE WorkOK'
  <2>1. pairs' = PairsOf(EdgeBucket(key)) /\ phase = "match_edges" /\ phase' = phase
    BY <1>3 DEF NextEdgeBucket
  <2>2. \A p \in pairs' : p[1] < p[2]
    BY <2>1 DEF PairsOf
  <2> QED
    BY <2>1, <2>2 DEF WorkOK
<1>4. CASE NoInputFiles
  <2>1. Concatenated(<<>>) = <<>>
    BY FunctionLen DEF Concatenated, FlattenSeq
  <2>2. NodeOrdinals = {} /\ EdgeOrdinals = {}
    BY <1>4, <2>1 DEF NoInputFiles, InputOK, NodeOrdinals, EdgeOrdinals
  <2> QED
    BY <1>1, <1>4, <2>2 DEF NoInputFiles, WorkOK
<1>5. CASE Start
  BY <1>1, <1>5 DEF Start, WorkOK
<1>6. CASE ComparePair
  <2>1. pairs' \subseteq pairs /\ phase = "match_nodes" /\ phase' = phase /\ todo' = todo
        /\ cursor' = cursor
    BY <1>6 DEF ComparePair
  <2> QED
    BY <1>1, <2>1 DEF WorkOK
<1>7. CASE CompareEdges
  <2>1. pairs' \subseteq pairs /\ phase = "match_edges" /\ phase' = phase
    BY <1>7 DEF CompareEdges
  <2> QED
    BY <2>1 DEF WorkOK
<1>8. CASE NodesCompared \/ ApplySameAs \/ Assemble \/ Finish
  BY <1>8 DEF WorkOK, NodesCompared, ApplySameAs, Assemble, CheckGroupSizes, OrderNodes,
       BuildNodes, OrderEdges, BuildEdges, Finish, SaltFails, Accept, Reject
<1>9. CASE UNCHANGED vars
  BY <1>1, <1>9 DEF vars, WorkOK
<1> QED
  BY <1>2, <1>3, <1>4, <1>5, <1>6, <1>7, <1>8, <1>9 DEF Next, MatchNodes, MatchEdges

\* What is joined stays joined.
LEMMA JoinedStays ==
  ASSUME MergeInv, [Next]_vars
  PROVE  \A a, b \in NodeOrdinals : Joined(a, b) => Joined(a, b)'
<1>1. NodeOrdinals \subseteq Int /\ ForestOK(forest, NodeOrdinals)
  BY OrdinalsAre DEF MergeInv, TypeOK
<1>2. \A a, b, x, y \in NodeOrdinals :
        Together(forest, x, y) => Together(Unite(forest, a, b), x, y)
  BY <1>1, UniteKeeps
<1> QED
  BY <1>2, ForestStep DEF Joined

LEMMA NodesSettledStep ==
  ASSUME MergeInv, [Next]_vars
  PROVE  NodesSettled'
<1> USE DEF MergeInv
<1>1. /\ NodeOrdinals' = NodeOrdinals /\ SharedKeys' = SharedKeys
      /\ \A o : Node(o)' = Node(o)
      /\ \A a, b : Linked(a, b)' <=> Linked(a, b)
      /\ \A key : Bucket(key)' = Bucket(key)
  BY InputStep, InputStays
<1>2. NodeOrdinals \subseteq Nat
  BY OrdinalsAre
<1>3. ASSUME NEW key \in todo, NextBucket(key) PROVE NodesSettled'
  <2>1. /\ todo' = todo \ {key} /\ pairs' = PairsOf(Bucket(key)) /\ pairs = {}
        /\ phase = "match_nodes" /\ phase' = phase
    BY <1>3 DEF NextBucket
  <2>2. \A a, b \in Bucket(key) : a < b => <<a, b>> \in pairs'
    BY <2>1 DEF PairsOf
  <2>3. \A a, b \in NodeOrdinals : Joined(a, b) => Joined(a, b)'
    BY JoinedStays
  <2> QED
    BY <1>1, <2>1, <2>2, <2>3 DEF NodesSettled
<1>4. CASE Start
  <2>1. phase' = "match_nodes" /\ todo' = SharedKeys
    BY <1>4 DEF Start
  <2>2. ASSUME NEW a \in NodeOrdinals, NEW b \in NodeOrdinals, a < b, Linked(a, b)
        PROVE  \E key \in SharedKeys : a \in Bucket(key) /\ b \in Bucket(key)
    <3>1. PICK key : key \in Keys(Node(a).ids) /\ key \in Keys(Node(b).ids)
      BY <2>2 DEF Linked
    <3>2. a \in Bucket(key) /\ b \in Bucket(key)
      BY <3>1 DEF Bucket
    <3>3. Cardinality(Bucket(key)) > 1
      <4>1. IsFiniteSet(Bucket(key))
        BY OrdinalsAre, FS_Subset DEF Bucket
      <4>2. a # b
        BY <1>2, <2>2
      <4> QED
        BY <3>2, <4>1, <4>2, TwoElements
    <3>4. key \in SharedKeys
      BY <3>1, <3>3 DEF SharedKeys
    <3> QED
      BY <3>2, <3>4
  <2> QED
    BY <1>1, <2>1, <2>2 DEF NodesSettled
<1>5. CASE ComparePair
  <2> DEFINE a0 == FirstPair[1]
             b0 == FirstPair[2]
  <2>1. FirstPair \in pairs /\ pairs \subseteq NodeOrdinals \X NodeOrdinals
    BY <1>2, <1>5, FirstPairIs DEF ComparePair, TypeOK
  <2>2. /\ phase = "match_nodes" /\ phase' = phase /\ todo' = todo
        /\ pairs' = pairs \ {FirstPair} /\ FirstPair = <<a0, b0>>
        /\ a0 \in NodeOrdinals /\ b0 \in NodeOrdinals
        /\ forest' = IF NodesMatch(a0, b0) THEN Unite(forest, a0, b0) ELSE forest
    BY <1>5, <2>1 DEF ComparePair
  <2> HIDE DEF a0, b0
  <2>3. Linked(a0, b0) => Together(forest', a0, b0)
    <3>1. NodeOrdinals \subseteq Int /\ ForestOK(forest, NodeOrdinals)
      BY <1>2 DEF TypeOK
    <3>2. Linked(a0, b0) => forest' = Unite(forest, a0, b0)
      BY <2>2 DEF Linked
    <3>3. Together(Unite(forest, a0, b0), a0, b0)
      BY <2>2, <3>1, UniteKeeps
    <3> QED
      BY <3>2, <3>3
  <2>4. \A a, b \in NodeOrdinals : Joined(a, b) => Joined(a, b)'
    BY JoinedStays
  <2>5. ASSUME NEW a \in NodeOrdinals, NEW b \in NodeOrdinals, a < b, Linked(a, b)
        PROVE  \/ Joined(a, b)'
               \/ <<a, b>> \in pairs'
               \/ \E key \in todo' : a \in Bucket(key)' /\ b \in Bucket(key)'
    <3>1. CASE Joined(a, b) \/ \E key \in todo : a \in Bucket(key) /\ b \in Bucket(key)
      BY <1>1, <2>2, <2>4, <2>5, <3>1
    <3>2. CASE <<a, b>> \in pairs
      <4>1. CASE <<a, b>> = FirstPair
        <5>1. a = a0 /\ b = b0
          BY <2>2, <4>1
        <5> QED
          BY <2>3, <2>5, <5>1 DEF Joined
      <4>2. CASE <<a, b>> # FirstPair
        BY <2>2, <3>2, <4>2
      <4> QED
        BY <4>1, <4>2
    <3> QED
      BY <2>2, <2>5, <3>1, <3>2 DEF NodesSettled
  <2> QED
    BY <1>1, <2>2, <2>5 DEF NodesSettled
<1>6. CASE NodesCompared
  <2>1. phase = "match_nodes" /\ phase' = "same_as" /\ pairs = {} /\ todo = {}
    BY <1>6 DEF NodesCompared
  <2>2. \A a, b \in NodeOrdinals : Joined(a, b) => Joined(a, b)'
    BY JoinedStays
  <2> QED
    BY <1>1, <2>1, <2>2 DEF NodesSettled
<1>7. CASE NoInputFiles
  <2>1. NodeOrdinals' = {} /\ phase' = "no_input"
    BY <1>7, WorkStep DEF WorkOK, NoInputFiles
  <2> QED
    BY <2>1 DEF NodesSettled
<1>8. CASE ApplySameAs \/ MatchEdges \/ Assemble \/ Finish
  <2>1. phase \notin {"start", "match_nodes"} /\ phase' \notin {"start", "match_nodes"}
    BY <1>8 DEF ApplySameAs, MatchEdges, NextEdgeBucket, CompareEdges, Assemble, CheckGroupSizes,
         OrderNodes, BuildNodes, OrderEdges, BuildEdges, Finish, SaltFails, Accept, Reject
  <2>2. \A a, b \in NodeOrdinals : Joined(a, b) => Joined(a, b)'
    BY JoinedStays
  <2> QED
    BY <1>1, <2>1, <2>2 DEF NodesSettled
<1>9. CASE UNCHANGED vars
  <2>1. phase' = phase /\ todo' = todo /\ pairs' = pairs /\ forest' = forest
    BY <1>9 DEF vars
  <2> QED
    BY <1>1, <2>1 DEF NodesSettled, Joined
<1> QED
  BY <1>3, <1>4, <1>5, <1>6, <1>7, <1>8, <1>9 DEF Next, MatchNodes

LEMMA SameAsSettledStep ==
  ASSUME MergeInv, [Next]_vars
  PROVE  SameAsSettled'
<1> USE DEF MergeInv
<1>1. /\ EdgeOrdinals' = EdgeOrdinals
      /\ \A e : /\ Honoured(e)' <=> Honoured(e)
                /\ Source(e)' = Source(e) /\ Target(e)' = Target(e)
  BY InputStep, InputStays, EdgesStay
<1>2. EdgeOrdinals = 1 .. Len(allEdges) /\ Len(allEdges) \in Nat /\ cursor \in Nat \ {0}
  BY OrdinalsAre DEF TypeOK
<1>3. \A e \in EdgeOrdinals :
        Honoured(e) => Source(e) \in NodeOrdinals /\ Target(e) \in NodeOrdinals
  BY EndPoints DEF Honoured
<1>4. \A e \in EdgeOrdinals :
        Honoured(e) /\ Joined(Source(e), Target(e)) => Joined(Source(e), Target(e))'
  BY <1>1, <1>3, JoinedStays DEF Joined
<1>5. CASE ApplySameAs
  <2>1. /\ phase = "same_as" /\ phase' = phase /\ cursor' = cursor + 1 /\ cursor \in EdgeOrdinals
        /\ forest' = IF Honoured(cursor) THEN Unite(forest, Source(cursor), Target(cursor)) ELSE forest
    BY <1>5 DEF ApplySameAs
  <2>2. Honoured(cursor) => Together(forest', Source(cursor), Target(cursor))
    <3>1. NodeOrdinals \subseteq Int /\ ForestOK(forest, NodeOrdinals)
      BY OrdinalsAre DEF TypeOK
    <3>2. ASSUME NEW a \in NodeOrdinals, NEW b \in NodeOrdinals
          PROVE  Together(Unite(forest, a, b), a, b)
      BY <3>1, UniteKeeps
    <3> QED
      BY <1>3, <2>1, <3>2
  <2>3. \A e \in EdgeOrdinals : e < cursor + 1 => e < cursor \/ e = cursor
    BY <1>2
  <2>4. ASSUME NEW e \in EdgeOrdinals, Honoured(e), e < cursor + 1
        PROVE  Together(forest', Source(e), Target(e))
    <3>1. CASE e = cursor
      BY <2>2, <2>4, <3>1
    <3>2. CASE e < cursor
      <4>1. Joined(Source(e), Target(e))
        BY <2>1, <2>4, <3>2 DEF SameAsSettled
      <4>2. Joined(Source(e), Target(e))'
        BY <1>4, <2>4, <4>1
      <4> QED
        BY <1>1, <4>2 DEF Joined
    <3> QED
      BY <2>3, <2>4, <3>1, <3>2
  <2> QED
    BY <1>1, <2>1, <2>4 DEF SameAsSettled, Joined
<1>6. CASE CheckGroupSizes
  <2>1. phase = "same_as" /\ phase' = "order_nodes" /\ cursor \notin EdgeOrdinals
    BY <1>6 DEF CheckGroupSizes
  <2>2. \A e \in EdgeOrdinals : e < cursor
    BY <1>2, <2>1
  <2> QED
    BY <1>1, <1>4, <2>1, <2>2 DEF SameAsSettled
<1>7. CASE NodesCompared
  <2>1. phase' = "same_as" /\ phase = "match_nodes" /\ cursor' = cursor
    BY <1>7 DEF NodesCompared
  <2>2. cursor = 1
    BY <2>1 DEF WorkOK
  <2>3. \A e \in EdgeOrdinals : ~(e < cursor)
    BY <1>2, <2>2
  <2> QED
    BY <1>1, <2>1, <2>3 DEF SameAsSettled
<1>8. CASE NoInputFiles
  <2>1. EdgeOrdinals' = {}
    BY <1>8, WorkStep DEF WorkOK, NoInputFiles
  <2> QED
    BY <2>1 DEF SameAsSettled
<1>9. CASE Start \/ (\E key \in todo : NextBucket(key)) \/ ComparePair
  <2>1. phase' \in {"start", "match_nodes"}
    BY <1>9 DEF Start, NextBucket, ComparePair
  <2> QED
    BY <2>1 DEF SameAsSettled
<1>10. CASE MatchEdges \/ OrderNodes \/ BuildNodes \/ OrderEdges \/ BuildEdges \/ Finish
  <2>1. phase \notin {"start", "match_nodes", "same_as"} /\ phase' # "same_as"
    BY <1>10 DEF MatchEdges, NextEdgeBucket, CompareEdges, OrderNodes, BuildNodes, OrderEdges,
         BuildEdges, Finish, SaltFails, Accept, Reject
  <2> QED
    BY <1>1, <1>4, <2>1 DEF SameAsSettled
<1>11. CASE UNCHANGED vars
  <2>1. phase' = phase /\ cursor' = cursor
    BY <1>11 DEF vars
  <2> QED
    BY <1>1, <1>4, <2>1 DEF SameAsSettled
<1> QED
  BY <1>5, <1>6, <1>7, <1>8, <1>9, <1>10, <1>11 DEF Next, MatchNodes, Assemble

LEMMA MergeStep == MergeInv /\ [Next]_vars => MergeInv'
<1> SUFFICES ASSUME MergeInv, [Next]_vars PROVE MergeInv'
  OBVIOUS
<1>1. InputOK'
  BY InputStep DEF MergeInv, InputOK
<1> QED
  BY <1>1, TypeStep, WorkStep, NodesSettledStep, SameAsSettledStep DEF MergeInv

THEOREM MergeInvHolds == Spec => []MergeInv
BY MergeInit, MergeStep, PTL DEF Spec

(* Every variable of the pipeline has its type, whatever the files.        *)
THEOREM MergeTypeCorrect == Spec => []TypeOK
<1>1. MergeInv => TypeOK
  BY DEF MergeInv
<1> QED
  BY <1>1, MergeInvHolds, PTL

-----------------------------------------------------------------------------
(* The pipeline implements entity resolution.                              *)

Outcome ==
  CASE phase = "done" -> "published"
    [] phase \in Final \ {"done"} -> "rejected"
    [] OTHER -> "open"

LEMMA OutcomeIs ==
  /\ phase = "done" => Outcome = "published"
  /\ phase \in Final \ {"done"} => Outcome = "rejected"
  /\ phase \notin Final => Outcome = "open"
BY DEF Outcome, Final

LEMMA LinksAre ==
  ASSUME InputOK
  PROVE  Links \subseteq NodeOrdinals \X NodeOrdinals
<1>1. ASSUME NEW e \in EdgeOrdinals, Honoured(e)
      PROVE  Source(e) \in NodeOrdinals /\ Target(e) \in NodeOrdinals
  BY <1>1, EndPoints DEF Honoured
<1> QED
  BY <1>1 DEF Links

\* When the nodes are done every link is inside one class.
LEMMA LinksClosed ==
  ASSUME MergeInv, phase \notin {"start", "match_nodes", "same_as"}
  PROVE  \A l \in Links : \E c \in Classes(forest) : l[1] \in c /\ l[2] \in c
<1> SUFFICES ASSUME NEW l \in Links
             PROVE  \E c \in Classes(forest) : l[1] \in c /\ l[2] \in c
  OBVIOUS
<1>1. l[1] \in NodeOrdinals /\ l[2] \in NodeOrdinals
  BY LinksAre DEF MergeInv
<1>2. Joined(l[1], l[2])
  <2>1. CASE l[1] < l[2] /\ Linked(l[1], l[2])
    BY <1>1, <2>1 DEF MergeInv, NodesSettled
  <2>2. CASE \E e \in EdgeOrdinals : Honoured(e) /\ l = <<Source(e), Target(e)>>
    BY <2>2 DEF MergeInv, SameAsSettled
  <2> QED
    BY <2>1, <2>2 DEF Links
<1>3. forest.rep \in [NodeOrdinals -> NodeOrdinals]
  BY DEF MergeInv, TypeOK, ForestOK
<1>4. forest.rep[l[1]] \in Representatives(forest)
  BY <1>1, <1>3 DEF Representatives
<1>5. l[1] \in ClassOf(forest, forest.rep[l[1]]) /\ l[2] \in ClassOf(forest, forest.rep[l[1]])
  BY <1>1, <1>2, <1>3 DEF ClassOf, Joined, Together
<1> QED
  BY <1>4, <1>5 DEF Classes

LEMMA ResolutionInit == Init => Resolution!Init
<1> SUFFICES ASSUME Init PROVE Resolution!Init
  OBVIOUS
<1>1. Links \subseteq NodeOrdinals \X NodeOrdinals
  BY LinksAre DEF Init, InputOK
<1>2. Classes(forest) = {{r} : r \in NodeOrdinals}
  <2>1. forest = NewForest(NodeOrdinals)
    BY DEF Init
  <2>2. Representatives(forest) = NodeOrdinals
    BY <2>1 DEF Representatives, NewForest
  <2>3. \A r \in NodeOrdinals : ClassOf(forest, r) = {r}
    BY <2>1 DEF ClassOf, NewForest
  <2> QED
    BY <2>2, <2>3 DEF Classes
<1>3. Outcome = "open"
  BY OutcomeIs DEF Init, Final
<1> QED
  BY <1>1, <1>2, <1>3 DEF Resolution!Init, Classes, Outcome

LEMMA ResolutionStep == MergeInv /\ [Next]_vars => [Resolution!Next]_(Resolution!vars)
<1> SUFFICES ASSUME MergeInv, [Next]_vars PROVE [Resolution!Next]_(Resolution!vars)
  OBVIOUS
<1>1. NodeOrdinals' = NodeOrdinals /\ Links' = Links
  BY InputStep, InputStays, LinksStay
<1>2. CASE phase \in {"match_nodes", "same_as"} /\ phase' = phase
  <2>1. Outcome = "open" /\ Outcome' = Outcome
    BY <1>2, OutcomeIs DEF Final, Outcome
  <2>2. CASE Classes(forest') = Classes(forest)
    BY <1>1, <2>1, <2>2 DEF Resolution!vars, Classes, Outcome
  <2>3. CASE \E l \in Links, c, d \in Classes(forest) :
               /\ l[1] \in c /\ l[2] \in d /\ c # d
               /\ Classes(forest') = (Classes(forest) \ {c, d}) \cup {c \cup d}
    BY <1>1, <2>1, <2>3 DEF Resolution!Next, Resolution!Join, Classes, Outcome
  <2>4. CASE \E a, b \in NodeOrdinals : <<a, b>> \in Links /\ forest' = Unite(forest, a, b)
    <3>1. PICK a, b \in NodeOrdinals : <<a, b>> \in Links /\ forest' = Unite(forest, a, b)
      BY <2>4
    <3>2. NodeOrdinals \subseteq Int /\ ForestOK(forest, NodeOrdinals)
      BY OrdinalsAre DEF MergeInv, TypeOK
    <3>3. Unite(forest, a, b) = forest \/ ClassesJoined(forest, Unite(forest, a, b), a, b)
      BY <3>2, UniteJoins
    <3>4. forest' = forest \/ ClassesJoined(forest, forest', a, b)
      BY <3>1, <3>3
    <3> QED
      BY <2>2, <2>3, <3>1, <3>4 DEF ClassesJoined
  <2> QED
    BY <2>2, <2>4, ForestStep
<1>3. CASE forest' = forest /\ Outcome' = Outcome
  BY <1>1, <1>3 DEF Resolution!vars, Outcome
<1>4. CASE NoInputFiles \/ SaltFails \/ Reject
  <2>1. /\ forest' = forest /\ phase' \in Final \ {"done"} /\ phase \notin Final
    BY <1>4 DEF NoInputFiles, SaltFails, Reject, Final
  <2>2. Outcome = "open" /\ Outcome' = "rejected"
    BY <2>1, OutcomeIs DEF Outcome
  <2>3. \A l \in Links : \E c \in Classes(forest) : l[1] \in c /\ l[2] \in c
    <3>1. CASE phase = "finish"
      BY <3>1, LinksClosed
    <3>2. CASE NoInputFiles
      <4>1. NodeOrdinals = {}
        BY <1>1, <3>2, WorkStep DEF NoInputFiles, WorkOK
      <4> QED
        BY <4>1, LinksAre DEF MergeInv
    <3> QED
      BY <1>4, <3>1, <3>2 DEF SaltFails, Reject
  <2> QED
    BY <1>1, <2>1, <2>2, <2>3 DEF Resolution!Next, Resolution!Reject, Resolution!Closed, Classes, Outcome
<1>5. CASE Accept
  <2>1. forest' = forest /\ phase' = "done" /\ phase = "finish"
    BY <1>5 DEF Accept
  <2>2. Outcome = "open" /\ Outcome' = "published"
    BY <2>1, OutcomeIs DEF Outcome, Final
  <2>3. \A l \in Links : \E c \in Classes(forest) : l[1] \in c /\ l[2] \in c
    BY <2>1, LinksClosed
  <2> QED
    BY <1>1, <2>1, <2>2, <2>3 DEF Resolution!Next, Resolution!Publish, Resolution!Closed, Classes, Outcome
<1>6. CASE Start \/ NodesCompared \/ (\E key \in todo : NextBucket(key)) \/ MatchEdges
           \/ Assemble \/ UNCHANGED vars
  <2>1. forest' = forest /\ (phase' = phase \/ (phase \notin Final /\ phase' \notin Final))
    BY <1>6 DEF Final, vars, Start, NodesCompared, NextBucket, MatchEdges, NextEdgeBucket, CompareEdges,
         Assemble, CheckGroupSizes, OrderNodes, BuildNodes, OrderEdges, BuildEdges
  <2>2. Outcome' = Outcome
    BY <2>1 DEF Outcome, Final
  <2> QED
    BY <1>3, <2>1, <2>2
<1>7. CASE ComparePair \/ ApplySameAs
  BY <1>2, <1>7 DEF ComparePair, ApplySameAs
<1> QED
  BY <1>4, <1>5, <1>6, <1>7 DEF Next, MatchNodes, Finish

(* Groups of nodes only ever become one along a link, and when the merge   *)
(* ends no link is left between two of them: for all files, every          *)
(* threshold, and every order of the buckets.                              *)
THEOREM MergeImplementsResolution == Spec => ResolutionSpec
BY ResolutionInit, ResolutionStep, MergeInvHolds, PTL DEF Spec, ResolutionSpec, Resolution!Spec

-----------------------------------------------------------------------------
(* What the pipeline keeps true while it makes nodes and edges of groups.  *)

\* The node n says what the record o of the input says.
NodeSays(n, o) ==
  /\ \A i \in DOMAIN Node(o).ids :
       Cardinality({k \in DOMAIN n.ids :
          CanonicalId(n.ids[k]) = CanonicalId(Node(o).ids[i])}) = 1
  /\ Node(o).labels \subseteq n.labels
  /\ \A s \in Scalars :
       \/ Node(o).scalars[s] \in {None, n.scalars[s]}
       \/ \E c \in n.conflicts :
            /\ c.field = s
            /\ [value |-> Node(o).scalars[s], file |-> allNodes[o].file] \in c.values

\* The edge d says what the members of a group say, the first in particular.
EdgeSays(d, members) ==
  /\ d.type = Edge(Min(members)).type
  /\ d.source = NewId(forest, nodeOrder, Source(Min(members)))
  /\ d.target = NewId(forest, nodeOrder, Target(Min(members)))
  /\ HasIdentifiers(d)
  /\ \A e \in members : \A i \in DOMAIN Edge(e).ids :
       \E k \in DOMAIN d.ids : CanonicalId(d.ids[k]) = CanonicalId(Edge(e).ids[i])
  /\ \A name \in IdentityProperties(d.type) :
       Property(d.props, name) = Property(Edge(Min(members)).props, name)

NotOrdered == {"start", "no_input", "match_nodes", "same_as", "order_nodes"}
NotBuilt   == NotOrdered \cup {"build_nodes"}
NotGrouped == NotBuilt \cup {"match_edges"}
NotFinished == NotGrouped \cup {"build_edges"}

\* The order of the groups, as a set of pairs.
NodeLess(f) ==
  {p \in Representatives(f) \X Representatives(f) : GroupLess(f, p[1], p[2])}
EdgeLess(f) ==
  {p \in Representatives(edgeForest) \X Representatives(edgeForest) :
     KeyLess(EdgeGroupKey(f, p[1]), EdgeGroupKey(f, p[2]))}

NodesMade ==
  /\ phase \notin NotOrdered => InOrder(nodeOrder, NodeLess(forest), Representatives(forest))
  /\ phase \notin NotBuilt => nodes = MergedNodes(forest, nodeOrder)

\* Two edges with one key, and what their group may not mix.
SameKey(d, e) ==
  HasEdgeKey(d) /\ HasEdgeKey(e) /\ EdgeKey(forest, d) = EdgeKey(forest, e)
Unnamed(e) == External(Edge(e).ids) = <<>>
Alike(d, e) ==
  d = e \/ /\ SameKey(d, e)
           /\ Unnamed(d) <=> Unnamed(e)
           /\ Unnamed(e) => \A name \in IdentityProperties(Edge(e).type) :
                Property(Edge(d).props, name) = Property(Edge(e).props, name)

EdgesGrouped ==
  /\ phase \in NotBuilt => edgeForest = NewForest(EdgeOrdinals)
  /\ \A d, e \in EdgeOrdinals : Together(edgeForest, d, e) => Alike(d, e)
  /\ phase = "match_edges" => \A p \in pairs : SameKey(p[1], p[2])

\* A pair of edges that are to become one.
Matching(d, e) == d < e /\ SameKey(d, e) /\ EdgesMatch(Edge(d), Edge(e))
EdgesSettled ==
  /\ phase = "match_edges" =>
       \A d, e \in EdgeOrdinals : Matching(d, e) =>
         \/ Together(edgeForest, d, e)
         \/ <<d, e>> \in pairs
         \/ \E key \in todo : d \in EdgeBucket(key) /\ e \in EdgeBucket(key)
  /\ phase \notin NotGrouped =>
       \A d, e \in EdgeOrdinals : Matching(d, e) =>
         Together(edgeForest, d, e)

EdgesMade ==
  /\ phase \notin NotGrouped =>
       InOrder(edgeOrder, EdgeLess(forest), Representatives(edgeForest))
  /\ phase \notin NotFinished => edges = MergedEdges(forest, nodeOrder, edgeOrder)

\* The groups that stand behind the output edges.
Kept(r) == Resolves(Min(ClassOf(edgeForest, r)))

FactsInv == NodesMade /\ EdgesGrouped /\ EdgesSettled /\ EdgesMade

-----------------------------------------------------------------------------
(* Identifiers and the orders they give.                                   *)

LEMMA LeastIs ==
  ASSUME NEW S \in SUBSET Nat, S # {}
  PROVE  Min(S) \in S /\ \A k \in S : Min(S) <= k
<1>1. PICK m \in S : \A k \in S : m <= k
  BY LeastNatural
<1> QED
  BY <1>1 DEF Min

LEMMA KeysAre ==
  ASSUME NEW x, HasIdentifiers(x)
  PROVE  IsFiniteSet(Keys(x.ids)) /\ Keys(x.ids) \in SUBSET Text
<1> DEFINE I == {j \in DOMAIN x.ids : Indexed(x.ids[j])}
           g == [i \in I |-> CanonicalId(x.ids[i])]
<1>1. IsFiniteSet(I)
  <2>1. IsFiniteSet(DOMAIN x.ids)
    BY FS_Interval DEF HasIdentifiers, IsSequence
  <2>2. I \in SUBSET DOMAIN x.ids
    OBVIOUS
  <2> QED
    BY <2>1, <2>2, FS_Subset
<1>2. Keys(x.ids) = {g[i] : i \in I}
  BY DEF Keys
<1>3. IsFiniteSet({g[i] : i \in I})
  BY <1>1, FiniteValues
<1>4. \A i \in I : CanonicalId(x.ids[i]) \in Text
  BY CanonicalIdIs DEF HasIdentifiers
<1> QED
  BY <1>2, <1>3, <1>4

LEMMA MinTextIs ==
  ASSUME NEW T \in SUBSET Text, IsFiniteSet(T)
  PROVE  MinText(T) \in Text
<1>1. CASE T = {}
  BY <1>1 DEF MinText, Text
<1>2. CASE T # {}
  <2> DEFINE R == {p \in T \X T : TextLess(p[1], p[2])}
  <2>1. StrictOrder(R, T)
    BY TextsOrdered
  <2>2. \A x, y \in T : <<x, y>> \in R => TextLess(x, y)
    OBVIOUS
  <2> HIDE DEF R
  <2>3. PICK m \in T : \A k \in T : k = m \/ <<m, k>> \in R
    BY <1>2, <2>1, LeastElement
  <2>4. \A k \in T : TextLeq(m, k)
    BY <2>2, <2>3 DEF TextLeq
  <2>5. MinText(T) \in T
    BY <1>2, <2>4 DEF MinText
  <2> QED
    BY <2>5
<1> QED
  BY <1>1, <1>2

\* The lowest of the texts that each member of a group has.
LEMMA MinTextOfGroup ==
  ASSUME NEW M, IsFiniteSet(M), NEW texts,
         \A o \in M : IsFiniteSet(texts[o]) /\ texts[o] \in SUBSET Text
  PROVE  MinText(UNION {texts[o] : o \in M}) \in Text
<1>1. IsFiniteSet({texts[o] : o \in M})
  BY FiniteValues
<1>2. IsFiniteSet(UNION {texts[o] : o \in M})
  BY <1>1, FS_UNION
<1> QED
  BY <1>2, MinTextIs

LEMMA GroupKeyIs ==
  ASSUME InputOK, NEW f, ForestOK(f, NodeOrdinals), NEW r
  PROVE  GroupKey(f, r) \in Text
<1> DEFINE M == ClassOf(f, r)
           texts == [o \in M |-> Keys(Node(o).ids)]
<1>1. M \in SUBSET NodeOrdinals
  BY DEF ClassOf, ForestOK
<1>2. IsFiniteSet(M)
  BY <1>1, OrdinalsAre, FS_Subset
<1>3. \A o \in M : IsFiniteSet(texts[o]) /\ texts[o] \in SUBSET Text
  BY <1>1, InputFacts, KeysAre
<1>4. GroupKey(f, r) = MinText(UNION {texts[o] : o \in M})
  BY DEF GroupKey
<1> HIDE DEF M, texts
<1> QED
  BY <1>2, <1>3, <1>4, MinTextOfGroup

\* Texts first, then numbers.
LEMMA KeyedOrder ==
  ASSUME NEW S \in SUBSET Nat, NEW key, \A x \in S : key[x] \in Text
  PROVE  StrictOrder({p \in S \X S : TextLess(key[p[1]], key[p[2]])
                                      \/ (key[p[1]] = key[p[2]] /\ p[1] < p[2])}, S)
<1> DEFINE R == {p \in S \X S : TextLess(key[p[1]], key[p[2]])
                                 \/ (key[p[1]] = key[p[2]] /\ p[1] < p[2])}
<1>1. \A x, y \in S :
        <<x, y>> \in R <=> (TextLess(key[x], key[y]) \/ (key[x] = key[y] /\ x < y))
  OBVIOUS
<1> HIDE DEF R
<1>2. ASSUME NEW x \in S PROVE <<x, x>> \notin R
  BY <1>1, TextLessIrreflexive
<1>3. ASSUME NEW x \in S, NEW y \in S, NEW z \in S, <<x, y>> \in R, <<y, z>> \in R
      PROVE  <<x, z>> \in R
  <2>1. TextLess(key[x], key[y]) \/ (key[x] = key[y] /\ x < y)
    BY <1>1, <1>3
  <2>2. TextLess(key[y], key[z]) \/ (key[y] = key[z] /\ y < z)
    BY <1>1, <1>3
  <2>3. TextLess(key[x], key[y]) /\ TextLess(key[y], key[z]) => TextLess(key[x], key[z])
    BY TextLessTransitive
  <2>4. x \in Nat /\ y \in Nat /\ z \in Nat
    OBVIOUS
  <2> QED
    BY <1>1, <2>1, <2>2, <2>3, <2>4
<1>4. ASSUME NEW x \in S, NEW y \in S PROVE x = y \/ <<x, y>> \in R \/ <<y, x>> \in R
  <2>1. key[x] = key[y] \/ TextLess(key[x], key[y]) \/ TextLess(key[y], key[x])
    BY TextLessTotal
  <2>2. x = y \/ x < y \/ y < x
    OBVIOUS
  <2> QED
    BY <1>1, <2>1, <2>2
<1>5. StrictOrder(R, S)
  BY <1>2, <1>3, <1>4 DEF StrictOrder
<1> QED
  BY <1>5 DEF R

(* Each group of nodes has one place in the order of the output.           *)
LEMMA GroupOrderIs ==
  ASSUME InputOK, NEW f, ForestOK(f, NodeOrdinals)
  PROVE  InOrder(GroupOrder(f), NodeLess(f), Representatives(f))
<1> DEFINE S == Representatives(f)
           key == [r \in S |-> GroupKey(f, r)]
           R == {p \in S \X S : TextLess(key[p[1]], key[p[2]])
                                 \/ (key[p[1]] = key[p[2]] /\ p[1] < p[2])}
           pick(i) == CHOOSE e \in S : Cardinality({d \in S : GroupLess(f, d, e)}) = i - 1
           order == [i \in 1 .. Cardinality(S) |-> pick(i)]
<1>1. S \in SUBSET Nat /\ IsFiniteSet(S)
  <2>1. S \in SUBSET NodeOrdinals
    BY DEF Representatives, ForestOK
  <2> QED
    BY <2>1, OrdinalsAre, FS_Subset
<1>2. \A x \in S : key[x] \in Text
  BY GroupKeyIs
<1>3. \A d, e \in S : <<d, e>> \in R <=> GroupLess(f, d, e)
  BY DEF GroupLess
<1>4. GroupOrder(f) = order
  BY DEF GroupOrder, SortedBy
<1>5. DOMAIN order = 1 .. Cardinality(S) /\ order = [i \in DOMAIN order |-> order[i]]
  <2> HIDE DEF pick
  <2> QED
    OBVIOUS
<1>6. StrictOrder(R, S) /\ R = NodeLess(f)
  <2>1. R \in SUBSET (S \X S)
    OBVIOUS
  <2>2. R = NodeLess(f)
    BY <1>3, <2>1 DEF NodeLess
  <2> HIDE DEF S, key
  <2>3. StrictOrder(R, S)
    BY <1>1, <1>2, KeyedOrder
  <2> QED
    BY <2>2, <2>3
<1> HIDE DEF S, R
<1>7. \A e \in S : Cardinality({d \in S : GroupLess(f, d, e)}) = RankIn(R, S, e)
  <2> TAKE e \in S
  <2>1. {d \in S : GroupLess(f, d, e)} = Below(R, S, e)
    BY <1>3 DEF Below
  <2> QED
    BY <2>1 DEF RankIn
<1>8. \A i \in 1 .. Cardinality(S) :
        (\E e \in S : RankIn(R, S, e) = i - 1) => order[i] \in S /\ RankIn(R, S, order[i]) = i - 1
  BY <1>7
<1> HIDE DEF order
<1>9. InOrder(order, R, S)
  BY <1>1, <1>5, <1>6, <1>8, InOrderByRank
<1> QED
  BY <1>4, <1>6, <1>9 DEF S

\* The list m has one record of each canonical form in the lists of the members.
OneOfEach(m, members, ids) ==
  /\ IsSequence(m)
  /\ \A k \in DOMAIN m :
       IsIdentifier(m[k]) /\ \E o \in members : \E i \in DOMAIN ids[o] : m[k] = ids[o][i]
  /\ \A j, k \in DOMAIN m : CanonicalId(m[j]) = CanonicalId(m[k]) => j = k
  /\ \A o \in members : \A i \in DOMAIN ids[o] :
       Cardinality({k \in DOMAIN m : CanonicalId(m[k]) = CanonicalId(ids[o][i])}) = 1

(* Merging identifiers keeps one record of each canonical form.            *)
LEMMA MergedIdentifiers ==
  ASSUME NEW members \in SUBSET Nat, IsFiniteSet(members), NEW ids,
         \A o \in members : IsSequence(ids[o]) /\ \A i \in DOMAIN ids[o] : IsIdentifier(ids[o][i])
  PROVE  OneOfEach(MergeIdentifiers(members, ids), members, ids)
<1> DEFINE slots == UNION {{o} \X DOMAIN ids[o] : o \in members}
           Cid(p) == CanonicalId(ids[p[1]][p[2]])
           firsts == {p \in slots : \A q \in slots : SlotBefore(q, p) => Cid(q) # Cid(p)}
           R == {p \in firsts \X firsts : TextLess(Cid(p[1]), Cid(p[2]))}
           pick(i) == CHOOSE e \in firsts :
                        Cardinality({d \in firsts : TextLess(Cid(d), Cid(e))}) = i - 1
           order == [i \in 1 .. Cardinality(firsts) |-> pick(i)]
           m == [k \in DOMAIN order |-> ids[order[k][1]][order[k][2]]]
<1>1. MergeIdentifiers(members, ids) = m
  BY DEF MergeIdentifiers, SortedBy
<1>2. \A p \in slots : /\ p \in Nat \X Nat /\ p = <<p[1], p[2]>>
                       /\ p[1] \in members /\ p[2] \in DOMAIN ids[p[1]]
  BY DEF IsSequence
<1>3. \A o \in members : \A i \in DOMAIN ids[o] : <<o, i>> \in slots
  <2> TAKE o \in members
  <2> TAKE i \in DOMAIN ids[o]
  <2>1. <<o, i>> \in {o} \X DOMAIN ids[o]
    OBVIOUS
  <2> QED
    BY <2>1
<1>4. IsFiniteSet(slots)
  <2> DEFINE g == [o \in members |-> {o} \X DOMAIN ids[o]]
  <2>1. \A o \in members : IsFiniteSet(g[o])
    <3> TAKE o \in members
    <3>1. Len(ids[o]) \in Nat /\ DOMAIN ids[o] = 1 .. Len(ids[o])
      BY DEF IsSequence
    <3>2. IsFiniteSet(1 .. Len(ids[o]))
      BY <3>1, FS_Interval
    <3>3. IsFiniteSet({o})
      BY FS_Singleton
    <3>4. IsFiniteSet(DOMAIN ids[o])
      BY <3>1, <3>2
    <3> QED
      BY <3>3, <3>4, FS_Product
  <2>2. slots = UNION {g[o] : o \in members}
    OBVIOUS
  <2> HIDE DEF slots, g
  <2>3. IsFiniteSet({g[o] : o \in members})
    BY FiniteValues
  <2> QED
    BY <2>1, <2>2, <2>3, FS_UNION
<1> HIDE DEF slots
<1>5. firsts \in SUBSET slots /\ IsFiniteSet(firsts)
  BY <1>4, FS_Subset
<1>6. \A p \in slots : IsIdentifier(ids[p[1]][p[2]]) /\ Cid(p) \in Text
  BY <1>2, CanonicalIdIs
<1>7. \A p \in firsts, q \in slots : SlotBefore(q, p) => Cid(q) # Cid(p)
  OBVIOUS
<1>8. ASSUME NEW p \in slots PROVE \E q \in firsts : Cid(q) = Cid(p)
  <2> DEFINE P == {q \in slots : Cid(q) = Cid(p)}
  <2>1. P \in SUBSET (Nat \X Nat) /\ P # {}
    BY <1>2
  <2>2. PICK q \in P : \A r \in P : q[1] < r[1] \/ (q[1] = r[1] /\ q[2] <= r[2])
    BY <2>1, LeastPair
  <2>3. ASSUME NEW r \in slots, SlotBefore(r, q), Cid(r) = Cid(q) PROVE FALSE
    <3>1. r \in P /\ q[1] \in Nat /\ q[2] \in Nat /\ r[1] \in Nat /\ r[2] \in Nat
      BY <1>2, <2>3
    <3> QED
      BY <2>2, <2>3, <3>1 DEF SlotBefore
  <2>4. q \in firsts
    BY <2>3
  <2> QED
    BY <2>4
<1> HIDE DEF Cid, firsts
<1>9. ASSUME NEW p \in firsts, NEW q \in firsts, Cid(p) = Cid(q) PROVE p = q
  <2>1. ~SlotBefore(p, q) /\ ~SlotBefore(q, p)
    BY <1>5, <1>7, <1>9
  <2>2. p = <<p[1], p[2]>> /\ q = <<q[1], q[2]>> /\ p \in Nat \X Nat /\ q \in Nat \X Nat
    BY <1>2, <1>5
  <2>3. p[1] = q[1] /\ p[2] = q[2]
    BY <2>1, <2>2 DEF SlotBefore
  <2> QED
    BY <2>2, <2>3
<1>10. \A x, y \in firsts : <<x, y>> \in R <=> TextLess(Cid(x), Cid(y))
  OBVIOUS
<1>11. DOMAIN order = 1 .. Cardinality(firsts) /\ order = [i \in DOMAIN order |-> order[i]]
  <2> HIDE DEF pick
  <2> QED
    OBVIOUS
<1>12. m = [k \in DOMAIN order |-> m[k]] /\ \A k \in DOMAIN order : m[k] = ids[order[k][1]][order[k][2]]
  OBVIOUS
<1> HIDE DEF R, m
<1>13. StrictOrder(R, firsts)
  <2>1. \A x \in firsts : <<x, x>> \notin R
    BY <1>5, <1>6, <1>10, TextLessIrreflexive
  <2>2. \A x, y, z \in firsts : <<x, y>> \in R /\ <<y, z>> \in R => <<x, z>> \in R
    BY <1>5, <1>6, <1>10, TextLessTransitive
  <2>3. \A x, y \in firsts : x = y \/ <<x, y>> \in R \/ <<y, x>> \in R
    BY <1>5, <1>6, <1>9, <1>10, TextLessTotal
  <2> QED
    BY <2>1, <2>2, <2>3 DEF StrictOrder
<1>14. \A e \in firsts : Cardinality({d \in firsts : TextLess(Cid(d), Cid(e))}) = RankIn(R, firsts, e)
  <2> TAKE e \in firsts
  <2>1. {d \in firsts : TextLess(Cid(d), Cid(e))} = Below(R, firsts, e)
    BY <1>10 DEF Below
  <2> QED
    BY <2>1 DEF RankIn
<1>15. \A i \in 1 .. Cardinality(firsts) :
         (\E e \in firsts : RankIn(R, firsts, e) = i - 1)
           => order[i] \in firsts /\ RankIn(R, firsts, order[i]) = i - 1
  BY <1>14
<1> HIDE DEF order
<1>16. Lists(order, firsts)
  <2>1. Enumerates(order, R, firsts)
    BY <1>5, <1>11, <1>13, <1>15, EnumerationByRank
  <2> QED
    BY <1>5, <1>11, <1>13, <2>1, EnumerationLists
<1>17. IsSequence(m) /\ DOMAIN m = DOMAIN order
  <2>1. Len(order) \in Nat /\ DOMAIN order = 1 .. Len(order)
    BY <1>16 DEF Lists
  <2>2. Len(m) = Len(order) /\ DOMAIN m = DOMAIN order
    BY <1>12, <2>1, FunctionLen
  <2> QED
    BY <2>1, <2>2 DEF IsSequence
<1>18. \A k \in DOMAIN m : order[k] \in firsts /\ IsIdentifier(m[k]) /\ CanonicalId(m[k]) = Cid(order[k])
  BY <1>5, <1>6, <1>12, <1>16, <1>17 DEF Lists, Cid
<1>19. ASSUME NEW o \in members, NEW i \in DOMAIN ids[o]
       PROVE  Cardinality({k \in DOMAIN m : CanonicalId(m[k]) = CanonicalId(ids[o][i])}) = 1
  <2>1. <<o, i>> \in slots /\ Cid(<<o, i>>) = CanonicalId(ids[o][i])
    BY <1>3 DEF Cid
  <2>2. PICK q \in firsts : Cid(q) = CanonicalId(ids[o][i])
    BY <1>8, <2>1
  <2>3. PICK k \in DOMAIN m : order[k] = q
    BY <1>16, <1>17 DEF Lists
  <2>4. \A j \in DOMAIN m : CanonicalId(m[j]) = CanonicalId(ids[o][i]) => j = k
    <3> SUFFICES ASSUME NEW j \in DOMAIN m, CanonicalId(m[j]) = CanonicalId(ids[o][i]) PROVE j = k
      OBVIOUS
    <3>1. order[j] = q
      BY <1>9, <1>18, <2>2
    <3> QED
      BY <1>16, <1>17, <2>3, <3>1 DEF Lists
  <2>5. {j \in DOMAIN m : CanonicalId(m[j]) = CanonicalId(ids[o][i])} = {k}
    BY <1>18, <2>2, <2>3, <2>4
  <2> QED
    BY <2>5, FS_Singleton
<1>20. ASSUME NEW k \in DOMAIN m
       PROVE  \E o \in members : \E i \in DOMAIN ids[o] : m[k] = ids[o][i]
  <2>1. m[k] = ids[order[k][1]][order[k][2]] /\ order[k] \in slots
    BY <1>5, <1>12, <1>17, <1>18
  <2> QED
    BY <1>2, <2>1
<1>21. ASSUME NEW j \in DOMAIN m, NEW k \in DOMAIN m, CanonicalId(m[j]) = CanonicalId(m[k])
       PROVE  j = k
  <2>1. order[j] = order[k]
    BY <1>9, <1>18, <1>21
  <2> QED
    BY <1>16, <1>17, <2>1 DEF Lists
<1> QED
  BY <1>1, <1>17, <1>18, <1>19, <1>20, <1>21 DEF OneOfEach

(* A merged node says what each of its members says.                       *)
LEMMA MergedNodeSays ==
  ASSUME InputOK, NEW members \in SUBSET NodeOrdinals, NEW o \in members, NEW id
  PROVE  NodeSays(MergedNode(members, id), o)
<1> DEFINE n == MergedNode(members, id)
           ids == [m \in members |-> Node(m).ids]
           merged == MergeIdentifiers(members, ids)
<1>1. /\ n.ids = merged
      /\ n.labels = UNION {Node(m).labels : m \in members}
      /\ n.scalars = [s \in Scalars |-> MergeScalar(members, s)]
      /\ n.conflicts = Conflicts(members)
  BY DEF MergedNode
<1>2. \A m \in members : IsSequence(ids[m]) /\ \A i \in DOMAIN ids[m] : IsIdentifier(ids[m][i])
  BY InputFacts DEF HasIdentifiers
<1>3. members \in SUBSET Nat /\ IsFiniteSet(members)
  BY OrdinalsAre, FS_Subset
<1>4. ids[o] = Node(o).ids
  OBVIOUS
<1> HIDE DEF n, ids, merged
<1>5. OneOfEach(merged, members, ids)
  BY <1>2, <1>3, MergedIdentifiers DEF merged
<1>6. \A i \in DOMAIN Node(o).ids :
        Cardinality({k \in DOMAIN n.ids : CanonicalId(n.ids[k]) = CanonicalId(Node(o).ids[i])}) = 1
  BY <1>1, <1>4, <1>5 DEF OneOfEach
<1>7. Node(o).labels \subseteq n.labels
  BY <1>1
<1>8. ASSUME NEW s \in Scalars, Node(o).scalars[s] # None, Node(o).scalars[s] # n.scalars[s]
      PROVE  \E c \in n.conflicts :
               /\ c.field = s
               /\ [value |-> Node(o).scalars[s], file |-> allNodes[o].file] \in c.values
  <2> DEFINE v == [value |-> Node(o).scalars[s], file |-> allNodes[o].file]
  <2>1. v \in ValuesSeen(members, s)
    BY <1>8 DEF ValuesSeen
  <2>2. CASE Agreed(members, s)
    <3> DEFINE w == CHOOSE u \in ValuesSeen(members, s) : TRUE
    <3>1. w \in ValuesSeen(members, s)
      BY <2>1
    <3>2. n.scalars[s] = w.value
      BY <1>1, <2>1, <2>2 DEF MergeScalar
    <3> HIDE DEF w
    <3>3. w.value = v.value
      BY <2>1, <2>2, <3>1 DEF Agreed
    <3> QED
      BY <1>8, <3>2, <3>3
  <2>3. CASE ~Agreed(members, s)
    <3>1. [field |-> s, values |-> ValuesSeen(members, s)] \in n.conflicts
      BY <1>1, <2>3 DEF Conflicts
    <3> QED
      BY <2>1, <3>1
  <2> QED
    BY <2>2, <2>3
<1> QED
  BY <1>6, <1>7, <1>8 DEF NodeSays, n

(* Every member of a group finds its node.                                 *)
LEMMA NodeOfGroup ==
  ASSUME TypeOK, InputOK, Lists(nodeOrder, Representatives(forest)), NEW o \in NodeOrdinals
  PROVE  /\ Position(nodeOrder, forest.rep[o]) \in DOMAIN nodeOrder
         /\ nodeOrder[Position(nodeOrder, forest.rep[o])] = forest.rep[o]
         /\ NodeSays(MergedNodes(forest, nodeOrder)[Position(nodeOrder, forest.rep[o])], o)
<1> DEFINE r == forest.rep[o]
           k == Position(nodeOrder, r)
<1>1. r \in Representatives(forest) /\ o \in ClassOf(forest, r) /\ ClassOf(forest, r) \subseteq NodeOrdinals
  BY DEF TypeOK, ForestOK, Representatives, ClassOf
<1>2. k \in DOMAIN nodeOrder /\ nodeOrder[k] = r
  BY <1>1, PositionIs DEF Lists
<1>3. MergedNodes(forest, nodeOrder)[k] = MergedNode(ClassOf(forest, r), k - 1)
  BY <1>2 DEF MergedNodes
<1> HIDE DEF r, k
<1>4. NodeSays(MergedNode(ClassOf(forest, r), k - 1), o)
  BY <1>1, MergedNodeSays
<1> QED
  BY <1>2, <1>3, <1>4 DEF r, k

(* A merged node says nothing else.                                        *)
LEMMA MergedNodeOnly ==
  ASSUME InputOK, NEW members \in SUBSET NodeOrdinals, members # {}, NEW id
  PROVE  TakenFrom(MergedNode(members, id), members)
<1> DEFINE n == MergedNode(members, id)
           ids == [m \in members |-> Node(m).ids]
           merged == MergeIdentifiers(members, ids)
<1>1. /\ n.type = Node(Min(members)).type
      /\ n.ids = merged
      /\ n.labels = UNION {Node(m).labels : m \in members}
      /\ n.scalars = [s \in Scalars |-> MergeScalar(members, s)]
      /\ n.conflicts = Conflicts(members)
  BY DEF MergedNode
<1>2. \A m \in members : IsSequence(ids[m]) /\ \A i \in DOMAIN ids[m] : IsIdentifier(ids[m][i])
  BY InputFacts DEF HasIdentifiers
<1>3. members \in SUBSET Nat /\ IsFiniteSet(members)
  BY OrdinalsAre, FS_Subset
<1>4. \A m \in members : ids[m] = Node(m).ids
  OBVIOUS
<1> HIDE DEF n, ids, merged
<1>5. OneOfEach(merged, members, ids)
  BY <1>2, <1>3, MergedIdentifiers DEF merged
<1>6. \E o \in members : n.type = Node(o).type
  BY <1>1, <1>3, LeastIs
<1>7. \A k \in DOMAIN n.ids : \E o \in members : \E i \in DOMAIN Node(o).ids : n.ids[k] = Node(o).ids[i]
  BY <1>1, <1>4, <1>5 DEF OneOfEach
<1>8. ASSUME NEW s, NEW v \in ValuesSeen(members, s)
      PROVE  \E o \in members :
               v = [value |-> Node(o).scalars[s], file |-> allNodes[o].file]
  BY DEF ValuesSeen
<1>9. ASSUME NEW s \in Scalars, n.scalars[s] # None
      PROVE  /\ \E o \in members : Node(o).scalars[s] = n.scalars[s]
             /\ \A o \in members : Node(o).scalars[s] \in {None, n.scalars[s]}
  <2> DEFINE w == CHOOSE u \in ValuesSeen(members, s) : TRUE
  <2>1. n.scalars[s] = MergeScalar(members, s)
    BY <1>1
  <2>2. ValuesSeen(members, s) # {} /\ Agreed(members, s) /\ n.scalars[s] = w.value
    BY <1>9, <2>1 DEF MergeScalar
  <2>3. w \in ValuesSeen(members, s)
    BY <2>2
  <2> HIDE DEF w
  <2>4. \E o \in members : Node(o).scalars[s] = n.scalars[s]
    <3>1. PICK o \in members : w = [value |-> Node(o).scalars[s], file |-> allNodes[o].file]
      BY <1>8, <2>3
    <3> QED
      BY <2>2, <3>1
  <2>5. ASSUME NEW o \in members, Node(o).scalars[s] # None
        PROVE  Node(o).scalars[s] = n.scalars[s]
    <3> DEFINE v == [value |-> Node(o).scalars[s], file |-> allNodes[o].file]
    <3>1. v \in ValuesSeen(members, s)
      BY <2>5 DEF ValuesSeen
    <3>2. v.value = Node(o).scalars[s]
      OBVIOUS
    <3> HIDE DEF v
    <3> QED
      BY <2>2, <2>3, <3>1, <3>2 DEF Agreed
  <2> QED
    BY <2>4, <2>5
<1>10. ASSUME NEW c \in n.conflicts, NEW v \in c.values
       PROVE  \E o \in members :
                v = [value |-> Node(o).scalars[c.field], file |-> allNodes[o].file]
  <2>1. c.values = ValuesSeen(members, c.field)
    BY <1>1 DEF Conflicts
  <2> QED
    BY <1>8, <2>1
<1> QED
  BY <1>1, <1>6, <1>7, <1>9, <1>10 DEF TakenFrom, n

(* The members of the k-th merged node are those of the k-th group.        *)
LEMMA GroupOfNode ==
  ASSUME TypeOK, InputOK, Lists(nodeOrder, Representatives(forest)), NEW k \in DOMAIN nodeOrder
  PROVE  TakenFrom(MergedNodes(forest, nodeOrder)[k], MembersOf(k))
<1> DEFINE M == ClassOf(forest, nodeOrder[k])
<1>1. DOMAIN forest.rep = NodeOrdinals
  BY DEF TypeOK, ForestOK
<1>2. k \in Nat /\ nodeOrder[k] \in Representatives(forest)
  BY DEF Lists
<1>3. M # {} /\ M \in SUBSET NodeOrdinals
  BY <1>1, <1>2 DEF ClassOf, Representatives
<1>4. \A o \in NodeOrdinals : NewId(forest, nodeOrder, o) = k - 1 <=> forest.rep[o] = nodeOrder[k]
  <2> TAKE o \in NodeOrdinals
  <2> DEFINE p == Position(nodeOrder, forest.rep[o])
  <2>1. p \in DOMAIN nodeOrder /\ nodeOrder[p] = forest.rep[o]
    BY NodeOfGroup
  <2>2. NewId(forest, nodeOrder, o) = p - 1 /\ p \in Nat
    BY <2>1 DEF NewId, Lists
  <2> HIDE DEF p
  <2>3. NewId(forest, nodeOrder, o) = k - 1 <=> p = k
    BY <1>2, <2>2
  <2>4. nodeOrder[p] = nodeOrder[k] => p = k
    BY <2>1 DEF Lists
  <2> QED
    BY <2>1, <2>3, <2>4
<1>5. MembersOf(k) = M
  BY <1>1, <1>4 DEF MembersOf, ClassOf
<1>6. MergedNodes(forest, nodeOrder)[k] = MergedNode(M, k - 1)
  BY DEF MergedNodes
<1> HIDE DEF M
<1> QED
  BY <1>3, <1>5, <1>6, MergedNodeOnly

\* Orders and merged nodes depend on the input and the groups alone.
LEMMA NodesStay ==
  ASSUME allNodes' = allNodes
  PROVE  /\ \A f, r : GroupKey(f, r)' = GroupKey(f, r)
         /\ \A f : NodeLess(f)' = NodeLess(f)
         /\ \A f, ord : MergedNodes(f, ord)' = MergedNodes(f, ord)
<1>1. \A o : Node(o)' = Node(o)
  BY DEF Node
<1>2. \A f, r : GroupKey(f, r)' = GroupKey(f, r)
  <2> TAKE f, r
  <2>1. {Keys(Node(o).ids) : o \in ClassOf(f, r)}' = {Keys(Node(o).ids) : o \in ClassOf(f, r)}
    BY <1>1
  <2> QED
    BY <2>1 DEF GroupKey
<1>3. \A f : NodeLess(f)' = NodeLess(f)
  BY <1>2 DEF NodeLess, GroupLess
<1>4. ASSUME NEW members
      PROVE  MergeIdentifiers(members, [o \in members |-> Node(o).ids])'
               = MergeIdentifiers(members, [o \in members |-> Node(o).ids])
  <2>1. [o \in members |-> Node(o).ids]' = [o \in members |-> Node(o).ids]
    BY <1>1
  <2> QED
    BY <2>1
<1>5. \A members, s : ValuesSeen(members, s)' = ValuesSeen(members, s)
  BY <1>1 DEF ValuesSeen
<1>6. \A members, s : MergeScalar(members, s)' = MergeScalar(members, s)
  BY <1>5 DEF MergeScalar, Agreed
<1>7. \A members : Conflicts(members)' = Conflicts(members)
  BY <1>5 DEF Conflicts, Agreed
<1>8. \A members, id : MergedNode(members, id)' = MergedNode(members, id)
  BY <1>1, <1>4, <1>6, <1>7 DEF MergedNode
<1>9. \A f, ord : MergedNodes(f, ord)' = MergedNodes(f, ord)
  BY <1>8 DEF MergedNodes
<1> QED
  BY <1>2, <1>3, <1>9

LEMMA NodesMadeStep ==
  ASSUME MergeInv, NodesMade, [Next]_vars
  PROVE  NodesMade'
<1>0. /\ \A f : NodeLess(f)' = NodeLess(f)
      /\ \A f, ord : MergedNodes(f, ord)' = MergedNodes(f, ord)
  BY InputStep, NodesStay
<1>1. CASE phase' \in NotOrdered
  BY <1>1 DEF NodesMade, NotBuilt
<1>2. CASE OrderNodes
  <2>1. InOrder(GroupOrder(forest), NodeLess(forest), Representatives(forest))
    BY GroupOrderIs DEF MergeInv, TypeOK
  <2>2. nodeOrder' = GroupOrder(forest) /\ forest' = forest /\ phase' = "build_nodes"
    BY <1>2 DEF OrderNodes
  <2> QED
    BY <1>0, <2>1, <2>2 DEF NodesMade, NotBuilt, NotOrdered
<1>3. CASE BuildNodes
  <2>1. /\ phase = "build_nodes" /\ phase' = "match_edges" /\ forest' = forest
        /\ nodeOrder' = nodeOrder /\ nodes' = MergedNodes(forest, nodeOrder)
    BY <1>3 DEF BuildNodes, orders
  <2> QED
    BY <1>0, <2>1 DEF NodesMade, NotOrdered
<1>4. CASE /\ phase \notin NotOrdered /\ (phase \in NotBuilt <=> phase' \in NotBuilt)
           /\ phase' \notin NotOrdered /\ forest' = forest /\ nodeOrder' = nodeOrder /\ nodes' = nodes
  BY <1>0, <1>4 DEF NodesMade
<1>5. \/ phase' \in NotOrdered \/ OrderNodes \/ BuildNodes
      \/ /\ phase \notin NotOrdered /\ (phase \in NotBuilt <=> phase' \in NotBuilt)
         /\ phase' \notin NotOrdered /\ forest' = forest /\ nodeOrder' = nodeOrder /\ nodes' = nodes
  BY DEF vars, orders, results, NotBuilt, NotOrdered, Next, NoInputFiles, Start, MatchNodes,
         NextBucket, ComparePair, NodesCompared, ApplySameAs, MatchEdges, NextEdgeBucket,
         CompareEdges, Assemble, CheckGroupSizes, OrderEdges, BuildEdges, Finish,
         SaltFails, Accept, Reject
<1> QED
  BY <1>1, <1>2, <1>3, <1>4, <1>5

-----------------------------------------------------------------------------
(* Groups of edges, and the order of their keys.                           *)

LEMMA KeysOrdered ==
  ASSUME NEW S, NEW key,
         \A x \in S : DOMAIN key[x] = 1 .. 5 /\ \A i \in 1 .. 5 : key[x][i] \in Text,
         \A x, y \in S : key[x][5] = key[y][5] => x = y
  PROVE  StrictOrder({p \in S \X S : KeyLess(key[p[1]], key[p[2]])}, S)
<1> DEFINE R == {p \in S \X S : KeyLess(key[p[1]], key[p[2]])}
<1>1. \A x, y \in S : <<x, y>> \in R <=>
        \E i \in 1 .. 5 : TextLess(key[x][i], key[y][i])
                            /\ \A j \in 1 .. i - 1 : key[x][j] = key[y][j]
  BY DEF KeyLess
<1> HIDE DEF R
<1>2. ASSUME NEW x \in S PROVE <<x, x>> \notin R
  BY <1>1, TextLessIrreflexive
<1>3. ASSUME NEW x \in S, NEW y \in S, NEW z \in S, <<x, y>> \in R, <<y, z>> \in R
      PROVE  <<x, z>> \in R
  <2>1. PICK i \in 1 .. 5 : TextLess(key[x][i], key[y][i])
                              /\ \A j \in 1 .. i - 1 : key[x][j] = key[y][j]
    BY <1>1, <1>3
  <2>2. PICK k \in 1 .. 5 : TextLess(key[y][k], key[z][k])
                              /\ \A j \in 1 .. k - 1 : key[y][j] = key[z][j]
    BY <1>1, <1>3
  <2>3. CASE i < k
    <3>1. key[y][i] = key[z][i] /\ \A j \in 1 .. i - 1 : key[y][j] = key[z][j]
      BY <2>2, <2>3
    <3> QED
      BY <1>1, <2>1, <3>1
  <2>4. CASE k < i
    <3>1. key[x][k] = key[y][k] /\ \A j \in 1 .. k - 1 : key[x][j] = key[y][j]
      BY <2>1, <2>4
    <3> QED
      BY <1>1, <2>2, <3>1
  <2>5. CASE i = k
    <3>1. TextLess(key[x][i], key[z][i])
      BY <2>1, <2>2, <2>5, TextLessTransitive
    <3>2. \A j \in 1 .. i - 1 : key[x][j] = key[z][j]
      BY <2>1, <2>2, <2>5
    <3> QED
      BY <1>1, <3>1, <3>2
  <2> QED
    BY <2>3, <2>4, <2>5
<1>4. ASSUME NEW x \in S, NEW y \in S, x # y PROVE <<x, y>> \in R \/ <<y, x>> \in R
  <2> DEFINE D == {i \in 1 .. 5 : key[x][i] # key[y][i]}
  <2>1. D \in SUBSET Nat /\ 5 \in D
    BY <1>4
  <2>2. PICK m \in D : \A k \in D : m <= k
    BY <2>1, LeastNatural
  <2>3. m \in 1 .. 5 /\ key[x][m] # key[y][m] /\ \A j \in 1 .. m - 1 : key[x][j] = key[y][j]
    BY <2>2
  <2>4. TextLess(key[x][m], key[y][m]) \/ TextLess(key[y][m], key[x][m])
    BY <2>3, TextLessTotal
  <2> QED
    BY <1>1, <2>3, <2>4
<1>5. StrictOrder(R, S)
  BY <1>2, <1>3, <1>4 DEF StrictOrder
<1> QED
  BY <1>5 DEF R

LEMMA EdgeGroupKeyIs ==
  ASSUME TypeOK, InputOK, NEW f, ForestOK(f, NodeOrdinals), NEW r \in Representatives(edgeForest)
  PROVE  /\ DOMAIN EdgeGroupKey(f, r) = 1 .. 5
         /\ \A i \in 1 .. 5 : EdgeGroupKey(f, r)[i] \in Text
         /\ EdgeGroupKey(f, r)[5] = <<r>>
<1> DEFINE members == ClassOf(edgeForest, r)
           first   == Min(members)
           EndKey(id) == IF Candidates(first, id) = {} THEN <<>>
                         ELSE GroupKey(f, f.rep[Max(Candidates(first, id))])
           cids == [e \in members |-> {CanonicalId(External(Edge(e).ids)[i]) :
                                         i \in DOMAIN External(Edge(e).ids)}]
           lowest == MinText(UNION {cids[e] : e \in members})
           type == <<Position(EdgeTypeOrder, Edge(first).type)>>
<1>1. EdgeGroupKey(f, r)
        = <<EndKey(Edge(first).source), EndKey(Edge(first).target), type, lowest, <<r>>>>
  BY ZenonT(60) DEF EdgeGroupKey
<1>2. members \in SUBSET EdgeOrdinals /\ r \in members /\ r \in Nat
      /\ EdgeOrdinals \in SUBSET Nat /\ IsFiniteSet(members)
  <2>1. members \in SUBSET EdgeOrdinals /\ r \in members /\ r \in EdgeOrdinals
    BY DEF TypeOK, ForestOK, Representatives, ClassOf
  <2>2. EdgeOrdinals \in SUBSET Nat /\ IsFiniteSet(EdgeOrdinals)
    BY OrdinalsAre
  <2> QED
    BY <2>1, <2>2, FS_Subset
<1> HIDE DEF members
<1>3. first \in EdgeOrdinals
  BY <1>2, LeastIs
<1>4. \A id : EndKey(id) \in Text
  BY GroupKeyIs DEF Text
<1>5. type \in Text
  <2>1. Position(EdgeTypeOrder, Edge(first).type) \in DOMAIN EdgeTypeOrder
    BY <1>3, InputFacts, PositionIs DEF IsEdge
  <2>2. Position(EdgeTypeOrder, Edge(first).type) \in Nat
    BY <2>1 DEF EdgeTypeOrder
  <2> QED
    BY <2>2 DEF Text
<1>6. ASSUME NEW e \in members PROVE IsFiniteSet(cids[e]) /\ cids[e] \in SUBSET Text
  <2> DEFINE ext == External(Edge(e).ids)
             c == [i \in DOMAIN ext |-> CanonicalId(ext[i])]
  <2>1. HasIdentifiers(Edge(e))
    BY <1>2, <1>6, InputFacts DEF IsEdge
  <2>2. /\ IsSequence(ext)
        /\ \A i \in DOMAIN ext : IsIdentifier(ext[i])
    BY <2>1, ExternalIs DEF HasIdentifiers
  <2>3. cids[e] = {c[i] : i \in DOMAIN ext}
    BY <1>6
  <2> HIDE DEF ext
  <2>4. IsFiniteSet(DOMAIN ext)
    BY <2>2, FS_Interval DEF IsSequence
  <2>5. \A i \in DOMAIN ext : c[i] \in Text
    BY <2>2, CanonicalIdIs
  <2> HIDE DEF c, cids
  <2>6. IsFiniteSet({c[i] : i \in DOMAIN ext})
    BY <2>4, FiniteValues
  <2> QED
    BY <2>3, <2>5, <2>6
<1> HIDE DEF cids
<1>7. lowest \in Text
  <2>1. IsFiniteSet(members) /\ \A e \in members : IsFiniteSet(cids[e]) /\ cids[e] \in SUBSET Text
    BY <1>2, <1>6
  <2> HIDE DEF first, type
  <2>2. MinText(UNION {cids[e] : e \in members}) \in Text
    BY <2>1, MinTextOfGroup
  <2> QED
    BY <2>2
<1>8. <<r>> \in Text
  BY <1>2 DEF Text
<1> HIDE DEF first, lowest, type, EndKey
<1> QED
  BY <1>1, <1>4, <1>5, <1>7, <1>8

(* Each group of edges has one place in the order of the output.           *)
LEMMA EdgeGroupOrderIs ==
  ASSUME TypeOK, InputOK, NEW f, ForestOK(f, NodeOrdinals)
  PROVE  InOrder(EdgeGroupOrder(f), EdgeLess(f), Representatives(edgeForest))
<1> DEFINE S == Representatives(edgeForest)
           key == [r \in S |-> EdgeGroupKey(f, r)]
           R == {p \in S \X S : KeyLess(key[p[1]], key[p[2]])}
           pick(i) == CHOOSE e \in S : Cardinality({d \in S : KeyLess(key[d], key[e])}) = i - 1
           order == [i \in 1 .. Cardinality(S) |-> pick(i)]
<1>1. S \in SUBSET Nat /\ IsFiniteSet(S)
  <2>1. S \in SUBSET EdgeOrdinals
    BY DEF Representatives, TypeOK, ForestOK
  <2> QED
    BY <2>1, OrdinalsAre, FS_Subset
<1>2. \A r \in S : key[r] = EdgeGroupKey(f, r)
  OBVIOUS
<1>3. EdgeGroupOrder(f) = order
  BY DEF EdgeGroupOrder, SortedBy
<1>4. \A d, e \in S : <<d, e>> \in R <=> KeyLess(key[d], key[e])
  OBVIOUS
<1>5. DOMAIN order = 1 .. Cardinality(S) /\ order = [i \in DOMAIN order |-> order[i]]
  <2> HIDE DEF pick
  <2> QED
    OBVIOUS
<1>6. StrictOrder(R, S) /\ R = EdgeLess(f)
  <2>1. R = EdgeLess(f)
    <3>1. R \in SUBSET (S \X S)
      OBVIOUS
    <3> HIDE DEF key, R
    <3> QED
      BY <1>2, <1>4, <3>1 DEF EdgeLess
  <2> HIDE DEF key
  <2>2. \A x \in S : /\ DOMAIN key[x] = 1 .. 5 /\ \A i \in 1 .. 5 : key[x][i] \in Text
                     /\ key[x][5] = <<x>>
    BY <1>2, EdgeGroupKeyIs
  <2>3. \A x, y \in S : key[x][5] = key[y][5] => x = y
    BY <2>2
  <2> HIDE DEF S
  <2> QED
    BY <2>1, <2>2, <2>3, KeysOrdered
<1> HIDE DEF S, R, key
<1>7. \A e \in S : Cardinality({d \in S : KeyLess(key[d], key[e])}) = RankIn(R, S, e)
  <2> TAKE e \in S
  <2>1. {d \in S : KeyLess(key[d], key[e])} = Below(R, S, e)
    BY <1>4 DEF Below
  <2> QED
    BY <2>1 DEF RankIn
<1>8. \A i \in 1 .. Cardinality(S) :
        (\E e \in S : RankIn(R, S, e) = i - 1) => order[i] \in S /\ RankIn(R, S, order[i]) = i - 1
  BY <1>7
<1> HIDE DEF order
<1>9. InOrder(order, R, S)
  BY <1>1, <1>5, <1>6, <1>8, InOrderByRank
<1> QED
  BY <1>3, <1>6, <1>9 DEF S

-----------------------------------------------------------------------------
(* Edges that are put together say the same.                               *)

LEMMA UnnamedIs ==
  ASSUME InputOK, NEW e \in EdgeOrdinals
  PROVE  Unnamed(e) <=> \A i \in DOMAIN Edge(e).ids : Edge(e).ids[i].scheme = "internal"
BY InputFacts, ExternalEmpty DEF Unnamed, IsEdge, HasIdentifiers

LEMMA SameKeyIs ==
  ASSUME NEW d, NEW e, SameKey(d, e)
  PROVE  /\ Edge(d).type = Edge(e).type /\ Edge(d).type # "same_as"
         /\ forest.rep[Source(d)] = forest.rep[Source(e)]
         /\ forest.rep[Target(d)] = forest.rep[Target(e)]
         /\ Resolves(d) /\ Resolves(e)
BY DEF SameKey, HasEdgeKey, EdgeKey

LEMMA AlikeSymmetric ==
  ASSUME NEW d, NEW e, Alike(d, e)
  PROVE  Alike(e, d)
<1>1. CASE d = e
  BY <1>1 DEF Alike
<1>2. CASE d # e
  <2>1. SameKey(d, e) /\ (Unnamed(d) <=> Unnamed(e))
        /\ (Unnamed(e) => \A name \in IdentityProperties(Edge(e).type) :
              Property(Edge(d).props, name) = Property(Edge(e).props, name))
    BY <1>2 DEF Alike
  <2>2. SameKey(e, d) /\ Edge(d).type = Edge(e).type
    BY <2>1, SameKeyIs DEF SameKey
  <2> QED
    BY <2>1, <2>2 DEF Alike
<1> QED
  BY <1>1, <1>2

LEMMA AlikeTransitive ==
  ASSUME NEW c, NEW d, NEW e, Alike(c, d), Alike(d, e)
  PROVE  Alike(c, e)
<1>1. CASE c = d \/ d = e
  BY <1>1
<1>2. CASE c # d /\ d # e
  <2>1. SameKey(c, d) /\ (Unnamed(c) <=> Unnamed(d))
        /\ (Unnamed(d) => \A name \in IdentityProperties(Edge(d).type) :
              Property(Edge(c).props, name) = Property(Edge(d).props, name))
    BY <1>2 DEF Alike
  <2>2. SameKey(d, e) /\ (Unnamed(d) <=> Unnamed(e))
        /\ (Unnamed(e) => \A name \in IdentityProperties(Edge(e).type) :
              Property(Edge(d).props, name) = Property(Edge(e).props, name))
    BY <1>2 DEF Alike
  <2>3. SameKey(c, e) /\ Edge(d).type = Edge(e).type
    BY <2>1, <2>2, SameKeyIs DEF SameKey
  <2>4. Unnamed(e) => \A name \in IdentityProperties(Edge(e).type) :
          Property(Edge(c).props, name) = Property(Edge(e).props, name)
    BY <2>1, <2>2, <2>3
  <2> QED
    BY <2>1, <2>2, <2>3, <2>4 DEF Alike
<1> QED
  BY <1>1, <1>2

(* Edges that match either both have external identifiers, or neither has  *)
(* and their identity properties agree.                                    *)
LEMMA MatchesAreAlike ==
  ASSUME NEW d, NEW e, SameKey(d, e), EdgesMatch(Edge(d), Edge(e))
  PROVE  Alike(d, e)
<1>1. CASE Unnamed(d) /\ Unnamed(e)
  <2>1. IdentityPropertiesMatch(Edge(d).type, Edge(d).props, Edge(e).props)
        /\ Edge(d).type = Edge(e).type
    BY <1>1 DEF EdgesMatch, Unnamed
  <2> QED
    BY <1>1, <2>1 DEF Alike, IdentityPropertiesMatch
<1>2. CASE ~(Unnamed(d) /\ Unnamed(e))
  <2>1. AnyMatch(External(Edge(d).ids), External(Edge(e).ids))
    BY <1>2 DEF EdgesMatch, Unnamed
  <2>2. External(Edge(d).ids) # <<>> /\ External(Edge(e).ids) # <<>>
    BY <2>1 DEF AnyMatch
  <2> QED
    BY <2>2 DEF Alike, Unnamed
<1> QED
  BY <1>1, <1>2

LEMMA FirstOfGroup ==
  ASSUME TypeOK, InputOK, EdgesGrouped, NEW r \in Representatives(edgeForest)
  PROVE  /\ ClassOf(edgeForest, r) \in SUBSET EdgeOrdinals
         /\ ClassOf(edgeForest, r) \in SUBSET Nat /\ IsFiniteSet(ClassOf(edgeForest, r))
         /\ Min(ClassOf(edgeForest, r)) \in ClassOf(edgeForest, r)
         /\ \A e \in ClassOf(edgeForest, r) : Alike(e, Min(ClassOf(edgeForest, r)))
<1> DEFINE M == ClassOf(edgeForest, r)
<1>1. M \in SUBSET EdgeOrdinals /\ r \in M
  BY DEF TypeOK, ForestOK, Representatives, ClassOf
<1>2. \A d, e \in M : Together(edgeForest, d, e)
  BY DEF ClassOf, Together
<1> HIDE DEF M
<1>3. M \in SUBSET Nat /\ IsFiniteSet(M)
  BY <1>1, OrdinalsAre, FS_Subset
<1>4. Min(M) \in M
  BY <1>1, <1>3, LeastIs
<1>5. \A e \in M : Alike(e, Min(M))
  BY <1>1, <1>2, <1>4 DEF EdgesGrouped
<1> QED
  BY <1>1, <1>3, <1>4, <1>5 DEF M

LEMMA IdentityPropertiesTyped ==
  ASSUME NEW type
  PROVE  IdentityProperties(type) \subseteq TypedProperties
<1> DEFINE P == TypedProperties
<1>1. /\ {"percentage", "direct"} \subseteq P /\ {"control_type"} \subseteq P
      /\ {"consolidation_basis"} \subseteq P /\ {"event_type", "effective_date"} \subseteq P
      /\ {"control_type", "percentage"} \subseteq P /\ {"commodity", "contract_ref"} \subseteq P
      /\ {"commodity"} \subseteq P /\ {"service_type"} \subseteq P /\ {"scope"} \subseteq P
      /\ {} \subseteq P
  BY DEF TypedProperties
<1> HIDE DEF P
<1>2. IdentityProperties(type) \in
        {{"percentage", "direct"}, {"control_type"}, {"consolidation_basis"},
         {"event_type", "effective_date"}, {"control_type", "percentage"},
         {"commodity", "contract_ref"}, {"commodity"}, {"service_type"}, {"scope"}, {}}
  BY DEF IdentityProperties
<1>3. IdentityProperties(type) \subseteq P
  BY <1>1, <1>2
<1> QED
  BY <1>3 DEF P

(* A merged edge says what the edges of its group say.                     *)
LEMMA MergedEdgeSays ==
  ASSUME TypeOK, InputOK, EdgesGrouped, NEW r \in Representatives(edgeForest), NEW id,
         NEW members, members = ClassOf(edgeForest, r), NEW d,
         d = [MergedEdge(forest, nodeOrder, members) EXCEPT !.id = id]
  PROVE  EdgeSays(d, members)
<1> DEFINE f == Min(members)
           x == Edge(f)
           y == RewrittenEdge(forest, nodeOrder, f)
           m == MergedEdge(forest, nodeOrder, members)
<1>1. /\ members \in SUBSET EdgeOrdinals /\ members \in SUBSET Nat /\ IsFiniteSet(members)
      /\ f \in members /\ \A e \in members : Alike(e, f)
  BY FirstOfGroup
<1>2. IsEdge(x)
  BY <1>1, InputFacts
<1> HIDE DEF f
<1>3. /\ DOMAIN y = DOMAIN x /\ y.type = x.type /\ y.ids = x.ids /\ y.props = x.props
      /\ y.source = NewId(forest, nodeOrder, Source(f))
      /\ y.target = NewId(forest, nodeOrder, Target(f))
  BY <1>2 DEF RewrittenEdge, IsEdge
<1>4. CASE x.type = "same_as"
  <2>1. m = y
    BY <1>4 DEF MergedEdge, f
  <2>2. \A e \in members : e = f
    BY <1>1, <1>4, SameKeyIs DEF Alike
  <2> HIDE DEF x, y, m
  <2>3. d.type = y.type /\ d.ids = y.ids /\ d.props = y.props
        /\ d.source = y.source /\ d.target = y.target
    BY <2>1 DEF m
  <2>4. HasIdentifiers(d)
    BY <1>2, <1>3, <2>3 DEF HasIdentifiers, IsEdge
  <2> QED
    BY <1>3, <2>2, <2>3, <2>4 DEF EdgeSays, f, x
<1>5. CASE x.type # "same_as"
  <2> DEFINE ids == [e \in members |-> Edge(e).ids]
             props == Restrict(x.props, DOMAIN x.props \cap TypedProperties)
             merged == MergeIdentifiers(members, ids)
             labels == UNION {Edge(e).labels : e \in members}
  <2>1. m = [y EXCEPT !.ids = merged, !.labels = labels, !.props = props, !.extra = NoProperties]
    BY <1>5 DEF MergedEdge, f
  <2>2. \A e \in members : IsSequence(ids[e]) /\ \A i \in DOMAIN ids[e] : IsIdentifier(ids[e][i])
    BY <1>1, InputFacts DEF IsEdge, HasIdentifiers
  <2>3. ASSUME NEW name \in IdentityProperties(x.type)
        PROVE  Property(props, name) = Property(x.props, name)
    <3>1. name \in TypedProperties
      BY IdentityPropertiesTyped
    <3> QED
      BY <3>1 DEF Property, Restrict
  <2>4. \A e \in members : ids[e] = Edge(e).ids
    OBVIOUS
  <2>5. {"id", "type", "source", "target", "ids", "labels", "props", "extra"} \subseteq DOMAIN y
    BY <1>2, <1>3 DEF IsEdge
  <2> HIDE DEF x, y, ids, props, merged, labels
  <2>6. /\ m.ids = merged /\ m.props = props /\ m.type = y.type
        /\ m.source = y.source /\ m.target = y.target
    BY <2>1, <2>5
  <2>7. OneOfEach(merged, members, ids)
    BY <1>1, <2>2, MergedIdentifiers DEF merged
  <2>8. ASSUME NEW e \in members, NEW i \in DOMAIN ids[e]
        PROVE  \E k \in DOMAIN merged : CanonicalId(merged[k]) = CanonicalId(ids[e][i])
    <3> SUFFICES ASSUME {k \in DOMAIN merged : CanonicalId(merged[k]) = CanonicalId(ids[e][i])} = {}
                 PROVE  FALSE
      OBVIOUS
    <3>1. Cardinality({k \in DOMAIN merged : CanonicalId(merged[k]) = CanonicalId(ids[e][i])}) = 0
      BY FS_EmptySet
    <3> QED
      BY <2>7, <3>1 DEF OneOfEach
  <2> HIDE DEF m
  <2>9. d.type = m.type /\ d.ids = m.ids /\ d.props = m.props
        /\ d.source = m.source /\ d.target = m.target
    BY DEF m
  <2>10. HasIdentifiers(d)
    BY <2>6, <2>7, <2>9 DEF HasIdentifiers, OneOfEach
  <2>11. \A e \in members : \A i \in DOMAIN Edge(e).ids :
           \E k \in DOMAIN d.ids : CanonicalId(d.ids[k]) = CanonicalId(Edge(e).ids[i])
    BY <2>4, <2>6, <2>8, <2>9
  <2> QED
    BY <1>3, <2>3, <2>6, <2>9, <2>10, <2>11 DEF EdgeSays, f, x
<1> QED
  BY <1>4, <1>5

-----------------------------------------------------------------------------
(* The steps of the edge passes.                                           *)

LEMMA EdgeFactsStay ==
  ASSUME allNodes' = allNodes, allEdges' = allEdges, forest' = forest
  PROVE  /\ \A d, e : SameKey(d, e)' <=> SameKey(d, e)
         /\ \A d, e : Alike(d, e)' <=> Alike(d, e)
         /\ \A key : EdgeBucket(key)' = EdgeBucket(key)
         /\ \A e : Resolves(e)' <=> Resolves(e)
<1>1. /\ NodeOrdinals' = NodeOrdinals /\ EdgeOrdinals' = EdgeOrdinals
      /\ \A o : Node(o)' = Node(o) /\ Edge(o)' = Edge(o)
  BY InputStays
<1>2. \A e, id : Candidates(e, id)' = Candidates(e, id)
  BY <1>1 DEF Candidates
<1>3. \A e : Source(e)' = Source(e) /\ Target(e)' = Target(e) /\ (Resolves(e)' <=> Resolves(e))
  BY <1>1, <1>2 DEF Source, Target, Resolves
<1>4. \A e : (HasEdgeKey(e)' <=> HasEdgeKey(e)) /\ EdgeKey(forest, e)' = EdgeKey(forest, e)
  BY <1>1, <1>3 DEF HasEdgeKey, EdgeKey
<1>5. \A d, e : SameKey(d, e)' <=> SameKey(d, e)
  BY <1>4 DEF SameKey
<1>6. \A e : Unnamed(e)' <=> Unnamed(e)
  BY <1>1 DEF Unnamed
<1>7. \A d, e : Alike(d, e)' <=> Alike(d, e)
  BY <1>1, <1>5, <1>6 DEF Alike
<1>8. \A key : EdgeBucket(key)' = EdgeBucket(key)
  BY <1>1, <1>4 DEF EdgeBucket
<1> QED
  BY <1>3, <1>5, <1>7, <1>8

LEMMA BucketMembersAgree ==
  ASSUME NEW key, NEW d \in EdgeBucket(key), NEW e \in EdgeBucket(key)
  PROVE  SameKey(d, e) /\ d \in EdgeOrdinals /\ e \in EdgeOrdinals
BY DEF EdgeBucket, SameKey

\* What a step leaves alone before, between and after the edge passes.
LEMMA EdgePassSteps ==
  ASSUME [Next]_vars, phase' \notin NotBuilt,
         ~BuildNodes, ~(\E key \in todo : NextEdgeBucket(key)), ~CompareEdges,
         ~OrderEdges, ~BuildEdges
  PROVE  /\ phase \notin NotBuilt /\ (phase' = "match_edges" <=> phase = "match_edges")
         /\ (phase' \in NotGrouped <=> phase \in NotGrouped)
         /\ (phase' \in NotFinished <=> phase \in NotFinished)
         /\ UNCHANGED <<todo, pairs, forest, edgeForest, nodeOrder, edgeOrder, edges>>
BY DEF vars, orders, results, NotFinished, NotGrouped, NotBuilt, NotOrdered, Next, NoInputFiles,
       Start, MatchNodes, NextBucket, ComparePair, NodesCompared, ApplySameAs, MatchEdges,
       Assemble, CheckGroupSizes, OrderNodes, Finish, SaltFails, Accept, Reject

LEMMA EdgesGroupedStep ==
  ASSUME MergeInv, EdgesGrouped, [Next]_vars
  PROVE  EdgesGrouped'
<1>0. /\ allNodes' = allNodes /\ allEdges' = allEdges /\ EdgeOrdinals' = EdgeOrdinals
      /\ EdgeOrdinals \subseteq Int /\ EdgeOrdinals \in SUBSET Nat
  BY InputStep, InputStays, OrdinalsAre DEF MergeInv
<1>1. CASE phase' \in NotBuilt
  <2>1. phase \in NotBuilt /\ edgeForest' = edgeForest /\ phase' # "match_edges"
    BY <1>1 DEF NotBuilt, NotOrdered, vars, orders, results, Next, NoInputFiles, Start, MatchNodes,
         NextBucket, ComparePair, NodesCompared, ApplySameAs, MatchEdges, NextEdgeBucket,
         CompareEdges, Assemble, CheckGroupSizes, OrderNodes, BuildNodes, OrderEdges, BuildEdges,
         Finish, SaltFails, Accept, Reject
  <2>2. edgeForest' = NewForest(EdgeOrdinals)
    BY <2>1 DEF EdgesGrouped
  <2>3. \A d, e \in EdgeOrdinals : Together(edgeForest', d, e) => d = e
    BY <2>2, NewForestIs DEF Together
  <2>4. \A d, e \in EdgeOrdinals : Together(edgeForest', d, e) => Alike(d, e)'
    BY <2>3 DEF Alike
  <2> QED
    BY <1>0, <2>1, <2>2, <2>4 DEF EdgesGrouped
<1>2. CASE BuildNodes
  <2>1. /\ phase = "build_nodes" /\ phase' = "match_edges"
        /\ UNCHANGED <<forest, edgeForest, pairs>>
    BY <1>2 DEF BuildNodes
  <2>2. pairs' = {}
    BY <2>1 DEF MergeInv, WorkOK
  <2>3. \A d, e : Alike(d, e)' <=> Alike(d, e)
    BY <1>0, <2>1, EdgeFactsStay
  <2> QED
    BY <1>0, <2>1, <2>2, <2>3 DEF EdgesGrouped, NotBuilt, NotOrdered
<1>3. ASSUME NEW key \in todo, NextEdgeBucket(key) PROVE EdgesGrouped'
  <2>1. /\ phase = "match_edges" /\ phase' = "match_edges" /\ pairs' = PairsOf(EdgeBucket(key))
        /\ UNCHANGED <<forest, edgeForest>>
    BY <1>3 DEF NextEdgeBucket
  <2>2. \A p \in pairs' : SameKey(p[1], p[2])
    BY <2>1, BucketMembersAgree DEF PairsOf
  <2>3. /\ \A d, e : Alike(d, e)' <=> Alike(d, e)
        /\ \A d, e : SameKey(d, e)' <=> SameKey(d, e)
    BY <1>0, <2>1, EdgeFactsStay
  <2> QED
    BY <1>0, <2>1, <2>2, <2>3 DEF EdgesGrouped, NotBuilt, NotOrdered
<1>4. CASE CompareEdges
  <2>1. /\ phase = "match_edges" /\ phase' = "match_edges" /\ pairs' = pairs \ {FirstPair}
        /\ pairs # {} /\ forest' = forest
        /\ edgeForest' = IF EdgesMatch(Edge(FirstPair[1]), Edge(FirstPair[2]))
                         THEN Unite(edgeForest, FirstPair[1], FirstPair[2]) ELSE edgeForest
    BY <1>4 DEF CompareEdges
  <2>2. FirstPair \in pairs /\ FirstPair[1] \in EdgeOrdinals /\ FirstPair[2] \in EdgeOrdinals
    <3>1. pairs \in SUBSET (EdgeOrdinals \X EdgeOrdinals)
      BY <2>1 DEF MergeInv, TypeOK
    <3>2. pairs \in SUBSET (Nat \X Nat)
      BY <1>0, <3>1
    <3>3. FirstPair \in pairs
      BY <2>1, <3>2, FirstPairIs
    <3> QED
      BY <3>1, <3>3
  <2>3. /\ \A d, e : Alike(d, e)' <=> Alike(d, e)
        /\ \A d, e : SameKey(d, e)' <=> SameKey(d, e)
    BY <1>0, <2>1, EdgeFactsStay
  <2>4. ASSUME NEW d \in EdgeOrdinals, NEW e \in EdgeOrdinals, Together(edgeForest', d, e)
        PROVE  Alike(d, e)
    <3>1. CASE ~EdgesMatch(Edge(FirstPair[1]), Edge(FirstPair[2]))
      BY <2>1, <2>4, <3>1 DEF EdgesGrouped
    <3>2. CASE EdgesMatch(Edge(FirstPair[1]), Edge(FirstPair[2]))
      <4> DEFINE a == FirstPair[1]
                 b == FirstPair[2]
      <4>1. SameKey(a, b) /\ a \in EdgeOrdinals /\ b \in EdgeOrdinals /\ EdgesMatch(Edge(a), Edge(b))
            /\ Together(Unite(edgeForest, a, b), d, e)
        BY <2>1, <2>2, <2>4, <3>2 DEF EdgesGrouped
      <4>2. ForestOK(edgeForest, EdgeOrdinals)
        BY DEF MergeInv, TypeOK
      <4> HIDE DEF a, b
      <4>3. Alike(a, b) /\ Alike(b, a)
        BY <4>1, MatchesAreAlike, AlikeSymmetric
      <4>4. \/ Together(edgeForest, d, e)
            \/ Together(edgeForest, d, a) /\ Together(edgeForest, e, b)
            \/ Together(edgeForest, d, b) /\ Together(edgeForest, e, a)
        BY <1>0, <4>1, <4>2, UniteOnly
      <4>5. \/ Alike(d, e) \/ (Alike(d, a) /\ Alike(e, b)) \/ (Alike(d, b) /\ Alike(e, a))
        BY <4>1, <4>4 DEF EdgesGrouped
      <4> QED
        BY <4>3, <4>5, AlikeSymmetric, AlikeTransitive
    <3> QED
      BY <3>1, <3>2
  <2>5. \A p \in pairs' : SameKey(p[1], p[2])
    BY <2>1 DEF EdgesGrouped
  <2> QED
    BY <1>0, <2>1, <2>3, <2>4, <2>5 DEF EdgesGrouped, NotBuilt, NotOrdered
<1>5. CASE OrderEdges \/ BuildEdges
  <2>1. /\ phase' \notin NotBuilt /\ phase' # "match_edges"
        /\ UNCHANGED <<forest, edgeForest>>
    BY <1>5 DEF OrderEdges, BuildEdges, NotBuilt, NotOrdered
  <2>2. \A d, e : Alike(d, e)' <=> Alike(d, e)
    BY <1>0, <2>1, EdgeFactsStay
  <2> QED
    BY <1>0, <2>1, <2>2 DEF EdgesGrouped
<1>6. CASE /\ phase' \notin NotBuilt /\ ~BuildNodes /\ ~(\E key \in todo : NextEdgeBucket(key))
           /\ ~CompareEdges /\ ~OrderEdges /\ ~BuildEdges
  <2>1. /\ phase \notin NotBuilt /\ (phase' = "match_edges" <=> phase = "match_edges")
        /\ UNCHANGED <<pairs, forest, edgeForest>>
    BY <1>6, EdgePassSteps
  <2>2. /\ \A d, e : Alike(d, e)' <=> Alike(d, e)
        /\ \A d, e : SameKey(d, e)' <=> SameKey(d, e)
    BY <1>0, <2>1, EdgeFactsStay
  <2> QED
    BY <1>0, <1>6, <2>1, <2>2 DEF EdgesGrouped
<1> QED
  BY <1>1, <1>2, <1>3, <1>4, <1>5, <1>6

LEMMA EdgesSettledStep ==
  ASSUME MergeInv, EdgesSettled, [Next]_vars
  PROVE  EdgesSettled'
<1>0. /\ allNodes' = allNodes /\ allEdges' = allEdges /\ EdgeOrdinals' = EdgeOrdinals
      /\ \A e : Edge(e)' = Edge(e)
      /\ EdgeOrdinals \subseteq Int /\ EdgeOrdinals \in SUBSET Nat /\ IsFiniteSet(EdgeOrdinals)
  BY InputStep, InputStays, OrdinalsAre DEF MergeInv
<1>1. CASE phase' \in NotBuilt
  BY <1>1 DEF EdgesSettled, NotGrouped, NotBuilt, NotOrdered, Matching
<1>2. CASE BuildNodes
  <2>1. /\ phase' = "match_edges" /\ forest' = forest
        /\ todo' = {key \in {EdgeKey(forest, e) : e \in {d \in EdgeOrdinals : HasEdgeKey(d)}} :
                     Cardinality(EdgeBucket(key)) > 1}
    BY <1>2 DEF BuildNodes
  <2>2. /\ \A d, e : SameKey(d, e)' <=> SameKey(d, e)
        /\ \A key : EdgeBucket(key)' = EdgeBucket(key)
    BY <1>0, <2>1, EdgeFactsStay
  <2>3. ASSUME NEW d \in EdgeOrdinals, NEW e \in EdgeOrdinals, d < e, SameKey(d, e)
        PROVE  \E key \in todo' : d \in EdgeBucket(key)' /\ e \in EdgeBucket(key)'
    <3> DEFINE key == EdgeKey(forest, d)
    <3>1. HasEdgeKey(d) /\ d \in EdgeBucket(key) /\ e \in EdgeBucket(key)
      BY <2>3 DEF SameKey, EdgeBucket
    <3>2. EdgeBucket(key) \in SUBSET EdgeOrdinals
      BY DEF EdgeBucket
    <3>3. key \in {EdgeKey(forest, c) : c \in {b \in EdgeOrdinals : HasEdgeKey(b)}}
      BY <3>1
    <3> HIDE DEF key
    <3>4. Cardinality(EdgeBucket(key)) > 1
      <4>1. IsFiniteSet(EdgeBucket(key)) /\ d # e
        BY <1>0, <2>3, <3>2, FS_Subset
      <4> QED
        BY <3>1, <4>1, TwoElements
    <3> QED
      BY <2>1, <2>2, <3>1, <3>3, <3>4
  <2> QED
    BY <1>0, <2>1, <2>2, <2>3 DEF EdgesSettled, NotGrouped, Matching
<1>3. ASSUME NEW key \in todo, NextEdgeBucket(key) PROVE EdgesSettled'
  <2>1. /\ phase = "match_edges" /\ phase' = "match_edges" /\ pairs' = PairsOf(EdgeBucket(key))
        /\ pairs = {} /\ todo' = todo \ {key} /\ UNCHANGED <<forest, edgeForest>>
    BY <1>3 DEF NextEdgeBucket
  <2>2. /\ \A d, e : SameKey(d, e)' <=> SameKey(d, e)
        /\ \A k : EdgeBucket(k)' = EdgeBucket(k)
    BY <1>0, <2>1, EdgeFactsStay
  <2>3. ASSUME NEW d \in EdgeOrdinals, NEW e \in EdgeOrdinals, Matching(d, e)
        PROVE  \/ Together(edgeForest', d, e)
               \/ <<d, e>> \in pairs'
               \/ \E k \in todo' : d \in EdgeBucket(k)' /\ e \in EdgeBucket(k)'
    <3>1. \/ Together(edgeForest, d, e)
          \/ \E k \in todo : d \in EdgeBucket(k) /\ e \in EdgeBucket(k)
      BY <2>1, <2>3 DEF EdgesSettled, Matching
    <3>2. CASE Together(edgeForest, d, e)
      BY <2>1, <3>2
    <3>3. CASE \E k \in todo : d \in EdgeBucket(k) /\ e \in EdgeBucket(k)
      <4>1. PICK k \in todo : d \in EdgeBucket(k) /\ e \in EdgeBucket(k)
        BY <3>3
      <4>2. CASE k = key
        BY <2>1, <2>3, <4>1, <4>2 DEF PairsOf, Matching
      <4>3. CASE k # key
        BY <2>1, <2>2, <4>1, <4>3
      <4> QED
        BY <4>2, <4>3
    <3> QED
      BY <3>1, <3>2, <3>3
  <2> QED
    BY <1>0, <2>1, <2>2, <2>3 DEF EdgesSettled, NotGrouped, Matching
<1>4. CASE CompareEdges
  <2>1. /\ phase = "match_edges" /\ phase' = "match_edges" /\ pairs' = pairs \ {FirstPair}
        /\ pairs # {} /\ UNCHANGED <<forest, todo>>
        /\ edgeForest' = IF EdgesMatch(Edge(FirstPair[1]), Edge(FirstPair[2]))
                         THEN Unite(edgeForest, FirstPair[1], FirstPair[2]) ELSE edgeForest
    BY <1>4 DEF CompareEdges
  <2>2. FirstPair[1] \in EdgeOrdinals /\ FirstPair[2] \in EdgeOrdinals
    <3>1. pairs \in SUBSET (EdgeOrdinals \X EdgeOrdinals)
      BY <2>1 DEF MergeInv, TypeOK
    <3>2. pairs \in SUBSET (Nat \X Nat)
      BY <1>0, <3>1
    <3>3. FirstPair \in pairs
      BY <2>1, <3>2, FirstPairIs
    <3> QED
      BY <3>1, <3>3
  <2>3. /\ \A d, e : SameKey(d, e)' <=> SameKey(d, e)
        /\ \A k : EdgeBucket(k)' = EdgeBucket(k)
    BY <1>0, <2>1, EdgeFactsStay
  <2>4. ForestOK(edgeForest, EdgeOrdinals)
    BY DEF MergeInv, TypeOK
  <2>5. ASSUME NEW d \in EdgeOrdinals, NEW e \in EdgeOrdinals, Together(edgeForest, d, e)
        PROVE  Together(edgeForest', d, e)
    BY <1>0, <2>1, <2>2, <2>4, <2>5, UniteKeeps
  <2>6. ASSUME NEW d \in EdgeOrdinals, NEW e \in EdgeOrdinals, Matching(d, e)
        PROVE  \/ Together(edgeForest', d, e)
               \/ <<d, e>> \in pairs'
               \/ \E k \in todo' : d \in EdgeBucket(k)' /\ e \in EdgeBucket(k)'
    <3>1. \/ Together(edgeForest, d, e) \/ <<d, e>> \in pairs
          \/ \E k \in todo : d \in EdgeBucket(k) /\ e \in EdgeBucket(k)
      BY <2>1, <2>6 DEF EdgesSettled, Matching
    <3>2. CASE <<d, e>> = FirstPair
      <4>1. FirstPair[1] = d /\ FirstPair[2] = e
        BY <3>2
      <4>2. edgeForest' = Unite(edgeForest, d, e)
        BY <2>1, <2>6, <4>1 DEF Matching
      <4> QED
        BY <1>0, <2>4, <4>2, UniteKeeps
    <3>3. CASE <<d, e>> # FirstPair
      BY <2>1, <2>3, <2>5, <3>1, <3>3
    <3> QED
      BY <3>2, <3>3
  <2> QED
    BY <1>0, <2>1, <2>3, <2>6 DEF EdgesSettled, NotGrouped, Matching
<1>5. CASE OrderEdges
  <2>1. /\ phase = "match_edges" /\ phase' = "build_edges" /\ pairs = {} /\ todo = {}
        /\ UNCHANGED <<forest, edgeForest>>
    BY <1>5 DEF OrderEdges
  <2>2. \A d, e : SameKey(d, e)' <=> SameKey(d, e)
    BY <1>0, <2>1, EdgeFactsStay
  <2> QED
    BY <1>0, <2>1, <2>2 DEF EdgesSettled, Matching
<1>6. CASE BuildEdges
  <2>1. /\ phase = "build_edges" /\ phase' = "finish" /\ UNCHANGED <<forest, edgeForest>>
    BY <1>6 DEF BuildEdges
  <2>2. \A d, e : SameKey(d, e)' <=> SameKey(d, e)
    BY <1>0, <2>1, EdgeFactsStay
  <2> QED
    BY <1>0, <2>1, <2>2 DEF EdgesSettled, NotGrouped, NotBuilt, NotOrdered, Matching
<1>7. CASE /\ phase' \notin NotBuilt /\ ~BuildNodes /\ ~(\E key \in todo : NextEdgeBucket(key))
           /\ ~CompareEdges /\ ~OrderEdges /\ ~BuildEdges
  <2>1. /\ phase \notin NotBuilt /\ (phase' = "match_edges" <=> phase = "match_edges")
        /\ (phase' \in NotGrouped <=> phase \in NotGrouped)
        /\ UNCHANGED <<todo, pairs, forest, edgeForest>>
    BY <1>7, EdgePassSteps
  <2>2. /\ \A d, e : SameKey(d, e)' <=> SameKey(d, e)
        /\ \A k : EdgeBucket(k)' = EdgeBucket(k)
    BY <1>0, <2>1, EdgeFactsStay
  <2> QED
    BY <1>0, <1>7, <2>1, <2>2 DEF EdgesSettled, Matching
<1> QED
  BY <1>1, <1>2, <1>3, <1>4, <1>5, <1>6, <1>7

LEMMA MergedEdgesStay ==
  ASSUME allNodes' = allNodes, allEdges' = allEdges, edgeForest' = edgeForest
  PROVE  /\ \A f : EdgeLess(f)' = EdgeLess(f)
         /\ \A f, ord, eord : MergedEdges(f, ord, eord)' = MergedEdges(f, ord, eord)
<1>1. /\ NodeOrdinals' = NodeOrdinals /\ EdgeOrdinals' = EdgeOrdinals
      /\ \A o : Node(o)' = Node(o) /\ Edge(o)' = Edge(o)
  BY InputStays
<1>2. \A e, id : Candidates(e, id)' = Candidates(e, id)
  BY <1>1 DEF Candidates
<1>3. \A e : Source(e)' = Source(e) /\ Target(e)' = Target(e) /\ (Resolves(e)' <=> Resolves(e))
  BY <1>1, <1>2 DEF Source, Target, Resolves
<1>4. \A f, r : GroupKey(f, r)' = GroupKey(f, r)
  BY NodesStay
<1>5. ASSUME NEW f, NEW r PROVE EdgeGroupKey(f, r)' = EdgeGroupKey(f, r)
  <2> DEFINE members == ClassOf(edgeForest, r)
             first   == Min(members)
             EndKey(id) == IF Candidates(first, id) = {} THEN <<>>
                           ELSE GroupKey(f, f.rep[Max(Candidates(first, id))])
             CidsOf(e) == {CanonicalId(External(Edge(e).ids)[i]) :
                             i \in DOMAIN External(Edge(e).ids)}
             all == UNION {CidsOf(e) : e \in members}
             source == EndKey(Edge(first).source)
             target == EndKey(Edge(first).target)
             type == Edge(first).type
             key == <<source, target, <<Position(EdgeTypeOrder, type)>>, MinText(all), <<r>>>>
  <2>1. members' = members /\ first' = first
    OBVIOUS
  <2>2. source' = source /\ target' = target /\ type' = type
    BY <1>1, <1>2, <1>4, <2>1
  <2>3. all' = all
    BY SMTT(30), <1>1, <2>1
  <2>4. key' = key
    <3> HIDE DEF source, target, type, all
    <3> QED
      BY <2>2, <2>3
  <2>5. EdgeGroupKey(f, r) = key
    BY DEF EdgeGroupKey
  <2>6. EdgeGroupKey(f, r)' = key'
    BY DEF EdgeGroupKey
  <2> QED
    BY <2>4, <2>5, <2>6
<1>6. \A f : EdgeLess(f)' = EdgeLess(f)
  BY <1>5 DEF EdgeLess
<1>7. \A f, ord, e : RewrittenEdge(f, ord, e)' = RewrittenEdge(f, ord, e)
  BY <1>1, <1>3 DEF RewrittenEdge, NewId
<1>8. ASSUME NEW members
      PROVE  MergeIdentifiers(members, [e \in members |-> Edge(e).ids])'
               = MergeIdentifiers(members, [e \in members |-> Edge(e).ids])
  <2>1. [e \in members |-> Edge(e).ids]' = [e \in members |-> Edge(e).ids]
    BY <1>1
  <2> QED
    BY <2>1
<1>9. \A f, ord, members : MergedEdge(f, ord, members)' = MergedEdge(f, ord, members)
  BY ZenonT(60), <1>1, <1>7, <1>8 DEF MergedEdge
<1>10. ASSUME NEW f, NEW ord, NEW eord
       PROVE  MergedEdges(f, ord, eord)' = MergedEdges(f, ord, eord)
  <2> DEFINE K == {k \in DOMAIN eord : Resolves(Min(ClassOf(edgeForest, eord[k])))}
             made(r, k) == [MergedEdge(f, ord, ClassOf(edgeForest, r)) EXCEPT !.id = k - 1]
             g == Picked(eord, K)
  <2>1. K' = K
    BY <1>3
  <2>2. \A r, k : made(r, k)' = made(r, k)
    BY <1>9
  <2>3. MergedEdges(f, ord, eord) = [k \in DOMAIN g |-> made(g[k], k)]
    BY DEF MergedEdges
  <2>4. g' = g
    BY <2>1
  <2>5. MergedEdges(f, ord, eord)' = [k \in DOMAIN g |-> made(g[k], k)]'
    BY DEF MergedEdges
  <2> HIDE DEF g, made
  <2>6. [k \in DOMAIN g |-> made(g[k], k)]' = [k \in DOMAIN g |-> made(g[k], k)]
    BY <2>2, <2>4
  <2> QED
    BY <2>3, <2>5, <2>6
<1> QED
  BY <1>6, <1>10

\* The groups with both end points, in the order of the output.
LEMMA KeptIs ==
  ASSUME Lists(edgeOrder, Representatives(edgeForest)),
         NEW g, g = Picked(edgeOrder, {k \in DOMAIN edgeOrder : Kept(edgeOrder[k])})
  PROVE  Lists(g, {r \in Representatives(edgeForest) : Kept(r)})
<1> DEFINE S == Representatives(edgeForest)
           K == {k \in DOMAIN edgeOrder : Kept(edgeOrder[k])}
<1>1. K \in SUBSET DOMAIN edgeOrder
  OBVIOUS
<1>2. {edgeOrder[k] : k \in K} = {r \in S : Kept(r)}
  <2>1. /\ \A k \in DOMAIN edgeOrder : edgeOrder[k] \in S
        /\ \A r \in S : \E k \in DOMAIN edgeOrder : edgeOrder[k] = r
    BY DEF Lists
  <2> HIDE DEF S
  <2> QED
    BY <2>1
<1>3. g = Picked(edgeOrder, K) /\ Lists(edgeOrder, S)
  OBVIOUS
<1> HIDE DEF K, S
<1>4. Lists(Picked(edgeOrder, K), {edgeOrder[k] : k \in K})
  BY <1>1, <1>3, PickedLists
<1> QED
  BY <1>2, <1>3, <1>4 DEF S

LEMMA KeptGroups ==
  ASSUME TypeOK, InputOK, EdgesGrouped, Lists(edgeOrder, Representatives(edgeForest)),
         NEW out, out = MergedEdges(forest, nodeOrder, edgeOrder)
  PROVE  \E g : /\ Lists(g, {r \in Representatives(edgeForest) : Kept(r)})
                /\ DOMAIN g = DOMAIN out
                /\ \A k \in DOMAIN out : EdgeSays(out[k], ClassOf(edgeForest, g[k]))
<1> DEFINE g == Picked(edgeOrder, {k \in DOMAIN edgeOrder : Kept(edgeOrder[k])})
           made(k) == [MergedEdge(forest, nodeOrder, ClassOf(edgeForest, g[k])) EXCEPT !.id = k - 1]
<1>1. out = [k \in DOMAIN g |-> made(k)]
  BY DEF MergedEdges, Kept
<1>2. DOMAIN out = DOMAIN g /\ \A k \in DOMAIN g : out[k] = made(k)
  <2> HIDE DEF g, made
  <2> QED
    BY <1>1
<1>3. Lists(g, {r \in Representatives(edgeForest) : Kept(r)})
  BY KeptIs
<1> HIDE DEF g
<1>4. ASSUME NEW k \in DOMAIN out PROVE EdgeSays(out[k], ClassOf(edgeForest, g[k]))
  <2>1. g[k] \in Representatives(edgeForest)
    BY <1>2, <1>3 DEF Lists
  <2>2. out[k] = [MergedEdge(forest, nodeOrder, ClassOf(edgeForest, g[k])) EXCEPT !.id = k - 1]
    BY <1>2
  <2> QED
    BY <2>1, <2>2, MergedEdgeSays
<1> QED
  BY <1>2, <1>3, <1>4

LEMMA EdgesMadeStep ==
  ASSUME MergeInv, EdgesMade, [Next]_vars
  PROVE  EdgesMade'
<1>0. edgeForest' = edgeForest =>
        /\ \A f : EdgeLess(f)' = EdgeLess(f)
        /\ \A f, ord, eord : MergedEdges(f, ord, eord)' = MergedEdges(f, ord, eord)
  BY InputStep, MergedEdgesStay
<1>1. CASE phase' \in NotGrouped
  BY <1>1 DEF EdgesMade, NotFinished
<1>2. CASE OrderEdges
  <2>1. /\ edgeOrder' = EdgeGroupOrder(forest) /\ phase' = "build_edges"
        /\ edgeForest' = edgeForest /\ forest' = forest
    BY <1>2 DEF OrderEdges
  <2>2. InOrder(EdgeGroupOrder(forest), EdgeLess(forest), Representatives(edgeForest))
    BY EdgeGroupOrderIs DEF MergeInv, TypeOK
  <2> QED
    BY <1>0, <2>1, <2>2 DEF EdgesMade, NotFinished
<1>3. CASE BuildEdges
  <2>1. /\ phase = "build_edges" /\ phase' = "finish"
        /\ UNCHANGED <<forest, edgeForest, nodeOrder, edgeOrder>>
        /\ edges' = MergedEdges(forest, nodeOrder, edgeOrder)
    BY <1>3 DEF BuildEdges, orders
  <2> QED
    BY <1>0, <2>1 DEF EdgesMade, NotGrouped, NotBuilt, NotOrdered
<1>4. CASE /\ phase' \notin NotBuilt /\ ~BuildNodes /\ ~(\E key \in todo : NextEdgeBucket(key))
           /\ ~CompareEdges /\ ~OrderEdges /\ ~BuildEdges
  <2>1. /\ (phase' \in NotGrouped <=> phase \in NotGrouped)
        /\ (phase' \in NotFinished <=> phase \in NotFinished)
        /\ UNCHANGED <<forest, edgeForest, nodeOrder, edgeOrder, edges>>
    BY <1>4, EdgePassSteps
  <2> QED
    BY <1>0, <2>1 DEF EdgesMade
<1>5. \/ phase' \in NotGrouped \/ OrderEdges \/ BuildEdges
      \/ /\ phase' \notin NotBuilt /\ ~BuildNodes /\ ~(\E key \in todo : NextEdgeBucket(key))
         /\ ~CompareEdges /\ ~OrderEdges /\ ~BuildEdges
  BY DEF NotGrouped, BuildNodes, NextEdgeBucket, CompareEdges
<1> QED
  BY <1>1, <1>2, <1>3, <1>4, <1>5

LEMMA FactsStep == MergeInv /\ FactsInv /\ [Next]_vars => FactsInv'
BY NodesMadeStep, EdgesGroupedStep, EdgesSettledStep, EdgesMadeStep DEF FactsInv

LEMMA FactsInit == Init => FactsInv
<1> SUFFICES ASSUME Init PROVE FactsInv
  OBVIOUS
<1>1. phase = "start" /\ edgeForest = NewForest(EdgeOrdinals)
  BY DEF Init
<1>2. \A d, e \in EdgeOrdinals : Together(edgeForest, d, e) => d = e
  BY <1>1, NewForestIs DEF Together
<1> QED
  BY <1>1, <1>2 DEF FactsInv, NodesMade, EdgesGrouped, EdgesSettled, EdgesMade, Alike,
                    NotFinished, NotGrouped, NotBuilt, NotOrdered

(* What the output says of groups follows from how the groups were made.   *)
THEOREM FactsInvHolds == Spec => []FactsInv
BY FactsInit, FactsStep, MergeInvHolds, PTL DEF Spec

-----------------------------------------------------------------------------
(* What the output says of the nodes of the input.                         *)

(* What a node says of its identifiers, labels and scalars the merged node *)
(* says too: of each identifier one record of its canonical form, every    *)
(* label, and every value of a scalar, as the value or in a conflict with  *)
(* its file.  And what a merged node says of these, and its type, it has   *)
(* from a node it stands for.                                              *)
THEOREM MergeKeepsNodeFacts == Spec => []NodeFactsKept
<1>1. ASSUME MergeInv, FactsInv, Accepted
      PROVE  /\ Lists(nodeOrder, Representatives(forest)) /\ nodes = MergedNodes(forest, nodeOrder)
             /\ TypeOK /\ InputOK
  BY <1>1 DEF MergeInv, FactsInv, NodesMade, Accepted, NotBuilt, NotOrdered, InOrder
<1>2. ASSUME MergeInv, FactsInv, Accepted, NEW o \in NodeOrdinals
      PROVE  NodeSays(Merged(o), o)
  <2> DEFINE p == Position(nodeOrder, forest.rep[o])
  <2>1. Lists(nodeOrder, Representatives(forest)) /\ nodes = MergedNodes(forest, nodeOrder)
    BY <1>1, <1>2
  <2>2. p \in DOMAIN nodeOrder /\ NodeSays(MergedNodes(forest, nodeOrder)[p], o)
    BY <1>1, <1>2, NodeOfGroup
  <2>3. p \in Nat
    BY <2>1, <2>2 DEF Lists
  <2>4. Merged(o) = nodes[(p - 1) + 1]
    BY DEF Merged, NewId
  <2> HIDE DEF p
  <2>5. (p - 1) + 1 = p
    BY <2>3
  <2> QED
    BY <2>1, <2>2, <2>4, <2>5
<1>3. ASSUME MergeInv, FactsInv, Accepted, NEW k \in DOMAIN nodes
      PROVE  TakenFrom(nodes[k], MembersOf(k))
  <2>1. Lists(nodeOrder, Representatives(forest)) /\ nodes = MergedNodes(forest, nodeOrder)
    BY <1>1, <1>3
  <2>2. k \in DOMAIN nodeOrder
    BY <1>3, <2>1 DEF MergedNodes
  <2> QED
    BY <1>1, <1>3, <2>1, <2>2, GroupOfNode
<1>4. MergeInv /\ FactsInv => NodeFactsKept
  BY <1>2, <1>3 DEF NodeFactsKept, NodeSays
<1> QED
  BY <1>4, MergeInvHolds, FactsInvHolds, PTL

-----------------------------------------------------------------------------
(* What the output says of the edges of the input.                         *)

LEMMA KeptAtEnd ==
  ASSUME MergeInv, FactsInv, Accepted
  PROVE  \E g : /\ Lists(g, {r \in Representatives(edgeForest) : Kept(r)})
                /\ DOMAIN g = DOMAIN edges
                /\ \A k \in DOMAIN edges : EdgeSays(edges[k], ClassOf(edgeForest, g[k]))
<1>1. /\ Lists(edgeOrder, Representatives(edgeForest))
      /\ edges = MergedEdges(forest, nodeOrder, edgeOrder)
  BY DEF FactsInv, EdgesMade, Accepted, NotFinished, NotGrouped, NotBuilt, NotOrdered, InOrder
<1> QED
  BY <1>1, KeptGroups DEF MergeInv, FactsInv

\* An edge with both end points is in a group that is kept.
LEMMA GroupIsKept ==
  ASSUME TypeOK, InputOK, EdgesGrouped, NEW e \in EdgeOrdinals, Resolves(e)
  PROVE  /\ edgeForest.rep[e] \in Representatives(edgeForest)
         /\ e \in ClassOf(edgeForest, edgeForest.rep[e]) /\ Kept(edgeForest.rep[e])
<1> DEFINE r == edgeForest.rep[e]
           f == Min(ClassOf(edgeForest, r))
<1>1. r \in Representatives(edgeForest) /\ e \in ClassOf(edgeForest, r)
  BY DEF TypeOK, ForestOK, Representatives, ClassOf
<1>2. Alike(e, f)
  BY <1>1, FirstOfGroup
<1>3. Resolves(f)
  BY <1>2, SameKeyIs DEF Alike
<1> QED
  BY <1>1, <1>3 DEF Kept

\* What a merged edge says of its group it says of each member.
LEMMA EdgeSaysRepresents ==
  ASSUME TypeOK, InputOK, EdgesGrouped, NEW r \in Representatives(edgeForest),
         NEW e \in ClassOf(edgeForest, r), NEW d, EdgeSays(d, ClassOf(edgeForest, r))
  PROVE  Represents(d, e)
<1> DEFINE M == ClassOf(edgeForest, r)
           f == Min(M)
<1>1. Alike(e, f) /\ EdgeSays(d, M) /\ f \in M
  BY FirstOfGroup
<1> HIDE DEF M
<1>2. /\ d.type = Edge(f).type
      /\ d.source = NewId(forest, nodeOrder, Source(f))
      /\ d.target = NewId(forest, nodeOrder, Target(f))
      /\ \A i \in DOMAIN Edge(e).ids :
           \E k \in DOMAIN d.ids : CanonicalId(d.ids[k]) = CanonicalId(Edge(e).ids[i])
      /\ \A name \in IdentityProperties(d.type) :
           Property(d.props, name) = Property(Edge(f).props, name)
  BY <1>1 DEF EdgeSays, M
<1>3. CASE e = f
  BY <1>2, <1>3 DEF Represents
<1>4. CASE e # f
  <2> HIDE DEF f
  <2>1. SameKey(e, f) /\ Alike(f, e)
    BY <1>1, <1>4, AlikeSymmetric DEF Alike
  <2>2. /\ Edge(f).type = Edge(e).type
        /\ NewId(forest, nodeOrder, Source(f)) = NewId(forest, nodeOrder, Source(e))
        /\ NewId(forest, nodeOrder, Target(f)) = NewId(forest, nodeOrder, Target(e))
    BY <2>1, SameKeyIs DEF NewId
  <2>3. External(Edge(e).ids) = <<>> => \A name \in IdentityProperties(Edge(e).type) :
          Property(Edge(f).props, name) = Property(Edge(e).props, name)
    BY <1>4, <2>1 DEF Alike, Unnamed
  <2> QED
    BY <1>2, <2>2, <2>3 DEF Represents
<1> QED
  BY <1>3, <1>4

(* Each edge with both end points is represented by one of its type, with  *)
(* its identifiers or else its identity properties, between the merged     *)
(* nodes of its ends, and each edge of the result represents one.          *)
THEOREM MergeKeepsEdgeFacts == Spec => []EdgeFactsKept
<1>1. MergeInv /\ FactsInv => EdgeFactsKept
  <2> SUFFICES ASSUME MergeInv, FactsInv, Accepted PROVE EdgeFactsKept
    BY DEF EdgeFactsKept
  <2>1. PICK g : /\ Lists(g, {r \in Representatives(edgeForest) : Kept(r)})
                 /\ DOMAIN g = DOMAIN edges
                 /\ \A k \in DOMAIN edges : EdgeSays(edges[k], ClassOf(edgeForest, g[k]))
    BY KeptAtEnd
  <2>2. TypeOK /\ InputOK /\ EdgesGrouped
    BY DEF MergeInv, FactsInv
  <2>3. ASSUME NEW e \in EdgeOrdinals, Resolves(e)
        PROVE  \E k \in DOMAIN edges : Represents(edges[k], e)
    <3> DEFINE r == edgeForest.rep[e]
    <3>1. r \in Representatives(edgeForest) /\ e \in ClassOf(edgeForest, r) /\ Kept(r)
      BY <2>2, <2>3, GroupIsKept
    <3> HIDE DEF r
    <3>2. PICK k \in DOMAIN g : g[k] = r
      BY <2>1, <3>1 DEF Lists
    <3>3. EdgeSays(edges[k], ClassOf(edgeForest, r)) /\ k \in DOMAIN edges
      BY <2>1, <3>2
    <3>4. Represents(edges[k], e)
      BY <2>2, <3>1, <3>3, EdgeSaysRepresents
    <3> QED
      BY <3>3, <3>4
  <2>4. ASSUME NEW k \in DOMAIN edges
        PROVE  \E e \in EdgeOrdinals : Resolves(e) /\ Represents(edges[k], e)
    <3> DEFINE r == g[k]
               f == Min(ClassOf(edgeForest, r))
    <3>1. r \in Representatives(edgeForest) /\ Kept(r)
      BY <2>1 DEF Lists
    <3>2. EdgeSays(edges[k], ClassOf(edgeForest, r))
      BY <2>1
    <3>3. f \in EdgeOrdinals /\ f \in ClassOf(edgeForest, r) /\ Resolves(f)
      BY <2>2, <3>1, FirstOfGroup DEF Kept
    <3> HIDE DEF r, f
    <3>4. Represents(edges[k], f)
      BY <2>2, <3>1, <3>2, <3>3, EdgeSaysRepresents
    <3> QED
      BY <3>3, <3>4
  <2> QED
    BY <2>3, <2>4 DEF EdgeFactsKept
<1> QED
  BY <1>1, MergeInvHolds, FactsInvHolds, PTL

\* A merged edge without external identifiers has none in its group.
LEMMA UnnamedGroup ==
  ASSUME InputOK, NEW members, NEW d, EdgeSays(d, members), External(d.ids) = <<>>,
         NEW e \in members, e \in EdgeOrdinals
  PROVE  Unnamed(e)
<1>1. IsSequence(d.ids) /\ \A k \in DOMAIN d.ids : IsIdentifier(d.ids[k])
  BY DEF EdgeSays, HasIdentifiers
<1>2. \A k \in DOMAIN d.ids : d.ids[k].scheme = "internal"
  BY <1>1, ExternalEmpty
<1>3. ASSUME NEW i \in DOMAIN Edge(e).ids PROVE Edge(e).ids[i].scheme = "internal"
  <2>1. PICK k \in DOMAIN d.ids : CanonicalId(d.ids[k]) = CanonicalId(Edge(e).ids[i])
    BY DEF EdgeSays
  <2>2. IsIdentifier(Edge(e).ids[i])
    BY InputFacts DEF IsEdge, HasIdentifiers
  <2> QED
    BY <1>1, <1>2, <2>1, <2>2, CanonicalIdScheme
<1> QED
  BY <1>3, UnnamedIs

(* No two output edges that could be one relationship are left.            *)
THEOREM MergeLeavesNoDuplicates == Spec => []EdgesDistinct
<1>1. MergeInv /\ FactsInv => EdgesDistinct
  <2> SUFFICES ASSUME MergeInv, FactsInv, Accepted, NEW j \in DOMAIN edges, NEW k \in DOMAIN edges,
                      edges[j].source = edges[k].source, edges[j].target = edges[k].target,
                      External(edges[j].ids) = <<>>, External(edges[k].ids) = <<>>,
                      EdgesMatch(edges[j], edges[k])
               PROVE  j = k
    BY DEF EdgesDistinct
  <2>1. PICK g : /\ Lists(g, {r \in Representatives(edgeForest) : Kept(r)})
                 /\ DOMAIN g = DOMAIN edges
                 /\ \A i \in DOMAIN edges : EdgeSays(edges[i], ClassOf(edgeForest, g[i]))
    BY KeptAtEnd
  <2>2. TypeOK /\ InputOK /\ EdgesGrouped
    BY DEF MergeInv, FactsInv
  <2> DEFINE r == g[j]
             s == g[k]
             d == Min(ClassOf(edgeForest, r))
             e == Min(ClassOf(edgeForest, s))
  <2>3. /\ r \in Representatives(edgeForest) /\ Resolves(d)
        /\ s \in Representatives(edgeForest) /\ Resolves(e)
    BY <2>1 DEF Lists, Kept
  <2>4. EdgeSays(edges[j], ClassOf(edgeForest, r)) /\ EdgeSays(edges[k], ClassOf(edgeForest, s))
    BY <2>1
  <2>5. /\ d \in EdgeOrdinals /\ d \in ClassOf(edgeForest, r)
        /\ e \in EdgeOrdinals /\ e \in ClassOf(edgeForest, s)
    BY <2>2, <2>3, FirstOfGroup
  <2>6. /\ edges[j].type = Edge(d).type /\ edges[k].type = Edge(e).type
        /\ NewId(forest, nodeOrder, Source(d)) = NewId(forest, nodeOrder, Source(e))
        /\ NewId(forest, nodeOrder, Target(d)) = NewId(forest, nodeOrder, Target(e))
    BY <2>4 DEF EdgeSays
  <2>7. /\ \A name \in IdentityProperties(edges[j].type) :
             Property(edges[j].props, name) = Property(Edge(d).props, name)
        /\ \A name \in IdentityProperties(edges[k].type) :
             Property(edges[k].props, name) = Property(Edge(e).props, name)
    BY <2>4 DEF EdgeSays
  <2> HIDE DEF d, e
  <2>8. Unnamed(d) /\ Unnamed(e)
    BY <2>2, <2>4, <2>5, UnnamedGroup
  <2>9. SameKey(d, e)
    <3>1. edges[j].type # "same_as" /\ edges[j].type = edges[k].type
      BY DEF EdgesMatch
    <3>2. ASSUME NEW a \in NodeOrdinals, NEW b \in NodeOrdinals,
                 NewId(forest, nodeOrder, a) = NewId(forest, nodeOrder, b)
          PROVE  forest.rep[a] = forest.rep[b]
      <4> DEFINE pa == Position(nodeOrder, forest.rep[a])
                 pb == Position(nodeOrder, forest.rep[b])
      <4>1. Lists(nodeOrder, Representatives(forest))
        BY DEF FactsInv, NodesMade, Accepted, NotOrdered, InOrder
      <4>2. /\ pa \in DOMAIN nodeOrder /\ nodeOrder[pa] = forest.rep[a]
            /\ pb \in DOMAIN nodeOrder /\ nodeOrder[pb] = forest.rep[b]
        BY <2>2, <4>1, NodeOfGroup
      <4>3. pa \in Nat /\ pb \in Nat
        BY <4>1, <4>2 DEF Lists
      <4>4. pa - 1 = pb - 1
        BY <3>2 DEF NewId
      <4> HIDE DEF pa, pb
      <4>5. pa = pb
        BY <4>3, <4>4
      <4> QED
        BY <4>2, <4>5
    <3>3. /\ Source(d) \in NodeOrdinals /\ Source(e) \in NodeOrdinals
          /\ Target(d) \in NodeOrdinals /\ Target(e) \in NodeOrdinals
      BY <2>2, <2>3, <2>5, EndPoints DEF d, e
    <3>4. /\ forest.rep[Source(d)] = forest.rep[Source(e)]
          /\ forest.rep[Target(d)] = forest.rep[Target(e)]
      BY <2>6, <3>2, <3>3
    <3>5. HasEdgeKey(d) /\ HasEdgeKey(e)
      BY <2>3, <2>6, <3>1 DEF HasEdgeKey, d, e
    <3> QED
      BY <2>6, <3>1, <3>4, <3>5 DEF SameKey, EdgeKey
  <2>10. EdgesMatch(Edge(d), Edge(e)) /\ EdgesMatch(Edge(e), Edge(d))
    <3>1. /\ edges[j].type # "same_as" /\ edges[j].type = edges[k].type
          /\ \A name \in IdentityProperties(edges[j].type) :
               Property(edges[j].props, name) = Property(edges[k].props, name)
      BY DEF EdgesMatch, IdentityPropertiesMatch
    <3>2. \A name \in IdentityProperties(Edge(d).type) :
            Property(Edge(d).props, name) = Property(Edge(e).props, name)
      BY <2>6, <2>7, <3>1
    <3> QED
      BY <2>6, <2>8, <3>1, <3>2 DEF EdgesMatch, IdentityPropertiesMatch, Unnamed
  <2>11. d = e \/ Together(edgeForest, d, e)
    <3>1. d \in Nat /\ e \in Nat
      BY <2>2, <2>5, OrdinalsAre
    <3>2. \A a, b \in EdgeOrdinals : Matching(a, b) => Together(edgeForest, a, b)
      BY DEF FactsInv, EdgesSettled, Accepted, NotGrouped, NotBuilt, NotOrdered
    <3>3. SameKey(e, d)
      BY <2>9 DEF SameKey
    <3>4. d < e => Matching(d, e)
      BY <2>9, <2>10 DEF Matching
    <3>5. e < d => Matching(e, d)
      BY <2>10, <3>3 DEF Matching
    <3> QED
      BY <2>5, <3>1, <3>2, <3>4, <3>5 DEF Together
  <2>12. r = s
    BY <2>5, <2>11 DEF Together, ClassOf
  <2> QED
    BY <2>1, <2>12 DEF Lists
<1> QED
  BY <1>1, MergeInvHolds, FactsInvHolds, PTL

-----------------------------------------------------------------------------
(* Which member represents a group makes no difference.                    *)

LEMMA LowestIs ==
  ASSUME NEW O \in SUBSET Nat, NEW f, ForestOK(f, O)
  PROVE  /\ ForestOK(Lowest(f), O)
         /\ \A o \in O : Lowest(f).rep[o] = Min(ClassOf(f, f.rep[o]))
         /\ \A r \in Representatives(f) :
              /\ Min(ClassOf(f, r)) \in ClassOf(f, r)
              /\ Min(ClassOf(f, r)) \in Representatives(Lowest(f))
              /\ ClassOf(Lowest(f), Min(ClassOf(f, r))) = ClassOf(f, r)
         /\ \A q \in Representatives(Lowest(f)) :
              \E r \in Representatives(f) : q = Min(ClassOf(f, r))
<1> DEFINE low == Lowest(f)
           least(r) == Min(ClassOf(f, r))
<1>1. DOMAIN f.rep = O /\ \A o \in O : f.rep[o] \in O /\ f.rep[f.rep[o]] = f.rep[o]
  BY DEF ForestOK
<1>2. low.rep = [o \in O |-> least(f.rep[o])] /\ low.rank = f.rank
  BY <1>1 DEF Lowest
<1>3. ASSUME NEW o \in O PROVE least(f.rep[o]) \in ClassOf(f, f.rep[o])
  <2>1. ClassOf(f, f.rep[o]) \in SUBSET Nat /\ o \in ClassOf(f, f.rep[o])
    BY <1>1 DEF ClassOf
  <2> QED
    BY <2>1, LeastIs
<1> HIDE DEF least, low
<1>4. \A o \in O : low.rep[o] = least(f.rep[o]) /\ low.rep[o] \in O /\ f.rep[low.rep[o]] = f.rep[o]
  <2> TAKE o \in O
  <2>1. low.rep[o] = least(f.rep[o])
    BY <1>2
  <2>2. least(f.rep[o]) \in O /\ f.rep[least(f.rep[o])] = f.rep[o]
    BY <1>1, <1>3 DEF ClassOf
  <2> QED
    BY <2>1, <2>2
<1>5. DOMAIN low.rep = O
  BY <1>2
<1>6. ForestOK(low, O)
  <2>1. low.rank \in [O -> Nat]
    BY <1>2 DEF ForestOK
  <2>2. low.rep \in [O -> O]
    BY <1>2, <1>4
  <2> QED
    BY <1>4, <2>1, <2>2 DEF ForestOK
<1>7. ASSUME NEW o \in O PROVE ClassOf(low, least(f.rep[o])) = ClassOf(f, f.rep[o])
  <2>1. ASSUME NEW x \in O PROVE low.rep[x] = least(f.rep[o]) <=> f.rep[x] = f.rep[o]
    BY <1>4
  <2> QED
    BY <1>1, <1>5, <2>1 DEF ClassOf
<1>8. ASSUME NEW r \in Representatives(f)
      PROVE  /\ least(r) \in ClassOf(f, r) /\ least(r) \in Representatives(low)
             /\ ClassOf(low, least(r)) = ClassOf(f, r)
  <2>1. PICK o \in O : r = f.rep[o]
    BY <1>1 DEF Representatives
  <2>2. least(r) = low.rep[o]
    BY <1>4, <2>1
  <2>3. least(r) \in Representatives(low)
    BY <1>5, <2>2 DEF Representatives
  <2> QED
    BY <1>3, <1>7, <2>1, <2>3
<1>9. ASSUME NEW q \in Representatives(low) PROVE \E r \in Representatives(f) : q = least(r)
  <2>1. PICK o \in O : q = low.rep[o]
    BY <1>5 DEF Representatives
  <2>2. f.rep[o] \in Representatives(f)
    BY <1>1 DEF Representatives
  <2> QED
    BY <1>4, <2>1, <2>2
<1> QED
  BY <1>4, <1>6, <1>8, <1>9 DEF low, least

\* Of each group the lowest member.
LowestOf == [r \in Representatives(forest) |-> Min(ClassOf(forest, r))]

LEMMA GroupsCorrespond ==
  ASSUME TypeOK, InputOK, NEW low, low = Lowest(forest)
  PROVE  /\ ForestOK(low, NodeOrdinals)
         /\ LowestOf \in [Representatives(forest) -> Representatives(low)]
         /\ \A q \in Representatives(low) : \E r \in Representatives(forest) : LowestOf[r] = q
         /\ \A r \in Representatives(forest) :
              /\ LowestOf[r] \in ClassOf(forest, r)
              /\ ClassOf(low, LowestOf[r]) = ClassOf(forest, r)
              /\ GroupKey(low, LowestOf[r]) = GroupKey(forest, r)
         /\ \A r, s \in Representatives(forest) : LowestOf[r] = LowestOf[s] => r = s
         /\ \A o \in NodeOrdinals : forest.rep[o] \in Representatives(forest)
                                      /\ low.rep[o] = LowestOf[forest.rep[o]]
<1>1. ForestOK(forest, NodeOrdinals) /\ NodeOrdinals \in SUBSET Nat
  BY OrdinalsAre DEF TypeOK
<1>2. /\ ForestOK(low, NodeOrdinals)
      /\ \A o \in NodeOrdinals : low.rep[o] = Min(ClassOf(forest, forest.rep[o]))
      /\ \A r \in Representatives(forest) :
              /\ Min(ClassOf(forest, r)) \in ClassOf(forest, r)
              /\ Min(ClassOf(forest, r)) \in Representatives(low)
              /\ ClassOf(low, Min(ClassOf(forest, r))) = ClassOf(forest, r)
      /\ \A q \in Representatives(low) :
           \E r \in Representatives(forest) : q = Min(ClassOf(forest, r))
  BY <1>1, LowestIs
<1>3. \A r \in Representatives(forest) : LowestOf[r] = Min(ClassOf(forest, r))
  BY DEF LowestOf
<1>4. LowestOf \in [Representatives(forest) -> Representatives(low)]
  BY <1>2 DEF LowestOf
<1>5. \A o \in NodeOrdinals : forest.rep[o] \in Representatives(forest)
  BY <1>1 DEF ForestOK, Representatives
<1>6. ASSUME NEW r \in Representatives(forest)
      PROVE  GroupKey(low, LowestOf[r]) = GroupKey(forest, r)
  <2>1. ClassOf(low, LowestOf[r]) = ClassOf(forest, r)
    BY <1>2, <1>3
  <2> QED
    BY <2>1 DEF GroupKey
<1>7. ASSUME NEW r \in Representatives(forest), NEW s \in Representatives(forest),
             LowestOf[r] = LowestOf[s]
      PROVE  r = s
  <2>1. LowestOf[r] \in ClassOf(forest, r) /\ LowestOf[s] \in ClassOf(forest, s)
    BY <1>2, <1>3
  <2> QED
    BY <1>7, <2>1 DEF ClassOf
<1> QED
  BY <1>2, <1>3, <1>4, <1>5, <1>6, <1>7

\* The groups come in the same order.
LEMMA OrdersCorrespond ==
  ASSUME TypeOK, InputOK, GroupKeysTellApart, NEW low, low = Lowest(forest),
         InOrder(nodeOrder, NodeLess(forest), Representatives(forest))
  PROVE  /\ DOMAIN GroupOrder(low) = DOMAIN nodeOrder
         /\ \A k \in DOMAIN nodeOrder : nodeOrder[k] \in Representatives(forest)
                                          /\ GroupOrder(low)[k] = LowestOf[nodeOrder[k]]
         /\ Lists(GroupOrder(low), Representatives(low))
<1> DEFINE h == LowestOf
           S == Representatives(forest)
           T == Representatives(low)
           R == NodeLess(forest)
           Q == NodeLess(low)
           t == GroupOrder(low)
<1>1. InOrder(t, Q, T)
  BY GroupsCorrespond, GroupOrderIs
<1>2. /\ h \in [S -> T] /\ \A y \in T : \E x \in S : h[x] = y
      /\ \A x, y \in S : h[x] = h[y] => x = y
  BY GroupsCorrespond
<1>3. ASSUME NEW x \in S, NEW y \in S PROVE GroupLess(forest, x, y) <=> GroupLess(low, h[x], h[y])
  <2>1. GroupKey(low, h[x]) = GroupKey(forest, x) /\ GroupKey(low, h[y]) = GroupKey(forest, y)
    BY GroupsCorrespond
  <2>2. CASE x = y
    <3>1. x \in Nat /\ h[x] \in Nat
      <4>1. x \in NodeOrdinals
        BY DEF TypeOK, ForestOK, Representatives
      <4>2. LowestOf[x] \in ClassOf(forest, x)
        BY GroupsCorrespond
      <4>3. h[x] \in NodeOrdinals
        BY <4>2 DEF TypeOK, ForestOK, ClassOf
      <4> QED
        BY <4>1, <4>3, OrdinalsAre
    <3> QED
      BY <2>1, <2>2, <3>1 DEF GroupLess
  <2>3. CASE x # y /\ GroupKey(forest, x) = GroupKey(forest, y)
    <3>1. ClassOf(forest, x) = {x} /\ ClassOf(forest, y) = {y}
      BY <2>3 DEF GroupKeysTellApart
    <3>2. h[x] = x /\ h[y] = y
      BY <3>1, GroupsCorrespond
    <3> QED
      BY <2>1, <3>2 DEF GroupLess
  <2>4. CASE GroupKey(forest, x) # GroupKey(forest, y)
    BY <2>1, <2>4 DEF GroupLess
  <2> QED
    BY <2>2, <2>3, <2>4
<1>4. \A x, y \in S : <<x, y>> \in R <=> <<h[x], h[y]>> \in Q
  BY <1>2, <1>3 DEF NodeLess
<1>5. InOrder(nodeOrder, R, S)
  OBVIOUS
<1> HIDE DEF h, S, T, R, Q, t
<1>6. DOMAIN t = DOMAIN nodeOrder /\ \A i \in DOMAIN nodeOrder : nodeOrder[i] \in S /\ t[i] = h[nodeOrder[i]]
  BY <1>1, <1>2, <1>4, <1>5, EnumerationImage DEF InOrder
<1> QED
  BY <1>1, <1>6 DEF h, S, T, t, InOrder

\* Nodes get the same numbers.
LEMMA NumbersCorrespond ==
  ASSUME TypeOK, InputOK, GroupKeysTellApart, NEW low, low = Lowest(forest),
         InOrder(nodeOrder, NodeLess(forest), Representatives(forest)), NEW o \in NodeOrdinals
  PROVE  NewId(low, GroupOrder(low), o) = NewId(forest, nodeOrder, o)
<1> DEFINE t == GroupOrder(low)
           r == forest.rep[o]
           p == Position(nodeOrder, r)
           q == Position(t, low.rep[o])
<1>1. Lists(nodeOrder, Representatives(forest))
  BY DEF InOrder
<1>2. /\ Lists(t, Representatives(low)) /\ DOMAIN t = DOMAIN nodeOrder
      /\ \A k \in DOMAIN nodeOrder : t[k] = LowestOf[nodeOrder[k]]
  BY OrdersCorrespond
<1>3. r \in Representatives(forest) /\ low.rep[o] = LowestOf[r]
  BY GroupsCorrespond
<1> HIDE DEF t, r
<1>4. p \in DOMAIN nodeOrder /\ nodeOrder[p] = r
  BY <1>1, <1>3, PositionIs DEF Lists
<1>5. t[p] = low.rep[o] /\ p \in DOMAIN t
  BY <1>2, <1>3, <1>4
<1>6. q \in DOMAIN t /\ t[q] = low.rep[o]
  BY <1>5, PositionIs
<1>7. p = q
  BY <1>2, <1>5, <1>6 DEF Lists
<1> QED
  BY <1>7 DEF NewId, t, r

LEMMA NodesCorrespond ==
  ASSUME TypeOK, InputOK, GroupKeysTellApart, NEW low, low = Lowest(forest),
         InOrder(nodeOrder, NodeLess(forest), Representatives(forest))
  PROVE  MergedNodes(low, GroupOrder(low)) = MergedNodes(forest, nodeOrder)
<1> DEFINE t == GroupOrder(low)
<1>1. /\ DOMAIN t = DOMAIN nodeOrder
      /\ \A k \in DOMAIN nodeOrder : nodeOrder[k] \in Representatives(forest)
                                       /\ t[k] = LowestOf[nodeOrder[k]]
  BY OrdersCorrespond
<1> HIDE DEF t
<1>2. \A k \in DOMAIN nodeOrder : ClassOf(low, t[k]) = ClassOf(forest, nodeOrder[k])
  BY <1>1, GroupsCorrespond
<1>3. MergedNodes(low, t) = MergedNodes(forest, nodeOrder)
  BY <1>1, <1>2 DEF MergedNodes
<1> QED
  BY <1>3 DEF t

LEMMA EdgeOrdersCorrespond ==
  ASSUME TypeOK, InputOK, NEW low, low = Lowest(forest),
         InOrder(edgeOrder, EdgeLess(forest), Representatives(edgeForest))
  PROVE  EdgeGroupOrder(low) = edgeOrder
<1>1. ForestOK(low, NodeOrdinals)
  BY GroupsCorrespond
<1>2. InOrder(EdgeGroupOrder(low), EdgeLess(low), Representatives(edgeForest))
  BY <1>1, EdgeGroupOrderIs
<1>3. ASSUME NEW r \in Representatives(edgeForest)
      PROVE  EdgeGroupKey(low, r) = EdgeGroupKey(forest, r)
  <2> DEFINE members == ClassOf(edgeForest, r)
             first   == Min(members)
             EndKey(f, id) == IF Candidates(first, id) = {} THEN <<>>
                              ELSE GroupKey(f, f.rep[Max(Candidates(first, id))])
             CidsOf(e) == {CanonicalId(External(Edge(e).ids)[i]) :
                             i \in DOMAIN External(Edge(e).ids)}
             lowest == MinText(UNION {CidsOf(e) : e \in members})
             type == <<Position(EdgeTypeOrder, Edge(first).type)>>
  <2>1. EdgeGroupKey(low, r) = <<EndKey(low, Edge(first).source), EndKey(low, Edge(first).target),
                                 type, lowest, <<r>>>>
    BY DEF EdgeGroupKey
  <2>2. EdgeGroupKey(forest, r)
          = <<EndKey(forest, Edge(first).source), EndKey(forest, Edge(first).target),
              type, lowest, <<r>>>>
    BY DEF EdgeGroupKey
  <2> HIDE DEF first, type, lowest
  <2>3. ASSUME NEW id PROVE EndKey(low, id) = EndKey(forest, id)
    <3>1. CASE Candidates(first, id) = {}
      BY <3>1
    <3>2. CASE Candidates(first, id) # {}
      <4> DEFINE x == Max(Candidates(first, id))
      <4>1. x \in NodeOrdinals
        <5>1. Candidates(first, id) \in SUBSET NodeOrdinals
          BY DEF Candidates
        <5>2. Candidates(first, id) \in SUBSET Nat /\ IsFiniteSet(Candidates(first, id))
          BY <5>1, OrdinalsAre, FS_Subset
        <5>3. x \in Candidates(first, id)
          BY <3>2, <5>2, LargestIs
        <5> QED
          BY <5>1, <5>3
      <4> HIDE DEF x
      <4>2. GroupKey(low, low.rep[x]) = GroupKey(forest, forest.rep[x])
        BY <4>1, GroupsCorrespond
      <4> QED
        BY <3>2, <4>2 DEF x
    <3> QED
      BY <3>1, <3>2
  <2> QED
    BY <2>1, <2>2, <2>3
<1>4. EdgeLess(low) = EdgeLess(forest)
  BY <1>3 DEF EdgeLess
<1> QED
  BY <1>2, <1>4, InOrderUnique

LEMMA EdgesCorrespond ==
  ASSUME TypeOK, InputOK, EdgesGrouped, GroupKeysTellApart, NEW low, low = Lowest(forest),
         InOrder(nodeOrder, NodeLess(forest), Representatives(forest)),
         InOrder(edgeOrder, EdgeLess(forest), Representatives(edgeForest))
  PROVE  MergedEdges(low, GroupOrder(low), edgeOrder) = MergedEdges(forest, nodeOrder, edgeOrder)
<1> DEFINE t == GroupOrder(low)
           g == Picked(edgeOrder, {k \in DOMAIN edgeOrder : Kept(edgeOrder[k])})
           C(k) == ClassOf(edgeForest, g[k])
<1>1. /\ MergedEdges(low, t, edgeOrder)
           = [k \in DOMAIN g |-> [MergedEdge(low, t, C(k)) EXCEPT !.id = k - 1]]
      /\ MergedEdges(forest, nodeOrder, edgeOrder)
           = [k \in DOMAIN g |-> [MergedEdge(forest, nodeOrder, C(k)) EXCEPT !.id = k - 1]]
  BY DEF MergedEdges, Kept
<1>2. Lists(g, {r \in Representatives(edgeForest) : Kept(r)})
  BY KeptIs DEF InOrder
<1>3. \A o \in NodeOrdinals : NewId(low, t, o) = NewId(forest, nodeOrder, o)
  BY NumbersCorrespond
<1> HIDE DEF g, t
<1>4. ASSUME NEW k \in DOMAIN g
      PROVE  MergedEdge(low, t, C(k)) = MergedEdge(forest, nodeOrder, C(k))
  <2> DEFINE e == Min(C(k))
  <2>1. g[k] \in Representatives(edgeForest) /\ Kept(g[k])
    BY <1>2 DEF Lists
  <2>2. e \in EdgeOrdinals /\ Resolves(e)
    BY <2>1, FirstOfGroup DEF Kept
  <2>3. Source(e) \in NodeOrdinals /\ Target(e) \in NodeOrdinals
    <3> HIDE DEF e
    <3> QED
      BY <2>2, EndPoints
  <2>4. RewrittenEdge(low, t, e) = RewrittenEdge(forest, nodeOrder, e)
    BY <1>3, <2>3 DEF RewrittenEdge
  <2> QED
    BY <2>4 DEF MergedEdge
<1> HIDE DEF C
<1>5. MergedEdges(low, t, edgeOrder) = MergedEdges(forest, nodeOrder, edgeOrder)
  BY <1>1, <1>4
<1> QED
  BY <1>5 DEF t

(* The order in which the HashMap yields the buckets does not show.        *)
THEOREM MergeIgnoresBucketOrder == Spec => []OutputIndependentOfBucketOrder
<1>1. MergeInv /\ FactsInv => OutputIndependentOfBucketOrder
  <2> SUFFICES ASSUME MergeInv, FactsInv, phase \in {"finish", "done"}, GroupKeysTellApart,
                      NEW low, low = Lowest(forest)
               PROVE  /\ nodes = MergedNodes(low, GroupOrder(low))
                      /\ edges = MergedEdges(low, GroupOrder(low), EdgeGroupOrder(low))
    BY DEF OutputIndependentOfBucketOrder
  <2>1. TypeOK /\ InputOK /\ EdgesGrouped
    BY DEF MergeInv, FactsInv
  <2>2. /\ InOrder(nodeOrder, NodeLess(forest), Representatives(forest))
        /\ nodes = MergedNodes(forest, nodeOrder)
        /\ InOrder(edgeOrder, EdgeLess(forest), Representatives(edgeForest))
        /\ edges = MergedEdges(forest, nodeOrder, edgeOrder)
    BY DEF FactsInv, NodesMade, EdgesMade, NotFinished, NotGrouped, NotBuilt, NotOrdered
  <2> QED
    BY <2>1, <2>2, NodesCorrespond, EdgeOrdersCorrespond, EdgesCorrespond
<1> QED
  BY <1>1, MergeInvHolds, FactsInvHolds, PTL
-----------------------------------------------------------------------------
(* What is valid in the files is valid in the merged file.                 *)

AllValid == \A f \in DOMAIN files : L1Valid(files[f])
Built == phase \notin NotFinished

\* Every node and every edge is one of its file.
LEMMA InputComesFrom ==
  ASSUME InputOK
  PROVE  /\ \A o \in NodeOrdinals :
              /\ allNodes[o].file \in DOMAIN files
              /\ \E k \in DOMAIN files[allNodes[o].file].nodes :
                   Node(o) = files[allNodes[o].file].nodes[k]
         /\ \A e \in EdgeOrdinals :
              /\ allEdges[e].file \in DOMAIN files
              /\ \E k \in DOMAIN files[allEdges[e].file].edges :
                   Edge(e) = files[allEdges[e].file].edges[k]
<1> DEFINE ns == [f \in DOMAIN files |-> files[f].nodes]
           es == [f \in DOMAIN files |-> files[f].edges]
<1>1. IsSequence(files) /\ \A f \in DOMAIN files : WellFormed(files[f])
  BY InputsAssumption DEF InputOK
<1>2. \A f \in DOMAIN files : /\ ns[f] = files[f].nodes /\ es[f] = files[f].edges
                              /\ IsSequence(ns[f]) /\ IsSequence(es[f])
  BY <1>1 DEF WellFormed
<1>3. /\ allNodes = Concatenated(ns) /\ allEdges = Concatenated(es)
      /\ ns = [f \in DOMAIN files |-> ns[f]] /\ es = [f \in DOMAIN files |-> es[f]]
  BY DEF InputOK
<1> HIDE DEF ns, es
<1>4. DOMAIN ns = DOMAIN files /\ allNodes \in Seq(Items(ns))
  BY <1>1, <1>2, <1>3, ListsOf
<1>5. DOMAIN es = DOMAIN files /\ allEdges \in Seq(Items(es))
  BY <1>1, <1>2, <1>3, ListsOf
<1>6. ASSUME NEW o \in NodeOrdinals
      PROVE  /\ allNodes[o].file \in DOMAIN files
             /\ \E k \in DOMAIN files[allNodes[o].file].nodes :
                  Node(o) = files[allNodes[o].file].nodes[k]
  <2>1. allNodes[o] \in Items(ns)
    BY <1>4 DEF NodeOrdinals
  <2>2. PICK f \in DOMAIN ns : \E k \in DOMAIN ns[f] : allNodes[o] = [item |-> ns[f][k], file |-> f]
    BY <2>1, ItemComesFrom
  <2> QED
    BY <1>2, <1>4, <2>2 DEF Node
<1>7. ASSUME NEW e \in EdgeOrdinals
      PROVE  /\ allEdges[e].file \in DOMAIN files
             /\ \E k \in DOMAIN files[allEdges[e].file].edges :
                  Edge(e) = files[allEdges[e].file].edges[k]
  <2>1. allEdges[e] \in Items(es)
    BY <1>5 DEF EdgeOrdinals
  <2>2. PICK f \in DOMAIN es : \E k \in DOMAIN es[f] : allEdges[e] = [item |-> es[f][k], file |-> f]
    BY <2>1, ItemComesFrom
  <2> QED
    BY <1>2, <1>5, <2>2 DEF Edge
<1> QED
  BY <1>6, <1>7

\* What the rules ask of the records of one node.
RecordsValid(n) ==
  /\ \A i \in DOMAIN n.ids :
       /\ AuthorityPresent(n.ids[i]) /\ PeriodOrdered(n.ids[i])
       /\ EffectiveSensitivity(n.ids[i], n.type) \in {"public", "restricted", "confidential"}
  /\ n.type = "boundary_ref" => Len(n.ids) = 1 /\ n.ids[1].scheme = "opaque"

LEMMA NodesValid ==
  ASSUME InputOK, AllValid, NEW o \in NodeOrdinals
  PROVE  RecordsValid(Node(o))
<1>1. PICK f \in DOMAIN files : \E k \in DOMAIN files[f].nodes : Node(o) = files[f].nodes[k]
  BY InputComesFrom
<1>2. PICK k \in DOMAIN files[f].nodes : Node(o) = files[f].nodes[k]
  BY <1>1
<1>3. IdentifiersValid(files[f]) /\ BoundaryRefsOpaque(files[f]) /\ ScopeRespected(files[f])
  BY DEF AllValid, L1Valid
<1>4. SensitivityAllowed(files[f].scope) \subseteq {"public", "restricted", "confidential"}
  BY DEF SensitivityAllowed
<1> QED
  BY <1>2, <1>3, <1>4 DEF IdentifiersValid, BoundaryRefsOpaque, ScopeRespected, RecordsValid

(* A group that mixes no types and no boundary references makes a valid    *)
(* node.                                                                   *)
LEMMA MergedNodeValid ==
  ASSUME InputOK, AllValid, NEW members \in SUBSET NodeOrdinals, members # {}, NEW id,
         \A o, m \in members : Node(o).type = Node(m).type,
         \A o, m \in members : Node(o).type = "boundary_ref" => Keys(Node(o).ids) = Keys(Node(m).ids),
         NEW n, n = MergedNode(members, id)
  PROVE  /\ n.id = id /\ \A o \in members : n.type = Node(o).type
         /\ RecordsValid(n) /\ IdentifierTuplesUnique(n.ids)
<1> DEFINE ids == [m \in members |-> Node(m).ids]
           merged == MergeIdentifiers(members, ids)
<1>1. n.id = id /\ n.type = Node(Min(members)).type /\ n.ids = merged
  BY DEF MergedNode
<1>2. \A o \in members : /\ ids[o] = Node(o).ids /\ IsSequence(ids[o])
                         /\ \A i \in DOMAIN ids[o] : IsIdentifier(ids[o][i])
  BY InputFacts DEF HasIdentifiers
<1>3. members \in SUBSET Nat /\ IsFiniteSet(members)
  BY OrdinalsAre, FS_Subset
<1>4. Min(members) \in members
  BY <1>3, LeastIs
<1>5. \A o \in members : n.type = Node(o).type
  BY <1>1, <1>4
<1> HIDE DEF ids, merged
<1>6. OneOfEach(merged, members, ids)
  BY <1>2, <1>3, MergedIdentifiers DEF merged
<1>7. \A o \in members : RecordsValid(Node(o))
  BY NodesValid
<1>8. ASSUME NEW k \in DOMAIN merged
      PROVE  /\ AuthorityPresent(merged[k]) /\ PeriodOrdered(merged[k])
             /\ EffectiveSensitivity(merged[k], n.type) \in {"public", "restricted", "confidential"}
  <2>1. PICK o \in members : \E i \in DOMAIN Node(o).ids : merged[k] = Node(o).ids[i]
    BY <1>2, <1>6 DEF OneOfEach
  <2> QED
    BY <1>5, <1>7, <2>1 DEF RecordsValid
<1>9. IdentifierTuplesUnique(merged)
  <2> SUFFICES ASSUME NEW j \in DOMAIN merged, NEW k \in DOMAIN merged,
                      merged[j].scheme = merged[k].scheme, merged[j].value = merged[k].value,
                      merged[j].auth = merged[k].auth
               PROVE  j = k
    BY DEF IdentifierTuplesUnique
  <2>1. CanonicalId(merged[j]) = CanonicalId(merged[k])
    BY DEF CanonicalId
  <2> QED
    BY <1>6, <2>1 DEF OneOfEach
<1>10. ASSUME n.type = "boundary_ref"
       PROVE  Len(merged) = 1 /\ merged[1].scheme = "opaque"
  <2>1. \A o \in members : /\ DOMAIN ids[o] = {1} /\ ids[o][1].scheme = "opaque"
                           /\ Keys(Node(o).ids) = {CanonicalId(ids[o][1])}
    <3> TAKE o \in members
    <3>1. Len(ids[o]) = 1 /\ ids[o][1].scheme = "opaque"
      BY <1>2, <1>5, <1>7, <1>10 DEF RecordsValid
    <3>2. DOMAIN ids[o] = {1}
      BY <1>2, <3>1 DEF IsSequence
    <3>3. Indexed(ids[o][1])
      BY <3>1 DEF Indexed, IsLeiAnnulled
    <3>4. Keys(ids[o]) = {CanonicalId(ids[o][1])}
      BY <3>2, <3>3 DEF Keys
    <3> QED
      BY <1>2, <3>1, <3>2, <3>4
  <2>2. \A o, m \in members : CanonicalId(ids[o][1]) = CanonicalId(ids[m][1])
    <3> TAKE o, m \in members
    <3>1. Keys(Node(o).ids) = Keys(Node(m).ids)
      BY <1>5, <1>10
    <3> QED
      BY <2>1, <3>1
  <2>3. \A k \in DOMAIN merged : \E o \in members : merged[k] = ids[o][1]
    BY <1>6, <2>1 DEF OneOfEach
  <2>4. \A j, k \in DOMAIN merged : j = k
    BY <1>6, <2>2, <2>3 DEF OneOfEach
  <2>5. DOMAIN merged # {}
    <3> SUFFICES ASSUME DOMAIN merged = {} PROVE FALSE
      OBVIOUS
    <3> DEFINE o == Min(members)
    <3>1. o \in members /\ 1 \in DOMAIN ids[o]
      BY <1>4, <2>1
    <3> HIDE DEF o
    <3>2. {k \in DOMAIN merged : CanonicalId(merged[k]) = CanonicalId(ids[o][1])} = {}
      OBVIOUS
    <3>3. Cardinality({}) = 1
      BY <1>6, <3>1, <3>2 DEF OneOfEach
    <3> QED
      BY <3>3, FS_EmptySet
  <2>6. Len(merged) = 1 /\ 1 \in DOMAIN merged
    <3>1. Len(merged) \in Nat /\ DOMAIN merged = 1 .. Len(merged)
      BY <1>6 DEF OneOfEach, IsSequence
    <3>2. Len(merged) >= 1
      BY <2>5, <3>1
    <3>3. 1 \in DOMAIN merged /\ Len(merged) \in DOMAIN merged
      BY <3>1, <3>2
    <3> QED
      BY <2>4, <3>3
  <2> QED
    BY <2>1, <2>3, <2>6
<1> QED
  BY <1>1, <1>5, <1>8, <1>9, <1>10 DEF RecordsValid

NotMixed == AllValid /\ ~MixedTypes /\ ~MixedBoundaries

LEMMA OutputNode ==
  ASSUME MergeInv, FactsInv, Built, NotMixed, NEW k \in DOMAIN nodes
  PROVE  /\ k \in Nat /\ nodes[k].id = k - 1
         /\ RecordsValid(nodes[k]) /\ IdentifierTuplesUnique(nodes[k].ids)
         /\ \A o \in ClassOf(forest, nodeOrder[k]) : nodes[k].type = Node(o).type
<1> DEFINE M == ClassOf(forest, nodeOrder[k])
<1>1. Lists(nodeOrder, Representatives(forest)) /\ nodes = MergedNodes(forest, nodeOrder)
  BY DEF FactsInv, NodesMade, Built, NotFinished, NotGrouped, NotBuilt, NotOrdered, InOrder
<1>2. k \in DOMAIN nodeOrder /\ nodes[k] = MergedNode(M, k - 1)
  BY <1>1 DEF MergedNodes
<1>3. nodeOrder[k] \in Representatives(forest) /\ k \in Nat
  BY <1>1, <1>2 DEF Lists
<1>4. M \in SUBSET NodeOrdinals /\ M # {}
  BY <1>3 DEF MergeInv, TypeOK, ForestOK, Representatives, ClassOf
<1>5. \A o, m \in M : forest.rep[o] = forest.rep[m]
  BY DEF ClassOf
<1> HIDE DEF M
<1>6. /\ \A o, m \in M : Node(o).type = Node(m).type
      /\ \A o, m \in M : Node(o).type = "boundary_ref" => Keys(Node(o).ids) = Keys(Node(m).ids)
  BY <1>4, <1>5 DEF NotMixed, MixedTypes, MixedBoundaries
<1>7. InputOK /\ AllValid
  BY DEF MergeInv, NotMixed
<1>8. /\ nodes[k].id = k - 1 /\ \A o \in M : nodes[k].type = Node(o).type
      /\ RecordsValid(nodes[k]) /\ IdentifierTuplesUnique(nodes[k].ids)
  BY <1>2, <1>4, <1>6, <1>7, MergedNodeValid
<1> QED
  BY <1>3, <1>8 DEF M

\* The node that stands for a node of the input.
LEMMA OutputNodeOf ==
  ASSUME MergeInv, FactsInv, Built, NotMixed, NEW o \in NodeOrdinals
  PROVE  \E k \in DOMAIN nodes : nodes[k].id = NewId(forest, nodeOrder, o) /\ nodes[k].type = Node(o).type
<1> DEFINE r == forest.rep[o]
           k == Position(nodeOrder, r)
<1>1. Lists(nodeOrder, Representatives(forest)) /\ nodes = MergedNodes(forest, nodeOrder)
  BY DEF FactsInv, NodesMade, Built, NotFinished, NotGrouped, NotBuilt, NotOrdered, InOrder
<1>2. r \in Representatives(forest) /\ o \in ClassOf(forest, r)
  BY DEF MergeInv, TypeOK, ForestOK, Representatives, ClassOf
<1>3. k \in DOMAIN nodeOrder /\ nodeOrder[k] = r
  BY <1>1, <1>2, PositionIs DEF Lists
<1>4. DOMAIN nodes = DOMAIN nodeOrder
  BY <1>1 DEF MergedNodes
<1>5. NewId(forest, nodeOrder, o) = k - 1
  BY DEF NewId
<1> HIDE DEF k, r
<1>6. nodes[k].id = k - 1 /\ nodes[k].type = Node(o).type
  BY <1>2, <1>3, <1>4, OutputNode
<1> QED
  BY <1>3, <1>4, <1>5, <1>6

LEMMA OutputEdge ==
  ASSUME MergeInv, FactsInv, Built, NEW k \in DOMAIN edges
  PROVE  /\ k \in Nat /\ edges[k].id = k - 1
         /\ \E e \in EdgeOrdinals :
              /\ Resolves(e) /\ edges[k].type = Edge(e).type
              /\ edges[k].source = NewId(forest, nodeOrder, Source(e))
              /\ edges[k].target = NewId(forest, nodeOrder, Target(e))
<1> DEFINE g == Picked(edgeOrder, {j \in DOMAIN edgeOrder : Kept(edgeOrder[j])})
           M == ClassOf(edgeForest, g[k])
           f == Min(M)
           made(j) == [MergedEdge(forest, nodeOrder, ClassOf(edgeForest, g[j])) EXCEPT !.id = j - 1]
<1>1. Lists(edgeOrder, Representatives(edgeForest)) /\ edges = MergedEdges(forest, nodeOrder, edgeOrder)
  BY DEF FactsInv, EdgesMade, Built, NotFinished, NotGrouped, NotBuilt, NotOrdered, InOrder
<1>2. edges = [j \in DOMAIN g |-> made(j)]
  BY <1>1 DEF MergedEdges, Kept
<1>3. Lists(g, {r \in Representatives(edgeForest) : Kept(r)})
  BY <1>1, KeptIs
<1>4. k \in DOMAIN g /\ edges[k] = [MergedEdge(forest, nodeOrder, M) EXCEPT !.id = k - 1]
  <2> HIDE DEF g, made
  <2>1. k \in DOMAIN g /\ edges[k] = made(k)
    BY <1>2
  <2> QED
    BY <2>1 DEF made
<1> HIDE DEF g
<1>5. g[k] \in Representatives(edgeForest) /\ Kept(g[k]) /\ k \in Nat
  BY <1>3, <1>4 DEF Lists
<1>6. TypeOK /\ InputOK /\ EdgesGrouped
  BY DEF MergeInv, FactsInv
<1>7. EdgeSays(edges[k], M)
  BY <1>4, <1>5, <1>6, MergedEdgeSays
<1>8. f \in EdgeOrdinals /\ Resolves(f)
  BY <1>5, <1>6, FirstOfGroup DEF Kept
<1> HIDE DEF M
<1>9. edges[k].id = k - 1
  <2>1. IsEdge(Edge(f))
    BY <1>6, <1>8, InputFacts
  <2> DEFINE y == RewrittenEdge(forest, nodeOrder, f)
             m == MergedEdge(forest, nodeOrder, M)
  <2>2. "id" \in DOMAIN y
    BY <2>1 DEF RewrittenEdge, IsEdge
  <2>3. DOMAIN m = DOMAIN y
    <3> DEFINE ids == MergeIdentifiers(M, [e \in M |-> Edge(e).ids])
               labels == UNION {Edge(e).labels : e \in M}
               props == Restrict(Edge(f).props, DOMAIN Edge(f).props \cap TypedProperties)
    <3>1. m = IF Edge(f).type = "same_as" THEN y
              ELSE [y EXCEPT !.ids = ids, !.labels = labels, !.props = props, !.extra = NoProperties]
      BY DEF MergedEdge
    <3> HIDE DEF m, y, ids, labels, props
    <3> QED
      BY <3>1
  <2> HIDE DEF m, y
  <2>4. edges[k] = [m EXCEPT !.id = k - 1]
    BY <1>4 DEF m
  <2> QED
    BY <2>2, <2>3, <2>4
<1> QED
  BY <1>5, <1>7, <1>8, <1>9 DEF EdgeSays
\* The ends of an edge have the types that its type permits.
Suits(type, types) == type \in types \cup ExtensionTypes \cup {"boundary_ref"}

LEMMA EndsSuit ==
  ASSUME InputOK, AllValid, NEW e \in EdgeOrdinals, Resolves(e),
         Edge(e).type \notin ExtensionTypes \cup {"same_as"}
  PROVE  /\ Suits(Node(Source(e)).type, PermittedSources(Edge(e).type))
         /\ Suits(Node(Target(e)).type, PermittedTargets(Edge(e).type))
<1> DEFINE f == allEdges[e].file
<1>1. f \in DOMAIN files /\ \E k \in DOMAIN files[f].edges : Edge(e) = files[f].edges[k]
  BY InputComesFrom
<1> HIDE DEF f
<1>2. PICK k \in DOMAIN files[f].edges : Edge(e) = files[f].edges[k]
  BY <1>1
<1>3. NodeIdsUnique(files[f]) /\ EndpointTypesPermitted(files[f])
  BY <1>1 DEF AllValid, L1Valid
<1>4. ASSUME NEW id, NEW o \in Candidates(e, id)
      PROVE  NodesWithId(files[f], id) # {} /\ NodeAt(files[f], id) = Node(o)
  <2>1. o \in NodeOrdinals /\ allNodes[o].file = f /\ Node(o).id = id
    BY DEF Candidates, f
  <2>2. PICK j \in DOMAIN files[f].nodes : Node(o) = files[f].nodes[j]
    BY <2>1, InputComesFrom
  <2>3. NodesWithId(files[f], id) = {j}
    BY <1>3, <2>1, <2>2 DEF NodesWithId, NodeIdsUnique
  <2>4. j <= j
    <3>1. IsSequence(files[f].nodes)
      BY <1>1, InputsAssumption DEF InputOK, WellFormed
    <3> QED
      BY <2>2, <3>1 DEF IsSequence
  <2>5. (CHOOSE m \in NodesWithId(files[f], id) : \A n \in NodesWithId(files[f], id) : n <= m) = j
    BY <2>3, <2>4
  <2> QED
    BY <2>2, <2>3, <2>5 DEF NodeAt
<1>5. /\ Source(e) \in Candidates(e, Edge(e).source)
      /\ Target(e) \in Candidates(e, Edge(e).target)
  BY EndPoints
<1>6. /\ NodesWithId(files[f], Edge(e).source) # {}
      /\ NodeAt(files[f], Edge(e).source) = Node(Source(e))
      /\ NodesWithId(files[f], Edge(e).target) # {}
      /\ NodeAt(files[f], Edge(e).target) = Node(Target(e))
  BY <1>4, <1>5
<1> QED
  BY <1>2, <1>3, <1>6 DEF EndpointTypesPermitted, Suits

\* In the merged file the node with an id is the one that was given it.
LEMMA OutputNodeAt ==
  ASSUME MergeInv, FactsInv, Built, NotMixed, NEW o \in NodeOrdinals,
         NEW id, id = NewId(forest, nodeOrder, o)
  PROVE  NodesWithId(MergedFile, id) # {} /\ NodeAt(MergedFile, id).type = Node(o).type
<1>1. MergedFile.nodes = nodes
  BY DEF MergedFile
<1>2. PICK k \in DOMAIN nodes : nodes[k].id = id /\ nodes[k].type = Node(o).type
  BY OutputNodeOf
<1>3. \A j \in DOMAIN nodes : j \in Nat /\ nodes[j].id = j - 1
  BY OutputNode
<1>4. NodesWithId(MergedFile, id) = {k}
  BY <1>1, <1>2, <1>3 DEF NodesWithId
<1>5. k <= k
  BY <1>2, <1>3
<1>6. (CHOOSE m \in NodesWithId(MergedFile, id) : \A n \in NodesWithId(MergedFile, id) : n <= m) = k
  BY <1>4, <1>5
<1> QED
  BY <1>1, <1>2, <1>4, <1>6 DEF NodeAt

(* The result of valid files is valid when no group mixes what it must not *)
(* and there is no single reporting entity.                                *)
LEMMA MergedFileValid ==
  ASSUME MergeInv, FactsInv, Built, NotMixed, Cardinality(ReportingEntities) # 1
  PROVE  L1Valid(MergedFile)
<1> DEFINE file == MergedFile
<1>1. /\ file.nodes = nodes /\ file.edges = edges
      /\ file.reporting = None /\ file.scope = None
  BY DEF MergedFile
<1>2. \A k \in DOMAIN nodes :
        /\ k \in Nat /\ nodes[k].id = k - 1
        /\ RecordsValid(nodes[k]) /\ IdentifierTuplesUnique(nodes[k].ids)
  BY OutputNode
<1>3. \A k \in DOMAIN edges :
        /\ k \in Nat /\ edges[k].id = k - 1
        /\ \E e \in EdgeOrdinals :
             /\ Resolves(e) /\ edges[k].type = Edge(e).type
             /\ edges[k].source = NewId(forest, nodeOrder, Source(e))
             /\ edges[k].target = NewId(forest, nodeOrder, Target(e))
  BY OutputEdge
<1>4. InputOK /\ AllValid
  BY DEF MergeInv, NotMixed
<1>5. \A e \in EdgeOrdinals : Resolves(e) =>
        /\ NodesWithId(file, NewId(forest, nodeOrder, Source(e))) # {}
        /\ NodeAt(file, NewId(forest, nodeOrder, Source(e))).type = Node(Source(e)).type
        /\ NodesWithId(file, NewId(forest, nodeOrder, Target(e))) # {}
        /\ NodeAt(file, NewId(forest, nodeOrder, Target(e))).type = Node(Target(e)).type
  BY <1>4, EndPoints, OutputNodeAt
<1> HIDE DEF file
<1>6. NodeIdsUnique(file) /\ EdgeIdsUnique(file)
  BY <1>1, <1>2, <1>3 DEF NodeIdsUnique, EdgeIdsUnique
<1>7. EndpointsExist(file)
  BY <1>1, <1>3, <1>5 DEF EndpointsExist
<1>8. EdgeTypesKnown(file)
  BY <1>1, <1>3, <1>4, InputFacts DEF EdgeTypesKnown, IsEdge
<1>9. ReportingEntityIsOrganization(file)
  BY <1>1 DEF ReportingEntityIsOrganization
<1>10. EndpointTypesPermitted(file)
  <2> SUFFICES ASSUME NEW k \in DOMAIN edges,
                      edges[k].type \notin ExtensionTypes \cup {"same_as"}
               PROVE  /\ Suits(NodeAt(file, edges[k].source).type, PermittedSources(edges[k].type))
                      /\ Suits(NodeAt(file, edges[k].target).type, PermittedTargets(edges[k].type))
    BY <1>1 DEF EndpointTypesPermitted, Suits
  <2>1. PICK e \in EdgeOrdinals :
          /\ Resolves(e) /\ edges[k].type = Edge(e).type
          /\ edges[k].source = NewId(forest, nodeOrder, Source(e))
          /\ edges[k].target = NewId(forest, nodeOrder, Target(e))
    BY <1>3
  <2>2. /\ Suits(Node(Source(e)).type, PermittedSources(Edge(e).type))
        /\ Suits(Node(Target(e)).type, PermittedTargets(Edge(e).type))
    BY <1>4, <2>1, EndsSuit
  <2> QED
    BY <1>5, <2>1, <2>2
<1>11. IdentifiersValid(file) /\ BoundaryRefsOpaque(file)
  BY <1>1, <1>2 DEF IdentifiersValid, BoundaryRefsOpaque, RecordsValid
<1>12. ScopeRespected(file)
  <2>1. SensitivityAllowed(file.scope) = {"public", "restricted", "confidential"}
    BY <1>1, NoneAssumption DEF SensitivityAllowed
  <2> QED
    BY <1>1, <1>2, <2>1 DEF ScopeRespected, RecordsValid
<1> QED
  BY <1>6, <1>7, <1>8, <1>9, <1>10, <1>11, <1>12 DEF L1Valid, file

\* What was rejected is what the rules do not accept.
Refused == phase = "invalid" => ~L1Valid(MergedFile)

LEMMA RefusedStep ==
  ASSUME Refused, [Next]_vars
  PROVE  Refused'
<1> SUFFICES ASSUME phase' = "invalid" PROVE ~L1Valid(MergedFile)'
  BY DEF Refused
<1>1. /\ phase = "invalid" \/ ~L1Valid(MergedFile)
      /\ files' = files /\ nodes' = nodes /\ edges' = edges
  BY DEF vars, input, orders, results, Next, NoInputFiles, Start, MatchNodes, NextBucket,
         ComparePair, NodesCompared, ApplySameAs, MatchEdges, NextEdgeBucket, CompareEdges,
         Assemble, CheckGroupSizes, OrderNodes, BuildNodes, OrderEdges, BuildEdges, Finish,
         SaltFails, Accept, Reject
<1>2. ReportingEntities' = ReportingEntities
  BY <1>1 DEF ReportingEntities
<1>3. MergedFile' = MergedFile
  BY <1>1, <1>2 DEF MergedFile
<1> QED
  BY <1>1, <1>3 DEF Refused

(* The merge of valid files is refused for one of three reasons only: one  *)
(* reporting entity, whose id is stale, a group of several node types, or  *)
(* one of boundary references with different opaque identifiers.  Each of  *)
(* the nine rules holds of the merged file otherwise.                      *)
THEOREM MergeRejectsAsForeseen == Spec => []OnlyForeseenRejections
<1>1. MergeInv /\ FactsInv /\ Refused => OnlyForeseenRejections
  <2> SUFFICES ASSUME MergeInv, FactsInv, ~L1Valid(MergedFile), phase = "invalid"
               PROVE  \/ \E f \in DOMAIN files : ~L1Valid(files[f])
                      \/ Cardinality(ReportingEntities) = 1
                      \/ MixedTypes
                      \/ MixedBoundaries
    BY DEF OnlyForeseenRejections, Refused
  <2>1. Built
    BY DEF Built, NotFinished, NotGrouped, NotBuilt, NotOrdered
  <2> QED
    BY <2>1, MergedFileValid DEF NotMixed, AllValid
<1>2. Init => Refused
  BY DEF Init, Refused
<1>3. Refused /\ [Next]_vars => Refused'
  BY RefusedStep
<1> QED
  BY <1>1, <1>2, <1>3, MergeInvHolds, FactsInvHolds, PTL DEF Spec
=============================================================================
