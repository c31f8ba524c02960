---------------------------- MODULE SearchProofs ----------------------------
(***************************************************************************)
(* Proofs about Search, for all graphs and queries, and about the search   *)
(* for cycles of Cycles, for all graphs.                                   *)
(***************************************************************************)
EXTENDS Cycles, CommonLemmas

Active == phase \in {"searching", "tracing", "done"}
Waiting(m) == \E i \in 1 .. Len(queue) : queue[i][1] = m

GraphInv ==
  /\ IsGraph(graph)
  /\ rest \cup visited \subseteq graph.nodes

QueueInv ==
  phase = "searching" =>
    /\ queue \in Seq(visited \X Nat)
    /\ rest # {} => /\ at \in visited \X Nat
                    /\ rest \subseteq Neighbours(at[1])

\* All that has been seen is reached.
LeastInv ==
  Active =>
    /\ query.seeds \subseteq visited
    /\ \A S \in SUBSET graph.nodes :
         query.seeds \subseteq S /\ Closed(S) => visited \subseteq S

\* A node that has been seen waits, or is being looked at, or has been.
FrontierInv ==
  Unlimited =>
    /\ phase = "searching" =>
         \A m \in visited :
           \/ Waiting(m)
           \/ Neighbours(m) \subseteq visited
           \/ m = at[1] /\ Neighbours(m) \subseteq visited \cup rest
    /\ phase = "done" => Closed(visited)

PredInv ==
  phase \in {"searching", "tracing"} =>
    /\ pred = [m \in DOMAIN pred |-> pred[m]]
    /\ DOMAIN pred = visited \ query.seeds
    /\ \A m \in DOMAIN pred : pred[m] \in visited /\ m \in Neighbours(pred[m])

PathInv ==
  /\ phase \notin {"tracing", "done"} => path = <<>>
  /\ phase = "tracing" => path # <<>>
  /\ path # <<>> =>
       /\ path \in Seq(visited)
       /\ path[Len(path)] = query.goal
       /\ \A i \in 1 .. Len(path) - 1 : path[i + 1] \in Neighbours(path[i])
       /\ phase = "done" => path[1] \in query.seeds

IInv == GraphInv /\ QueueInv /\ LeastInv /\ FrontierInv /\ PredInv /\ PathInv

-----------------------------------------------------------------------------
LEMMA SingletonSeq ==
  ASSUME NEW S, NEW e \in S
  PROVE  <<e>> \in Seq(S) /\ Len(<<e>>) = 1 /\ <<e>>[1] = e
OBVIOUS

(* Steps of a search keep the graph and the query, and so who neighbours   *)
(* whom.                                                                   *)
LEMMA NeighboursKept ==
  ASSUME UNCHANGED <<graph, query>>
  PROVE  /\ \A m : Neighbours(m)' = Neighbours(m)
         /\ \A S : Closed(S)' = Closed(S)
         /\ Unlimited' = Unlimited
<1>1. \A m : Neighbours(m)' = Neighbours(m)
  BY DEF Neighbours, Forward, Backward, Passes
<1>2. \A S : Closed(S)' = Closed(S)
  BY <1>1 DEF Closed
<1> QED
  BY <1>1, <1>2 DEF Unlimited

LEMMA NeighboursAreNodes == \A m : Neighbours(m) \subseteq graph.nodes
BY DEF Neighbours

(* The first state satisfies the invariant.                                *)
LEMMA InitInv == SearchInit => IInv
<1> SUFFICES ASSUME SearchInit PROVE IInv
  OBVIOUS
<1>1. phase = "idle" /\ path = <<>> /\ rest = {} /\ visited = {} /\ IsGraph(graph)
  BY SearchAssumption DEF SearchInit
<1> QED
  BY <1>1 DEF IInv, GraphInv, QueueInv, LeastInv, FrontierInv, PredInv, PathInv, Active

(* A new query starts from the invariant, whatever the last one left.      *)
LEMMA BeginInv ==
  ASSUME IInv, NEW q, IsQuery(q), Begin(q)
  PROVE  IInv'
<1>g. graph' = graph /\ query' = q /\ rest' = {} /\ pred' = NoPred
  BY DEF Begin, BeginUnknown, BeginAtGoal, BeginSearch, Prepare
<1>1. CASE BeginUnknown(q)
  <2>1. phase' = "not_found" /\ path' = <<>> /\ visited' = {}
    BY <1>1 DEF BeginUnknown, NodeNotFound
  <2>2. GraphInv'
    BY <2>1, <1>g DEF IInv, GraphInv
  <2> QED
    BY <2>1, <2>2 DEF IInv, QueueInv, LeastInv, FrontierInv, PredInv, PathInv, Active
<1>2. CASE BeginAtGoal(q)
  <2>1. /\ phase' = "done" /\ visited' = q.seeds /\ path' = <<q.goal>>
        /\ q.goal \in q.seeds /\ q.seeds \subseteq graph.nodes
    BY <1>2 DEF BeginAtGoal, AlreadyThere, Known
  <2>2. ~Unlimited'
    <3>1. q.goal # NoneGiven
      BY <2>1 DEF IInv, GraphInv, IsGraph, IsQuery
    <3> QED
      BY <3>1, <1>g DEF Unlimited
  <2>3. LeastInv'
    BY <2>1, <1>g DEF LeastInv, Active
  <2>4. PathInv'
    <3>1. path' \in Seq(visited') /\ Len(path') = 1 /\ path'[1] = q.goal
      BY <2>1, SingletonSeq
    <3>2. path'[Len(path')] = query'.goal /\ path'[1] \in query'.seeds
      BY <3>1, <2>1, <1>g
    <3>3. 1 .. Len(path') - 1 = {}
      BY <3>1
    <3> QED
      BY <3>1, <3>2, <3>3, <2>1 DEF PathInv
  <2>5. GraphInv'
    BY <2>1, <1>g DEF IInv, GraphInv
  <2>6. QueueInv' /\ PredInv'
    BY <2>1 DEF QueueInv, PredInv
  <2>7. FrontierInv'
    BY <2>2 DEF FrontierInv
  <2> QED
    BY <2>3, <2>4, <2>5, <2>6, <2>7 DEF IInv
<1>3. CASE BeginSearch(q)
  <2>1. /\ phase' = "searching" /\ visited' = q.seeds /\ path' = <<>>
        /\ q.seeds \subseteq graph.nodes
    BY <1>3 DEF BeginSearch, Start, Known
  <2>11. GraphInv'
    BY <2>1, <1>g DEF IInv, GraphInv
  <2>2. PICK order \in [1 .. Cardinality(q.seeds) -> q.seeds] :
          /\ \A s \in q.seeds : \E i \in DOMAIN order : order[i] = s
          /\ queue' = [i \in DOMAIN order |-> <<order[i], 0>>]
    BY <1>3 DEF BeginSearch, Start
  <2>3. Cardinality(q.seeds) \in Nat
    BY FS_CardinalityType DEF IsGraph, IsQuery
  <2>4. /\ queue' = [i \in 1 .. Cardinality(q.seeds) |-> <<order[i], 0>>]
        /\ queue' \in Seq(q.seeds \X Nat)
        /\ Len(queue') = Cardinality(q.seeds)
    BY <2>2, <2>3
  <2>5. QueueInv'
    BY <2>1, <2>4, <1>g DEF QueueInv
  <2>6. LeastInv'
    BY <2>1, <1>g DEF LeastInv
  <2>7. \A m \in q.seeds : Waiting(m)'
    BY <2>2, <2>4 DEF Waiting
  <2>8. FrontierInv'
    BY <2>1, <2>7 DEF FrontierInv
  <2>9. PredInv'
    <3>1. DOMAIN NoPred = {} /\ NoPred = [m \in DOMAIN NoPred |-> NoPred[m]]
      BY DEF NoPred
    <3> QED
      BY <3>1, <2>1, <1>g DEF PredInv
  <2>10. PathInv'
    BY <2>1 DEF PathInv
  <2> QED
    BY <2>5, <2>6, <2>8, <2>9, <2>10, <2>11 DEF IInv
<1> QED
  BY <1>1, <1>2, <1>3 DEF Begin

(* Taking the oldest node from the queue.                                  *)
LEMMA PopInv ==
  ASSUME IInv, Pop
  PROVE  IInv'
<1>u. UNCHANGED <<graph, query, visited, pred, path, phase>>
  BY DEF Pop
<1>n. /\ \A m : Neighbours(m)' = Neighbours(m)
      /\ \A S : Closed(S)' = Closed(S)
      /\ Unlimited' = Unlimited
  BY <1>u, NeighboursKept
<1>1. /\ phase = "searching" /\ rest = {} /\ queue # <<>>
      /\ at' = Head(queue) /\ queue' = Tail(queue)
      /\ rest' \in {Neighbours(Head(queue)[1]), {}}
  BY DEF Pop, Searching
<1>2. /\ queue \in Seq(visited \X Nat)
      /\ Head(queue) \in visited \X Nat /\ Tail(queue) \in Seq(visited \X Nat)
      /\ Len(queue) \in Nat /\ Len(queue) > 0 /\ Len(Tail(queue)) = Len(queue) - 1
      /\ \A i \in 1 .. Len(queue) - 1 : Tail(queue)[i] = queue[i + 1]
      /\ Head(queue) = queue[1]
  BY <1>1 DEF IInv, QueueInv
<1>3. GraphInv'
  BY <1>u, <1>1, NeighboursAreNodes DEF IInv, GraphInv
<1>4. QueueInv'
  BY <1>u, <1>n, <1>1, <1>2 DEF QueueInv
<1>5. LeastInv'
  BY <1>u, <1>n DEF IInv, LeastInv, Active
<1>6. FrontierInv'
  <2> SUFFICES ASSUME Unlimited, NEW m \in visited
               PROVE  \/ Waiting(m)'
                      \/ Neighbours(m) \subseteq visited
                      \/ m = at'[1] /\ Neighbours(m) \subseteq visited \cup rest'
    BY <1>u, <1>n, <1>1 DEF FrontierInv
  <2>1. rest' = Neighbours(Head(queue)[1])
    BY DEF Pop, Unlimited
  <2>2. CASE Waiting(m)
    <3>1. PICK i \in 1 .. Len(queue) : queue[i][1] = m
      BY <2>2 DEF Waiting
    <3>2. CASE i = 1
      BY <3>1, <3>2, <2>1, <1>1, <1>2
    <3>3. CASE i # 1
      <4>1. i - 1 \in 1 .. Len(queue') /\ queue'[i - 1] = queue[i]
        BY <3>3, <1>1, <1>2
      <4> QED
        BY <4>1, <3>1 DEF Waiting
    <3> QED
      BY <3>2, <3>3
  <2>3. CASE ~Waiting(m)
    BY <2>3, <1>1 DEF IInv, FrontierInv
  <2> QED
    BY <2>2, <2>3
<1>7. PredInv'
  BY <1>u, <1>n DEF IInv, PredInv
<1>8. PathInv'
  BY <1>u, <1>n DEF IInv, PathInv
<1> QED
  BY <1>3, <1>4, <1>5, <1>6, <1>7, <1>8 DEF IInv

(* A neighbour that has been seen is passed over.                          *)
LEMMA SeeKnownInv ==
  ASSUME IInv, NEW n \in rest, SeeKnown(n)
  PROVE  IInv'
<1>u. UNCHANGED <<graph, query, visited, queue, at, pred, path, phase>>
  BY DEF SeeKnown
<1>n. /\ \A m : Neighbours(m)' = Neighbours(m)
      /\ \A S : Closed(S)' = Closed(S)
      /\ Unlimited' = Unlimited
  BY <1>u, NeighboursKept
<1>1. phase = "searching" /\ rest' = rest \ {n} /\ n \in visited
  BY DEF SeeKnown
<1>2. GraphInv' /\ QueueInv'
  BY <1>u, <1>n, <1>1 DEF IInv, GraphInv, QueueInv
<1>3. LeastInv'
  BY <1>u, <1>n DEF IInv, LeastInv, Active
<1>4. FrontierInv'
  <2>1. \A m : Waiting(m)' = Waiting(m)
    BY <1>u DEF Waiting
  <2>2. visited \cup rest' = visited \cup rest
    BY <1>1
  <2> QED
    BY <2>1, <2>2, <1>u, <1>n, <1>1 DEF IInv, FrontierInv
<1>5. PredInv' /\ PathInv'
  BY <1>u, <1>n DEF IInv, PredInv, PathInv
<1> QED
  BY <1>2, <1>3, <1>4, <1>5 DEF IInv

(* A neighbour seen for the first time.                                    *)
LEMMA SeeNewInv ==
  ASSUME IInv, NEW n \in rest, SeeNew(n)
  PROVE  IInv'
<1>u. UNCHANGED <<graph, query, at>>
  BY DEF SeeNew
<1>n. /\ \A m : Neighbours(m)' = Neighbours(m)
      /\ \A S : Closed(S)' = Closed(S)
      /\ Unlimited' = Unlimited
  BY <1>u, NeighboursKept
<1>1. /\ phase = "searching" /\ n \notin visited
      /\ rest' = rest \ {n} /\ visited' = visited \cup {n}
      /\ pred' = [m \in DOMAIN pred \cup {n} |-> IF m = n THEN at[1] ELSE pred[m]]
  BY DEF SeeNew
<1>2. /\ at \in visited \X Nat /\ at[1] \in visited /\ at[2] \in Nat
      /\ rest \subseteq Neighbours(at[1])
      /\ queue \in Seq(visited \X Nat)
  BY <1>1 DEF IInv, QueueInv
<1>3. path = <<>>
  BY <1>1 DEF IInv, PathInv
<1>4. GraphInv'
  BY <1>u, <1>1 DEF IInv, GraphInv
<1>5. LeastInv'
  <2>1. /\ query.seeds \subseteq visited
        /\ \A S \in SUBSET graph.nodes :
             query.seeds \subseteq S /\ Closed(S) => visited \subseteq S
    BY <1>1 DEF IInv, LeastInv, Active
  <2>2. ASSUME NEW S \in SUBSET graph.nodes, query.seeds \subseteq S, Closed(S)
        PROVE  visited' \subseteq S
    <3>1. at[1] \in S
      BY <2>1, <2>2, <1>2
    <3> QED
      BY <3>1, <2>1, <2>2, <1>1, <1>2 DEF Closed
  <2> QED
    BY <2>1, <2>2, <1>u, <1>n, <1>1 DEF LeastInv
<1>6. PredInv'
  <2>1. /\ DOMAIN pred = visited \ query.seeds
        /\ \A m \in DOMAIN pred : pred[m] \in visited /\ m \in Neighbours(pred[m])
        /\ query.seeds \subseteq visited
    BY <1>1 DEF IInv, PredInv, LeastInv, Active
  <2>2. DOMAIN pred' = visited' \ query.seeds
    BY <2>1, <1>1
  <2>3. ASSUME NEW m \in DOMAIN pred'
        PROVE  pred'[m] \in visited' /\ m \in Neighbours(pred'[m])
    BY <2>1, <1>1, <1>2
  <2>4. pred' = [m \in DOMAIN pred' |-> pred'[m]]
    BY <1>1
  <2> QED
    BY <2>2, <2>3, <2>4, <1>u, <1>n DEF PredInv
<1>7. CASE n = query.goal
  <2>1. phase' = "tracing" /\ path' = <<n>>
    BY <1>7 DEF SeeNew
  <2>2. ~Unlimited
    BY <1>7 DEF Unlimited, IInv, GraphInv, IsGraph, IsQuery
  <2>3. PathInv'
    BY <2>1, <1>1, <1>7, <1>u DEF PathInv
  <2> QED
    BY <2>1, <2>2, <2>3, <1>n, <1>4, <1>5, <1>6 DEF IInv, QueueInv, FrontierInv
<1>8. CASE n # query.goal
  <2>1. phase' = "searching" /\ path' = <<>> /\ queue' = Append(queue, <<n, at[2] + 1>>)
    BY <1>8, <1>1, <1>3 DEF SeeNew
  <2>2. /\ queue \in Seq(visited' \X Nat)
        /\ <<n, at[2] + 1>> \in visited' \X Nat
    BY <1>1, <1>2
  <2>3. /\ queue' \in Seq(visited' \X Nat)
        /\ Len(queue') = Len(queue) + 1 /\ Len(queue) \in Nat
        /\ \A i \in 1 .. Len(queue) : queue'[i] = queue[i]
        /\ queue'[Len(queue) + 1] = <<n, at[2] + 1>>
    BY <2>1, <2>2
  <2>4. QueueInv'
    BY <2>1, <2>3, <1>u, <1>n, <1>1, <1>2 DEF QueueInv
  <2>5. Waiting(n)'
    <3>1. Len(queue) + 1 \in 1 .. Len(queue') /\ queue'[Len(queue) + 1][1] = n
      BY <2>3
    <3> QED
      BY <3>1 DEF Waiting
  <2>6. ASSUME NEW m, Waiting(m)
        PROVE  Waiting(m)'
    <3>1. PICK i \in 1 .. Len(queue) : queue[i][1] = m
      BY <2>6 DEF Waiting
    <3>2. i \in 1 .. Len(queue') /\ queue'[i][1] = m
      BY <3>1, <2>3
    <3> QED
      BY <3>2 DEF Waiting
  <2>7. FrontierInv'
    <3> SUFFICES ASSUME Unlimited, NEW m \in visited'
                 PROVE  \/ Waiting(m)'
                        \/ Neighbours(m) \subseteq visited'
                        \/ m = at[1] /\ Neighbours(m) \subseteq visited' \cup rest'
      BY <2>1, <1>u, <1>n DEF FrontierInv
    <3>1. CASE m = n
      BY <3>1, <2>5
    <3>2. CASE m # n
      <4>1. \/ Waiting(m)
            \/ Neighbours(m) \subseteq visited
            \/ m = at[1] /\ Neighbours(m) \subseteq visited \cup rest
        BY <3>2, <1>1 DEF IInv, FrontierInv
      <4>2. visited \subseteq visited' /\ visited \cup rest \subseteq visited' \cup rest'
        BY <1>1
      <4> QED
        BY <4>1, <4>2, <2>6
    <3> QED
      BY <3>1, <3>2
  <2>8. PathInv'
    BY <2>1 DEF PathInv
  <2> QED
    BY <2>4, <2>7, <2>8, <1>4, <1>5, <1>6 DEF IInv
<1> QED
  BY <1>7, <1>8

(* The queue has run empty.                                                *)
LEMMA ExhaustedInv ==
  ASSUME IInv, Exhausted
  PROVE  IInv'
<1>u. UNCHANGED <<graph, query, visited, queue, at, rest, pred, path>>
  BY DEF Exhausted
<1>n. /\ \A m : Neighbours(m)' = Neighbours(m)
      /\ \A S : Closed(S)' = Closed(S)
      /\ Unlimited' = Unlimited
  BY <1>u, NeighboursKept
<1>1. phase = "searching" /\ phase' = "done" /\ rest = {} /\ queue = <<>>
  BY DEF Exhausted, Searching
<1>2. LeastInv'
  BY <1>u, <1>n, <1>1 DEF IInv, LeastInv, Active
<1>3. FrontierInv'
  <2> SUFFICES ASSUME Unlimited, NEW m \in visited
               PROVE  Neighbours(m) \subseteq visited
    BY <1>u, <1>n, <1>1 DEF FrontierInv, Closed
  <2>1. ~Waiting(m)
    BY <1>1 DEF Waiting
  <2> QED
    BY <2>1, <1>1 DEF IInv, FrontierInv
<1>4. path = <<>>
  BY <1>1 DEF IInv, PathInv
<1> QED
  BY <1>u, <1>1, <1>2, <1>3, <1>4 DEF IInv, GraphInv, QueueInv, PredInv, PathInv

(* One step back along the predecessors.                                   *)
LEMMA TraceInv ==
  ASSUME IInv, Trace
  PROVE  IInv'
<1>u. UNCHANGED <<graph, query, visited, queue, at, rest, pred>>
  BY DEF Trace
<1>n. /\ \A m : Neighbours(m)' = Neighbours(m)
      /\ \A S : Closed(S)' = Closed(S)
      /\ Unlimited' = Unlimited
  BY <1>u, NeighboursKept
<1>1. phase = "tracing" /\ phase' \in {"tracing", "done"}
  BY DEF Trace
<1>2. /\ path # <<>> /\ path \in Seq(visited) /\ path[Len(path)] = query.goal
      /\ \A i \in 1 .. Len(path) - 1 : path[i + 1] \in Neighbours(path[i])
      /\ Len(path) \in Nat /\ Len(path) > 0 /\ path[1] \in visited
  BY <1>1 DEF IInv, PathInv
<1>3. /\ DOMAIN pred = visited \ query.seeds
      /\ \A m \in DOMAIN pred : pred[m] \in visited /\ m \in Neighbours(pred[m])
  BY <1>1 DEF IInv, PredInv
<1>4. LeastInv'
  BY <1>u, <1>n, <1>1 DEF IInv, LeastInv, Active
<1>5. ~Unlimited
  <2>1. path[Len(path)] \in visited
    BY <1>2
  <2> QED
    BY <2>1, <1>2 DEF IInv, GraphInv, Unlimited, IsGraph, IsQuery
<1>6. PathInv'
  <2>1. CASE path[1] \in query.seeds
    BY <2>1, <1>1, <1>2, <1>u, <1>n DEF Trace, PathInv
  <2>2. CASE path[1] \notin query.seeds
    <3>1. path[1] \in DOMAIN pred
      BY <2>2, <1>2, <1>3
    <3>2. phase' = "tracing" /\ path' = <<pred[path[1]]>> \o path
      BY <3>1, <2>2, <1>1 DEF Trace
    <3>3. pred[path[1]] \in visited /\ path[1] \in Neighbours(pred[path[1]])
      BY <3>1, <1>3
    <3>4. /\ path' \in Seq(visited) /\ Len(path') = Len(path) + 1
          /\ path'[1] = pred[path[1]]
          /\ \A i \in 1 .. Len(path) : path'[i + 1] = path[i]
      BY <3>2, <3>3, <1>2
    <3>5. ASSUME NEW i \in 1 .. Len(path') - 1
          PROVE  path'[i + 1] \in Neighbours(path'[i])
      <4>1. CASE i = 1
        BY <4>1, <3>3, <3>4, <1>2
      <4>2. CASE i # 1
        <5>1. i - 1 \in 1 .. Len(path) - 1 /\ (i - 1) + 1 = i /\ i \in 1 .. Len(path)
          BY <4>2, <3>4, <1>2
        <5>2. path'[(i - 1) + 1] = path[i - 1] /\ path'[i + 1] = path[i]
          BY <5>1, <3>4
        <5> QED
          BY <5>1, <5>2, <1>2
      <4> QED
        BY <4>1, <4>2
    <3>6. path'[Len(path')] = query.goal /\ path' # <<>>
      BY <3>4, <1>2
    <3> QED
      BY <3>2, <3>4, <3>5, <3>6, <1>u, <1>n DEF PathInv
  <2> QED
    BY <2>1, <2>2
<1> QED
  BY <1>u, <1>n, <1>1, <1>4, <1>5, <1>6
  DEF IInv, GraphInv, QueueInv, FrontierInv, PredInv

-----------------------------------------------------------------------------
LEMMA SearchStepInv == IInv /\ SearchStep => IInv'
BY PopInv, SeeKnownInv, SeeNewInv, ExhaustedInv, TraceInv DEF SearchStep

LEMMA SearchRests == IInv /\ UNCHANGED searchVars => IInv'
<1> SUFFICES ASSUME IInv, UNCHANGED searchVars PROVE IInv'
  OBVIOUS
<1>u. UNCHANGED <<graph, query, visited, queue, at, rest, pred, path, phase>>
  BY DEF searchVars
<1>n. /\ \A m : Neighbours(m)' = Neighbours(m)
      /\ \A S : Closed(S)' = Closed(S)
      /\ Unlimited' = Unlimited
  BY <1>u, NeighboursKept
<1> QED
  BY <1>u, <1>n DEF IInv, GraphInv, QueueInv, LeastInv, FrontierInv, PredInv,
                    PathInv, Active, Waiting

(* The invariant holds in every state.                                     *)
THEOREM SearchInvariant == SearchSpec => []IInv
<1>1. SearchInit => IInv
  BY InitInv
<1>2. IInv /\ [SearchNext]_searchVars => IInv'
  <2> SUFFICES ASSUME IInv, [SearchNext]_searchVars PROVE IInv'
    OBVIOUS
  <2>1. ASSUME NEW q \in Queries, Begin(q) PROVE IInv'
    BY <2>1, SearchAssumption, BeginInv
  <2> QED
    BY <2>1, SearchStepInv, SearchRests DEF SearchNext
<1> QED
  BY <1>1, <1>2, PTL DEF SearchSpec

LEMMA SoundSearch == IInv => SearchSound
BY DEF IInv, LeastInv, FrontierInv, PathInv, SearchSound, Active

(* reachable_from returns the least closed set around its start, and the   *)
(* path of shortest_path is a path from the start to the goal.             *)
THEOREM SearchIsSound == SearchSpec => []SearchSound
BY SoundSearch, SearchInvariant, PTL
-----------------------------------------------------------------------------
(* How many hops: the balls around the seeds, level by level.              *)

Grow(S) == S \cup UNION {Neighbours(m) : m \in S}

BallIs(g) == g = [j \in Nat |-> IF j = 0 THEN query.seeds
                                ELSE g[j - 1] \cup UNION {Neighbours(m) : m \in g[j - 1]}]

LEMMA BallChosen == \A k : Ball(k) = (CHOOSE g : BallIs(g))[k]
BY DEF Ball, BallIs

LEMMA BallKept ==
  ASSUME UNCHANGED <<graph, query>>
  PROVE  \A k : Ball(k)' = Ball(k)
<1>1. \A m : Neighbours(m)' = Neighbours(m)
  BY NeighboursKept
<1>2. \A g : BallIs(g)' <=> BallIs(g)
  BY <1>1 DEF BallIs
<1>3. (CHOOSE g : BallIs(g))' = (CHOOSE g : BallIs(g))
  BY <1>2, Zenon
<1>4. \A k : Ball(k)' = (CHOOSE g : BallIs(g))'[k]
  BY DEF Ball, BallIs
<1> QED
  BY <1>3, <1>4, BallChosen

LEMMA BallSteps ==
  ASSUME query.seeds \subseteq graph.nodes
  PROVE  /\ Ball(0) = query.seeds
         /\ \A k \in Nat : Ball(k + 1) = Grow(Ball(k)) /\ Ball(k) \subseteq graph.nodes
<1> DEFINE V == SUBSET graph.nodes
           base == query.seeds
           step == [n \in Nat |-> [S \in V |-> Grow(S)]]
<1>1. base \in V /\ step \in [Nat -> [V -> V]]
  BY DEF Grow, Neighbours
<1>2. \A n \in Nat, S \in V : step[n][S] = Grow(S)
  OBVIOUS
<1> HIDE DEF V, step
<1>3. PICK f : Recurs(V, base, step, f)
  BY <1>1, Recursion
<1>4. f \in [Nat -> V] /\ f[0] = query.seeds /\ \A n \in Nat : f[n + 1] = Grow(f[n])
  BY <1>2, <1>3 DEF Recurs
<1>5. \A j \in Nat : f[j] = IF j = 0 THEN query.seeds
                            ELSE f[j - 1] \cup UNION {Neighbours(m) : m \in f[j - 1]}
  <2> SUFFICES ASSUME NEW j \in Nat, j # 0
               PROVE  f[j] = f[j - 1] \cup UNION {Neighbours(m) : m \in f[j - 1]}
    BY <1>4
  <2>1. j - 1 \in Nat /\ (j - 1) + 1 = j
    OBVIOUS
  <2>2. f[(j - 1) + 1] = Grow(f[j - 1])
    BY <1>4, <2>1
  <2> QED
    BY <2>1, <2>2 DEF Grow
<1>6. BallIs(f)
  BY <1>4, <1>5 DEF BallIs
<1> DEFINE b == CHOOSE g : BallIs(g)
<1>7. BallIs(b)
  BY <1>6
<1>8. \A k : Ball(k) = b[k]
  BY BallChosen
<1> HIDE DEF b
<1>9. b[0] = query.seeds
  BY <1>7 DEF BallIs
<1>10. \A k \in Nat : b[k + 1] = Grow(b[k])
  BY <1>7 DEF BallIs, Grow
<1> DEFINE T == {k \in Nat : b[k] \subseteq graph.nodes}
<1>11. 0 \in T
  BY <1>9
<1>12. \A k \in Nat : k \in T => k + 1 \in T
  BY <1>10 DEF Grow, Neighbours
<1> HIDE DEF T
<1>13. Nat \subseteq T
  BY <1>11, <1>12, Induction
<1>14. \A k \in Nat : b[k] \subseteq graph.nodes
  BY <1>13 DEF T
<1> QED
  BY <1>8, <1>9, <1>10, <1>14

BallRule ==
  query.seeds \subseteq graph.nodes =>
    /\ Ball(0) = query.seeds
    /\ \A k \in Nat : Ball(k + 1) = Grow(Ball(k)) /\ Ball(k) \subseteq graph.nodes

LEMMA BallRuleHolds == BallRule
BY BallSteps DEF BallRule


LEMMA BallGrows ==
  ASSUME query.seeds \subseteq graph.nodes, NEW j \in Nat, NEW k \in Nat, j <= k
  PROVE  Ball(j) \subseteq Ball(k)
<1> DEFINE T == {d \in Nat : Ball(j) \subseteq Ball(j + d)}
<1>1. 0 \in T
  OBVIOUS
<1>2. ASSUME NEW d \in Nat, d \in T PROVE d + 1 \in T
  <2>1. Ball((j + d) + 1) = Grow(Ball(j + d)) /\ j + (d + 1) = (j + d) + 1
    BY BallSteps
  <2> QED
    BY <1>2, <2>1 DEF Grow
<1> HIDE DEF T
<1>3. Nat \subseteq T
  BY <1>1, <1>2, Induction
<1>4. k - j \in T /\ j + (k - j) = k
  BY <1>3
<1> QED
  BY <1>4 DEF T

LEMMA BallSettles ==
  ASSUME query.seeds \subseteq graph.nodes, NEW k \in Nat, Closed(Ball(k)), NEW n \in Nat
  PROVE  Ball(n) \subseteq Ball(k)
<1> DEFINE T == {d \in Nat : Ball(d) \subseteq Ball(k)}
<1>1. 0 \in T
  BY BallGrows
<1>2. ASSUME NEW d \in Nat, d \in T PROVE d + 1 \in T
  <2>1. Ball(d + 1) = Grow(Ball(d))
    BY BallSteps
  <2> QED
    BY <1>2, <2>1 DEF Grow, Closed
<1> HIDE DEF T
<1>3. Nat \subseteq T
  BY <1>1, <1>2, Induction
<1> QED
  BY <1>3 DEF T

(* After as many hops as there are nodes nothing new is found.             *)
LEMMA BallFar ==
  ASSUME query.seeds \subseteq graph.nodes, IsFiniteSet(graph.nodes)
  PROVE  Far \in Nat /\ Closed(Ball(Far))
<1>1. Far \in Nat
  BY FS_CardinalityType DEF Far
<1>2. ASSUME NEW k \in Nat
      PROVE  /\ Ball(k) \subseteq graph.nodes /\ Ball(k + 1) = Grow(Ball(k))
             /\ IsFiniteSet(Ball(k)) /\ Cardinality(Ball(k)) \in Nat
  <2>1. Ball(k) \subseteq graph.nodes /\ Ball(k + 1) = Grow(Ball(k))
    BY BallSteps
  <2>2. IsFiniteSet(Ball(k))
    BY <2>1, FS_Subset
  <2> QED
    BY <2>1, <2>2, FS_CardinalityType
<1> DEFINE T == {k \in Nat : Closed(Ball(k)) \/ Cardinality(Ball(k)) >= k}
<1>3. 0 \in T
  BY <1>2
<1>4. ASSUME NEW k \in Nat, k \in T PROVE k + 1 \in T
  <2>1. CASE Closed(Ball(k))
    <3>1. Ball(k + 1) = Ball(k)
      <4>1. Grow(Ball(k)) = Ball(k)
        BY <2>1 DEF Grow, Closed
      <4> QED
        BY <4>1, <1>2
    <3> QED
      BY <3>1, <2>1
  <2>2. CASE ~Closed(Ball(k))
    <3>1. Ball(k) \subseteq Ball(k + 1) /\ Ball(k) # Ball(k + 1)
      BY <2>2, <1>2 DEF Grow, Closed
    <3>2. k + 1 \in Nat
      OBVIOUS
    <3>3. IsFiniteSet(Ball(k + 1)) /\ Cardinality(Ball(k + 1)) \in Nat
      BY <1>2, <3>2
    <3>4. /\ Cardinality(Ball(k)) <= Cardinality(Ball(k + 1))
          /\ Cardinality(Ball(k)) = Cardinality(Ball(k + 1)) => Ball(k) = Ball(k + 1)
      BY <3>1, <3>3, FS_Subset
    <3>5. Cardinality(Ball(k)) >= k /\ Cardinality(Ball(k)) \in Nat
      BY <1>2, <1>4, <2>2
    <3>6. Cardinality(Ball(k + 1)) >= k + 1
      BY <3>1, <3>3, <3>4, <3>5
    <3> QED
      BY <3>6
  <2> QED
    BY <2>1, <2>2
<1> HIDE DEF T
<1>5. Nat \subseteq T
  BY <1>3, <1>4, Induction
<1>6. Far \in T
  BY <1>1, <1>5
<1>7. CASE Cardinality(Ball(Far)) >= Far
  <2>1. Cardinality(Ball(Far)) <= Cardinality(graph.nodes)
    BY <1>1, <1>2, FS_Subset
  <2>2. Cardinality(Ball(Far)) = Cardinality(graph.nodes)
    BY <1>1, <1>2, <1>7, <2>1 DEF Far
  <2>3. Ball(Far) = graph.nodes
    BY <1>1, <1>2, <2>2, FS_Subset
  <2> QED
    BY <1>1, <2>3 DEF Closed, Neighbours
<1> QED
  BY <1>1, <1>6, <1>7 DEF T

\* A node exactly h hops away.
Exact(m, h) == m \in Ball(h) /\ (h > 0 => m \notin Ball(h - 1))
Within(h) == query.limit = NoneGiven \/ h <= query.limit
WaitingAt(m, h) == \E i \in 1 .. Len(queue) : queue[i] = <<m, h>>

\* The search works off level k: the queue holds what is left of it, and
\* behind that what has been found of the next.
LevelInv(k) ==
  /\ Ball(k) \subseteq visited /\ visited \subseteq Ball(k + 1)
  /\ Within(k)
  /\ \A i \in 1 .. Len(queue) :
       queue[i][2] \in {k, k + 1} /\ Exact(queue[i][1], queue[i][2]) /\ Within(queue[i][2])
  /\ \A i, j \in 1 .. Len(queue) : i <= j => queue[i][2] <= queue[j][2]
  /\ rest # {} => at[2] = k /\ Exact(at[1], k) /\ Within(k + 1)
  /\ \A m \in visited \ Ball(k) : WaitingAt(m, k + 1)
  /\ \A m \in Ball(k) :
       \/ WaitingAt(m, k)
       \/ ~Within(k + 1)
       \/ Neighbours(m) \subseteq visited
       \/ m = at[1] /\ Neighbours(m) \subseteq visited \cup rest

AskedInv == Active => IsQuery(query) /\ query.seeds \subseteq graph.nodes
LevelsInv == phase = "searching" => query.goal \notin visited /\ \E k \in Nat : LevelInv(k)
PredLevels ==
  phase \in {"searching", "tracing"} =>
    \A m \in DOMAIN pred : \E h \in Nat : Exact(pred[m], h) /\ Exact(m, h + 1)
PathLevels ==
  path # <<>> =>
    \E h, far \in Nat :
      far = h + Len(path) - 1 /\ Exact(path[1], h) /\ Exact(query.goal, far)
SeenInv ==
  phase = "done" =>
    /\ query.goal = NoneGiven =>
         visited = Ball(IF query.limit = NoneGiven THEN Far ELSE query.limit)
    /\ query.goal # NoneGiven /\ path = <<>> => query.goal \notin Ball(Far)

HopsInv == AskedInv /\ LevelsInv /\ PredLevels /\ PathLevels /\ SeenInv

(* A node is at one distance only.                                         *)
LEMMA ExactOnce ==
  ASSUME query.seeds \subseteq graph.nodes, NEW m, NEW g \in Nat, NEW h \in Nat,
         Exact(m, g), Exact(m, h)
  PROVE  g = h
<1>1. ASSUME NEW i \in Nat, NEW j \in Nat, i < j, Exact(m, i), Exact(m, j) PROVE FALSE
  <2>1. j - 1 \in Nat /\ i <= j - 1 /\ j > 0
    BY <1>1
  <2>2. Ball(i) \subseteq Ball(j - 1)
    BY <2>1, BallGrows
  <2> QED
    BY <2>1, <2>2, <1>1 DEF Exact
<1>2. g < h \/ h < g \/ g = h
  OBVIOUS
<1> QED
  BY <1>1, <1>2

LEMMA LevelsKept ==
  ASSUME UNCHANGED <<graph, query>>
  PROVE  /\ \A m : Neighbours(m)' = Neighbours(m)
         /\ \A k : Ball(k)' = Ball(k)
         /\ \A m, h : Exact(m, h)' = Exact(m, h)
         /\ \A h : Within(h)' = Within(h)
         /\ Far' = Far
<1>1. \A m : Neighbours(m)' = Neighbours(m)
  BY NeighboursKept
<1>2. \A k : Ball(k)' = Ball(k)
  BY BallKept
<1>3. \A m, h : Exact(m, h)' = Exact(m, h)
  BY <1>2 DEF Exact
<1> QED
  BY <1>1, <1>2, <1>3 DEF Within, Far

LEMMA HopsInit == SearchInit => HopsInv
<1> SUFFICES ASSUME SearchInit PROVE HopsInv
  OBVIOUS
<1>1. phase = "idle" /\ path = <<>>
  BY DEF SearchInit
<1> QED
  BY <1>1 DEF HopsInv, AskedInv, LevelsInv, PredLevels, PathLevels, SeenInv, Active

(* A new query begins with the seeds, the nodes no hop away.               *)
LEMMA HopsBegin ==
  ASSUME IInv, HopsInv, NEW q, IsQuery(q), Begin(q)
  PROVE  HopsInv'
<1>g. graph' = graph /\ query' = q /\ rest' = {} /\ pred' = NoPred
  BY DEF Begin, BeginUnknown, BeginAtGoal, BeginSearch, Prepare
<1>b. BallRule'
  BY BallRuleHolds, PTL
<1>1. CASE BeginUnknown(q)
  <2>1. phase' = "not_found" /\ path' = <<>>
    BY <1>1 DEF BeginUnknown, NodeNotFound
  <2> QED
    BY <2>1 DEF HopsInv, AskedInv, LevelsInv, PredLevels, PathLevels, SeenInv, Active
<1>2. CASE BeginAtGoal(q)
  <2>1. /\ phase' = "done" /\ path' = <<q.goal>>
        /\ q.goal \in q.seeds /\ q.seeds \subseteq graph.nodes
    BY <1>2 DEF BeginAtGoal, AlreadyThere, Known
  <2>2. q.goal # NoneGiven
    BY <2>1 DEF IInv, GraphInv, IsGraph, IsQuery
  <2>3. Ball(0)' = q.seeds
    BY <2>1, <1>g, <1>b DEF BallRule
  <2>5. path' # <<>> /\ path'[1] = q.goal /\ Len(path') = 1 /\ query'.goal = q.goal
    BY <2>1, <1>g
  <2>6. PathLevels'
    <3>1. 0 + Len(path') - 1 = 0
      BY <2>5
    <3>2. path'[1] \in Ball(0)' /\ query'.goal \in Ball(0)'
      BY <2>1, <2>3, <2>5
    <3>3. Exact(path[1], 0)'
      BY <3>2 DEF Exact
    <3>4. Exact(query.goal, 0)'
      BY <3>2 DEF Exact
    <3> QED
      BY <3>1, <3>3, <3>4 DEF PathLevels
  <2> QED
    BY <2>1, <2>2, <2>5, <2>6, <1>g
    DEF HopsInv, AskedInv, LevelsInv, PredLevels, SeenInv
<1>3. CASE BeginSearch(q)
  <2>1. /\ phase' = "searching" /\ visited' = q.seeds /\ path' = <<>>
        /\ q.seeds \subseteq graph.nodes /\ q.goal \notin q.seeds
    BY <1>3 DEF BeginSearch, Start, Known
  <2>2. PICK order \in [1 .. Cardinality(q.seeds) -> q.seeds] :
          /\ \A s \in q.seeds : \E i \in DOMAIN order : order[i] = s
          /\ queue' = [i \in DOMAIN order |-> <<order[i], 0>>]
    BY <1>3 DEF BeginSearch, Start
  <2>3. Cardinality(q.seeds) \in Nat
    BY FS_CardinalityType DEF IsGraph, IsQuery
  <2>4. /\ queue' = [i \in 1 .. Cardinality(q.seeds) |-> <<order[i], 0>>]
        /\ Len(queue') = Cardinality(q.seeds)
        /\ \A i \in 1 .. Len(queue') : queue'[i] = <<order[i], 0>> /\ order[i] \in q.seeds
    BY <2>2, <2>3
  <2>5. Ball(0)' = q.seeds /\ Ball(1)' = Grow(Ball(0))'
    <3>1. Ball(0 + 1)' = Grow(Ball(0))' /\ 0 + 1 = 1
      BY <2>1, <1>g, <1>b DEF BallRule
    <3> QED
      BY <3>1, <2>1, <1>g, <1>b DEF BallRule
  <2>6. Within(0)'
    <3>1. q.limit = NoneGiven \/ 0 <= q.limit
      BY DEF IsGraph, IsQuery
    <3> QED
      BY <3>1, <1>g DEF Within
  <2>7. \A s \in q.seeds : WaitingAt(s, 0)'
    <3> SUFFICES ASSUME NEW s \in q.seeds PROVE WaitingAt(s, 0)'
      OBVIOUS
    <3>2. PICK i \in DOMAIN order : order[i] = s
      BY <2>2
    <3>3. i \in 1 .. Len(queue') /\ queue'[i] = <<s, 0>>
      BY <3>2, <2>2, <2>4
    <3> QED
      BY <3>3 DEF WaitingAt
  <2>8. LevelInv(0)'
    <3>1. Ball(0)' \subseteq visited' /\ visited' \subseteq Ball(0 + 1)'
      BY <2>1, <2>5 DEF Grow
    <3>2. \A i \in 1 .. Len(queue') : queue'[i][2] = 0 /\ queue'[i][1] \in Ball(0)'
      BY <2>4, <2>5
    <3>21. ASSUME NEW i \in 1 .. Len(queue')
           PROVE  /\ queue'[i][2] \in {0, 0 + 1}
                  /\ Exact(queue[i][1], queue[i][2])'
                  /\ Within(queue[i][2])'
      <4>1. Exact(queue[i][1], queue[i][2])'
        BY <3>2 DEF Exact
      <4>2. Within(queue[i][2])'
        BY <3>2, <2>6 DEF Within
      <4> QED
        BY <3>2, <4>1, <4>2
    <3>3. \A i, j \in 1 .. Len(queue') : i <= j => queue'[i][2] <= queue'[j][2]
      BY <3>2
    <3>4. visited' \ Ball(0)' = {}
      BY <2>1, <2>5
    <3>5. \A m \in Ball(0)' : WaitingAt(m, 0)'
      BY <2>5, <2>7
    <3> QED
      BY <3>1, <3>21, <3>3, <3>4, <3>5, <2>6, <1>g DEF LevelInv
  <2>9. LevelsInv'
    BY <2>1, <2>8, <1>g DEF LevelsInv
  <2>10. PredLevels'
    BY <1>g DEF PredLevels, NoPred
  <2> QED
    BY <2>1, <2>9, <2>10, <1>g DEF HopsInv, AskedInv, PathLevels, SeenInv
<1> QED
  BY <1>1, <1>2, <1>3 DEF Begin

(* When nothing of level k is left in the queue, level k + 1 is complete.  *)
LEMMA LevelComplete ==
  ASSUME query.seeds \subseteq graph.nodes, NEW k \in Nat, LevelInv(k), rest = {},
         \A m : ~WaitingAt(m, k), Within(k + 1)
  PROVE  visited = Ball(k + 1) /\ \A m \in Ball(k) : Neighbours(m) \subseteq visited
<1>1. \A m \in Ball(k) : Neighbours(m) \subseteq visited
  BY DEF LevelInv
<1>2. Ball(k + 1) = Grow(Ball(k))
  BY BallSteps
<1> QED
  BY <1>1, <1>2 DEF LevelInv, Grow

(* Then the search is at the next level.                                   *)
LEMMA LevelAdvances ==
  ASSUME query.seeds \subseteq graph.nodes, NEW k \in Nat, LevelInv(k), rest = {},
         Len(queue) \in Nat, Len(queue) > 0, queue[1][2] = k + 1
  PROVE  LevelInv(k + 1)
<1>1. /\ \A i \in 1 .. Len(queue) :
           queue[i][2] \in {k, k + 1} /\ Exact(queue[i][1], queue[i][2]) /\ Within(queue[i][2])
      /\ \A i, j \in 1 .. Len(queue) : i <= j => queue[i][2] <= queue[j][2]
  BY DEF LevelInv
<1>2. \A i \in 1 .. Len(queue) : queue[i][2] = k + 1
  <2> SUFFICES ASSUME NEW i \in 1 .. Len(queue) PROVE queue[i][2] = k + 1
    OBVIOUS
  <2>1. 1 \in 1 .. Len(queue) /\ 1 <= i
    OBVIOUS
  <2>2. queue[1][2] <= queue[i][2] /\ queue[i][2] \in {k, k + 1}
    BY <1>1, <2>1
  <2> QED
    BY <2>2
<1>3. \A m : ~WaitingAt(m, k)
  <2> SUFFICES ASSUME NEW m, WaitingAt(m, k) PROVE FALSE
    OBVIOUS
  <2>1. PICK i \in 1 .. Len(queue) : queue[i] = <<m, k>>
    BY DEF WaitingAt
  <2>2. queue[i][2] = k /\ queue[i][2] = k + 1
    BY <1>2, <2>1
  <2> QED
    BY <2>2
<1>4. Within(k + 1)
  <2>1. 1 \in 1 .. Len(queue)
    OBVIOUS
  <2> QED
    BY <1>1, <2>1
<1>5. visited = Ball(k + 1) /\ \A m \in Ball(k) : Neighbours(m) \subseteq visited
  BY <1>3, <1>4, LevelComplete
<1>6. visited \subseteq Ball((k + 1) + 1)
  <2>1. k + 1 \in Nat
    OBVIOUS
  <2>2. Ball((k + 1) + 1) = Grow(Ball(k + 1))
    BY <2>1, BallSteps
  <2> QED
    BY <2>2, <1>5 DEF Grow
<1>7. \A m \in Ball(k + 1) : m \in Ball(k) \/ WaitingAt(m, k + 1)
  BY <1>5 DEF LevelInv
<1>8. \A i \in 1 .. Len(queue) : queue[i][2] \in {k + 1, (k + 1) + 1}
  BY <1>2
<1> QED
  BY <1>1, <1>4, <1>5, <1>6, <1>7, <1>8 DEF LevelInv

(* Taking the oldest node from the queue.                                  *)
LEMMA HopsPop ==
  ASSUME IInv, HopsInv, Pop
  PROVE  HopsInv'
<1>u. UNCHANGED <<graph, query, visited, pred, path, phase>>
  BY DEF Pop
<1>n. /\ \A m : Neighbours(m)' = Neighbours(m)
      /\ \A k : Ball(k)' = Ball(k)
      /\ \A m, h : Exact(m, h)' = Exact(m, h)
      /\ \A h : Within(h)' = Within(h)
      /\ Far' = Far
  BY <1>u, LevelsKept
<1>1. /\ phase = "searching" /\ rest = {} /\ queue # <<>>
      /\ at' = Head(queue) /\ queue' = Tail(queue)
      /\ rest' = IF query.limit = NoneGiven \/ Head(queue)[2] < query.limit
                   THEN Neighbours(Head(queue)[1]) ELSE {}
  BY DEF Pop, Searching
<1>2. /\ queue \in Seq(visited \X Nat)
      /\ Len(queue) \in Nat /\ Len(queue) > 0 /\ Len(Tail(queue)) = Len(queue) - 1
      /\ \A i \in 1 .. Len(queue) - 1 : Tail(queue)[i] = queue[i + 1]
      /\ Head(queue) = queue[1] /\ queue[1] \in visited \X Nat
  BY <1>1 DEF IInv, QueueInv
<1>3. IsQuery(query) /\ query.seeds \subseteq graph.nodes
  BY <1>1 DEF HopsInv, AskedInv, Active
<1>4. PICK k \in Nat : LevelInv(k) /\ queue[1][2] = k
  <2>1. PICK j \in Nat : LevelInv(j)
    BY <1>1 DEF HopsInv, LevelsInv
  <2>2. queue[1][2] \in {j, j + 1}
    <3>1. 1 \in 1 .. Len(queue)
      BY <1>2
    <3> QED
      BY <2>1, <3>1 DEF LevelInv
  <2>3. CASE queue[1][2] = j
    BY <2>1, <2>3
  <2>4. CASE queue[1][2] = j + 1
    <3>1. LevelInv(j + 1)
      BY <2>1, <2>4, <1>1, <1>2, <1>3, LevelAdvances
    <3> QED
      BY <3>1, <2>4
  <2> QED
    BY <2>2, <2>3, <2>4
<1>5. /\ Ball(k) \subseteq visited /\ visited \subseteq Ball(k + 1) /\ Within(k)
      /\ \A i \in 1 .. Len(queue) :
           queue[i][2] \in {k, k + 1} /\ Exact(queue[i][1], queue[i][2]) /\ Within(queue[i][2])
      /\ \A i, j \in 1 .. Len(queue) : i <= j => queue[i][2] <= queue[j][2]
      /\ \A m \in visited \ Ball(k) : WaitingAt(m, k + 1)
      /\ \A m \in Ball(k) :
           WaitingAt(m, k) \/ ~Within(k + 1) \/ Neighbours(m) \subseteq visited
  BY <1>1, <1>4 DEF LevelInv
<1>6. \A i \in 1 .. Len(queue') : i + 1 \in 1 .. Len(queue) /\ queue'[i] = queue[i + 1]
  BY <1>1, <1>2
<1>7. ASSUME NEW m, NEW h, WaitingAt(m, h)
      PROVE  queue[1] = <<m, h>> \/ WaitingAt(m, h)'
  <2>1. PICK i \in 1 .. Len(queue) : queue[i] = <<m, h>>
    BY <1>7 DEF WaitingAt
  <2>2. CASE i = 1
    BY <2>1, <2>2
  <2>3. CASE i # 1
    <3>1. i - 1 \in 1 .. Len(queue') /\ (i - 1) + 1 = i
      BY <2>3, <1>1, <1>2
    <3>2. queue'[i - 1] = queue[i]
      BY <3>1, <1>6
    <3> QED
      BY <3>1, <3>2, <2>1 DEF WaitingAt
  <2> QED
    BY <2>2, <2>3
<1>8. rest' = Neighbours(queue[1][1]) \/ (rest' = {} /\ ~Within(k + 1))
  <2>1. query.limit \in Nat \cup {NoneGiven}
    BY <1>3 DEF IsGraph, IsQuery
  <2>2. (query.limit = NoneGiven \/ k < query.limit) <=> Within(k + 1)
    BY <2>1 DEF Within
  <2> QED
    BY <2>2, <1>1, <1>2, <1>4
<1>9. rest' # {} => at'[2] = k /\ Exact(at'[1], k) /\ Within(k + 1)
  <2>1. at'[2] = k /\ Exact(at'[1], k)
    <3>1. 1 \in 1 .. Len(queue) /\ at' = queue[1]
      BY <1>1, <1>2
    <3> QED
      BY <3>1, <1>4, <1>5
  <2>2. rest' # {} => Within(k + 1)
    <3>1. query.limit \in Nat \cup {NoneGiven}
      BY <1>3 DEF IsGraph, IsQuery
    <3> QED
      BY <3>1, <1>1, <1>2, <1>4 DEF Within
  <2> QED
    BY <2>1, <2>2
<1>10. \A m \in visited \ Ball(k) : WaitingAt(m, k + 1)'
  <2> SUFFICES ASSUME NEW m \in visited \ Ball(k) PROVE WaitingAt(m, k + 1)'
    OBVIOUS
  <2>1. queue[1] # <<m, k + 1>>
    <3>1. <<m, k + 1>>[2] = k + 1 /\ k + 1 # k
      OBVIOUS
    <3> QED
      BY <3>1, <1>4
  <2> QED
    BY <2>1, <1>5, <1>7
<1>11. ASSUME NEW m \in Ball(k)
       PROVE  \/ WaitingAt(m, k)'
              \/ ~Within(k + 1)
              \/ Neighbours(m) \subseteq visited
              \/ m = at'[1] /\ Neighbours(m) \subseteq visited \cup rest'
  <2>1. CASE queue[1] = <<m, k>>
    <3>1. at'[1] = m /\ queue[1][1] = m
      BY <2>1, <1>1, <1>2
    <3> QED
      BY <3>1, <1>8
  <2>2. CASE queue[1] # <<m, k>>
    BY <2>2, <1>5, <1>7
  <2> QED
    BY <2>1, <2>2
<1>12. LevelInv(k)'
  <2>1. \A i \in 1 .. Len(queue') :
          queue'[i][2] \in {k, k + 1} /\ Exact(queue'[i][1], queue'[i][2]) /\ Within(queue'[i][2])
    BY <1>5, <1>6
  <2>2. \A i, j \in 1 .. Len(queue') : i <= j => queue'[i][2] <= queue'[j][2]
    <3> SUFFICES ASSUME NEW i \in 1 .. Len(queue'), NEW j \in 1 .. Len(queue'), i <= j
                 PROVE  queue'[i][2] <= queue'[j][2]
      OBVIOUS
    <3>1. i + 1 \in 1 .. Len(queue) /\ j + 1 \in 1 .. Len(queue) /\ i + 1 <= j + 1
      BY <1>6
    <3>2. queue[i + 1][2] <= queue[j + 1][2]
      BY <3>1, <1>5
    <3> QED
      BY <3>2, <1>6
  <2> QED
    BY <2>1, <2>2, <1>5, <1>9, <1>10, <1>11, <1>u, <1>n DEF LevelInv
<1>13. LevelsInv'
  BY <1>12, <1>u DEF HopsInv, LevelsInv
<1>14. AskedInv' /\ PathLevels' /\ SeenInv'
  BY <1>1, <1>u, <1>n DEF HopsInv, AskedInv, PathLevels, SeenInv, Active
<1>15. PredLevels'
  BY <1>u, <1>n DEF HopsInv, PredLevels
<1> QED
  BY <1>13, <1>14, <1>15 DEF HopsInv

(* A neighbour that has been seen is passed over.                          *)
LEMMA HopsSeeKnown ==
  ASSUME IInv, HopsInv, NEW n \in rest, SeeKnown(n)
  PROVE  HopsInv'
<1>u. UNCHANGED <<graph, query, visited, queue, at, pred, path, phase>>
  BY DEF SeeKnown
<1>n. /\ \A m : Neighbours(m)' = Neighbours(m)
      /\ \A k : Ball(k)' = Ball(k)
      /\ \A m, h : Exact(m, h)' = Exact(m, h)
      /\ \A h : Within(h)' = Within(h)
      /\ Far' = Far
  BY <1>u, LevelsKept
<1>1. phase = "searching" /\ rest' = rest \ {n} /\ n \in visited
  BY DEF SeeKnown
<1>2. PICK k \in Nat : LevelInv(k)
  BY <1>1 DEF HopsInv, LevelsInv
<1>3. visited \cup rest' = visited \cup rest /\ (rest' # {} => rest # {})
  BY <1>1
<1>4. \A m, h : WaitingAt(m, h)' = WaitingAt(m, h)
  BY <1>u DEF WaitingAt
<1>5. LevelInv(k)'
  BY <1>2, <1>3, <1>4, <1>u, <1>n DEF LevelInv
<1>6. LevelsInv'
  BY <1>5, <1>u DEF HopsInv, LevelsInv
<1>7. AskedInv' /\ PathLevels' /\ SeenInv'
  BY <1>1, <1>u, <1>n DEF HopsInv, AskedInv, PathLevels, SeenInv, Active
<1>8. PredLevels'
  BY <1>u, <1>n DEF HopsInv, PredLevels
<1> QED
  BY <1>6, <1>7, <1>8 DEF HopsInv

(* A neighbour seen for the first time is one hop further than the node it *)
(* was found from.                                                         *)
LEMMA HopsSeeNew ==
  ASSUME IInv, HopsInv, NEW n \in rest, SeeNew(n)
  PROVE  HopsInv'
<1>u. UNCHANGED <<graph, query, at>>
  BY DEF SeeNew
<1>n. /\ \A m : Neighbours(m)' = Neighbours(m)
      /\ \A k : Ball(k)' = Ball(k)
      /\ \A m, h : Exact(m, h)' = Exact(m, h)
      /\ \A h : Within(h)' = Within(h)
      /\ Far' = Far
  BY <1>u, LevelsKept
<1>1. /\ phase = "searching" /\ n \notin visited
      /\ rest' = rest \ {n} /\ visited' = visited \cup {n}
      /\ pred' = [m \in DOMAIN pred \cup {n} |-> IF m = n THEN at[1] ELSE pred[m]]
  BY DEF SeeNew
<1>2. /\ at \in visited \X Nat /\ at[1] \in visited
      /\ rest \subseteq Neighbours(at[1])
      /\ queue \in Seq(visited \X Nat)
  BY <1>1 DEF IInv, QueueInv
<1>3. path = <<>> /\ DOMAIN pred = visited \ query.seeds
  BY <1>1 DEF IInv, PathInv, PredInv
<1>4. IsQuery(query) /\ query.seeds \subseteq graph.nodes
  BY <1>1 DEF HopsInv, AskedInv, Active
<1>5. PICK k \in Nat : LevelInv(k)
  BY <1>1 DEF HopsInv, LevelsInv
<1>6. /\ Ball(k) \subseteq visited /\ visited \subseteq Ball(k + 1) /\ Within(k)
      /\ \A i \in 1 .. Len(queue) :
           queue[i][2] \in {k, k + 1} /\ Exact(queue[i][1], queue[i][2]) /\ Within(queue[i][2])
      /\ \A i, j \in 1 .. Len(queue) : i <= j => queue[i][2] <= queue[j][2]
      /\ at[2] = k /\ Exact(at[1], k) /\ Within(k + 1)
      /\ \A m \in visited \ Ball(k) : WaitingAt(m, k + 1)
      /\ \A m \in Ball(k) :
           \/ WaitingAt(m, k)
           \/ Neighbours(m) \subseteq visited
           \/ m = at[1] /\ Neighbours(m) \subseteq visited \cup rest
  BY <1>5 DEF LevelInv
<1>7. n \in Ball(k + 1) /\ n \notin Ball(k)
  <2>1. Ball(k + 1) = Grow(Ball(k))
    BY <1>4, BallSteps
  <2>2. at[1] \in Ball(k) /\ n \in Neighbours(at[1])
    BY <1>2, <1>6 DEF Exact
  <2> QED
    BY <2>1, <2>2, <1>1, <1>6 DEF Grow
<1>8. Exact(n, k + 1)
  <2>1. (k + 1) - 1 = k
    OBVIOUS
  <2> QED
    BY <2>1, <1>7 DEF Exact
<1>9. PredLevels'
  <2> SUFFICES ASSUME NEW m \in DOMAIN pred'
               PROVE  \E h \in Nat : Exact(pred'[m], h) /\ Exact(m, h + 1)
    BY <1>n DEF PredLevels
  <2>1. CASE m = n
    <3>1. pred'[m] = at[1]
      BY <2>1, <1>1
    <3> QED
      BY <3>1, <2>1, <1>6, <1>8
  <2>2. CASE m # n
    <3>1. m \in DOMAIN pred /\ pred'[m] = pred[m]
      BY <2>2, <1>1
    <3> QED
      BY <3>1, <1>1 DEF HopsInv, PredLevels
  <2> QED
    BY <2>1, <2>2
<1>10. CASE n = query.goal
  <2>1. phase' = "tracing" /\ path' = <<n>>
    BY <1>10 DEF SeeNew
  <2>2. path' # <<>> /\ path'[1] = n /\ Len(path') = 1 /\ k + 1 \in Nat
    BY <2>1
  <2>3. PathLevels'
    <3>1. k + 1 = (k + 1) + Len(path') - 1
      BY <2>2
    <3>2. Exact(path'[1], k + 1) /\ Exact(query'.goal, k + 1)
      BY <2>2, <1>8, <1>10, <1>u
    <3> QED
      BY <3>1, <3>2, <2>2, <1>n DEF PathLevels
  <2> QED
    BY <2>1, <2>3, <1>4, <1>9, <1>u DEF HopsInv, AskedInv, LevelsInv, SeenInv
<1>11. CASE n # query.goal
  <2>1. phase' = "searching" /\ path' = <<>> /\ queue' = Append(queue, <<n, at[2] + 1>>)
    BY <1>11, <1>1, <1>3 DEF SeeNew
  <2>2. /\ queue \in Seq(visited' \X Nat)
        /\ <<n, at[2] + 1>> \in visited' \X Nat
    BY <1>1, <1>2
  <2>3. /\ Len(queue') = Len(queue) + 1 /\ Len(queue) \in Nat
        /\ \A i \in 1 .. Len(queue) : queue'[i] = queue[i]
        /\ queue'[Len(queue) + 1] = <<n, k + 1>>
    BY <2>1, <2>2, <1>6
  <2>4. \A i \in 1 .. Len(queue') :
          (i \in 1 .. Len(queue) /\ queue'[i] = queue[i]) \/ (i = Len(queue) + 1 /\ queue'[i] = <<n, k + 1>>)
    BY <2>3
  <2>5. \A m, h : WaitingAt(m, h) => WaitingAt(m, h)'
    <3> SUFFICES ASSUME NEW m, NEW h, WaitingAt(m, h) PROVE WaitingAt(m, h)'
      OBVIOUS
    <3>1. PICK i \in 1 .. Len(queue) : queue[i] = <<m, h>>
      BY DEF WaitingAt
    <3>2. i \in 1 .. Len(queue') /\ queue'[i] = <<m, h>>
      BY <3>1, <2>3
    <3> QED
      BY <3>2 DEF WaitingAt
  <2>6. WaitingAt(n, k + 1)'
    <3>1. Len(queue) + 1 \in 1 .. Len(queue')
      BY <2>3
    <3> QED
      BY <3>1, <2>3 DEF WaitingAt
  <2>7. LevelInv(k)'
    <3>1. Ball(k) \subseteq visited' /\ visited' \subseteq Ball(k + 1)
      BY <1>1, <1>6, <1>7
    <3>2. \A i \in 1 .. Len(queue') :
            queue'[i][2] \in {k, k + 1} /\ Exact(queue'[i][1], queue'[i][2]) /\ Within(queue'[i][2])
      BY <2>4, <1>6, <1>8
    <3>3. \A i, j \in 1 .. Len(queue') : i <= j => queue'[i][2] <= queue'[j][2]
      <4> SUFFICES ASSUME NEW i \in 1 .. Len(queue'), NEW j \in 1 .. Len(queue'), i <= j
                   PROVE  queue'[i][2] <= queue'[j][2]
        OBVIOUS
      <4>1. CASE j = Len(queue) + 1
        <5>1. queue'[j][2] = k + 1 /\ queue'[i][2] \in {k, k + 1}
          BY <4>1, <3>2, <2>3
        <5> QED
          BY <5>1
      <4>2. CASE j # Len(queue) + 1
        <5>1. j \in 1 .. Len(queue) /\ i \in 1 .. Len(queue)
          BY <4>2, <2>3
        <5> QED
          BY <5>1, <2>3, <1>6
      <4> QED
        BY <4>1, <4>2
    <3>4. rest' # {} => at'[2] = k /\ Exact(at'[1], k) /\ Within(k + 1)
      BY <1>u, <1>6
    <3>5. \A m \in visited' \ Ball(k) : WaitingAt(m, k + 1)'
      BY <1>1, <1>6, <2>5, <2>6
    <3>6. \A m \in Ball(k) :
            \/ WaitingAt(m, k)'
            \/ Neighbours(m) \subseteq visited'
            \/ m = at'[1] /\ Neighbours(m) \subseteq visited' \cup rest'
      <4>1. visited \subseteq visited' /\ visited \cup rest \subseteq visited' \cup rest'
        BY <1>1
      <4> QED
        BY <4>1, <1>6, <1>u, <2>5
    <3> QED
      BY <3>1, <3>2, <3>3, <3>4, <3>5, <3>6, <1>6, <1>n DEF LevelInv
  <2>8. query'.goal \notin visited'
    BY <1>1, <1>11, <1>u DEF HopsInv, LevelsInv
  <2> QED
    BY <2>1, <2>7, <2>8, <1>4, <1>9, <1>u
    DEF HopsInv, AskedInv, LevelsInv, PathLevels, SeenInv
<1> QED
  BY <1>10, <1>11

(* The queue has run empty: what was seen is the ball asked for.           *)
LEMMA HopsExhausted ==
  ASSUME IInv, HopsInv, Exhausted
  PROVE  HopsInv'
<1>u. UNCHANGED <<graph, query, visited, queue, at, rest, pred, path>>
  BY DEF Exhausted
<1>n. Far' = Far /\ \A k : Ball(k)' = Ball(k)
  BY <1>u, LevelsKept
<1>1. phase = "searching" /\ phase' = "done" /\ rest = {} /\ queue = <<>>
  BY DEF Exhausted, Searching
<1>2. IsQuery(query) /\ query.seeds \subseteq graph.nodes /\ query.goal \notin visited
  BY <1>1 DEF HopsInv, AskedInv, LevelsInv, Active
<1>3. PICK k \in Nat : LevelInv(k)
  BY <1>1 DEF HopsInv, LevelsInv
<1>4. \A m, h : ~WaitingAt(m, h)
  BY <1>1 DEF WaitingAt
<1>5. visited = Ball(k) /\ Within(k)
  BY <1>3, <1>4 DEF LevelInv
<1>6. Within(k + 1) => Closed(Ball(k))
  <2> SUFFICES ASSUME Within(k + 1) PROVE Closed(Ball(k))
    OBVIOUS
  <2>1. \A m \in Ball(k) : Neighbours(m) \subseteq visited
    BY <1>1, <1>2, <1>3, <1>4, LevelComplete
  <2> QED
    BY <2>1, <1>5 DEF Closed
<1>7. IsFiniteSet(graph.nodes)
  BY DEF IInv, GraphInv, IsGraph, IsQuery
<1>8. Far \in Nat /\ Closed(Ball(Far))
  BY <1>2, <1>7, BallFar
<1>9. CASE query.limit = NoneGiven
  <2>1. Closed(Ball(k))
    BY <1>6, <1>9 DEF Within
  <2>2. Ball(Far) \subseteq Ball(k) /\ Ball(k) \subseteq Ball(Far)
    BY <2>1, <1>2, <1>8, BallSettles
  <2>3. visited = Ball(Far)
    BY <2>2, <1>5
  <2> QED
    BY <2>3, <1>1, <1>2, <1>9, <1>u, <1>n
    DEF HopsInv, AskedInv, LevelsInv, PredLevels, PathLevels, SeenInv, IInv, PathInv
<1>10. CASE query.limit # NoneGiven
  <2>1. query.limit \in Nat /\ query.goal = NoneGiven /\ k <= query.limit
    BY <1>2, <1>5, <1>10 DEF Within, IsGraph, IsQuery
  <2>2. visited = Ball(query.limit)
    <3>1. CASE k = query.limit
      BY <3>1, <1>5
    <3>2. CASE k # query.limit
      <4>1. Closed(Ball(k))
        BY <3>2, <2>1, <1>6 DEF Within
      <4>2. Ball(query.limit) \subseteq Ball(k) /\ Ball(k) \subseteq Ball(query.limit)
        BY <4>1, <2>1, <1>2, BallSettles, BallGrows
      <4> QED
        BY <4>2, <1>5
    <3> QED
      BY <3>1, <3>2
  <2> QED
    BY <2>1, <2>2, <1>1, <1>2, <1>10, <1>u, <1>n
    DEF HopsInv, AskedInv, LevelsInv, PredLevels, PathLevels, SeenInv, IInv, PathInv
<1> QED
  BY <1>9, <1>10

(* One step back along the predecessors is one hop.                        *)
LEMMA HopsTrace ==
  ASSUME IInv, HopsInv, Trace
  PROVE  HopsInv'
<1>u. UNCHANGED <<graph, query, visited, queue, at, rest, pred>>
  BY DEF Trace
<1>n. /\ \A k : Ball(k)' = Ball(k)
      /\ \A m, h : Exact(m, h)' = Exact(m, h)
      /\ Far' = Far
  BY <1>u, LevelsKept
<1>1. phase = "tracing" /\ phase' \in {"tracing", "done"}
  BY DEF Trace
<1>2. /\ path # <<>> /\ path \in Seq(visited) /\ path[Len(path)] = query.goal
      /\ Len(path) \in Nat /\ Len(path) > 0 /\ path[1] \in visited
  BY <1>1 DEF IInv, PathInv
<1>3. PICK h, far \in Nat :
        far = h + Len(path) - 1 /\ Exact(path[1], h) /\ Exact(query.goal, far)
  BY <1>2 DEF HopsInv, PathLevels
<1>4. query.goal # NoneGiven
  <2>1. path[Len(path)] \in visited
    BY <1>2
  <2> QED
    BY <2>1, <1>2 DEF IInv, GraphInv, IsGraph, IsQuery
<1>5. PredLevels' /\ AskedInv' /\ LevelsInv'
  BY <1>1, <1>u, <1>n DEF HopsInv, PredLevels, AskedInv, LevelsInv, Active
<1>6. CASE path[1] \notin query.seeds /\ path[1] \in DOMAIN pred
  <2>1. phase' = "tracing" /\ path' = <<pred[path[1]]>> \o path
    BY <1>1, <1>6 DEF Trace
  <2>2. pred[path[1]] \in visited
    BY <1>1, <1>6 DEF IInv, PredInv
  <2>3. path' # <<>> /\ Len(path') = Len(path) + 1 /\ path'[1] = pred[path[1]]
    BY <2>1, <2>2, <1>2
  <2>4. PICK g \in Nat : Exact(pred[path[1]], g) /\ Exact(path[1], g + 1)
    BY <1>1, <1>6 DEF HopsInv, PredLevels
  <2>5. g + 1 = h
    BY <2>4, <1>3, ExactOnce, <1>1 DEF HopsInv, AskedInv, Active
  <2>6. far = g + Len(path') - 1
    BY <2>3, <2>5, <1>2, <1>3
  <2>7. Exact(path'[1], g) /\ Exact(query'.goal, far)
    BY <2>3, <2>4, <1>3, <1>u
  <2>8. PathLevels'
    BY <2>3, <2>6, <2>7, <1>n DEF PathLevels
  <2> QED
    BY <2>1, <2>8, <1>5 DEF HopsInv, SeenInv
<1>7. CASE ~(path[1] \notin query.seeds /\ path[1] \in DOMAIN pred)
  <2>1. path' = path /\ phase' = "done"
    BY <1>7 DEF Trace
  <2>2. PathLevels'
    BY <2>1, <1>3, <1>u, <1>n DEF PathLevels
  <2> QED
    BY <2>1, <2>2, <1>2, <1>4, <1>5, <1>u DEF HopsInv, SeenInv
<1> QED
  BY <1>6, <1>7

LEMMA HopsStepInv == IInv /\ HopsInv /\ SearchStep => HopsInv'
BY HopsPop, HopsSeeKnown, HopsSeeNew, HopsExhausted, HopsTrace DEF SearchStep

LEMMA HopsRest == HopsInv /\ UNCHANGED searchVars => HopsInv'
<1> SUFFICES ASSUME HopsInv, UNCHANGED searchVars PROVE HopsInv'
  OBVIOUS
<1>u. UNCHANGED <<graph, query, visited, queue, at, rest, pred, path, phase>>
  BY DEF searchVars
<1>n. /\ \A m : Neighbours(m)' = Neighbours(m)
      /\ \A k : Ball(k)' = Ball(k)
      /\ \A m, h : Exact(m, h)' = Exact(m, h)
      /\ \A h : Within(h)' = Within(h)
      /\ Far' = Far
  BY <1>u, LevelsKept
<1>w. \A m, h : WaitingAt(m, h)' = WaitingAt(m, h)
  BY <1>u DEF WaitingAt
<1>1. \A k \in Nat : LevelInv(k) => LevelInv(k)'
  BY <1>u, <1>n, <1>w DEF LevelInv
<1>2. LevelsInv'
  BY <1>1, <1>u DEF HopsInv, LevelsInv
<1> QED
  BY <1>2, <1>u, <1>n DEF HopsInv, AskedInv, PredLevels, PathLevels, SeenInv, Active

(* The number of hops is counted right in every state.                     *)
THEOREM SearchCountsHops == SearchSpec => []HopsInv
<1>1. SearchInit => HopsInv
  BY HopsInit
<1>2. IInv /\ HopsInv /\ [SearchNext]_searchVars => HopsInv'
  <2> SUFFICES ASSUME IInv, HopsInv, [SearchNext]_searchVars PROVE HopsInv'
    OBVIOUS
  <2>1. ASSUME NEW q \in Queries, Begin(q) PROVE HopsInv'
    BY <2>1, SearchAssumption, HopsBegin
  <2> QED
    BY <2>1, HopsStepInv, HopsRest DEF SearchNext
<1> QED
  BY <1>1, <1>2, SearchInvariant, PTL DEF SearchSpec

LEMMA ExactSearch == IInv /\ HopsInv => HopsExact
<1> SUFFICES ASSUME IInv, HopsInv, phase = "done"
             PROVE  /\ query.goal = NoneGiven =>
                         visited = Ball(IF query.limit = NoneGiven THEN Far ELSE query.limit)
                    /\ query.goal # NoneGiven =>
                         /\ path = <<>> <=> query.goal \notin Ball(Far)
                         /\ Len(path) > 1 => query.goal \notin Ball(Len(path) - 2)
  BY DEF HopsExact
<1>1. query.seeds \subseteq graph.nodes /\ IsFiniteSet(graph.nodes)
  BY DEF HopsInv, AskedInv, Active, IInv, GraphInv, IsGraph, IsQuery
<1>2. Far \in Nat /\ Closed(Ball(Far))
  BY <1>1, BallFar
<1>3. CASE path = <<>>
  BY <1>3 DEF HopsInv, SeenInv
<1>4. CASE path # <<>>
  <2>1. path \in Seq(visited) /\ Len(path) \in Nat /\ Len(path) > 0 /\ path[1] \in query.seeds
    BY <1>4 DEF IInv, PathInv
  <2>2. PICK h, far \in Nat :
          far = h + Len(path) - 1 /\ Exact(path[1], h) /\ Exact(query.goal, far)
    BY <1>4 DEF HopsInv, PathLevels
  <2>3. h = 0
    <3>1. Exact(path[1], 0)
      BY <2>1, <1>1, BallSteps DEF Exact
    <3> QED
      BY <3>1, <2>2, <1>1, ExactOnce
  <2>4. query.goal \in Ball(Far)
    BY <2>2, <1>1, <1>2, BallSettles DEF Exact
  <2>5. Len(path) > 1 => query.goal \notin Ball(Len(path) - 2)
    <3>1. Len(path) > 1 => far > 0 /\ far - 1 = Len(path) - 2
      BY <2>1, <2>2, <2>3
    <3> QED
      BY <3>1, <2>2 DEF Exact
  <2> QED
    BY <1>4, <2>4, <2>5 DEF HopsInv, SeenInv
<1> QED
  BY <1>3, <1>4

(* A search with a limit sees the nodes within that many hops and no       *)
(* others, one without a limit all that can be reached, and shortest_path  *)
(* finds a path exactly if there is one, and no detour: on every graph, in *)
(* whatever order the edges of a node are listed.                          *)
THEOREM SearchFindsShortest == SearchSpec => []HopsExact
BY ExactSearch, SearchInvariant, SearchCountsHops, PTL

-----------------------------------------------------------------------------

(* A growing sequence of subsets of a finite set, once it stands still for *)
(* a step, stands still from then on: it does so after as many steps as    *)
(* the set has elements.                                                   *)
LEMMA GrowthSettles ==
  ASSUME NEW U, IsFiniteSet(U), NEW f \in [Nat -> SUBSET U],
         \A k \in Nat : f[k] \subseteq f[k + 1],
         \A k \in Nat : f[k] = f[k + 1] => f[k + 1] = f[(k + 1) + 1]
  PROVE  Cardinality(U) \in Nat /\ f[Cardinality(U) + 1] = f[Cardinality(U)]
<1>1. Cardinality(U) \in Nat
  BY FS_CardinalityType
<1>2. ASSUME NEW k \in Nat
      PROVE  IsFiniteSet(f[k]) /\ Cardinality(f[k]) \in Nat
  <2>1. f[k] \in SUBSET U
    OBVIOUS
  <2>2. IsFiniteSet(f[k])
    BY <2>1, FS_Subset
  <2> QED
    BY <2>2, FS_CardinalityType
<1> DEFINE T == {k \in Nat : f[k] = f[k + 1] \/ Cardinality(f[k]) >= k}
<1>3. 0 \in T
  BY <1>2
<1>4. ASSUME NEW k \in Nat, k \in T PROVE k + 1 \in T
  <2>0. k + 1 \in Nat
    OBVIOUS
  <2>1. CASE f[k] # f[k + 1]
    <3>1. f[k] \in SUBSET f[k + 1] /\ IsFiniteSet(f[k + 1])
      BY <1>2, <2>0
    <3>2. /\ Cardinality(f[k]) <= Cardinality(f[k + 1])
          /\ Cardinality(f[k + 1]) # Cardinality(f[k])
      BY <3>1, <2>1, FS_Subset
    <3>3. Cardinality(f[k]) \in Nat /\ Cardinality(f[k + 1]) \in Nat
      BY <1>2, <2>0
    <3>4. Cardinality(f[k + 1]) >= k + 1
      BY <1>4, <2>1, <3>2, <3>3
    <3> QED
      BY <3>4, <2>0
  <2>2. CASE f[k] = f[k + 1]
    BY <2>2, <2>0
  <2> QED
    BY <2>1, <2>2
<1> HIDE DEF T
<1>5. Nat \subseteq T
  BY <1>3, <1>4, Induction
<1> DEFINE n == Cardinality(U)
<1>6. n \in T
  BY <1>1, <1>5
<1>7. CASE Cardinality(f[n]) >= n
  <2>1. f[n] \in SUBSET U /\ Cardinality(f[n]) \in Nat
    BY <1>1, <1>2
  <2>2. f[n] = U
    BY <2>1, <1>1, <1>7, FS_Subset
  <2>3. f[n] \subseteq f[n + 1] /\ f[n + 1] \in SUBSET U
    BY <1>1
  <2> QED
    BY <1>1, <2>2, <2>3
<1> QED
  BY <1>1, <1>6, <1>7 DEF T

-----------------------------------------------------------------------------
(* The walks along filtered edges.                                         *)

Arrows == {<<arc.source, arc.target>> : arc \in FilteredArcs}
Pairs == graph.nodes \X graph.nodes

\* A finite multigraph whose edges are told apart by their index.
IsMultigraph(g) ==
  /\ IsFiniteSet(g.nodes) /\ IsFiniteSet(g.arcs)
  /\ \A arc \in g.arcs : arc.index \in Nat /\ arc.source \in g.nodes /\ arc.target \in g.nodes
  /\ \A a, b \in g.arcs : a.index = b.index => a = b

Lengthen(W) ==
  W \cup {<<p[1][1], p[2][2]>> : p \in {q \in W \X Arrows : q[1][2] = q[2][1]}}
WalksAre(w) == w = [k \in Nat |-> IF k = 0 THEN Arrows ELSE Lengthen(w[k - 1])]

LEMMA LeadsChosen == Leads = (CHOOSE w : WalksAre(w))[Cardinality(graph.nodes)]
BY DEF Leads, WalksAre, Lengthen, Arrows

LEMMA LengthenIs ==
  ASSUME NEW W
  PROVE  /\ W \subseteq Lengthen(W)
         /\ \A a, b, c : <<a, b>> \in W /\ <<b, c>> \in Arrows => <<a, c>> \in Lengthen(W)
         /\ W \subseteq Pairs /\ IsMultigraph(graph) => Lengthen(W) \subseteq Pairs
<1>1. W \subseteq Lengthen(W)
  BY DEF Lengthen
<1>2. ASSUME NEW a, NEW b, NEW c, <<a, b>> \in W, <<b, c>> \in Arrows
      PROVE  <<a, c>> \in Lengthen(W)
  <2> DEFINE q == <<<<a, b>>, <<b, c>>>>
  <2>1. q \in W \X Arrows /\ q[1][2] = q[2][1] /\ <<q[1][1], q[2][2]>> = <<a, c>>
    BY <1>2
  <2> HIDE DEF q
  <2> QED
    BY <2>1 DEF Lengthen
<1>3. ASSUME W \subseteq Pairs, IsMultigraph(graph) PROVE Lengthen(W) \subseteq Pairs
  <2>1. Arrows \subseteq Pairs
    BY <1>3 DEF Arrows, FilteredArcs, IsMultigraph, Pairs
  <2> QED
    BY <1>3, <2>1 DEF Lengthen, Pairs
<1> QED
  BY <1>1, <1>2, <1>3

\* What the walks add up to: the edges, their extensions, nothing else.
LeadsRules ==
  /\ Arrows \subseteq Leads /\ Leads \subseteq Pairs
  /\ \A a, b, c : <<a, b>> \in Leads /\ <<b, c>> \in Arrows => <<a, c>> \in Leads
  /\ \A R : Arrows \subseteq R
              /\ (\A a, b, c : <<a, b>> \in R /\ <<b, c>> \in Arrows => <<a, c>> \in R)
            => Leads \subseteq R

LEMMA LeadsAre == IsMultigraph(graph) => LeadsRules
<1> SUFFICES ASSUME IsMultigraph(graph) PROVE LeadsRules
  OBVIOUS
<1> DEFINE V == SUBSET Pairs
           step == [k \in Nat |-> [W \in V |-> Lengthen(W)]]
<1>1. Arrows \in V
  BY DEF Arrows, FilteredArcs, IsMultigraph, Pairs
<1>2. step \in [Nat -> [V -> V]]
  BY LengthenIs
<1>3. \A k \in Nat, W \in V : step[k][W] = Lengthen(W)
  OBVIOUS
<1> HIDE DEF V, step
<1>4. PICK f : Recurs(V, Arrows, step, f)
  BY <1>1, <1>2, Recursion
<1>5. f \in [Nat -> V] /\ f[0] = Arrows /\ \A k \in Nat : f[k + 1] = Lengthen(f[k])
  BY <1>3, <1>4 DEF Recurs
<1>6. WalksAre(f)
  <2>1. ASSUME NEW k \in Nat, k # 0 PROVE f[k] = Lengthen(f[k - 1])
    <3>1. k - 1 \in Nat /\ (k - 1) + 1 = k
      BY <2>1
    <3>2. f[(k - 1) + 1] = Lengthen(f[k - 1])
      BY <1>5, <3>1
    <3> QED
      BY <3>1, <3>2
  <2> QED
    BY <1>5, <2>1 DEF WalksAre
<1> DEFINE w == CHOOSE w : WalksAre(w)
           n == Cardinality(graph.nodes)
<1>7. WalksAre(w)
  BY <1>6
<1>8. Leads = w[n]
  BY LeadsChosen
<1> HIDE DEF w
<1>9. w[0] = Arrows /\ \A k \in Nat : w[k + 1] = Lengthen(w[k])
  BY <1>7 DEF WalksAre
<1> DEFINE T == {k \in Nat : w[k] \in V /\ Arrows \subseteq w[k]}
<1>10. 0 \in T
  BY <1>1, <1>9
<1>11. ASSUME NEW k \in Nat, k \in T PROVE k + 1 \in T
  <2>1. w[k] \subseteq Lengthen(w[k]) /\ (w[k] \subseteq Pairs => Lengthen(w[k]) \subseteq Pairs)
    BY LengthenIs
  <2> QED
    BY <1>9, <1>11, <2>1 DEF V
<1> HIDE DEF T
<1>12. Nat \subseteq T
  BY <1>10, <1>11, Induction
<1>13. \A k \in Nat : w[k] \in V /\ Arrows \subseteq w[k]
  BY <1>12 DEF T
<1>14. n \in Nat
  BY FS_CardinalityType DEF IsMultigraph
<1>15. ASSUME NEW a, NEW b, NEW c, <<a, b>> \in Leads, <<b, c>> \in Arrows
       PROVE  <<a, c>> \in Leads
  <2>1. a \in graph.nodes /\ b \in graph.nodes
    BY <1>8, <1>13, <1>14, <1>15 DEF V, Pairs
  <2> DEFINE g == [k \in Nat |-> {x \in graph.nodes : <<a, x>> \in w[k]}]
  <2>2. g \in [Nat -> SUBSET graph.nodes]
    OBVIOUS
  <2>3. ASSUME NEW k \in Nat PROVE g[k] \subseteq g[k + 1]
    BY <1>9, LengthenIs
  <2>4. ASSUME NEW k \in Nat, g[k] = g[k + 1] PROVE g[k + 1] = g[(k + 1) + 1]
    <3>1. ASSUME NEW x \in g[(k + 1) + 1] PROVE x \in g[k + 1]
      <4>1. <<a, x>> \in Lengthen(w[k + 1])
        BY <1>9, <3>1
      <4>2. CASE <<a, x>> \in w[k + 1]
        BY <3>1, <4>2
      <4>3. CASE <<a, x>> \notin w[k + 1]
        <5>1. PICK q \in w[k + 1] \X Arrows : q[1][2] = q[2][1] /\ <<a, x>> = <<q[1][1], q[2][2]>>
          BY <4>1, <4>3 DEF Lengthen
        <5>2. q[1] \in Pairs /\ q[2] \in Pairs
          <6>1. q[1] \in w[k + 1] /\ q[2] \in Arrows
            BY <5>1
          <6>2. w[k + 1] \subseteq Pairs
            BY <1>13 DEF V
          <6> QED
            BY <6>1, <6>2, <1>1 DEF V
        <5>3. q[1] = <<a, q[1][2]>> /\ q[2] = <<q[1][2], x>>
          BY <5>1, <5>2 DEF Pairs
        <5>4. q[1][2] \in g[k + 1]
          BY <5>1, <5>2, <5>3 DEF Pairs
        <5>5. <<a, q[1][2]>> \in w[k]
          BY <5>4, <2>4
        <5>6. <<a, x>> \in Lengthen(w[k])
          BY <5>1, <5>3, <5>5, LengthenIs
        <5> QED
          BY <5>6, <1>9, <3>1
      <4> QED
        BY <4>2, <4>3
    <3>2. g[k + 1] \subseteq g[(k + 1) + 1]
      <4>1. k + 1 \in Nat
        OBVIOUS
      <4> QED
        BY <2>3, <4>1
    <3> QED
      BY <3>1, <3>2
  <2>5. g[n + 1] = g[n]
    <3> HIDE DEF g
    <3> QED
      BY <2>2, <2>3, <2>4, GrowthSettles DEF IsMultigraph
  <2>6. <<a, c>> \in w[n + 1] /\ c \in graph.nodes
    <3>1. <<a, c>> \in Lengthen(w[n])
      BY <1>8, <1>15, LengthenIs
    <3>2. w[n + 1] \subseteq Pairs
      BY <1>13, <1>14 DEF V
    <3> QED
      BY <3>1, <3>2, <1>9, <1>14 DEF Pairs
  <2>7. c \in g[n + 1]
    <3>1. n + 1 \in Nat
      BY <1>14
    <3> QED
      BY <2>6, <3>1
  <2>8. c \in g[n]
    BY <2>5, <2>7
  <2> QED
    BY <2>8, <1>8, <1>14
<1>16. ASSUME NEW R, Arrows \subseteq R,
              \A a, b, c : <<a, b>> \in R /\ <<b, c>> \in Arrows => <<a, c>> \in R
       PROVE  Leads \subseteq R
  <2> DEFINE S == {k \in Nat : w[k] \subseteq R}
  <2>1. 0 \in S
    BY <1>9, <1>16
  <2>2. ASSUME NEW k \in Nat, k \in S PROVE k + 1 \in S
    <3>1. ASSUME NEW q \in w[k] \X Arrows, q[1][2] = q[2][1]
          PROVE  <<q[1][1], q[2][2]>> \in R
      <4>1. q[1] \in w[k] /\ q[2] \in Arrows /\ w[k] \subseteq Pairs /\ Arrows \subseteq Pairs
        BY <1>1, <1>13 DEF V
      <4>2. q[1] = <<q[1][1], q[1][2]>> /\ q[2] = <<q[1][2], q[2][2]>>
        BY <3>1, <4>1 DEF Pairs
      <4>3. q[1] \in R
        BY <2>2, <4>1
      <4> QED
        BY <1>16, <4>1, <4>2, <4>3
    <3>2. Lengthen(w[k]) \subseteq R
      BY <2>2, <3>1 DEF Lengthen
    <3> QED
      BY <1>9, <3>2
  <2> HIDE DEF S
  <2>3. Nat \subseteq S
    BY <2>1, <2>2, Induction
  <2> QED
    BY <1>8, <1>14, <2>3 DEF S
<1> QED
  BY <1>8, <1>13, <1>14, <1>15, <1>16 DEF LeadsRules, V

(* A walk can be put together from two, and a walk back to its start has a *)
(* first edge and a last one, both on it.                                  *)
LEMMA LeadsTransitive ==
  ASSUME LeadsRules, NEW a, NEW b, NEW c, <<a, b>> \in Leads, <<b, c>> \in Leads
  PROVE  <<a, c>> \in Leads
<1> DEFINE R == {p \in Pairs : <<a, p[1]>> \in Leads => <<a, p[2]>> \in Leads}
<1>1. Arrows \subseteq R
  <2>1. ASSUME NEW p \in Arrows PROVE p \in R
    <3>1. p \in Pairs /\ p = <<p[1], p[2]>>
      BY <2>1 DEF LeadsRules, Pairs
    <3> QED
      BY <2>1, <3>1 DEF LeadsRules
  <2> QED
    BY <2>1
<1>2. ASSUME NEW x, NEW y, NEW z, <<x, y>> \in R, <<y, z>> \in Arrows PROVE <<x, z>> \in R
  <2>1. <<y, z>> \in Pairs
    BY <1>2 DEF LeadsRules
  <2>2. <<x, z>> \in Pairs
    BY <1>2, <2>1 DEF Pairs
  <2> QED
    BY <1>2, <2>2 DEF LeadsRules
<1>3. Leads \subseteq R
  <2> HIDE DEF R
  <2> QED
    BY <1>1, <1>2 DEF LeadsRules
<1> QED
  BY <1>3

LEMMA CycleEnters ==
  ASSUME LeadsRules, NEW n, <<n, n>> \in Leads
  PROVE  \E p : <<p, n>> \in Arrows /\ <<p, p>> \in Leads
<1> DEFINE R == {q \in Pairs : \E p : <<p, q[2]>> \in Arrows /\ (p = q[1] \/ <<q[1], p>> \in Leads)}
<1>1. Arrows \subseteq R
  <2>1. ASSUME NEW p \in Arrows PROVE p \in R
    <3>1. p \in Pairs /\ p = <<p[1], p[2]>>
      BY <2>1 DEF LeadsRules, Pairs
    <3>2. <<p[1], p[2]>> \in Arrows
      BY <3>1
    <3> QED
      BY <3>1, <3>2
  <2> QED
    BY <2>1
<1>2. ASSUME NEW x, NEW y, NEW z, <<x, y>> \in R, <<y, z>> \in Arrows PROVE <<x, z>> \in R
  <2>1. <<y, z>> \in Pairs
    BY <1>2 DEF LeadsRules
  <2>2. <<x, z>> \in Pairs
    BY <1>2, <2>1 DEF Pairs
  <2>3. PICK p : <<p, y>> \in Arrows /\ (p = x \/ <<x, p>> \in Leads)
    BY <1>2
  <2>4. <<x, y>> \in Leads
    BY <2>3 DEF LeadsRules
  <2> QED
    BY <1>2, <2>2, <2>4
<1>3. Leads \subseteq R
  <2> HIDE DEF R
  <2> QED
    BY <1>1, <1>2 DEF LeadsRules
<1>4. PICK p : <<p, n>> \in Arrows /\ (p = n \/ <<n, p>> \in Leads)
  BY <1>3
<1>5. <<p, n>> \in Leads
  BY <1>4 DEF LeadsRules
<1> QED
  BY <1>4, <1>5, LeadsTransitive

LEMMA CycleLeaves ==
  ASSUME LeadsRules, NEW n, <<n, n>> \in Leads
  PROVE  \E s : <<n, s>> \in Arrows /\ <<s, n>> \in Leads /\ <<s, s>> \in Leads
<1> DEFINE R == {q \in Pairs : \E s : <<q[1], s>> \in Arrows /\ (s = q[2] \/ <<s, q[2]>> \in Leads)}
<1>1. Arrows \subseteq R
  <2>1. ASSUME NEW p \in Arrows PROVE p \in R
    <3>1. p \in Pairs /\ p = <<p[1], p[2]>>
      BY <2>1 DEF LeadsRules, Pairs
    <3>2. <<p[1], p[2]>> \in Arrows
      BY <3>1
    <3> QED
      BY <3>1, <3>2
  <2> QED
    BY <2>1
<1>2. ASSUME NEW x, NEW y, NEW z, <<x, y>> \in R, <<y, z>> \in Arrows PROVE <<x, z>> \in R
  <2>1. <<y, z>> \in Pairs
    BY <1>2 DEF LeadsRules
  <2>2. <<x, z>> \in Pairs
    BY <1>2, <2>1 DEF Pairs
  <2>3. PICK s : <<x, s>> \in Arrows /\ (s = y \/ <<s, y>> \in Leads)
    BY <1>2
  <2>4. <<s, z>> \in Leads
    BY <1>2, <2>3 DEF LeadsRules
  <2> QED
    BY <2>2, <2>3, <2>4
<1>3. Leads \subseteq R
  <2> HIDE DEF R
  <2> QED
    BY <1>1, <1>2 DEF LeadsRules
<1>4. PICK s : <<n, s>> \in Arrows /\ (s = n \/ <<s, n>> \in Leads)
  BY <1>3
<1>5. <<n, s>> \in Leads
  BY <1>4 DEF LeadsRules
<1>6. <<s, n>> \in Leads
  BY <1>4, <1>5
<1> QED
  BY <1>4, <1>5, <1>6, LeadsTransitive

-----------------------------------------------------------------------------
(* The edges that leave a node, the newest first.                          *)

LEMMA NewestFirstLists ==
  ASSUME NEW S \in SUBSET Nat, IsFiniteSet(S)
  PROVE  Lists(NewestFirst(S), S)
<1> DEFINE R == {p \in S \X S : p[1] > p[2]}
           s == NewestFirst(S)
<1>1. StrictOrder(R, S)
  BY DEF StrictOrder
<1>2. \A k \in S : Below(R, S, k) = {j \in S : j > k}
  BY DEF Below
<1>3. DOMAIN s = 1 .. Cardinality(S) /\ s = [i \in DOMAIN s |-> s[i]]
  <2> DEFINE pick(i) == CHOOSE k \in S : Cardinality({j \in S : j > k}) = i - 1
  <2>1. s = [i \in 1 .. Cardinality(S) |-> pick(i)]
    BY DEF NewestFirst
  <2> HIDE DEF s, R, pick
  <2> QED
    BY <2>1
<1>4. ASSUME NEW i \in 1 .. Cardinality(S), \E e \in S : RankIn(R, S, e) = i - 1
      PROVE  s[i] \in S /\ RankIn(R, S, s[i]) = i - 1
  <2>1. s[i] = CHOOSE k \in S : Cardinality({j \in S : j > k}) = i - 1
    BY DEF NewestFirst
  <2>2. PICK e \in S : Cardinality({j \in S : j > e}) = i - 1
    BY <1>2, <1>4 DEF RankIn
  <2>3. s[i] \in S /\ Cardinality({j \in S : j > s[i]}) = i - 1
    BY <2>1, <2>2
  <2> QED
    BY <1>2, <2>3 DEF RankIn
<1> HIDE DEF R, s
<1>5. InOrder(s, R, S)
  BY <1>1, <1>3, <1>4, InOrderByRank
<1> QED
  BY <1>5 DEF InOrder, s

\* The list of the ends of some edges, in the order of their indices.
EndsOf(arcs) ==
  LET order == NewestFirst({arc.index : arc \in arcs})
  IN [i \in DOMAIN order |-> (CHOOSE arc \in arcs : arc.index = order[i]).target]

LEMMA EndsList ==
  ASSUME IsMultigraph(graph), NEW arcs \in SUBSET graph.arcs
  PROVE  /\ EndsOf(arcs) \in Seq({arc.target : arc \in arcs})
         /\ \A arc \in arcs : \E i \in DOMAIN EndsOf(arcs) : EndsOf(arcs)[i] = arc.target
<1> DEFINE S == {arc.index : arc \in arcs}
           order == NewestFirst(S)
           s == EndsOf(arcs)
<1>1. S \in SUBSET Nat
  BY DEF IsMultigraph
<1>2. IsFiniteSet(S)
  <2>1. IsFiniteSet(arcs)
    BY FS_Subset DEF IsMultigraph
  <2> DEFINE index == [arc \in arcs |-> arc.index]
  <2>2. IsFiniteSet({index[arc] : arc \in arcs})
    BY <2>1, FiniteValues
  <2>3. {index[arc] : arc \in arcs} = S
    OBVIOUS
  <2> QED
    BY <2>2, <2>3
<1>3. Lists(order, S)
  BY <1>1, <1>2, NewestFirstLists
<1>4. s = [i \in DOMAIN order |-> (CHOOSE arc \in arcs : arc.index = order[i]).target]
  BY DEF EndsOf
<1> HIDE DEF order, s
<1>5. ASSUME NEW arc \in arcs, NEW i \in DOMAIN order, arc.index = order[i]
      PROVE  s[i] = arc.target
  <2>1. \A a \in arcs : a.index = order[i] => a = arc
    BY <1>5 DEF IsMultigraph
  <2>2. (CHOOSE a \in arcs : a.index = order[i]) = arc
    BY <1>5, <2>1
  <2> QED
    BY <1>4, <2>2
<1>6. ASSUME NEW i \in DOMAIN order PROVE s[i] \in {arc.target : arc \in arcs}
  <2>1. PICK arc \in arcs : arc.index = order[i]
    BY <1>3 DEF Lists
  <2> QED
    BY <1>5, <2>1
<1>7. ASSUME NEW arc \in arcs PROVE \E i \in DOMAIN order : s[i] = arc.target
  <2>1. PICK i \in DOMAIN order : order[i] = arc.index
    BY <1>3 DEF Lists
  <2> QED
    BY <1>5, <2>1
<1>8. DOMAIN s = 1 .. Len(order) /\ Len(order) \in Nat /\ DOMAIN order = 1 .. Len(order)
  BY <1>3, <1>4 DEF Lists
<1>9. s \in Seq({arc.target : arc \in arcs})
  BY <1>4, <1>6, <1>8
<1> QED
  BY <1>7, <1>8, <1>9 DEF s

LEMMA FilteredSuccessorsAre ==
  ASSUME IsMultigraph(graph), NEW m
  PROVE  /\ FilteredSuccessors(m) \in Seq(cyclic)
         /\ \A i \in DOMAIN FilteredSuccessors(m) : <<m, FilteredSuccessors(m)[i]>> \in Arrows
         /\ \A s \in cyclic : <<m, s>> \in Arrows =>
              \E i \in DOMAIN FilteredSuccessors(m) : FilteredSuccessors(m)[i] = s
<1> DEFINE arcs == {arc \in FilteredArcs : arc.source = m /\ arc.target \in cyclic}
           s == EndsOf(arcs)
<1>1. arcs \in SUBSET graph.arcs
  BY DEF FilteredArcs
<1>2. FilteredSuccessors(m) = s
  BY DEF FilteredSuccessors, EndsOf
<1>3. /\ s \in Seq({arc.target : arc \in arcs})
      /\ \A arc \in arcs : \E i \in DOMAIN s : s[i] = arc.target
  <2> HIDE DEF arcs
  <2> QED
    BY <1>1, EndsList
<1> HIDE DEF s
<1>4. \A i \in DOMAIN s : s[i] \in cyclic /\ <<m, s[i]>> \in Arrows
  BY <1>3 DEF Arrows
<1>5. s \in Seq(cyclic)
  BY <1>3, <1>4
<1>6. ASSUME NEW t \in cyclic, <<m, t>> \in Arrows PROVE \E i \in DOMAIN s : s[i] = t
  <2>1. PICK arc \in FilteredArcs : <<m, t>> = <<arc.source, arc.target>>
    BY <1>6 DEF Arrows
  <2>2. arc \in arcs /\ arc.target = t
    BY <1>6, <2>1
  <2> QED
    BY <1>3, <2>2
<1> QED
  BY <1>2, <1>4, <1>5, <1>6

-----------------------------------------------------------------------------
(* The invariant of the search.                                            *)

\* Nodes on a cycle; pairs of nodes on a common one.
Recurrent == {n \in graph.nodes : <<n, n>> \in Leads}
Alike(m, n, leads) == <<m, n>> \in leads /\ <<n, m>> \in leads

\* What is taken from the queue has been worked off: no edge enters it, or
\* only edges from what was taken before.
WorkedOff == {n \in graph.nodes : indegree[n] = 0 /\ \A i \in DOMAIN ready : ready[i] # n}
EnteringFrom(n, S) == {arc \in FilteredArcs : arc.target = n /\ arc.source \in S}

CountInv ==
  cphase = "counting" =>
    /\ indegree \in [graph.nodes -> Nat]
    /\ ready \in Seq(graph.nodes)
    /\ \A i \in DOMAIN ready : indegree[ready[i]] = 0
    /\ \A i, j \in DOMAIN ready : ready[i] = ready[j] => i = j
    /\ \A n \in graph.nodes :
         indegree[n] = Cardinality(EnteringFrom(n, graph.nodes \ WorkedOff))
    /\ counted = Cardinality(WorkedOff)
    /\ Recurrent \cap WorkedOff = {}

UnusedInv ==
  cphase \in {"idle", "starting", "counting"} =>
    /\ cyclic = {} /\ finished = {} /\ frames = <<>> /\ cycles = <<>>
    /\ cphase # "counting" => counted = 0

Walking == cphase \in {"extracting", "done"}

LeftOverInv ==
  Walking =>
    /\ cyclic \subseteq graph.nodes /\ finished \subseteq cyclic
    /\ Recurrent \subseteq cyclic
    /\ cphase = "done" => frames = <<>> /\ cyclic \subseteq finished

TrailInv ==
  Walking =>
    /\ frames \in Seq([node : cyclic, children : Seq(cyclic)])
    /\ \A i \in 1 .. Len(frames) - 1 : <<frames[i].node, frames[i + 1].node>> \in Arrows
    /\ \A i, j \in DOMAIN frames : frames[i].node = frames[j].node => i = j
    /\ \A i \in DOMAIN frames :
         /\ frames[i].node \notin finished
         /\ \A k \in DOMAIN frames[i].children :
              <<frames[i].node, frames[i].children[k]>> \in Arrows

\* A closed walk that visits no other node twice.
IsCycle(c) ==
  /\ Len(c) > 1 /\ c[1] = c[Len(c)]
  /\ Cardinality({c[i] : i \in DOMAIN c}) = Len(c) - 1
  /\ \A i \in 1 .. Len(c) - 1 : ArcsFromTo(c[i], c[i + 1]) # {}

\* A report all of whose nodes share a cycle with n.
Reported(n, reports, leads) ==
  \E k \in DOMAIN reports : \A i \in DOMAIN reports[k] : Alike(n, reports[k][i], leads)

ReportsInv == Walking => cycles \in Seq(Seq(cyclic)) /\ \A k \in DOMAIN cycles : IsCycle(cycles[k])

\* A node on a cycle is finished only after a cycle around it was reported:
\* an edge of the trail's nodes is still to be tried, leads on along the
\* trail or to what is finished, or has closed a cycle.
CoverInv ==
  Walking =>
    /\ \A n \in finished \cap Recurrent : Reported(n, cycles, Leads)
    /\ \A i \in DOMAIN frames : \A s \in cyclic :
         <<frames[i].node, s>> \in Arrows =>
           \/ \E k \in DOMAIN frames[i].children : frames[i].children[k] = s
           \/ s \in finished
           \/ i < Len(frames) /\ s = frames[i + 1].node
           \/ Reported(frames[i].node, cycles, Leads)

PhaseInv ==
  /\ cphase \in CyclePhases
  /\ cphase # "idle" => IsMultigraph(graph)

CycleInv ==
  PhaseInv /\ CountInv /\ UnusedInv /\ LeftOverInv /\ TrailInv /\ ReportsInv /\ CoverInv

-----------------------------------------------------------------------------
(* The steps keep the graph, and so who leads to whom.                     *)
LeadsKept ==
  /\ FilteredArcs' = FilteredArcs /\ Arrows' = Arrows /\ Leads' = Leads
  /\ Recurrent' = Recurrent /\ Pairs' = Pairs

LEMMA GraphKept == ASSUME graph' = graph PROVE LeadsKept
<1>1. FilteredArcs' = FilteredArcs
  BY DEF FilteredArcs
<1>2. Arrows' = Arrows
  BY <1>1 DEF Arrows
<1>3. \A w : WalksAre(w)' <=> WalksAre(w)
  BY <1>2 DEF WalksAre, Lengthen
<1>4. (CHOOSE w : WalksAre(w))' = (CHOOSE w : WalksAre(w))
  BY <1>3, Zenon
<1>5. Leads' = (CHOOSE w : WalksAre(w))'[Cardinality(graph'.nodes)]
  BY DEF Leads, WalksAre, Lengthen, Arrows
<1>6. Leads' = Leads
  BY <1>4, <1>5, LeadsChosen, graph' = graph
<1>7. Recurrent' = Recurrent
  BY <1>6 DEF Recurrent
<1> QED
  BY <1>1, <1>2, <1>6, <1>7 DEF LeadsKept, Pairs

\* The number of edges into a node, split by where they start.
LEMMA EnteringSplits ==
  ASSUME IsMultigraph(graph), NEW n, NEW S, NEW m \in S
  PROVE  /\ Cardinality(EnteringFrom(n, S)) \in Nat
         /\ Cardinality(ArcsFromTo(m, n)) \in Nat
         /\ Cardinality(EnteringFrom(n, S \ {m}))
              = Cardinality(EnteringFrom(n, S)) - Cardinality(ArcsFromTo(m, n))
<1> DEFINE A == EnteringFrom(n, S \ {m})
           B == ArcsFromTo(m, n)
           C == EnteringFrom(n, S)
<1>1. /\ A \in SUBSET graph.arcs /\ B \in SUBSET graph.arcs /\ C \in SUBSET graph.arcs
  BY DEF EnteringFrom, ArcsFromTo, FilteredArcs
<1>2. IsFiniteSet(A) /\ IsFiniteSet(B) /\ IsFiniteSet(C)
  BY <1>1, FS_Subset DEF IsMultigraph
<1>3. C = A \cup B /\ A \cap B = {}
  BY DEF EnteringFrom, ArcsFromTo
<1> HIDE DEF A, B, C
<1>4. Cardinality(A \cup B) = Cardinality(A) + Cardinality(B) - Cardinality(A \cap B)
  BY <1>2, FS_Union
<1>5. Cardinality(A \cap B) = 0
  BY <1>3, FS_EmptySet
<1>6. Cardinality(A) \in Nat /\ Cardinality(B) \in Nat /\ Cardinality(C) \in Nat
  BY <1>2, FS_CardinalityType
<1> QED
  BY <1>3, <1>4, <1>5, <1>6 DEF A, B, C

LEMMA EnteringCounts ==
  ASSUME IsMultigraph(graph), NEW n, NEW S
  PROVE  /\ Cardinality(EnteringFrom(n, S)) \in Nat
         /\ Cardinality(EnteringFrom(n, S)) = 0 => \A p \in S : <<p, n>> \notin Arrows
<1>1. EnteringFrom(n, S) \in SUBSET graph.arcs
  BY DEF EnteringFrom, FilteredArcs
<1>2. IsFiniteSet(EnteringFrom(n, S))
  BY <1>1, FS_Subset DEF IsMultigraph
<1>3. Cardinality(EnteringFrom(n, S)) \in Nat
  BY <1>2, FS_CardinalityType
<1>4. ASSUME Cardinality(EnteringFrom(n, S)) = 0, NEW p \in S, <<p, n>> \in Arrows PROVE FALSE
  <2>1. EnteringFrom(n, S) = {}
    BY <1>2, <1>4, FS_EmptySet
  <2>2. PICK arc \in FilteredArcs : <<p, n>> = <<arc.source, arc.target>>
    BY <1>4 DEF Arrows
  <2>3. arc \in EnteringFrom(n, S)
    BY <2>2 DEF EnteringFrom
  <2> QED
    BY <2>1, <2>3
<1> QED
  BY <1>3, <1>4

\* An order of a finite set lists it.
LEMMA OrdersList ==
  ASSUME NEW S, IsFiniteSet(S), NEW order \in Orders(S)
  PROVE  /\ order \in Seq(S) /\ Len(order) = Cardinality(S) /\ DOMAIN order = 1 .. Len(order)
         /\ \A e \in S : \E i \in DOMAIN order : order[i] = e
         /\ \A i, j \in DOMAIN order : order[i] = order[j] => i = j
<1> DEFINE n == Cardinality(S)
<1>1. n \in Nat
  BY FS_CardinalityType
<1>2. order \in [1 .. n -> S] /\ \A e \in S : \E i \in DOMAIN order : order[i] = e
  BY DEF Orders
<1>3. order \in Seq(S) /\ Len(order) = n
  BY <1>1, <1>2
<1>4. {order[i] : i \in 1 .. n} = S
  BY <1>2
<1>5. \A i, j \in 1 .. n : order[i] = order[j] => i = j
  BY <1>1, <1>4, AllDistinct
<1> QED
  BY <1>2, <1>3, <1>5

-----------------------------------------------------------------------------
(* The steps of the count.                                                 *)

LEMMA StartCountingInv == CycleInv /\ StartCounting /\ graph' = graph => CycleInv'
<1> SUFFICES ASSUME CycleInv, StartCounting, graph' = graph PROVE CycleInv'
  OBVIOUS
<1>g. IsMultigraph(graph) /\ cphase = "starting"
  BY DEF StartCounting, CycleInv, PhaseInv
<1>k. LeadsKept
  BY GraphKept
<1>u. /\ cphase' = "counting" /\ counted' = counted /\ cyclic' = cyclic
      /\ finished' = finished /\ frames' = frames /\ cycles' = cycles
  BY DEF StartCounting
<1>1. indegree' = [n \in graph.nodes |-> Cardinality(EnteringFrom(n, graph.nodes))]
  <2>1. \A n : {arc \in FilteredArcs : arc.target = n} = EnteringFrom(n, graph.nodes)
    BY <1>g DEF EnteringFrom, FilteredArcs, IsMultigraph
  <2>2. indegree' = [n \in graph.nodes |-> Cardinality({arc \in FilteredArcs : arc.target = n})]
    BY DEF StartCounting
  <2> QED
    BY <2>1, <2>2
<1>2. \A n \in graph.nodes : indegree'[n] = Cardinality(EnteringFrom(n, graph.nodes))
                             /\ indegree'[n] \in Nat
  BY <1>1, <1>g, EnteringCounts
<1> DEFINE Z == {n \in graph.nodes : indegree'[n] = 0}
<1>3. IsFiniteSet(Z) /\ ready' \in Orders(Z)
  BY <1>g, FS_Subset DEF StartCounting, IsMultigraph
<1>4. /\ ready' \in Seq(Z)
      /\ \A e \in Z : \E i \in DOMAIN ready' : ready'[i] = e
      /\ \A i, j \in DOMAIN ready' : ready'[i] = ready'[j] => i = j
  <2> HIDE DEF Z
  <2> QED
    BY <1>3, OrdersList
<1>5. WorkedOff' = {}
  BY <1>4 DEF WorkedOff
<1>6. counted' = Cardinality({})
  BY <1>u, <1>g, FS_EmptySet DEF CycleInv, UnusedInv
<1>7. CountInv'
  <2>1. indegree' \in [graph.nodes -> Nat]
    BY <1>1, <1>2
  <2>2. ready' \in Seq(graph.nodes) /\ \A i \in DOMAIN ready' : indegree'[ready'[i]] = 0
    BY <1>4
  <2>3. \A n \in graph'.nodes :
          indegree'[n] = Cardinality(EnteringFrom(n, graph.nodes \ WorkedOff)')
    <3>1. ASSUME NEW n \in graph.nodes
          PROVE  EnteringFrom(n, graph.nodes \ WorkedOff)' = EnteringFrom(n, graph.nodes)
      BY <1>5, <1>k DEF EnteringFrom, LeadsKept
    <3> QED
      BY <1>2, <3>1
  <2> QED
    BY <2>1, <2>2, <2>3, <1>4, <1>5, <1>6 DEF CountInv
<1> QED
  BY <1>u, <1>g, <1>7 DEF CycleInv, PhaseInv, CyclePhases, UnusedInv, LeftOverInv, TrailInv,
                          ReportsInv, CoverInv, Walking

LEMMA TakeReadyInv == CycleInv /\ TakeReady /\ graph' = graph => CycleInv'
<1> SUFFICES ASSUME CycleInv, TakeReady, graph' = graph PROVE CycleInv'
  OBVIOUS
<1>g. IsMultigraph(graph) /\ cphase = "counting" /\ ready # <<>>
  BY DEF TakeReady, CycleInv, PhaseInv
<1>k. LeadsKept
  BY GraphKept
<1>u. /\ cphase' = cphase /\ counted' = counted + 1 /\ cyclic' = cyclic
      /\ finished' = finished /\ frames' = frames /\ cycles' = cycles
  BY DEF TakeReady
<1> DEFINE m == Head(ready)
           W == WorkedOff
           Fresh == {n \in graph.nodes : Cardinality(ArcsFromTo(m, n)) > 0 /\ indegree'[n] = 0}
<1>1. /\ indegree \in [graph.nodes -> Nat]
      /\ ready \in Seq(graph.nodes)
      /\ \A i \in DOMAIN ready : indegree[ready[i]] = 0
      /\ \A i, j \in DOMAIN ready : ready[i] = ready[j] => i = j
      /\ \A n \in graph.nodes : indegree[n] = Cardinality(EnteringFrom(n, graph.nodes \ W))
      /\ counted = Cardinality(W)
      /\ Recurrent \cap W = {}
  BY <1>g DEF CycleInv, CountInv
<1>2. indegree' = [n \in graph.nodes |-> indegree[n] - Cardinality(ArcsFromTo(m, n))]
  BY <1>1 DEF TakeReady
<1>3. PICK order \in Orders(Fresh) : ready' = Tail(ready) \o order
  BY DEF TakeReady
<1>4. /\ m \in graph.nodes /\ m = ready[1] /\ 1 \in DOMAIN ready
      /\ Len(ready) \in Nat \ {0} /\ DOMAIN ready = 1 .. Len(ready)
      /\ Tail(ready) \in Seq(graph.nodes) /\ Len(Tail(ready)) = Len(ready) - 1
      /\ \A i \in 1 .. Len(ready) - 1 : Tail(ready)[i] = ready[i + 1]
  BY <1>g, <1>1
<1>5. indegree[m] = 0 /\ m \notin W
  BY <1>1, <1>4 DEF WorkedOff
<1> HIDE DEF m, W, Fresh
<1>6. \A n \in graph.nodes : EnteringFrom(n, graph.nodes \ (W \cup {m}))
                               = EnteringFrom(n, (graph.nodes \ W) \ {m})
  BY DEF EnteringFrom
<1>7. ASSUME NEW n \in graph.nodes
      PROVE  /\ indegree'[n] \in Nat
             /\ indegree'[n] = Cardinality(EnteringFrom(n, graph.nodes \ (W \cup {m})))
             /\ Cardinality(ArcsFromTo(m, n)) \in Nat
             /\ indegree'[n] = indegree[n] - Cardinality(ArcsFromTo(m, n))
  <2>1. m \in graph.nodes \ W
    BY <1>4, <1>5
  <2>2. /\ Cardinality(ArcsFromTo(m, n)) \in Nat
        /\ Cardinality(EnteringFrom(n, (graph.nodes \ W) \ {m}))
             = Cardinality(EnteringFrom(n, graph.nodes \ W)) - Cardinality(ArcsFromTo(m, n))
    BY <1>g, <2>1, EnteringSplits
  <2>3. Cardinality(EnteringFrom(n, (graph.nodes \ W) \ {m})) \in Nat
    BY <1>g, EnteringCounts
  <2>4. indegree'[n] = indegree[n] - Cardinality(ArcsFromTo(m, n))
    BY <1>2
  <2>5. indegree[n] = Cardinality(EnteringFrom(n, graph.nodes \ W))
    BY <1>1
  <2> QED
    BY <1>6, <2>2, <2>3, <2>4, <2>5
<1>8. IsFiniteSet(Fresh)
  <2>1. Fresh \in SUBSET graph.nodes
    BY DEF Fresh
  <2> QED
    BY <1>g, <2>1, FS_Subset DEF IsMultigraph
<1>9. /\ order \in Seq(Fresh) /\ DOMAIN order = 1 .. Len(order) /\ Len(order) \in Nat
      /\ \A e \in Fresh : \E i \in DOMAIN order : order[i] = e
      /\ \A i, j \in DOMAIN order : order[i] = order[j] => i = j
  BY <1>8, OrdersList
<1>91. \A i \in DOMAIN order : order[i] \in Fresh
  BY <1>9
<1>92. \A i \in DOMAIN ready : ready[i] \in graph.nodes /\ indegree[ready[i]] = 0
  BY <1>1
<1>10. order \in Seq(graph.nodes)
  BY <1>9 DEF Fresh
<1>11. /\ ready' \in Seq(graph.nodes) /\ Len(ready') = Len(ready) - 1 + Len(order)
       /\ \A i \in 1 .. Len(ready) - 1 : ready'[i] = ready[i + 1]
       /\ \A i \in 1 .. Len(order) : ready'[Len(ready) - 1 + i] = order[i]
  BY <1>3, <1>4, <1>9, <1>10
<1>12. DOMAIN ready' = 1 .. Len(ready) - 1 + Len(order)
  BY <1>11
\* Each place of the new queue is one of the old queue or of the new nodes.
<1>13. ASSUME NEW i \in DOMAIN ready'
       PROVE  \/ i \in 1 .. Len(ready) - 1 /\ ready'[i] = ready[i + 1] /\ i + 1 \in DOMAIN ready
              \/ i - (Len(ready) - 1) \in DOMAIN order /\ ready'[i] = order[i - (Len(ready) - 1)]
  <2>1. CASE i <= Len(ready) - 1
    BY <2>1, <1>4, <1>11, <1>12
  <2>2. CASE i > Len(ready) - 1
    <3>1. i - (Len(ready) - 1) \in 1 .. Len(order)
          /\ (Len(ready) - 1) + (i - (Len(ready) - 1)) = i
      BY <2>2, <1>4, <1>9, <1>12
    <3> QED
      BY <3>1, <1>9, <1>11
  <2> QED
    BY <2>1, <2>2, <1>4, <1>12
<1>14. \A n \in graph.nodes : indegree[n] = 0 => indegree'[n] = 0 /\ n \notin Fresh
  <2>1. ASSUME NEW n \in graph.nodes, indegree[n] = 0
        PROVE  indegree'[n] = 0 /\ n \notin Fresh
    <3>1. indegree'[n] \in Nat /\ Cardinality(ArcsFromTo(m, n)) \in Nat
          /\ indegree'[n] = 0 - Cardinality(ArcsFromTo(m, n))
      BY <1>7, <2>1
    <3> QED
      BY <3>1 DEF Fresh
  <2> QED
    BY <2>1
<1>15. \A i \in DOMAIN ready' : indegree'[ready'[i]] = 0
  <2>1. ASSUME NEW i \in DOMAIN ready' PROVE indegree'[ready'[i]] = 0
    <3>1. CASE ready'[i] = ready[i + 1] /\ i + 1 \in DOMAIN ready
      <4>1. ready[i + 1] \in graph.nodes /\ indegree[ready[i + 1]] = 0
        BY <3>1, <1>1
      <4> QED
        BY <4>1, <3>1, <1>14
    <3>2. CASE i - (Len(ready) - 1) \in DOMAIN order /\ ready'[i] = order[i - (Len(ready) - 1)]
      BY <3>2, <1>9 DEF Fresh
    <3> QED
      BY <3>1, <3>2, <1>13
  <2> QED
    BY <2>1
<1>16. \A i, j \in DOMAIN ready' : ready'[i] = ready'[j] => i = j
  <2>1. ASSUME NEW i \in DOMAIN ready', NEW j \in DOMAIN ready', ready'[i] = ready'[j],
               ready'[i] = ready[i + 1], i + 1 \in DOMAIN ready,
               j - (Len(ready) - 1) \in DOMAIN order, ready'[j] = order[j - (Len(ready) - 1)]
        PROVE  FALSE
    <3>1. ready[i + 1] \in graph.nodes /\ indegree[ready[i + 1]] = 0 /\ ready[i + 1] \in Fresh
      BY <2>1, <1>91, <1>92
    <3> QED
      BY <3>1, <1>14
  <2>2. ASSUME NEW i \in DOMAIN ready', NEW j \in DOMAIN ready', ready'[i] = ready'[j],
               ready'[i] = ready[i + 1], i + 1 \in DOMAIN ready,
               ready'[j] = ready[j + 1], j + 1 \in DOMAIN ready
        PROVE  i = j
    <3>1. i + 1 = j + 1
      BY <2>2, <1>1
    <3> QED
      BY <3>1, <1>4, <1>9, <1>12
  <2>3. ASSUME NEW i \in DOMAIN ready', NEW j \in DOMAIN ready', ready'[i] = ready'[j],
               i - (Len(ready) - 1) \in DOMAIN order, ready'[i] = order[i - (Len(ready) - 1)],
               j - (Len(ready) - 1) \in DOMAIN order, ready'[j] = order[j - (Len(ready) - 1)]
        PROVE  i = j
    <3>1. i - (Len(ready) - 1) = j - (Len(ready) - 1)
      BY <2>3, <1>9
    <3> QED
      BY <3>1, <1>4, <1>12
  <2> QED
    BY <2>1, <2>2, <2>3, <1>13
<1>17. WorkedOff' = W \cup {m}
  <2>1. ASSUME NEW n \in WorkedOff' PROVE n \in W \cup {m}
    <3>1. n \in graph.nodes /\ indegree'[n] = 0 /\ \A i \in DOMAIN ready' : ready'[i] # n
      BY <2>1 DEF WorkedOff
    <3>2. n \notin Fresh
      <4>1. ASSUME n \in Fresh PROVE FALSE
        <5>1. PICK i \in DOMAIN order : order[i] = n
          BY <4>1, <1>9
        <5>2. i \in 1 .. Len(order) /\ Len(ready) - 1 + i \in DOMAIN ready'
          BY <5>1, <1>4, <1>9, <1>12
        <5> QED
          BY <5>1, <5>2, <3>1, <1>11
      <4> QED
        BY <4>1
    <3>3. Cardinality(ArcsFromTo(m, n)) = 0
      <4>1. Cardinality(ArcsFromTo(m, n)) \in Nat
        BY <3>1, <1>7
      <4> QED
        BY <4>1, <3>1, <3>2 DEF Fresh
    <3>4. indegree[n] = 0
      BY <3>1, <3>3, <1>1, <1>7
    <3>5. ASSUME n # m, NEW i \in DOMAIN ready, ready[i] = n PROVE FALSE
      <4>1. i \in 2 .. Len(ready)
        BY <3>5, <1>4
      <4>2. i - 1 \in 1 .. Len(ready) - 1 /\ (i - 1) + 1 = i
        BY <4>1, <1>4
      <4>3. ready'[i - 1] = n /\ i - 1 \in DOMAIN ready'
        <5>1. i - 1 \in DOMAIN ready'
          BY <4>2, <1>4, <1>9, <1>12
        <5>2. ready'[i - 1] = ready[(i - 1) + 1]
          BY <4>2, <1>11
        <5> QED
          BY <5>1, <5>2, <4>2, <3>5
      <4> QED
        BY <4>3, <3>1
    <3> QED
      BY <3>1, <3>4, <3>5 DEF WorkedOff, W
  <2>2. ASSUME NEW n \in W \cup {m} PROVE n \in WorkedOff'
    <3>1. n \in graph.nodes /\ indegree[n] = 0
      BY <1>4, <1>5 DEF W, WorkedOff
    <3>2. indegree'[n] = 0 /\ n \notin Fresh
      BY <3>1, <1>14
    <3>3. ASSUME NEW i \in DOMAIN ready', ready'[i] = n PROVE FALSE
      <4>1. CASE i \in 1 .. Len(ready) - 1 /\ ready'[i] = ready[i + 1] /\ i + 1 \in DOMAIN ready
        <5>1. ready[i + 1] = n /\ i + 1 # 1
          BY <3>3, <4>1
        <5>2. n # m
          BY <5>1, <4>1, <1>1, <1>4
        <5> QED
          BY <5>1, <5>2, <4>1 DEF W, WorkedOff
      <4>2. CASE i - (Len(ready) - 1) \in DOMAIN order /\ ready'[i] = order[i - (Len(ready) - 1)]
        BY <4>2, <3>2, <3>3, <1>91
      <4> QED
        BY <4>1, <4>2, <1>13
    <3> QED
      BY <3>1, <3>2, <3>3 DEF WorkedOff
  <2> QED
    BY <2>1, <2>2
<1>18. counted' = Cardinality(WorkedOff')
  <2>1. W \in SUBSET graph.nodes
    BY DEF W, WorkedOff
  <2>2. IsFiniteSet(W)
    BY <2>1, <1>g, FS_Subset DEF IsMultigraph
  <2>3. Cardinality(W \cup {m}) = Cardinality(W) + 1
    BY <2>2, <1>5, FS_AddElement
  <2> QED
    BY <2>3, <1>1, <1>17, <1>u
<1>19. Recurrent' \cap WorkedOff' = {}
  <2>1. m \notin Recurrent
    <3>1. ASSUME m \in Recurrent PROVE FALSE
      <4>1. LeadsRules /\ <<m, m>> \in Leads
        BY <3>1, <1>g, LeadsAre DEF Recurrent
      <4>2. PICK p : <<p, m>> \in Arrows /\ <<p, p>> \in Leads
        BY <4>1, CycleEnters
      <4>3. p \in graph.nodes
        BY <4>1, <4>2 DEF LeadsRules, Pairs
      <4>4. p \in graph.nodes \ W
        BY <4>2, <4>3, <1>1 DEF Recurrent
      <4>5. Cardinality(EnteringFrom(m, graph.nodes \ W)) = 0
        BY <1>1, <1>4, <1>5
      <4> QED
        BY <4>2, <4>4, <4>5, <1>g, EnteringCounts
    <3> QED
      BY <3>1
  <2> QED
    BY <2>1, <1>1, <1>17, <1>k DEF LeadsKept
<1>20. CountInv'
  <2>1. indegree' \in [graph.nodes -> Nat]
    BY <1>2, <1>7
  <2>2. \A n \in graph'.nodes :
          indegree'[n] = Cardinality(EnteringFrom(n, graph.nodes \ WorkedOff)')
    <3>1. ASSUME NEW n \in graph.nodes
          PROVE  EnteringFrom(n, graph.nodes \ WorkedOff)'
                   = EnteringFrom(n, graph.nodes \ (W \cup {m}))
      BY <1>17, <1>k DEF EnteringFrom, LeadsKept
    <3> QED
      BY <1>7, <3>1
  <2> QED
    BY <2>1, <2>2, <1>11, <1>15, <1>16, <1>18, <1>19 DEF CountInv
<1> QED
  BY <1>u, <1>g, <1>20 DEF CycleInv, PhaseInv, UnusedInv, LeftOverInv, TrailInv,
                          ReportsInv, CoverInv, Walking

LEMMA EndCountingInv == CycleInv /\ EndCounting /\ graph' = graph => CycleInv'
<1> SUFFICES ASSUME CycleInv, EndCounting, graph' = graph PROVE CycleInv'
  OBVIOUS
<1>g. IsMultigraph(graph) /\ cphase = "counting" /\ ready = <<>>
  BY DEF EndCounting, CycleInv, PhaseInv
<1>k. LeadsKept
  BY GraphKept
<1>u. /\ indegree' = indegree /\ ready' = ready /\ counted' = counted
      /\ finished' = {} /\ frames' = <<>> /\ cycles' = <<>> /\ cyclic = {}
  BY <1>g DEF EndCounting, CycleInv, UnusedInv
<1>1. /\ indegree \in [graph.nodes -> Nat] /\ counted = Cardinality(WorkedOff)
      /\ Recurrent \cap WorkedOff = {}
  BY <1>g DEF CycleInv, CountInv
<1>2. WorkedOff = {n \in graph.nodes : indegree[n] = 0}
  BY <1>g DEF WorkedOff
<1>3. Recurrent \subseteq graph.nodes
  BY DEF Recurrent
<1>4. /\ cphase' \in {"extracting", "done"}
      /\ cyclic' \subseteq graph.nodes /\ Recurrent \subseteq cyclic'
      /\ cphase' = "done" => cyclic' = {}
  <2>1. CASE counted = Cardinality(graph.nodes)
    <3>1. cphase' = "done" /\ cyclic' = {}
      BY <2>1, <1>u DEF EndCounting
    <3>2. WorkedOff \in SUBSET graph.nodes
      BY DEF WorkedOff
    <3>3. WorkedOff = graph.nodes
      BY <3>2, <2>1, <1>1, <1>g, FS_Subset DEF IsMultigraph
    <3> QED
      BY <3>1, <3>3, <1>1, <1>3
  <2>2. CASE counted # Cardinality(graph.nodes)
    <3>1. cphase' = "extracting" /\ cyclic' = {n \in graph.nodes : indegree[n] > 0}
      BY <2>2 DEF EndCounting
    <3>2. \A n \in Recurrent : n \in graph.nodes /\ indegree[n] # 0 /\ indegree[n] \in Nat
      BY <1>1, <1>2, <1>3
    <3> QED
      BY <3>1, <3>2
  <2> QED
    BY <2>1, <2>2
<1>5. PhaseInv' /\ CountInv' /\ UnusedInv'
  BY <1>4, <1>g DEF PhaseInv, CyclePhases, CountInv, UnusedInv
<1>6. LeftOverInv'
  BY <1>4, <1>u, <1>k DEF LeftOverInv, LeadsKept
<1>7. TrailInv' /\ ReportsInv' /\ CoverInv'
  BY <1>u DEF TrailInv, ReportsInv, CoverInv
<1> QED
  BY <1>5, <1>6, <1>7 DEF CycleInv

(* Steps of the walk leave what the count has found.                       *)
LEMMA PickStartInv == CycleInv /\ PickStart /\ graph' = graph => CycleInv'
<1> SUFFICES ASSUME CycleInv, PickStart, graph' = graph PROVE CycleInv'
  OBVIOUS
<1>g. IsMultigraph(graph) /\ cphase = "extracting" /\ frames = <<>>
  BY DEF PickStart, CycleInv, PhaseInv
<1>k. LeadsKept
  BY GraphKept
<1>u. /\ cphase' = cphase /\ cyclic' = cyclic /\ finished' = finished /\ cycles' = cycles
  BY DEF PickStart
<1>1. PICK n \in cyclic \ finished : frames' = <<Frame(n)>>
  BY DEF PickStart
<1> DEFINE s == FilteredSuccessors(n)
<1>2. /\ s \in Seq(cyclic)
      /\ \A i \in DOMAIN s : <<n, s[i]>> \in Arrows
      /\ \A t \in cyclic : <<n, t>> \in Arrows => \E i \in DOMAIN s : s[i] = t
  BY <1>g, FilteredSuccessorsAre
<1>3. Frame(n) = [node |-> n, children |-> s]
  BY DEF Frame
<1> HIDE DEF s
<1>4. /\ frames' \in Seq([node : cyclic, children : Seq(cyclic)]) /\ Len(frames') = 1
      /\ DOMAIN frames' = {1} /\ frames'[1].node = n /\ frames'[1].children = s
  <2> DEFINE f == [node |-> n, children |-> s]
  <2>1. f \in [node : cyclic, children : Seq(cyclic)] /\ f.node = n /\ f.children = s
    BY <1>2
  <2> HIDE DEF f
  <2>2. frames' = <<f>>
    BY <1>1, <1>3 DEF f
  <2> QED
    BY <2>1, <2>2
<1>5. PhaseInv' /\ CountInv' /\ UnusedInv'
  BY <1>g, <1>u DEF CycleInv, PhaseInv, CyclePhases, CountInv, UnusedInv
<1>6. LeftOverInv'
  BY <1>g, <1>u, <1>k DEF CycleInv, LeftOverInv, LeadsKept, Walking
<1>7. TrailInv'
  BY <1>2, <1>4, <1>u, <1>k DEF TrailInv, LeadsKept
<1>8. ReportsInv'
  <2>1. \A c : IsCycle(c)' <=> IsCycle(c)
    BY <1>k DEF IsCycle, ArcsFromTo, LeadsKept
  <2> QED
    BY <2>1, <1>g, <1>u DEF CycleInv, ReportsInv, Walking
<1>9. CoverInv'
  <2>2. \A m \in finished \cap Recurrent : Reported(m, cycles, Leads)
    BY <1>g DEF CycleInv, CoverInv, Walking
  <2>3. \A i \in DOMAIN frames' : \A t \in cyclic' : <<frames'[i].node, t>> \in Arrows' =>
          \E k \in DOMAIN frames'[i].children : frames'[i].children[k] = t
    BY <1>2, <1>4, <1>u, <1>k DEF LeadsKept
  <2>4. \A m \in finished' \cap Recurrent' : Reported(m, cycles', Leads')
    BY <2>2, <1>u, <1>k DEF LeadsKept
  <2> QED
    BY <2>3, <2>4 DEF CoverInv
<1> QED
  BY <1>5, <1>6, <1>7, <1>8, <1>9 DEF CycleInv

LEMMA EndExtractingInv == CycleInv /\ EndExtracting /\ graph' = graph => CycleInv'
<1> SUFFICES ASSUME CycleInv, EndExtracting, graph' = graph PROVE CycleInv'
  OBVIOUS
<1>g. IsMultigraph(graph) /\ cphase = "extracting" /\ frames = <<>> /\ cyclic \subseteq finished
  BY DEF EndExtracting, CycleInv, PhaseInv
<1>k. LeadsKept
  BY GraphKept
<1>u. /\ cphase' = "done" /\ cyclic' = cyclic /\ finished' = finished /\ cycles' = cycles
      /\ frames' = frames
  BY DEF EndExtracting
<1>5. PhaseInv' /\ CountInv' /\ UnusedInv'
  BY <1>g, <1>u DEF CycleInv, PhaseInv, CyclePhases, CountInv, UnusedInv
<1>6. LeftOverInv'
  BY <1>g, <1>u, <1>k DEF CycleInv, LeftOverInv, LeadsKept, Walking
<1>7. TrailInv'
  BY <1>g, <1>u DEF TrailInv
<1>8. ReportsInv'
  <2>1. \A c : IsCycle(c)' <=> IsCycle(c)
    BY <1>k DEF IsCycle, ArcsFromTo, LeadsKept
  <2> QED
    BY <2>1, <1>g, <1>u DEF CycleInv, ReportsInv, Walking
<1>9. CoverInv'
  <2>2. \A m \in finished \cap Recurrent : Reported(m, cycles, Leads)
    BY <1>g DEF CycleInv, CoverInv, Walking
  <2>3. \A m \in finished' \cap Recurrent' : Reported(m, cycles', Leads')
    BY <2>2, <1>u, <1>k DEF LeadsKept
  <2> QED
    BY <2>3, <1>g, <1>u DEF CoverInv
<1> QED
  BY <1>5, <1>6, <1>7, <1>8, <1>9 DEF CycleInv

-----------------------------------------------------------------------------
(* The steps of the walk.                                                  *)
Framed == [node : cyclic, children : Seq(cyclic)]

LEMMA WalkIs ==
  ASSUME CycleInv, frames # <<>>
  PROVE  /\ cphase = "extracting" /\ IsMultigraph(graph)
         /\ frames \in Seq(Framed) /\ Len(frames) \in Nat \ {0} /\ DOMAIN frames = 1 .. Len(frames)
         /\ Top \in Framed /\ Top.node \in cyclic /\ Top.children \in Seq(cyclic)
<1>1. cphase = "extracting" /\ IsMultigraph(graph)
  BY DEF CycleInv, PhaseInv, CyclePhases, UnusedInv, LeftOverInv, Walking
<1>2. frames \in Seq(Framed)
  BY <1>1 DEF CycleInv, TrailInv, Walking, Framed
<1>3. Len(frames) \in Nat \ {0} /\ DOMAIN frames = 1 .. Len(frames)
  BY <1>2
<1>4. Top \in Framed
  BY <1>2, <1>3 DEF Top
<1> QED
  BY <1>1, <1>2, <1>3, <1>4 DEF Framed

LEMMA TakenIs ==
  ASSUME CycleInv, frames # <<>>, Top.children # <<>>
  PROVE  /\ Taken \in Seq(Framed) /\ Len(Taken) = Len(frames)
         /\ \A i \in DOMAIN frames : Taken[i].node = frames[i].node
         /\ \A i \in 1 .. Len(frames) - 1 : Taken[i].children = frames[i].children
         /\ Taken[Len(frames)].children = Tail(Top.children)
         /\ Head(Top.children) \in cyclic
         /\ <<Top.node, Head(Top.children)>> \in Arrows
         /\ Tail(Top.children) \in Seq(cyclic)
         /\ \A k \in DOMAIN Tail(Top.children) :
              k + 1 \in DOMAIN Top.children /\ Tail(Top.children)[k] = Top.children[k + 1]
         /\ \A k \in DOMAIN Top.children :
              Top.children[k] = Head(Top.children)
                \/ \E j \in DOMAIN Tail(Top.children) : Tail(Top.children)[j] = Top.children[k]
<1> DEFINE L == Len(frames)
           c == Top.children
<1>1. /\ cphase = "extracting" /\ frames \in Seq(Framed) /\ L \in Nat \ {0}
      /\ DOMAIN frames = 1 .. L /\ Top \in Framed /\ c \in Seq(cyclic) /\ Top = frames[L]
  BY WalkIs DEF Top
<1> HIDE DEF c
<1>2. /\ Len(c) \in Nat \ {0} /\ DOMAIN c = 1 .. Len(c) /\ Head(c) = c[1] /\ Head(c) \in cyclic
      /\ Tail(c) \in Seq(cyclic) /\ Len(Tail(c)) = Len(c) - 1
      /\ \A k \in 1 .. Len(c) - 1 : Tail(c)[k] = c[k + 1]
  BY <1>1 DEF c
<1>3. \A k \in DOMAIN Tail(c) : k + 1 \in DOMAIN c /\ Tail(c)[k] = c[k + 1]
  BY <1>2
<1>4. ASSUME NEW k \in DOMAIN c, c[k] # Head(c)
      PROVE  \E j \in DOMAIN Tail(c) : Tail(c)[j] = c[k]
  <2>1. k - 1 \in 1 .. Len(c) - 1 /\ (k - 1) + 1 = k
    BY <1>2, <1>4
  <2>2. k - 1 \in DOMAIN Tail(c) /\ Tail(c)[k - 1] = c[k]
    BY <2>1, <1>2
  <2> QED
    BY <2>2
<1>5. <<Top.node, Head(c)>> \in Arrows
  <2>1. TrailInv /\ Walking
    BY <1>1 DEF CycleInv, Walking
  <2>11. \A i \in DOMAIN frames : \A k \in DOMAIN frames[i].children :
           <<frames[i].node, frames[i].children[k]>> \in Arrows
    BY <2>1, Zenon DEF TrailInv
  <2>2. \A k \in DOMAIN frames[L].children :
          <<frames[L].node, frames[L].children[k]>> \in Arrows
    BY <2>11, <1>1
  <2>3. frames[L].node = Top.node /\ frames[L].children = c
    BY <1>1 DEF c
  <2>4. \A k \in DOMAIN c : <<Top.node, c[k]>> \in Arrows
    BY <2>2, <2>3
  <2>5. 1 \in DOMAIN c /\ Head(c) = c[1]
    BY <1>2
  <2> QED
    BY <2>4, <2>5
<1> DEFINE t == [Top EXCEPT !.children = Tail(c)]
<1>6. Taken = [frames EXCEPT ![L] = t]
  BY <1>1 DEF Taken, c
<1>7. t \in Framed /\ t.node = Top.node /\ t.children = Tail(c)
  BY <1>1, <1>2 DEF Framed
<1> HIDE DEF t
<1>8. /\ Taken \in Seq(Framed) /\ Len(Taken) = L /\ Taken[L] = t
      /\ \A i \in 1 .. L - 1 : Taken[i] = frames[i]
  BY <1>1, <1>6, <1>7
<1>9. \A i \in DOMAIN frames : Taken[i].node = frames[i].node
  BY <1>1, <1>7, <1>8
<1> QED
  BY <1>2, <1>3, <1>4, <1>5, <1>7, <1>8, <1>9 DEF c

\* What the steps of the walk have in common: they leave the count alone.
LEMMA WalkKeeps ==
  ASSUME CycleInv, cphase = "extracting", graph' = graph,
         UNCHANGED <<indegree, ready, counted, cyclic, cphase>>,
         finished \subseteq finished', finished' \subseteq cyclic
  PROVE  PhaseInv' /\ CountInv' /\ UnusedInv' /\ LeftOverInv' /\ Walking'
<1>k. LeadsKept
  BY GraphKept
<1>1. PhaseInv' /\ CountInv' /\ UnusedInv'
  BY DEF CycleInv, PhaseInv, CyclePhases, CountInv, UnusedInv
<1>2. LeftOverInv'
  BY <1>k DEF CycleInv, LeftOverInv, LeadsKept, Walking
<1> QED
  BY <1>1, <1>2 DEF Walking

LEMMA ReportsKept ==
  ASSUME CycleInv, Walking, LeadsKept, cyclic' = cyclic, cycles' = cycles
  PROVE  ReportsInv'
<1>1. \A c : IsCycle(c)' <=> IsCycle(c)
  BY DEF IsCycle, ArcsFromTo, LeadsKept
<1> QED
  BY <1>1 DEF CycleInv, ReportsInv

\* The same facts one by one.
LEMMA TrailIs ==
  ASSUME CycleInv, frames # <<>>
  PROVE  /\ \A i \in 1 .. Len(frames) - 1 : <<frames[i].node, frames[i + 1].node>> \in Arrows
         /\ \A i, j \in DOMAIN frames : frames[i].node = frames[j].node => i = j
         /\ \A i \in DOMAIN frames : frames[i].node \notin finished
         /\ \A i \in DOMAIN frames : \A k \in DOMAIN frames[i].children :
              <<frames[i].node, frames[i].children[k]>> \in Arrows
<1>1. TrailInv /\ Walking
  BY WalkIs DEF CycleInv, Walking
<1> QED
  BY <1>1, Zenon DEF TrailInv

(* The two steps that only take the next child: it is on the trail, or     *)
(* finished.                                                               *)
LEMMA TakenTrail ==
  ASSUME CycleInv, frames # <<>>, Top.children # <<>>, frames' = Taken, LeadsKept,
         UNCHANGED <<cyclic, finished>>
  PROVE  TrailInv'
<1> DEFINE L == Len(frames)
<1>1. /\ cphase = "extracting" /\ frames \in Seq(Framed) /\ L \in Nat \ {0}
      /\ DOMAIN frames = 1 .. L /\ Top = frames[L]
  BY WalkIs DEF Top
<1>2. /\ frames' \in Seq(Framed) /\ Len(frames') = L
      /\ \A i \in DOMAIN frames : frames'[i].node = frames[i].node
      /\ \A i \in 1 .. L - 1 : frames'[i].children = frames[i].children
      /\ frames'[L].children = Tail(Top.children)
      /\ \A k \in DOMAIN Tail(Top.children) :
           k + 1 \in DOMAIN Top.children /\ Tail(Top.children)[k] = Top.children[k + 1]
  BY TakenIs
<1>3. /\ \A i \in 1 .. L - 1 : <<frames[i].node, frames[i + 1].node>> \in Arrows
      /\ \A i, j \in DOMAIN frames : frames[i].node = frames[j].node => i = j
      /\ \A i \in DOMAIN frames : frames[i].node \notin finished
      /\ \A i \in DOMAIN frames : \A k \in DOMAIN frames[i].children :
              <<frames[i].node, frames[i].children[k]>> \in Arrows
  BY TrailIs
<1> HIDE DEF L
<1>4. DOMAIN frames' = 1 .. L
  BY <1>2
<1>5. \A i \in 1 .. L - 1 : <<frames'[i].node, frames'[i + 1].node>> \in Arrows
  <2>1. ASSUME NEW i \in 1 .. L - 1 PROVE <<frames'[i].node, frames'[i + 1].node>> \in Arrows
    <3>1. i \in DOMAIN frames /\ i + 1 \in DOMAIN frames
      BY <1>1
    <3>2. frames'[i].node = frames[i].node /\ frames'[i + 1].node = frames[i + 1].node
      BY <1>2, <3>1
    <3>3. <<frames[i].node, frames[i + 1].node>> \in Arrows
      BY <1>3
    <3> QED
      BY <3>2, <3>3
  <2> QED
    BY <2>1
<1>6. \A i \in DOMAIN frames' : \A k \in DOMAIN frames'[i].children :
        <<frames'[i].node, frames'[i].children[k]>> \in Arrows
  <2>1. ASSUME NEW i \in 1 .. L - 1, NEW k \in DOMAIN frames'[i].children
        PROVE  <<frames'[i].node, frames'[i].children[k]>> \in Arrows
    <3>1. i \in DOMAIN frames
      BY <1>1
    <3>2. frames'[i].node = frames[i].node /\ frames'[i].children = frames[i].children
      BY <1>2, <3>1
    <3>3. <<frames[i].node, frames[i].children[k]>> \in Arrows
      BY <1>3, <3>1, <3>2
    <3> QED
      BY <3>2, <3>3
  <2>2. ASSUME NEW k \in DOMAIN frames'[L].children
        PROVE  <<frames'[L].node, frames'[L].children[k]>> \in Arrows
    <3>1. k + 1 \in DOMAIN frames[L].children /\ frames'[L].children[k] = frames[L].children[k + 1]
      BY <2>2, <1>1, <1>2
    <3>2. L \in DOMAIN frames /\ frames'[L].node = frames[L].node
      BY <1>1, <1>2
    <3>3. <<frames[L].node, frames[L].children[k + 1]>> \in Arrows
      BY <1>3, <3>1, <3>2
    <3> QED
      BY <3>1, <3>2, <3>3
  <2>3. ASSUME NEW i \in DOMAIN frames' PROVE i = L \/ i \in 1 .. L - 1
    BY <1>1, <1>4
  <2> QED
    BY <2>1, <2>2, <2>3
<1>7. frames' \in Seq(Framed')
  BY <1>2 DEF Framed
<1>8. /\ \A i, j \in DOMAIN frames' : frames'[i].node = frames'[j].node => i = j
      /\ \A i \in DOMAIN frames' : frames'[i].node \notin finished'
  BY <1>1, <1>2, <1>3, <1>4
<1> QED
  BY <1>2, <1>5, <1>6, <1>7, <1>8 DEF TrailInv, Framed, LeadsKept

LEMMA TakenCover ==
  ASSUME CycleInv, frames # <<>>, Top.children # <<>>, frames' = Taken, LeadsKept,
         UNCHANGED <<cyclic, finished>>,
         \A n : Reported(n, cycles, Leads) => Reported(n, cycles', Leads),
         Head(Top.children) \in finished \/ Reported(Top.node, cycles', Leads)
  PROVE  CoverInv'
<1> DEFINE L == Len(frames)
<1>1. /\ cphase = "extracting" /\ frames \in Seq(Framed) /\ L \in Nat \ {0}
      /\ DOMAIN frames = 1 .. L /\ Top = frames[L]
  BY WalkIs DEF Top
<1>2. /\ frames' \in Seq(Framed) /\ Len(frames') = L
      /\ \A i \in DOMAIN frames : frames'[i].node = frames[i].node
      /\ \A i \in 1 .. L - 1 : frames'[i].children = frames[i].children
      /\ frames'[L].children = Tail(Top.children)
      /\ \A k \in DOMAIN Top.children :
              Top.children[k] = Head(Top.children)
                \/ \E j \in DOMAIN Tail(Top.children) : Tail(Top.children)[j] = Top.children[k]
  BY TakenIs
<1>3. DOMAIN frames' = 1 .. L
  BY <1>2
<1>4. /\ \A n \in finished \cap Recurrent : Reported(n, cycles, Leads)
      /\ \A i \in DOMAIN frames : \A s \in cyclic :
           <<frames[i].node, s>> \in Arrows =>
             \/ \E k \in DOMAIN frames[i].children : frames[i].children[k] = s
             \/ s \in finished
             \/ i < Len(frames) /\ s = frames[i + 1].node
             \/ Reported(frames[i].node, cycles, Leads)
  <2>1. CoverInv /\ Walking
    BY <1>1 DEF CycleInv, Walking
  <2> QED
    BY <2>1, Zenon DEF CoverInv
<1> HIDE DEF L
<1>5. \A n \in finished' \cap Recurrent' : Reported(n, cycles', Leads')
  BY <1>4 DEF LeadsKept
<1>6. ASSUME NEW i \in DOMAIN frames', NEW s \in cyclic', <<frames'[i].node, s>> \in Arrows'
      PROVE  \/ \E k \in DOMAIN frames'[i].children : frames'[i].children[k] = s
             \/ s \in finished'
             \/ i < Len(frames') /\ s = frames'[i + 1].node
             \/ Reported(frames'[i].node, cycles', Leads')
  <2>1. i \in DOMAIN frames /\ s \in cyclic /\ <<frames[i].node, s>> \in Arrows
        /\ frames'[i].node = frames[i].node
    BY <1>6, <1>1, <1>2, <1>3 DEF LeadsKept
  <2>2. CASE \E k \in DOMAIN frames[i].children : frames[i].children[k] = s
    <3>1. CASE i < L
      <4>1. frames'[i].children = frames[i].children
        BY <3>1, <1>1, <1>2, <1>3
      <4> QED
        BY <4>1, <2>2
    <3>2. CASE i = L
      <4>1. s = Head(Top.children)
              \/ \E j \in DOMAIN Tail(Top.children) : Tail(Top.children)[j] = s
        <5>1. frames[i] = Top
          BY <3>2, <1>1
        <5>2. PICK k \in DOMAIN Top.children : Top.children[k] = s
          BY <5>1, <2>2
        <5> QED
          BY <5>2, <1>2
      <4>2. CASE s = Head(Top.children)
        <5>1. s \in finished \/ Reported(Top.node, cycles', Leads)
          BY <4>2
        <5>2. Top.node = frames'[i].node
          BY <3>2, <2>1, <1>1
        <5> QED
          BY <5>1, <5>2, <4>2 DEF LeadsKept
      <4> QED
        BY <4>1, <4>2, <3>2, <1>2
    <3> QED
      BY <3>1, <3>2, <1>1, <2>1
  <2>3. CASE i < Len(frames) /\ s = frames[i + 1].node
    <3>1. i + 1 \in DOMAIN frames
      BY <2>3, <1>1, <2>1
    <3>2. frames'[i + 1].node = frames[i + 1].node
      BY <3>1, <1>2
    <3> QED
      BY <3>2, <2>3, <1>2 DEF L
  <2>4. CASE Reported(frames[i].node, cycles, Leads)
    BY <2>1, <2>4 DEF LeadsKept
  <2> QED
    BY <1>4, <2>1, <2>2, <2>3, <2>4
<1> QED
  BY <1>5, <1>6 DEF CoverInv

LEMMA SkipFinishedInv == CycleInv /\ SkipFinished /\ graph' = graph => CycleInv'
<1> SUFFICES ASSUME CycleInv, SkipFinished, graph' = graph PROVE CycleInv'
  OBVIOUS
<1>u. /\ frames # <<>> /\ Top.children # <<>> /\ Head(Top.children) \in finished
      /\ frames' = Taken /\ cycles' = cycles /\ UNCHANGED <<cyclic, finished>>
      /\ UNCHANGED <<indegree, ready, counted, cyclic, cphase>>
  BY DEF SkipFinished
<1>k. LeadsKept
  BY GraphKept
<1>1. cphase = "extracting" /\ Walking
  BY <1>u, WalkIs DEF Walking
<1>2. PhaseInv' /\ CountInv' /\ UnusedInv' /\ LeftOverInv'
  <2>1. finished' \subseteq cyclic
    BY <1>1, <1>u DEF CycleInv, LeftOverInv
  <2> QED
    BY <1>1, <1>u, <2>1, WalkKeeps
<1>3. TrailInv' /\ CoverInv' /\ ReportsInv'
  BY <1>u, <1>k, <1>1, TakenTrail, TakenCover, ReportsKept
<1> QED
  BY <1>2, <1>3 DEF CycleInv

\* The places from the i-th to the last, counted from one.
LEMMA PlacesFrom ==
  ASSUME NEW L \in Nat, NEW i \in 1 .. L
  PROVE  /\ L - i + 1 \in Nat \ {0} /\ i \in Nat \ {0} /\ i + (L - i + 1) - 1 = L
         /\ \A j \in 1 .. L - i + 1 : i + j - 1 \in i .. L /\ i + j - 1 \in 1 .. L
         /\ \A j \in 1 .. L - i + 1 : j # L - i + 1 =>
              /\ j + 1 \in 1 .. L - i + 1 /\ i + j - 1 \in 1 .. L - 1
              /\ i + (j + 1) - 1 = (i + j - 1) + 1
OBVIOUS

LEMMA LastPlace ==
  ASSUME NEW n \in Nat
  PROVE  n + 1 \in 1 .. n + 1 /\ ~(n + 1 <= n) /\ (n + 1) - n = 1
OBVIOUS

\* A part of a sequence up to its end, and its first element once more.
Loops(c, t, i, n, S) ==
  /\ n \in Nat \ {0} /\ i \in Nat \ {0} /\ i + n - 1 = Len(t)
  /\ c \in Seq(S) /\ Len(c) = n + 1 /\ DOMAIN c = 1 .. n + 1
  /\ \A j \in 1 .. n : c[j] = t[i + j - 1] /\ i + j - 1 \in i .. Len(t)
                        /\ i + j - 1 \in DOMAIN t
  /\ c[n + 1] = t[i]

LEMMA LoopIs ==
  ASSUME NEW S, NEW t \in Seq(S), NEW i \in DOMAIN t, NEW n, n = Len(t) - i + 1,
         NEW c, c = SubSeq(t, i, Len(t)) \o <<t[i]>>
  PROVE  Loops(c, t, i, n, S)
<1>1. Len(t) \in Nat /\ DOMAIN t = 1 .. Len(t) /\ i \in 1 .. Len(t)
  OBVIOUS
<1>2. n \in Nat \ {0} /\ i \in Nat \ {0} /\ i + n - 1 = Len(t)
  BY <1>1
<1> DEFINE s == SubSeq(t, i, Len(t))
<1>3. s \in Seq(S) /\ Len(s) = n /\ \A j \in 1 .. n : s[j] = t[i + j - 1]
  <2>1. \A j \in i .. Len(t) : t[j] \in S
    BY <1>1
  <2>2. s = [j \in 1 .. Len(t) - i + 1 |-> t[i + j - 1]]
    BY <1>1
  <2>3. \A j \in 1 .. n : i + j - 1 \in i .. Len(t)
    BY <1>1, PlacesFrom
  <2>4. s \in [1 .. n -> S]
    BY <2>1, <2>2, <2>3, <1>2
  <2> HIDE DEF s
  <2>5. s \in Seq(S)
    <3>1. n \in Nat
      BY <1>2
    <3> QED
      BY <2>4, <3>1
  <2>6. Len(s) = n
    BY <2>4, <1>2, FunctionLen
  <2>7. \A j \in 1 .. n : s[j] = t[i + j - 1]
    BY <2>2, <1>2
  <2> QED
    BY <2>5, <2>6, <2>7
<1> HIDE DEF s
<1>4. t[i] \in S
  BY <1>1
<1>5. c = s \o <<t[i]>> /\ <<t[i]>> \in Seq(S) /\ Len(<<t[i]>>) = 1
  BY <1>4 DEF s
<1>6. /\ c \in Seq(S) /\ Len(c) = n + 1
  BY <1>3, <1>5, <1>2
<1>7. /\ \A j \in 1 .. n : c[j] = s[j]
      /\ c[n + 1] = t[i]
  <2> DEFINE e == <<t[i]>>
  <2>1. e \in Seq(S) /\ Len(e) = 1 /\ e[1] = t[i] /\ c = s \o e
    BY <1>4, <1>5
  <2> HIDE DEF e
  <2>2. c = [k \in 1 .. Len(s) + Len(e) |-> IF k <= Len(s) THEN s[k] ELSE e[k - Len(s)]]
    BY <2>1, <1>3, SMTT(40)
  <2>3. n \in Nat /\ Len(s) = n
    BY <1>2, <1>3
  <2>4. c[n + 1] = t[i]
    <3>1. n + 1 \in 1 .. Len(s) + Len(e) /\ ~(n + 1 <= Len(s)) /\ (n + 1) - Len(s) = 1
      BY <2>1, <2>3, LastPlace, Zenon
    <3> QED
      BY <3>1, <2>1, <2>2
  <2>5. ASSUME NEW j \in 1 .. n PROVE c[j] = s[j]
    <3>1. j \in 1 .. Len(s) + Len(e) /\ j <= Len(s)
      BY <2>1, <2>3
    <3> QED
      BY <3>1, <2>2
  <2> QED
    BY <2>4, <2>5
<1>8. DOMAIN c = 1 .. n + 1
  BY <1>6
<1>9. ASSUME NEW j \in 1 .. n
      PROVE  c[j] = t[i + j - 1] /\ i + j - 1 \in i .. Len(t) /\ i + j - 1 \in DOMAIN t
  <2>1. i + j - 1 \in i .. Len(t) /\ i + j - 1 \in 1 .. Len(t)
    BY <1>1, PlacesFrom
  <2> QED
    BY <2>1, <1>1, <1>3, <1>7
<1> QED
  BY <1>2, <1>6, <1>7, <1>8, <1>9 DEF Loops

(* The part of the trail from a node on, and back to that node.            *)
ClosesFrom(c, i) ==
  /\ c \in Seq(cyclic) /\ IsCycle(c)
  /\ \A j \in DOMAIN c : \E k \in i .. Len(frames) : c[j] = frames[k].node

LEMMA SegmentIsCycle ==
  ASSUME CycleInv, frames # <<>>, NEW i \in DOMAIN frames,
         <<Top.node, frames[i].node>> \in Arrows,
         NEW c, c = SubSeq(Trail, i, Len(frames)) \o <<frames[i].node>>
  PROVE  ClosesFrom(c, i)
<1> DEFINE L == Len(frames)
           t == Trail
           n == Len(t) - i + 1
<1>1. /\ cphase = "extracting" /\ frames \in Seq(Framed) /\ L \in Nat \ {0}
      /\ DOMAIN frames = 1 .. L /\ Top = frames[L] /\ i \in 1 .. L
  BY WalkIs DEF Top
<1>2. /\ \A j \in 1 .. L - 1 : <<frames[j].node, frames[j + 1].node>> \in Arrows
      /\ \A j, k \in DOMAIN frames : frames[j].node = frames[k].node => j = k
  BY TrailIs
<1> HIDE DEF L
<1>3. \A j \in 1 .. L : frames[j].node \in cyclic
  <2>1. ASSUME NEW j \in 1 .. L PROVE frames[j].node \in cyclic
    <3>1. frames[j] \in Framed
      BY <1>1
    <3> QED
      BY <3>1 DEF Framed
  <2> QED
    BY <2>1
<1>4. t = [j \in 1 .. L |-> frames[j].node]
  BY <1>1 DEF Trail
<1> HIDE DEF t
<1>5. t \in Seq(cyclic) /\ Len(t) = L /\ DOMAIN t = 1 .. L
      /\ \A j \in 1 .. L : t[j] = frames[j].node
  <2>1. t \in [1 .. L -> cyclic]
    BY <1>3, <1>4
  <2>2. L \in Nat
    BY <1>1
  <2>3. t \in Seq(cyclic)
    BY <2>1, <2>2
  <2>4. Len(t) = L
    BY <2>1, <2>2, FunctionLen
  <2> QED
    BY <2>3, <2>4, <1>4
<1>6. c = SubSeq(t, i, Len(t)) \o <<t[i]>> /\ i \in DOMAIN t
  BY <1>1, <1>5 DEF L, t
<1>7. Loops(c, t, i, n, cyclic)
  <2> HIDE DEF n
  <2>1. n = Len(t) - i + 1 /\ t \in Seq(cyclic)
    BY <1>5 DEF n
  <2> QED
    BY <2>1, <1>6, LoopIs
<1> HIDE DEF n
<1>8. /\ n \in Nat \ {0} /\ i \in Nat \ {0} /\ i + n - 1 = L
      /\ c \in Seq(cyclic) /\ Len(c) = n + 1 /\ DOMAIN c = 1 .. n + 1
      /\ c[n + 1] = frames[i].node
  BY <1>1, <1>5, <1>7 DEF Loops
<1>10. \A j \in 1 .. n : c[j] = frames[i + j - 1].node /\ i + j - 1 \in i .. L
                         /\ i + j - 1 \in 1 .. L
  BY <1>5, <1>7 DEF Loops
<1>11. c[1] = frames[i].node
  <2>1. 1 \in 1 .. n /\ i + 1 - 1 = i
    BY <1>8
  <2>2. c[1] = frames[i + 1 - 1].node
    BY <1>10, <2>1
  <2> QED
    BY <2>1, <2>2
<1>12. c[1] = c[Len(c)] /\ Len(c) > 1
  <2>1. c[1] = c[n + 1] /\ n + 1 > 1
    BY <1>8, <1>11
  <2>2. Len(c) = n + 1
    BY <1>8
  <2> QED
    BY <2>1, <2>2
<1>13. ASSUME NEW j \in DOMAIN c PROVE j = n + 1 \/ j \in 1 .. n
  BY <1>8
<1>14. \A j \in DOMAIN c : \E k \in i .. L : c[j] = frames[k].node
  <2>1. ASSUME NEW j \in DOMAIN c PROVE \E k \in i .. L : c[j] = frames[k].node
    <3>1. CASE j = n + 1
      <4>1. i \in i .. L /\ c[j] = frames[i].node
        BY <3>1, <1>1, <1>8
      <4> QED
        BY <4>1
    <3>2. CASE j \in 1 .. n
      <4>1. i + j - 1 \in i .. L /\ c[j] = frames[i + j - 1].node
        BY <3>2, <1>10
      <4> QED
        BY <4>1
    <3> QED
      BY <3>1, <3>2, <1>13
  <2> QED
    BY <2>1
<1>15. Cardinality({c[j] : j \in DOMAIN c}) = Len(c) - 1
  <2> DEFINE W == {c[j] : j \in DOMAIN c}
             h == [j \in 1 .. n |-> c[j]]
  <2>0. \A j \in 1 .. n : j \in DOMAIN c
    BY <1>8
  <2>1. h \in [1 .. n -> W] /\ \A x \in 1 .. n : h[x] = c[x]
    BY <2>0
  <2>2. ASSUME NEW x \in 1 .. n, NEW y \in 1 .. n, c[x] = c[y] PROVE x = y
    <3>1. frames[i + x - 1].node = frames[i + y - 1].node
          /\ i + x - 1 \in DOMAIN frames /\ i + y - 1 \in DOMAIN frames
      BY <2>2, <1>1, <1>10
    <3>2. i + x - 1 = i + y - 1
      BY <1>2, <3>1
    <3> QED
      BY <3>2, <1>8
  <2>3. ASSUME NEW j \in DOMAIN c PROVE \E x \in 1 .. n : c[x] = c[j]
    <3>1. CASE j = n + 1
      <4>1. 1 \in 1 .. n /\ c[j] = c[1]
        BY <3>1, <1>8, <1>11
      <4> QED
        BY <4>1
    <3> QED
      BY <3>1, <1>13
  <2>4. IsFiniteSet(1 .. n) /\ Cardinality(1 .. n) = n
    BY <1>8, FS_Interval
  <2>5. ASSUME NEW y \in W PROVE \E x \in 1 .. n : h[x] = y
    <3>1. PICK j \in DOMAIN c : y = c[j]
      OBVIOUS
    <3>2. PICK x \in 1 .. n : c[x] = c[j]
      BY <2>3
    <3>3. h[x] = c[x]
      BY <2>1
    <3> QED
      BY <3>1, <3>2, <3>3
  <2>6. \A x, y \in 1 .. n : h[x] = h[y] => x = y
    BY <2>1, <2>2
  <2> HIDE DEF W, h
  <2>7. Cardinality(W) = Cardinality(1 .. n)
    BY <2>1, <2>4, <2>5, <2>6, SameSize
  <2>8. n = Len(c) - 1
    BY <1>8
  <2> QED
    BY <2>4, <2>7, <2>8 DEF W
<1>16. ASSUME NEW j \in 1 .. Len(c) - 1 PROVE ArcsFromTo(c[j], c[j + 1]) # {}
  <2>1. <<c[j], c[j + 1]>> \in Arrows
    <3>1. j \in 1 .. n
      BY <1>8
    <3>2. CASE j = n
      <4>1. i + n - 1 = L /\ c[n] = frames[L].node /\ c[n + 1] = frames[i].node
        BY <3>1, <3>2, <1>8, <1>10
      <4> QED
        BY <4>1, <3>2, <1>1
    <3>3. CASE j # n
      <4>1. j + 1 \in 1 .. n /\ i + j - 1 \in 1 .. L - 1 /\ i + (j + 1) - 1 = (i + j - 1) + 1
        BY <3>1, <3>3, <1>1, <1>5, PlacesFrom, SMTT(40) DEF n
      <4>2. c[j] = frames[i + j - 1].node /\ c[j + 1] = frames[(i + j - 1) + 1].node
        BY <3>1, <4>1, <1>10
      <4>3. <<frames[i + j - 1].node, frames[(i + j - 1) + 1].node>> \in Arrows
        BY <4>1, <1>2 DEF L
      <4> QED
        BY <4>2, <4>3
    <3> QED
      BY <3>2, <3>3
  <2>2. PICK arc \in FilteredArcs : <<c[j], c[j + 1]>> = <<arc.source, arc.target>>
    BY <2>1 DEF Arrows
  <2>3. arc.source = c[j] /\ arc.target = c[j + 1]
    BY <2>2
  <2>4. arc \in ArcsFromTo(c[j], c[j + 1])
    BY <2>3 DEF ArcsFromTo
  <2> QED
    BY <2>4
<1> QED
  BY <1>8, <1>12, <1>14, <1>15, <1>16 DEF ClosesFrom, IsCycle, L

(* Along the trail each node leads to the later ones.                      *)
LEMMA TrailLeads ==
  ASSUME CycleInv, frames # <<>>, LeadsRules, NEW i \in DOMAIN frames
  PROVE  \A j \in i + 1 .. Len(frames) : <<frames[i].node, frames[j].node>> \in Leads
<1> DEFINE L == Len(frames)
           T == {d \in Nat : i + d + 1 <= L => <<frames[i].node, frames[i + d + 1].node>> \in Leads}
<1>1. L \in Nat /\ i \in 1 .. L
  BY WalkIs
<1>2. \A j \in 1 .. L - 1 : <<frames[j].node, frames[j + 1].node>> \in Arrows
  BY TrailIs
<1> HIDE DEF L
<1>3. 0 \in T
  <2>1. ASSUME i + 0 + 1 <= L PROVE <<frames[i].node, frames[i + 0 + 1].node>> \in Leads
    <3>1. i \in 1 .. L - 1 /\ i + 0 + 1 = i + 1
      BY <1>1, <2>1
    <3>2. <<frames[i].node, frames[i + 1].node>> \in Arrows
      BY <1>2, <3>1
    <3> QED
      BY <3>1, <3>2 DEF LeadsRules
  <2> QED
    BY <2>1
<1>4. ASSUME NEW d \in Nat, d \in T PROVE d + 1 \in T
  <2>1. ASSUME i + (d + 1) + 1 <= L
        PROVE  <<frames[i].node, frames[i + (d + 1) + 1].node>> \in Leads
    <3>1. i + d + 1 \in 1 .. L - 1 /\ i + (d + 1) + 1 = (i + d + 1) + 1 /\ i + d + 1 <= L
      BY <1>1, <2>1
    <3>2. <<frames[i + d + 1].node, frames[(i + d + 1) + 1].node>> \in Arrows
      BY <1>2, <3>1
    <3>3. <<frames[i].node, frames[i + d + 1].node>> \in Leads
      BY <1>4, <3>1
    <3> QED
      BY <3>1, <3>2, <3>3 DEF LeadsRules
  <2> QED
    BY <2>1
<1> HIDE DEF T
<1>5. Nat \subseteq T
  BY <1>3, <1>4, Induction
<1>6. ASSUME NEW j \in i + 1 .. L PROVE <<frames[i].node, frames[j].node>> \in Leads
  <2>1. j - i - 1 \in Nat /\ i + (j - i - 1) + 1 = j /\ j <= L
    BY <1>1
  <2>2. j - i - 1 \in T
    BY <1>5, <2>1
  <2> QED
    BY <2>1, <2>2 DEF T
<1> QED
  BY <1>6 DEF L

LEMMA RulesHold == ASSUME CycleInv, frames # <<>> PROVE LeadsRules
BY WalkIs, LeadsAre

LEMMA BeforeLast ==
  ASSUME NEW n \in Nat, NEW i \in 1 .. n, NEW k \in i .. n, k # n
  PROVE  k \in 1 .. n /\ n \in k + 1 .. n
OBVIOUS

LEMMA CloseCycleInv == CycleInv /\ CloseCycle /\ graph' = graph => CycleInv'
<1> SUFFICES ASSUME CycleInv, CloseCycle, graph' = graph PROVE CycleInv'
  OBVIOUS
<1> DEFINE child == Head(Top.children)
           first == CHOOSE i \in DOMAIN frames : frames[i].node = child
           c == SubSeq(Trail, first, Len(frames)) \o <<child>>
<1>u. /\ frames # <<>> /\ Top.children # <<>> /\ OnTrail(child)
      /\ cycles' = Append(cycles, c)
      /\ frames' = Taken /\ UNCHANGED <<cyclic, finished>>
      /\ UNCHANGED <<indegree, ready, counted, cyclic, cphase>>
  BY DEF CloseCycle
<1>k. LeadsKept /\ LeadsRules
  BY <1>u, GraphKept, RulesHold
<1>1. cphase = "extracting" /\ Walking /\ frames \in Seq(Framed) /\ Len(frames) \in Nat \ {0}
      /\ DOMAIN frames = 1 .. Len(frames) /\ Top = frames[Len(frames)]
  BY <1>u, WalkIs DEF Walking, Top
<1>2. PhaseInv' /\ CountInv' /\ UnusedInv' /\ LeftOverInv'
  <2>1. finished' \subseteq cyclic
    BY <1>1, <1>u DEF CycleInv, LeftOverInv
  <2> QED
    BY <1>1, <1>u, <2>1, WalkKeeps
<1>3. first \in DOMAIN frames /\ frames[first].node = child
  BY <1>u DEF OnTrail
<1>4. <<Top.node, child>> \in Arrows
  BY <1>u, TakenIs
<1> HIDE DEF child, first, c
<1>5. /\ c \in Seq(cyclic) /\ IsCycle(c)
      /\ \A j \in DOMAIN c : \E k \in first .. Len(frames) : c[j] = frames[k].node
  <2> SUFFICES ClosesFrom(c, first)
    BY DEF ClosesFrom
  <2>1. c = SubSeq(Trail, first, Len(frames)) \o <<frames[first].node>>
    BY <1>3 DEF c
  <2>2. <<Top.node, frames[first].node>> \in Arrows
    BY <1>3, <1>4
  <2> QED
    BY <1>3, <1>u, <2>1, <2>2, SegmentIsCycle
\* The nodes of the cycle share one with the node at the end of the trail.
<1>6. \A j \in DOMAIN c : Alike(Top.node, c[j], Leads)
  <2>1. <<Top.node, child>> \in Leads
    BY <1>4, <1>k DEF LeadsRules
  <2>2. ASSUME NEW k \in first .. Len(frames) PROVE <<Top.node, frames[k].node>> \in Leads
    <3>1. CASE k = first
      BY <3>1, <2>1, <1>3
    <3>2. CASE k # first
      <4>1. k \in first + 1 .. Len(frames)
        BY <3>2, <1>1, <1>3
      <4>2. <<frames[first].node, frames[k].node>> \in Leads
        BY <4>1, <1>3, <1>k, <1>u, TrailLeads
      <4> QED
        BY <4>2, <2>1, <1>3, <1>k, LeadsTransitive
    <3> QED
      BY <3>1, <3>2
  <2>3. ASSUME NEW k \in first .. Len(frames) PROVE <<frames[k].node, Top.node>> \in Leads
    <3>1. CASE k = Len(frames)
      <4>1. frames[k].node = Top.node
        BY <3>1, <1>1
      <4> QED
        BY <4>1, <2>2
    <3>2. CASE k # Len(frames)
      <4>1. k \in DOMAIN frames /\ Len(frames) \in k + 1 .. Len(frames)
        BY <3>2, <1>1, <1>3, BeforeLast
      <4>2. <<frames[k].node, frames[Len(frames)].node>> \in Leads
        BY <4>1, <1>k, <1>u, TrailLeads
      <4> QED
        BY <4>2, <1>1
    <3> QED
      BY <3>1, <3>2
  <2>4. ASSUME NEW j \in DOMAIN c PROVE Alike(Top.node, c[j], Leads)
    <3>1. PICK k \in first .. Len(frames) : c[j] = frames[k].node
      BY <1>5
    <3> QED
      BY <3>1, <2>2, <2>3 DEF Alike
  <2> QED
    BY <2>4
<1>7. cycles \in Seq(Seq(cyclic)) /\ \A k \in DOMAIN cycles : IsCycle(cycles[k])
  BY <1>1 DEF CycleInv, ReportsInv
<1>8. /\ cycles' \in Seq(Seq(cyclic)) /\ Len(cycles') = Len(cycles) + 1
      /\ DOMAIN cycles' = 1 .. Len(cycles) + 1 /\ Len(cycles) \in Nat
      /\ DOMAIN cycles = 1 .. Len(cycles)
      /\ \A k \in DOMAIN cycles : cycles'[k] = cycles[k]
      /\ cycles'[Len(cycles) + 1] = c
  BY <1>5, <1>7, <1>u
<1>9. ReportsInv'
  <2>1. ASSUME NEW k \in DOMAIN cycles' PROVE IsCycle(cycles'[k])
    <3>1. k = Len(cycles) + 1 \/ k \in DOMAIN cycles
      BY <1>8
    <3> QED
      BY <3>1, <1>5, <1>7, <1>8
  <2>2. \A d : IsCycle(d)' <=> IsCycle(d)
    BY <1>k DEF IsCycle, ArcsFromTo, LeadsKept
  <2>3. \A k \in DOMAIN cycles' : IsCycle(cycles[k])'
    BY <2>1, <2>2 DEF IsCycle, ArcsFromTo, FilteredArcs
  <2> QED
    BY <2>3, <1>8, <1>u DEF ReportsInv
<1>10. \A n : Reported(n, cycles, Leads) => Reported(n, cycles', Leads)
  <2>1. ASSUME NEW n, Reported(n, cycles, Leads) PROVE Reported(n, cycles', Leads)
    <3>1. PICK k \in DOMAIN cycles : \A i \in DOMAIN cycles[k] : Alike(n, cycles[k][i], Leads)
      BY <2>1 DEF Reported
    <3>2. k \in DOMAIN cycles' /\ cycles'[k] = cycles[k]
      BY <1>8
    <3> QED
      BY <3>1, <3>2 DEF Reported
  <2> QED
    BY <2>1
<1>11. Reported(Top.node, cycles', Leads)
  <2>1. Len(cycles) + 1 \in DOMAIN cycles'
    BY <1>8
  <2> QED
    BY <2>1, <1>6, <1>8 DEF Reported
<1>12. TrailInv'
  BY <1>u, <1>k, TakenTrail
<1>13. CoverInv'
  BY <1>u, <1>k, <1>10, <1>11, TakenCover
<1> QED
  BY <1>2, <1>9, <1>12, <1>13 DEF CycleInv

LEMMA DescendInv == CycleInv /\ Descend /\ graph' = graph => CycleInv'
<1> SUFFICES ASSUME CycleInv, Descend, graph' = graph PROVE CycleInv'
  OBVIOUS
<1> DEFINE child == Head(Top.children)
           s == FilteredSuccessors(child)
           L == Len(frames)
<1>u. /\ frames # <<>> /\ Top.children # <<>> /\ ~OnTrail(child) /\ child \notin finished
      /\ frames' = Append(Taken, Frame(child))
      /\ UNCHANGED <<cyclic, finished, cycles>>
      /\ UNCHANGED <<indegree, ready, counted, cyclic, cphase>>
  BY DEF Descend
<1>k. LeadsKept
  BY <1>u, GraphKept
<1>1. /\ cphase = "extracting" /\ Walking /\ IsMultigraph(graph) /\ frames \in Seq(Framed)
      /\ L \in Nat \ {0} /\ DOMAIN frames = 1 .. L /\ Top = frames[L]
  BY <1>u, WalkIs DEF Walking, Top
<1>2. PhaseInv' /\ CountInv' /\ UnusedInv' /\ LeftOverInv'
  <2>1. finished' \subseteq cyclic
    BY <1>1, <1>u DEF CycleInv, LeftOverInv
  <2> QED
    BY <1>1, <1>u, <2>1, WalkKeeps
<1>3. ReportsInv'
  BY <1>1, <1>u, <1>k, ReportsKept
<1>4. /\ s \in Seq(cyclic)
      /\ \A i \in DOMAIN s : <<child, s[i]>> \in Arrows
      /\ \A t \in cyclic : <<child, t>> \in Arrows => \E i \in DOMAIN s : s[i] = t
  BY <1>1, FilteredSuccessorsAre
<1>5. Frame(child) = [node |-> child, children |-> s]
  BY DEF Frame
<1>6. /\ Taken \in Seq(Framed) /\ Len(Taken) = L
      /\ \A i \in DOMAIN frames : Taken[i].node = frames[i].node
      /\ \A i \in 1 .. L - 1 : Taken[i].children = frames[i].children
      /\ Taken[L].children = Tail(Top.children)
      /\ child \in cyclic
      /\ <<Top.node, child>> \in Arrows
      /\ \A k \in DOMAIN Tail(Top.children) :
           k + 1 \in DOMAIN Top.children /\ Tail(Top.children)[k] = Top.children[k + 1]
      /\ \A k \in DOMAIN Top.children :
              Top.children[k] = child
                \/ \E j \in DOMAIN Tail(Top.children) : Tail(Top.children)[j] = Top.children[k]
  BY <1>u, TakenIs
<1>7. \A i \in DOMAIN frames : frames[i].node # child
  BY <1>u DEF OnTrail
<1> HIDE DEF s, child, L
<1> DEFINE f == [node |-> child, children |-> s]
<1>8. f \in Framed /\ f.node = child /\ f.children = s
  BY <1>4, <1>6 DEF Framed
<1>9. frames' = Append(Taken, f)
  BY <1>u, <1>5
<1> HIDE DEF f
<1>10. /\ frames' \in Seq(Framed) /\ Len(frames') = L + 1 /\ DOMAIN frames' = 1 .. L + 1
       /\ frames'[L + 1] = f /\ \A i \in 1 .. L : frames'[i] = Taken[i]
  <2>1. L \in Nat
    BY <1>1
  <2>2. frames' \in Seq(Framed) /\ Len(frames') = L + 1
    BY <1>6, <1>8, <1>9
  <2>3. frames'[L + 1] = f /\ \A i \in 1 .. L : frames'[i] = Taken[i]
    BY <1>6, <1>8, <1>9, <2>1
  <2> QED
    BY <2>1, <2>2, <2>3
<1>11. /\ \A i \in 1 .. L - 1 : <<frames[i].node, frames[i + 1].node>> \in Arrows
       /\ \A i, j \in DOMAIN frames : frames[i].node = frames[j].node => i = j
       /\ \A i \in DOMAIN frames : frames[i].node \notin finished
       /\ \A i \in DOMAIN frames : \A k \in DOMAIN frames[i].children :
            <<frames[i].node, frames[i].children[k]>> \in Arrows
  BY <1>u, TrailIs DEF L
<1>12. /\ \A i \in 1 .. L : frames'[i].node = frames[i].node
       /\ \A i \in 1 .. L - 1 : frames'[i].children = frames[i].children
       /\ frames'[L].children = Tail(Top.children)
       /\ frames'[L + 1].node = child /\ frames'[L + 1].children = s
  <2>1. \A i \in 1 .. L : i \in DOMAIN frames
    BY <1>1
  <2>2. \A i \in 1 .. L : frames'[i].node = frames[i].node
    BY <1>6, <1>10, <2>1
  <2>3. ASSUME NEW i \in 1 .. L - 1 PROVE frames'[i].children = frames[i].children
    <3>1. i \in 1 .. L
      BY <1>1
    <3> QED
      BY <3>1, <1>6, <1>10
  <2>4. L \in 1 .. L
    BY <1>1
  <2>5. frames'[L].children = Tail(Top.children)
    BY <2>4, <1>6, <1>10
  <2> QED
    BY <2>2, <2>3, <2>5, <1>8, <1>10
<1>13. ASSUME NEW i \in DOMAIN frames'
       PROVE  i = L + 1 \/ (i \in DOMAIN frames /\ i \in 1 .. L /\ (i = L \/ i \in 1 .. L - 1))
  BY <1>1, <1>10
<1>14. TrailInv'
  <2>1. ASSUME NEW i \in 1 .. L PROVE <<frames'[i].node, frames'[i + 1].node>> \in Arrows
    <3>1. CASE i = L
      BY <3>1, <1>1, <1>6, <1>12
    <3>2. CASE i # L
      <4>1. i \in 1 .. L - 1 /\ i + 1 \in 1 .. L
        BY <3>2, <1>1
      <4>2. frames'[i].node = frames[i].node /\ frames'[i + 1].node = frames[i + 1].node
        BY <4>1, <1>12
      <4>3. <<frames[i].node, frames[i + 1].node>> \in Arrows
        BY <4>1, <1>11
      <4> QED
        BY <4>2, <4>3
    <3> QED
      BY <3>1, <3>2
  <2>2. ASSUME NEW i \in DOMAIN frames', NEW j \in DOMAIN frames', frames'[i].node = frames'[j].node
        PROVE  i = j
    BY <2>2, <1>7, <1>11, <1>12, <1>13
  <2>3. ASSUME NEW i \in DOMAIN frames' PROVE frames'[i].node \notin finished
    BY <1>11, <1>12, <1>13, <1>u DEF child
  <2>4. ASSUME NEW i \in DOMAIN frames', NEW k \in DOMAIN frames'[i].children
        PROVE  <<frames'[i].node, frames'[i].children[k]>> \in Arrows
    <3>1. CASE i = L + 1
      BY <3>1, <2>4, <1>4, <1>12
    <3>2. CASE i \in 1 .. L - 1 /\ i \in DOMAIN frames /\ i \in 1 .. L
      <4>1. frames'[i].children = frames[i].children /\ frames'[i].node = frames[i].node
        BY <3>2, <1>12
      <4>2. <<frames[i].node, frames[i].children[k]>> \in Arrows
        BY <4>1, <3>2, <2>4, <1>11
      <4> QED
        BY <4>1, <4>2
    <3>3. CASE i = L /\ i \in DOMAIN frames /\ i \in 1 .. L
      <4>1. k + 1 \in DOMAIN frames[L].children /\ frames'[L].children[k] = frames[L].children[k + 1]
        BY <3>3, <2>4, <1>1, <1>6, <1>12
      <4>2. <<frames[L].node, frames[L].children[k + 1]>> \in Arrows
        BY <4>1, <3>3, <1>11
      <4>3. frames'[L].node = frames[L].node
        BY <3>3, <1>12
      <4> QED
        BY <4>1, <4>2, <4>3, <3>3
    <3> QED
      BY <3>1, <3>2, <3>3, <1>13
  <2>5. frames' \in Seq(Framed')
    BY <1>10, <1>u DEF Framed
  <2>6. Len(frames') - 1 = L
    BY <1>1, <1>10
  <2> QED
    BY <2>1, <2>2, <2>3, <2>4, <2>5, <2>6, <1>k, <1>u DEF TrailInv, Framed, LeadsKept
<1>15. CoverInv'
  <2>1. /\ \A n \in finished \cap Recurrent : Reported(n, cycles, Leads)
        /\ \A i \in DOMAIN frames : \A t \in cyclic :
             <<frames[i].node, t>> \in Arrows =>
               \/ \E k \in DOMAIN frames[i].children : frames[i].children[k] = t
               \/ t \in finished
               \/ i < Len(frames) /\ t = frames[i + 1].node
               \/ Reported(frames[i].node, cycles, Leads)
    <3>1. CoverInv /\ Walking
      BY <1>1 DEF CycleInv
    <3> QED
      BY <3>1, Zenon DEF CoverInv
  <2>2. \A n \in finished' \cap Recurrent' : Reported(n, cycles', Leads')
    BY <2>1, <1>u, <1>k DEF LeadsKept
  <2>3. ASSUME NEW i \in DOMAIN frames', NEW t \in cyclic', <<frames'[i].node, t>> \in Arrows'
        PROVE  \/ \E k \in DOMAIN frames'[i].children : frames'[i].children[k] = t
               \/ t \in finished'
               \/ i < Len(frames') /\ t = frames'[i + 1].node
               \/ Reported(frames'[i].node, cycles', Leads')
    <3>0. t \in cyclic /\ <<frames'[i].node, t>> \in Arrows
      BY <2>3, <1>u, <1>k DEF LeadsKept
    <3>1. CASE i = L + 1
      BY <3>0, <3>1, <1>4, <1>12
    <3>2. CASE i \in DOMAIN frames /\ i \in 1 .. L
      <4>0. frames'[i].node = frames[i].node /\ <<frames[i].node, t>> \in Arrows
        BY <3>0, <3>2, <1>12
      <4>1. CASE \E k \in DOMAIN frames[i].children : frames[i].children[k] = t
        <5>1. CASE i \in 1 .. L - 1
          BY <5>1, <4>1, <1>12
        <5>2. CASE i = L
          <6>1. PICK k \in DOMAIN Top.children : Top.children[k] = t
            BY <5>2, <4>1, <1>1
          <6>2. CASE t = child
            <7>1. i < Len(frames') /\ frames'[i + 1].node = child
              BY <5>2, <1>1, <1>10, <1>12
            <7> QED
              BY <6>2, <7>1
          <6>3. CASE \E j \in DOMAIN Tail(Top.children) : Tail(Top.children)[j] = t
            BY <5>2, <6>3, <1>12
          <6> QED
            BY <6>1, <6>2, <6>3, <1>6
        <5> QED
          BY <5>1, <5>2, <3>2, <1>1
      <4>2. CASE t \in finished
        BY <4>2, <1>u
      <4>3. CASE i < Len(frames) /\ t = frames[i + 1].node
        <5>1. i + 1 \in 1 .. L /\ i < Len(frames')
          BY <4>3, <3>2, <1>1, <1>10 DEF L
        <5> QED
          BY <5>1, <4>3, <1>12
      <4>4. CASE Reported(frames[i].node, cycles, Leads)
        BY <4>0, <4>4, <1>u, <1>k DEF LeadsKept
      <4> QED
        BY <4>0, <4>1, <4>2, <4>3, <4>4, <3>0, <3>2, <2>1
    <3> QED
      BY <3>1, <3>2, <1>13
  <2> QED
    BY <2>2, <2>3 DEF CoverInv
<1> QED
  BY <1>2, <1>3, <1>14, <1>15 DEF CycleInv

\* A node that shares a cycle with one that was reported was so itself.
LEMMA ReportedAlike ==
  ASSUME LeadsRules, NEW m, NEW n, NEW reports, Alike(m, n, Leads), Reported(n, reports, Leads)
  PROVE  Reported(m, reports, Leads)
<1>1. PICK k \in DOMAIN reports : \A i \in DOMAIN reports[k] : Alike(n, reports[k][i], Leads)
  BY DEF Reported
<1>2. ASSUME NEW i \in DOMAIN reports[k] PROVE Alike(m, reports[k][i], Leads)
  <2>1. Alike(n, reports[k][i], Leads)
    BY <1>1
  <2>2. /\ <<m, n>> \in Leads /\ <<n, m>> \in Leads
        /\ <<n, reports[k][i]>> \in Leads /\ <<reports[k][i], n>> \in Leads
    BY <2>1 DEF Alike
  <2>3. <<m, reports[k][i]>> \in Leads /\ <<reports[k][i], m>> \in Leads
    BY <2>2, LeadsTransitive
  <2> QED
    BY <2>3 DEF Alike
<1> QED
  BY <1>2 DEF Reported

LEMMA RetreatInv == CycleInv /\ Retreat /\ graph' = graph => CycleInv'
<1> SUFFICES ASSUME CycleInv, Retreat, graph' = graph PROVE CycleInv'
  OBVIOUS
<1> DEFINE L == Len(frames)
<1>u. /\ frames # <<>> /\ Top.children = <<>>
      /\ frames' = SubSeq(frames, 1, L - 1) /\ finished' = finished \cup {Top.node}
      /\ UNCHANGED <<cyclic, cycles>> /\ UNCHANGED <<indegree, ready, counted, cyclic, cphase>>
  BY DEF Retreat
<1>k. LeadsKept /\ LeadsRules
  BY <1>u, GraphKept, RulesHold
<1>1. /\ cphase = "extracting" /\ Walking /\ IsMultigraph(graph) /\ frames \in Seq(Framed)
      /\ L \in Nat \ {0} /\ DOMAIN frames = 1 .. L /\ Top = frames[L] /\ Top.node \in cyclic
  BY <1>u, WalkIs DEF Walking, Top
<1>11. cyclic \subseteq graph.nodes /\ finished \subseteq cyclic /\ Recurrent \subseteq cyclic
  BY <1>1 DEF CycleInv, LeftOverInv
<1>2. PhaseInv' /\ CountInv' /\ UnusedInv' /\ LeftOverInv'
  <2>1. finished' \subseteq cyclic
    BY <1>1, <1>11, <1>u
  <2> QED
    BY <1>1, <1>u, <2>1, WalkKeeps
<1>3. ReportsInv'
  BY <1>1, <1>u, <1>k, ReportsKept
<1>4. /\ \A i \in 1 .. L - 1 : <<frames[i].node, frames[i + 1].node>> \in Arrows
      /\ \A i, j \in DOMAIN frames : frames[i].node = frames[j].node => i = j
      /\ \A i \in DOMAIN frames : frames[i].node \notin finished
      /\ \A i \in DOMAIN frames : \A k \in DOMAIN frames[i].children :
           <<frames[i].node, frames[i].children[k]>> \in Arrows
  BY <1>u, TrailIs
<1>5. /\ \A n \in finished \cap Recurrent : Reported(n, cycles, Leads)
      /\ \A i \in DOMAIN frames : \A t \in cyclic :
           <<frames[i].node, t>> \in Arrows =>
             \/ \E k \in DOMAIN frames[i].children : frames[i].children[k] = t
             \/ t \in finished
             \/ i < L /\ t = frames[i + 1].node
             \/ Reported(frames[i].node, cycles, Leads)
  <2>1. CoverInv /\ Walking
    BY <1>1 DEF CycleInv
  <2> QED
    BY <2>1, Zenon DEF CoverInv
<1> HIDE DEF L
<1>6. /\ frames' \in Seq(Framed) /\ Len(frames') = L - 1 /\ DOMAIN frames' = 1 .. L - 1
      /\ \A i \in 1 .. L - 1 : frames'[i] = frames[i]
  BY <1>1, <1>u
<1>7. \A i \in 1 .. L - 1 : i \in DOMAIN frames /\ i # L /\ L \in DOMAIN frames
  BY <1>1
<1>8. TrailInv'
  <2>1. ASSUME NEW i \in 1 .. Len(frames') - 1
        PROVE  <<frames'[i].node, frames'[i + 1].node>> \in Arrows
    <3>1. i \in 1 .. L - 1 /\ i + 1 \in 1 .. L - 1
      BY <1>1, <1>6
    <3>2. frames'[i] = frames[i] /\ frames'[i + 1] = frames[i + 1]
      BY <3>1, <1>6
    <3>3. <<frames[i].node, frames[i + 1].node>> \in Arrows
      BY <3>1, <1>4
    <3> QED
      BY <3>2, <3>3
  <2>2. \A i, j \in DOMAIN frames' : frames'[i].node = frames'[j].node => i = j
    BY <1>4, <1>6, <1>7
  <2>3. ASSUME NEW i \in DOMAIN frames' PROVE frames'[i].node \notin finished'
    <3>1. i \in DOMAIN frames /\ L \in DOMAIN frames /\ i # L /\ frames'[i] = frames[i]
      BY <1>6, <1>7
    <3>2. frames[i].node \notin finished /\ frames[i].node # frames[L].node
      BY <3>1, <1>4
    <3> QED
      BY <3>1, <3>2, <1>1, <1>u
  <2>4. ASSUME NEW i \in DOMAIN frames', NEW k \in DOMAIN frames'[i].children
        PROVE  <<frames'[i].node, frames'[i].children[k]>> \in Arrows
    <3>1. i \in DOMAIN frames /\ frames'[i] = frames[i]
      BY <1>6, <1>7
    <3> QED
      BY <3>1, <1>4
  <2>5. frames' \in Seq(Framed')
    BY <1>6, <1>u DEF Framed
  <2> QED
    BY <2>1, <2>2, <2>3, <2>4, <2>5, <1>k, <1>u DEF TrailInv, Framed, LeadsKept
\* The node left is on a cycle only with a successor on it, which is finished.
<1>9. ASSUME Top.node \in Recurrent PROVE Reported(Top.node, cycles, Leads)
  <2>1. <<Top.node, Top.node>> \in Leads
    BY <1>9 DEF Recurrent
  <2>2. PICK s : <<Top.node, s>> \in Arrows /\ <<s, Top.node>> \in Leads /\ <<s, s>> \in Leads
    BY <2>1, <1>k, CycleLeaves
  <2>3. s \in Recurrent
    <3>1. <<s, s>> \in Pairs
      BY <2>2, <1>k DEF LeadsRules
    <3> QED
      BY <3>1, <2>2 DEF Recurrent, Pairs
  <2>4. s \in finished \/ Reported(Top.node, cycles, Leads)
    <3>1. L \in DOMAIN frames /\ s \in cyclic /\ <<frames[L].node, s>> \in Arrows
      BY <2>2, <2>3, <1>1, <1>11
    <3>2. ~ (L < L) /\ \A k \in DOMAIN frames[L].children : FALSE
      BY <1>1, <1>u
    <3>3. \/ \E k \in DOMAIN frames[L].children : frames[L].children[k] = s
          \/ s \in finished
          \/ L < L /\ s = frames[L + 1].node
          \/ Reported(frames[L].node, cycles, Leads)
      BY <1>5, <3>1
    <3> QED
      BY <3>2, <3>3, <1>1
  <2>5. ASSUME s \in finished PROVE Reported(Top.node, cycles, Leads)
    <3>1. Reported(s, cycles, Leads)
      BY <2>3, <2>5, <1>5
    <3>2. Alike(Top.node, s, Leads)
      BY <2>2, <1>k DEF LeadsRules, Alike
    <3> QED
      BY <3>1, <3>2, <1>k, ReportedAlike
  <2> QED
    BY <2>4, <2>5
<1>10. CoverInv'
  <2>1. ASSUME NEW n \in finished' \cap Recurrent' PROVE Reported(n, cycles', Leads')
    <3>1. n \in Recurrent /\ (n \in finished \/ n = Top.node)
      BY <2>1, <1>u, <1>k DEF LeadsKept
    <3>2. Reported(n, cycles, Leads)
      BY <3>1, <1>5, <1>9
    <3> QED
      BY <3>2, <1>u, <1>k DEF LeadsKept
  <2>2. ASSUME NEW i \in DOMAIN frames', NEW t \in cyclic', <<frames'[i].node, t>> \in Arrows'
        PROVE  \/ \E k \in DOMAIN frames'[i].children : frames'[i].children[k] = t
               \/ t \in finished'
               \/ i < Len(frames') /\ t = frames'[i + 1].node
               \/ Reported(frames'[i].node, cycles', Leads')
    <3>1. i \in DOMAIN frames /\ i \in 1 .. L - 1 /\ frames'[i] = frames[i]
      BY <1>6, <1>7
    <3>2. t \in cyclic /\ <<frames[i].node, t>> \in Arrows
      BY <2>2, <3>1, <1>u, <1>k DEF LeadsKept
    <3>3. CASE t = frames[i + 1].node
      <4>1. CASE i = L - 1
        <5>1. i + 1 = L
          BY <4>1, <1>1
        <5> QED
          BY <5>1, <3>3, <1>1, <1>u
      <4>2. CASE i # L - 1
        <5>1. i < L - 1 /\ i + 1 \in 1 .. L - 1
          BY <4>2, <3>1, <1>1
        <5> QED
          BY <5>1, <3>3, <1>6
      <4> QED
        BY <4>1, <4>2
    <3>4. CASE t # frames[i + 1].node
      <4>1. \/ \E k \in DOMAIN frames[i].children : frames[i].children[k] = t
            \/ t \in finished
            \/ Reported(frames[i].node, cycles, Leads)
        BY <3>1, <3>2, <3>4, <1>5
      <4> QED
        BY <4>1, <3>1, <1>u, <1>k DEF LeadsKept
    <3> QED
      BY <3>3, <3>4
  <2> QED
    BY <2>1, <2>2 DEF CoverInv
<1> QED
  BY <1>2, <1>3, <1>8, <1>10 DEF CycleInv

-----------------------------------------------------------------------------
(* A step of the search, a step that leaves it alone, and what holds once  *)
(* the search is over.                                                     *)
LEMMA CycleStepInv == CycleInv /\ (StartCounting \/ CycleStep) /\ graph' = graph => CycleInv'
BY StartCountingInv, TakeReadyInv, EndCountingInv, PickStartInv, RetreatInv, CloseCycleInv,
   SkipFinishedInv, DescendInv, EndExtractingInv DEF CycleStep

LEMMA CycleRests == CycleInv /\ UNCHANGED cycleVars /\ graph' = graph => CycleInv'
<1> SUFFICES ASSUME CycleInv, UNCHANGED cycleVars, graph' = graph PROVE CycleInv'
  OBVIOUS
<1>k. LeadsKept
  BY GraphKept
<1>u. UNCHANGED <<indegree, ready, counted, cyclic, finished, frames, cycles, cphase>>
  BY DEF cycleVars
<1>1. PhaseInv' /\ UnusedInv' /\ LeftOverInv'
  BY <1>u, <1>k DEF CycleInv, PhaseInv, UnusedInv, LeftOverInv, Walking, LeadsKept
<1>2. CountInv'
  <2>1. WorkedOff' = WorkedOff
    BY <1>u DEF WorkedOff
  <2>2. ASSUME NEW n PROVE EnteringFrom(n, graph.nodes \ WorkedOff)' = EnteringFrom(n, graph.nodes \ WorkedOff)
    BY <2>1, <1>k DEF EnteringFrom, LeadsKept
  <2> QED
    BY <2>1, <2>2, <1>u, <1>k DEF CycleInv, CountInv, LeadsKept
<1>3. TrailInv'
  BY <1>u, <1>k DEF CycleInv, TrailInv, Walking, LeadsKept
<1>4. ReportsInv'
  <2>1. \A c : IsCycle(c)' <=> IsCycle(c)
    BY <1>k DEF IsCycle, ArcsFromTo, LeadsKept
  <2> QED
    BY <2>1, <1>u DEF CycleInv, ReportsInv, Walking
<1>5. CoverInv'
  BY <1>u, <1>k DEF CycleInv, CoverInv, Walking, LeadsKept
<1> QED
  BY <1>1, <1>2, <1>3, <1>4, <1>5 DEF CycleInv

LEMMA CyclesFound == CycleInv => CyclesExact
<1> SUFFICES ASSUME CycleInv, cphase = "done" PROVE CyclesExact
  BY DEF CyclesExact
<1>1. Walking
  BY DEF Walking
<1>2. Recurrent \subseteq finished
  BY <1>1 DEF CycleInv, LeftOverInv
<1>3. \A k \in DOMAIN cycles : IsCycle(cycles[k])
  BY <1>1 DEF CycleInv, ReportsInv
<1>4. ASSUME NEW n \in graph.nodes, <<n, n>> \in Leads PROVE Reported(n, cycles, Leads)
  <2>1. n \in finished \cap Recurrent
    BY <1>2, <1>4 DEF Recurrent
  <2> QED
    BY <2>1, <1>1 DEF CycleInv, CoverInv
<1>5. ASSUME NEW n \in graph.nodes, <<n, n>> \in Leads
      PROVE  \E k \in DOMAIN cycles : \A m \in {cycles[k][i] : i \in DOMAIN cycles[k]} :
               <<n, m>> \in Leads /\ <<m, n>> \in Leads
  <2>1. PICK k \in DOMAIN cycles : \A i \in DOMAIN cycles[k] : Alike(n, cycles[k][i], Leads)
    BY <1>4, <1>5 DEF Reported
  <2> QED
    BY <2>1 DEF Alike
<1> QED
  BY <1>3, <1>5 DEF CyclesExact, IsCycle
=============================================================================
