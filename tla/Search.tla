------------------------------- MODULE Search -------------------------------
(***************************************************************************)
(* The breadth-first searches of omts-core and omts-cli, which are one     *)
(* loop in five places: reachable_from and shortest_path (graph/queries),  *)
(* ego_graph and selector_subgraph (graph/extraction) and                  *)
(* reachable_from_bounded (cmd/reach.rs).  They differ in the nodes they   *)
(* start from, in a limit on the hops, in a node to stop at and in the     *)
(* edges that pass.                                                        *)
(*                                                                         *)
(* A query is [seeds, dir, types, limit, goal]; NoneGiven restricts        *)
(* nothing.  The order of the edge lists of petgraph is left open; an edge *)
(* has a source, a target and a type.                                      *)
(***************************************************************************)
EXTENDS Integers, Sequences, FiniteSets

CONSTANTS
  NoneGiven,  \* the absent filter, limit or goal
  Graphs,     \* records with fields nodes and arcs
  Queries

\* A graph has finitely many nodes, none of them the absent value; only the
\* searches without a goal take a limit.
IsGraph(g) == NoneGiven \notin g.nodes /\ IsFiniteSet(g.nodes)
IsQuery(q) ==
  /\ IsFiniteSet(q.seeds)
  /\ q.limit \in Nat \cup {NoneGiven}
  /\ q.goal # NoneGiven => q.limit = NoneGiven
ASSUME SearchAssumption == (\A g \in Graphs : IsGraph(g)) /\ (\A q \in Queries : IsQuery(q))

VARIABLES
  graph,
  query,
  visited,   \* nodes seen
  queue,     \* pairs of a node and its hops, the oldest first
  at,        \* the pair whose neighbours are looked at
  rest,      \* neighbours that have not been looked at
  pred,      \* predecessor of each node seen (kept by shortest_path only)
  path,      \* the path that is put together, from its end
  phase

searchVars == <<graph, query, visited, queue, at, rest, pred, path, phase>>

Phases == {"idle", "searching", "tracing", "done", "not_found"}

-----------------------------------------------------------------------------
Passes(arc) == query.types = NoneGiven \/ arc.type \in query.types

Forward(m, n) ==
  /\ query.dir \in {"forward", "both"}
  /\ \E arc \in graph.arcs : Passes(arc) /\ arc.source = m /\ arc.target = n
Backward(m, n) ==
  /\ query.dir \in {"backward", "both"}
  /\ \E arc \in graph.arcs : Passes(arc) /\ arc.source = n /\ arc.target = m

Neighbours(m) == {n \in graph.nodes : Forward(m, n) \/ Backward(m, n)}

NoPred == [n \in {} |-> NoneGiven]

SearchInit ==
  /\ graph \in Graphs
  /\ query = [seeds |-> {}, dir |-> "forward", types |-> NoneGiven, limit |-> NoneGiven, goal |-> NoneGiven]
  /\ visited = {} /\ queue = <<>> /\ at = NoneGiven /\ rest = {}
  /\ pred = NoPred /\ path = <<>>
  /\ phase = "idle"

Start(q) ==
  /\ phase' = "searching"
  /\ visited' = q.seeds
  /\ \E order \in [1 .. Cardinality(q.seeds) -> q.seeds] :
       /\ \A s \in q.seeds : \E i \in DOMAIN order : order[i] = s
       /\ queue' = [i \in DOMAIN order |-> <<order[i], 0>>]
  /\ path' = <<>>

\* A seed or a goal that is no node: NodeNotFound.
NodeNotFound ==
  /\ phase' = "not_found"
  /\ visited' = {} /\ queue' = <<>> /\ path' = <<>>

\* From a node to itself.
AlreadyThere(q) ==
  /\ phase' = "done"
  /\ visited' = q.seeds /\ queue' = <<>> /\ path' = <<q.goal>>

Known(q) == q.seeds \subseteq graph.nodes /\ q.goal \in graph.nodes \cup {NoneGiven}

Prepare(q) ==
  /\ phase \notin {"searching", "tracing"}
  /\ query' = q
  /\ at' = NoneGiven /\ rest' = {} /\ pred' = NoPred
  /\ UNCHANGED graph

BeginUnknown(q) == ~Known(q) /\ Prepare(q) /\ NodeNotFound
BeginAtGoal(q) == Known(q) /\ q.goal \in q.seeds /\ Prepare(q) /\ AlreadyThere(q)
BeginSearch(q) == Known(q) /\ q.goal \notin q.seeds /\ Prepare(q) /\ Start(q)

Begin(q) == BeginUnknown(q) \/ BeginAtGoal(q) \/ BeginSearch(q)

Searching == phase = "searching" /\ rest = {}

\* Mutant: one hop more.
PopTooFar ==
  /\ Searching
  /\ queue # <<>>
  /\ at' = Head(queue)
  /\ queue' = Tail(queue)
  /\ rest' = IF query.limit = NoneGiven \/ Head(queue)[2] <= query.limit
               THEN Neighbours(Head(queue)[1]) ELSE {}
  /\ UNCHANGED <<graph, query, visited, pred, path, phase>>

\* The neighbours of a node at the limit are not looked at.
Pop ==
  /\ Searching
  /\ queue # <<>>
  /\ at' = Head(queue)
  /\ queue' = Tail(queue)
  /\ rest' = IF query.limit = NoneGiven \/ Head(queue)[2] < query.limit
               THEN Neighbours(Head(queue)[1]) ELSE {}
  /\ UNCHANGED <<graph, query, visited, pred, path, phase>>

SeeKnown(n) ==
  /\ phase = "searching"
  /\ n \in rest \cap visited
  /\ rest' = rest \ {n}
  /\ UNCHANGED <<graph, query, visited, queue, at, pred, path, phase>>

\* The goal stops the search in the middle of the list.
SeeNew(n) ==
  /\ phase = "searching"
  /\ n \in rest \ visited
  /\ rest' = rest \ {n}
  /\ visited' = visited \cup {n}
  /\ pred' = [m \in DOMAIN pred \cup {n} |-> IF m = n THEN at[1] ELSE pred[m]]
  /\ IF n = query.goal
       THEN /\ phase' = "tracing" /\ path' = <<n>> /\ UNCHANGED queue
       ELSE /\ queue' = Append(queue, <<n, at[2] + 1>>)
            /\ UNCHANGED <<path, phase>>
  /\ UNCHANGED <<graph, query, at>>

Exhausted ==
  /\ Searching
  /\ queue = <<>>
  /\ phase' = "done"
  /\ UNCHANGED <<graph, query, visited, queue, at, rest, pred, path>>

\* Mutant: the loop ends a step early.
TraceShort ==
  /\ phase = "tracing"
  /\ IF path[1] \in DOMAIN pred /\ pred[path[1]] \notin query.seeds
       THEN path' = <<pred[path[1]]>> \o path /\ phase' = phase
       ELSE path' = path /\ phase' = "done"
  /\ UNCHANGED <<graph, query, visited, queue, at, rest, pred>>

\* Back along the predecessors; the loop also ends where there is none.
Trace ==
  /\ phase = "tracing"
  /\ IF path[1] \notin query.seeds /\ path[1] \in DOMAIN pred
       THEN path' = <<pred[path[1]]>> \o path /\ phase' = phase
       ELSE path' = path /\ phase' = "done"
  /\ UNCHANGED <<graph, query, visited, queue, at, rest, pred>>

SearchStep ==
  \/ Pop
  \/ \E n \in rest : SeeKnown(n) \/ SeeNew(n)
  \/ Exhausted
  \/ Trace

SearchNext == SearchStep \/ \E q \in Queries : Begin(q)

SearchSpec == SearchInit /\ [][SearchNext]_searchVars

-----------------------------------------------------------------------------
Closed(S) == \A m \in S : Neighbours(m) \subseteq S

\* All that is reached in whatever number of hops.
Unlimited == query.limit = NoneGiven /\ query.goal = NoneGiven

(* A search without a limit ends with the least set of nodes that holds    *)
(* the seeds and whatever an edge leads to (reachable_from), and a path    *)
(* that shortest_path puts together runs from a seed to the goal along     *)
(* edges in the direction asked for, though predecessors are written while *)
(* the search is still under way.                                          *)
SearchSound ==
  /\ phase = "done" /\ Unlimited =>
       /\ Closed(visited)
       /\ \A S \in SUBSET graph.nodes :
            query.seeds \subseteq S /\ Closed(S) => visited \subseteq S
  /\ path # <<>> =>
       /\ path[Len(path)] = query.goal
       /\ \A i \in 1 .. Len(path) - 1 : path[i + 1] \in Neighbours(path[i])
       /\ phase = "done" => path[1] \in query.seeds

\* Nodes at most k hops away from the seeds.
Ball(k) ==
  LET ball[j \in Nat] ==
        IF j = 0 THEN query.seeds
        ELSE ball[j - 1] \cup UNION {Neighbours(m) : m \in ball[j - 1]}
  IN ball[k]
Far == Cardinality(graph.nodes)

(* The hops are counted right: a search that ends has seen the nodes within *)
(* the limit and no others, however it interleaved the levels, and         *)
(* shortest_path finds a path exactly if there is one, and no detour.      *)
HopsExact ==
  phase = "done" =>
    /\ query.goal = NoneGiven =>
         visited = Ball(IF query.limit = NoneGiven THEN Far ELSE query.limit)
    /\ query.goal # NoneGiven =>
         /\ path = <<>> <=> query.goal \notin Ball(Far)
         /\ Len(path) > 1 => query.goal \notin Ball(Len(path) - 2)
=============================================================================
