------------------------------- MODULE Cycles -------------------------------
(***************************************************************************)
(* The search for cycles of omts-core (graph/cycles.rs): a count of the    *)
(* edges that enter each node is worked off as by Kahn; what is left over  *)
(* is walked depth first, and an edge back to the walk's own trail is a    *)
(* cycle.  The nodes are taken in the order of hash maps, which is left    *)
(* open; petgraph lists the edges of a node the newest first.              *)
(***************************************************************************)
EXTENDS Search

CONSTANT FilterTypes   \* the edge types whose cycles are looked for

VARIABLES
  indegree,   \* filtered edges that enter a node and are not worked off
  ready,      \* queue of the nodes that no such edge enters
  counted,    \* number of nodes taken from the queue
  cyclic,     \* the nodes left over
  finished,   \* nodes whose successors were all walked (globally_visited)
  frames,     \* the walk: records of a node and its successors still to try
  cycles,     \* the cycles found
  cphase

cycleVars == <<indegree, ready, counted, cyclic, finished, frames, cycles, cphase>>

CyclePhases == {"idle", "starting", "counting", "extracting", "done"}

FilteredArcs == {arc \in graph.arcs : arc.type \in FilterTypes}
ArcsFromTo(m, n) == {arc \in FilteredArcs : arc.source = m /\ arc.target = n}

Orders(S) ==
  {order \in [1 .. Cardinality(S) -> S] : \A e \in S : \E i \in DOMAIN order : order[i] = e}

CyclesInit ==
  /\ indegree = NoPred /\ ready = <<>> /\ counted = 0 /\ cyclic = {}
  /\ finished = {} /\ frames = <<>> /\ cycles = <<>>
  /\ cphase = "idle"

StartCounting ==
  /\ cphase = "starting"
  /\ cphase' = "counting"
  /\ indegree' = [n \in graph.nodes |->
                    Cardinality({arc \in FilteredArcs : arc.target = n})]
  /\ ready' \in Orders({n \in graph.nodes : indegree'[n] = 0})
  /\ UNCHANGED <<counted, cyclic, finished, frames, cycles>>

TakeReady ==
  /\ cphase = "counting"
  /\ ready # <<>>
  /\ LET m == Head(ready)
         Entering(n) == Cardinality(ArcsFromTo(m, n))
     IN /\ indegree' = [n \in DOMAIN indegree |-> indegree[n] - Entering(n)]
        /\ \E order \in Orders({n \in graph.nodes : Entering(n) > 0 /\ indegree'[n] = 0}) :
             ready' = Tail(ready) \o order
  /\ counted' = counted + 1
  /\ UNCHANGED <<cyclic, finished, frames, cycles, cphase>>

EndCounting ==
  /\ cphase = "counting"
  /\ ready = <<>>
  /\ IF counted = Cardinality(graph.nodes)
       THEN cphase' = "done" /\ UNCHANGED cyclic
       ELSE cphase' = "extracting" /\ cyclic' = {n \in graph.nodes : indegree[n] > 0}
  /\ UNCHANGED <<indegree, ready, counted, finished, frames, cycles>>

\* Indices of edges, the newest first.
NewestFirst(S) ==
  [i \in 1 .. Cardinality(S) |-> CHOOSE k \in S : Cardinality({j \in S : j > k}) = i - 1]

FilteredSuccessors(m) ==
  LET arcs == {arc \in FilteredArcs : arc.source = m /\ arc.target \in cyclic}
      order == NewestFirst({arc.index : arc \in arcs})
  IN [i \in DOMAIN order |-> (CHOOSE arc \in arcs : arc.index = order[i]).target]

Frame(n) == [node |-> n, children |-> FilteredSuccessors(n)]
Trail == [i \in DOMAIN frames |-> frames[i].node]
Top == frames[Len(frames)]
OnTrail(n) == \E i \in DOMAIN frames : frames[i].node = n

PickStart ==
  /\ cphase = "extracting"
  /\ frames = <<>>
  /\ \E n \in cyclic \ finished : frames' = <<Frame(n)>>
  /\ UNCHANGED <<indegree, ready, counted, cyclic, finished, cycles, cphase>>

Retreat ==
  /\ frames # <<>>
  /\ Top.children = <<>>
  /\ frames' = SubSeq(frames, 1, Len(frames) - 1)
  /\ finished' = finished \cup {Top.node}
  /\ UNCHANGED <<indegree, ready, counted, cyclic, cycles, cphase>>

\* The frames after the next child of the top one was taken from its list.
Taken == [frames EXCEPT ![Len(frames)].children = Tail(@)]

\* Mutant: the way to the cycle is reported as part of it.
CloseWholeTrail ==
  /\ frames # <<>> /\ Top.children # <<>>
  /\ OnTrail(Head(Top.children))
  /\ cycles' = Append(cycles, Trail \o <<Head(Top.children)>>)
  /\ frames' = Taken
  /\ UNCHANGED <<indegree, ready, counted, cyclic, finished, cphase>>

CloseCycle ==
  /\ frames # <<>> /\ Top.children # <<>>
  /\ LET child == Head(Top.children) IN
       /\ OnTrail(child)
       /\ cycles' = Append(cycles,
            SubSeq(Trail, CHOOSE i \in DOMAIN frames : frames[i].node = child, Len(frames))
              \o <<child>>)
  /\ frames' = Taken
  /\ UNCHANGED <<indegree, ready, counted, cyclic, finished, cphase>>

SkipFinished ==
  /\ frames # <<>> /\ Top.children # <<>>
  /\ ~OnTrail(Head(Top.children))
  /\ Head(Top.children) \in finished
  /\ frames' = Taken
  /\ UNCHANGED <<indegree, ready, counted, cyclic, finished, cycles, cphase>>

Descend ==
  /\ frames # <<>> /\ Top.children # <<>>
  /\ ~OnTrail(Head(Top.children))
  /\ Head(Top.children) \notin finished
  /\ frames' = Append(Taken, Frame(Head(Top.children)))
  /\ UNCHANGED <<indegree, ready, counted, cyclic, finished, cycles, cphase>>

EndExtracting ==
  /\ cphase = "extracting"
  /\ frames = <<>>
  /\ cyclic \subseteq finished
  /\ cphase' = "done"
  /\ UNCHANGED <<indegree, ready, counted, cyclic, finished, frames, cycles>>

CycleStep ==
  \/ TakeReady \/ EndCounting
  \/ PickStart \/ Retreat \/ CloseCycle \/ SkipFinished \/ Descend
  \/ EndExtracting

-----------------------------------------------------------------------------
\* Pairs of nodes with a filtered walk, of at least one edge, between them.
Leads ==
  LET edges == {<<arc.source, arc.target>> : arc \in FilteredArcs}
      walks[k \in Nat] ==
        IF k = 0 THEN edges
        ELSE LET shorter == walks[k - 1] IN
             shorter \cup {<<p[1][1], p[2][2]>> : p \in
                             {q \in shorter \X edges : q[1][2] = q[2][1]}}
  IN walks[Cardinality(graph.nodes)]

(* What the search for cycles reports (L3-MRG-02, graph-engine.md): each   *)
(* report is a closed walk along filtered edges that visits no other node  *)
(* twice, and each node on a cycle shares one with a report; nodes that    *)
(* are merely downstream of a cycle are left over by the count as well,    *)
(* and are in none.                                                        *)
CyclesExact ==
  cphase = "done" =>
    LET leads == Leads
        Within(cycle) == {cycle[i] : i \in DOMAIN cycle}
    IN /\ \A k \in DOMAIN cycles :
            LET c == cycles[k] IN
              /\ Len(c) > 1 /\ c[1] = c[Len(c)]
              /\ Cardinality(Within(c)) = Len(c) - 1
              /\ \A i \in 1 .. Len(c) - 1 : ArcsFromTo(c[i], c[i + 1]) # {}
       /\ \A n \in graph.nodes :
            <<n, n>> \in leads =>
              \E k \in DOMAIN cycles : \A m \in Within(cycles[k]) :
                <<n, m>> \in leads /\ <<m, n>> \in leads
=============================================================================
