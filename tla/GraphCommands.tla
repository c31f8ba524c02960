--------------------------- MODULE GraphCommands ---------------------------
(***************************************************************************)
(* The commands of omts-cli that ask a file for something: reach, path,    *)
(* query, subgraph and validate, and the library calls shortest_path and   *)
(* selector_subgraph, from the parsed file to the exit code.  A behaviour  *)
(* is one invocation.  Its searches are the steps of Search and Cycles.    *)
(***************************************************************************)
EXTENDS AdviceRules, Cycles

CONSTANT Invocations   \* pairs of a parsed file and a command on it

\* Lists and limits are what the parsers make of them.  The ids of nodes are
\* numbered in the order of their texts; none is the absent value.
IsFlags(flags) ==
  /\ flags = [g \in DOMAIN NoFlags |-> flags[g]]
  /\ \A flag \in flags.labels \cup flags.identifiers : Len(flag) \in {1, 2}
IsInvocation(f, asked) ==
  /\ {"nodes", "edges", "reporting", "scope", "date"} \subseteq DOMAIN f
  /\ IsSequence(f.nodes) /\ IsSequence(f.edges)
  /\ \A k \in DOMAIN f.nodes : f.nodes[k].id \in Nat \ {NoneGiven}
  /\ asked.op = "path" => {asked.depth, asked.max} \subseteq Nat
  /\ asked.op = "reach" => asked.depth \in Nat \cup {NoneGiven}
  /\ asked.op \in {"select", "subgraph"} =>
       IsFlags(asked.flags) /\ asked.expand \in Nat \ {NoneGiven}
  /\ asked.op = "select" => asked.ids = <<>>
ASSUME InvocationsAssumption == \A call \in Invocations : IsInvocation(call[1], call[2])

VARIABLES
  file,
  command,   \* a record with the operation, op, and its arguments
  status,    \* what the command is at
  todo,      \* seeds of a subgraph that have not been expanded
  found,     \* ids collected for a subgraph
  calls,     \* calls of dfs_recurse: a node and its neighbours still to try
  results,   \* paths found
  output,    \* what is printed or returned, or None
  exit       \* exit code, or None while the command runs

commandVars == <<file, command, status, todo, found, calls, results, output, exit>>
vars == <<commandVars, searchVars, cycleVars>>

NoGraph == [error |-> None, nodes |-> {}, arcs |-> {}]

Init ==
  /\ \E call \in Invocations : file = call[1] /\ command = call[2]
  /\ status = "ready"
  /\ todo = {} /\ found = {} /\ calls = <<>> /\ results = <<>>
  /\ output = None /\ exit = None
  /\ graph = NoGraph
  /\ query = [seeds |-> {}, dir |-> "forward", types |-> NoneGiven, limit |-> NoneGiven, goal |-> NoneGiven]
  /\ visited = {} /\ queue = <<>> /\ at = NoneGiven /\ rest = {}
  /\ pred = NoPred /\ path = <<>> /\ phase = "idle"
  /\ CyclesInit

End(code, result) == status' = "ended" /\ exit' = code /\ output' = result
Keep == UNCHANGED <<file, command>>
KeepWalk == UNCHANGED <<calls, results>>
KeepSearch == UNCHANGED <<query, visited, queue, at, rest, pred, path, phase>>

SearchQuery(seeds, dir, types, limit, goal) ==
  [seeds |-> seeds, dir |-> dir, types |-> types, limit |-> limit, goal |-> goal]

-----------------------------------------------------------------------------
\* All commands but query and validate start from the graph; those two read
\* the file alone, and only the rule on cycles builds one.
Build ==
  /\ status = "ready"
  /\ command.op \in {"reach", "path", "shortest", "select", "subgraph"}
  \* without seeds a subgraph is refused before the graph is built
  /\ ~(command.op = "subgraph" /\ command.ids = <<>> /\ command.flags = NoFlags)
  /\ LET built == BuildGraph(file) IN
       IF built.error # None
         THEN End(2, None) /\ UNCHANGED graph
         ELSE status' = "built" /\ graph' = built /\ UNCHANGED <<exit, output>>
  /\ Keep /\ KeepWalk /\ KeepSearch /\ UNCHANGED <<todo, found, cycleVars>>

NoSeedsGiven ==
  /\ status = "ready"
  /\ command.op = "subgraph" /\ command.ids = <<>> /\ command.flags = NoFlags
  /\ End(2, None)
  /\ Keep /\ KeepWalk /\ KeepSearch /\ UNCHANGED <<graph, todo, found, cycleVars>>

Sorted(ids) == SortedBy(ids, LAMBDA a, b : a < b)

(* reach, shortest_path and selector_subgraph: one search.                 *)
SearchAsked ==
  CASE command.op = "reach" ->
         SearchQuery({command.from}, command.dir, NoneGiven, command.depth, NoneGiven)
    [] command.op = "shortest" ->
         SearchQuery({command.from}, command.dir, command.types, NoneGiven, command.to)
    [] command.op = "select" ->
         SearchQuery(Seeds(SelectorSet(command.flags), file), "both", NoneGiven,
                     command.expand, NoneGiven)

StartSearch ==
  /\ status = "built"
  /\ command.op \in {"reach", "shortest", "select"}
  /\ command.op = "select" => ~NoSelector(SelectorSet(command.flags))
  /\ SearchAsked.seeds # {}
  /\ Begin(SearchAsked)
  /\ status' = "searching"
  /\ Keep /\ KeepWalk /\ UNCHANGED <<todo, found, output, exit, cycleVars>>

\* EmptyResult, and the fast path of the empty set of selectors.
SelectWithoutSearch ==
  /\ status = "built"
  /\ command.op = "select"
  /\ LET set == SelectorSet(command.flags) IN
       \/ NoSelector(set) /\ End(0, Assemble(file, graph.arcs, graph.nodes))
       \/ ~NoSelector(set) /\ Seeds(set, file) = {} /\ End(1, None)
  /\ Keep /\ KeepWalk /\ KeepSearch /\ UNCHANGED <<graph, todo, found, cycleVars>>

EndSearch ==
  /\ status = "searching"
  /\ phase \in {"done", "not_found"}
  /\ IF phase = "not_found" THEN End(1, None)
     ELSE \/ command.op = "reach" /\ End(0, Sorted(visited \ {command.from}))
          \/ command.op = "shortest" /\ End(0, path)
          \/ command.op = "select" /\ End(0, Assemble(file, graph.arcs, visited))
  /\ Keep /\ KeepWalk /\ KeepSearch /\ UNCHANGED <<graph, todo, found, cycleVars>>

-----------------------------------------------------------------------------
(* path: all simple paths, shortest first.                                 *)

\* Ends of the edges that leave a node, one per edge, the newest first.
Onward(n) ==
  LET arcs == {arc \in graph.arcs : arc.source = n}
      order == NewestFirst({arc.index : arc \in arcs})
  IN [i \in DOMAIN order |-> (CHOOSE arc \in arcs : arc.index = order[i]).target]

Call(n, children) == [node |-> n, children |-> children]
DfsTrail == [i \in DOMAIN calls |-> calls[i].node]
Innermost == calls[Len(calls)]

StartPaths ==
  /\ status = "built"
  /\ command.op = "path"
  /\ {command.from, command.to} \subseteq graph.nodes
  /\ status' = "walking"
  /\ IF command.from = command.to
       THEN results' = <<<<command.from>>>> /\ UNCHANGED calls
       ELSE /\ calls' = <<Call(command.from, IF command.depth = 0 THEN <<>>
                                             ELSE Onward(command.from))>>
            /\ UNCHANGED results
  /\ Keep /\ KeepSearch /\ UNCHANGED <<graph, todo, found, output, exit, cycleVars>>

UnknownEnd ==
  /\ status = "built"
  /\ command.op = "path"
  /\ ~({command.from, command.to} \subseteq graph.nodes)
  /\ End(1, None)
  /\ Keep /\ KeepSearch /\ KeepWalk /\ UNCHANGED <<graph, todo, found, cycleVars>>

\* The children of a call in which one has been taken.
NextChild == [calls EXCEPT ![Len(calls)].children = Tail(@)]

\* Mutant: the limit is looked at before the target.
DfsEnterLimitFirst ==
  /\ calls # <<>> /\ Innermost.children # <<>>
  /\ LET n == Head(Innermost.children) IN
       /\ n \notin ToSet(DfsTrail)
       /\ IF Len(calls) >= command.depth
            THEN calls' = Append(NextChild, Call(n, <<>>)) /\ UNCHANGED results
          ELSE IF n = command.to
            THEN /\ results' = Append(results, Append(DfsTrail, n))
                 /\ calls' = Append(NextChild, Call(n, <<>>))
          ELSE calls' = Append(NextChild, Call(n, Onward(n))) /\ UNCHANGED results
  /\ Keep /\ KeepSearch /\ UNCHANGED <<status, graph, todo, found, output, exit, cycleVars>>

\* A call with depth Len(calls): the target first, then the limit.
DfsEnter ==
  /\ calls # <<>> /\ Innermost.children # <<>>
  /\ LET n == Head(Innermost.children) IN
       /\ n \notin ToSet(DfsTrail)
       /\ IF n = command.to
            THEN /\ results' = Append(results, Append(DfsTrail, n))
                 /\ calls' = Append(NextChild, Call(n, <<>>))
          ELSE IF Len(calls) >= command.depth
            THEN calls' = Append(NextChild, Call(n, <<>>)) /\ UNCHANGED results
          ELSE calls' = Append(NextChild, Call(n, Onward(n))) /\ UNCHANGED results
  /\ Keep /\ KeepSearch /\ UNCHANGED <<status, graph, todo, found, output, exit, cycleVars>>

DfsSkip ==
  /\ calls # <<>> /\ Innermost.children # <<>>
  /\ Head(Innermost.children) \in ToSet(DfsTrail)
  /\ calls' = NextChild
  /\ Keep /\ KeepSearch
  /\ UNCHANGED <<status, results, graph, todo, found, output, exit, cycleVars>>

DfsReturn ==
  /\ calls # <<>> /\ Innermost.children = <<>>
  /\ calls' = SubSeq(calls, 1, Len(calls) - 1)
  /\ Keep /\ KeepSearch
  /\ UNCHANGED <<status, results, graph, todo, found, output, exit, cycleVars>>

ShorterOrBefore(p, q) == Len(p) < Len(q) \/ (Len(p) = Len(q) /\ TextLess(p, q))

\* A stable sort.
SortedPaths ==
  LET order == SortedBy(DOMAIN results,
                 LAMBDA i, j : \/ ShorterOrBefore(results[i], results[j])
                               \/ (results[i] = results[j] /\ i < j))
  IN [i \in DOMAIN order |-> results[order[i]]]

Least(a, b) == IF a < b THEN a ELSE b

Path ==
  /\ status = "walking"
  /\ calls = <<>>
  /\ IF results = <<>> THEN End(1, None)
     ELSE End(0, SubSeq(SortedPaths, 1, Least(Len(results), command.max)))
  /\ Keep /\ KeepSearch /\ KeepWalk /\ UNCHANGED <<graph, todo, found, cycleVars>>

-----------------------------------------------------------------------------
(* query.                                                                  *)
Query ==
  /\ status = "ready"
  /\ command.op = "query"
  /\ LET set == SelectorSet(command.flags)
         nodes == MatchedNodes(set, file)
         edges == MatchedEdges(set, file)
     IN IF FlagsInvalid(command.flags) THEN End(2, None)
        ELSE IF nodes = {} /\ edges = {} THEN End(1, None)
        ELSE End(0, [nodes |-> nodes, edges |-> edges])
  /\ Keep /\ KeepWalk /\ KeepSearch /\ UNCHANGED <<graph, todo, found, cycleVars>>

-----------------------------------------------------------------------------
(* subgraph.                                                               *)

\* The seeds of the selectors are those of selector_subgraph with expand 0.
CollectSeeds ==
  /\ status = "built"
  /\ command.op = "subgraph"
  /\ LET selected == IF command.flags = NoFlags THEN {}
                     ELSE Seeds(SelectorSet(command.flags), file)
         ids == ToSet(command.ids)
     IN IF command.flags # NoFlags /\ FlagsInvalid(command.flags)
          THEN End(2, None) /\ UNCHANGED <<todo, found>>
        ELSE IF (command.flags # NoFlags /\ selected = {}) \/ ~(ids \subseteq graph.nodes)
          THEN End(1, None) /\ UNCHANGED <<todo, found>>
        ELSE /\ status' = "expanding"
             /\ IF command.expand = 0
                  THEN found' = selected \cup ids /\ UNCHANGED todo
                  ELSE todo' = selected \cup ids /\ UNCHANGED found
             /\ UNCHANGED <<output, exit>>
  /\ Keep /\ KeepWalk /\ KeepSearch /\ UNCHANGED <<graph, cycleVars>>

\* Mutant: the seed is not taken off the list.
StartEgoAgain ==
  /\ status = "expanding"
  /\ \E id \in todo :
       /\ BeginSearch(SearchQuery({id}, "both", NoneGiven, command.expand, NoneGiven))
       /\ todo' = todo
  /\ status' = "ego"
  /\ Keep /\ KeepWalk /\ UNCHANGED <<found, output, exit, cycleVars>>

\* One ego graph per seed, in the order of a hash set.
StartEgo ==
  /\ status = "expanding"
  /\ \E id \in todo :
       /\ BeginSearch(SearchQuery({id}, "both", NoneGiven, command.expand, NoneGiven))
       /\ todo' = todo \ {id}
  /\ status' = "ego"
  /\ Keep /\ KeepWalk /\ UNCHANGED <<found, output, exit, cycleVars>>

EndEgo ==
  /\ status = "ego"
  /\ phase = "done"
  /\ status' = "expanding"
  /\ LET ego == Assemble(file, graph.arcs, visited)
     IN found' = found \cup {ego.nodes[k].id : k \in DOMAIN ego.nodes}
  /\ Keep /\ KeepWalk /\ KeepSearch /\ UNCHANGED <<graph, todo, output, exit, cycleVars>>

\* The extracted file is dated today.
Subgraph ==
  /\ status = "expanding"
  /\ todo = {}
  /\ End(0, [Assemble(file, graph.arcs, found) EXCEPT !.date = 0])
  /\ Keep /\ KeepWalk /\ KeepSearch /\ UNCHANGED <<graph, todo, found, cycleVars>>

-----------------------------------------------------------------------------
(* validate.                                                               *)

\* With level 3 the rule on cycles runs, silently if no graph can be built.
StartValidate ==
  /\ status = "ready"
  /\ command.op = "validate"
  /\ status' = "validating"
  /\ IF command.level >= 3 /\ BuildGraph(file).error = None
       THEN graph' = BuildGraph(file) /\ cphase' = "starting"
       ELSE UNCHANGED <<graph, cphase>>
  /\ Keep /\ KeepWalk /\ KeepSearch
  /\ UNCHANGED <<todo, found, output, exit, indegree, ready, counted, cyclic,
                 finished, frames, cycles>>

\* Errors decide the exit code; the command has no external source.
Validate ==
  /\ status = "validating"
  /\ cphase \in {"idle", "done"}
  /\ End(IF L1Valid(file) THEN 0 ELSE 1,
         [warnings |-> IF command.level >= 2 THEN Warnings(file) ELSE {},
          info     |-> IF command.level >= 3 THEN Information(file, command.source) ELSE {},
          cycles   |-> cycles])
  /\ Keep /\ KeepWalk /\ KeepSearch /\ UNCHANGED <<graph, todo, found, cycleVars>>

Next ==
  \/ Build \/ NoSeedsGiven
  \/ StartSearch \/ SelectWithoutSearch \/ EndSearch
  \/ StartPaths \/ UnknownEnd \/ DfsEnter \/ DfsSkip \/ DfsReturn \/ Path
  \/ Query
  \/ CollectSeeds \/ StartEgo \/ EndEgo \/ Subgraph
  \/ StartValidate \/ Validate
  \/ SearchStep /\ UNCHANGED <<commandVars, cycleVars>>
  \/ (StartCounting \/ CycleStep) /\ UNCHANGED <<commandVars, searchVars>>

\* A process that runs alone goes on until it ends.
Spec == Init /\ [][Next]_vars /\ WF_vars(Next)

-----------------------------------------------------------------------------
\* Walks along edges that visit no node twice, by their number of edges.
SimpleWalks(from, most) ==
  LET Visits(w) == {from} \cup {w[i].target : i \in DOMAIN w}
      Stop(w) == IF w = <<>> THEN from ELSE Last(w).target
      walks[k \in Nat] ==
        IF k = 0 THEN {<<>>}
        ELSE {Append(p[1], p[2]) : p \in
               {q \in walks[k - 1] \X graph.arcs :
                  q[2].source = Stop(q[1]) /\ q[2].target \notin Visits(q[1])}}
  IN UNION {walks[k] : k \in 0 .. most}

(* path prints, for two nodes of the graph, the simple paths of at most    *)
(* --max-depth edges: all of them up to --max-paths, the shorter first,    *)
(* one line for each choice among parallel edges; it exits with 1 exactly  *)
(* if there is none.  A path that needs the last permitted edge counts.    *)
PathsExact ==
  status = "ended" /\ command.op = "path" /\ exit # 2 =>
    LET Visited(w) == <<command.from>> \o [i \in DOMAIN w |-> w[i].target]
        known == {command.from, command.to} \subseteq graph.nodes
        most == Least(command.depth, Cardinality(graph.nodes))
        walks == IF ~known THEN {} ELSE
                 {w \in SimpleWalks(command.from, most) : Last(Visited(w)) = command.to}
        Lines(p) == Cardinality({i \in DOMAIN output : output[i] = p})
        Alternatives(p) == Cardinality({w \in walks : Visited(w) = p})
        Printed == ToSet(output)
    IN /\ exit = 1 <=> walks = {}
       /\ exit = 0 =>
            /\ Len(output) = Least(Cardinality(walks), command.max)
            /\ \A i \in 1 .. Len(output) - 1 : ~ShorterOrBefore(output[i + 1], output[i])
            /\ \A p \in Printed : Lines(p) <= Alternatives(p)
            /\ \A w \in walks : \A p \in Printed :
                 ShorterOrBefore(Visited(w), p) => Lines(Visited(w)) = Alternatives(Visited(w))

Touching(S, g) ==
  {n \in g.nodes : \E arc \in g.arcs :
     (arc.source \in S /\ arc.target = n) \/ (arc.target \in S /\ arc.source = n)}
Around(S, hops, g) ==
  LET around[k \in Nat] ==
        IF k = 0 THEN S ELSE around[k - 1] \cup Touching(around[k - 1], g)
  IN around[hops]

\* What the flags of the command match, found by looking at everything.
Matched ==
  LET set == SelectorSet(command.flags)
      nodes == IF HasNodeSelectors(set) THEN {file.nodes[k].id :
                 k \in {j \in DOMAIN file.nodes : MatchesNode(set, file.nodes[j])}} ELSE {}
      edges == IF HasEdgeSelectors(set) THEN
                 {k \in DOMAIN file.edges : MatchesEdge(set, file.edges[k])} ELSE {}
  IN nodes \cup UNION {{file.edges[k].source, file.edges[k].target} : k \in edges}

\* What an extraction is asked to start from.
Wanted ==
  (IF command.flags # NoFlags THEN Matched
   ELSE IF command.op = "select" THEN graph.nodes ELSE {}) \cup ToSet(command.ids)

Extracted == status = "ended" /\ command.op \in {"subgraph", "select"} /\ exit # 2

(* An extraction holds exactly the nodes within --expand hops of what was  *)
(* asked for, in whatever order the seeds were expanded and though a node  *)
(* was first met far from one seed and near another, and exactly the edges *)
(* among them; it names the reporting entity only if it holds it.  So the  *)
(* extraction from a valid file is valid.  It fails, with exit code 1,     *)
(* exactly if an id is unknown or selectors were given and match nothing.  *)
SubgraphExact ==
  Extracted =>
    LET kept == Around(Wanted, command.expand, graph)
    IN /\ exit = 1 <=> \/ ~(ToSet(command.ids) \subseteq graph.nodes)
                      \/ (command.flags # NoFlags /\ Matched = {})
       /\ exit = 0 =>
            /\ output.nodes =
                 Picked(file.nodes, {k \in DOMAIN file.nodes : file.nodes[k].id \in kept})
            /\ output.edges =
                 Picked(file.edges, {k \in DOMAIN file.edges :
                                       {file.edges[k].source, file.edges[k].target} \subseteq kept})
            /\ output.reporting = IF file.reporting \in kept THEN file.reporting ELSE None
            /\ L1Valid(file) => L1Valid(output)

(* The advice on an extraction from a valid file is the advice on the     *)
(* file, for what is kept, and new advice exactly where something was cut  *)
(* away: a facility that has lost its last organization (the operator      *)
(* field still names it) and tiers without the reporting entity they are   *)
(* counted from.                                                           *)
AdviceFollows ==
  Extracted /\ exit = 0 /\ L1Valid(file) =>
  LET nodes == {output.nodes[k].id : k \in DOMAIN output.nodes}
        edges == {output.edges[k].id : k \in DOMAIN output.edges}
        Kept(place) == IF place[1] = "edge" THEN place[2] \in edges ELSE place[2] \in nodes
        orgs == {n.id : n \in NodesOf(file, {"organization"})} \cap nodes
        CutOff(f) ==
          /\ f.operator \notin orgs
          /\ \A k \in DOMAIN output.edges :
               LET e == output.edges[k] IN
                 e.type \in {"operates", "operational_control", "tolls"} =>
                   ~({e.source, e.target} \subseteq orgs \cup {f.id} /\ f.id \in {e.source, e.target})
    IN Warnings(output) =
         {w \in Warnings(file) : Kept(w[2])}
           \cup Report("L2-GDM-01", OnNodes({f \in NodesOf(file, {"facility"}) :
                                              f.id \in nodes /\ CutOff(f)}))
           \cup Report("L2-GDM-04",
                  IF output.reporting # None THEN {}
                  ELSE OnEdges({e \in EdgesOf(output, {"supplies"}) : "tier" \in DOMAIN e.props}))

(* Every invocation comes to an end: each search looks at a node once,     *)
(* each seed is expanded once, and the count and the walks of the search   *)
(* for cycles run dry on graphs with cycles, too.                          *)
CommandEnds == <>(status = "ended")
=============================================================================
