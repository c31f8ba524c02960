----------------------------- MODULE GraphProofs -----------------------------
(***************************************************************************)
(* Proofs about GraphCommands, for every set of invocations: the searches  *)
(* that a command runs are those of Search and Cycles, and so what is      *)
(* proved of them holds of every command; an extraction holds what was     *)
(* asked for, and keeps the advice on it; and a path command finds all     *)
(* simple walks, one for one.                                              *)
(***************************************************************************)
EXTENDS GraphCommands, SearchProofs

-----------------------------------------------------------------------------
(* The graph of a file.                                                    *)

LEMMA GraphOfFile ==
  ASSUME NEW f, NEW asked, IsInvocation(f, asked)
  PROVE  IsGraph(BuildGraph(f)) /\ IsMultigraph(BuildGraph(f))
<1> DEFINE g == BuildGraph(f)
           nodes == {f.nodes[k].id : k \in DOMAIN f.nodes}
           arc == [k \in DOMAIN f.edges |-> [index |-> k, type |-> f.edges[k].type,
                     source |-> f.edges[k].source, target |-> f.edges[k].target]]
           arcs == {arc[k] : k \in DOMAIN f.edges}
<1>1. /\ IsFiniteSet(DOMAIN f.nodes) /\ IsFiniteSet(DOMAIN f.edges) /\ DOMAIN f.edges \subseteq Nat
      /\ \A k \in DOMAIN f.nodes : f.nodes[k].id # NoneGiven
  BY PositionsFinite DEF IsInvocation
<1>2. IsFiniteSet(nodes) /\ NoneGiven \notin nodes
  <2> DEFINE id == [k \in DOMAIN f.nodes |-> f.nodes[k].id]
  <2>1. IsFiniteSet({id[k] : k \in DOMAIN f.nodes})
    BY <1>1, FiniteValues
  <2>2. {id[k] : k \in DOMAIN f.nodes} = nodes
    OBVIOUS
  <2> QED
    BY <2>1, <2>2, <1>1
<1>3. IsFiniteSet(arcs)
  BY <1>1, FiniteValues
<1>4. CASE g.nodes = {} /\ g.arcs = {}
  BY <1>4, FS_EmptySet DEF IsGraph, IsMultigraph
<1>5. CASE ~(g.nodes = {} /\ g.arcs = {})
  <2>1. EndpointsExist(f) /\ g.nodes = nodes /\ g.arcs = arcs
    BY <1>5 DEF BuildGraph
  <2>2. \A k \in DOMAIN f.edges : f.edges[k].source \in nodes /\ f.edges[k].target \in nodes
    BY <2>1 DEF EndpointsExist, NodesWithId
  <2>3. \A k \in DOMAIN f.edges : arc[k].index = k /\ arc[k].source = f.edges[k].source
                                  /\ arc[k].target = f.edges[k].target
    OBVIOUS
  <2> HIDE DEF nodes, arc
  <2>4. \A a \in arcs : a.index \in Nat /\ a.source \in nodes /\ a.target \in nodes
    BY <1>1, <2>2, <2>3
  <2>5. \A a, b \in arcs : a.index = b.index => a = b
    BY <2>3
  <2> HIDE DEF arcs, g
  <2>6. IsGraph(g) /\ IsMultigraph(g)
    BY <1>2, <1>3, <2>1, <2>4, <2>5 DEF IsGraph, IsMultigraph
  <2> QED
    BY <2>6 DEF g
<1> QED
  BY <1>4, <1>5

-----------------------------------------------------------------------------
(* The searches rest while there is no graph to search.                    *)

SearchIdle == phase = "idle" /\ rest = {} /\ visited = {} /\ path = <<>>
CyclesIdle ==
  /\ cphase \in {"idle", "starting"} /\ counted = 0 /\ cyclic = {} /\ finished = {}
  /\ frames = <<>> /\ cycles = <<>>

LEMMA IdleSearchInv == SearchIdle /\ IsGraph(graph) => IInv /\ HopsInv
BY DEF SearchIdle, IInv, GraphInv, QueueInv, LeastInv, FrontierInv, PredInv, PathInv, Active,
       HopsInv, AskedInv, LevelsInv, PredLevels, PathLevels, SeenInv

LEMMA IdleCycleInv == CyclesIdle /\ (cphase = "starting" => IsMultigraph(graph)) => CycleInv
BY DEF CyclesIdle, CycleInv, PhaseInv, CyclePhases, CountInv, UnusedInv, LeftOverInv, TrailInv,
       ReportsInv, CoverInv, Walking

SearchesInv ==
  /\ IsInvocation(file, command)
  /\ graph = NoGraph \/ graph = BuildGraph(file)
  /\ status = "ready" => graph = NoGraph /\ SearchIdle /\ CyclesIdle /\ cphase = "idle"
  /\ status \in {"expanding", "ego"} => command.op = "subgraph"
  /\ IInv /\ HopsInv /\ CycleInv

LEMMA SearchesInit == Init => SearchesInv
<1> SUFFICES ASSUME Init PROVE SearchesInv
  OBVIOUS
<1>1. IsInvocation(file, command)
  BY InvocationsAssumption DEF Init
<1>2. graph = NoGraph /\ SearchIdle /\ CyclesIdle /\ cphase = "idle"
  BY DEF Init, SearchIdle, CyclesIdle, CyclesInit
<1>3. IsGraph(graph)
  BY <1>2, FS_EmptySet DEF NoGraph, IsGraph
<1>4. IInv /\ HopsInv /\ CycleInv
  BY <1>2, <1>3, IdleSearchInv, IdleCycleInv
<1>5. status = "ready"
  BY DEF Init
<1> QED
  BY <1>1, <1>2, <1>4, <1>5 DEF SearchesInv

\* The seeds of the selectors are finitely many.
LEMMA SeedsFinite ==
  ASSUME NEW f, NEW asked, IsInvocation(f, asked), NEW set
  PROVE  IsFiniteSet(Seeds(set, f))
<1> DEFINE nodes == {f.nodes[k].id : k \in DOMAIN f.nodes}
           sources == {f.edges[k].source : k \in DOMAIN f.edges}
           targets == {f.edges[k].target : k \in DOMAIN f.edges}
<1>1. IsFiniteSet(DOMAIN f.nodes) /\ IsFiniteSet(DOMAIN f.edges)
  BY PositionsFinite DEF IsInvocation
<1>2. IsFiniteSet(nodes) /\ IsFiniteSet(sources) /\ IsFiniteSet(targets)
  <2> DEFINE id == [k \in DOMAIN f.nodes |-> f.nodes[k].id]
             source == [k \in DOMAIN f.edges |-> f.edges[k].source]
             target == [k \in DOMAIN f.edges |-> f.edges[k].target]
  <2>1. /\ IsFiniteSet({id[k] : k \in DOMAIN f.nodes})
        /\ IsFiniteSet({source[k] : k \in DOMAIN f.edges})
        /\ IsFiniteSet({target[k] : k \in DOMAIN f.edges})
    BY <1>1, FiniteValues
  <2>2. /\ {id[k] : k \in DOMAIN f.nodes} = nodes
        /\ {source[k] : k \in DOMAIN f.edges} = sources
        /\ {target[k] : k \in DOMAIN f.edges} = targets
    OBVIOUS
  <2> QED
    BY <2>1, <2>2
<1>3. IsFiniteSet(nodes \cup sources \cup targets)
  BY <1>2, FS_Union
<1>4. SeedEdges(set, f) \subseteq DOMAIN f.edges
  BY DEF SeedEdges, EdgesOfType
<1>5. SeedNodes(set, f) \subseteq nodes
  BY DEF SeedNodes, NodesOfType
<1>6. Seeds(set, f) \subseteq nodes \cup sources \cup targets
  <2>1. \A k \in SeedEdges(set, f) : f.edges[k].source \in sources /\ f.edges[k].target \in targets
    BY <1>4
  <2> HIDE DEF nodes, sources, targets
  <2> QED
    BY <1>5, <2>1 DEF Seeds
<1> QED
  BY <1>3, <1>6, FS_Subset

LEMMA AskedIsQuery ==
  ASSUME IsInvocation(file, command), command.op \in {"reach", "shortest", "select"}
  PROVE  IsQuery(SearchAsked)
<1>1. CASE command.op = "reach"
  <2>1. SearchAsked = SearchQuery({command.from}, command.dir, NoneGiven, command.depth, NoneGiven)
    BY <1>1 DEF SearchAsked
  <2> QED
    BY <1>1, <2>1, FS_Singleton DEF IsQuery, SearchQuery, IsInvocation
<1>2. CASE command.op = "shortest"
  <2>1. SearchAsked = SearchQuery({command.from}, command.dir, command.types, NoneGiven, command.to)
    BY <1>2 DEF SearchAsked
  <2> QED
    BY <2>1, FS_Singleton DEF IsQuery, SearchQuery
<1>3. CASE command.op = "select"
  <2>1. SearchAsked = SearchQuery(Seeds(SelectorSet(command.flags), file), "both", NoneGiven,
                                  command.expand, NoneGiven)
    BY <1>3 DEF SearchAsked
  <2>2. IsFiniteSet(Seeds(SelectorSet(command.flags), file))
    BY SeedsFinite
  <2> QED
    BY <1>3, <2>1, <2>2 DEF IsQuery, SearchQuery, IsInvocation
<1> QED
  BY <1>1, <1>2, <1>3

LEMMA EgoIsQuery ==
  ASSUME IsInvocation(file, command), command.op = "subgraph", NEW id
  PROVE  IsQuery(SearchQuery({id}, "both", NoneGiven, command.expand, NoneGiven))
BY FS_Singleton DEF IsQuery, SearchQuery, IsInvocation

\* What a step does to the searches.
SearchesRest == UNCHANGED <<searchVars, cycleVars>>

LEMMA SearchesRestInv ==
  ASSUME SearchesInv, SearchesRest, file' = file, command' = command,
         status' = "ready" => status = "ready",
         status' \in {"expanding", "ego"} => command.op = "subgraph"
  PROVE  SearchesInv'
<1>1. graph' = graph /\ UNCHANGED searchVars /\ UNCHANGED cycleVars
  BY DEF SearchesRest, searchVars
<1>2. IInv' /\ HopsInv' /\ CycleInv'
  BY <1>1, SearchRests, HopsRest, CycleRests DEF SearchesInv
<1>3. (SearchIdle /\ CyclesIdle /\ cphase = "idle") => (SearchIdle /\ CyclesIdle /\ cphase = "idle")'
  BY <1>1 DEF SearchIdle, CyclesIdle, searchVars, cycleVars
<1> QED
  BY <1>1, <1>2, <1>3 DEF SearchesInv

(* The steps of a command, one by one.                                     *)
LEMMA BuildSearches == SearchesInv /\ Build => SearchesInv'
<1> SUFFICES ASSUME SearchesInv, Build PROVE SearchesInv'
  OBVIOUS
<1>1. /\ status = "ready" /\ command.op \in {"reach", "path", "shortest", "select", "subgraph"}
      /\ UNCHANGED <<file, command>> /\ UNCHANGED cycleVars
      /\ UNCHANGED <<query, visited, queue, at, rest, pred, path, phase>>
  BY DEF Build, Keep, KeepSearch
<1>2. SearchIdle /\ CyclesIdle /\ cphase = "idle" /\ graph = NoGraph /\ IsInvocation(file, command)
  BY <1>1 DEF SearchesInv
<1>3. CASE UNCHANGED graph /\ status' = "ended"
  <2>1. SearchesRest
    BY <1>1, <1>3 DEF SearchesRest, searchVars
  <2> QED
    BY <2>1, <1>1, <1>3, SearchesRestInv
<1>4. CASE graph' = BuildGraph(file) /\ status' = "built"
  <2>1. IsGraph(graph')
    BY <1>2, <1>4, GraphOfFile
  <2>2. SearchIdle' /\ CyclesIdle' /\ cphase' = "idle"
    BY <1>1, <1>2 DEF SearchIdle, CyclesIdle, cycleVars
  <2>3. (SearchIdle /\ IsGraph(graph) => IInv /\ HopsInv)'
    BY IdleSearchInv, PTL
  <2>4. (CyclesIdle /\ (cphase = "starting" => IsMultigraph(graph)) => CycleInv)'
    BY IdleCycleInv, PTL
  <2>5. IInv' /\ HopsInv' /\ CycleInv'
    BY <2>1, <2>2, <2>3, <2>4
  <2> QED
    BY <2>5, <1>1, <1>2, <1>4 DEF SearchesInv
<1>5. (UNCHANGED graph /\ status' = "ended") \/ (graph' = BuildGraph(file) /\ status' = "built")
  BY DEF Build, End
<1> QED
  BY <1>3, <1>4, <1>5

LEMMA StartValidateSearches == SearchesInv /\ StartValidate => SearchesInv'
<1> SUFFICES ASSUME SearchesInv, StartValidate PROVE SearchesInv'
  OBVIOUS
<1>1. /\ status = "ready" /\ status' = "validating" /\ UNCHANGED <<file, command>>
      /\ UNCHANGED <<query, visited, queue, at, rest, pred, path, phase>>
      /\ UNCHANGED <<indegree, ready, counted, cyclic, finished, frames, cycles>>
  BY DEF StartValidate, Keep, KeepSearch
<1>2. SearchIdle /\ CyclesIdle /\ cphase = "idle" /\ graph = NoGraph /\ IsInvocation(file, command)
  BY <1>1 DEF SearchesInv
<1>3. CASE UNCHANGED <<graph, cphase>>
  <2>1. SearchesRest
    BY <1>1, <1>3 DEF SearchesRest, searchVars, cycleVars
  <2> QED
    BY <2>1, <1>1, SearchesRestInv
<1>4. CASE graph' = BuildGraph(file) /\ cphase' = "starting"
  <2>1. IsGraph(graph') /\ IsMultigraph(graph')
    BY <1>2, <1>4, GraphOfFile
  <2>2. SearchIdle' /\ CyclesIdle'
    BY <1>1, <1>2, <1>4 DEF SearchIdle, CyclesIdle
  <2>3. (SearchIdle /\ IsGraph(graph) => IInv /\ HopsInv)'
    BY IdleSearchInv, PTL
  <2>4. (CyclesIdle /\ (cphase = "starting" => IsMultigraph(graph)) => CycleInv)'
    BY IdleCycleInv, PTL
  <2>5. IInv' /\ HopsInv' /\ CycleInv'
    BY <2>1, <2>2, <2>3, <2>4
  <2> QED
    BY <2>5, <1>1, <1>2, <1>4 DEF SearchesInv
<1> QED
  BY <1>3, <1>4 DEF StartValidate

LEMMA BeginSearches ==
  ASSUME SearchesInv, NEW q, IsQuery(q), Begin(q), UNCHANGED <<file, command, cycleVars>>,
         status # "ready", status' # "ready",
         status' \in {"expanding", "ego"} => command.op = "subgraph"
  PROVE  SearchesInv'
<1>1. graph' = graph
  BY DEF Begin, BeginUnknown, BeginAtGoal, BeginSearch, Prepare
<1>2. IInv' /\ HopsInv' /\ CycleInv'
  BY <1>1, BeginInv, HopsBegin, CycleRests DEF SearchesInv
<1> QED
  BY <1>1, <1>2 DEF SearchesInv

LEMMA StartSearchSearches == SearchesInv /\ StartSearch => SearchesInv'
<1> SUFFICES ASSUME SearchesInv, StartSearch PROVE SearchesInv'
  OBVIOUS
<1>1. IsQuery(SearchAsked)
  BY AskedIsQuery DEF StartSearch, SearchesInv
<1>2. Begin(SearchAsked) /\ status = "built" /\ status' = "searching"
      /\ UNCHANGED <<file, command, cycleVars>>
  BY DEF StartSearch, Keep
<1> QED
  BY <1>1, <1>2, BeginSearches

LEMMA StartEgoSearches == SearchesInv /\ StartEgo => SearchesInv'
<1> SUFFICES ASSUME SearchesInv, StartEgo PROVE SearchesInv'
  OBVIOUS
<1>1. status = "expanding" /\ status' = "ego" /\ UNCHANGED <<file, command, cycleVars>>
  BY DEF StartEgo, Keep
<1>2. PICK id \in todo :
        BeginSearch(SearchQuery({id}, "both", NoneGiven, command.expand, NoneGiven))
  BY DEF StartEgo
<1>3. command.op = "subgraph"
  BY <1>1 DEF SearchesInv
<1>4. IsQuery(SearchQuery({id}, "both", NoneGiven, command.expand, NoneGiven))
  BY <1>3, EgoIsQuery DEF SearchesInv
<1>5. Begin(SearchQuery({id}, "both", NoneGiven, command.expand, NoneGiven))
  BY <1>2 DEF Begin
<1> QED
  BY <1>1, <1>3, <1>4, <1>5, BeginSearches

\* All other steps of a command leave the searches alone.
OtherStep ==
  \/ NoSeedsGiven \/ SelectWithoutSearch \/ EndSearch
  \/ StartPaths \/ UnknownEnd \/ DfsEnter \/ DfsSkip \/ DfsReturn \/ Path
  \/ Query \/ CollectSeeds \/ EndEgo \/ Subgraph \/ Validate

LEMMA OthersRest ==
  ASSUME OtherStep
  PROVE  SearchesRest /\ UNCHANGED <<file, command>>
<1>1. CASE NoSeedsGiven \/ SelectWithoutSearch \/ EndSearch \/ UnknownEnd \/ Query \/ Subgraph
  BY <1>1 DEF NoSeedsGiven, SelectWithoutSearch, EndSearch, UnknownEnd, Query, Subgraph,
              Keep, KeepSearch, SearchesRest, searchVars
<1>2. CASE StartPaths \/ DfsEnter \/ DfsSkip \/ DfsReturn \/ Path
  BY <1>2 DEF StartPaths, DfsEnter, DfsSkip, DfsReturn, Path, Keep, KeepSearch, SearchesRest,
              searchVars
<1>3. CASE CollectSeeds \/ EndEgo \/ Validate
  BY <1>3 DEF CollectSeeds, EndEgo, Validate, Keep, KeepSearch, SearchesRest, searchVars
<1> QED
  BY <1>1, <1>2, <1>3 DEF OtherStep

LEMMA OthersStatus ==
  ASSUME OtherStep, SearchesInv
  PROVE  /\ status' = "ready" => status = "ready"
         /\ status' \in {"expanding", "ego"} => command.op = "subgraph"
<1>1. CASE NoSeedsGiven \/ SelectWithoutSearch \/ EndSearch \/ UnknownEnd \/ Query \/ Subgraph
  BY <1>1 DEF NoSeedsGiven, SelectWithoutSearch, EndSearch, UnknownEnd, Query, Subgraph, End
<1>2. CASE StartPaths \/ Path
  BY <1>2 DEF StartPaths, Path, End
<1>3. CASE DfsEnter \/ DfsSkip \/ DfsReturn
  <2>1. status' = status
    BY <1>3 DEF DfsEnter, DfsSkip, DfsReturn
  <2> QED
    BY <2>1 DEF SearchesInv
<1>4. CASE CollectSeeds \/ Validate
  BY <1>4 DEF CollectSeeds, Validate, End
<1>5. CASE EndEgo
  BY <1>5 DEF EndEgo, SearchesInv
<1> QED
  BY <1>1, <1>2, <1>3, <1>4, <1>5 DEF OtherStep

LEMMA SearchStepSearches ==
  SearchesInv /\ SearchStep /\ UNCHANGED <<commandVars, cycleVars>> => SearchesInv'
<1> SUFFICES ASSUME SearchesInv, SearchStep, UNCHANGED <<commandVars, cycleVars>> PROVE SearchesInv'
  OBVIOUS
<1>1. UNCHANGED <<file, command, status>> /\ UNCHANGED cycleVars
  BY DEF commandVars
<1>2. graph' = graph
  BY DEF SearchStep, Pop, SeeKnown, SeeNew, Exhausted, Trace
<1>3. IInv' /\ HopsInv' /\ CycleInv'
  BY <1>1, <1>2, SearchStepInv, HopsStepInv, CycleRests DEF SearchesInv
<1>4. status # "ready"
  <2>1. phase # "idle" \/ rest # {}
    BY DEF SearchStep, Pop, Exhausted, Trace, Searching
  <2> QED
    BY <2>1 DEF SearchesInv, SearchIdle
<1> QED
  BY <1>1, <1>2, <1>3, <1>4 DEF SearchesInv

LEMMA CycleStepSearches ==
  SearchesInv /\ (StartCounting \/ CycleStep) /\ UNCHANGED <<commandVars, searchVars>> => SearchesInv'
<1> SUFFICES ASSUME SearchesInv, StartCounting \/ CycleStep, UNCHANGED <<commandVars, searchVars>>
             PROVE  SearchesInv'
  OBVIOUS
<1>1. UNCHANGED <<file, command, status>> /\ UNCHANGED searchVars /\ graph' = graph
  BY DEF commandVars, searchVars
<1>2. IInv' /\ HopsInv' /\ CycleInv'
  BY <1>1, SearchRests, HopsRest, CycleStepInv DEF SearchesInv
<1>3. status # "ready"
  <2>1. cphase # "idle" \/ frames # <<>>
    BY DEF CycleStep, StartCounting, TakeReady, EndCounting, PickStart, Retreat, CloseCycle,
           SkipFinished, Descend, EndExtracting
  <2> QED
    BY <2>1 DEF SearchesInv, CyclesIdle
<1> QED
  BY <1>1, <1>2, <1>3 DEF SearchesInv

(* Whatever command is run, its searches keep their invariants.            *)
THEOREM SearchesInvHolds == Spec => []SearchesInv
<1>1. SearchesInv /\ [Next]_vars => SearchesInv'
  <2> SUFFICES ASSUME SearchesInv, [Next]_vars PROVE SearchesInv'
    OBVIOUS
  <2>1. CASE OtherStep
    BY <2>1, OthersRest, OthersStatus, SearchesRestInv
  <2>2. CASE UNCHANGED vars
    <3>1. SearchesRest /\ UNCHANGED <<file, command, status>>
      BY <2>2 DEF vars, commandVars, SearchesRest
    <3> QED
      BY <3>1, SearchesRestInv DEF SearchesInv
  <2> QED
    BY <2>1, <2>2, BuildSearches, StartValidateSearches, StartSearchSearches, StartEgoSearches,
       SearchStepSearches, CycleStepSearches DEF Next, OtherStep
<1> QED
  BY <1>1, SearchesInit, PTL DEF Spec

(* What validate reports as cycles are cycles, and every node on a cycle   *)
(* is on one with a report: for every file, in whatever order the nodes    *)
(* are taken from the hash maps.                                           *)
THEOREM CommandsFindCycles == Spec => []CyclesExact
<1>1. SearchesInv => CyclesExact
  BY CyclesFound DEF SearchesInv
<1> QED
  BY <1>1, SearchesInvHolds, PTL

(* The searches of the commands return what is connected and paths along   *)
(* edges in the direction asked for.                                       *)
THEOREM CommandsSearchSoundly == Spec => []SearchSound
<1>1. SearchesInv => SearchSound
  BY SoundSearch DEF SearchesInv
<1> QED
  BY <1>1, SearchesInvHolds, PTL

(* The searches of the commands count hops right: reach sees what is       *)
(* within --depth, and a shortest path has no detour.                      *)
THEOREM CommandsCountHops == Spec => []HopsExact
<1>1. SearchesInv => HopsExact
  BY ExactSearch DEF SearchesInv
<1> QED
  BY <1>1, SearchesInvHolds, PTL

-----------------------------------------------------------------------------
(* Neighbourhoods.                                                         *)

AroundIs(S, g, w) ==
  w = [k \in Nat |-> IF k = 0 THEN S ELSE w[k - 1] \cup Touching(w[k - 1], g)]

LEMMA AroundChosen == \A S, k, g : Around(S, k, g) = (CHOOSE w : AroundIs(S, g, w))[k]
BY DEF Around, AroundIs

LEMMA AroundSteps ==
  ASSUME NEW g, NEW S \in SUBSET g.nodes
  PROVE  /\ Around(S, 0, g) = S
         /\ \A k \in Nat : /\ Around(S, k + 1, g) = Around(S, k, g) \cup Touching(Around(S, k, g), g)
                           /\ Around(S, k, g) \subseteq g.nodes
<1> DEFINE V == SUBSET g.nodes
           step == [n \in Nat |-> [T \in V |-> T \cup Touching(T, g)]]
<1>1. S \in V /\ step \in [Nat -> [V -> V]]
  BY DEF Touching
<1>2. \A n \in Nat, T \in V : step[n][T] = T \cup Touching(T, g)
  OBVIOUS
<1> HIDE DEF V, step
<1>3. PICK f : Recurs(V, S, step, f)
  BY <1>1, Recursion
<1>4. f \in [Nat -> V] /\ f[0] = S /\ \A n \in Nat : f[n + 1] = f[n] \cup Touching(f[n], g)
  BY <1>2, <1>3 DEF Recurs
<1>5. \A k \in Nat : f[k] = IF k = 0 THEN S ELSE f[k - 1] \cup Touching(f[k - 1], g)
  <2> SUFFICES ASSUME NEW k \in Nat, k # 0
               PROVE  f[k] = f[k - 1] \cup Touching(f[k - 1], g)
    BY <1>4
  <2>1. k - 1 \in Nat /\ (k - 1) + 1 = k
    OBVIOUS
  <2>2. f[(k - 1) + 1] = f[k - 1] \cup Touching(f[k - 1], g)
    BY <1>4, <2>1
  <2> QED
    BY <2>1, <2>2
<1>6. AroundIs(S, g, f)
  BY <1>4, <1>5 DEF AroundIs
<1> DEFINE b == CHOOSE w : AroundIs(S, g, w)
<1>7. AroundIs(S, g, b)
  BY <1>6
<1>8. \A k : Around(S, k, g) = b[k]
  BY AroundChosen
<1> HIDE DEF b
<1>9. b[0] = S
  BY <1>7 DEF AroundIs
<1>10. ASSUME NEW k \in Nat PROVE b[k + 1] = b[k] \cup Touching(b[k], g)
  <2>1. k + 1 \in Nat /\ k + 1 # 0 /\ (k + 1) - 1 = k
    OBVIOUS
  <2>2. \A i \in Nat : b[i] = IF i = 0 THEN S ELSE b[i - 1] \cup Touching(b[i - 1], g)
    BY <1>7 DEF AroundIs
  <2>3. b[k + 1] = b[(k + 1) - 1] \cup Touching(b[(k + 1) - 1], g)
    BY <2>1, <2>2, Zenon
  <2> QED
    BY <2>1, <2>3
<1> DEFINE T == {k \in Nat : b[k] \subseteq g.nodes}
<1>11. 0 \in T
  BY <1>9
<1>12. \A k \in Nat : k \in T => k + 1 \in T
  BY <1>10 DEF Touching
<1> HIDE DEF T
<1>13. Nat \subseteq T
  BY <1>11, <1>12, Induction
<1>14. \A k \in Nat : b[k] \subseteq g.nodes
  BY <1>13 DEF T
<1> QED
  BY <1>8, <1>9, <1>10, <1>14

(* Expanding seed by seed expands them all.                                *)
LEMMA AroundUnion ==
  ASSUME NEW g, NEW A \in SUBSET g.nodes, NEW B \in SUBSET g.nodes, NEW n \in Nat
  PROVE  Around(A \cup B, n, g) = Around(A, n, g) \cup Around(B, n, g)
<1> DEFINE T == {k \in Nat : Around(A \cup B, k, g) = Around(A, k, g) \cup Around(B, k, g)}
<1>0. A \cup B \in SUBSET g.nodes
  OBVIOUS
<1>1. 0 \in T
  BY <1>0, AroundSteps
<1>2. ASSUME NEW k \in Nat, k \in T PROVE k + 1 \in T
  <2>1. /\ Around(A, k + 1, g) = Around(A, k, g) \cup Touching(Around(A, k, g), g)
        /\ Around(B, k + 1, g) = Around(B, k, g) \cup Touching(Around(B, k, g), g)
        /\ Around(A \cup B, k + 1, g)
             = Around(A \cup B, k, g) \cup Touching(Around(A \cup B, k, g), g)
    BY <1>0, AroundSteps
  <2>2. \A X, Y : Touching(X \cup Y, g) = Touching(X, g) \cup Touching(Y, g)
    BY DEF Touching
  <2>3. Touching(Around(A \cup B, k, g), g)
          = Touching(Around(A, k, g), g) \cup Touching(Around(B, k, g), g)
    BY <1>2, <2>2
  <2>4. Around(A \cup B, k, g) = Around(A, k, g) \cup Around(B, k, g)
    BY <1>2
  <2>5. Around(A \cup B, k + 1, g) = Around(A, k + 1, g) \cup Around(B, k + 1, g)
    BY <2>1, <2>3, <2>4, Zenon
  <2>6. k + 1 \in Nat
    OBVIOUS
  <2> QED
    BY <2>5, <2>6, Zenon
<1> HIDE DEF T
<1>3. Nat \subseteq T
  BY <1>1, <1>2, Induction
<1> QED
  BY <1>3 DEF T

\* Nothing has no neighbours, and around all nodes there are no others.
LEMMA AroundBounds ==
  ASSUME NEW g, NEW n \in Nat
  PROVE  Around({}, n, g) = {} /\ Around(g.nodes, n, g) = g.nodes
<1> DEFINE T == {k \in Nat : Around({}, k, g) = {} /\ Around(g.nodes, k, g) = g.nodes}
<1>0. {} \in SUBSET g.nodes /\ g.nodes \in SUBSET g.nodes
  OBVIOUS
<1>1. 0 \in T
  BY <1>0, AroundSteps
<1>2. ASSUME NEW k \in Nat, k \in T PROVE k + 1 \in T
  <2>1. /\ Around({}, k + 1, g) = Around({}, k, g) \cup Touching(Around({}, k, g), g)
        /\ Around(g.nodes, k + 1, g) = Around(g.nodes, k, g) \cup Touching(Around(g.nodes, k, g), g)
    BY <1>0, AroundSteps
  <2>2. Touching({}, g) = {} /\ Touching(g.nodes, g) \subseteq g.nodes
    BY DEF Touching
  <2> QED
    BY <1>2, <2>1, <2>2
<1> HIDE DEF T
<1>3. Nat \subseteq T
  BY <1>1, <1>2, Induction
<1> QED
  BY <1>3 DEF T

(* What a search in both directions sees within a number of hops.          *)
LEMMA BallIsAround ==
  ASSUME query.dir = "both", query.types = NoneGiven, query.seeds \subseteq graph.nodes,
         NEW n \in Nat
  PROVE  Ball(n) = Around(query.seeds, n, graph)
<1> DEFINE T == {k \in Nat : Ball(k) = Around(query.seeds, k, graph)}
<1>0. query.seeds \in SUBSET graph.nodes
  OBVIOUS
<1>1. \A S \in SUBSET graph.nodes : Grow(S) = S \cup Touching(S, graph)
  <2> SUFFICES ASSUME NEW S \in SUBSET graph.nodes
               PROVE  UNION {Neighbours(m) : m \in S} = Touching(S, graph)
    BY DEF Grow
  <2>1. \A m : Neighbours(m) = {k \in graph.nodes : \E arc \in graph.arcs :
                 (arc.source = m /\ arc.target = k) \/ (arc.source = k /\ arc.target = m)}
    BY DEF Neighbours, Forward, Backward, Passes
  <2> QED
    BY <2>1 DEF Touching
<1>2. 0 \in T
  BY <1>0, AroundSteps, BallSteps
<1>3. ASSUME NEW k \in Nat, k \in T PROVE k + 1 \in T
  <2>1. Ball(k + 1) = Grow(Ball(k)) /\ Ball(k) \subseteq graph.nodes
    BY BallSteps
  <2>2. Around(query.seeds, k + 1, graph)
          = Around(query.seeds, k, graph) \cup Touching(Around(query.seeds, k, graph), graph)
    BY <1>0, AroundSteps
  <2>3. Ball(k + 1) = Ball(k) \cup Touching(Ball(k), graph)
    BY <1>1, <2>1
  <2>4. Ball(k) = Around(query.seeds, k, graph)
    BY <1>3
  <2>5. Ball(k + 1) = Around(query.seeds, k + 1, graph)
    BY <2>2, <2>3, <2>4
  <2> QED
    BY <2>5
<1> HIDE DEF T
<1>4. Nat \subseteq T
  BY <1>2, <1>3, Induction
<1> QED
  BY <1>4 DEF T

-----------------------------------------------------------------------------
(* The selectors: the indexes by type give what a scan gives.              *)

LEMMA SeedNodesScan ==
  ASSUME NEW set, NEW f
  PROVE  SeedNodes(set, f) =
           IF HasNodeSelectors(set)
             THEN {f.nodes[k].id : k \in {j \in DOMAIN f.nodes : MatchesNode(set, f.nodes[j])}}
             ELSE {}
<1>1. CASE ~HasNodeSelectors(set)
  BY <1>1 DEF SeedNodes
<1>2. CASE HasNodeSelectors(set) /\ ~OnlyGroup(set, "node_types", NodeGroups)
  BY <1>2 DEF SeedNodes
<1>3. CASE HasNodeSelectors(set) /\ OnlyGroup(set, "node_types", NodeGroups)
  <2>1. SeedNodes(set, f) = UNION {NodesOfType(f, type) : type \in set.node_types}
    BY <1>3 DEF SeedNodes
  <2>2. /\ set.node_types # {} /\ set.label_keys = {} /\ set.label_key_values = {}
        /\ set.identifier_schemes = {} /\ set.identifier_scheme_values = {}
        /\ set.jurisdictions = {} /\ set.names = {}
    BY <1>3 DEF OnlyGroup, NodeGroups
  <2>3. \A node : MatchesNode(set, node) <=> node.type \in set.node_types
    BY <2>2 DEF MatchesNode, LabelsMatch
  <2>4. UNION {NodesOfType(f, type) : type \in set.node_types}
          = {f.nodes[k].id : k \in {j \in DOMAIN f.nodes : f.nodes[j].type \in set.node_types}}
    BY DEF NodesOfType
  <2> QED
    BY <1>3, <2>1, <2>3, <2>4
<1> QED
  BY <1>1, <1>2, <1>3

LEMMA SeedEdgesScan ==
  ASSUME NEW set, NEW f
  PROVE  SeedEdges(set, f) =
           IF HasEdgeSelectors(set) THEN {k \in DOMAIN f.edges : MatchesEdge(set, f.edges[k])}
           ELSE {}
<1>1. CASE ~HasEdgeSelectors(set)
  BY <1>1 DEF SeedEdges
<1>2. CASE HasEdgeSelectors(set) /\ ~OnlyGroup(set, "edge_types", EdgeGroups)
  BY <1>2 DEF SeedEdges
<1>3. CASE HasEdgeSelectors(set) /\ OnlyGroup(set, "edge_types", EdgeGroups)
  <2>1. SeedEdges(set, f) = UNION {EdgesOfType(f, type) : type \in set.edge_types}
    BY <1>3 DEF SeedEdges
  <2>2. set.edge_types # {} /\ set.label_keys = {} /\ set.label_key_values = {}
    BY <1>3 DEF OnlyGroup, EdgeGroups
  <2>3. \A edge : MatchesEdge(set, edge) <=> edge.type \in set.edge_types
    BY <2>2 DEF MatchesEdge, LabelsMatch
  <2>4. UNION {EdgesOfType(f, type) : type \in set.edge_types}
          = {k \in DOMAIN f.edges : f.edges[k].type \in set.edge_types}
    BY DEF EdgesOfType
  <2> QED
    BY <1>3, <2>1, <2>3, <2>4
<1> QED
  BY <1>1, <1>2, <1>3

LEMMA SeedsAreMatched == Seeds(SelectorSet(command.flags), file) = Matched
<1> DEFINE set == SelectorSet(command.flags)
           nodes == SeedNodes(set, file)
           edges == SeedEdges(set, file)
<1>1. Matched = nodes \cup UNION {{file.edges[k].source, file.edges[k].target} : k \in edges}
  <2>1. nodes = IF HasNodeSelectors(set) THEN {file.nodes[k].id :
                  k \in {j \in DOMAIN file.nodes : MatchesNode(set, file.nodes[j])}} ELSE {}
    BY SeedNodesScan
  <2>2. edges = IF HasEdgeSelectors(set) THEN
                  {k \in DOMAIN file.edges : MatchesEdge(set, file.edges[k])} ELSE {}
    BY SeedEdgesScan
  <2> HIDE DEF nodes, edges
  <2> QED
    BY <2>1, <2>2 DEF Matched
<1>2. Seeds(set, file) = nodes \cup {file.edges[k].source : k \in edges}
                               \cup {file.edges[k].target : k \in edges}
  BY DEF Seeds
<1> HIDE DEF nodes, edges
<1> QED
  BY <1>1, <1>2

\* The set of selectors is empty exactly if no flag was given.
LEMMA FlagsSelect ==
  ASSUME NEW flags, IsFlags(flags)
  PROVE  NoSelector(SelectorSet(flags)) <=> flags = NoFlags
<1> DEFINE set == SelectorSet(flags)
<1>1. NoSelector(set) <=> /\ set.node_types = {} /\ set.edge_types = {}
                          /\ set.label_keys = {} /\ set.label_key_values = {}
                          /\ set.identifier_schemes = {} /\ set.identifier_scheme_values = {}
                          /\ set.jurisdictions = {} /\ set.names = {}
  <2> HIDE DEF set
  <2> QED
    BY DEF NoSelector, HasNodeSelectors, HasEdgeSelectors, NodeGroups, EdgeGroups
<1>2. /\ set.node_types = flags.node_types /\ set.edge_types = flags.edge_types
      /\ set.label_keys = Short(flags.labels) /\ set.label_key_values = Full(flags.labels)
      /\ set.identifier_schemes = Short(flags.identifiers)
      /\ set.identifier_scheme_values = Full(flags.identifiers)
      /\ set.jurisdictions = flags.jurisdictions /\ set.names = flags.names
  BY DEF SelectorSet
<1> HIDE DEF set
<1>3. \A S : (\A flag \in S : Len(flag) \in {1, 2})
               => ((Short(S) = {} /\ Full(S) = {}) <=> S = {})
  BY DEF Short, Full
<1>4. /\ (Short(flags.labels) = {} /\ Full(flags.labels) = {}) <=> flags.labels = {}
      /\ (Short(flags.identifiers) = {} /\ Full(flags.identifiers) = {}) <=> flags.identifiers = {}
  <2>1. \A flag \in flags.labels : Len(flag) \in {1, 2}
    BY DEF IsFlags
  <2>2. \A flag \in flags.identifiers : Len(flag) \in {1, 2}
    BY DEF IsFlags
  <2> QED
    BY <2>1, <2>2, <1>3
<1>5. flags = NoFlags <=> /\ flags.node_types = {} /\ flags.edge_types = {} /\ flags.labels = {}
                          /\ flags.identifiers = {} /\ flags.jurisdictions = {} /\ flags.names = {}
  <2>1. flags = [g \in DOMAIN NoFlags |-> flags[g]]
    BY DEF IsFlags
  <2>2. DOMAIN NoFlags = {"node_types", "edge_types", "labels", "identifiers", "jurisdictions", "names"}
    BY DEF NoFlags
  <2>3. ASSUME flags.node_types = {}, flags.edge_types = {}, flags.labels = {},
               flags.identifiers = {}, flags.jurisdictions = {}, flags.names = {}
        PROVE  flags = NoFlags
    <3>1. \A g \in DOMAIN NoFlags : flags[g] = {} /\ NoFlags[g] = {}
      BY <2>2, <2>3 DEF NoFlags
    <3>2. NoFlags = [g \in DOMAIN NoFlags |-> NoFlags[g]]
      BY DEF NoFlags
    <3> QED
      BY <2>1, <3>1, <3>2
  <2>4. flags = NoFlags => /\ flags.node_types = {} /\ flags.edge_types = {} /\ flags.labels = {}
                           /\ flags.identifiers = {} /\ flags.jurisdictions = {} /\ flags.names = {}
    BY DEF NoFlags
  <2> QED
    BY <2>3, <2>4
<1>6. NoSelector(set) <=> flags = NoFlags
  BY <1>1, <1>2, <1>4, <1>5, Zenon
<1> QED
  BY <1>6 DEF set

\* What is matched is in the graph.
LEMMA MatchedAreNodes ==
  ASSUME graph = BuildGraph(file), graph.error = None
  PROVE  Matched \subseteq graph.nodes
<1>1. EndpointsExist(file) /\ graph.nodes = {file.nodes[k].id : k \in DOMAIN file.nodes}
  BY ErrorsAssumption DEF BuildGraph
<1>2. \A k \in DOMAIN file.edges : {file.edges[k].source, file.edges[k].target} \subseteq graph.nodes
  BY <1>1 DEF EndpointsExist, NodesWithId
<1>3. /\ {file.nodes[k].id : k \in {j \in DOMAIN file.nodes :
             MatchesNode(SelectorSet(command.flags), file.nodes[j])}} \subseteq graph.nodes
      /\ {k \in DOMAIN file.edges : MatchesEdge(SelectorSet(command.flags), file.edges[k])}
           \subseteq DOMAIN file.edges
  BY <1>1
<1> QED
  BY <1>2, <1>3 DEF Matched

-----------------------------------------------------------------------------
(* What an extraction takes from a file.                                   *)

\* The elements of part are those of whole at the positions in K, each once.
TakenFrom(part, whole, K) ==
  /\ \A i \in DOMAIN part : \E k \in K : part[i] = whole[k]
  /\ \A k \in K : \E i \in DOMAIN part : part[i] = whole[k]
  /\ \A i, j \in DOMAIN part : \A k \in K : part[i] = whole[k] /\ part[j] = whole[k] =>
       i = j \/ \E l \in K : l # k /\ whole[l] = whole[k]

LEMMA PickedTakes ==
  ASSUME NEW s, IsSequence(s), NEW K \in SUBSET DOMAIN s
  PROVE  TakenFrom(Picked(s, K), s, K)
<1> DEFINE t == Picked(s, K)
<1>1. Renumbers(t, K) /\ \A k \in K : t[Pos(K, k)] = s[k]
  BY PickedRenumbers
<1> HIDE DEF t
<1>2. \A i \in DOMAIN t : \E k \in K : i = Pos(K, k) /\ t[i] = s[k]
  BY <1>1 DEF Renumbers
<1>3. \A k \in K : Pos(K, k) \in DOMAIN t
  BY <1>1 DEF Renumbers
<1>4. ASSUME NEW i \in DOMAIN t, NEW j \in DOMAIN t, NEW k \in K, t[i] = s[k], t[j] = s[k], i # j
      PROVE  \E l \in K : l # k /\ s[l] = s[k]
  <2>1. PICK l \in K : i = Pos(K, l) /\ t[i] = s[l]
    BY <1>2
  <2>2. PICK m \in K : j = Pos(K, m) /\ t[j] = s[m]
    BY <1>2
  <2>3. l # m
    BY <1>4, <2>1, <2>2
  <2> QED
    BY <1>4, <2>1, <2>2, <2>3
<1>5. \A k \in K : \E i \in DOMAIN t : t[i] = s[k]
  BY <1>1, <1>3
<1>6. TakenFrom(t, s, K)
  BY <1>2, <1>4, <1>5 DEF TakenFrom
<1> QED
  BY <1>6 DEF t

NodePlaces(f, kept) == {k \in DOMAIN f.nodes : f.nodes[k].id \in kept}
EdgePlaces(f, kept) == {k \in DOMAIN f.edges : {f.edges[k].source, f.edges[k].target} \subseteq kept}

IsPart(h, f, kept) ==
  /\ h.nodes = Picked(f.nodes, NodePlaces(f, kept))
  /\ h.edges = Picked(f.edges, EdgePlaces(f, kept))
  /\ h.reporting = IF f.reporting \in kept THEN f.reporting ELSE None
  /\ h.scope = f.scope

Takes(h, f, kept) ==
  /\ DOMAIN f.nodes \subseteq Nat /\ DOMAIN h.nodes \subseteq Nat
  /\ TakenFrom(h.nodes, f.nodes, NodePlaces(f, kept))
  /\ TakenFrom(h.edges, f.edges, EdgePlaces(f, kept))
  /\ h.reporting = IF f.reporting \in kept THEN f.reporting ELSE None
  /\ h.scope = f.scope

LEMMA PartTakes ==
  ASSUME NEW f, IsSequence(f.nodes), IsSequence(f.edges), NEW kept, NEW h, IsPart(h, f, kept)
  PROVE  Takes(h, f, kept)
<1>1. NodePlaces(f, kept) \in SUBSET DOMAIN f.nodes /\ EdgePlaces(f, kept) \in SUBSET DOMAIN f.edges
  BY DEF NodePlaces, EdgePlaces
<1>2. /\ TakenFrom(Picked(f.nodes, NodePlaces(f, kept)), f.nodes, NodePlaces(f, kept))
      /\ TakenFrom(Picked(f.edges, EdgePlaces(f, kept)), f.edges, EdgePlaces(f, kept))
  BY <1>1, PickedTakes
<1>3. DOMAIN f.nodes \subseteq Nat /\ DOMAIN Picked(f.nodes, NodePlaces(f, kept)) \subseteq Nat
  BY <1>1, PositionsFinite, PickedRenumbers DEF Renumbers, IsSequence
<1> QED
  BY <1>2, <1>3 DEF IsPart, Takes

LEMMA PartIdsUnique ==
  ASSUME NEW part, NEW whole, NEW K \in SUBSET DOMAIN whole, TakenFrom(part, whole, K),
         \A j, k \in DOMAIN whole : whole[j].id = whole[k].id => j = k
  PROVE  \A i, j \in DOMAIN part : part[i].id = part[j].id => i = j
<1> SUFFICES ASSUME NEW i \in DOMAIN part, NEW j \in DOMAIN part, part[i].id = part[j].id
             PROVE  i = j
  OBVIOUS
<1>1. PICK k \in K : part[i] = whole[k]
  BY DEF TakenFrom
<1>2. PICK l \in K : part[j] = whole[l]
  BY DEF TakenFrom
<1>3. k = l
  BY <1>1, <1>2
<1>4. ~\E m \in K : m # k /\ whole[m] = whole[k]
  OBVIOUS
<1> QED
  BY <1>1, <1>2, <1>3, <1>4 DEF TakenFrom

\* A node that is kept is found by its id as before.
LEMMA PartNodeAt ==
  ASSUME NEW f, NEW kept, NEW h, Takes(h, f, kept), NodeIdsUnique(f), NodeIdsUnique(h),
         NEW id \in kept, NodesWithId(f, id) # {}
  PROVE  NodesWithId(h, id) # {} /\ NodeAt(h, id) = NodeAt(f, id)
<1>1. PICK k \in DOMAIN f.nodes : f.nodes[k].id = id
  BY DEF NodesWithId
<1>2. NodesWithId(f, id) = {k}
  BY <1>1 DEF NodesWithId, NodeIdsUnique
<1>3. k \in NodePlaces(f, kept)
  BY <1>1 DEF NodePlaces
<1>4. PICK i \in DOMAIN h.nodes : h.nodes[i] = f.nodes[k]
  BY <1>3 DEF Takes, TakenFrom
<1>5. NodesWithId(h, id) = {i}
  BY <1>1, <1>4 DEF NodesWithId, NodeIdsUnique
<1>7. k \in Nat /\ i \in Nat
  BY DEF Takes
<1>8. NodeAt(f, id) = f.nodes[k]
  BY <1>2, <1>7 DEF NodeAt
<1>9. NodeAt(h, id) = h.nodes[i]
  BY <1>5, <1>7 DEF NodeAt
<1> QED
  BY <1>4, <1>5, <1>8, <1>9

(* What is extracted from a valid file is valid.                           *)
LEMMA PartValid ==
  ASSUME NEW f, IsSequence(f.nodes), IsSequence(f.edges), NEW kept, NEW h, IsPart(h, f, kept),
         L1Valid(f)
  PROVE  L1Valid(h)
<1>1. Takes(h, f, kept)
  BY PartTakes
<1>2. NodeIdsUnique(h) /\ NodeIdsUnique(f)
  <2>1. NodePlaces(f, kept) \in SUBSET DOMAIN f.nodes
    BY DEF NodePlaces
  <2>2. NodeIdsUnique(f)
    BY DEF L1Valid
  <2> QED
    BY <2>1, <2>2, <1>1, PartIdsUnique DEF Takes, NodeIdsUnique
<1>3. EdgeIdsUnique(h)
  <2>1. EdgePlaces(f, kept) \in SUBSET DOMAIN f.edges
    BY DEF EdgePlaces
  <2>2. EdgeIdsUnique(f)
    BY DEF L1Valid
  <2> QED
    BY <2>1, <2>2, <1>1, PartIdsUnique DEF Takes, EdgeIdsUnique
<1>4. ASSUME NEW i \in DOMAIN h.nodes
      PROVE  \E k \in DOMAIN f.nodes : h.nodes[i] = f.nodes[k]
  BY <1>1 DEF Takes, TakenFrom, NodePlaces
<1>5. ASSUME NEW i \in DOMAIN h.edges
      PROVE  \E k \in DOMAIN f.edges : /\ h.edges[i] = f.edges[k]
                                       /\ f.edges[k].source \in kept /\ f.edges[k].target \in kept
  BY <1>1 DEF Takes, TakenFrom, EdgePlaces
<1>6. ASSUME NEW id \in kept, NodesWithId(f, id) # {}
      PROVE  NodesWithId(h, id) # {} /\ NodeAt(h, id) = NodeAt(f, id)
  BY <1>1, <1>2, <1>6, PartNodeAt
<1>7. EndpointsExist(h)
  <2> SUFFICES ASSUME NEW i \in DOMAIN h.edges
               PROVE  /\ NodesWithId(h, h.edges[i].source) # {}
                      /\ NodesWithId(h, h.edges[i].target) # {}
    BY DEF EndpointsExist
  <2>1. PICK k \in DOMAIN f.edges : /\ h.edges[i] = f.edges[k]
                                    /\ f.edges[k].source \in kept /\ f.edges[k].target \in kept
    BY <1>5
  <2>2. NodesWithId(f, f.edges[k].source) # {} /\ NodesWithId(f, f.edges[k].target) # {}
    BY DEF L1Valid, EndpointsExist
  <2> QED
    BY <2>1, <2>2, <1>6
<1>8. EdgeTypesKnown(h)
  <2>1. EdgeTypesKnown(f)
    BY DEF L1Valid
  <2> QED
    BY <2>1, <1>5 DEF EdgeTypesKnown
<1>9. ReportingEntityIsOrganization(h)
  <2> SUFFICES ASSUME h.reporting # None
               PROVE  /\ NodesWithId(h, h.reporting) # {}
                      /\ NodeAt(h, h.reporting).type = "organization"
    BY DEF ReportingEntityIsOrganization
  <2>1. h.reporting = f.reporting /\ f.reporting \in kept
    BY <1>1 DEF Takes
  <2>2. NodesWithId(f, f.reporting) # {} /\ NodeAt(f, f.reporting).type = "organization"
    BY <2>1 DEF L1Valid, ReportingEntityIsOrganization
  <2> QED
    BY <2>1, <2>2, <1>6
<1>10. EndpointTypesPermitted(h)
  <2> DEFINE Permitted(file0, id, types) ==
               NodesWithId(file0, id) # {} =>
                 NodeAt(file0, id).type \in types \cup ExtensionTypes \cup {"boundary_ref"}
  <2> SUFFICES ASSUME NEW i \in DOMAIN h.edges,
                      h.edges[i].type \notin ExtensionTypes \cup {"same_as"}
               PROVE  /\ Permitted(h, h.edges[i].source, PermittedSources(h.edges[i].type))
                      /\ Permitted(h, h.edges[i].target, PermittedTargets(h.edges[i].type))
    BY DEF EndpointTypesPermitted
  <2>1. PICK k \in DOMAIN f.edges : /\ h.edges[i] = f.edges[k]
                                    /\ f.edges[k].source \in kept /\ f.edges[k].target \in kept
    BY <1>5
  <2>2. NodesWithId(f, f.edges[k].source) # {} /\ NodesWithId(f, f.edges[k].target) # {}
    BY DEF L1Valid, EndpointsExist
  <2>3. /\ Permitted(f, f.edges[k].source, PermittedSources(f.edges[k].type))
        /\ Permitted(f, f.edges[k].target, PermittedTargets(f.edges[k].type))
    BY <2>1 DEF L1Valid, EndpointTypesPermitted
  <2>4. /\ NodeAt(h, f.edges[k].source) = NodeAt(f, f.edges[k].source)
        /\ NodeAt(h, f.edges[k].target) = NodeAt(f, f.edges[k].target)
    BY <2>1, <2>2, <1>6
  <2> QED
    BY <2>1, <2>2, <2>3, <2>4
<1>11. IdentifiersValid(h)
  <2>1. IdentifiersValid(f)
    BY DEF L1Valid
  <2> SUFFICES ASSUME NEW i \in DOMAIN h.nodes
               PROVE  /\ \A j \in DOMAIN h.nodes[i].ids :
                           AuthorityPresent(h.nodes[i].ids[j]) /\ PeriodOrdered(h.nodes[i].ids[j])
                      /\ IdentifierTuplesUnique(h.nodes[i].ids)
    BY DEF IdentifiersValid
  <2>2. PICK k \in DOMAIN f.nodes : h.nodes[i] = f.nodes[k]
    BY <1>4
  <2> QED
    BY <2>1, <2>2 DEF IdentifiersValid
<1>12. BoundaryRefsOpaque(h)
  <2>1. BoundaryRefsOpaque(f)
    BY DEF L1Valid
  <2> QED
    BY <2>1, <1>4 DEF BoundaryRefsOpaque
<1>13. ScopeRespected(h)
  <2>1. ScopeRespected(f) /\ h.scope = f.scope
    BY <1>1 DEF L1Valid, Takes
  <2> QED
    BY <2>1, <1>4 DEF ScopeRespected
<1> QED
  BY <1>2, <1>3, <1>7, <1>8, <1>9, <1>10, <1>11, <1>12, <1>13 DEF L1Valid

\* assemble_subgraph takes such a part, whatever the day it is dated.
LEMMA AssembleTakes ==
  ASSUME NEW f, NEW asked, IsInvocation(f, asked), NEW kept, BuildGraph(f).error = None
  PROVE  LET h == Assemble(f, BuildGraph(f).arcs, kept)
         IN IsPart(h, f, kept) /\ IsPart([h EXCEPT !.date = 0], f, kept)
<1> DEFINE arcs == BuildGraph(f).arcs
           places == {arc.index : arc \in {a \in arcs : {a.source, a.target} \subseteq kept}}
           h == Assemble(f, arcs, kept)
<1>1. arcs = {[index |-> k, type |-> f.edges[k].type, source |-> f.edges[k].source,
               target |-> f.edges[k].target] : k \in DOMAIN f.edges}
  BY ErrorsAssumption DEF BuildGraph
<1>2. places = EdgePlaces(f, kept)
  <2> HIDE DEF arcs
  <2>1. ASSUME NEW k \in EdgePlaces(f, kept) PROVE k \in places
    <3> DEFINE a == [index |-> k, type |-> f.edges[k].type, source |-> f.edges[k].source,
                     target |-> f.edges[k].target]
    <3>1. a \in arcs /\ a.index = k /\ {a.source, a.target} \subseteq kept
      BY <1>1 DEF EdgePlaces
    <3> QED
      BY <3>1
  <2>2. ASSUME NEW a \in arcs, {a.source, a.target} \subseteq kept
        PROVE  a.index \in EdgePlaces(f, kept)
    BY <1>1, <2>2 DEF EdgePlaces
  <2> QED
    BY <2>1, <2>2
<1> HIDE DEF arcs
<1>3. {"nodes", "edges", "reporting", "scope", "date"} \subseteq DOMAIN f
  BY DEF IsInvocation
<1>4. h = [f EXCEPT !.nodes = Picked(@, {k \in DOMAIN @ : @[k].id \in kept}),
                    !.edges = Picked(@, places),
                    !.reporting = IF @ \in kept THEN @ ELSE None]
  BY DEF Assemble
<1> HIDE DEF places
<1>5. /\ DOMAIN h = DOMAIN f
      /\ h.nodes = Picked(f.nodes, NodePlaces(f, kept)) /\ h.edges = Picked(f.edges, places)
      /\ h.reporting = IF f.reporting \in kept THEN f.reporting ELSE None
      /\ h.scope = f.scope
  BY <1>3, <1>4 DEF NodePlaces
<1> HIDE DEF h
<1>6. IsPart(h, f, kept)
  BY <1>2, <1>5 DEF IsPart
<1>7. IsPart([h EXCEPT !.date = 0], f, kept)
  BY <1>3, <1>5, <1>6 DEF IsPart
<1> QED
  BY <1>6, <1>7 DEF h, arcs

-----------------------------------------------------------------------------
(* The extraction commands.                                                *)

Extracts == command.op \in {"subgraph", "select"}
Refused == \/ ~(ToSet(command.ids) \subseteq graph.nodes)
           \/ (command.flags # NoFlags /\ Matched = {})
Extent == Around(Wanted, command.expand, graph)
EgoQuery(id) == SearchQuery({id}, "both", NoneGiven, command.expand, NoneGiven)

OutputInv ==
  /\ graph = BuildGraph(file) /\ graph.error = None
  /\ exit = 1 <=> Refused
  /\ exit = 0 => output \in {Assemble(file, graph.arcs, Extent),
                             [Assemble(file, graph.arcs, Extent) EXCEPT !.date = 0]}

ExtractInv ==
  Extracts =>
    /\ status \in {"ready", "built", "searching", "expanding", "ego", "ended"}
    /\ status \in {"ready", "built"} => todo = {} /\ found = {}
    /\ status \in {"built", "searching", "expanding", "ego"} =>
         graph = BuildGraph(file) /\ graph.error = None
    /\ status = "searching" =>
         /\ command.op = "select" /\ ~Refused /\ Active
         /\ query = SearchQuery(Wanted, "both", NoneGiven, command.expand, NoneGiven)
    /\ status \in {"expanding", "ego"} =>
         command.op = "subgraph" /\ ~Refused /\ todo \subseteq Wanted
    /\ status = "expanding" => found = Around(Wanted \ todo, command.expand, graph)
    /\ status = "ego" =>
         \E id \in Wanted \ todo :
           /\ query = EgoQuery(id) /\ Active
           /\ found = Around(Wanted \ (todo \cup {id}), command.expand, graph)
    /\ status = "ended" /\ exit # 2 => OutputInv

LEMMA WantedKept ==
  ASSUME UNCHANGED <<file, command, graph>>
  PROVE  /\ Wanted' = Wanted /\ Refused' = Refused /\ Extent' = Extent /\ Extracts' = Extracts
         /\ \A id : EgoQuery(id)' = EgoQuery(id)
<1>1. Matched' = Matched
  BY DEF Matched
<1>2. Wanted' = Wanted
  BY <1>1 DEF Wanted
<1> QED
  BY <1>1, <1>2 DEF Refused, Extent, Extracts, EgoQuery

LEMMA WantedAreNodes ==
  ASSUME graph = BuildGraph(file), graph.error = None, ~Refused
  PROVE  Wanted \subseteq graph.nodes
BY MatchedAreNodes DEF Wanted, Refused

\* What a search under way has seen when it is done.
LEMMA SearchSees ==
  ASSUME SearchesInv, Extracts, NEW S \in SUBSET graph.nodes,
         query = SearchQuery(S, "both", NoneGiven, command.expand, NoneGiven), phase = "done"
  PROVE  visited = Around(S, command.expand, graph)
<1>1. /\ query.seeds = S /\ query.dir = "both" /\ query.types = NoneGiven
      /\ query.limit = command.expand /\ query.goal = NoneGiven
  BY DEF SearchQuery
<1>2. command.expand \in Nat /\ command.expand # NoneGiven
  BY DEF SearchesInv, IsInvocation, Extracts
<1>3. HopsExact
  BY ExactSearch DEF SearchesInv
<1>4. visited = Ball(command.expand)
  BY <1>1, <1>2, <1>3 DEF HopsExact
<1> QED
  BY <1>1, <1>2, <1>4, BallIsAround

LEMMA BuildExtract == SearchesInv /\ ExtractInv /\ Build => ExtractInv'
<1> SUFFICES ASSUME SearchesInv, ExtractInv, Build, Extracts PROVE ExtractInv'
  <2>1. ASSUME Build, ~Extracts PROVE ~Extracts'
    BY <2>1 DEF Build, Keep, Extracts
  <2> QED
    BY <2>1 DEF ExtractInv
<1>1. status = "ready" /\ UNCHANGED <<file, command, todo, found>>
  BY DEF Build, Keep
<1>2. todo = {} /\ found = {}
  BY <1>1 DEF ExtractInv
<1>3. \/ status' = "ended" /\ exit' = 2
      \/ status' = "built" /\ graph' = BuildGraph(file) /\ graph'.error = None
  BY DEF Build, End
<1> QED
  BY <1>1, <1>2, <1>3 DEF ExtractInv

LEMMA StartSearchExtract == SearchesInv /\ ExtractInv /\ StartSearch => ExtractInv'
<1> SUFFICES ASSUME SearchesInv, ExtractInv, StartSearch, Extracts PROVE ExtractInv'
  <2>1. ASSUME StartSearch, ~Extracts PROVE ~Extracts'
    BY <2>1 DEF StartSearch, Keep, Extracts
  <2> QED
    BY <2>1 DEF ExtractInv
<1> DEFINE set == SelectorSet(command.flags)
<1>1. /\ status = "built" /\ command.op = "select" /\ ~NoSelector(set)
      /\ SearchAsked.seeds # {} /\ Begin(SearchAsked)
      /\ status' = "searching" /\ UNCHANGED <<file, command, todo, found>>
  BY DEF StartSearch, Keep, Extracts
<1>2. graph' = graph /\ query' = SearchAsked
  BY <1>1 DEF Begin, BeginUnknown, BeginAtGoal, BeginSearch, Prepare
<1>3. graph = BuildGraph(file) /\ graph.error = None
  BY <1>1 DEF ExtractInv
<1>4. SearchAsked = SearchQuery(Matched, "both", NoneGiven, command.expand, NoneGiven)
  BY <1>1, SeedsAreMatched DEF SearchAsked
<1>5. IsFlags(command.flags) /\ command.ids = <<>>
  BY <1>1 DEF SearchesInv, IsInvocation
<1>6. command.flags # NoFlags
  BY <1>1, <1>5, FlagsSelect
<1>7. ToSet(command.ids) = {}
  BY <1>5 DEF ToSet
<1>8. Wanted = Matched /\ Matched # {} /\ ~Refused
  BY <1>1, <1>4, <1>6, <1>7 DEF Wanted, Refused, SearchQuery
<1>9. Matched \subseteq graph.nodes /\ NoneGiven \notin graph.nodes
  BY <1>3, MatchedAreNodes DEF SearchesInv, IInv, GraphInv, IsGraph
<1>10. phase' = "searching"
  <2>1. Known(SearchAsked) /\ SearchAsked.goal \notin SearchAsked.seeds
    BY <1>4, <1>9 DEF Known, SearchQuery
  <2> QED
    BY <1>1, <2>1 DEF Begin, BeginUnknown, BeginAtGoal, BeginSearch, Start
<1>11. Wanted' = Wanted /\ ~Refused'
  BY <1>1, <1>2, <1>8, WantedKept
<1> QED
  BY <1>1, <1>2, <1>3, <1>4, <1>8, <1>10, <1>11 DEF ExtractInv, Active

LEMMA SelectWithoutSearchExtract ==
  SearchesInv /\ ExtractInv /\ SelectWithoutSearch => ExtractInv'
<1> SUFFICES ASSUME SearchesInv, ExtractInv, SelectWithoutSearch PROVE ExtractInv'
  OBVIOUS
<1> DEFINE set == SelectorSet(command.flags)
<1>1. /\ status = "built" /\ command.op = "select" /\ status' = "ended"
      /\ UNCHANGED <<file, command, graph>>
      /\ \/ NoSelector(set) /\ exit' = 0 /\ output' = Assemble(file, graph.arcs, graph.nodes)
         \/ ~NoSelector(set) /\ Seeds(set, file) = {} /\ exit' = 1
  BY DEF SelectWithoutSearch, End, Keep, KeepSearch
<1>2. graph = BuildGraph(file) /\ graph.error = None
  BY <1>1 DEF ExtractInv, Extracts
<1>3. IsFlags(command.flags) /\ command.ids = <<>> /\ command.expand \in Nat
  BY <1>1 DEF SearchesInv, IsInvocation
<1>4. ToSet(command.ids) = {}
  BY <1>3 DEF ToSet
<1>5. NoSelector(set) <=> command.flags = NoFlags
  BY <1>3, FlagsSelect
<1>6. Wanted' = Wanted /\ Refused' = Refused /\ Extent' = Extent
  BY <1>1, WantedKept
<1>7. CASE NoSelector(set)
  <2>1. ~Refused /\ Wanted = graph.nodes
    BY <1>1, <1>4, <1>5, <1>7 DEF Refused, Wanted
  <2>2. Extent = graph.nodes
    BY <2>1, <1>3, AroundBounds DEF Extent
  <2>3. OutputInv'
    BY <2>1, <2>2, <1>1, <1>2, <1>6, <1>7 DEF OutputInv
  <2> QED
    BY <2>3, <1>1 DEF ExtractInv, Extracts
<1>8. CASE ~NoSelector(set)
  <2>1. Matched = {} /\ exit' = 1
    BY <1>1, <1>8, SeedsAreMatched
  <2>2. Refused
    BY <2>1, <1>5, <1>8 DEF Refused
  <2>3. OutputInv'
    BY <2>1, <2>2, <1>1, <1>2, <1>6 DEF OutputInv
  <2> QED
    BY <2>3, <1>1 DEF ExtractInv, Extracts
<1> QED
  BY <1>7, <1>8

LEMMA EndSearchExtract == SearchesInv /\ ExtractInv /\ EndSearch => ExtractInv'
<1> SUFFICES ASSUME SearchesInv, ExtractInv, EndSearch, Extracts PROVE ExtractInv'
  <2>1. ASSUME EndSearch, ~Extracts PROVE ~Extracts'
    BY <2>1 DEF EndSearch, Keep, Extracts
  <2> QED
    BY <2>1 DEF ExtractInv
<1>1. /\ status = "searching" /\ phase \in {"done", "not_found"} /\ status' = "ended"
      /\ UNCHANGED <<file, command, graph>>
      /\ phase # "not_found" /\ command.op = "select" =>
           exit' = 0 /\ output' = Assemble(file, graph.arcs, visited)
  BY DEF EndSearch, End, Keep, KeepSearch
<1>2. /\ command.op = "select" /\ ~Refused /\ phase = "done"
      /\ query = SearchQuery(Wanted, "both", NoneGiven, command.expand, NoneGiven)
      /\ graph = BuildGraph(file) /\ graph.error = None
  BY <1>1 DEF ExtractInv, Active
<1>3. Wanted \in SUBSET graph.nodes
  BY <1>2, WantedAreNodes
<1>4. visited = Extent
  BY <1>2, <1>3, SearchSees DEF Extent
<1>5. Refused' = Refused /\ Extent' = Extent
  BY <1>1, WantedKept
<1>6. OutputInv'
  BY <1>1, <1>2, <1>4, <1>5 DEF OutputInv
<1> QED
  BY <1>1, <1>2, <1>6 DEF ExtractInv, Extracts

LEMMA CollectSeedsExtract == SearchesInv /\ ExtractInv /\ CollectSeeds => ExtractInv'
<1> SUFFICES ASSUME SearchesInv, ExtractInv, CollectSeeds PROVE ExtractInv'
  OBVIOUS
<1> DEFINE selected == IF command.flags = NoFlags THEN {} ELSE Matched
           ids == ToSet(command.ids)
<1>1. status = "built" /\ command.op = "subgraph" /\ UNCHANGED <<file, command, graph>>
  BY DEF CollectSeeds, Keep, KeepSearch
<1>2. graph = BuildGraph(file) /\ graph.error = None /\ todo = {} /\ found = {}
  BY <1>1 DEF ExtractInv, Extracts
<1>3. \/ status' = "ended" /\ exit' = 2
      \/ /\ (command.flags # NoFlags /\ selected = {}) \/ ~(ids \subseteq graph.nodes)
         /\ status' = "ended" /\ exit' = 1
      \/ /\ ~((command.flags # NoFlags /\ selected = {}) \/ ~(ids \subseteq graph.nodes))
         /\ status' = "expanding"
         /\ IF command.expand = 0 THEN found' = selected \cup ids /\ UNCHANGED todo
            ELSE todo' = selected \cup ids /\ UNCHANGED found
  BY SeedsAreMatched DEF CollectSeeds, End
<1>4. Refused <=> (command.flags # NoFlags /\ selected = {}) \/ ~(ids \subseteq graph.nodes)
  BY DEF Refused
<1>5. Wanted = selected \cup ids
  BY <1>1 DEF Wanted
<1> HIDE DEF selected, ids
<1>6. Wanted' = Wanted /\ Refused' = Refused /\ Extracts
  BY <1>1, WantedKept DEF Extracts
<1>7. CASE status' = "ended" /\ exit' = 2
  BY <1>7 DEF ExtractInv
<1>8. CASE Refused /\ status' = "ended" /\ exit' = 1
  <2>1. OutputInv'
    BY <1>1, <1>2, <1>6, <1>8 DEF OutputInv
  <2> QED
    BY <2>1, <1>1, <1>8 DEF ExtractInv, Extracts
<1>9. CASE /\ ~Refused /\ status' = "expanding"
           /\ IF command.expand = 0 THEN found' = Wanted /\ todo' = {}
              ELSE todo' = Wanted /\ found' = {}
  <2>1. Wanted \in SUBSET graph.nodes
    BY <1>2, <1>9, WantedAreNodes
  <2>2. Around(Wanted, 0, graph) = Wanted
    BY <2>1, AroundSteps
  <2>3. command.expand \in Nat
    BY <1>1 DEF SearchesInv, IsInvocation
  <2>4. Around({}, command.expand, graph) = {}
    BY <2>3, AroundBounds
  <2>5. Wanted \ {} = Wanted /\ Wanted \ Wanted = {}
    OBVIOUS
  <2>6. found' = Around(Wanted \ todo', command.expand, graph) /\ todo' \subseteq Wanted
    BY <2>2, <2>4, <2>5, <1>9
  <2>7. Extracts' /\ command'.op = "subgraph" /\ graph' = BuildGraph(file') /\ graph'.error = None
    BY <1>1, <1>2 DEF Extracts
  <2>8. found' = Around(Wanted' \ todo', command'.expand, graph') /\ todo' \subseteq Wanted'
    BY <2>6, <1>1, <1>6
  <2> QED
    BY <2>7, <2>8, <1>6, <1>9 DEF ExtractInv
<1> QED
  BY <1>2, <1>3, <1>4, <1>5, <1>7, <1>8, <1>9

LEMMA StartEgoExtract == SearchesInv /\ ExtractInv /\ StartEgo => ExtractInv'
<1> SUFFICES ASSUME SearchesInv, ExtractInv, StartEgo PROVE ExtractInv'
  OBVIOUS
<1>1. status = "expanding" /\ status' = "ego" /\ UNCHANGED <<file, command, found>>
  BY DEF StartEgo, Keep
<1>2. PICK id \in todo : BeginSearch(EgoQuery(id)) /\ todo' = todo \ {id}
  BY DEF StartEgo, EgoQuery
<1>3. graph' = graph /\ query' = EgoQuery(id) /\ phase' = "searching"
  BY <1>2 DEF BeginSearch, Prepare, Start
<1>4. Extracts
  BY <1>1 DEF SearchesInv, Extracts
<1>5. /\ command.op = "subgraph" /\ ~Refused /\ todo \subseteq Wanted
      /\ found = Around(Wanted \ todo, command.expand, graph)
      /\ graph = BuildGraph(file) /\ graph.error = None
  BY <1>1, <1>4 DEF ExtractInv
<1>6. id \in Wanted \ todo' /\ Wanted \ (todo' \cup {id}) = Wanted \ todo /\ todo' \subseteq Wanted
  BY <1>2, <1>5
<1>7. /\ Wanted' = Wanted /\ ~Refused' /\ Extracts'
      /\ \A i : EgoQuery(i)' = EgoQuery(i)
  BY <1>1, <1>3, <1>4, <1>5, WantedKept
<1>8. \E i \in Wanted' \ todo' :
        /\ query' = EgoQuery(i)'
        /\ found' = Around(Wanted' \ (todo' \cup {i}), command'.expand, graph')
  <2>1. found' = Around(Wanted' \ (todo' \cup {id}), command'.expand, graph')
    BY <1>1, <1>3, <1>5, <1>6, <1>7
  <2> QED
    BY <2>1, <1>3, <1>6, <1>7
<1>9. Active'
  BY <1>3 DEF Active
<1> QED
  BY <1>1, <1>3, <1>5, <1>6, <1>7, <1>8, <1>9 DEF ExtractInv

LEMMA EndEgoExtract == SearchesInv /\ ExtractInv /\ EndEgo => ExtractInv'
<1> SUFFICES ASSUME SearchesInv, ExtractInv, EndEgo PROVE ExtractInv'
  OBVIOUS
<1> DEFINE ego == Assemble(file, graph.arcs, visited)
<1>1. /\ status = "ego" /\ phase = "done" /\ status' = "expanding"
      /\ found' = found \cup {ego.nodes[k].id : k \in DOMAIN ego.nodes}
      /\ UNCHANGED <<file, command, graph, todo>>
  BY DEF EndEgo, Keep, KeepSearch
<1>2. Extracts
  BY <1>1 DEF SearchesInv, Extracts
<1>3. /\ command.op = "subgraph" /\ ~Refused /\ todo \subseteq Wanted
      /\ graph = BuildGraph(file) /\ graph.error = None
  BY <1>1, <1>2 DEF ExtractInv
<1>4. PICK id \in Wanted \ todo :
        /\ query = EgoQuery(id)
        /\ found = Around(Wanted \ (todo \cup {id}), command.expand, graph)
  BY <1>1, <1>2 DEF ExtractInv
<1>5. Wanted \subseteq graph.nodes /\ command.expand \in Nat
  BY <1>2, <1>3, WantedAreNodes DEF SearchesInv, IsInvocation, Extracts
<1>6. {id} \in SUBSET graph.nodes /\ Wanted \ (todo \cup {id}) \in SUBSET graph.nodes
      /\ Wanted \ todo = (Wanted \ (todo \cup {id})) \cup {id}
  BY <1>4, <1>5
<1>7. visited = Around({id}, command.expand, graph)
  BY <1>1, <1>2, <1>4, <1>6, SearchSees DEF EgoQuery
<1>8. {ego.nodes[k].id : k \in DOMAIN ego.nodes} = visited
  <2>1. visited \subseteq graph.nodes
    BY DEF SearchesInv, IInv, GraphInv
  <2>2. IsPart(ego, file, visited)
    BY <1>3, AssembleTakes DEF SearchesInv
  <2> HIDE DEF ego
  <2>3. Takes(ego, file, visited)
    BY <2>2, PartTakes DEF SearchesInv, IsInvocation
  <2>4. graph.nodes = {file.nodes[k].id : k \in DOMAIN file.nodes}
    BY <1>3, ErrorsAssumption DEF BuildGraph
  <2>5. ASSUME NEW n \in visited PROVE \E k \in DOMAIN ego.nodes : ego.nodes[k].id = n
    <3>1. PICK k \in DOMAIN file.nodes : file.nodes[k].id = n
      BY <2>1, <2>4
    <3>2. k \in NodePlaces(file, visited)
      BY <3>1 DEF NodePlaces
    <3> QED
      BY <3>1, <3>2, <2>3 DEF Takes, TakenFrom
  <2>6. ASSUME NEW k \in DOMAIN ego.nodes PROVE ego.nodes[k].id \in visited
    BY <2>3 DEF Takes, TakenFrom, NodePlaces
  <2> QED
    BY <2>5, <2>6
<1> HIDE DEF ego
<1>9. found' = Around(Wanted \ todo, command.expand, graph)
  BY <1>1, <1>4, <1>5, <1>6, <1>7, <1>8, AroundUnion
<1>10. Wanted' = Wanted /\ ~Refused'
  BY <1>1, <1>3, WantedKept
<1>11. found' = Around(Wanted' \ todo', command'.expand, graph') /\ todo' \subseteq Wanted'
  BY <1>1, <1>3, <1>9, <1>10
<1> QED
  BY <1>1, <1>3, <1>10, <1>11 DEF ExtractInv

LEMMA SubgraphExtract == SearchesInv /\ ExtractInv /\ Subgraph => ExtractInv'
<1> SUFFICES ASSUME SearchesInv, ExtractInv, Subgraph PROVE ExtractInv'
  OBVIOUS
<1>1. /\ status = "expanding" /\ todo = {} /\ status' = "ended" /\ exit' = 0
      /\ output' = [Assemble(file, graph.arcs, found) EXCEPT !.date = 0]
      /\ UNCHANGED <<file, command, graph>>
  BY DEF Subgraph, End, Keep, KeepSearch
<1>2. Extracts
  BY <1>1 DEF SearchesInv, Extracts
<1>3. /\ ~Refused /\ graph = BuildGraph(file) /\ graph.error = None
      /\ found = Around(Wanted \ todo, command.expand, graph)
  BY <1>1, <1>2 DEF ExtractInv
<1>4. Wanted \ todo = Wanted
  BY <1>1
<1>5. found = Extent
  BY <1>3, <1>4 DEF Extent
<1>6. Refused' = Refused /\ Extent' = Extent
  BY <1>1, WantedKept
<1>7. OutputInv'
  BY <1>1, <1>3, <1>5, <1>6 DEF OutputInv
<1> QED
  BY <1>1, <1>7 DEF ExtractInv

\* A step that leaves alone what an extraction goes by.
LEMMA ExtractRests ==
  ASSUME ExtractInv, UNCHANGED <<file, command, graph, status, todo, found, output, exit, query>>,
         Active => Active'
  PROVE  ExtractInv'
<1>1. /\ Wanted' = Wanted /\ Refused' = Refused /\ Extent' = Extent /\ Extracts' = Extracts
      /\ \A id : EgoQuery(id)' = EgoQuery(id)
  BY WantedKept
<1>2. OutputInv' = OutputInv
  BY <1>1 DEF OutputInv
<1>3. ASSUME Extracts, status = "ego"
      PROVE  \E id \in Wanted' \ todo' :
               /\ query' = EgoQuery(id)' /\ Active'
               /\ found' = Around(Wanted' \ (todo' \cup {id}), command'.expand, graph')
  <2>1. PICK id \in Wanted \ todo :
          /\ query = EgoQuery(id) /\ Active
          /\ found = Around(Wanted \ (todo \cup {id}), command.expand, graph)
    BY <1>3 DEF ExtractInv
  <2> QED
    BY <2>1, <1>1
<1>4. ASSUME Extracts, status = "searching"
      PROVE  /\ command'.op = "select" /\ ~Refused' /\ Active'
             /\ query' = SearchQuery(Wanted', "both", NoneGiven, command'.expand, NoneGiven)
  BY <1>1, <1>4 DEF ExtractInv
<1>5. ASSUME Extracts, status \in {"expanding", "ego"}
      PROVE  command'.op = "subgraph" /\ ~Refused' /\ todo' \subseteq Wanted'
  BY <1>1, <1>5 DEF ExtractInv
<1>6. ASSUME Extracts, status = "expanding"
      PROVE  found' = Around(Wanted' \ todo', command'.expand, graph')
  BY <1>1, <1>6 DEF ExtractInv
<1> QED
  BY <1>1, <1>2, <1>3, <1>4, <1>5, <1>6 DEF ExtractInv

LEMMA OthersExtract ==
  ASSUME SearchesInv, ExtractInv,
         \/ NoSeedsGiven \/ StartPaths \/ UnknownEnd \/ DfsEnter \/ DfsSkip \/ DfsReturn \/ Path
         \/ Query \/ StartValidate \/ Validate
         \/ SearchStep /\ UNCHANGED <<commandVars, cycleVars>>
         \/ (StartCounting \/ CycleStep) /\ UNCHANGED <<commandVars, searchVars>>
         \/ UNCHANGED vars
  PROVE  ExtractInv'
<1>1. CASE StartPaths \/ UnknownEnd \/ Query \/ StartValidate
  <2>1. command.op \in {"path", "query", "validate"} /\ command' = command
    BY <1>1 DEF StartPaths, UnknownEnd, Query, StartValidate, Keep
  <2> QED
    BY <2>1 DEF ExtractInv, Extracts
<1>2. CASE Path \/ Validate
  <2>1. status \in {"walking", "validating"} /\ command' = command
    BY <1>2 DEF Path, Validate, Keep
  <2> QED
    BY <2>1 DEF ExtractInv, Extracts
<1>3. CASE NoSeedsGiven
  <2>1. status' = "ended" /\ exit' = 2
    BY <1>3 DEF NoSeedsGiven, End
  <2> QED
    BY <2>1 DEF ExtractInv
<1>4. CASE DfsEnter \/ DfsSkip \/ DfsReturn
  <2>1. UNCHANGED <<file, command, graph, status, todo, found, output, exit, query, phase>>
    BY <1>4 DEF DfsEnter, DfsSkip, DfsReturn, Keep, KeepSearch
  <2> QED
    BY <2>1, ExtractRests DEF Active
<1>5. CASE SearchStep /\ UNCHANGED <<commandVars, cycleVars>>
  <2>1. UNCHANGED <<file, command, graph, status, todo, found, output, exit, query>>
    BY <1>5 DEF SearchStep, Pop, SeeKnown, SeeNew, Exhausted, Trace, commandVars
  <2>2. Active => Active'
    BY <1>5 DEF SearchStep, Pop, SeeKnown, SeeNew, Exhausted, Trace, Active
  <2> QED
    BY <2>1, <2>2, ExtractRests
<1>6. CASE ((StartCounting \/ CycleStep) /\ UNCHANGED <<commandVars, searchVars>>) \/ UNCHANGED vars
  <2>1. UNCHANGED <<file, command, graph, status, todo, found, output, exit, query, phase>>
    BY <1>6 DEF vars, commandVars, searchVars
  <2> QED
    BY <2>1, ExtractRests DEF Active
<1> QED
  BY <1>1, <1>2, <1>3, <1>4, <1>5, <1>6

(* An extraction is at every stage as far as it says.                      *)
THEOREM ExtractInvHolds == Spec => []ExtractInv
<1>1. Init => ExtractInv
  BY DEF Init, ExtractInv
<1>2. SearchesInv /\ ExtractInv /\ [Next]_vars => ExtractInv'
  BY BuildExtract, StartSearchExtract, SelectWithoutSearchExtract, EndSearchExtract,
     CollectSeedsExtract, StartEgoExtract, EndEgoExtract, SubgraphExtract, OthersExtract DEF Next
<1> QED
  BY <1>1, <1>2, SearchesInvHolds, PTL DEF Spec

LEMMA OutputTakes ==
  ASSUME IsInvocation(file, command), OutputInv, exit = 0
  PROVE  IsPart(output, file, Extent) /\ Takes(output, file, Extent)
<1> DEFINE h == Assemble(file, graph.arcs, Extent)
<1>1. /\ graph = BuildGraph(file) /\ graph.error = None
      /\ output \in {h, [h EXCEPT !.date = 0]}
  BY DEF OutputInv
<1>2. IsPart(h, file, Extent) /\ IsPart([h EXCEPT !.date = 0], file, Extent)
  BY <1>1, AssembleTakes
<1> HIDE DEF h
<1>3. IsPart(output, file, Extent)
  BY <1>1, <1>2
<1>4. IsSequence(file.nodes) /\ IsSequence(file.edges)
  BY DEF IsInvocation
<1> QED
  BY <1>3, <1>4, PartTakes

(* A subgraph holds what is within --expand hops of what was asked for and *)
(* nothing else, is in the order of the file, and is valid if the file is; *)
(* and it is refused for the two known reasons only.                       *)
THEOREM ExtractionsAreExact == Spec => []SubgraphExact
<1>1. SearchesInv /\ ExtractInv => SubgraphExact
  <2> SUFFICES ASSUME SearchesInv, ExtractInv, Extracted PROVE SubgraphExact
    BY DEF SubgraphExact
  <2>1. OutputInv
    BY DEF ExtractInv, Extracted, Extracts
  <2>2. ASSUME exit = 0
        PROVE  IsPart(output, file, Extent) /\ (L1Valid(file) => L1Valid(output))
    <3>1. IsPart(output, file, Extent) /\ IsSequence(file.nodes) /\ IsSequence(file.edges)
      BY <2>1, <2>2, OutputTakes DEF SearchesInv, IsInvocation
    <3> QED
      BY <3>1, PartValid
  <2> QED
    BY <2>1, <2>2 DEF SubgraphExact, OutputInv, Refused, Extent, IsPart, NodePlaces, EdgePlaces
<1> QED
  BY <1>1, SearchesInvHolds, ExtractInvHolds, PTL

-----------------------------------------------------------------------------
(* Advice on a part.                                                       *)

AllNodes(f) == {f.nodes[k] : k \in DOMAIN f.nodes}
AllEdges(f) == {f.edges[k] : k \in DOMAIN f.edges}
NodeIds(f) == {n.id : n \in AllNodes(f)}
EdgeIds(f) == {e.id : e \in AllEdges(f)}

PlaceKept(place, h) == IF place[1] = "edge" THEN place[2] \in EdgeIds(h) ELSE place[2] \in NodeIds(h)
WarningsKept(warnings, h) == {w \in warnings : PlaceKept(w[2], h)}

\* What a part has of a file with distinct edge ids, as sets.
Cut(h, f) ==
  /\ \A n : n \in AllNodes(h) <=> n \in AllNodes(f) /\ n.id \in NodeIds(h)
  /\ \A e : e \in AllEdges(h) <=> e \in AllEdges(f) /\ e.id \in EdgeIds(h)

LEMMA PartCuts ==
  ASSUME NEW f, NEW kept, NEW h, Takes(h, f, kept), EdgeIdsUnique(f)
  PROVE  Cut(h, f)
<1>1. \A n : n \in AllNodes(h) <=> n \in AllNodes(f) /\ n.id \in kept
  BY DEF Takes, TakenFrom, NodePlaces, AllNodes
<1>2. \A e : e \in AllEdges(h) <=> e \in AllEdges(f) /\ {e.source, e.target} \subseteq kept
  BY DEF Takes, TakenFrom, EdgePlaces, AllEdges
<1>3. \A d, e \in AllEdges(f) : d.id = e.id => d = e
  BY DEF AllEdges, EdgeIdsUnique
<1>4. \A n : n \in AllNodes(h) <=> n \in AllNodes(f) /\ n.id \in NodeIds(h)
  BY <1>1 DEF NodeIds
<1>5. \A e : e \in AllEdges(h) <=> e \in AllEdges(f) /\ e.id \in EdgeIds(h)
  BY <1>2, <1>3 DEF EdgeIds
<1> QED
  BY <1>4, <1>5 DEF Cut

LEMMA NodesOfAre == \A f, types : NodesOf(f, types) = {n \in AllNodes(f) : n.type \in types}
BY DEF NodesOf, AllNodes

LEMMA EdgesOfAre == \A f, types : EdgesOf(f, types) = {e \in AllEdges(f) : e.type \in types}
BY DEF EdgesOf, AllEdges

LEMMA NodeReports ==
  ASSUME NEW h, NEW r, NEW A, NEW B, \A n : n \in A <=> n \in B /\ n.id \in NodeIds(h)
  PROVE  Report(r, OnNodes(A)) = WarningsKept(Report(r, OnNodes(B)), h)
<1>1. \A n : PlaceKept(<<r, <<"node", n.id>>>>[2], h) <=> n.id \in NodeIds(h)
  BY DEF PlaceKept
<1>2. ASSUME NEW n \in A PROVE <<r, <<"node", n.id>>>> \in WarningsKept(Report(r, OnNodes(B)), h)
  BY <1>1 DEF Report, OnNodes, WarningsKept
<1>3. ASSUME NEW n \in B, PlaceKept(<<r, <<"node", n.id>>>>[2], h)
      PROVE  <<r, <<"node", n.id>>>> \in Report(r, OnNodes(A))
  BY <1>1, <1>3 DEF Report, OnNodes
<1>4. \A S, w : w \in Report(r, OnNodes(S)) <=> \E n \in S : w = <<r, <<"node", n.id>>>>
  BY DEF Report, OnNodes
<1>5. \A w : w \in Report(r, OnNodes(A)) <=> w \in WarningsKept(Report(r, OnNodes(B)), h)
  BY <1>2, <1>3, <1>4 DEF WarningsKept
<1> QED
  BY <1>5

LEMMA EdgeReports ==
  ASSUME NEW h, NEW r, NEW A, NEW B, \A e : e \in A <=> e \in B /\ e.id \in EdgeIds(h)
  PROVE  Report(r, OnEdges(A)) = WarningsKept(Report(r, OnEdges(B)), h)
<1>1. \A e : PlaceKept(<<r, <<"edge", e.id>>>>[2], h) <=> e.id \in EdgeIds(h)
  BY DEF PlaceKept
<1>2. ASSUME NEW e \in A PROVE <<r, <<"edge", e.id>>>> \in WarningsKept(Report(r, OnEdges(B)), h)
  BY <1>1 DEF Report, OnEdges, WarningsKept
<1>3. ASSUME NEW e \in B, PlaceKept(<<r, <<"edge", e.id>>>>[2], h)
      PROVE  <<r, <<"edge", e.id>>>> \in Report(r, OnEdges(A))
  BY <1>1, <1>3 DEF Report, OnEdges
<1>4. \A S, w : w \in Report(r, OnEdges(S)) <=> \E e \in S : w = <<r, <<"edge", e.id>>>>
  BY DEF Report, OnEdges
<1>5. \A w : w \in Report(r, OnEdges(A)) <=> w \in WarningsKept(Report(r, OnEdges(B)), h)
  BY <1>2, <1>3, <1>4 DEF WarningsKept
<1> QED
  BY <1>5

\* The rules that look at one node or edge at a time.
LEMMA SingleAdvice ==
  ASSUME NEW f, NEW h, Cut(h, f)
  PROVE  /\ L2Gdm02(h) = WarningsKept(L2Gdm02(f), h)
         /\ L2Gdm03(h) = WarningsKept(L2Gdm03(f), h)
         /\ L2Eid01(h) = WarningsKept(L2Eid01(f), h)
         /\ L2Eid04(h) = WarningsKept(L2Eid04(f), h)
<1>1. L2Gdm02(h) = WarningsKept(L2Gdm02(f), h)
  <2> DEFINE S(g) == {e \in EdgesOf(g, {"ownership"}) : "valid_from" \notin DOMAIN e.props}
  <2>1. \A e : e \in S(h) <=> e \in S(f) /\ e.id \in EdgeIds(h)
    BY EdgesOfAre DEF Cut
  <2>2. \A g : L2Gdm02(g) = Report("L2-GDM-02", OnEdges(S(g)))
    BY DEF L2Gdm02
  <2> HIDE DEF S
  <2> QED
    BY <2>1, <2>2, EdgeReports
<1>2. L2Gdm03(h) = WarningsKept(L2Gdm03(f), h)
  <2> DEFINE S(g) == {n \in NodesOf(g, {"organization", "facility"}) : ~n.data_quality}
             T(g) == {e \in EdgesOf(g, {"supplies", "subcontracts", "tolls"}) :
                        "data_quality" \notin DOMAIN e.props}
  <2>1. \A n : n \in S(h) <=> n \in S(f) /\ n.id \in NodeIds(h)
    BY NodesOfAre DEF Cut
  <2>2. \A e : e \in T(h) <=> e \in T(f) /\ e.id \in EdgeIds(h)
    BY EdgesOfAre DEF Cut
  <2>3. \A A, B, r : Report(r, A \cup B) = Report(r, A) \cup Report(r, B)
    BY DEF Report
  <2>4. \A g : L2Gdm03(g) = Report("L2-GDM-03", OnNodes(S(g)) \cup OnEdges(T(g)))
    BY DEF L2Gdm03
  <2> HIDE DEF S, T
  <2>5. /\ Report("L2-GDM-03", OnNodes(S(h))) = WarningsKept(Report("L2-GDM-03", OnNodes(S(f))), h)
        /\ Report("L2-GDM-03", OnEdges(T(h))) = WarningsKept(Report("L2-GDM-03", OnEdges(T(f))), h)
    BY <2>1, <2>2, NodeReports, EdgeReports
  <2>6. \A A, B : WarningsKept(A \cup B, h) = WarningsKept(A, h) \cup WarningsKept(B, h)
    BY DEF WarningsKept
  <2>7. /\ L2Gdm03(h) = Report("L2-GDM-03", OnNodes(S(h))) \cup Report("L2-GDM-03", OnEdges(T(h)))
        /\ L2Gdm03(f) = Report("L2-GDM-03", OnNodes(S(f))) \cup Report("L2-GDM-03", OnEdges(T(f)))
    <3>1. \A g : Report("L2-GDM-03", OnNodes(S(g)) \cup OnEdges(T(g)))
                   = Report("L2-GDM-03", OnNodes(S(g))) \cup Report("L2-GDM-03", OnEdges(T(g)))
      BY <2>3
    <3> QED
      BY <2>4, <3>1
  <2> QED
    BY <2>5, <2>6, <2>7
<1>3. L2Eid01(h) = WarningsKept(L2Eid01(f), h)
  <2> DEFINE S(g) == {n \in NodesOf(g, {"organization"}) :
                        \A i \in DOMAIN n.ids : n.ids[i].scheme = "internal"}
  <2>1. \A n : n \in S(h) <=> n \in S(f) /\ n.id \in NodeIds(h)
    BY NodesOfAre DEF Cut
  <2>2. \A g : L2Eid01(g) = Report("L2-EID-01", OnNodes(S(g)))
    BY DEF L2Eid01
  <2> HIDE DEF S
  <2> QED
    BY <2>1, <2>2, NodeReports
<1>4. L2Eid04(h) = WarningsKept(L2Eid04(f), h)
  <2> DEFINE Bad(n, i) == i \in DOMAIN n.ids /\ LET id == n.ids[i] IN
               id.scheme = "vat" /\ id.auth # None /\ id.auth \notin IsoAuthorities
             place(n, i) == <<"L2-EID-04", <<"id", n.id, i>>>>
  <2>1. \A g, w : w \in L2Eid04(g) <=> \E n \in AllNodes(g) : \E i : Bad(n, i) /\ w = place(n, i)
    BY DEF L2Eid04, Report, AllNodes
  <2>2. \A n, i : PlaceKept(place(n, i)[2], h) <=> n.id \in NodeIds(h)
    BY DEF PlaceKept
  <2> HIDE DEF Bad, place
  <2>3. \A w : w \in L2Eid04(h) <=> w \in L2Eid04(f) /\ PlaceKept(w[2], h)
    BY <2>1, <2>2 DEF Cut
  <2> QED
    BY <2>3 DEF WarningsKept
<1> QED
  BY <1>1, <1>2, <1>3, <1>4

LEMMA TierAdvice ==
  ASSUME NEW f, NEW h, Cut(h, f), f.reporting = None => h.reporting = None
  PROVE  L2Gdm04(h) = WarningsKept(L2Gdm04(f), h)
                      \cup Report("L2-GDM-04",
                             IF h.reporting # None THEN {}
                             ELSE OnEdges({e \in EdgesOf(h, {"supplies"}) : "tier" \in DOMAIN e.props}))
<1> DEFINE S(g) == {e \in EdgesOf(g, {"supplies"}) : g.reporting = None /\ "tier" \in DOMAIN e.props}
           T(g) == {e \in EdgesOf(g, {"supplies"}) : "tier" \in DOMAIN e.props}
<1>1. \A g : L2Gdm04(g) = Report("L2-GDM-04", OnEdges(S(g)))
  BY DEF L2Gdm04
<1>2. \A g : S(g) = IF g.reporting = None THEN T(g) ELSE {}
  OBVIOUS
<1>3. \A e : e \in T(h) <=> e \in T(f) /\ e.id \in EdgeIds(h)
  BY EdgesOfAre DEF Cut
<1> HIDE DEF S, T
<1>4. Report("L2-GDM-04", OnEdges({})) = {} /\ Report("L2-GDM-04", {}) = {}
      /\ WarningsKept({}, h) = {}
  BY DEF Report, OnEdges, WarningsKept
<1>5. Report("L2-GDM-04", OnEdges(T(h))) = WarningsKept(Report("L2-GDM-04", OnEdges(T(f))), h)
  BY <1>3, EdgeReports
<1>6. L2Gdm04(h) = WarningsKept(L2Gdm04(f), h)
                     \cup Report("L2-GDM-04", IF h.reporting # None THEN {} ELSE OnEdges(T(h)))
  <2>1. CASE f.reporting = None
    BY <2>1, <1>1, <1>2, <1>5
  <2>2. CASE f.reporting # None
    BY <2>2, <1>1, <1>2, <1>4
  <2> QED
    BY <2>1, <2>2
<1> QED
  BY <1>6 DEF T

\* The ids of the organizations; the edges that give a facility one.
OrgIds(f) == {n.id : n \in NodesOf(f, {"organization"})}
Running(f) == EdgesOf(f, {"operates", "operational_control", "tolls"})

CutOffIn(n, orgs, h) ==
  /\ n.operator \notin orgs
  /\ \A k \in DOMAIN h.edges :
       LET e == h.edges[k] IN
         e.type \in {"operates", "operational_control", "tolls"} =>
           ~({e.source, e.target} \subseteq orgs \cup {n.id} /\ n.id \in {e.source, e.target})

\* No facility stands where such an edge wants an organization.
LEMMA OrgSideIsNoFacility ==
  ASSUME NEW f, DOMAIN f.nodes \subseteq Nat, L1Valid(f), NEW e \in Running(f), NEW n \in AllNodes(f),
         n.id = OrgSide(e)
  PROVE  n.type # "facility"
<1>1. PICK k \in DOMAIN f.nodes : f.nodes[k] = n
  BY DEF AllNodes
<1>2. NodesWithId(f, n.id) = {k}
  BY <1>1 DEF L1Valid, NodeIdsUnique, NodesWithId
<1>3. NodeAt(f, n.id) = n
  BY <1>1, <1>2 DEF NodeAt
<1>4. PICK i \in DOMAIN f.edges : /\ f.edges[i] = e
                                 /\ e.type \in {"operates", "operational_control", "tolls"}
  BY DEF Running, EdgesOf
<1>5. e.type \notin ExtensionTypes \cup {"same_as"}
  BY <1>4 DEF ExtensionTypes
<1>6. EndpointTypesPermitted(f) /\ NodesWithId(f, n.id) # {}
  BY <1>2 DEF L1Valid
<1>7. CASE e.type = "tolls"
  <2>1. PermittedTargets(e.type) = {"organization"} /\ n.id = e.target
    BY <1>7 DEF PermittedTargets, OrgSide
  <2>2. NodeAt(f, e.target).type \in {"organization"} \cup ExtensionTypes \cup {"boundary_ref"}
    BY <2>1, <1>4, <1>5, <1>6 DEF EndpointTypesPermitted
  <2> QED
    BY <2>1, <2>2, <1>3 DEF ExtensionTypes
<1>8. CASE e.type \in {"operates", "operational_control"}
  <2>1. PermittedSources(e.type) = {"organization"} /\ n.id = e.source
    BY <1>8 DEF PermittedSources, OrgSide
  <2>2. NodeAt(f, e.source).type \in {"organization"} \cup ExtensionTypes \cup {"boundary_ref"}
    BY <2>1, <1>4, <1>5, <1>6 DEF EndpointTypesPermitted
  <2> QED
    BY <2>1, <2>2, <1>3 DEF ExtensionTypes
<1> QED
  BY <1>4, <1>7, <1>8

LEMMA FacilityAdvice ==
  ASSUME NEW f, DOMAIN f.nodes \subseteq Nat, L1Valid(f), NEW h, Cut(h, f)
  PROVE  L2Gdm01(h) = WarningsKept(L2Gdm01(f), h)
           \cup Report("L2-GDM-01", OnNodes({n \in NodesOf(f, {"facility"}) :
               n.id \in NodeIds(h) /\ CutOffIn(n, OrgIds(f) \cap NodeIds(h), h)}))
<1> DEFINE Fac(g) == NodesOf(g, {"facility"})
           U(g) == {n \in Fac(g) : n.id \notin FacilitiesWithOrg(g)}
           X == {n \in Fac(f) : n.id \in NodeIds(h) /\ CutOffIn(n, OrgIds(f) \cap NodeIds(h), h)}
           K == {n \in U(f) : n.id \in NodeIds(h)}
<1>1. OrgIds(h) = OrgIds(f) \cap NodeIds(h)
  <2>1. \A n : n \in NodesOf(h, {"organization"}) <=>
               n \in NodesOf(f, {"organization"}) /\ n.id \in NodeIds(h)
    BY NodesOfAre DEF Cut
  <2> QED
    BY <2>1 DEF OrgIds
<1>2. /\ \A n : n \in Fac(h) <=> n \in Fac(f) /\ n.id \in NodeIds(h)
      /\ \A e : e \in Running(h) => e \in Running(f)
  BY NodesOfAre, EdgesOfAre DEF Cut, Running
<1>3. \A g, id : id \in FacilitiesWithOrg(g) <=>
        \/ \E m \in Fac(g) : m.operator \in OrgIds(g) /\ id = m.id
        \/ \E e \in Running(g) : /\ OrgSide(e) \in OrgIds(g) /\ id = FacilitySide(e)
                                /\ \E m \in Fac(g) : m.id = FacilitySide(e)
  BY DEF FacilitiesWithOrg, OrgIds, Running
<1>4. \A m, n \in AllNodes(f) : m.id = n.id => m = n
  BY DEF L1Valid, NodeIdsUnique, AllNodes
<1>5. \A n : n \in Fac(f) <=> n \in AllNodes(f) /\ n.type = "facility"
  BY NodesOfAre
<1>6. \A e : {e.source, e.target} = {OrgSide(e), FacilitySide(e)}
  BY DEF OrgSide, FacilitySide
<1>7. \A n : CutOffIn(n, OrgIds(h), h) <=>
        /\ n.operator \notin OrgIds(h)
        /\ \A e \in Running(h) : ~(/\ {OrgSide(e), FacilitySide(e)} \subseteq OrgIds(h) \cup {n.id}
                                   /\ n.id \in {OrgSide(e), FacilitySide(e)})
  <2> SUFFICES ASSUME NEW n
               PROVE  CutOffIn(n, OrgIds(h), h) <=>
                 /\ n.operator \notin OrgIds(h)
                 /\ \A e \in Running(h) : ~(/\ {OrgSide(e), FacilitySide(e)} \subseteq OrgIds(h) \cup {n.id}
                                            /\ n.id \in {OrgSide(e), FacilitySide(e)})
    OBVIOUS
  <2>1. \A e : e \in Running(h) <=> \E k \in DOMAIN h.edges :
          e = h.edges[k] /\ e.type \in {"operates", "operational_control", "tolls"}
    BY DEF Running, EdgesOf
  <2>2. CutOffIn(n, OrgIds(h), h) <=>
          /\ n.operator \notin OrgIds(h)
          /\ \A e \in Running(h) : ~(/\ {e.source, e.target} \subseteq OrgIds(h) \cup {n.id}
                                     /\ n.id \in {e.source, e.target})
    BY <2>1 DEF CutOffIn
  <2> QED
    BY <2>2, <1>6
<1> HIDE DEF Fac
<1>8. ASSUME NEW n \in Fac(h), ~CutOffIn(n, OrgIds(h), h) PROVE n.id \in FacilitiesWithOrg(h)
  <2>1. CASE n.operator \in OrgIds(h)
    BY <2>1, <1>3
  <2>2. CASE n.operator \notin OrgIds(h)
    <3>1. PICK e \in Running(h) : /\ {OrgSide(e), FacilitySide(e)} \subseteq OrgIds(h) \cup {n.id}
                                 /\ n.id \in {OrgSide(e), FacilitySide(e)}
      BY <2>2, <1>7, <1>8
    <3>2. n.id # OrgSide(e)
      BY <1>2, <1>5, OrgSideIsNoFacility
    <3>3. OrgSide(e) \in OrgIds(h) /\ n.id = FacilitySide(e)
      BY <3>1, <3>2
    <3> QED
      BY <3>3, <1>3
  <2> QED
    BY <2>1, <2>2
<1>9. ASSUME NEW n \in Fac(h), n.id \in FacilitiesWithOrg(h) PROVE ~CutOffIn(n, OrgIds(h), h)
  <2>1. CASE \E m \in Fac(h) : m.operator \in OrgIds(h) /\ n.id = m.id
    <3>1. PICK m \in Fac(h) : m.operator \in OrgIds(h) /\ n.id = m.id
      BY <2>1
    <3>2. m = n
      BY <3>1, <1>2, <1>4, <1>5
    <3> QED
      BY <3>1, <3>2, <1>7
  <2>2. CASE \E e \in Running(h) : OrgSide(e) \in OrgIds(h) /\ n.id = FacilitySide(e)
    BY <2>2, <1>7
  <2> QED
    BY <2>1, <2>2, <1>3, <1>9
<1>10. ASSUME NEW n \in Fac(h), n.id \notin FacilitiesWithOrg(f) PROVE n.id \notin FacilitiesWithOrg(h)
  BY <1>1, <1>2, <1>3, <1>10
<1>11. U(h) = X
  BY <1>1, <1>2, <1>8, <1>9
<1>12. K \subseteq X
  BY <1>2, <1>10, <1>11
<1>13. \A g : L2Gdm01(g) = Report("L2-GDM-01", OnNodes(U(g)))
  BY DEF L2Gdm01, Fac
<1>14. Report("L2-GDM-01", OnNodes(K)) = WarningsKept(Report("L2-GDM-01", OnNodes(U(f))), h)
  <2>1. \A n : n \in K <=> n \in U(f) /\ n.id \in NodeIds(h)
    OBVIOUS
  <2> HIDE DEF K, U
  <2> QED
    BY <2>1, NodeReports
<1>15. Report("L2-GDM-01", OnNodes(K)) \subseteq Report("L2-GDM-01", OnNodes(X))
  <2> HIDE DEF K, X
  <2> QED
    BY <1>12 DEF Report, OnNodes
<1>16. L2Gdm01(h) = WarningsKept(L2Gdm01(f), h) \cup Report("L2-GDM-01", OnNodes(X))
  <2> HIDE DEF K, X, U
  <2> QED
    BY <1>11, <1>13, <1>14, <1>15
<1> QED
  BY <1>16 DEF X, Fac

\* The advice on a part, rule by rule.
LEMMA AdviceOnPart ==
  ASSUME NEW f, DOMAIN f.nodes \subseteq Nat, L1Valid(f), NEW h, Cut(h, f),
         f.reporting = None => h.reporting = None
  PROVE  Warnings(h) = WarningsKept(Warnings(f), h)
           \cup Report("L2-GDM-01", OnNodes({n \in NodesOf(f, {"facility"}) :
               n.id \in NodeIds(h) /\ CutOffIn(n, OrgIds(f) \cap NodeIds(h), h)}))
           \cup Report("L2-GDM-04",
                  IF h.reporting # None THEN {}
                  ELSE OnEdges({e \in EdgesOf(h, {"supplies"}) : "tier" \in DOMAIN e.props}))
<1> DEFINE lost == Report("L2-GDM-01", OnNodes({n \in NodesOf(f, {"facility"}) :
                     n.id \in NodeIds(h) /\ CutOffIn(n, OrgIds(f) \cap NodeIds(h), h)}))
           tiers == Report("L2-GDM-04",
                      IF h.reporting # None THEN {}
                      ELSE OnEdges({e \in EdgesOf(h, {"supplies"}) : "tier" \in DOMAIN e.props}))
<1>1. /\ L2Gdm01(h) = WarningsKept(L2Gdm01(f), h) \cup lost
      /\ L2Gdm04(h) = WarningsKept(L2Gdm04(f), h) \cup tiers
  BY TierAdvice, FacilityAdvice
<1> HIDE DEF lost, tiers
<1>2. \A w : w \in WarningsKept(Warnings(f), h) <=>
        \/ w \in WarningsKept(L2Gdm01(f), h) \/ w \in WarningsKept(L2Gdm02(f), h)
        \/ w \in WarningsKept(L2Gdm03(f), h) \/ w \in WarningsKept(L2Gdm04(f), h)
        \/ w \in WarningsKept(L2Eid01(f), h) \/ w \in WarningsKept(L2Eid04(f), h)
  BY DEF Warnings, WarningsKept
<1>3. \A w : w \in Warnings(h) <=> w \in WarningsKept(Warnings(f), h) \cup lost \cup tiers
  BY <1>1, <1>2, SingleAdvice DEF Warnings
<1>4. Warnings(h) = WarningsKept(Warnings(f), h) \cup lost \cup tiers
  BY <1>3
<1> QED
  BY <1>4 DEF lost, tiers

(* The advice on an extraction is the advice on the file, and what is      *)
(* reported anew was cut off: for every valid file.                        *)
THEOREM AdviceIsKept == Spec => []AdviceFollows
<1>1. SearchesInv /\ ExtractInv => AdviceFollows
  <2> SUFFICES ASSUME SearchesInv, ExtractInv, Extracted, exit = 0, L1Valid(file)
               PROVE  AdviceFollows
    BY DEF AdviceFollows
  <2>1. OutputInv
    BY DEF ExtractInv, Extracted, Extracts
  <2>2. Takes(output, file, Extent)
    BY <2>1, OutputTakes DEF SearchesInv
  <2>3. /\ DOMAIN file.nodes \subseteq Nat /\ Cut(output, file)
        /\ file.reporting = None => output.reporting = None
    BY <2>2, PartCuts DEF Takes, L1Valid
  <2>4. /\ NodeIds(output) = {output.nodes[k].id : k \in DOMAIN output.nodes}
        /\ EdgeIds(output) = {output.edges[k].id : k \in DOMAIN output.edges}
    BY DEF NodeIds, EdgeIds, AllNodes, AllEdges
  <2>5. Warnings(output) = WarningsKept(Warnings(file), output)
           \cup Report("L2-GDM-01", OnNodes({n \in NodesOf(file, {"facility"}) :
               n.id \in NodeIds(output) /\ CutOffIn(n, OrgIds(file) \cap NodeIds(output), output)}))
           \cup Report("L2-GDM-04",
                  IF output.reporting # None THEN {}
                  ELSE OnEdges({e \in EdgesOf(output, {"supplies"}) : "tier" \in DOMAIN e.props}))
    BY <2>3, AdviceOnPart
  <2> QED
    BY <2>4, <2>5 DEF AdviceFollows, WarningsKept, PlaceKept, CutOffIn, OrgIds
<1> QED
  BY <1>1, SearchesInvHolds, ExtractInvHolds, PTL

-----------------------------------------------------------------------------
(* The edges that leave a node, in the order in which the search for paths *)
(* takes them.                                                             *)

OutArcs(g, n) == {arc \in g.arcs : arc.source = n}
ArcsFrom(g, n) ==
  LET order == NewestFirst({arc.index : arc \in OutArcs(g, n)})
  IN [i \in DOMAIN order |-> CHOOSE arc \in OutArcs(g, n) : arc.index = order[i]]
Ends(g, n) == [i \in 1 .. Len(ArcsFrom(g, n)) |-> ArcsFrom(g, n)[i].target]

LEMMA ArcsFromList ==
  ASSUME NEW g, IsMultigraph(g), NEW n
  PROVE  Lists(ArcsFrom(g, n), OutArcs(g, n))
<1> DEFINE arcs == OutArcs(g, n)
           S == {arc.index : arc \in arcs}
           order == NewestFirst(S)
           s == ArcsFrom(g, n)
<1>1. arcs \subseteq g.arcs /\ IsFiniteSet(arcs)
  BY FS_Subset DEF IsMultigraph, OutArcs
<1>2. \A arc \in arcs : arc.index \in Nat
  BY <1>1 DEF IsMultigraph
<1>3. \A a, b \in arcs : a.index = b.index => a = b
  BY <1>1 DEF IsMultigraph
<1> HIDE DEF arcs
<1>4. S \in SUBSET Nat /\ IsFiniteSet(S)
  <2> DEFINE index == [arc \in arcs |-> arc.index]
  <2>1. IsFiniteSet({index[arc] : arc \in arcs})
    BY <1>1, FiniteValues
  <2>2. {index[arc] : arc \in arcs} = S
    OBVIOUS
  <2> QED
    BY <1>2, <2>1, <2>2
<1>5. Lists(order, S)
  BY <1>4, NewestFirstLists
<1>6. s = [i \in DOMAIN order |-> CHOOSE arc \in arcs : arc.index = order[i]]
  BY DEF ArcsFrom, arcs
<1> HIDE DEF order, s
<1>7. ASSUME NEW i \in DOMAIN order PROVE s[i] \in arcs /\ s[i].index = order[i]
  <2>1. \E arc \in arcs : arc.index = order[i]
    BY <1>5 DEF Lists
  <2> QED
    BY <1>6, <2>1
<1>8. DOMAIN s = DOMAIN order
  BY <1>6
<1>9. DOMAIN order = 1 .. Len(order) /\ Len(order) \in Nat
  BY <1>5 DEF Lists
<1>10. Len(s) = Len(order)
  BY <1>6, <1>8, <1>9, FunctionLen
<1>11. ASSUME NEW arc \in arcs PROVE \E i \in DOMAIN s : s[i] = arc
  <2>1. PICK i \in DOMAIN order : order[i] = arc.index
    BY <1>5 DEF Lists
  <2> QED
    BY <1>3, <1>7, <1>8, <2>1
<1>12. ASSUME NEW i \in DOMAIN s, NEW j \in DOMAIN s, s[i] = s[j] PROVE i = j
  <2>1. order[i] = order[j]
    BY <1>7, <1>8, <1>12
  <2> QED
    BY <1>5, <1>8, <2>1 DEF Lists
<1>13. Lists(s, arcs)
  BY <1>7, <1>8, <1>9, <1>10, <1>11, <1>12 DEF Lists
<1> QED
  BY <1>13 DEF s, arcs

LEMMA OnwardIs ==
  ASSUME IsMultigraph(graph), NEW n
  PROVE  Onward(n) = Ends(graph, n)
<1> DEFINE arcs == OutArcs(graph, n)
           order == NewestFirst({arc.index : arc \in arcs})
           s == ArcsFrom(graph, n)
<1>1. Onward(n) = [i \in DOMAIN order |-> (CHOOSE arc \in arcs : arc.index = order[i]).target]
  BY DEF Onward, OutArcs
<1>2. s = [i \in DOMAIN order |-> CHOOSE arc \in arcs : arc.index = order[i]]
  BY DEF ArcsFrom
<1>3. Ends(graph, n) = [i \in 1 .. Len(s) |-> s[i].target]
  BY DEF Ends
<1>4. DOMAIN s = 1 .. Len(s)
  BY ArcsFromList DEF Lists
<1> HIDE DEF order, s, arcs
<1>5. \A i \in DOMAIN order : s[i].target = (CHOOSE arc \in arcs : arc.index = order[i]).target
  BY <1>2
<1>6. DOMAIN order = 1 .. Len(s)
  BY <1>2, <1>4
<1> QED
  BY <1>1, <1>3, <1>5, <1>6

LEMMA EndsAre ==
  ASSUME NEW g, IsMultigraph(g), NEW n
  PROVE  /\ Ends(g, n) \in Seq(g.nodes)
         /\ Len(Ends(g, n)) = Len(ArcsFrom(g, n))
         /\ \A i \in 1 .. Len(ArcsFrom(g, n)) : Ends(g, n)[i] = ArcsFrom(g, n)[i].target
<1> DEFINE s == ArcsFrom(g, n)
<1>1. Len(s) \in Nat /\ \A i \in 1 .. Len(s) : s[i] \in g.arcs
  BY ArcsFromList DEF Lists, OutArcs
<1>2. Ends(g, n) = [i \in 1 .. Len(s) |-> s[i].target]
  BY DEF Ends
<1> HIDE DEF s
<1>3. \A i \in 1 .. Len(s) : s[i].target \in g.nodes
  BY <1>1 DEF IsMultigraph
<1>4. Ends(g, n) \in Seq(g.nodes) /\ Len(Ends(g, n)) = Len(s)
  BY <1>1, <1>2, <1>3
<1> QED
  BY <1>2, <1>4 DEF s

-----------------------------------------------------------------------------
(* A call of the search for paths: the edge it has taken last, and those   *)
(* it takes later.                                                         *)

Past(g, c) == Len(ArcsFrom(g, c.node)) - Len(c.children)
Chosen(g, c) == ArcsFrom(g, c.node)[Past(g, c)]
Later(g, c) == {ArcsFrom(g, c.node)[p] : p \in {q \in 1 .. Len(ArcsFrom(g, c.node)) : q > Past(g, c)}}

IsCall(g, c) ==
  /\ c \in [node : g.nodes, children : Seq(g.nodes)]
  /\ Past(g, c) >= 0
  /\ \A k \in 1 .. Len(c.children) : c.children[k] = ArcsFrom(g, c.node)[Past(g, c) + k].target

LEMMA ChosenIs ==
  ASSUME NEW g, IsMultigraph(g), NEW c, IsCall(g, c), Past(g, c) > 0
  PROVE  Chosen(g, c) \in OutArcs(g, c.node) /\ Chosen(g, c) \notin Later(g, c)
<1> DEFINE s == ArcsFrom(g, c.node)
<1>1. Lists(s, OutArcs(g, c.node))
  BY ArcsFromList
<1>2. Len(s) \in Nat /\ Len(c.children) \in Nat /\ Past(g, c) = Len(s) - Len(c.children)
  BY <1>1 DEF Lists, IsCall, Past
<1> HIDE DEF s
<1>3. Past(g, c) \in 1 .. Len(s)
  BY <1>2
<1>4. Chosen(g, c) = s[Past(g, c)] /\ Later(g, c) = {s[p] : p \in {q \in 1 .. Len(s) : q > Past(g, c)}}
  BY DEF Chosen, Later, s
<1>5. s[Past(g, c)] \in OutArcs(g, c.node)
  BY <1>1, <1>3 DEF Lists
<1>6. \A p \in 1 .. Len(s) : p > Past(g, c) => s[p] # s[Past(g, c)]
  BY <1>1, <1>2, <1>3 DEF Lists
<1> QED
  BY <1>4, <1>5, <1>6

\* A fresh call has all edges before it; one without children has none.
LEMMA FreshCall ==
  ASSUME NEW g, IsMultigraph(g), NEW n \in g.nodes
  PROVE  /\ IsCall(g, Call(n, Ends(g, n))) /\ Later(g, Call(n, Ends(g, n))) = OutArcs(g, n)
         /\ IsCall(g, Call(n, <<>>)) /\ Later(g, Call(n, <<>>)) = {}
<1> DEFINE s == ArcsFrom(g, n)
           c == Call(n, Ends(g, n))
           d == Call(n, <<>>)
<1>1. Lists(s, OutArcs(g, n)) /\ Len(s) \in Nat
  BY ArcsFromList DEF Lists
<1>2. /\ Ends(g, n) \in Seq(g.nodes) /\ Len(Ends(g, n)) = Len(s)
      /\ \A i \in 1 .. Len(s) : Ends(g, n)[i] = s[i].target
  BY EndsAre
<1>3. c.node = n /\ c.children = Ends(g, n) /\ d.node = n /\ d.children = <<>>
      /\ c \in [node : g.nodes, children : Seq(g.nodes)]
      /\ d \in [node : g.nodes, children : Seq(g.nodes)]
  BY <1>2 DEF Call
<1> HIDE DEF c, d
<1>4. Past(g, c) = Len(s) - Len(s) /\ Past(g, d) = Len(s) - Len(<<>>)
  BY <1>2, <1>3 DEF Past
<1>5. Past(g, c) = 0 /\ Past(g, d) = Len(s)
  BY <1>1, <1>4
<1>6. /\ Later(g, c) = {s[p] : p \in {q \in 1 .. Len(s) : q > Past(g, c)}}
      /\ Later(g, d) = {s[p] : p \in {q \in 1 .. Len(s) : q > Past(g, d)}}
  BY <1>3 DEF Later
<1>7. IsCall(g, d) /\ Later(g, d) = {}
  <2>1. Past(g, d) >= 0
    BY <1>1, <1>5
  <2>2. \A k \in 1 .. Len(d.children) : FALSE
    BY <1>3
  <2>3. \A q \in 1 .. Len(s) : ~(q > Past(g, d))
    BY <1>1, <1>5
  <2> HIDE DEF s
  <2> QED
    BY <1>3, <1>6, <2>1, <2>2, <2>3 DEF IsCall
<1>8. IsCall(g, c)
  <2>1. \A k \in 1 .. Len(s) : Past(g, c) + k = k
    BY <1>5
  <2>2. \A k \in 1 .. Len(c.children) : c.children[k] = ArcsFrom(g, c.node)[Past(g, c) + k].target
    BY <1>2, <1>3, <2>1
  <2> QED
    BY <1>3, <1>5, <2>2 DEF IsCall
<1>9. Later(g, c) = OutArcs(g, n)
  <2>1. Later(g, c) = {s[p] : p \in 1 .. Len(s)}
    <3>1. {q \in 1 .. Len(s) : q > Past(g, c)} = 1 .. Len(s)
      BY <1>1, <1>5
    <3> QED
      BY <1>6, <3>1
  <2> HIDE DEF s
  <2> QED
    BY <1>1, <2>1 DEF Lists
<1> QED
  BY <1>7, <1>8, <1>9 DEF c, d

LEMMA NoChildren ==
  ASSUME NEW g, IsMultigraph(g), NEW c, IsCall(g, c), c.children = <<>>
  PROVE  Later(g, c) = {}
<1> DEFINE s == ArcsFrom(g, c.node)
<1>1. Len(s) \in Nat
  BY ArcsFromList DEF Lists
<1>2. Past(g, c) = Len(s)
  BY <1>1 DEF Past
<1>3. \A q \in 1 .. Len(s) : ~(q > Past(g, c))
  BY <1>1, <1>2
<1> HIDE DEF s
<1>4. Later(g, c) = {s[p] : p \in {q \in 1 .. Len(s) : q > Past(g, c)}}
  BY DEF Later, s
<1> QED
  BY <1>3, <1>4

(* Taking a child takes the edge it is at the end of.                      *)
LEMMA ChildTaken ==
  ASSUME NEW g, IsMultigraph(g), NEW c, IsCall(g, c), c.children # <<>>,
         NEW d \in [node : g.nodes, children : Seq(g.nodes)],
         d.node = c.node, d.children = Tail(c.children)
  PROVE  /\ IsCall(g, d) /\ Past(g, d) > 0
         /\ Chosen(g, d).target = Head(c.children)
         /\ Later(g, c) = Later(g, d) \cup {Chosen(g, d)}
<1> DEFINE s == ArcsFrom(g, c.node)
<1>1. Len(s) \in Nat
  BY ArcsFromList DEF Lists
<1>2. c.children \in Seq(g.nodes) /\ c.node \in g.nodes
  BY DEF IsCall
<1>3. d.node = c.node /\ d.children = Tail(c.children)
      /\ d \in [node : g.nodes, children : Seq(g.nodes)]
  OBVIOUS
<1>4. /\ Len(d.children) = Len(c.children) - 1 /\ Len(c.children) \in Nat \ {0}
      /\ \A k \in 1 .. Len(d.children) : d.children[k] = c.children[k + 1]
      /\ Head(c.children) = c.children[1]
  BY <1>2, <1>3
<1>5. Past(g, c) = Len(s) - Len(c.children) /\ Past(g, d) = Len(s) - Len(d.children)
  BY <1>3 DEF Past
<1>6. Past(g, d) = Past(g, c) + 1 /\ Past(g, c) \in Nat /\ Past(g, d) \in 1 .. Len(s)
  BY <1>1, <1>4, <1>5 DEF IsCall
<1>7. /\ Chosen(g, d) = s[Past(g, d)]
      /\ Later(g, d) = {s[p] : p \in {q \in 1 .. Len(s) : q > Past(g, d)}}
      /\ Later(g, c) = {s[p] : p \in {q \in 1 .. Len(s) : q > Past(g, c)}}
  BY <1>3 DEF Chosen, Later
<1>8. \A k \in 1 .. Len(c.children) : c.children[k] = s[Past(g, c) + k].target
  BY DEF IsCall
<1>9. Chosen(g, d).target = Head(c.children)
  <2>1. 1 \in 1 .. Len(c.children)
    BY <1>4
  <2>2. c.children[1] = s[Past(g, c) + 1].target
    BY <1>8, <2>1
  <2> QED
    BY <1>4, <1>6, <1>7, <2>2
<1>10. \A q \in 1 .. Len(s) : q > Past(g, c) <=> q = Past(g, d) \/ q > Past(g, d)
  BY <1>1, <1>6
<1>11. ASSUME NEW k \in 1 .. Len(d.children)
       PROVE  d.children[k] = ArcsFrom(g, d.node)[Past(g, d) + k].target
  <2>1. k + 1 \in 1 .. Len(c.children)
    BY <1>4
  <2>a. Past(g, c) + (k + 1) = Past(g, d) + k
    BY <1>6
  <2>2. c.children[k + 1] = s[Past(g, c) + (k + 1)].target
    BY <1>8, <2>1
  <2> QED
    BY <1>3, <1>4, <2>a, <2>2
<1>12. IsCall(g, d)
  <2>1. Past(g, d) >= 0
    BY <1>1, <1>6
  <2> QED
    BY <1>3, <2>1, <1>11 DEF IsCall
<1> HIDE DEF s
<1>13. Later(g, c) = Later(g, d) \cup {Chosen(g, d)}
  BY <1>6, <1>7, <1>10
<1> QED
  BY <1>3, <1>6, <1>9, <1>12, <1>13

-----------------------------------------------------------------------------
(* The stack of calls, and the walks the search has yet to come by: those  *)
(* that leave the trail, at some call, by an edge it takes later.          *)

Stack(g) == Seq([node : g.nodes, children : Seq(g.nodes)])

CallsRule(g, from, most, cs) ==
  /\ cs \in Stack(g)
  /\ \A i \in 1 .. Len(cs) : IsCall(g, cs[i]) /\ (cs[i].children # <<>> => i <= most)
  /\ cs # <<>> => cs[1].node = from
  /\ \A i \in 1 .. Len(cs) - 1 :
       Past(g, cs[i]) > 0 /\ Chosen(g, cs[i]).target = cs[i + 1].node
  /\ \A i, j \in 1 .. Len(cs) : cs[i].node = cs[j].node => i = j

Simple(g, from, w) ==
  /\ w \in Seq(g.arcs)
  /\ \A i \in 1 .. Len(w) :
       /\ w[i].source = IF i = 1 THEN from ELSE w[i - 1].target
       /\ w[i].target # from
       /\ \A j \in 1 .. i - 1 : w[i].target # w[j].target
StopOf(from, w) == IF w = <<>> THEN from ELSE w[Len(w)].target
Goals(g, from, to, most) ==
  {w \in Seq(g.arcs) : Simple(g, from, w) /\ Len(w) <= most /\ StopOf(from, w) = to}
VisitedBy(from, w) == <<from>> \o [i \in DOMAIN w |-> w[i].target]

Follows(g, cs, w, n) == n <= Len(w) /\ \A j \in 1 .. n : w[j] = Chosen(g, cs[j])
Waits(g, cs, w) ==
  \E i \in 1 .. Len(cs) : Follows(g, cs, w, i - 1) /\ i <= Len(w) /\ w[i] \in Later(g, cs[i])

\* The innermost call takes its next child.
TakesChild(g, cs, ds) ==
  /\ ds \in Stack(g) /\ Len(ds) = Len(cs) /\ Len(cs) \in Nat \ {0}
  /\ \A i \in 1 .. Len(cs) - 1 : ds[i] = cs[i]
  /\ ds[Len(cs)].node = cs[Len(cs)].node
  /\ cs[Len(cs)].children # <<>>
  /\ ds[Len(cs)].children = Tail(cs[Len(cs)].children)

LEMMA ElementsIn ==
  ASSUME NEW S, NEW s \in Seq(S)
  PROVE  /\ Len(s) \in Nat /\ DOMAIN s = 1 .. Len(s) /\ \A i \in 1 .. Len(s) : s[i] \in S
         /\ s # <<>> => Len(s) # 0 /\ Tail(s) \in Seq(S)
         /\ IsSequence(s) /\ s = [i \in DOMAIN s |-> s[i]]
BY DEF IsSequence

LEMMA AppendIs ==
  ASSUME NEW S, NEW s \in Seq(S), NEW e \in S
  PROVE  /\ Append(s, e) \in Seq(S) /\ Len(Append(s, e)) = Len(s) + 1
         /\ \A i \in 1 .. Len(s) : Append(s, e)[i] = s[i]
         /\ Append(s, e)[Len(s) + 1] = e
OBVIOUS

LEMMA PrefixIs ==
  ASSUME NEW S, NEW s \in Seq(S), NEW m \in Nat, m <= Len(s)
  PROVE  /\ SubSeq(s, 1, m) \in Seq(S) /\ Len(SubSeq(s, 1, m)) = m
         /\ \A i \in 1 .. m : SubSeq(s, 1, m)[i] = s[i]
<1>1. \A i \in 1 .. m : s[i] \in S
  OBVIOUS
<1>2. SubSeq(s, 1, m) = [i \in 1 .. m |-> s[i]]
  OBVIOUS
<1> QED
  BY <1>1, <1>2

LEMMA CallsOf ==
  ASSUME NEW g, NEW cs \in Stack(g)
  PROVE  /\ Len(cs) \in Nat /\ (cs # <<>> => Len(cs) \in Nat \ {0})
         /\ \A i \in 1 .. Len(cs) : cs[i] \in [node : g.nodes, children : Seq(g.nodes)]
BY ElementsIn DEF Stack

LEMMA ChildOff ==
  ASSUME NEW g, NEW cs \in Stack(g), cs # <<>>, cs[Len(cs)].children # <<>>
  PROVE  TakesChild(g, cs, [cs EXCEPT ![Len(cs)].children = Tail(@)])
<1> DEFINE C == [node : g.nodes, children : Seq(g.nodes)]
           n == Len(cs)
           c == [cs[n] EXCEPT !.children = Tail(@)]
           ds == [cs EXCEPT ![n] = c]
<1>1. cs \in Seq(C) /\ n \in Nat \ {0} /\ n \in 1 .. n
  BY CallsOf DEF Stack
<1>2. cs[n] \in C
  BY <1>1, CallsOf
<1>3. cs[n].children \in Seq(g.nodes)
  BY <1>2
<1> DEFINE later == Tail(cs[n].children)
<1>4. later \in Seq(g.nodes)
  BY <1>3, ElementsIn
<1> HIDE DEF later
<1>5. c \in C /\ c.node = cs[n].node /\ c.children = later
  BY <1>2, <1>4 DEF later
<1> HIDE DEF C, c
<1>6. ds \in Seq(C) /\ Len(ds) = n /\ ds[n] = c /\ \A i \in 1 .. n - 1 : ds[i] = cs[i]
  BY <1>1, <1>5
<1> HIDE DEF ds
<1>7. TakesChild(g, cs, ds)
  BY <1>1, <1>5, <1>6 DEF Stack, C, TakesChild, later
<1> QED
  BY <1>7 DEF ds, c

\* The search takes the next child.
LEMMA RuleAfterChild ==
  ASSUME NEW g, IsMultigraph(g), NEW from, NEW most, NEW cs, CallsRule(g, from, most, cs),
         NEW ds, TakesChild(g, cs, ds)
  PROVE  /\ CallsRule(g, from, most, ds) /\ Past(g, ds[Len(ds)]) > 0
         /\ Chosen(g, ds[Len(ds)]).target = Head(cs[Len(cs)].children)
         /\ Len(ds) <= most
<1> DEFINE n == Len(cs)
<1>1. /\ ds \in Stack(g) /\ Len(ds) = n /\ n \in Nat \ {0}
      /\ \A i \in 1 .. n - 1 : ds[i] = cs[i]
      /\ ds[n].node = cs[n].node
      /\ ds[n].children = Tail(cs[n].children) /\ cs[n].children # <<>>
  BY DEF TakesChild
<1>1a. \A i \in 1 .. n : ds[i].node = cs[i].node
  BY <1>1
<1>2. IsCall(g, cs[n]) /\ n <= most
  BY <1>1 DEF CallsRule
<1>3. ds[n] \in [node : g.nodes, children : Seq(g.nodes)]
  BY <1>1, CallsOf
<1>4. IsCall(g, ds[n]) /\ Past(g, ds[n]) > 0 /\ Chosen(g, ds[n]).target = Head(cs[n].children)
  BY <1>1, <1>2, <1>3, ChildTaken
<1>5. \A i \in 1 .. Len(ds) : IsCall(g, ds[i]) /\ (ds[i].children # <<>> => i <= most)
  BY <1>1, <1>2, <1>4 DEF CallsRule
<1>6. ds # <<>> => ds[1].node = from
  <2>1. cs[1].node = from /\ 1 \in 1 .. n
    BY <1>1 DEF CallsRule
  <2> QED
    BY <1>1, <1>1a, <2>1
<1>7. \A i \in 1 .. Len(ds) - 1 : Past(g, ds[i]) > 0 /\ Chosen(g, ds[i]).target = ds[i + 1].node
  <2> SUFFICES ASSUME NEW i \in 1 .. n - 1
               PROVE  Past(g, ds[i]) > 0 /\ Chosen(g, ds[i]).target = ds[i + 1].node
    BY <1>1
  <2>1. Past(g, cs[i]) > 0 /\ Chosen(g, cs[i]).target = cs[i + 1].node
    BY DEF CallsRule
  <2>2. ds[i] = cs[i] /\ ds[i + 1].node = cs[i + 1].node
    BY <1>1, <1>1a
  <2> QED
    BY <2>1, <2>2
<1>8. \A i, j \in 1 .. Len(ds) : ds[i].node = ds[j].node => i = j
  BY <1>1, <1>1a DEF CallsRule
<1> QED
  BY <1>1, <1>2, <1>4, <1>5, <1>6, <1>7, <1>8 DEF CallsRule

LEMMA WaitsAfterChild ==
  ASSUME NEW g, IsMultigraph(g), NEW from, NEW most, NEW cs, CallsRule(g, from, most, cs),
         NEW ds, TakesChild(g, cs, ds), NEW w
  PROVE  /\ Waits(g, cs, w) <=> Waits(g, ds, w) \/ Follows(g, ds, w, Len(ds))
         /\ ~(Waits(g, ds, w) /\ Follows(g, ds, w, Len(ds)))
<1> DEFINE n == Len(cs)
<1>1. /\ ds \in Stack(g) /\ Len(ds) = n /\ n \in Nat \ {0}
      /\ \A i \in 1 .. n - 1 : ds[i] = cs[i]
      /\ ds[n].node = cs[n].node
      /\ ds[n].children = Tail(cs[n].children) /\ cs[n].children # <<>>
  BY DEF TakesChild
<1>2. IsCall(g, cs[n]) /\ ds[n] \in [node : g.nodes, children : Seq(g.nodes)]
  BY <1>1, CallsOf DEF CallsRule
<1>3. Later(g, cs[n]) = Later(g, ds[n]) \cup {Chosen(g, ds[n])}
  BY <1>1, <1>2, ChildTaken
<1>4. \A i \in 1 .. n : Follows(g, cs, w, i - 1) <=> Follows(g, ds, w, i - 1)
  <2> SUFFICES ASSUME NEW i \in 1 .. n
               PROVE  Follows(g, cs, w, i - 1) <=> Follows(g, ds, w, i - 1)
    OBVIOUS
  <2>1. \A j \in 1 .. i - 1 : j \in 1 .. n - 1
    BY <1>1
  <2>2. \A j \in 1 .. i - 1 : Chosen(g, cs[j]) = Chosen(g, ds[j])
    BY <1>1, <2>1
  <2> QED
    BY <2>2 DEF Follows
<1>5. Follows(g, ds, w, n) <=> Follows(g, ds, w, n - 1) /\ n <= Len(w) /\ w[n] = Chosen(g, ds[n])
  <2>1. \A j \in 1 .. n : j = n \/ j \in 1 .. n - 1
    BY <1>1
  <2>2. n - 1 <= n
    BY <1>1
  <2>3. ASSUME Follows(g, ds, w, n) PROVE Follows(g, ds, w, n - 1) /\ n <= Len(w) /\ w[n] = Chosen(g, ds[n])
    BY <1>1, <2>3 DEF Follows
  <2>4. ASSUME Follows(g, ds, w, n - 1), n <= Len(w), w[n] = Chosen(g, ds[n]) PROVE Follows(g, ds, w, n)
    BY <2>1, <2>4 DEF Follows
  <2> QED
    BY <2>3, <2>4
<1>6. Waits(g, cs, w) <=> Waits(g, ds, w) \/ Follows(g, ds, w, n)
  <2>1. ASSUME Waits(g, cs, w) PROVE Waits(g, ds, w) \/ Follows(g, ds, w, n)
    <3>1. PICK i \in 1 .. n : Follows(g, cs, w, i - 1) /\ i <= Len(w) /\ w[i] \in Later(g, cs[i])
      BY <2>1 DEF Waits
    <3>2. CASE i = n
      BY <1>1, <1>3, <1>4, <1>5, <3>1, <3>2 DEF Waits
    <3>3. CASE i # n
      BY <1>1, <1>4, <3>1, <3>3 DEF Waits
    <3> QED
      BY <3>2, <3>3
  <2>2. ASSUME Waits(g, ds, w) PROVE Waits(g, cs, w)
    <3>1. PICK i \in 1 .. n : Follows(g, ds, w, i - 1) /\ i <= Len(w) /\ w[i] \in Later(g, ds[i])
      BY <1>1, <2>2 DEF Waits
    <3>2. w[i] \in Later(g, cs[i])
      <4>1. CASE i = n
        BY <1>3, <3>1, <4>1
      <4>2. CASE i # n
        BY <1>1, <3>1, <4>2
      <4> QED
        BY <4>1, <4>2
    <3> QED
      BY <1>4, <3>1, <3>2 DEF Waits
  <2>3. ASSUME Follows(g, ds, w, n) PROVE Waits(g, cs, w)
    <3>1. Follows(g, cs, w, n - 1) /\ n <= Len(w) /\ w[n] \in Later(g, cs[n]) /\ n \in 1 .. n
      BY <1>1, <1>3, <1>4, <1>5, <2>3
    <3> QED
      BY <3>1 DEF Waits
  <2> QED
    BY <2>1, <2>2, <2>3
<1>7. ~(Waits(g, ds, w) /\ Follows(g, ds, w, n))
  <2> SUFFICES ASSUME Waits(g, ds, w), Follows(g, ds, w, n) PROVE FALSE
    OBVIOUS
  <2>1. PICK i \in 1 .. n : w[i] \in Later(g, ds[i])
    BY <1>1 DEF Waits
  <2>2. w[i] = Chosen(g, ds[i])
    BY DEF Follows
  <2>3. CallsRule(g, from, most, ds) /\ Past(g, ds[n]) > 0
    BY <1>1, RuleAfterChild
  <2>4. IsCall(g, ds[i]) /\ Past(g, ds[i]) > 0
    BY <1>1, <2>3 DEF CallsRule
  <2> QED
    BY <2>1, <2>2, <2>4, ChosenIs
<1> QED
  BY <1>1, <1>6, <1>7


\* The search enters a node.
Enters(g, cs, c, ds) ==
  /\ ds \in Stack(g) /\ Len(ds) = Len(cs) + 1 /\ Len(cs) \in Nat
  /\ \A i \in 1 .. Len(cs) : ds[i] = cs[i]
  /\ ds[Len(cs) + 1] = c

LEMMA CallEntered ==
  ASSUME NEW g, NEW cs \in Stack(g), NEW c \in [node : g.nodes, children : Seq(g.nodes)]
  PROVE  Enters(g, cs, c, Append(cs, c))
<1> DEFINE C == [node : g.nodes, children : Seq(g.nodes)]
<1>1. cs \in Seq(C) /\ c \in C
  BY DEF Stack
<1> HIDE DEF C
<1>2. /\ Append(cs, c) \in Seq(C) /\ Len(Append(cs, c)) = Len(cs) + 1 /\ Len(cs) \in Nat
      /\ \A i \in 1 .. Len(cs) : Append(cs, c)[i] = cs[i]
      /\ Append(cs, c)[Len(cs) + 1] = c
  BY <1>1
<1> QED
  BY <1>2 DEF Enters, Stack, C

LEMMA RuleAfterEntry ==
  ASSUME NEW g, NEW from, NEW most, NEW cs, CallsRule(g, from, most, cs),
         cs # <<>>, Past(g, cs[Len(cs)]) > 0,
         NEW c, IsCall(g, c), c.children # <<>> => Len(cs) + 1 <= most,
         Chosen(g, cs[Len(cs)]).target = c.node,
         \A i \in 1 .. Len(cs) : cs[i].node # c.node,
         NEW ds, Enters(g, cs, c, ds)
  PROVE  CallsRule(g, from, most, ds)
<1> DEFINE n == Len(cs)
<1>1. /\ ds \in Stack(g) /\ Len(ds) = n + 1 /\ n \in Nat \ {0}
      /\ \A i \in 1 .. n : ds[i] = cs[i]
      /\ ds[n + 1] = c
  BY CallsOf DEF Enters, CallsRule
<1> HIDE DEF n
<1>2. \A i \in 1 .. n + 1 : i \in 1 .. n \/ i = n + 1
  BY <1>1
<1>3. \A i \in 1 .. n : IsCall(g, cs[i]) /\ (cs[i].children # <<>> => i <= most)
  BY DEF CallsRule, n
<1>4. \A i \in 1 .. Len(ds) : IsCall(g, ds[i]) /\ (ds[i].children # <<>> => i <= most)
  BY <1>1, <1>2, <1>3 DEF n
<1>5. ds # <<>> => ds[1].node = from
  BY <1>1 DEF CallsRule
<1>6. \A i \in 1 .. Len(ds) - 1 : Past(g, ds[i]) > 0 /\ Chosen(g, ds[i]).target = ds[i + 1].node
  <2>0. Len(ds) - 1 = n
    BY <1>1
  <2> SUFFICES ASSUME NEW i \in 1 .. n
               PROVE  Past(g, ds[i]) > 0 /\ Chosen(g, ds[i]).target = ds[i + 1].node
    BY <2>0, Zenon
  <2>1. CASE i = n
    BY <1>1, <2>1 DEF n
  <2>2. CASE i # n
    <3>1. i \in 1 .. n - 1 /\ i + 1 \in 1 .. n
      BY <1>1, <2>2
    <3>2. Past(g, cs[i]) > 0 /\ Chosen(g, cs[i]).target = cs[i + 1].node
      BY <3>1 DEF CallsRule, n
    <3> QED
      BY <1>1, <3>1, <3>2
  <2> QED
    BY <2>1, <2>2
<1>7. \A i, j \in 1 .. n : cs[i].node = cs[j].node => i = j
  BY DEF CallsRule, n
<1>8. \A i, j \in 1 .. Len(ds) : ds[i].node = ds[j].node => i = j
  BY <1>1, <1>2, <1>7 DEF n
<1> QED
  BY <1>1, <1>4, <1>5, <1>6, <1>8 DEF CallsRule

LEMMA WaitsAfterEntry ==
  ASSUME NEW g, NEW cs, NEW c, NEW ds, Enters(g, cs, c, ds), NEW w
  PROVE  Waits(g, ds, w) <=>
           \/ Waits(g, cs, w)
           \/ Follows(g, cs, w, Len(cs)) /\ Len(cs) + 1 <= Len(w) /\ w[Len(cs) + 1] \in Later(g, c)
<1> DEFINE n == Len(cs)
<1>1. /\ Len(ds) = n + 1 /\ n \in Nat
      /\ \A i \in 1 .. n : ds[i] = cs[i]
      /\ ds[n + 1] = c
  BY DEF Enters
<1> HIDE DEF n
<1>2. \A i \in 1 .. n + 1 : Follows(g, cs, w, i - 1) <=> Follows(g, ds, w, i - 1)
  BY <1>1 DEF Follows
<1>3. \A i \in 1 .. n + 1 : i \in 1 .. n \/ i = n + 1
  BY <1>1
<1>4. (n + 1) - 1 = n /\ n + 1 \in 1 .. n + 1 /\ 1 .. n \subseteq 1 .. n + 1
  BY <1>1
<1>5. Follows(g, cs, w, n) <=> Follows(g, ds, w, (n + 1) - 1)
  BY <1>2, <1>4
<1>6. Waits(g, ds, w) <=>
        \E i \in 1 .. n + 1 : Follows(g, ds, w, i - 1) /\ i <= Len(w) /\ w[i] \in Later(g, ds[i])
  BY <1>1 DEF Waits
<1>7. Waits(g, cs, w) <=>
        \E i \in 1 .. n : Follows(g, cs, w, i - 1) /\ i <= Len(w) /\ w[i] \in Later(g, cs[i])
  BY DEF Waits, n
<1>8. \A i \in 1 .. n :
        (Follows(g, cs, w, i - 1) /\ i <= Len(w) /\ w[i] \in Later(g, cs[i]))
          <=> (Follows(g, ds, w, i - 1) /\ i <= Len(w) /\ w[i] \in Later(g, ds[i]))
  BY <1>1, <1>2, <1>4
<1>9. (Follows(g, cs, w, n) /\ n + 1 <= Len(w) /\ w[n + 1] \in Later(g, c))
        <=> (Follows(g, ds, w, (n + 1) - 1) /\ n + 1 <= Len(w) /\ w[n + 1] \in Later(g, ds[n + 1]))
  BY <1>1, <1>5
<1> QED
  BY <1>3, <1>4, <1>6, <1>7, <1>8, <1>9 DEF n

(* A call that has no children left can be left.                           *)
Leaves(g, cs, ds) ==
  /\ ds \in Stack(g) /\ Len(cs) = Len(ds) + 1 /\ Len(ds) \in Nat
  /\ \A i \in 1 .. Len(ds) : ds[i] = cs[i]
  /\ cs[Len(cs)].children = <<>>

LEMMA CallLeft ==
  ASSUME NEW g, NEW cs \in Stack(g), cs # <<>>, cs[Len(cs)].children = <<>>
  PROVE  Leaves(g, cs, SubSeq(cs, 1, Len(cs) - 1))
<1> DEFINE C == [node : g.nodes, children : Seq(g.nodes)]
           n == Len(cs)
<1>1. cs \in Seq(C) /\ n \in Nat \ {0}
  BY CallsOf DEF Stack
<1> HIDE DEF C
<1>2. /\ SubSeq(cs, 1, n - 1) \in Seq(C) /\ Len(SubSeq(cs, 1, n - 1)) = n - 1
      /\ \A i \in 1 .. n - 1 : SubSeq(cs, 1, n - 1)[i] = cs[i]
  <2>1. n - 1 \in Nat /\ n - 1 <= Len(cs)
    BY <1>1
  <2> QED
    BY <1>1, <2>1, PrefixIs
<1> DEFINE ds == SubSeq(cs, 1, n - 1)
<1> HIDE DEF ds
<1>3. Leaves(g, cs, ds)
  BY <1>1, <1>2 DEF Leaves, Stack, C, ds
<1> QED
  BY <1>3 DEF ds

LEMMA AfterReturn ==
  ASSUME NEW g, IsMultigraph(g), NEW from, NEW most, NEW cs, CallsRule(g, from, most, cs),
         NEW ds, Leaves(g, cs, ds)
  PROVE  CallsRule(g, from, most, ds) /\ \A w : Waits(g, ds, w) <=> Waits(g, cs, w)
<1> DEFINE n == Len(ds)
<1>1. /\ ds \in Stack(g) /\ Len(cs) = n + 1 /\ n \in Nat
      /\ \A i \in 1 .. n : ds[i] = cs[i]
      /\ cs[n + 1].children = <<>>
  BY DEF Leaves
<1>2. IsCall(g, cs[n + 1])
  BY <1>1 DEF CallsRule
<1>3. Later(g, cs[n + 1]) = {}
  BY <1>1, <1>2, NoChildren
<1>4. CallsRule(g, from, most, ds)
  <2>1. ds # <<>> => ds[1].node = from
    <3>1. ds # <<>> => 1 \in 1 .. n /\ cs # <<>>
      BY <1>1, CallsOf
    <3> QED
      BY <1>1, <3>1 DEF CallsRule
  <2>2. \A i \in 1 .. n : i \in 1 .. n + 1 /\ (i <= n - 1 => i \in 1 .. (n + 1) - 1 /\ i + 1 \in 1 .. n)
    BY <1>1
  <2>3. \A i \in 1 .. n : IsCall(g, ds[i]) /\ (ds[i].children # <<>> => i <= most)
    BY <1>1, <2>2 DEF CallsRule
  <2>4. ASSUME NEW i \in 1 .. n - 1
        PROVE  Past(g, ds[i]) > 0 /\ Chosen(g, ds[i]).target = ds[i + 1].node
    <3>1. i \in 1 .. Len(cs) - 1 /\ i \in 1 .. n /\ i + 1 \in 1 .. n
      BY <1>1
    <3>2. Past(g, cs[i]) > 0 /\ Chosen(g, cs[i]).target = cs[i + 1].node
      BY <3>1 DEF CallsRule
    <3> QED
      BY <1>1, <3>1, <3>2
  <2>5. \A i, j \in 1 .. n : ds[i].node = ds[j].node => i = j
    BY <1>1, <2>2 DEF CallsRule
  <2> QED
    BY <1>1, <2>1, <2>3, <2>4, <2>5 DEF CallsRule
<1>5. ASSUME NEW w PROVE Waits(g, ds, w) <=> Waits(g, cs, w)
  <2> DEFINE At(i) == Follows(g, cs, w, i - 1) /\ i <= Len(w) /\ w[i] \in Later(g, cs[i])
  <2>1. Waits(g, cs, w) <=> \E i \in 1 .. n + 1 : At(i)
    BY <1>1 DEF Waits
  <2>2. ~At(n + 1)
    BY <1>3
  <2>3. \A i \in 1 .. n : At(i) <=>
          (Follows(g, ds, w, i - 1) /\ i <= Len(w) /\ w[i] \in Later(g, ds[i]))
    BY <1>1 DEF Follows
  <2>4. \A i \in 1 .. n + 1 : i \in 1 .. n \/ i = n + 1
    BY <1>1
  <2>5. 1 .. n \subseteq 1 .. n + 1
    BY <1>1
  <2>6. Waits(g, ds, w) <=> \E i \in 1 .. n : At(i)
    BY <2>3 DEF Waits
  <2> HIDE DEF At
  <2> QED
    BY <2>1, <2>2, <2>4, <2>5, <2>6
<1> QED
  BY <1>4, <1>5


(* A wanted walk that follows the trail to its end n: n is not on the      *)
(* trail before, and the walk ends there exactly if n is the target.       *)
LEMMA FollowersGoOn ==
  ASSUME NEW g, IsMultigraph(g), NEW from, NEW to, NEW most \in Nat,
         NEW ds, CallsRule(g, from, most, ds), ds # <<>>, Past(g, ds[Len(ds)]) > 0,
         NEW w \in Goals(g, from, to, most), Follows(g, ds, w, Len(ds)),
         NEW n, n = Chosen(g, ds[Len(ds)]).target
  PROVE  /\ \A j \in 1 .. Len(ds) : ds[j].node # n
         /\ Len(w) = Len(ds) <=> n = to
         /\ n # to => Len(ds) + 1 <= Len(w) /\ w[Len(ds) + 1] \in OutArcs(g, n)
<1> DEFINE m == Len(ds)
<1>1. m \in Nat \ {0} /\ Len(w) \in Nat /\ m <= Len(w) /\ w \in Seq(g.arcs)
  BY CallsOf DEF CallsRule, Goals, Follows
<1>2. \A j \in 1 .. m : w[j] = Chosen(g, ds[j])
  BY DEF Follows
<1>3. \A i \in 1 .. Len(w) :
        /\ w[i].source = IF i = 1 THEN from ELSE w[i - 1].target
        /\ w[i].target # from
        /\ \A j \in 1 .. i - 1 : w[i].target # w[j].target
  BY DEF Goals, Simple
<1>4. w[m].target = n /\ m \in 1 .. m /\ m \in 1 .. Len(w)
  BY <1>1, <1>2
<1>5. Len(w) <= most /\ StopOf(from, w) = to
  BY DEF Goals
<1>6. w # <<>>
  BY <1>1
<1>7. w[Len(w)].target = to
  BY <1>5, <1>6 DEF StopOf
<1>8. ASSUME NEW j \in 1 .. m PROVE ds[j].node # n
  <2>1. CASE j = 1
    <3>1. ds[j].node = from
      BY <2>1 DEF CallsRule
    <3> QED
      BY <1>3, <1>4, <3>1
  <2>2. CASE j # 1
    <3>1. j - 1 \in 1 .. Len(ds) - 1 /\ j - 1 \in 1 .. m - 1 /\ j - 1 \in 1 .. m /\ (j - 1) + 1 = j
      BY <1>1, <2>2
    <3>2. Chosen(g, ds[j - 1]).target = ds[(j - 1) + 1].node
      BY <3>1 DEF CallsRule
    <3>3. w[j - 1].target = ds[j].node
      BY <1>2, <3>1, <3>2
    <3>4. w[m].target # w[j - 1].target
      BY <1>3, <1>4, <3>1
    <3> QED
      BY <1>4, <3>3, <3>4
  <2> QED
    BY <2>1, <2>2
<1>9. Len(w) = m <=> n = to
  <2>1. ASSUME Len(w) # m PROVE n # to
    <3>1. m \in 1 .. Len(w) - 1 /\ Len(w) \in 1 .. Len(w)
      BY <1>1, <2>1
    <3>2. w[Len(w)].target # w[m].target
      BY <1>3, <3>1
    <3> QED
      BY <1>4, <1>7, <3>2
  <2> QED
    BY <1>4, <1>7, <2>1
<1>10. ASSUME n # to PROVE m + 1 <= Len(w) /\ w[m + 1] \in OutArcs(g, n)
  <2>1. m + 1 \in 1 .. Len(w) /\ m + 1 <= Len(w) /\ m + 1 # 1 /\ (m + 1) - 1 = m
    BY <1>1, <1>9, <1>10
  <2>2. w[m + 1].source = w[(m + 1) - 1].target
    BY <1>3, <2>1, Zenon
  <2>3. w[m + 1] \in g.arcs
    BY <1>1, <2>1, ElementsIn
  <2> QED
    BY <1>4, <2>1, <2>2, <2>3 DEF OutArcs
<1> QED
  BY <1>8, <1>9, <1>10

\* The trail itself is a simple walk, unless it ends where it has been.
PathTo(ds, n) == Append([i \in DOMAIN ds |-> ds[i].node], n)
TrailOf(g, ds) == [j \in 1 .. Len(ds) |-> Chosen(g, ds[j])]

LEMMA TrailIsWalk ==
  ASSUME NEW g, IsMultigraph(g), NEW from, NEW most \in Nat,
         NEW ds, CallsRule(g, from, most, ds), ds # <<>>, Past(g, ds[Len(ds)]) > 0,
         NEW n, n = Chosen(g, ds[Len(ds)]).target,
         \A j \in 1 .. Len(ds) : ds[j].node # n
  PROVE  /\ TrailOf(g, ds) \in Seq(g.arcs) /\ Len(TrailOf(g, ds)) = Len(ds)
         /\ Follows(g, ds, TrailOf(g, ds), Len(ds))
         /\ Simple(g, from, TrailOf(g, ds)) /\ StopOf(from, TrailOf(g, ds)) = n
         /\ VisitedBy(from, TrailOf(g, ds)) = PathTo(ds, n)
<1> DEFINE m == Len(ds)
           w == TrailOf(g, ds)
<1>1. m \in Nat \ {0} /\ ds \in Stack(g)
  BY CallsOf DEF CallsRule
<1>2. \A j \in 1 .. m : IsCall(g, ds[j])
  BY DEF CallsRule
<1>3. \A j \in 1 .. m - 1 : Past(g, ds[j]) > 0 /\ Chosen(g, ds[j]).target = ds[j + 1].node
  BY DEF CallsRule
<1>4. \A j \in 1 .. m : Past(g, ds[j]) > 0
  <2> SUFFICES ASSUME NEW j \in 1 .. m PROVE Past(g, ds[j]) > 0
    OBVIOUS
  <2>1. CASE j = m
    BY <2>1
  <2>2. CASE j # m
    BY <1>1, <1>3, <2>2
  <2> QED
    BY <2>1, <2>2
<1>5. \A j \in 1 .. m : Chosen(g, ds[j]) \in OutArcs(g, ds[j].node)
  BY <1>2, <1>4, ChosenIs
<1>6. \A j \in 1 .. m : Chosen(g, ds[j]) \in g.arcs /\ Chosen(g, ds[j]).source = ds[j].node
  BY <1>5 DEF OutArcs
<1>7. w = [j \in 1 .. m |-> Chosen(g, ds[j])]
  BY DEF TrailOf
<1> HIDE DEF w
<1>8. w \in Seq(g.arcs) /\ Len(w) = m /\ \A j \in 1 .. m : w[j] = Chosen(g, ds[j])
  BY <1>1, <1>6, <1>7
<1>9. Follows(g, ds, w, m)
  BY <1>1, <1>8 DEF Follows
<1>10. \A i, j \in 1 .. m : ds[i].node = ds[j].node => i = j
  BY DEF CallsRule
<1>11. ds[1].node = from /\ 1 \in 1 .. m
  BY <1>1 DEF CallsRule
<1>12. ASSUME NEW i \in 1 .. m PROVE w[i].target = IF i = m THEN n ELSE ds[i + 1].node
  BY <1>1, <1>3, <1>8
<1>13. ASSUME NEW i \in 1 .. m
       PROVE  /\ w[i].source = IF i = 1 THEN from ELSE w[i - 1].target
              /\ w[i].target # from
              /\ \A j \in 1 .. i - 1 : w[i].target # w[j].target
  <2>1. w[i].source = ds[i].node
    BY <1>6, <1>8
  <2>2. ASSUME i # 1 PROVE w[i - 1].target = ds[i].node
    <3>1. i - 1 \in 1 .. m /\ i - 1 # m /\ (i - 1) + 1 = i
      BY <1>1, <2>2
    <3>2. w[i - 1].target = ds[(i - 1) + 1].node
      BY <1>12, <3>1, Zenon
    <3> QED
      BY <3>1, <3>2
  <2>3. w[i].target # from
    <3>1. CASE i = m
      BY <1>11, <1>12, <3>1
    <3>2. CASE i # m
      <4>1. i + 1 \in 1 .. m /\ i + 1 # 1
        BY <1>1, <3>2
      <4> QED
        BY <1>10, <1>11, <1>12, <3>2, <4>1
    <3> QED
      BY <3>1, <3>2
  <2>4. ASSUME NEW j \in 1 .. i - 1 PROVE w[i].target # w[j].target
    <3>1. j \in 1 .. m /\ j # m /\ j + 1 \in 1 .. m
      BY <1>1
    <3>2. w[j].target = ds[j + 1].node
      BY <1>12, <3>1
    <3>3. CASE i = m
      BY <1>12, <3>1, <3>2, <3>3
    <3>4. CASE i # m
      <4>1. i + 1 \in 1 .. m /\ i + 1 # j + 1
        BY <1>1, <3>4
      <4> QED
        BY <1>10, <1>12, <3>1, <3>2, <3>4, <4>1
    <3> QED
      BY <3>3, <3>4
  <2> QED
    BY <1>11, <2>1, <2>2, <2>3, <2>4
<1>14. Simple(g, from, w)
  BY <1>8, <1>13 DEF Simple
<1>15. StopOf(from, w) = n
  <2>1. w # <<>> /\ m \in 1 .. m
    BY <1>1, <1>8
  <2> QED
    BY <1>8, <1>12, <2>1 DEF StopOf
<1>16. VisitedBy(from, w) = PathTo(ds, n)
  <2> DEFINE t == [i \in 1 .. m |-> w[i].target]
             u == [i \in 1 .. m |-> ds[i].node]
             T == {w[i].target : i \in 1 .. m} \cup {ds[i].node : i \in 1 .. m} \cup {from, n}
  <2>1. t \in Seq(T) /\ u \in Seq(T) /\ Len(t) = m /\ Len(u) = m /\ from \in T /\ n \in T
    BY <1>1
  <2>2. \A i \in 1 .. m : t[i] = w[i].target /\ u[i] = ds[i].node
    OBVIOUS
  <2> HIDE DEF t, u, T
  <2>3. /\ <<from>> \o t \in Seq(T) /\ Len(<<from>> \o t) = m + 1
        /\ (<<from>> \o t)[1] = from
        /\ \A i \in 1 .. m : (<<from>> \o t)[i + 1] = t[i]
    BY <1>1, <2>1
  <2>4. /\ Append(u, n) \in Seq(T) /\ Len(Append(u, n)) = m + 1
        /\ \A i \in 1 .. m : Append(u, n)[i] = u[i]
        /\ Append(u, n)[m + 1] = n
    BY <1>1, <2>1
  <2>5. ASSUME NEW i \in 1 .. m + 1 PROVE (<<from>> \o t)[i] = Append(u, n)[i]
    <3>1. CASE i = 1
      BY <1>11, <2>2, <2>3, <2>4, <3>1
    <3>2. CASE i # 1
      <4>1. i - 1 \in 1 .. m /\ (i - 1) + 1 = i
        BY <1>1, <3>2
      <4>2. (<<from>> \o t)[(i - 1) + 1] = t[i - 1]
        BY <2>3, <4>1
      <4>3. (<<from>> \o t)[i] = w[i - 1].target
        BY <2>2, <4>1, <4>2
      <4>4. CASE i = m + 1
        <5>1. i - 1 = m
          BY <1>1, <4>4
        <5> QED
          BY <1>12, <2>4, <4>1, <4>3, <4>4, <5>1
      <4>5. CASE i # m + 1
        <5>1. i - 1 # m /\ i \in 1 .. m
          BY <1>1, <4>5
        <5> QED
          BY <1>12, <2>2, <2>4, <4>1, <4>3, <5>1
      <4> QED
        BY <4>4, <4>5
    <3> QED
      BY <3>1, <3>2
  <2>6. <<from>> \o t = Append(u, n)
    BY <1>1, <2>3, <2>4, <2>5
  <2>7. DOMAIN w = 1 .. m /\ DOMAIN ds = 1 .. m
    BY <1>1, <1>8, ElementsIn DEF Stack
  <2>8. VisitedBy(from, w) = <<from>> \o t
    BY <2>7 DEF VisitedBy, t
  <2> QED
    BY <2>6, <2>7, <2>8 DEF u, PathTo
<1> QED
  BY <1>8, <1>9, <1>14, <1>15, <1>16 DEF w

-----------------------------------------------------------------------------
(* The paths found are, one for one, the wanted walks the search does not  *)
(* have yet to come by.                                                    *)

WalkOf(f, res, from, S) ==
  /\ IsSequence(res) /\ res = [i \in DOMAIN res |-> res[i]]
  /\ DOMAIN f = DOMAIN res
  /\ \A i \in DOMAIN res : f[i] \in S /\ res[i] = VisitedBy(from, f[i])
  /\ \A i, j \in DOMAIN res : f[i] = f[j] => i = j
  /\ \A w \in S : \E i \in DOMAIN res : f[i] = w

Found(g, from, to, most, cs) == {w \in Goals(g, from, to, most) : ~Waits(g, cs, w)}

WalkRule(g, from, to, most, cs, res) ==
  /\ {from, to} \subseteq g.nodes
  /\ CallsRule(g, from, most, cs)
  /\ \E f : WalkOf(f, res, from, Found(g, from, to, most, cs))

LEMMA SameFound ==
  ASSUME NEW g, NEW from, NEW to, NEW most, NEW cs, NEW res, WalkRule(g, from, to, most, cs, res),
         NEW ds, CallsRule(g, from, most, ds),
         \A w \in Goals(g, from, to, most) : Waits(g, ds, w) <=> Waits(g, cs, w)
  PROVE  WalkRule(g, from, to, most, ds, res)
<1>1. Found(g, from, to, most, ds) = Found(g, from, to, most, cs)
  BY DEF Found
<1> QED
  BY <1>1 DEF WalkRule

\* What the search knows of the child it takes.
LEMMA ChildIs ==
  ASSUME NEW g, IsMultigraph(g), NEW from, NEW most, NEW cs, CallsRule(g, from, most, cs),
         NEW ds, TakesChild(g, cs, ds), NEW n, n = Head(cs[Len(cs)].children)
  PROVE  /\ CallsRule(g, from, most, ds) /\ ds # <<>> /\ Past(g, ds[Len(ds)]) > 0
         /\ n = Chosen(g, ds[Len(ds)]).target /\ n \in g.nodes
         /\ Len(ds) \in Nat /\ Len(ds) <= most /\ Len(ds) = Len(cs)
         /\ \A i \in 1 .. Len(cs) : ds[i].node = cs[i].node
<1>1. /\ CallsRule(g, from, most, ds) /\ Past(g, ds[Len(ds)]) > 0
      /\ n = Chosen(g, ds[Len(ds)]).target /\ Len(ds) <= most
  BY RuleAfterChild
<1>2. Len(ds) = Len(cs) /\ Len(cs) \in Nat \ {0} /\ ds # <<>>
  BY DEF TakesChild
<1>3. IsCall(g, ds[Len(ds)])
  BY <1>1, <1>2 DEF CallsRule
<1>4. Chosen(g, ds[Len(ds)]) \in g.arcs
  BY <1>1, <1>3, ChosenIs DEF OutArcs
<1>5. n \in g.nodes
  BY <1>1, <1>4 DEF IsMultigraph
<1>6. \A i \in 1 .. Len(cs) : ds[i].node = cs[i].node
  BY DEF TakesChild
<1> QED
  BY <1>1, <1>2, <1>5, <1>6

LEMMA SkipKeeps ==
  ASSUME NEW g, IsMultigraph(g), NEW from, NEW to, NEW most \in Nat, NEW cs, NEW res,
         WalkRule(g, from, to, most, cs, res), NEW ds, TakesChild(g, cs, ds),
         \E i \in 1 .. Len(cs) : cs[i].node = Head(cs[Len(cs)].children)
  PROVE  WalkRule(g, from, to, most, ds, res)
<1> DEFINE n == Head(cs[Len(cs)].children)
<1>1. CallsRule(g, from, most, cs)
  BY DEF WalkRule
<1>2. /\ CallsRule(g, from, most, ds) /\ ds # <<>> /\ Past(g, ds[Len(ds)]) > 0
      /\ n = Chosen(g, ds[Len(ds)]).target
      /\ Len(ds) = Len(cs) /\ \A i \in 1 .. Len(cs) : ds[i].node = cs[i].node
  BY <1>1, ChildIs
<1>3. ASSUME NEW w \in Goals(g, from, to, most) PROVE Waits(g, ds, w) <=> Waits(g, cs, w)
  <2>1. ~Follows(g, ds, w, Len(ds))
    BY <1>2, FollowersGoOn
  <2> QED
    BY <1>1, <2>1, WaitsAfterChild
<1> QED
  BY <1>2, <1>3, SameFound

\* A node that is not the target: the walks through it wait at its call, or
\* there are none within the limit.
LEMMA EntryKeeps ==
  ASSUME NEW g, IsMultigraph(g), NEW from, NEW to, NEW most \in Nat, NEW cs, NEW res,
         WalkRule(g, from, to, most, cs, res), NEW ds, TakesChild(g, cs, ds),
         NEW n, n = Head(cs[Len(cs)].children),
         \A i \in 1 .. Len(cs) : cs[i].node # n,
         n # to,
         NEW c, c = IF Len(cs) >= most THEN Call(n, <<>>) ELSE Call(n, Ends(g, n)),
         NEW es, Enters(g, ds, c, es)
  PROVE  WalkRule(g, from, to, most, es, res)
<1>1. CallsRule(g, from, most, cs)
  BY DEF WalkRule
<1>2. /\ CallsRule(g, from, most, ds) /\ ds # <<>> /\ Past(g, ds[Len(ds)]) > 0
      /\ n = Chosen(g, ds[Len(ds)]).target /\ n \in g.nodes
      /\ Len(ds) \in Nat /\ Len(ds) = Len(cs)
      /\ \A i \in 1 .. Len(cs) : ds[i].node = cs[i].node
  BY <1>1, ChildIs
<1>3. /\ IsCall(g, c) /\ c.node = n
      /\ Len(cs) >= most => c.children = <<>> /\ Later(g, c) = {}
      /\ Len(cs) < most => Later(g, c) = OutArcs(g, n)
  <2>1. /\ IsCall(g, Call(n, Ends(g, n))) /\ Later(g, Call(n, Ends(g, n))) = OutArcs(g, n)
        /\ IsCall(g, Call(n, <<>>)) /\ Later(g, Call(n, <<>>)) = {}
    BY <1>2, FreshCall
  <2>2. Call(n, Ends(g, n)).node = n /\ Call(n, <<>>).node = n /\ Call(n, <<>>).children = <<>>
    BY DEF Call
  <2>3. CASE Len(cs) >= most
    BY <1>2, <2>1, <2>2, <2>3
  <2>4. CASE ~(Len(cs) >= most)
    BY <1>2, <2>1, <2>2, <2>4
  <2> QED
    BY <2>3, <2>4
<1>4. c.children # <<>> => Len(ds) + 1 <= most
  BY <1>2, <1>3
<1>5. CallsRule(g, from, most, es)
  BY <1>2, <1>3, <1>4, RuleAfterEntry
<1>6. ASSUME NEW w \in Goals(g, from, to, most) PROVE Waits(g, es, w) <=> Waits(g, cs, w)
  <2>1. Waits(g, cs, w) <=> Waits(g, ds, w) \/ Follows(g, ds, w, Len(ds))
    BY <1>1, WaitsAfterChild
  <2>2. Waits(g, es, w) <=>
          \/ Waits(g, ds, w)
          \/ Follows(g, ds, w, Len(ds)) /\ Len(ds) + 1 <= Len(w) /\ w[Len(ds) + 1] \in Later(g, c)
    BY WaitsAfterEntry
  <2>3. ASSUME Follows(g, ds, w, Len(ds))
        PROVE  Len(ds) + 1 <= Len(w) /\ w[Len(ds) + 1] \in Later(g, c)
    <3>1. Len(ds) + 1 <= Len(w) /\ w[Len(ds) + 1] \in OutArcs(g, n)
      BY <1>2, <2>3, FollowersGoOn
    <3>2. Len(w) \in Nat /\ Len(w) <= most
      BY DEF Goals
    <3>3. Len(cs) < most
      BY <1>2, <3>1, <3>2
    <3> QED
      BY <1>3, <3>1, <3>3
  <2> QED
    BY <2>1, <2>2, <2>3
<1> QED
  BY <1>5, <1>6, SameFound


\* One more path and one more walk, which was not among those found.
LEMMA OneMoreFound ==
  ASSUME NEW f, NEW res, NEW from, NEW S, WalkOf(f, res, from, S),
         NEW T, NEW w, w \notin S, T = S \cup {w},
         NEW p, p = VisitedBy(from, w)
  PROVE  \E h : WalkOf(h, Append(res, p), from, T)
<1> DEFINE n == Len(res)
           more == Append(res, p)
           h == [i \in 1 .. n + 1 |-> IF i = n + 1 THEN w ELSE f[i]]
<1>1. n \in Nat /\ DOMAIN res = 1 .. n
  BY DEF WalkOf, IsSequence
<1> DEFINE V == {res[i] : i \in 1 .. n} \cup {p}
<1>2. res \in Seq(V) /\ p \in V
  <2>1. res = [i \in 1 .. n |-> res[i]]
    BY <1>1 DEF WalkOf
  <2> QED
    BY <1>1, <2>1
<1> HIDE DEF V
<1>3. /\ DOMAIN h = 1 .. n + 1 /\ h[n + 1] = w
      /\ \A i \in 1 .. n : h[i] = f[i]
  BY <1>1
<1>4. more \in Seq(V) /\ Len(more) = n + 1
  BY <1>2
<1>4a. DOMAIN more = 1 .. n + 1 /\ IsSequence(more) /\ more = [i \in DOMAIN more |-> more[i]]
  <2> HIDE DEF more, n
  <2> QED
    BY <1>4, ElementsIn
<1>5. more[n + 1] = p /\ \A i \in 1 .. n : more[i] = res[i]
  BY <1>1, <1>2
<1>6. \A i \in 1 .. n + 1 : i \in 1 .. n \/ i = n + 1
  BY <1>1
<1>7. 1 .. n \subseteq 1 .. n + 1 /\ n + 1 \in 1 .. n + 1
  BY <1>1
<1> HIDE DEF h, more, n
<1>8. /\ \A i \in 1 .. n : f[i] \in S /\ res[i] = VisitedBy(from, f[i])
      /\ \A i, j \in 1 .. n : f[i] = f[j] => i = j
      /\ \A v \in S : \E i \in 1 .. n : f[i] = v
  BY <1>1 DEF WalkOf
<1>9. \A i \in 1 .. n + 1 : h[i] \in T /\ more[i] = VisitedBy(from, h[i])
  BY <1>3, <1>5, <1>6, <1>8
<1>10. \A i, j \in 1 .. n + 1 : h[i] = h[j] => i = j
  BY <1>3, <1>6, <1>8
<1>11. \A v \in T : \E i \in 1 .. n + 1 : h[i] = v
  BY <1>3, <1>7, <1>8
<1>12. WalkOf(h, more, from, T)
  BY <1>3, <1>4a, <1>9, <1>10, <1>11 DEF WalkOf
<1> QED
  BY <1>12 DEF more

\* The target: the trail to it is found.
LEMMA TargetFound ==
  ASSUME NEW g, IsMultigraph(g), NEW from, NEW to, NEW most \in Nat, NEW cs, NEW res,
         WalkRule(g, from, to, most, cs, res), NEW ds, TakesChild(g, cs, ds),
         to = Head(cs[Len(cs)].children),
         \A i \in 1 .. Len(cs) : cs[i].node # to,
         NEW es, Enters(g, ds, Call(to, <<>>), es),
         NEW p, p = PathTo(cs, to)
  PROVE  WalkRule(g, from, to, most, es, Append(res, p))
<1> DEFINE w0 == TrailOf(g, ds)
           c == Call(to, <<>>)
<1>1. CallsRule(g, from, most, cs) /\ to \in g.nodes /\ from \in g.nodes
  BY DEF WalkRule
<1>2. /\ CallsRule(g, from, most, ds) /\ ds # <<>> /\ Past(g, ds[Len(ds)]) > 0
      /\ to = Chosen(g, ds[Len(ds)]).target
      /\ Len(ds) \in Nat /\ Len(ds) <= most /\ Len(ds) = Len(cs)
      /\ \A i \in 1 .. Len(cs) : ds[i].node = cs[i].node
  BY <1>1, ChildIs
<1>3. \A j \in 1 .. Len(ds) : ds[j].node # to
  BY <1>2
<1>4. /\ w0 \in Seq(g.arcs) /\ Len(w0) = Len(ds)
      /\ Follows(g, ds, w0, Len(ds))
      /\ Simple(g, from, w0) /\ StopOf(from, w0) = to
      /\ VisitedBy(from, w0) = PathTo(ds, to)
  BY <1>2, <1>3, TrailIsWalk
<1> HIDE DEF w0
<1>5. p = VisitedBy(from, w0)
  <2>1. DOMAIN cs = 1 .. Len(cs) /\ DOMAIN ds = 1 .. Len(cs)
    BY <1>1, <1>2, ElementsIn DEF CallsRule, Stack
  <2>2. PathTo(cs, to) = PathTo(ds, to)
    <3>1. [i \in DOMAIN cs |-> cs[i].node] = [i \in DOMAIN ds |-> ds[i].node]
      BY <1>2, <2>1
    <3> QED
      BY <3>1 DEF PathTo
  <2> QED
    BY <1>4, <2>2
<1>6. w0 \in Goals(g, from, to, most)
  BY <1>2, <1>4 DEF Goals
<1>7. IsCall(g, c) /\ Later(g, c) = {} /\ c.node = to /\ c.children = <<>>
  BY <1>1, FreshCall DEF Call
<1> HIDE DEF c
<1>8. CallsRule(g, from, most, es)
  BY <1>2, <1>3, <1>7, RuleAfterEntry DEF c
<1>9. ASSUME NEW w \in Goals(g, from, to, most)
      PROVE  ~Waits(g, es, w) <=> ~Waits(g, cs, w) \/ w = w0
  <2>1. Waits(g, cs, w) <=> Waits(g, ds, w) \/ Follows(g, ds, w, Len(ds))
    BY <1>1, WaitsAfterChild
  <2>2. ~(Waits(g, ds, w) /\ Follows(g, ds, w, Len(ds)))
    BY <1>1, WaitsAfterChild
  <2>3. Waits(g, es, w) <=> Waits(g, ds, w)
    <3>1. Waits(g, es, w) <=>
            \/ Waits(g, ds, w)
            \/ Follows(g, ds, w, Len(ds)) /\ Len(ds) + 1 <= Len(w) /\ w[Len(ds) + 1] \in Later(g, c)
      BY WaitsAfterEntry DEF c
    <3> QED
      BY <1>7, <3>1
  <2>4. Follows(g, ds, w, Len(ds)) <=> w = w0
    <3>1. ASSUME Follows(g, ds, w, Len(ds)) PROVE w = w0
      <4>1. Len(w) = Len(ds)
        BY <1>2, <3>1, FollowersGoOn
      <4>2. \A j \in 1 .. Len(ds) : w[j] = w0[j]
        BY <1>4, <3>1 DEF Follows
      <4>3. w \in Seq(g.arcs)
        BY DEF Goals
      <4> QED
        BY <1>2, <1>4, <4>1, <4>2, <4>3
    <3> QED
      BY <1>4, <3>1
  <2> QED
    BY <2>1, <2>2, <2>3, <2>4
<1> DEFINE S == Found(g, from, to, most, cs)
           T == Found(g, from, to, most, es)
<1>10. w0 \notin S
  <2>1. Waits(g, cs, w0)
    BY <1>1, <1>4, WaitsAfterChild
  <2> QED
    BY <2>1 DEF Found
<1>11. T = S \cup {w0}
  BY <1>6, <1>9 DEF Found
<1>12. PICK f : WalkOf(f, res, from, S)
  BY DEF WalkRule
<1> HIDE DEF S, T
<1>13. \E h : WalkOf(h, Append(res, p), from, T)
  BY <1>5, <1>10, <1>11, <1>12, OneMoreFound
<1> QED
  BY <1>1, <1>8, <1>13 DEF WalkRule, T

LEMMA ReturnKeeps ==
  ASSUME NEW g, IsMultigraph(g), NEW from, NEW to, NEW most \in Nat, NEW cs, NEW res,
         WalkRule(g, from, to, most, cs, res), NEW ds, Leaves(g, cs, ds)
  PROVE  WalkRule(g, from, to, most, ds, res)
<1>1. CallsRule(g, from, most, cs)
  BY DEF WalkRule
<1>2. CallsRule(g, from, most, ds) /\ \A w : Waits(g, ds, w) <=> Waits(g, cs, w)
  BY <1>1, AfterReturn
<1> QED
  BY <1>2, SameFound

\* Every walk waits at the first call, or is too long.
LEMMA FirstCall ==
  ASSUME NEW g, IsMultigraph(g), NEW from \in g.nodes, NEW to \in g.nodes, from # to,
         NEW most \in Nat
  PROVE  WalkRule(g, from, to, most,
                  <<Call(from, IF most = 0 THEN <<>> ELSE Ends(g, from))>>, <<>>)
<1> DEFINE c == Call(from, IF most = 0 THEN <<>> ELSE Ends(g, from))
           cs == <<c>>
<1>1. /\ IsCall(g, c) /\ c.node = from
      /\ most = 0 => c.children = <<>>
      /\ most # 0 => Later(g, c) = OutArcs(g, from)
  <2>1. /\ IsCall(g, Call(from, Ends(g, from))) /\ Later(g, Call(from, Ends(g, from))) = OutArcs(g, from)
        /\ IsCall(g, Call(from, <<>>))
    BY FreshCall
  <2>2. Call(from, Ends(g, from)).node = from /\ Call(from, <<>>).node = from
        /\ Call(from, <<>>).children = <<>>
    BY DEF Call
  <2>3. CASE most = 0
    BY <2>1, <2>2, <2>3
  <2>4. CASE most # 0
    BY <2>1, <2>2, <2>4
  <2> QED
    BY <2>3, <2>4
<1> HIDE DEF c
<1>2. cs \in Stack(g)
  <2>1. c \in [node : g.nodes, children : Seq(g.nodes)]
    BY <1>1 DEF IsCall
  <2> QED
    BY <2>1 DEF Stack
<1>3. Len(cs) = 1 /\ cs[1] = c /\ cs # <<>>
  OBVIOUS
<1> HIDE DEF cs
<1>4. CallsRule(g, from, most, cs)
  <2>1. \A i \in 1 .. Len(cs) : i = 1
    BY <1>3
  <2>2. \A i \in 1 .. Len(cs) - 1 : FALSE
    BY <1>3
  <2>3. most # 0 => 1 <= most
    OBVIOUS
  <2>4. \A i \in 1 .. Len(cs) : IsCall(g, cs[i]) /\ (cs[i].children # <<>> => i <= most)
    BY <1>1, <1>3, <2>1, <2>3
  <2> QED
    BY <1>1, <1>2, <1>3, <2>1, <2>2, <2>4 DEF CallsRule
<1>5. ASSUME NEW w \in Goals(g, from, to, most) PROVE Waits(g, cs, w)
  <2>1. w # <<>> /\ w \in Seq(g.arcs) /\ Len(w) <= most
    BY DEF Goals, StopOf
  <2>2. Len(w) \in Nat /\ 1 \in 1 .. Len(w) /\ most # 0
    BY <2>1
  <2>3. w[1] \in g.arcs
    BY <2>1, <2>2
  <2>4. w[1].source = from
    BY <2>2 DEF Goals, Simple
  <2>5. w[1] \in Later(g, cs[1])
    BY <1>1, <1>3, <2>2, <2>3, <2>4 DEF OutArcs
  <2>6. Follows(g, cs, w, 1 - 1) /\ 1 <= Len(w) /\ 1 \in 1 .. Len(cs)
    BY <1>3, <2>2 DEF Follows
  <2> QED
    BY <2>5, <2>6 DEF Waits
<1>6. Found(g, from, to, most, cs) = {}
  BY <1>5 DEF Found
<1>7. WalkOf(<<>>, <<>>, from, {})
  BY DEF WalkOf, IsSequence
<1>8. \E f : WalkOf(f, <<>>, from, Found(g, from, to, most, cs))
  BY <1>6, <1>7, Zenon
<1> QED
  BY <1>4, <1>8 DEF WalkRule, cs, c

\* A node is at the end of no edge of a walk to itself.
LEMMA AlreadyAtTarget ==
  ASSUME NEW g, IsMultigraph(g), NEW from \in g.nodes, NEW most \in Nat
  PROVE  WalkRule(g, from, from, most, <<>>, <<<<from>>>>)
<1> DEFINE S == Goals(g, from, from, most)
<1>1. \A w : w \in S <=> w = <<>>
  <2>1. ASSUME NEW w \in S PROVE w = <<>>
    <3> SUFFICES ASSUME w # <<>> PROVE FALSE
      OBVIOUS
    <3>1. w \in Seq(g.arcs) /\ w[Len(w)].target = from
      BY DEF Goals, StopOf
    <3>2. Len(w) \in 1 .. Len(w)
      BY <3>1
    <3> QED
      BY <3>1, <3>2 DEF Goals, Simple
  <2>2. <<>> \in S
    BY DEF Goals, StopOf, Simple
  <2> QED
    BY <2>1, <2>2
<1>2. CallsRule(g, from, most, <<>>)
  BY DEF CallsRule, Stack
<1>3. \A w : ~Waits(g, <<>>, w)
  BY DEF Waits
<1>4. Found(g, from, from, most, <<>>) = {<<>>}
  BY <1>1, <1>3 DEF Found
<1>5. VisitedBy(from, <<>>) = <<from>>
  <2> DEFINE e == [i \in DOMAIN <<>> |-> <<>>[i].target]
  <2>1. e = <<>>
    OBVIOUS
  <2>2. <<from>> \o <<>> = <<from>>
    OBVIOUS
  <2>3. VisitedBy(from, <<>>) = <<from>> \o e
    BY DEF VisitedBy
  <2> QED
    BY <2>1, <2>2, <2>3
<1>6. WalkOf(<<<<>>>>, <<<<from>>>>, from, {<<>>})
  BY <1>5 DEF WalkOf, IsSequence
<1> QED
  BY <1>2, <1>4, <1>6 DEF WalkRule

-----------------------------------------------------------------------------
(* SimpleWalks are the simple walks.                                       *)

LeadsOn(from, w, a) ==
  /\ a.source = IF w = <<>> THEN from ELSE Last(w).target
  /\ a.target \notin {from} \cup {w[i].target : i \in DOMAIN w}
Longer(g, from, W) ==
  {Append(p[1], p[2]) : p \in {q \in W \X g.arcs : LeadsOn(from, q[1], q[2])}}
WalksAreLonger(g, from, walks) ==
  walks = [k \in Nat |-> IF k = 0 THEN {<<>>} ELSE Longer(g, from, walks[k - 1])]
WalksOfLength(g, from, k) == {w \in Seq(g.arcs) : Simple(g, from, w) /\ Len(w) = k}

LEMMA SimpleWalksChosen ==
  \A from, most : SimpleWalks(from, most) =
    UNION {(CHOOSE walks : WalksAreLonger(graph, from, walks))[k] : k \in 0 .. most}
BY DEF SimpleWalks, WalksAreLonger, Longer, LeadsOn

LEMMA LongerSimple ==
  ASSUME NEW g, NEW from, NEW k \in Nat, NEW w \in Seq(g.arcs), NEW a \in g.arcs, Len(w) = k
  PROVE  /\ Append(w, a) \in Seq(g.arcs) /\ Len(Append(w, a)) = k + 1
         /\ Simple(g, from, Append(w, a)) <=> Simple(g, from, w) /\ LeadsOn(from, w, a)
<1> DEFINE v == Append(w, a)
<1>1. /\ v \in Seq(g.arcs) /\ Len(v) = k + 1 /\ v[k + 1] = a
      /\ \A i \in 1 .. k : v[i] = w[i]
  OBVIOUS
<1>2. DOMAIN w = 1 .. k /\ (w = <<>> <=> k = 0) /\ Last(w) = w[k]
  BY DEF Last
<1> HIDE DEF v
<1> DEFINE At(u, i) == /\ u[i].source = IF i = 1 THEN from ELSE u[i - 1].target
                       /\ u[i].target # from
                       /\ \A j \in 1 .. i - 1 : u[i].target # u[j].target
<1>3. ASSUME NEW i \in 1 .. k PROVE At(v, i) <=> At(w, i)
  <2>1. v[i] = w[i] /\ \A j \in 1 .. i - 1 : v[j] = w[j]
    BY <1>1
  <2>2. i # 1 => v[i - 1] = w[i - 1]
    BY <1>1
  <2> QED
    BY <2>1, <2>2
<1>4. At(v, k + 1) <=> LeadsOn(from, w, a)
  <2>1. (k + 1) - 1 = k /\ (k + 1 = 1 <=> k = 0) /\ (k # 0 => k \in 1 .. k)
    OBVIOUS
  <2>2. At(v, k + 1) <=> /\ v[k + 1].source = IF k + 1 = 1 THEN from ELSE v[(k + 1) - 1].target
                         /\ v[k + 1].target # from
                         /\ \A j \in 1 .. (k + 1) - 1 : v[k + 1].target # v[j].target
    OBVIOUS
  <2>3. At(v, k + 1) <=> /\ a.source = IF k = 0 THEN from ELSE v[k].target
                         /\ a.target # from
                         /\ \A j \in 1 .. k : a.target # v[j].target
    BY <1>1, <2>1, <2>2, Zenon
  <2>4. k # 0 => v[k].target = Last(w).target
    BY <1>1, <1>2, <2>1
  <2>5. (\A j \in 1 .. k : a.target # v[j].target) <=> a.target \notin {w[i].target : i \in DOMAIN w}
    BY <1>1, <1>2
  <2> HIDE DEF At
  <2> QED
    BY <1>2, <2>3, <2>4, <2>5 DEF LeadsOn
<1>5. Simple(g, from, v) <=> \A i \in 1 .. k + 1 : At(v, i)
  BY <1>1 DEF Simple
<1>6. Simple(g, from, w) <=> \A i \in 1 .. k : At(w, i)
  BY DEF Simple
<1>7. \A i \in 1 .. k + 1 : i \in 1 .. k \/ i = k + 1
  OBVIOUS
<1>8. k + 1 \in 1 .. k + 1 /\ 1 .. k \subseteq 1 .. k + 1
  OBVIOUS
<1> HIDE DEF At
<1>9. Simple(g, from, v) <=> Simple(g, from, w) /\ LeadsOn(from, w, a)
  BY <1>3, <1>4, <1>5, <1>6, <1>7, <1>8
<1> QED
  BY <1>1, <1>9 DEF v

LEMMA LongerWalks ==
  ASSUME NEW g, NEW from, NEW k \in Nat
  PROVE  Longer(g, from, WalksOfLength(g, from, k)) = WalksOfLength(g, from, k + 1)
<1> DEFINE W == WalksOfLength(g, from, k)
           V == WalksOfLength(g, from, k + 1)
<1>1. \A v : v \in Longer(g, from, W) <=> \E w \in W, a \in g.arcs : LeadsOn(from, w, a) /\ v = Append(w, a)
  <2> HIDE DEF W
  <2>1. ASSUME NEW v \in Longer(g, from, W)
        PROVE  \E w \in W, a \in g.arcs : LeadsOn(from, w, a) /\ v = Append(w, a)
    <3>1. PICK p \in {q \in W \X g.arcs : LeadsOn(from, q[1], q[2])} : v = Append(p[1], p[2])
      BY DEF Longer
    <3>2. p[1] \in W /\ p[2] \in g.arcs /\ LeadsOn(from, p[1], p[2])
      BY <3>1
    <3> QED
      BY <3>1, <3>2
  <2>2. ASSUME NEW w \in W, NEW a \in g.arcs, LeadsOn(from, w, a)
        PROVE  Append(w, a) \in Longer(g, from, W)
    <3> DEFINE p == <<w, a>>
    <3>1. p \in {q \in W \X g.arcs : LeadsOn(from, q[1], q[2])} /\ p[1] = w /\ p[2] = a
      BY <2>2
    <3> HIDE DEF p
    <3>2. Append(p[1], p[2]) \in Longer(g, from, W)
      BY <3>1 DEF Longer
    <3> QED
      BY <3>1, <3>2
  <2> QED
    BY <2>1, <2>2
<1>2. ASSUME NEW w \in W, NEW a \in g.arcs, LeadsOn(from, w, a) PROVE Append(w, a) \in V
  <2>1. w \in Seq(g.arcs) /\ Simple(g, from, w) /\ Len(w) = k
    BY DEF WalksOfLength
  <2>2. /\ Append(w, a) \in Seq(g.arcs) /\ Len(Append(w, a)) = k + 1
        /\ Simple(g, from, Append(w, a)) <=> Simple(g, from, w) /\ LeadsOn(from, w, a)
    BY <2>1, LongerSimple
  <2> QED
    BY <1>2, <2>1, <2>2 DEF WalksOfLength
<1>3. ASSUME NEW v \in V PROVE \E w \in W, a \in g.arcs : LeadsOn(from, w, a) /\ v = Append(w, a)
  <2>1. v \in Seq(g.arcs) /\ Simple(g, from, v) /\ Len(v) = k + 1
    BY DEF WalksOfLength
  <2> DEFINE w == SubSeq(v, 1, k)
             a == v[k + 1]
  <2>2. a \in g.arcs
    BY <2>1
  <2>3. w \in Seq(g.arcs) /\ Len(w) = k /\ \A i \in 1 .. k : w[i] = v[i]
    <3>1. k <= Len(v)
      BY <2>1
    <3> QED
      BY <2>1, <3>1, PrefixIs
  <2>4. v = Append(w, a)
    <3> HIDE DEF w, V, W
    <3>1. \A i \in 1 .. k + 1 : i \in 1 .. k \/ i = k + 1
      OBVIOUS
    <3>2. /\ Append(w, a) \in Seq(g.arcs)
          /\ Len(Append(w, a)) = k + 1
          /\ \A i \in 1 .. k : Append(w, a)[i] = w[i]
          /\ Append(w, a)[k + 1] = v[k + 1]
      <4> HIDE DEF a
      <4>1. /\ Append(w, a) \in Seq(g.arcs)
            /\ Len(Append(w, a)) = Len(w) + 1
            /\ \A i \in 1 .. Len(w) : Append(w, a)[i] = w[i]
            /\ Append(w, a)[Len(w) + 1] = a
        BY <2>2, <2>3, AppendIs
      <4>2. a = v[k + 1]
        BY DEF a
      <4> QED
        BY <2>3, <4>1, <4>2
    <3>3. \A i \in 1 .. k + 1 : Append(w, a)[i] = v[i]
      BY <2>3, <3>1, <3>2
    <3> HIDE DEF a
    <3> QED
      BY <2>1, <3>2, <3>3
  <2> HIDE DEF w, a
  <2>5. Simple(g, from, Append(w, a))
    BY <2>1, <2>4
  <2>6. Simple(g, from, w) /\ LeadsOn(from, w, a)
    <3>1. Simple(g, from, Append(w, a)) <=> Simple(g, from, w) /\ LeadsOn(from, w, a)
      BY <2>2, <2>3, LongerSimple
    <3> QED
      BY <2>5, <3>1
  <2> QED
    BY <2>2, <2>3, <2>4, <2>6 DEF WalksOfLength
<1> HIDE DEF W, V
<1>4. Longer(g, from, W) = V
  <2> DEFINE L == Longer(g, from, W)
  <2>1. \A v : v \in L <=> \E w \in W, a \in g.arcs : LeadsOn(from, w, a) /\ v = Append(w, a)
    BY <1>1
  <2> HIDE DEF L
  <2>2. ASSUME NEW v \in L PROVE v \in V
    <3>1. PICK w \in W, a \in g.arcs : LeadsOn(from, w, a) /\ v = Append(w, a)
      BY <2>1, <2>2
    <3>2. Append(w, a) \in V
      BY <1>2, <3>1
    <3> QED
      BY <3>1, <3>2
  <2>3. \A v : v \in V => v \in L
    BY <1>3, <2>1
  <2> QED
    BY <2>2, <2>3 DEF L
<1> QED
  BY <1>4 DEF W, V

LEMMA WalksByLength ==
  ASSUME NEW g, NEW from
  PROVE  \A k \in Nat : (CHOOSE walks : WalksAreLonger(g, from, walks))[k] = WalksOfLength(g, from, k)
<1> DEFINE f == [k \in Nat |-> WalksOfLength(g, from, k)]
           b == CHOOSE walks : WalksAreLonger(g, from, walks)
<1>0. WalksOfLength(g, from, 0) = {<<>>}
  <2>1. Simple(g, from, <<>>)
    BY DEF Simple
  <2>2. \A w \in Seq(g.arcs) : Len(w) = 0 <=> w = <<>>
    OBVIOUS
  <2>3. \A w : w \in WalksOfLength(g, from, 0) <=>
                 w \in Seq(g.arcs) /\ Simple(g, from, w) /\ Len(w) = 0
    BY DEF WalksOfLength
  <2>4. <<>> \in Seq(g.arcs)
    OBVIOUS
  <2>5. \A w : w \in WalksOfLength(g, from, 0) <=> w = <<>>
    BY <2>1, <2>2, <2>3, <2>4, Zenon
  <2> QED
    BY <2>5, Zenon
<1>1. \A k \in Nat : f[k] = WalksOfLength(g, from, k)
  OBVIOUS
<1>2. DOMAIN f = Nat /\ f = [k \in Nat |-> f[k]]
  OBVIOUS
<1> HIDE DEF f
<1>3. ASSUME NEW k \in Nat PROVE f[k] = IF k = 0 THEN {<<>>} ELSE Longer(g, from, f[k - 1])
  <2>1. CASE k = 0
    BY <1>0, <1>1, <2>1
  <2>2. CASE k # 0
    <3>1. k - 1 \in Nat /\ (k - 1) + 1 = k
      BY <2>2
    <3>2. Longer(g, from, WalksOfLength(g, from, k - 1)) = WalksOfLength(g, from, (k - 1) + 1)
      BY <3>1, LongerWalks
    <3>3. f[k - 1] = WalksOfLength(g, from, k - 1) /\ f[k] = WalksOfLength(g, from, k)
      BY <1>1, <3>1
    <3>4. Longer(g, from, f[k - 1]) = f[k]
      BY <3>1, <3>2, <3>3, Zenon
    <3> QED
      BY <2>2, <3>4
  <2> QED
    BY <2>1, <2>2
<1>4. WalksAreLonger(g, from, f)
  BY <1>2, <1>3 DEF WalksAreLonger
<1>5. WalksAreLonger(g, from, b)
  BY <1>4
<1> HIDE DEF b
<1>6. \A k \in Nat : b[k] = IF k = 0 THEN {<<>>} ELSE Longer(g, from, b[k - 1])
  BY <1>5 DEF WalksAreLonger
<1> DEFINE T == {k \in Nat : b[k] = WalksOfLength(g, from, k)}
<1>7. 0 \in T
  BY <1>0, <1>6
<1>8. ASSUME NEW k \in Nat, k \in T PROVE k + 1 \in T
  <2>1. k + 1 \in Nat /\ k + 1 # 0 /\ (k + 1) - 1 = k
    OBVIOUS
  <2>2. b[k + 1] = Longer(g, from, b[(k + 1) - 1])
    BY <1>6, <2>1, Zenon
  <2>3. b[k] = WalksOfLength(g, from, k)
    BY <1>8
  <2>4. b[k + 1] = WalksOfLength(g, from, k + 1)
    BY <2>1, <2>2, <2>3, LongerWalks
  <2> QED
    BY <2>1, <2>4
<1> HIDE DEF T
<1>9. Nat \subseteq T
  BY <1>7, <1>8, Induction
<1> QED
  BY <1>9 DEF T, b

LEMMA SimpleWalksAre ==
  ASSUME NEW from, NEW most \in Nat
  PROVE  \A w : w \in SimpleWalks(from, most) <=>
                  w \in Seq(graph.arcs) /\ Simple(graph, from, w) /\ Len(w) <= most
<1> DEFINE b == CHOOSE walks : WalksAreLonger(graph, from, walks)
<1>1. \A k \in Nat : b[k] = WalksOfLength(graph, from, k)
  BY WalksByLength
<1>2. SimpleWalks(from, most) = UNION {b[k] : k \in 0 .. most}
  BY SimpleWalksChosen
<1> HIDE DEF b
<1>3. \A w : w \in SimpleWalks(from, most) <=>
               \E k \in 0 .. most : w \in Seq(graph.arcs) /\ Simple(graph, from, w) /\ Len(w) = k
  BY <1>1, <1>2 DEF WalksOfLength
<1>4. \A w \in Seq(graph.arcs) : Len(w) \in Nat
  OBVIOUS
<1> QED
  BY <1>3, <1>4

LEMMA IntervalSize ==
  ASSUME NEW n \in Nat
  PROVE  IsFiniteSet(1 .. n) /\ Cardinality(1 .. n) = n
BY FS_Interval

\* A simple walk is no longer than the graph has nodes.
LEMMA WalksAreShort ==
  ASSUME NEW g, IsMultigraph(g), NEW from, NEW w \in Seq(g.arcs), Simple(g, from, w)
  PROVE  Cardinality(g.nodes) \in Nat /\ Len(w) \in Nat /\ Len(w) <= Cardinality(g.nodes)
<1> DEFINE h == [i \in 1 .. Len(w) |-> w[i].target]
<1>1. Len(w) \in Nat /\ \A i \in 1 .. Len(w) : w[i] \in g.arcs
  OBVIOUS
<1>2. IsFiniteSet(g.nodes) /\ Cardinality(g.nodes) \in Nat
  BY FS_CardinalityType DEF IsMultigraph
<1>3. h \in [1 .. Len(w) -> g.nodes]
  BY <1>1 DEF IsMultigraph
<1>4. ASSUME NEW i \in 1 .. Len(w), NEW j \in 1 .. Len(w), h[i] = h[j] PROVE i = j
  <2>1. w[i].target = w[j].target
    BY <1>4
  <2>2. i < j => i \in 1 .. j - 1
    BY <1>1
  <2>3. j < i => j \in 1 .. i - 1
    BY <1>1
  <2>4. \A k \in 1 .. Len(w) : \A m \in 1 .. k - 1 : w[k].target # w[m].target
    BY DEF Simple
  <2>5. ~(i < j) /\ ~(j < i)
    BY <2>1, <2>2, <2>3, <2>4
  <2> QED
    BY <1>1, <2>5
<1> HIDE DEF h
<1>5. h \in Injection(1 .. Len(w), g.nodes)
  BY <1>3, <1>4 DEF Injection, IsInjective
<1>6. Cardinality(1 .. Len(w)) <= Cardinality(g.nodes)
  BY <1>2, <1>5, FS_Injection
<1>7. Cardinality(1 .. Len(w)) = Len(w)
  BY <1>1, IntervalSize
<1> QED
  BY <1>1, <1>2, <1>6, <1>7

-----------------------------------------------------------------------------
(* The paths in their order.                                               *)

LEMMA ShorterOrders ==
  ASSUME NEW a \in Text, NEW b \in Text, NEW c \in Text
  PROVE  /\ ~ShorterOrBefore(a, a)
         /\ ShorterOrBefore(a, b) /\ ShorterOrBefore(b, c) => ShorterOrBefore(a, c)
         /\ a = b \/ ShorterOrBefore(a, b) \/ ShorterOrBefore(b, a)
<1>1. Len(a) \in Nat /\ Len(b) \in Nat /\ Len(c) \in Nat
  BY TextIs
<1>2. ~TextLess(a, a)
  BY TextLessIrreflexive
<1>3. TextLess(a, b) /\ TextLess(b, c) => TextLess(a, c)
  BY TextLessTransitive
<1>4. a = b \/ TextLess(a, b) \/ TextLess(b, a)
  BY TextLessTotal
<1> QED
  BY <1>1, <1>2, <1>3, <1>4 DEF ShorterOrBefore

PathsBefore(res) ==
  {p \in (DOMAIN res) \X (DOMAIN res) :
     \/ ShorterOrBefore(res[p[1]], res[p[2]])
     \/ (res[p[1]] = res[p[2]] /\ p[1] < p[2])}

LEMMA BeforeIs ==
  ASSUME NEW res, NEW i \in DOMAIN res, NEW j \in DOMAIN res
  PROVE  <<i, j>> \in PathsBefore(res) <=>
           ShorterOrBefore(res[i], res[j]) \/ (res[i] = res[j] /\ i < j)
BY DEF PathsBefore

LEMMA PathsOrdered ==
  ASSUME NEW res, IsSequence(res), \A i \in DOMAIN res : res[i] \in Text
  PROVE  StrictOrder(PathsBefore(res), DOMAIN res)
<1> DEFINE S == DOMAIN res
           R == PathsBefore(res)
<1>1. S \subseteq Nat
  BY DEF IsSequence
<1>2. \A i, j \in S : <<i, j>> \in R <=> ShorterOrBefore(res[i], res[j]) \/ (res[i] = res[j] /\ i < j)
  BY BeforeIs
<1> HIDE DEF R
<1>3. \A i \in S : <<i, i>> \notin R
  BY <1>1, <1>2, ShorterOrders
<1>4. ASSUME NEW i \in S, NEW j \in S, NEW k \in S, <<i, j>> \in R, <<j, k>> \in R PROVE <<i, k>> \in R
  <2>1. ShorterOrBefore(res[i], res[j]) /\ ShorterOrBefore(res[j], res[k]) => ShorterOrBefore(res[i], res[k])
    BY ShorterOrders
  <2>2. i \in Nat /\ j \in Nat /\ k \in Nat
    BY <1>1
  <2>3. i < j /\ j < k => i < k
    BY <2>2
  <2> QED
    BY <1>2, <1>4, <2>1, <2>3
<1>5. ASSUME NEW i \in S, NEW j \in S PROVE i = j \/ <<i, j>> \in R \/ <<j, i>> \in R
  <2>1. res[i] = res[j] \/ ShorterOrBefore(res[i], res[j]) \/ ShorterOrBefore(res[j], res[i])
    BY ShorterOrders
  <2>2. i = j \/ i < j \/ j < i
    BY <1>1
  <2> QED
    BY <1>2, <2>1, <2>2
<1> HIDE DEF S
<1>6. StrictOrder(R, S)
  BY <1>3, <1>4, <1>5 DEF StrictOrder
<1> QED
  BY <1>6 DEF R, S

\* sorted has the paths of res in their order, at the places order gives.
SortsPaths(sorted, order, res) ==
  /\ Lists(order, DOMAIN res)
  /\ Len(order) = Len(res)
  /\ sorted = [i \in 1 .. Len(res) |-> res[order[i]]]
  /\ \A i, j \in 1 .. Len(res) : i < j => <<order[i], order[j]>> \in PathsBefore(res)

SortedOf(res) ==
  LET order == SortedBy(DOMAIN res,
                 LAMBDA i, j : \/ ShorterOrBefore(res[i], res[j])
                               \/ (res[i] = res[j] /\ i < j))
  IN [i \in DOMAIN order |-> res[order[i]]]

LEMMA SortedPathsAre == SortedPaths = SortedOf(results)
BY DEF SortedPaths, SortedOf

LEMMA SortedOfIs ==
  ASSUME NEW res, IsSequence(res), \A i \in DOMAIN res : res[i] \in Text
  PROVE  \E order : SortsPaths(SortedOf(res), order, res)
<1> DEFINE S == DOMAIN res
           R == PathsBefore(res)
           pick(r) == CHOOSE e \in S :
                        Cardinality({d \in S : \/ ShorterOrBefore(res[d], res[e])
                                               \/ (res[d] = res[e] /\ d < e)}) = r - 1
           order == [r \in 1 .. Cardinality(S) |-> pick(r)]
           sorted == SortedOf(res)
<1>1. Len(res) \in Nat /\ S = 1 .. Len(res)
  BY DEF IsSequence
<1>2. IsFiniteSet(S) /\ Cardinality(S) = Len(res)
  BY <1>1, IntervalSize
<1>3. sorted = [i \in DOMAIN order |-> res[order[i]]]
  BY DEF SortedOf, SortedBy
<1>4. \A e \in S : {d \in S : ShorterOrBefore(res[d], res[e]) \/ (res[d] = res[e] /\ d < e)} = Below(R, S, e)
  <2> HIDE DEF R
  <2>1. \A d, e \in S : <<d, e>> \in R <=> ShorterOrBefore(res[d], res[e]) \/ (res[d] = res[e] /\ d < e)
    BY BeforeIs DEF R
  <2> QED
    BY <2>1 DEF Below
<1>5. ASSUME NEW r \in 1 .. Cardinality(S), \E e \in S : RankIn(R, S, e) = r - 1
      PROVE  pick(r) \in S /\ RankIn(R, S, pick(r)) = r - 1
  <2>1. PICK e \in S : Cardinality({d \in S : \/ ShorterOrBefore(res[d], res[e])
                                              \/ (res[d] = res[e] /\ d < e)}) = r - 1
    BY <1>4, <1>5 DEF RankIn
  <2>2. /\ pick(r) \in S
        /\ Cardinality({d \in S : \/ ShorterOrBefore(res[d], res[pick(r)])
                                  \/ (res[d] = res[pick(r)] /\ d < pick(r))}) = r - 1
    BY <2>1
  <2> HIDE DEF pick
  <2> QED
    BY <1>4, <2>2 DEF RankIn
<1> HIDE DEF pick, R
<1>6. /\ DOMAIN order = 1 .. Cardinality(S) /\ order = [i \in DOMAIN order |-> order[i]]
      /\ \A r \in 1 .. Cardinality(S) : order[r] = pick(r)
  OBVIOUS
<1> HIDE DEF order, S
<1>7. StrictOrder(R, S)
  BY PathsOrdered DEF R, S
<1>8. InOrder(order, R, S)
  BY <1>2, <1>5, <1>6, <1>7, InOrderByRank
<1>9. Lists(order, S) /\ \A i, j \in DOMAIN order : i < j => <<order[i], order[j]>> \in R
  BY <1>8, EnumerationIs DEF InOrder
<1>10. Len(order) = Len(res) /\ DOMAIN order = 1 .. Len(res)
  BY <1>2, <1>6, <1>9 DEF Lists
<1> HIDE DEF sorted
<1>11. SortsPaths(sorted, order, res)
  BY <1>3, <1>9, <1>10 DEF SortsPaths, S, R
<1> QED
  BY <1>11 DEF sorted


PlacesOf(s, p) == {i \in DOMAIN s : s[i] = p}
LinesOf(s, p) == Cardinality(PlacesOf(s, p))
WaysOf(W, from, p) == {w \in W : VisitedBy(from, w) = p}

LEMMA WaysCounted ==
  ASSUME NEW f, NEW res, NEW from, NEW W, WalkOf(f, res, from, W)
  PROVE  /\ IsFiniteSet(W) /\ Cardinality(W) = Len(res)
         /\ \A p : Cardinality(WaysOf(W, from, p)) = LinesOf(res, p)
<1>1. /\ Len(res) \in Nat /\ DOMAIN res = 1 .. Len(res)
      /\ \A i \in DOMAIN res : f[i] \in W /\ res[i] = VisitedBy(from, f[i])
      /\ \A i, j \in DOMAIN res : f[i] = f[j] => i = j
      /\ \A w \in W : \E i \in DOMAIN res : f[i] = w
  BY DEF WalkOf, IsSequence
<1>2. IsFiniteSet(DOMAIN res) /\ Cardinality(DOMAIN res) = Len(res)
  BY <1>1, IntervalSize
<1>3. IsFiniteSet(W) /\ Cardinality(W) = Len(res)
  <2> DEFINE S == DOMAIN res
             h == [i \in S |-> f[i]]
  <2>1. h \in [S -> W] /\ \A i \in S : h[i] = f[i]
    BY <1>1
  <2>2. \A i, j \in S : h[i] = h[j] => i = j
    BY <1>1, <2>1
  <2>3. \A w \in W : \E i \in S : h[i] = w
    BY <1>1, <2>1
  <2> HIDE DEF S, h
  <2>4. IsFiniteSet(S) /\ Cardinality(S) = Len(res)
    BY <1>2 DEF S
  <2> QED
    BY <2>1, <2>2, <2>3, <2>4, SameSize
<1>4. ASSUME NEW p PROVE Cardinality(WaysOf(W, from, p)) = LinesOf(res, p)
  <2> DEFINE S == PlacesOf(res, p)
             T == WaysOf(W, from, p)
             h == [i \in S |-> f[i]]
  <2>1. \A i : i \in S <=> i \in DOMAIN res /\ res[i] = p
    BY DEF PlacesOf
  <2>2. \A w : w \in T <=> w \in W /\ VisitedBy(from, w) = p
    BY DEF WaysOf
  <2>3. IsFiniteSet(S)
    BY <1>2, <2>1, FS_Subset
  <2> HIDE DEF S, T
  <2>4. h \in [S -> T] /\ \A i \in S : h[i] = f[i]
    BY <1>1, <2>1, <2>2
  <2> HIDE DEF h
  <2>5. \A i, j \in S : h[i] = h[j] => i = j
    BY <1>1, <2>1, <2>4
  <2>6. \A w \in T : \E i \in S : h[i] = w
    BY <1>1, <2>1, <2>2, <2>4
  <2>7. Cardinality(T) = Cardinality(S)
    BY <2>3, <2>4, <2>5, <2>6, SameSize
  <2> QED
    BY <2>7 DEF S, T, LinesOf
<1> QED
  BY <1>3, <1>4

LEMMA SortedLines ==
  ASSUME NEW res, IsSequence(res), NEW sorted, NEW order, SortsPaths(sorted, order, res), NEW p
  PROVE  LinesOf(sorted, p) = LinesOf(res, p) /\ IsFiniteSet(PlacesOf(sorted, p))
<1> DEFINE S == PlacesOf(sorted, p)
           T == PlacesOf(res, p)
           h == [i \in S |-> order[i]]
<1>1. /\ Len(res) \in Nat /\ DOMAIN res = 1 .. Len(res)
      /\ DOMAIN sorted = 1 .. Len(res)
      /\ \A i \in 1 .. Len(res) : sorted[i] = res[order[i]]
      /\ \A i \in 1 .. Len(res) : order[i] \in DOMAIN res
      /\ \A e \in DOMAIN res : \E i \in 1 .. Len(res) : order[i] = e
      /\ \A i, j \in 1 .. Len(res) : order[i] = order[j] => i = j
  BY DEF SortsPaths, Lists, IsSequence
<1>2. \A i : i \in S <=> i \in 1 .. Len(res) /\ sorted[i] = p
  BY <1>1 DEF PlacesOf
<1>3. \A i : i \in T <=> i \in DOMAIN res /\ res[i] = p
  BY DEF PlacesOf
<1>4. IsFiniteSet(S)
  <2>1. IsFiniteSet(1 .. Len(res))
    BY <1>1, IntervalSize
  <2> QED
    BY <1>2, <2>1, FS_Subset
<1> HIDE DEF S, T
<1>5. h \in [S -> T] /\ \A i \in S : h[i] = order[i]
  BY <1>1, <1>2, <1>3
<1> HIDE DEF h
<1>6. \A i, j \in S : h[i] = h[j] => i = j
  BY <1>1, <1>2, <1>5
<1>7. ASSUME NEW e \in T PROVE \E i \in S : h[i] = e
  <2>1. PICK i \in 1 .. Len(res) : order[i] = e
    BY <1>1, <1>3
  <2>2. i \in S
    BY <1>1, <1>2, <1>3, <2>1
  <2> QED
    BY <1>5, <2>1, <2>2
<1>8. Cardinality(T) = Cardinality(S)
  BY <1>4, <1>5, <1>6, <1>7, SameSize
<1> QED
  BY <1>4, <1>8 DEF LinesOf, S, T

(* What is printed of the paths found.                                     *)
Texts(res) == \A i \in DOMAIN res : res[i] \in Text
Printing(out, res, most) == out = SubSeq(SortedOf(res), 1, Least(Len(res), most))
Answers(out, W, from, most) ==
  /\ Len(out) = Least(Cardinality(W), most)
  /\ \A i \in 1 .. Len(out) - 1 : ~ShorterOrBefore(out[i + 1], out[i])
  /\ \A p : LinesOf(out, p) <= Cardinality(WaysOf(W, from, p))
  /\ \A w \in W, p \in ToSet(out) :
       ShorterOrBefore(VisitedBy(from, w), p) =>
         LinesOf(out, VisitedBy(from, w)) = Cardinality(WaysOf(W, from, VisitedBy(from, w)))

LEMMA PrintedPaths ==
  ASSUME NEW f, NEW res, NEW from, NEW W, WalkOf(f, res, from, W), Texts(res),
         NEW most \in Nat, NEW out, Printing(out, res, most)
  PROVE  Answers(out, W, from, most)
<1> DEFINE n == Len(res)
           m == Least(n, most)
           sorted == SortedOf(res)
<1>0. /\ \A i \in DOMAIN res : res[i] \in Text
      /\ out = SubSeq(SortedOf(res), 1, Least(Len(res), most))
  BY DEF Texts, Printing
<1>1. IsSequence(res) /\ n \in Nat /\ DOMAIN res = 1 .. n
  BY DEF WalkOf, IsSequence
<1>2. PICK order : SortsPaths(sorted, order, res)
  BY <1>0, <1>1, SortedOfIs
<1>3. m \in 0 .. n /\ m \in Nat /\ m <= n
  BY <1>1 DEF Least
<1> HIDE DEF sorted, m
<1>4. /\ sorted = [i \in 1 .. n |-> res[order[i]]]
      /\ \A i \in 1 .. n : order[i] \in 1 .. n
      /\ \A i, j \in 1 .. n : i < j => <<order[i], order[j]>> \in PathsBefore(res)
  BY <1>1, <1>2 DEF SortsPaths, Lists
<1> HIDE DEF n
<1>5. \A i \in 1 .. n : sorted[i] = res[order[i]] /\ sorted[i] \in Text
  BY <1>0, <1>1, <1>4
<1>6. sorted \in Seq(Text) /\ Len(sorted) = n
  BY <1>1, <1>4, <1>5
<1>7. Len(out) = m /\ out \in Seq(Text) /\ \A i \in 1 .. m : out[i] = sorted[i]
  BY <1>0, <1>3, <1>6, PrefixIs DEF m, sorted, n
<1>8. \A i, j \in 1 .. n : i < j => sorted[i] = sorted[j] \/ ShorterOrBefore(sorted[i], sorted[j])
  <2> SUFFICES ASSUME NEW i \in 1 .. n, NEW j \in 1 .. n, i < j
               PROVE  sorted[i] = sorted[j] \/ ShorterOrBefore(sorted[i], sorted[j])
    OBVIOUS
  <2>1. order[i] \in DOMAIN res /\ order[j] \in DOMAIN res /\ <<order[i], order[j]>> \in PathsBefore(res)
    BY <1>1, <1>4
  <2>2. ShorterOrBefore(res[order[i]], res[order[j]]) \/ res[order[i]] = res[order[j]]
    BY <2>1, BeforeIs
  <2> QED
    BY <1>5, <2>2
<1>9. \A i, j \in 1 .. n : ShorterOrBefore(sorted[i], sorted[j]) => i < j
  <2> SUFFICES ASSUME NEW i \in 1 .. n, NEW j \in 1 .. n, ShorterOrBefore(sorted[i], sorted[j]), ~(i < j)
               PROVE  FALSE
    OBVIOUS
  <2>1. ~ShorterOrBefore(sorted[i], sorted[i])
    BY <1>5, ShorterOrders
  <2>2. i # j
    BY <2>1
  <2>3. j < i
    BY <1>1, <2>2
  <2>4. sorted[j] = sorted[i] \/ ShorterOrBefore(sorted[j], sorted[i])
    BY <1>8, <2>3
  <2>5. ShorterOrBefore(sorted[j], sorted[i]) => ShorterOrBefore(sorted[i], sorted[i])
    BY <1>5, ShorterOrders
  <2> QED
    BY <2>1, <2>4, <2>5
<1>10. /\ IsFiniteSet(W) /\ Cardinality(W) = n
       /\ \A p : Cardinality(WaysOf(W, from, p)) = LinesOf(res, p)
  BY WaysCounted DEF n
<1>11. \A p : LinesOf(sorted, p) = LinesOf(res, p) /\ IsFiniteSet(PlacesOf(sorted, p))
  BY <1>1, <1>2, SortedLines
<1>12. Len(out) = Least(Cardinality(W), most)
  BY <1>7, <1>10 DEF m
<1>13. ASSUME NEW i \in 1 .. Len(out) - 1 PROVE ~ShorterOrBefore(out[i + 1], out[i])
  <2>1. i \in 1 .. m /\ i + 1 \in 1 .. m /\ i \in 1 .. n /\ i + 1 \in 1 .. n /\ ~(i + 1 < i)
    BY <1>1, <1>3, <1>7
  <2> QED
    BY <1>7, <1>9, <2>1
<1>14. DOMAIN out = 1 .. m /\ DOMAIN sorted = 1 .. n
  BY <1>6, <1>7, ElementsIn
<1>15. ASSUME NEW p PROVE PlacesOf(out, p) = {i \in PlacesOf(sorted, p) : i <= m}
  <2>1. \A i : i \in 1 .. m <=> i \in 1 .. n /\ i <= m
    BY <1>1, <1>3
  <2> QED
    BY <1>7, <1>14, <2>1 DEF PlacesOf
<1>16. ASSUME NEW p PROVE LinesOf(out, p) <= Cardinality(WaysOf(W, from, p))
  <2>1. PlacesOf(out, p) \in SUBSET PlacesOf(sorted, p)
    BY <1>15
  <2>2. LinesOf(out, p) <= LinesOf(sorted, p)
    BY <1>11, <2>1, FS_Subset DEF LinesOf
  <2> QED
    BY <1>10, <1>11, <2>2
<1>17. ASSUME NEW w \in W, NEW p \in ToSet(out), ShorterOrBefore(VisitedBy(from, w), p)
       PROVE  LinesOf(out, VisitedBy(from, w)) = Cardinality(WaysOf(W, from, VisitedBy(from, w)))
  <2> DEFINE q == VisitedBy(from, w)
  <2>1. PICK k \in 1 .. m : p = out[k]
    BY <1>14 DEF ToSet
  <2>2. k \in 1 .. n /\ p = sorted[k]
    BY <1>1, <1>3, <1>7, <2>1
  <2>3. ASSUME NEW i \in PlacesOf(sorted, q) PROVE i <= m
    <3>1. i \in 1 .. n /\ sorted[i] = q
      BY <1>14 DEF PlacesOf
    <3>2. i < k
      BY <1>9, <1>17, <2>2, <3>1
    <3> QED
      BY <1>1, <1>3, <2>1, <3>1, <3>2
  <2> HIDE DEF q
  <2>4. PlacesOf(out, q) = PlacesOf(sorted, q)
    BY <1>15, <2>3
  <2> QED
    BY <1>10, <1>11, <2>4 DEF LinesOf, q
<1> QED
  BY <1>12, <1>13, <1>16, <1>17 DEF Answers

-----------------------------------------------------------------------------
(* path, from the call to the exit.                                        *)

PathOutcome(asked, g, res, out, code) ==
  IF ~({asked.from, asked.to} \subseteq g.nodes) THEN code = 1
  ELSE /\ WalkRule(g, asked.from, asked.to, asked.depth, <<>>, res)
       /\ IF res = <<>> THEN code = 1
          ELSE code = 0 /\ out = SubSeq(SortedOf(res), 1, Least(Len(res), asked.max))

PathStage(f, asked, g, st, cs, res, out, code) ==
  /\ st \in {"ready", "built", "walking", "ended"}
  /\ st # "walking" => cs = <<>>
  /\ st \in {"ready", "built"} => res = <<>>
  /\ st \in {"built", "walking"} \/ (st = "ended" /\ code # 2) => g = BuildGraph(f)
  /\ st = "walking" => WalkRule(g, asked.from, asked.to, asked.depth, cs, res)
  /\ st = "ended" /\ code # 2 => PathOutcome(asked, g, res, out, code)

\* A path command has at every stage found the walks it has come by.
PathsInv ==
  command.op = "path" => PathStage(file, command, graph, status, calls, results, output, exit)

LEMMA PathAsked ==
  ASSUME SearchesInv, command.op = "path"
  PROVE  /\ command.depth \in Nat /\ command.max \in Nat
         /\ graph = BuildGraph(file) => IsMultigraph(graph) /\ graph.nodes \subseteq Nat
<1>1. IsInvocation(file, command)
  BY DEF SearchesInv
<1>2. command.depth \in Nat /\ command.max \in Nat
  BY <1>1 DEF IsInvocation
<1>3. IsMultigraph(BuildGraph(file))
  BY <1>1, GraphOfFile
<1>4. BuildGraph(file).nodes \subseteq Nat
  <2>1. \A k \in DOMAIN file.nodes : file.nodes[k].id \in Nat
    BY <1>1 DEF IsInvocation
  <2> QED
    BY <2>1 DEF BuildGraph
<1> QED
  BY <1>2, <1>3, <1>4

LEMMA StartPathsStage == SearchesInv /\ PathsInv /\ StartPaths => PathsInv'
<1> SUFFICES ASSUME SearchesInv, PathsInv, StartPaths PROVE PathsInv'
  OBVIOUS
<1>1. /\ status = "built" /\ status' = "walking" /\ command.op = "path"
      /\ UNCHANGED <<file, command, graph, output, exit>>
      /\ command.from \in graph.nodes /\ command.to \in graph.nodes
  BY DEF StartPaths, Keep
<1>2. calls = <<>> /\ results = <<>> /\ graph = BuildGraph(file)
  BY <1>1 DEF PathsInv, PathStage
<1>3. IsMultigraph(graph) /\ command.depth \in Nat
  BY <1>1, <1>2, PathAsked
<1>4. WalkRule(graph, command.from, command.to, command.depth, calls', results')
  <2>1. CASE command.from = command.to
    <3>1. calls' = <<>> /\ results' = <<<<command.from>>>>
      BY <1>2, <2>1 DEF StartPaths
    <3>2. WalkRule(graph, command.from, command.from, command.depth, <<>>, <<<<command.from>>>>)
      BY <1>1, <1>3, AlreadyAtTarget
    <3> QED
      BY <2>1, <3>1, <3>2
  <2>2. CASE command.from # command.to
    <3>1. /\ calls' = <<Call(command.from, IF command.depth = 0 THEN <<>> ELSE Onward(command.from))>>
          /\ results' = <<>>
      BY <1>2, <2>2 DEF StartPaths
    <3>2. Onward(command.from) = Ends(graph, command.from)
      BY <1>3, OnwardIs
    <3>3. WalkRule(graph, command.from, command.to, command.depth,
                   <<Call(command.from, IF command.depth = 0 THEN <<>> ELSE Ends(graph, command.from))>>,
                   <<>>)
      BY <1>1, <1>3, <2>2, FirstCall
    <3> QED
      BY <3>1, <3>2, <3>3
  <2> QED
    BY <2>1, <2>2
<1>5. PathStage(file, command, graph, "walking", calls', results', output, exit)
  BY <1>2, <1>4 DEF PathStage
<1> QED
  BY <1>1, <1>5 DEF PathsInv

\* The calls are those of a path that is walked.
LEMMA InCalls ==
  ASSUME SearchesInv, PathsInv, command.op = "path", calls # <<>>
  PROVE  /\ status = "walking" /\ graph = BuildGraph(file) /\ IsMultigraph(graph)
         /\ command.depth \in Nat
         /\ WalkRule(graph, command.from, command.to, command.depth, calls, results)
         /\ calls \in Stack(graph)
<1>1. /\ status = "walking" /\ graph = BuildGraph(file)
      /\ WalkRule(graph, command.from, command.to, command.depth, calls, results)
  BY DEF PathsInv, PathStage
<1>2. calls \in Stack(graph)
  BY <1>1 DEF WalkRule, CallsRule
<1> QED
  BY <1>1, <1>2, PathAsked

LEMMA OnTrailIs ==
  ASSUME NEW n
  PROVE  n \in ToSet(DfsTrail) <=> \E i \in DOMAIN calls : calls[i].node = n
BY DEF DfsTrail, ToSet

LEMMA WalkedOn ==
  ASSUME command.op = "path", status = "walking", graph = BuildGraph(file),
         UNCHANGED <<file, command, graph, status, output, exit>>,
         WalkRule(graph, command.from, command.to, command.depth, calls', results')
  PROVE  PathsInv'
<1>1. PathStage(file, command, graph, "walking", calls', results', output, exit)
  BY DEF PathStage
<1> QED
  BY <1>1 DEF PathsInv

LEMMA DfsEnterStage == SearchesInv /\ PathsInv /\ DfsEnter => PathsInv'
<1> SUFFICES ASSUME SearchesInv, PathsInv, DfsEnter, command.op = "path" PROVE PathsInv'
  BY DEF PathsInv, DfsEnter, Keep
<1> DEFINE n == Head(Innermost.children)
           ds == NextChild
<1>1. /\ calls # <<>> /\ Innermost.children # <<>> /\ n \notin ToSet(DfsTrail)
      /\ UNCHANGED <<file, command, graph, status, output, exit>>
  BY DEF DfsEnter, Keep
<1>2. /\ status = "walking" /\ graph = BuildGraph(file) /\ IsMultigraph(graph)
      /\ command.depth \in Nat
      /\ WalkRule(graph, command.from, command.to, command.depth, calls, results)
      /\ calls \in Stack(graph)
  BY <1>1, InCalls
<1>3. TakesChild(graph, calls, ds)
  BY <1>1, <1>2, ChildOff DEF NextChild, Innermost
<1>4. Innermost = calls[Len(calls)] /\ n = Head(calls[Len(calls)].children)
  BY DEF Innermost
<1>5. \A i \in 1 .. Len(calls) : calls[i].node # n
  BY <1>1, <1>2, OnTrailIs, ElementsIn DEF Stack
<1>6. n \in graph.nodes /\ ds \in Stack(graph)
  <2>1. CallsRule(graph, command.from, command.depth, calls)
    BY <1>2 DEF WalkRule
  <2> HIDE DEF n, ds
  <2>2. ds \in Stack(graph)
    BY <1>3 DEF TakesChild
  <2>3. calls[Len(calls)].children # <<>>
    BY <1>3 DEF TakesChild
  <2>4. n \in graph.nodes
    BY <1>2, <1>3, <1>4, <2>1, <2>3, ChildIs
  <2> QED
    BY <2>2, <2>4
<1>7. Onward(n) = Ends(graph, n)
  BY <1>2, OnwardIs
<1>8. /\ n = command.to => results' = Append(results, PathTo(calls, n))
                           /\ calls' = Append(ds, Call(n, <<>>))
      /\ n # command.to => results' = results
      /\ n # command.to /\ Len(calls) >= command.depth => calls' = Append(ds, Call(n, <<>>))
      /\ n # command.to /\ ~(Len(calls) >= command.depth) => calls' = Append(ds, Call(n, Onward(n)))
  BY DEF DfsEnter, PathTo, DfsTrail
<1> HIDE DEF n, ds
<1>9. /\ Call(n, <<>>) \in [node : graph.nodes, children : Seq(graph.nodes)]
      /\ Call(n, Ends(graph, n)) \in [node : graph.nodes, children : Seq(graph.nodes)]
  BY <1>2, <1>6, FreshCall DEF IsCall
<1>10. CASE n = command.to
  <2> DEFINE es == calls'
  <2>3. es = Append(ds, Call(n, <<>>))
    BY <1>8, <1>10
  <2>4. Enters(graph, ds, Call(n, <<>>), Append(ds, Call(n, <<>>)))
    BY <1>6, <1>9, CallEntered
  <2>1. Enters(graph, ds, Call(n, <<>>), calls')
    BY <2>3, <2>4
  <2>2. WalkRule(graph, command.from, command.to, command.depth, calls',
                 Append(results, PathTo(calls, n)))
    BY <1>2, <1>3, <1>4, <1>5, <1>10, <2>1, TargetFound
  <2> QED
    BY <1>1, <1>2, <1>8, <1>10, <2>2, WalkedOn
<1>11. CASE n # command.to
  <2> DEFINE c == IF Len(calls) >= command.depth THEN Call(n, <<>>) ELSE Call(n, Ends(graph, n))
  <2>1. calls' = Append(ds, c) /\ c \in [node : graph.nodes, children : Seq(graph.nodes)]
    BY <1>7, <1>8, <1>9, <1>11
  <2>2. c = IF Len(calls) >= command.depth THEN Call(n, <<>>) ELSE Call(n, Ends(graph, n))
    OBVIOUS
  <2> HIDE DEF c
  <2>3. Enters(graph, ds, c, calls')
    BY <1>6, <2>1, CallEntered
  <2>4. WalkRule(graph, command.from, command.to, command.depth, calls', results)
    BY <1>2, <1>3, <1>4, <1>5, <1>11, <2>2, <2>3, EntryKeeps
  <2> QED
    BY <1>1, <1>2, <1>8, <1>11, <2>4, WalkedOn
<1> QED
  BY <1>10, <1>11

LEMMA DfsSkipStage == SearchesInv /\ PathsInv /\ DfsSkip => PathsInv'
<1> SUFFICES ASSUME SearchesInv, PathsInv, DfsSkip, command.op = "path" PROVE PathsInv'
  BY DEF PathsInv, DfsSkip, Keep
<1> DEFINE ds == NextChild
<1>1. /\ calls # <<>> /\ Innermost.children # <<>> /\ Head(Innermost.children) \in ToSet(DfsTrail)
      /\ UNCHANGED <<file, command, graph, status, output, exit, results>>
      /\ calls' = ds
  BY DEF DfsSkip, Keep
<1>2. /\ status = "walking" /\ graph = BuildGraph(file) /\ IsMultigraph(graph)
      /\ command.depth \in Nat
      /\ WalkRule(graph, command.from, command.to, command.depth, calls, results)
      /\ calls \in Stack(graph)
  BY <1>1, InCalls
<1>3. TakesChild(graph, calls, ds)
  BY <1>1, <1>2, ChildOff DEF NextChild, Innermost
<1>4. \E i \in 1 .. Len(calls) : calls[i].node = Head(calls[Len(calls)].children)
  BY <1>1, <1>2, OnTrailIs, ElementsIn DEF Stack, Innermost
<1> HIDE DEF ds
<1>5. WalkRule(graph, command.from, command.to, command.depth, ds, results)
  BY <1>2, <1>3, <1>4, SkipKeeps
<1> QED
  BY <1>1, <1>2, <1>5, WalkedOn

LEMMA DfsReturnStage == SearchesInv /\ PathsInv /\ DfsReturn => PathsInv'
<1> SUFFICES ASSUME SearchesInv, PathsInv, DfsReturn, command.op = "path" PROVE PathsInv'
  BY DEF PathsInv, DfsReturn, Keep
<1>1. /\ calls # <<>> /\ Innermost.children = <<>>
      /\ UNCHANGED <<file, command, graph, status, output, exit, results>>
      /\ calls' = SubSeq(calls, 1, Len(calls) - 1)
  BY DEF DfsReturn, Keep
<1>2. /\ status = "walking" /\ graph = BuildGraph(file) /\ IsMultigraph(graph)
      /\ command.depth \in Nat
      /\ WalkRule(graph, command.from, command.to, command.depth, calls, results)
      /\ calls \in Stack(graph)
  BY <1>1, InCalls
<1>3. Leaves(graph, calls, calls')
  BY <1>1, <1>2, CallLeft DEF Innermost
<1>4. WalkRule(graph, command.from, command.to, command.depth, calls', results)
  BY <1>2, <1>3, ReturnKeeps
<1> QED
  BY <1>1, <1>2, <1>4, WalkedOn

LEMMA PathEndsStage == SearchesInv /\ PathsInv /\ (Path \/ UnknownEnd) => PathsInv'
<1>1. ASSUME SearchesInv, PathsInv, UnknownEnd PROVE PathsInv'
  <2>1. /\ status = "built" /\ status' = "ended" /\ exit' = 1 /\ command.op = "path"
        /\ UNCHANGED <<file, command, graph, calls, results>>
        /\ ~({command.from, command.to} \subseteq graph.nodes)
    BY <1>1 DEF UnknownEnd, End, Keep, KeepWalk
  <2>2. PathStage(file, command, graph, "ended", calls, results, output', 1)
    BY <1>1, <2>1 DEF PathsInv, PathStage, PathOutcome
  <2> QED
    BY <2>1, <2>2 DEF PathsInv
<1>2. ASSUME SearchesInv, PathsInv, Path, command.op = "path" PROVE PathsInv'
  <2>1. /\ status = "walking" /\ status' = "ended" /\ calls = <<>>
        /\ UNCHANGED <<file, command, graph, calls, results>>
        /\ results = <<>> => exit' = 1
        /\ results # <<>> => /\ exit' = 0
                             /\ output' = SubSeq(SortedPaths, 1, Least(Len(results), command.max))
    BY <1>2 DEF Path, End, Keep, KeepWalk
  <2>2. graph = BuildGraph(file) /\ WalkRule(graph, command.from, command.to, command.depth, <<>>, results)
    BY <1>2, <2>1 DEF PathsInv, PathStage
  <2>3. SortedPaths = SortedOf(results)
    BY SortedPathsAre
  <2>4. {command.from, command.to} \subseteq graph.nodes
    BY <2>2 DEF WalkRule
  <2>5. PathOutcome(command, graph, results, output', exit')
    BY <2>1, <2>2, <2>3, <2>4 DEF PathOutcome
  <2>6. PathStage(file, command, graph, "ended", calls, results, output', exit')
    BY <2>1, <2>2, <2>5 DEF PathStage
  <2> QED
    BY <2>1, <2>6 DEF PathsInv
<1>3. Path /\ command.op # "path" => PathsInv'
  BY DEF Path, Keep, PathsInv
<1> QED
  BY <1>1, <1>2, <1>3

LEMMA BuildStage == SearchesInv /\ PathsInv /\ Build => PathsInv'
<1> SUFFICES ASSUME SearchesInv, PathsInv, Build, command.op = "path" PROVE PathsInv'
  BY DEF PathsInv, Build, Keep
<1>1. /\ status = "ready" /\ UNCHANGED <<file, command, calls, results>>
      /\ \/ status' = "ended" /\ exit' = 2
         \/ status' = "built" /\ graph' = BuildGraph(file)
  BY DEF Build, End, Keep, KeepWalk
<1>2. calls = <<>> /\ results = <<>>
  BY <1>1 DEF PathsInv, PathStage
<1>3. PathStage(file, command, graph', status', calls, results, output', exit')
  BY <1>1, <1>2 DEF PathStage
<1> QED
  BY <1>1, <1>3 DEF PathsInv

\* All other steps are of other commands, or leave a path command alone.
LEMMA OthersStage ==
  ASSUME SearchesInv, PathsInv,
         \/ NoSeedsGiven \/ StartSearch \/ SelectWithoutSearch \/ EndSearch
         \/ Query \/ CollectSeeds \/ StartEgo \/ EndEgo \/ Subgraph
         \/ StartValidate \/ Validate
         \/ SearchStep /\ UNCHANGED <<commandVars, cycleVars>>
         \/ (StartCounting \/ CycleStep) /\ UNCHANGED <<commandVars, searchVars>>
         \/ UNCHANGED vars
  PROVE  PathsInv'
<1>0. command.op = "path" => status \in {"ready", "built", "walking", "ended"}
  BY DEF PathsInv, PathStage
<1>1. CASE \/ SearchStep /\ UNCHANGED <<commandVars, cycleVars>>
           \/ (StartCounting \/ CycleStep) /\ UNCHANGED <<commandVars, searchVars>>
           \/ UNCHANGED vars
  <2>1. UNCHANGED <<file, command, graph, status, calls, results, output, exit>>
    <3>1. CASE SearchStep /\ UNCHANGED <<commandVars, cycleVars>>
      BY <3>1 DEF SearchStep, Pop, SeeKnown, SeeNew, Exhausted, Trace, commandVars
    <3>2. CASE ((StartCounting \/ CycleStep) /\ UNCHANGED <<commandVars, searchVars>>) \/ UNCHANGED vars
      BY <3>2 DEF vars, commandVars, searchVars
    <3> QED
      BY <1>1, <3>1, <3>2
  <2> QED
    BY <2>1 DEF PathsInv
<1>2. CASE NoSeedsGiven \/ StartSearch \/ SelectWithoutSearch \/ Query \/ CollectSeeds \/ StartValidate
  <2>1. command.op # "path" /\ command' = command
    BY <1>2 DEF NoSeedsGiven, StartSearch, SelectWithoutSearch, Query, CollectSeeds, StartValidate, Keep
  <2> QED
    BY <2>1 DEF PathsInv
<1>3. CASE EndSearch \/ StartEgo \/ EndEgo \/ Subgraph \/ Validate
  <2>1. status \notin {"ready", "built", "walking", "ended"} /\ command' = command
    BY <1>3 DEF EndSearch, StartEgo, EndEgo, Subgraph, Validate, Keep
  <2> QED
    BY <1>0, <2>1 DEF PathsInv
<1> QED
  BY <1>1, <1>2, <1>3

(* The walks a path command has found, and those its calls have yet to     *)
(* come by, are at every step all there are.                               *)
THEOREM PathsInvHolds == Spec => []PathsInv
<1>1. Init => PathsInv
  BY DEF Init, PathsInv, PathStage
<1>2. SearchesInv /\ PathsInv /\ [Next]_vars => PathsInv'
  BY BuildStage, StartPathsStage, DfsEnterStage, DfsSkipStage, DfsReturnStage, PathEndsStage,
     OthersStage DEF Next
<1> QED
  BY <1>1, <1>2, SearchesInvHolds, PTL DEF Spec

\* A walk passes by one node more than it has edges.
LEMMA VisitedEnds ==
  ASSUME NEW S, NEW w \in Seq(S), NEW from
  PROVE  Last(VisitedBy(from, w)) = StopOf(from, w)
<1> DEFINE t == [i \in DOMAIN w |-> w[i].target]
           v == VisitedBy(from, w)
<1>1. Len(w) \in Nat /\ DOMAIN w = 1 .. Len(w)
  OBVIOUS
<1>2. t \in Seq({w[i].target : i \in DOMAIN w}) /\ Len(t) = Len(w)
  BY <1>1
<1>3. v = <<from>> \o t
  BY DEF VisitedBy
<1>4. \A i \in 1 .. Len(w) : t[i] = w[i].target
  BY <1>1
<1>5. w = <<>> <=> Len(w) = 0
  OBVIOUS
<1> HIDE DEF t, v
<1>6. Len(v) = Len(w) + 1
  BY <1>1, <1>2, <1>3
<1>7. v[1] = from /\ \A i \in 1 .. Len(w) : v[i + 1] = t[i]
  BY <1>1, <1>2, <1>3
<1>8. Last(v) = v[Len(w) + 1]
  BY <1>6 DEF Last
<1>9. CASE w = <<>>
  <2>1. Len(w) + 1 = 1
    BY <1>5, <1>9
  <2>2. Last(v) = from
    BY <1>7, <1>8, <2>1
  <2> QED
    BY <1>9, <2>2 DEF StopOf, v
<1>10. CASE w # <<>>
  <2>1. Len(w) \in 1 .. Len(w)
    BY <1>1, <1>5, <1>10
  <2>2. Last(v) = w[Len(w)].target
    BY <1>4, <1>7, <1>8, <2>1
  <2> QED
    BY <1>10, <2>2 DEF StopOf, v
<1> QED
  BY <1>9, <1>10

\* What a walk passes by is a list of nodes.
LEMMA VisitedListed ==
  ASSUME NEW g, IsMultigraph(g), g.nodes \subseteq Nat, NEW from \in g.nodes,
         NEW w \in Seq(g.arcs)
  PROVE  VisitedBy(from, w) \in Text
<1> DEFINE t == [i \in DOMAIN w |-> w[i].target]
<1>1. Len(w) \in Nat /\ DOMAIN w = 1 .. Len(w) /\ \A i \in 1 .. Len(w) : w[i] \in g.arcs
  OBVIOUS
<1>2. \A i \in 1 .. Len(w) : w[i].target \in Nat
  BY <1>1 DEF IsMultigraph
<1>3. t \in Seq(Nat)
  BY <1>1, <1>2
<1>4. VisitedBy(from, w) = <<from>> \o t
  BY DEF VisitedBy
<1> HIDE DEF t
<1> QED
  BY <1>3, <1>4 DEF Text

\* No bound on their length hides a walk that the depth admits.
LEMMA WalksWanted ==
  ASSUME IsMultigraph(graph), NEW from, NEW to, NEW depth \in Nat
  PROVE  {w \in SimpleWalks(from, Least(depth, Cardinality(graph.nodes))) :
            Last(VisitedBy(from, w)) = to} = Goals(graph, from, to, depth)
<1> DEFINE N == Cardinality(graph.nodes)
           most == Least(depth, N)
<1>1. N \in Nat
  BY FS_CardinalityType DEF IsMultigraph
<1>2. most \in Nat /\ \A n \in Nat : n <= most <=> n <= depth /\ n <= N
  BY <1>1 DEF Least
<1>3. \A w : w \in SimpleWalks(from, most) <=>
               w \in Seq(graph.arcs) /\ Simple(graph, from, w) /\ Len(w) <= most
  BY <1>2, SimpleWalksAre
<1>4. \A w \in Seq(graph.arcs) :
        Simple(graph, from, w) => Len(w) \in Nat /\ Len(w) <= N
  BY WalksAreShort
<1>5. \A w \in Seq(graph.arcs) : Last(VisitedBy(from, w)) = StopOf(from, w)
  BY VisitedEnds
<1> HIDE DEF N, most
<1>6. \A w : w \in SimpleWalks(from, most) <=>
               w \in Seq(graph.arcs) /\ Simple(graph, from, w) /\ Len(w) <= depth
  BY <1>2, <1>3, <1>4
<1>7. {w \in SimpleWalks(from, most) : Last(VisitedBy(from, w)) = to} = Goals(graph, from, to, depth)
  BY <1>5, <1>6 DEF Goals
<1> QED
  BY <1>7 DEF most, N

\* When no call is left, all walks are found.
LEMMA AllFound ==
  ASSUME NEW g, NEW from, NEW to, NEW most
  PROVE  Found(g, from, to, most, <<>>) = Goals(g, from, to, most)
BY DEF Found, Waits

LEMMA PathsAnswered == SearchesInv /\ PathsInv => PathsExact
<1> SUFFICES ASSUME SearchesInv, PathsInv, status = "ended", command.op = "path", exit # 2
             PROVE  PathsExact
  BY DEF PathsExact
<1> DEFINE from == command.from
           to == command.to
           known == {from, to} \subseteq graph.nodes
           most == Least(command.depth, Cardinality(graph.nodes))
           walks == IF ~known THEN {} ELSE
                    {w \in SimpleWalks(from, most) : Last(VisitedBy(from, w)) = to}
           Printed == ToSet(output)
           answer ==
             /\ exit = 1 <=> walks = {}
             /\ exit = 0 =>
                  /\ Len(output) = Least(Cardinality(walks), command.max)
                  /\ \A i \in 1 .. Len(output) - 1 : ~ShorterOrBefore(output[i + 1], output[i])
                  /\ \A p \in Printed : LinesOf(output, p) <= Cardinality(WaysOf(walks, from, p))
                  /\ \A w \in walks : \A p \in Printed :
                       ShorterOrBefore(VisitedBy(from, w), p) =>
                         LinesOf(output, VisitedBy(from, w)) =
                           Cardinality(WaysOf(walks, from, VisitedBy(from, w)))
<1>1. /\ graph = BuildGraph(file)
      /\ PathOutcome(command, graph, results, output, exit)
  BY DEF PathsInv, PathStage
<1>2. /\ command.depth \in Nat /\ command.max \in Nat
      /\ IsMultigraph(graph) /\ graph.nodes \subseteq Nat
  BY <1>1, PathAsked
<1>3. answer => PathsExact
  BY DEF PathsExact, LinesOf, PlacesOf, WaysOf, VisitedBy
<1>4. CASE ~known
  <2>1. exit = 1
    BY <1>1, <1>4 DEF PathOutcome
  <2> QED
    BY <1>3, <1>4, <2>1
<1>5. CASE known
  <2> DEFINE W == Goals(graph, from, to, command.depth)
  <2>1. walks = W
    BY <1>2, <1>5, WalksWanted
  <2>2. PICK f : WalkOf(f, results, from, W)
    BY <1>1, <1>5, AllFound DEF PathOutcome, WalkRule
  <2>3. /\ results = <<>> => exit = 1
        /\ results # <<>> =>
             exit = 0 /\ output = SubSeq(SortedOf(results), 1, Least(Len(results), command.max))
    BY <1>1, <1>5 DEF PathOutcome
  <2>4. /\ Len(results) \in Nat /\ DOMAIN results = 1 .. Len(results)
        /\ \A i \in DOMAIN results : f[i] \in W /\ results[i] = VisitedBy(from, f[i])
        /\ \A w \in W : \E i \in DOMAIN results : f[i] = w
    BY <2>2 DEF WalkOf, IsSequence
  <2>5. \A i \in DOMAIN results : results[i] \in Text
    <3>1. \A w \in W : VisitedBy(from, w) \in Text
      BY <1>2, <1>5, VisitedListed DEF Goals
    <3> QED
      BY <2>4, <3>1
  <2> HIDE DEF W, walks, from, to, known, answer
  <2>6. CASE results = <<>>
    <3>1. W = {}
      BY <2>4, <2>6
    <3> QED
      BY <1>3, <2>1, <2>3, <2>6, <3>1 DEF answer
  <2>7. CASE results # <<>>
    <3>1. W # {}
      <4>1. Len(results) # 0
        BY <2>2, <2>4, <2>7 DEF WalkOf
      <4>2. 1 \in DOMAIN results
        BY <2>4, <4>1
      <4> QED
        BY <2>4, <4>2
    <3>2. /\ Len(output) = Least(Cardinality(W), command.max)
          /\ \A i \in 1 .. Len(output) - 1 : ~ShorterOrBefore(output[i + 1], output[i])
          /\ \A p : LinesOf(output, p) <= Cardinality(WaysOf(W, from, p))
          /\ \A w \in W, p \in ToSet(output) :
               ShorterOrBefore(VisitedBy(from, w), p) =>
                 LinesOf(output, VisitedBy(from, w)) =
                   Cardinality(WaysOf(W, from, VisitedBy(from, w)))
      <4>1. Texts(results) /\ Printing(output, results, command.max)
        BY <2>3, <2>5, <2>7 DEF Texts, Printing
      <4>2. Answers(output, W, from, command.max)
        BY <1>2, <2>2, <4>1, PrintedPaths
      <4> QED
        BY <4>2 DEF Answers
    <3> QED
      BY <1>3, <2>1, <2>3, <2>7, <3>1, <3>2 DEF answer
  <2> QED
    BY <2>6, <2>7
<1> QED
  BY <1>4, <1>5

(* path prints as many routes as there are simple walks of at most         *)
(* --max-depth edges, or as --max-paths allows, the shortest and first     *)
(* first; a route is printed once for each way to walk it, and it reports  *)
(* that there is none only when there is none.                             *)
THEOREM PathsAreExact == Spec => []PathsExact
BY SearchesInvHolds, PathsInvHolds, PathsAnswered, PTL

=============================================================================
