-------------------------- MODULE RedactionProofs --------------------------
(***************************************************************************)
(* Proofs about Redaction, for every set of files whose edges have         *)
(* distinct ids and whose nodes have identifiers, every choice of nodes to *)
(* retain and every number of calls.                                       *)
(***************************************************************************)
EXTENDS Redaction, CommonLemmas

-----------------------------------------------------------------------------
(* The parts of the output.                                                *)

Act(id) == ActionOf(id, call.scope, call.retain)
Actions == {"omit", "retain", "replace"}

LEMMA ActInActions == \A id : Act(id) \in Actions
  BY DEF Act, ActionOf, NodeAction, Actions

AllowedPositions(node, scope) ==
  {k \in DOMAIN node.ids :
     EffectiveSensitivity(node.ids[k], node.type) \in SensitivityAllowed(scope)}

LEMMA FilteredIdentifiers ==
  ASSUME NEW node, IsNode(node), NEW scope
  PROVE  /\ Renumbers(FilterIdentifiers(node, scope), AllowedPositions(node, scope))
         /\ AllowedPositions(node, scope) \in SUBSET DOMAIN node.ids
         /\ \A k \in AllowedPositions(node, scope) :
              FilterIdentifiers(node, scope)[Pos(AllowedPositions(node, scope), k)] = node.ids[k]
<1>1. IsSequence(node.ids)
  BY DEF IsNode
<1>2. AllowedPositions(node, scope) \in SUBSET DOMAIN node.ids
  BY DEF AllowedPositions
<1>3. FilterIdentifiers(node, scope) = Picked(node.ids, AllowedPositions(node, scope))
  BY DEF FilterIdentifiers, AllowedPositions
<1> QED
  BY <1>1, <1>2, <1>3, PickedRenumbers

LEMMA FilteredElements ==
  ASSUME NEW node, IsNode(node), NEW scope
  PROVE  LET ids == FilterIdentifiers(node, scope)
         IN  /\ IsSequence(ids)
             /\ \A i \in DOMAIN ids : \E k \in DOMAIN node.ids :
                  /\ ids[i] = node.ids[k]
                  /\ EffectiveSensitivity(ids[i], node.type) \in SensitivityAllowed(scope)
<1> DEFINE ids == FilterIdentifiers(node, scope)
           S == AllowedPositions(node, scope)
<1>1. Renumbers(ids, S) /\ \A k \in S : ids[Pos(S, k)] = node.ids[k]
  BY FilteredIdentifiers
<1>2. \A k \in S : /\ k \in DOMAIN node.ids
                   /\ EffectiveSensitivity(node.ids[k], node.type) \in SensitivityAllowed(scope)
  BY DEF AllowedPositions
<1> HIDE DEF ids, S
<1>3. IsSequence(ids) /\ \A i \in DOMAIN ids : \E k \in S : ids[i] = node.ids[k]
  BY <1>1 DEF Renumbers
<1>4. \A i \in DOMAIN ids : \E k \in DOMAIN node.ids :
        /\ ids[i] = node.ids[k]
        /\ EffectiveSensitivity(ids[i], node.type) \in SensitivityAllowed(scope)
  BY <1>2, <1>3
<1> QED
  BY <1>3, <1>4 DEF ids

(* What becomes of a node that stays.                                      *)
LEMMA OutputNodeIs ==
  ASSUME NEW node, IsNode(node), Act(node.id) # "omit"
  PROVE  /\ IsNode(OutputNode(node))
         /\ OutputNode(node).id = node.id
         /\ \/ /\ Act(node.id) = "replace"
               /\ OutputNode(node) = BoundaryRefNode(node.id, hashed[node.id])
               /\ OutputNode(node).type = "boundary_ref"
            \/ /\ Act(node.id) = "retain"
               /\ OutputNode(node).type = node.type
               /\ OutputNode(node).ids = FilterIdentifiers(node, call.scope)
<1>1. CASE Act(node.id) = "replace"
  <2>1. OutputNode(node) = BoundaryRefNode(node.id, hashed[node.id])
    BY <1>1 DEF OutputNode, Act
  <2>2. \A value : /\ IsSequence(BoundaryRefNode(node.id, value).ids)
                   /\ \A i \in DOMAIN BoundaryRefNode(node.id, value).ids :
                        BoundaryRefNode(node.id, value).ids[i].sens = None
    BY DEF BoundaryRefNode, IsSequence
  <2> QED
    BY <1>1, <2>1, <2>2 DEF BoundaryRefNode, IsNode
<1>2. CASE Act(node.id) # "replace"
  <2>1. Act(node.id) = "retain"
    BY <1>2, ActInActions DEF Actions
  <2>2. OutputNode(node) = [node EXCEPT !.ids = FilterIdentifiers(node, call.scope)]
    BY <1>2 DEF OutputNode, Act
  <2>3. /\ {"id", "type", "ids", "name"} \subseteq DOMAIN node
        /\ \A i \in DOMAIN node.ids : node.ids[i].sens \in Sensitivities \cup {None}
    BY DEF IsNode
  <2>4. /\ OutputNode(node).id = node.id
        /\ OutputNode(node).type = node.type
        /\ OutputNode(node).ids = FilterIdentifiers(node, call.scope)
        /\ DOMAIN OutputNode(node) = DOMAIN node
    BY <2>2, <2>3
  <2>5. /\ IsSequence(OutputNode(node).ids)
        /\ \A i \in DOMAIN OutputNode(node).ids : \E k \in DOMAIN node.ids :
             OutputNode(node).ids[i] = node.ids[k]
    BY <2>4, FilteredElements
  <2> QED
    BY <2>1, <2>3, <2>4, <2>5 DEF IsNode
<1> QED
  BY <1>1, <1>2

LEMMA OutputNodesAre ==
  ASSUME IsFile(file)
  PROVE  /\ KeptNodes \subseteq DOMAIN file.nodes
         /\ Renumbers(OutputNodes, KeptNodes)
         /\ \A k \in KeptNodes :
              OutputNodes[Pos(KeptNodes, k)] = OutputNode(file.nodes[k])
<1> DEFINE kept == Picked(file.nodes, KeptNodes)
<1>1. IsSequence(file.nodes) /\ KeptNodes \in SUBSET DOMAIN file.nodes
  BY DEF IsFile, KeptNodes
<1>2. /\ Renumbers(kept, KeptNodes)
      /\ \A k \in KeptNodes : kept[Pos(KeptNodes, k)] = file.nodes[k]
  BY <1>1, PickedRenumbers
<1>3. OutputNodes = [k \in DOMAIN kept |-> OutputNode(kept[k])]
  BY DEF OutputNodes
<1> HIDE DEF kept
<1>4. DOMAIN kept = 1 .. Len(kept) /\ Len(kept) \in Nat
  BY <1>2 DEF Renumbers, IsSequence
<1>5. IsSequence(OutputNodes) /\ Len(OutputNodes) = Len(kept) /\ DOMAIN OutputNodes = DOMAIN kept
  BY <1>3, <1>4, FunctionIsSequence
<1>6. \A k \in KeptNodes : OutputNodes[Pos(KeptNodes, k)] = OutputNode(file.nodes[k])
  BY <1>2, <1>3 DEF Renumbers
<1> QED
  BY <1>1, <1>2, <1>5, <1>6 DEF Renumbers

LEMMA OutputEdgesAre ==
  ASSUME IsFile(file)
  PROVE  /\ KeptEdges \subseteq DOMAIN file.edges
         /\ Renumbers(OutputEdges, KeptEdges)
         /\ \A k \in KeptEdges :
              OutputEdges[Pos(KeptEdges, k)] = FilterEdge(file.edges[k], call.scope)
<1> DEFINE kept == Picked(file.edges, KeptEdges)
<1>1. IsSequence(file.edges) /\ KeptEdges \in SUBSET DOMAIN file.edges
  BY DEF IsFile, KeptEdges
<1>2. /\ Renumbers(kept, KeptEdges)
      /\ \A k \in KeptEdges : kept[Pos(KeptEdges, k)] = file.edges[k]
  BY <1>1, PickedRenumbers
<1>3. OutputEdges = [k \in DOMAIN kept |-> FilterEdge(kept[k], call.scope)]
  BY DEF OutputEdges
<1> HIDE DEF kept
<1>4. DOMAIN kept = 1 .. Len(kept) /\ Len(kept) \in Nat
  BY <1>2 DEF Renumbers, IsSequence
<1>5. IsSequence(OutputEdges) /\ Len(OutputEdges) = Len(kept) /\ DOMAIN OutputEdges = DOMAIN kept
  BY <1>3, <1>4, FunctionIsSequence
<1>6. \A k \in KeptEdges :
        OutputEdges[Pos(KeptEdges, k)] = FilterEdge(file.edges[k], call.scope)
  BY <1>2, <1>3 DEF Renumbers
<1> QED
  BY <1>1, <1>2, <1>5, <1>6 DEF Renumbers

LEMMA FilterEdgeIs ==
  ASSUME NEW edge, IsEdge(edge), NEW scope
  PROVE  LET e == FilterEdge(edge, scope)
         IN  /\ IsEdge(e)
             /\ e.id = edge.id /\ e.type = edge.type
             /\ e.source = edge.source /\ e.target = edge.target
             /\ scope = "partner" => e.overrides = edge.overrides
             /\ \A name \in DOMAIN e.props \ {Overrides} :
                  /\ name \in DOMAIN edge.props
                  /\ PropertySensitivity(edge, name) \in SensitivityAllowed(scope)
  BY DEF FilterEdge, IsEdge, RestrictedTo

LEMMA OutputIs ==
  ASSUME IsFile(file)
  PROVE  /\ Output.nodes = OutputNodes /\ Output.edges = OutputEdges
         /\ Output.scope = call.scope /\ Output.reporting = file.reporting
         /\ IsFile(Output)
<1>1. {"nodes", "edges", "reporting", "scope"} \subseteq DOMAIN file
  BY DEF IsFile
<1>2. /\ Output.nodes = OutputNodes /\ Output.edges = OutputEdges
      /\ Output.scope = call.scope /\ Output.reporting = file.reporting
      /\ DOMAIN Output = DOMAIN file
  BY <1>1 DEF Output
<1>3. /\ IsSequence(OutputNodes)
      /\ \A i \in DOMAIN OutputNodes : IsNode(OutputNodes[i])
  <2>1. \A k \in KeptNodes :
          IsNode(file.nodes[k]) /\ Act(file.nodes[k].id) # "omit"
    BY DEF KeptNodes, IsFile, Act
  <2>2. \A k \in KeptNodes : IsNode(OutputNode(file.nodes[k]))
    BY <2>1, OutputNodeIs
  <2> QED
    BY <2>2, OutputNodesAre DEF Renumbers
<1>4. /\ IsSequence(OutputEdges)
      /\ \A i \in DOMAIN OutputEdges : IsEdge(OutputEdges[i])
  <2>1. \A k \in KeptEdges : IsEdge(file.edges[k])
    BY DEF KeptEdges, IsFile
  <2>2. \A k \in KeptEdges : IsEdge(FilterEdge(file.edges[k], call.scope))
    BY <2>1, FilterEdgeIs
  <2> QED
    BY <2>2, OutputEdgesAre DEF Renumbers
<1> QED
  BY <1>1, <1>2, <1>3, <1>4 DEF IsFile

(* Where the output has distinct node ids, so have the nodes that stay,    *)
(* and the one that decides what becomes of them is the node itself.       *)
LEMMA KeptNodesUnique ==
  ASSUME IsFile(file), NodeIdsUnique(Output), NEW k \in KeptNodes
  PROVE  /\ NodesWithId(file, file.nodes[k].id) = {k}
         /\ NodeAt(file, file.nodes[k].id) = file.nodes[k]
<1>1. k \in DOMAIN file.nodes /\ k \in Int
  BY DEF KeptNodes, IsFile, IsSequence
<1>2. ASSUME NEW j \in DOMAIN file.nodes, file.nodes[j].id = file.nodes[k].id
      PROVE  j = k
  <2>1. j \in KeptNodes
    BY <1>2 DEF KeptNodes
  <2>2. \A i \in KeptNodes :
          IsNode(file.nodes[i]) /\ Act(file.nodes[i].id) # "omit"
    BY DEF KeptNodes, IsFile, Act
  <2>3. \A i \in KeptNodes : OutputNode(file.nodes[i]).id = file.nodes[i].id
    BY <2>2, OutputNodeIs
  <2>4. /\ Pos(KeptNodes, j) \in DOMAIN OutputNodes
        /\ Pos(KeptNodes, k) \in DOMAIN OutputNodes
        /\ OutputNodes[Pos(KeptNodes, j)].id = file.nodes[j].id
        /\ OutputNodes[Pos(KeptNodes, k)].id = file.nodes[k].id
    BY <2>1, <2>3, OutputNodesAre DEF Renumbers
  <2>5. Pos(KeptNodes, j) = Pos(KeptNodes, k)
    BY <1>2, <2>4, OutputIs DEF NodeIdsUnique
  <2> QED
    BY <2>1, <2>5, OutputNodesAre DEF Renumbers
<1>3. NodesWithId(file, file.nodes[k].id) = {k}
  BY <1>1, <1>2 DEF NodesWithId
<1> QED
  BY <1>1, <1>3 DEF NodeAt

LEMMA FactsOfOriginal ==
  ASSUME original' = original
  PROVE  \A f : Facts(f)' = Facts(f)
  BY DEF Facts, PersonFacts, OwnerFacts, IdentifierFacts, PropertyFacts,
         OriginalNodes, OriginalEdges

-----------------------------------------------------------------------------
(* The inductive invariant.  What a node is and how sensitive an edge is   *)
(* can still be read off the file, except where it does not matter: nodes  *)
(* with one id are told apart until the first redaction only, and a file   *)
(* that is prepared for the public has lost its overrides.                 *)

OriginsAgree ==
  \A n \in Elements(file.nodes) :
    n.type # "boundary_ref" => \A o \in OriginalNodes(n.id) : o.type = n.type

NodesTruthful == file.nodes = original.nodes \/ OriginsAgree

EdgesTruthful ==
  \A e \in Elements(file.edges) : \A o \in OriginalEdges(e.id) :
    o.type = e.type /\ (strictest = 2 \/ o.overrides = e.overrides)

Inv ==
  /\ IsFile(file)
  /\ strictest \in 0 .. 2
  /\ call = Idle \/ call.scope \in {"partner", "public"}
  /\ NodesTruthful
  /\ EdgesTruthful
  /\ Promise!NothingUnsuitable

(* The audience of the running call.                                       *)
Level == ScopeLevel(call.scope)

LEMMA OutputNodeOrigin ==
  ASSUME IsFile(file), NodesTruthful, NodeIdsUnique(Output),
         NEW n \in Elements(OutputNodes), n.type # "boundary_ref"
  PROVE  \E k \in KeptNodes :
           /\ n.id = file.nodes[k].id
           /\ n.type = file.nodes[k].type
           /\ n.ids = FilterIdentifiers(file.nodes[k], call.scope)
           /\ Act(n.id) = "retain"
           /\ NodeAt(file, n.id) = file.nodes[k]
           /\ \A o \in OriginalNodes(n.id) : o.type = n.type
<1>1. PICK k \in KeptNodes : n = OutputNode(file.nodes[k])
  BY OutputNodesAre DEF Renumbers, Elements
<1>2. IsNode(file.nodes[k]) /\ Act(file.nodes[k].id) # "omit" /\ k \in DOMAIN file.nodes
  BY DEF KeptNodes, Act, IsFile
<1>3. /\ n.id = file.nodes[k].id
      /\ n.type = file.nodes[k].type
      /\ n.ids = FilterIdentifiers(file.nodes[k], call.scope)
      /\ Act(n.id) = "retain"
  BY <1>1, <1>2, OutputNodeIs
<1>4. /\ NodesWithId(file, n.id) = {k}
      /\ NodeAt(file, n.id) = file.nodes[k]
  BY <1>3, KeptNodesUnique
<1>5. ASSUME NEW o \in OriginalNodes(n.id) PROVE o.type = n.type
  <2>1. CASE file.nodes = original.nodes
    <3>1. NodesWithId(original, n.id) = {k}
      BY <1>4, <2>1 DEF NodesWithId
    <3> QED
      BY <1>3, <2>1, <3>1 DEF OriginalNodes
  <2>2. CASE OriginsAgree
    <3>1. file.nodes[k] \in Elements(file.nodes) /\ file.nodes[k].type # "boundary_ref"
      BY <1>2, <1>3 DEF Elements
    <3> QED
      BY <1>3, <2>2, <3>1 DEF OriginsAgree
  <2> QED
    BY <2>1, <2>2 DEF NodesTruthful
<1> QED
  BY <1>3, <1>4, <1>5

LEMMA OutputEdgeOrigin ==
  ASSUME IsFile(file), NEW e \in Elements(OutputEdges)
  PROVE  \E k \in KeptEdges :
           k \in DOMAIN file.edges /\ e = FilterEdge(file.edges[k], call.scope)
  BY OutputEdgesAre DEF Renumbers, Elements

LEMMA SuitingSensitivity ==
  ASSUME call.scope \in {"partner", "public"},
         NEW s \in SensitivityAllowed(call.scope)
  PROVE  SensitivityLevel(s) \in 0 .. 2 /\ SensitivityLevel(s) + Level <= 2
  BY DEF SensitivityAllowed, SensitivityLevel, Level, ScopeLevel

LEMMA IdentifierFactsShrink ==
  ASSUME IsFile(file), NodesTruthful, NodeIdsUnique(Output),
         call.scope \in {"partner", "public"},
         NEW fact \in IdentifierFacts(Output)
  PROVE  fact \in IdentifierFacts(file) /\ Promise!Suits(fact, Level)
<1> DEFINE Gives(n, id, o) ==
        /\ n.type # "boundary_ref"
        /\ fact = <<<<3, n.id, CanonicalId(id)>>,
                    SensitivityLevel(EffectiveSensitivity(id, o.type))>>
<1>0. PICK n \in Elements(OutputNodes) :
        \E id \in Elements(n.ids), o \in OriginalNodes(n.id) : Gives(n, id, o)
  BY OutputIs DEF IdentifierFacts
<1>1. PICK id \in Elements(n.ids), o \in OriginalNodes(n.id) : Gives(n, id, o)
  BY <1>0
<1>2. PICK k \in KeptNodes :
        /\ n.id = file.nodes[k].id
        /\ n.type = file.nodes[k].type
        /\ n.ids = FilterIdentifiers(file.nodes[k], call.scope)
        /\ o.type = n.type
  BY <1>1, OutputNodeOrigin
<1>3. IsNode(file.nodes[k]) /\ file.nodes[k] \in Elements(file.nodes)
  BY DEF KeptNodes, IsFile, Elements
<1>4. /\ id \in Elements(file.nodes[k].ids)
      /\ EffectiveSensitivity(id, o.type) \in SensitivityAllowed(call.scope)
  BY <1>2, <1>3, FilteredElements DEF Elements
<1>5. Promise!Suits(fact, Level)
  BY <1>1, <1>4, SuitingSensitivity DEF Promise!Suits
<1>6. fact \in IdentifierFacts(file)
  BY <1>1, <1>2, <1>3, <1>4 DEF IdentifierFacts
<1> QED
  BY <1>5, <1>6

LEMMA PersonFactsShrink ==
  ASSUME IsFile(file), NodesTruthful, NodeIdsUnique(Output),
         call.scope \in {"partner", "public"},
         NEW fact \in PersonFacts(Output)
  PROVE  fact \in PersonFacts(file) /\ Promise!Suits(fact, Level)
<1>1. PICK n \in Elements(OutputNodes) :
        n.type = "person" /\ fact = <<<<1, n.id, <<>>>>, 1>>
  BY OutputIs DEF PersonFacts
<1>2. PICK k \in KeptNodes :
        /\ n.id = file.nodes[k].id
        /\ n.type = file.nodes[k].type
        /\ Act(n.id) = "retain"
        /\ NodeAt(file, n.id) = file.nodes[k]
  BY <1>1, OutputNodeOrigin
<1>3. file.nodes[k] \in Elements(file.nodes)
  BY DEF KeptNodes, Elements
<1>4. call.scope # "public"
  BY <1>1, <1>2 DEF Act, ActionOf, NodeAction, ClassifyNode
<1>5. Promise!Suits(fact, Level)
  BY <1>1, <1>4 DEF Promise!Suits, Level, ScopeLevel
<1> QED
  BY <1>1, <1>2, <1>3, <1>5 DEF PersonFacts

LEMMA OwnerFactsShrink ==
  ASSUME IsFile(file), call.scope \in {"partner", "public"},
         NEW fact \in OwnerFacts(Output)
  PROVE  fact \in OwnerFacts(file) /\ Promise!Suits(fact, Level)
<1>1. PICK e \in Elements(OutputEdges) :
        e.type = "beneficial_ownership" /\ fact = <<<<2, e.id, <<>>>>, 1>>
  BY OutputIs DEF OwnerFacts
<1>2. PICK k \in KeptEdges :
        k \in DOMAIN file.edges /\ e = FilterEdge(file.edges[k], call.scope)
  BY OutputEdgeOrigin
<1>3. e.id = file.edges[k].id /\ e.type = file.edges[k].type
  BY <1>2, FilterEdgeIs DEF IsFile
<1>4. call.scope # "public"
  BY <1>1, <1>3 DEF KeptEdges, ClassifyEdge
<1>5. Promise!Suits(fact, Level)
  BY <1>1, <1>4 DEF Promise!Suits, Level, ScopeLevel
<1> QED
  BY <1>1, <1>2, <1>3, <1>5 DEF OwnerFacts, Elements

LEMMA PropertyFactsShrink ==
  ASSUME Inv, call.scope \in {"partner", "public"},
         NEW fact \in PropertyFacts(Output)
  PROVE  fact \in PropertyFacts(file) /\ Promise!Suits(fact, Level)
<1> DEFINE Gives(e, name, o) ==
             fact = <<<<4, e.id, name>>, SensitivityLevel(PropertySensitivity(o, name))>>
<1>1. PICK e \in Elements(OutputEdges) :
        \E name \in DOMAIN e.props \ {Overrides}, o \in OriginalEdges(e.id) : Gives(e, name, o)
  BY OutputIs DEF PropertyFacts, Inv
<1>2. PICK name \in DOMAIN e.props \ {Overrides}, o \in OriginalEdges(e.id) : Gives(e, name, o)
  BY <1>1
<1>3. PICK k \in KeptEdges :
        k \in DOMAIN file.edges /\ e = FilterEdge(file.edges[k], call.scope)
  BY OutputEdgeOrigin DEF Inv
<1> DEFINE edge == file.edges[k]
<1>4. IsEdge(edge) /\ edge \in Elements(file.edges)
  BY <1>3 DEF Inv, IsFile, Elements
<1>5. /\ e.id = edge.id
      /\ name \in DOMAIN edge.props \ {Overrides}
      /\ PropertySensitivity(edge, name) \in SensitivityAllowed(call.scope)
  BY <1>3, <1>4, FilterEdgeIs
<1>6. fact \in PropertyFacts(file)
  BY <1>2, <1>4, <1>5 DEF PropertyFacts
<1>7. o.type = edge.type /\ (strictest = 2 \/ o.overrides = edge.overrides)
  BY <1>4, <1>5 DEF Inv, EdgesTruthful
<1>8. CASE o.overrides = edge.overrides
  <2>1. PropertySensitivity(o, name) = PropertySensitivity(edge, name)
    BY <1>7, <1>8 DEF PropertySensitivity
  <2>2. fact[2] \in 0 .. 2 /\ fact[2] + Level <= 2
    BY <1>2, <1>5, <2>1, SuitingSensitivity
  <2> QED
    BY <1>6, <2>2 DEF Promise!Suits
<1>9. CASE strictest = 2
  <2>1. Promise!Suits(fact, 2)
    BY <1>6, <1>9 DEF Inv, Promise!NothingUnsuitable, Facts
  <2>2. PropertySensitivity(o, name) \in Sensitivities
    BY DEF PropertySensitivity, Property, PropertyDefault, Sensitivities
  <2>3. fact[2] \in 0 .. 2
    BY <1>2, <2>2 DEF SensitivityLevel, Sensitivities
  <2>4. Level \in 1 .. 2
    BY DEF Level, ScopeLevel
  <2> QED
    BY <1>6, <2>1, <2>3, <2>4 DEF Promise!Suits
<1> QED
  BY <1>7, <1>8, <1>9

(* The heart of the matter: the output says less, and nothing that is too  *)
(* sensitive for the audience of this call or of an earlier one.           *)
LEMMA FactsShrink ==
  ASSUME Inv, call.scope \in {"partner", "public"}, NodeIdsUnique(Output),
         NEW fact \in Facts(Output)
  PROVE  /\ fact \in Facts(file)
         /\ Promise!Suits(fact, Level) /\ Promise!Suits(fact, strictest)
<1>1. fact \in Facts(file) /\ Promise!Suits(fact, Level)
  <2>1. CASE fact \in PersonFacts(Output)
    BY <2>1, PersonFactsShrink DEF Inv, Facts
  <2>2. CASE fact \in OwnerFacts(Output)
    BY <2>2, OwnerFactsShrink DEF Inv, Facts
  <2>3. CASE fact \in IdentifierFacts(Output)
    BY <2>3, IdentifierFactsShrink DEF Inv, Facts
  <2>4. CASE fact \in PropertyFacts(Output)
    BY <2>4, PropertyFactsShrink DEF Facts
  <2> QED
    BY <2>1, <2>2, <2>3, <2>4 DEF Facts
<1> QED
  BY <1>1 DEF Inv, Promise!NothingUnsuitable

-----------------------------------------------------------------------------
(* The invariant holds at first.                                           *)

LEMMA FactLevels ==
  ASSUME IsFile(file), NEW fact \in Facts(file)
  PROVE  fact[2] \in 0 .. 2
<1>1. \A s \in Sensitivities : SensitivityLevel(s) \in 0 .. 2
  BY DEF Sensitivities, SensitivityLevel
<1>2. CASE fact \in PersonFacts(file) \cup OwnerFacts(file)
  BY <1>2 DEF PersonFacts, OwnerFacts
<1>3. CASE fact \in IdentifierFacts(file)
  <2> DEFINE Gives(n, id, o) ==
               fact = <<<<3, n.id, CanonicalId(id)>>,
                        SensitivityLevel(EffectiveSensitivity(id, o.type))>>
  <2>1. PICK n \in Elements(file.nodes) :
          \E id \in Elements(n.ids), o \in OriginalNodes(n.id) : Gives(n, id, o)
    BY <1>3 DEF IdentifierFacts
  <2>2. PICK id \in Elements(n.ids), o \in OriginalNodes(n.id) : Gives(n, id, o)
    BY <2>1
  <2>3. id.sens \in Sensitivities \cup {None}
    BY DEF IsFile, IsNode, Elements
  <2>4. EffectiveSensitivity(id, o.type) \in Sensitivities
    BY <2>3 DEF EffectiveSensitivity, SchemeSensitivity, Sensitivities
  <2> QED
    BY <1>1, <2>2, <2>4
<1>4. CASE fact \in PropertyFacts(file)
  <2> DEFINE Gives(e, name, o) ==
               fact = <<<<4, e.id, name>>, SensitivityLevel(PropertySensitivity(o, name))>>
  <2>1. PICK e \in Elements(file.edges) :
          \E name \in DOMAIN e.props \ {Overrides}, o \in OriginalEdges(e.id) : Gives(e, name, o)
    BY <1>4 DEF PropertyFacts
  <2>2. PICK name \in DOMAIN e.props \ {Overrides}, o \in OriginalEdges(e.id) : Gives(e, name, o)
    BY <2>1
  <2>3. PropertySensitivity(o, name) \in Sensitivities
    BY DEF PropertySensitivity, Property, PropertyDefault, Sensitivities
  <2> QED
    BY <1>1, <2>2, <2>3
<1> QED
  BY <1>2, <1>3, <1>4 DEF Facts

LEMMA InvInit == Init => Inv /\ Promise!Init
<1> SUFFICES ASSUME Init PROVE Inv /\ Promise!Init
  OBVIOUS
<1>1. IsFile(file) /\ EdgeIdsUnique(original) /\ file = original /\ strictest = 0 /\ call = Idle
  BY OriginalsAssumption DEF Init
<1>2. EdgesTruthful
  <2> SUFFICES ASSUME NEW e \in Elements(file.edges), NEW o \in OriginalEdges(e.id)
               PROVE  o = e
    BY DEF EdgesTruthful
  <2> QED
    BY <1>1 DEF Elements, OriginalEdges, EdgeIdsUnique
<1>3. \A fact \in Facts(file) : fact[2] \in 0 .. 2
  BY <1>1, FactLevels
<1> QED
  BY <1>1, <1>2, <1>3
     DEF Inv, NodesTruthful, Promise!Init, Promise!NothingUnsuitable, Promise!Suits

-----------------------------------------------------------------------------
(* The invariant is kept, and every step is a step of the promise.         *)

LEMMA OriginalsStay ==
  ASSUME original' = original
  PROVE  /\ \A id : OriginalNodes(id)' = OriginalNodes(id)
         /\ \A id : OriginalEdges(id)' = OriginalEdges(id)
  BY DEF OriginalNodes, OriginalEdges, NodesWithId

LEMMA AcceptKeeps ==
  ASSUME Inv, Accept
  PROVE  Inv' /\ Promise!Prepare(Level) /\ Level \in 0 .. 2
<1>1. /\ NodeIdsUnique(Output) /\ file' = Output /\ original' = original
      /\ call # Idle /\ call' = Idle
      /\ strictest' = IF Level > strictest THEN Level ELSE strictest
  BY DEF Accept, L1Valid, Hashed, Level
<1>2. /\ IsFile(file) /\ strictest \in 0 .. 2 /\ NodesTruthful /\ EdgesTruthful
      /\ call.scope \in {"partner", "public"}
  BY <1>1 DEF Inv
<1>3. Level \in 1 .. 2 /\ (call.scope = "public" <=> Level = 2)
  BY <1>2 DEF Level, ScopeLevel
<1>4. strictest' \in 0 .. 2
  BY <1>1, <1>2, <1>3
<1>5. /\ IsFile(file)' /\ file'.nodes = OutputNodes /\ file'.edges = OutputEdges
  BY <1>1, <1>2, OutputIs DEF IsFile
<1>6. OriginsAgree'
  <2> SUFFICES ASSUME NEW n \in Elements(file.nodes)', n.type # "boundary_ref",
                      NEW o \in OriginalNodes(n.id)'
               PROVE  o.type = n.type
    BY DEF OriginsAgree
  <2>1. n \in Elements(OutputNodes)
    BY <1>5 DEF Elements
  <2>2. o \in OriginalNodes(n.id)
    BY <1>1, OriginalsStay
  <2> QED
    BY <1>1, <1>2, <2>1, <2>2, OutputNodeOrigin
<1>7. EdgesTruthful'
  <2> SUFFICES ASSUME NEW e \in Elements(file.edges)', NEW o \in OriginalEdges(e.id)'
               PROVE  o.type = e.type /\ (strictest' = 2 \/ o.overrides = e.overrides)
    BY DEF EdgesTruthful
  <2>1. e \in Elements(OutputEdges)
    BY <1>5 DEF Elements
  <2>2. PICK k \in KeptEdges :
          k \in DOMAIN file.edges /\ e = FilterEdge(file.edges[k], call.scope)
    BY <1>2, <2>1, OutputEdgeOrigin
  <2>3. file.edges[k] \in Elements(file.edges) /\ IsEdge(file.edges[k])
    BY <1>2, <2>2 DEF Elements, IsFile
  <2>4. /\ e.id = file.edges[k].id /\ e.type = file.edges[k].type
        /\ call.scope = "partner" => e.overrides = file.edges[k].overrides
    BY <2>2, <2>3, FilterEdgeIs
  <2>5. o \in OriginalEdges(file.edges[k].id)
    BY <1>1, <2>4, OriginalsStay
  <2>6. o.type = file.edges[k].type /\ (strictest = 2 \/ o.overrides = file.edges[k].overrides)
    BY <1>2, <2>3, <2>5 DEF EdgesTruthful
  <2> QED
    BY <1>1, <1>2, <1>3, <2>4, <2>6
<1>8. Facts(file)' = Facts(Output)
  BY <1>1, FactsOfOriginal
<1>9. \A fact \in Facts(file)' :
        /\ fact \in Facts(file)
        /\ Promise!Suits(fact, Level) /\ Promise!Suits(fact, strictest)
  BY <1>1, <1>2, <1>8, FactsShrink
<1>10. \A fact \in Facts(file)' : fact \in Facts(file) /\ Promise!Suits(fact, strictest')
  BY <1>1, <1>9
<1> QED
  BY <1>1, <1>3, <1>4, <1>5, <1>6, <1>7, <1>10
     DEF Inv, NodesTruthful, Promise!Prepare, Promise!NothingUnsuitable, Promise!Suits

(* A step that leaves the content of the file alone.                       *)
LEMMA ContentStays ==
  ASSUME Inv, original' = original, strictest' = strictest,
         file'.nodes = file.nodes, file'.edges = file.edges, IsFile(file)',
         call' = Idle \/ call'.scope \in {"partner", "public"}
  PROVE  Inv' /\ Promise!Prepare(0)
<1>1. Facts(file)' = Facts(file)
  <2>1. \A f, g : f.nodes = g.nodes /\ f.edges = g.edges => Facts(f) = Facts(g)
    BY DEF Facts, PersonFacts, OwnerFacts, IdentifierFacts, PropertyFacts
  <2>2. Facts(file') = Facts(file)
    BY <2>1
  <2> QED
    BY <2>2, FactsOfOriginal
<1>2. NodesTruthful'
  <2>1. CASE file.nodes = original.nodes
    BY <2>1 DEF NodesTruthful
  <2>2. CASE OriginsAgree
    BY <2>2, OriginalsStay DEF NodesTruthful, OriginsAgree, Elements
  <2> QED
    BY <2>1, <2>2 DEF Inv, NodesTruthful
<1>3. EdgesTruthful'
  BY OriginalsStay DEF Inv, EdgesTruthful, Elements
<1>4. Promise!NothingUnsuitable'
  BY <1>1 DEF Inv, Promise!NothingUnsuitable, Promise!Suits
<1>5. Promise!Prepare(0)
  BY <1>1 DEF Inv, Promise!Prepare, Promise!NothingUnsuitable, Promise!Suits
<1> QED
  BY <1>2, <1>3, <1>4, <1>5 DEF Inv

LEMMA FileStays ==
  ASSUME Inv, UNCHANGED <<original, file, strictest>>,
         call' = Idle \/ call'.scope \in {"partner", "public"}
  PROVE  Inv' /\ Promise!Prepare(0)
<1>1. IsFile(file)'
  BY DEF Inv, IsFile
<1> QED
  BY <1>1, ContentStays

LEMMA RedactKeeps ==
  ASSUME Inv, NEW scope \in Scopes, NEW retain, Redact(scope, retain)
  PROVE  Inv' /\ Promise!Prepare(0)
<1>1. CASE scope = "internal"
  <2>1. /\ file' = [file EXCEPT !.scope = "internal"]
        /\ UNCHANGED <<original, strictest, call>>
    BY <1>1 DEF Redact, RedactInternal
  <2>2. IsFile(file)
    BY DEF Inv
  <2>3. file'.nodes = file.nodes /\ file'.edges = file.edges /\ IsFile(file)'
    BY <2>1, <2>2 DEF IsFile
  <2> QED
    BY <2>1, <2>3, ContentStays DEF Inv
<1>2. CASE scope # "internal"
  <2>1. /\ UNCHANGED <<original, file, strictest>>
        /\ call'.scope \in {"partner", "public"}
    BY <1>2 DEF Redact, BeginHashing, Scopes
  <2> QED
    BY <2>1, FileStays
<1> QED
  BY <1>1, <1>2

LEMMA InvStep == Inv /\ [Next]_vars => Inv' /\ [Promise!Next]_(Promise!vars)
<1> SUFFICES ASSUME Inv, [Next]_vars PROVE Inv' /\ [Promise!Next]_(Promise!vars)
  OBVIOUS
<1>1. CASE Call
  <2>1. ASSUME NEW scope \in Scopes, Refuse(scope) PROVE Inv' /\ Promise!Prepare(0)
    BY <2>1, FileStays DEF Refuse, Inv
  <2>2. ASSUME NEW scope \in Scopes, RunCommand(scope) PROVE Inv' /\ Promise!Prepare(0)
    BY <2>2, RedactKeeps DEF RunCommand
  <2>3. ASSUME NEW scope \in Scopes, NEW retain \in RetainSets, Redact(scope, retain)
        PROVE  Inv' /\ Promise!Prepare(0)
    BY <2>3, RedactKeeps
  <2>4. Inv' /\ Promise!Prepare(0)
    BY <1>1, <2>1, <2>2, <2>3 DEF Call
  <2> QED
    BY <2>4 DEF Promise!Next
<1>2. CASE SkipNode \/ HashNode \/ EntropyFails \/ Reject \/ UNCHANGED vars
  <2>1. /\ UNCHANGED <<original, file, strictest>>
        /\ call' = Idle \/ call' = call
    BY <1>2 DEF SkipNode, HashNode, EntropyFails, Reject, vars
  <2>2. Inv' /\ Promise!Prepare(0)
    BY <2>1, FileStays DEF Inv
  <2> QED
    BY <2>2 DEF Promise!Next
<1>3. CASE Accept
  <2>1. Inv' /\ Promise!Prepare(Level) /\ Level \in 0 .. 2
    BY <1>3, AcceptKeeps
  <2> QED
    BY <2>1 DEF Promise!Next
<1> QED
  BY <1>1, <1>2, <1>3 DEF Next

LEMMA InvHolds == Spec => []Inv
  BY InvInit, InvStep, PTL DEF Spec

(* Redaction keeps its promise: for every file whose edges have distinct   *)
(* ids, whatever is retained and however the calls end, each change of     *)
(* what the file says removes facts, all that are too sensitive for one of *)
(* the audiences so far among them, and adds none.                         *)
THEOREM Discloses == Spec => DisclosureSpec
<1>1. Spec => [][Promise!Next]_(Promise!vars)
  BY InvHolds, InvStep, PTL DEF Spec
<1> QED
  BY <1>1, InvInit, PTL DEF Spec, DisclosureSpec, Promise!Spec

(* In particular a file never says what its author held too sensitive for  *)
(* the strictest audience it was prepared for.                             *)
THEOREM NeverUnsuitable == Spec => []Promise!NothingUnsuitable
  BY InvHolds, PTL DEF Inv

-----------------------------------------------------------------------------
(* The hash loop.                                                          *)

LoopInv == Inv /\ TypeOK /\ cursor \in Nat

LEMMA ActStays ==
  ASSUME UNCHANGED <<file, call>>
  PROVE  \A id : Act(id)' = Act(id)
  BY DEF Act, ActionOf, NodesWithId, NodeAt

LEMMA LoopInit == Init => LoopInv
<1> SUFFICES ASSUME Init PROVE LoopInv
  OBVIOUS
<1>1. Inv /\ call.scope = None
  BY InvInit DEF Init, Idle
<1> QED
  BY <1>1 DEF Init, LoopInv, TypeOK, Outcomes

LEMMA LoopStep == LoopInv /\ [Next]_vars => LoopInv'
<1> SUFFICES ASSUME LoopInv, [Next]_vars PROVE LoopInv'
  OBVIOUS
<1>0. Inv'
  BY InvStep DEF LoopInv
<1>1. strictest' \in 0 .. 2
  BY <1>0 DEF Inv
<1>2. CASE call' = Idle
  <2>1. outcome' \in Outcomes \ {"running"} /\ cursor' \in Nat
    <3>1. CASE UNCHANGED vars
      BY <1>2, <3>1 DEF vars, LoopInv, TypeOK
    <3>2. ASSUME NEW scope \in Scopes, NEW retain, Redact(scope, retain)
          PROVE  outcome' \in Outcomes \ {"running"} /\ cursor' \in Nat
      <4>1. CASE scope = "internal"
        BY <3>2, <4>1 DEF Redact, RedactInternal, Outcomes, LoopInv
      <4>2. CASE scope # "internal"
        <5>1. call'.scope = scope
          BY <3>2, <4>2 DEF Redact, BeginHashing
        <5> QED
          BY <1>2, <5>1, NoneAssumption DEF Idle
      <4> QED
        BY <4>1, <4>2
    <3>3. CASE Call
      BY <3>2, <3>3 DEF Call, RunCommand, Refuse, Outcomes, LoopInv
    <3>4. CASE SkipNode \/ HashNode
      BY <1>2, <3>4 DEF SkipNode, HashNode, AtNode
    <3>5. CASE EntropyFails \/ Accept \/ Reject
      BY <3>5 DEF EntropyFails, Accept, Reject, Outcomes, LoopInv
    <3> QED
      BY <3>1, <3>3, <3>4, <3>5 DEF Next
  <2> QED
    BY <1>0, <1>1, <1>2, <2>1 DEF LoopInv, TypeOK, Idle
<1>3. CASE call' # Idle
  <2> DEFINE Passed == \A k \in DOMAIN file.nodes :
                         k < cursor /\ Act(file.nodes[k].id) = "replace"
                           => file.nodes[k].id \in DOMAIN hashed
  <2>1. call'.scope \in {None, "partner", "public"}
    BY <1>0, <1>3 DEF Inv
  <2>2. outcome' = "running" /\ cursor' \in Nat /\ Passed'
    <3>1. CASE UNCHANGED vars
      <4>1. Passed
        BY <1>3, <3>1 DEF vars, LoopInv, TypeOK, Act
      <4>2. \A id : Act(id)' = Act(id)
        BY <3>1, ActStays DEF vars
      <4> QED
        BY <1>3, <3>1, <4>1, <4>2 DEF vars, LoopInv, TypeOK
    <3>2. CASE Call
      <4>1. PICK scope \in Scopes : \E retain : Redact(scope, retain)
        BY <1>3, <3>2 DEF Call, RunCommand, Refuse, Calling
      <4>2. outcome' = "running" /\ cursor' = 1 /\ file' = file
        BY <1>3, <4>1 DEF Redact, RedactInternal, BeginHashing, Calling
      <4>3. \A k \in DOMAIN file'.nodes : ~(k < cursor')
        BY <4>2 DEF LoopInv, Inv, IsFile, IsSequence
      <4> QED
        BY <4>2, <4>3
    <3>3. CASE SkipNode \/ HashNode
      <4>1. /\ UNCHANGED <<file, call, outcome>> /\ cursor' = cursor + 1
            /\ call # Idle
            /\ DOMAIN hashed \subseteq DOMAIN hashed'
            /\ Act(file.nodes[cursor].id) = "replace"
                 => file.nodes[cursor].id \in DOMAIN hashed'
        BY <3>3 DEF SkipNode, HashNode, AtNode, Act
      <4>2. outcome' = "running" /\ cursor \in Nat /\ Passed
        BY <4>1 DEF LoopInv, TypeOK, Act
      <4>3. \A id : Act(id)' = Act(id)
        BY <4>1, ActStays
      <4>4. DOMAIN file.nodes \subseteq Nat
        BY DEF LoopInv, Inv, IsFile, IsSequence
      <4> QED
        BY <4>1, <4>2, <4>3, <4>4
    <3>4. CASE EntropyFails \/ Accept \/ Reject
      BY <1>3, <3>4 DEF EntropyFails, Accept, Reject
    <3> QED
      BY <3>1, <3>2, <3>3, <3>4 DEF Next
  <2> QED
    BY <1>0, <1>1, <1>3, <2>1, <2>2 DEF LoopInv, TypeOK, Act, Outcomes
<1> QED
  BY <1>2, <1>3

(* The loop that computes the values of the stubs leaves none out, for     *)
(* nodes that share an id too, so the output has no stub without a value.  *)
THEOREM LoopCorrect == Spec => []TypeOK
<1>1. Spec => []LoopInv
  BY LoopInit, LoopStep, PTL DEF Spec
<1> QED
  BY <1>1, PTL DEF LoopInv

-----------------------------------------------------------------------------
(* Connectivity.                                                           *)

EdgeAccounted(e) ==
  \/ \E d \in Elements(file'.edges) : d.id = e.id /\ d.source = e.source
                                       /\ d.target = e.target
  \/ {e.source, e.target} \ NodeIds(file') # {}
  \/ {e.source, e.target} \subseteq StubIds(file') \ StubIds(file)
  \/ file'.scope = "public" /\ e.type = "beneficial_ownership"

LEMMA KeptNodeInOutput ==
  ASSUME IsFile(file), NEW k \in KeptNodes
  PROVE  OutputNode(file.nodes[k]) \in Elements(OutputNodes)
  BY OutputNodesAre DEF Renumbers, Elements

(* Nodes that were left out leave no trace in the output.                  *)
LEMMA OmittedGone ==
  ASSUME IsFile(file), NEW id, Act(id) = "omit"
  PROVE  id \notin NodeIds(Output)
<1> SUFFICES ASSUME NEW n \in Elements(OutputNodes), n.id = id PROVE FALSE
  BY OutputIs DEF NodeIds
<1>1. PICK k \in KeptNodes : n = OutputNode(file.nodes[k])
  BY OutputNodesAre DEF Renumbers, Elements
<1>2. IsNode(file.nodes[k]) /\ Act(file.nodes[k].id) # "omit"
  BY DEF KeptNodes, Act, IsFile
<1> QED
  BY <1>1, <1>2, OutputNodeIs

(* A node that is replaced becomes a stub, and was none.                   *)
LEMMA ReplacedIsStub ==
  ASSUME IsFile(file), NodeIdsUnique(Output), NEW id, Act(id) = "replace"
  PROVE  id \in StubIds(Output) \ StubIds(file)
<1>1. PICK k \in DOMAIN file.nodes : file.nodes[k].id = id
  BY DEF Act, ActionOf, NodesWithId
<1>2. k \in KeptNodes /\ IsNode(file.nodes[k])
  BY <1>1 DEF KeptNodes, Act, IsFile
<1>3. OutputNode(file.nodes[k]).id = id /\ OutputNode(file.nodes[k]).type = "boundary_ref"
  BY <1>1, <1>2, OutputNodeIs
<1>4. id \in StubIds(Output)
  BY <1>2, <1>3, OutputIs, KeptNodeInOutput DEF StubIds
<1>5. NodesWithId(file, id) = {k} /\ NodeAt(file, id) = file.nodes[k]
  BY <1>1, <1>2, KeptNodesUnique
<1>6. file.nodes[k].type # "boundary_ref"
  BY <1>5 DEF Act, ActionOf, NodeAction
<1>7. id \notin StubIds(file)
  BY <1>5, <1>6 DEF StubIds, Elements, NodesWithId
<1> QED
  BY <1>4, <1>7

LEMMA AcceptConnects ==
  ASSUME Inv, Accept, NEW e \in Elements(file.edges)
  PROVE  EdgeAccounted(e)
<1>1. /\ NodeIdsUnique(Output) /\ file' = Output /\ IsFile(file)
  BY DEF Accept, L1Valid, Inv
<1>2. PICK k \in DOMAIN file.edges : e = file.edges[k]
  BY DEF Elements
<1>3. IsEdge(e)
  BY <1>1, <1>2 DEF IsFile
<1>4. CASE k \in KeptEdges
  <2> DEFINE d == FilterEdge(e, call.scope)
  <2>1. d \in Elements(OutputEdges)
    BY <1>1, <1>2, <1>4, OutputEdgesAre DEF Renumbers, Elements
  <2>2. d.id = e.id /\ d.source = e.source /\ d.target = e.target
    BY <1>3, FilterEdgeIs
  <2>3. file'.edges = OutputEdges
    BY <1>1, OutputIs
  <2> QED
    BY <2>1, <2>2, <2>3 DEF EdgeAccounted
<1>5. CASE k \notin KeptEdges
  <2>1. \/ call.scope = "public" /\ e.type = "beneficial_ownership"
        \/ "omit" \in {Act(e.source), Act(e.target)}
        \/ {Act(e.source), Act(e.target)} = {"replace"}
    BY <1>2, <1>5 DEF KeptEdges, ClassifyEdge, Act
  <2>2. CASE call.scope = "public" /\ e.type = "beneficial_ownership"
    BY <1>1, <2>2, OutputIs DEF EdgeAccounted
  <2>3. CASE "omit" \in {Act(e.source), Act(e.target)}
    <3>1. {e.source, e.target} \ NodeIds(Output) # {}
      BY <1>1, <2>3, OmittedGone
    <3> QED
      BY <1>1, <3>1 DEF EdgeAccounted
  <2>4. CASE {Act(e.source), Act(e.target)} = {"replace"}
    <3>1. Act(e.source) = "replace" /\ Act(e.target) = "replace"
      BY <2>4
    <3>2. {e.source, e.target} \subseteq StubIds(Output) \ StubIds(file)
      BY <1>1, <3>1, ReplacedIsStub
    <3> QED
      BY <1>1, <3>2 DEF EdgeAccounted
  <2> QED
    BY <2>1, <2>2, <2>3, <2>4
<1> QED
  BY <1>4, <1>5

(* For every file whose edges have distinct ids: an edge disappears only   *)
(* with one of its ends, between two new stubs, or as a beneficial         *)
(* ownership that is not for the public.                                   *)
THEOREM Connects == Spec => ConnectivityKept
<1>1. ASSUME Inv, [Next]_vars
      PROVE  [\A e \in Elements(file.edges) : EdgeAccounted(e)]_file
  <2>1. ASSUME NEW scope, NEW retain, Redact(scope, retain)
        PROVE  file' = file \/ \A e \in Elements(file.edges) : EdgeAccounted(e)
    <3>1. file' = file \/ file' = [file EXCEPT !.scope = "internal"]
      BY <2>1 DEF Redact, RedactInternal, BeginHashing
    <3>2. file' = file \/ file'.edges = file.edges
      BY <1>1, <3>1 DEF Inv, IsFile
    <3> QED
      BY <3>2 DEF EdgeAccounted
  <2>2. CASE Call
    BY <2>1, <2>2 DEF Call, Refuse, RunCommand
  <2>3. CASE Accept
    BY <1>1, <2>3, AcceptConnects
  <2>4. CASE SkipNode \/ HashNode \/ EntropyFails \/ Reject \/ UNCHANGED vars
    BY <2>4 DEF SkipNode, HashNode, EntropyFails, Reject, vars
  <2> QED
    BY <1>1, <2>2, <2>3, <2>4 DEF Next
<1>2. Spec => [][\A e \in Elements(file.edges) : EdgeAccounted(e)]_file
  BY <1>1, InvHolds, PTL DEF Spec
<1> QED
  BY <1>2 DEF ConnectivityKept, EdgeAccounted

-----------------------------------------------------------------------------
(* The final validation.                                                   *)

(* Every rule below is about what a call makes of a valid file.            *)
Valid == IsFile(file) /\ L1Valid(file) /\ call.scope \in {"partner", "public"}
Manageable == Valid /\ ~Unmanageable

LEMMA OutputNodeSources ==
  ASSUME IsFile(file)
  PROVE  /\ \A k \in KeptNodes :
              IsNode(file.nodes[k]) /\ Act(file.nodes[k].id) # "omit" /\ k \in DOMAIN file.nodes
         /\ \A i \in DOMAIN OutputNodes : \E k \in KeptNodes :
              i = Pos(KeptNodes, k) /\ OutputNodes[i] = OutputNode(file.nodes[k])
<1>1. \A k \in KeptNodes :
        IsNode(file.nodes[k]) /\ Act(file.nodes[k].id) # "omit" /\ k \in DOMAIN file.nodes
  BY DEF KeptNodes, Act, IsFile
<1> QED
  BY <1>1, OutputNodesAre DEF Renumbers

LEMMA OutputEdgeSources ==
  ASSUME IsFile(file)
  PROVE  \A i \in DOMAIN OutputEdges : \E k \in KeptEdges :
           /\ i = Pos(KeptEdges, k)
           /\ k \in DOMAIN file.edges
           /\ OutputEdges[i].id = file.edges[k].id
           /\ OutputEdges[i].type = file.edges[k].type
           /\ OutputEdges[i].source = file.edges[k].source
           /\ OutputEdges[i].target = file.edges[k].target
           /\ Act(file.edges[k].source) # "omit"
           /\ Act(file.edges[k].target) # "omit"
<1> SUFFICES ASSUME NEW i \in DOMAIN OutputEdges
             PROVE  \E k \in KeptEdges :
                      /\ i = Pos(KeptEdges, k)
                      /\ k \in DOMAIN file.edges
                      /\ OutputEdges[i].id = file.edges[k].id
                      /\ OutputEdges[i].type = file.edges[k].type
                      /\ OutputEdges[i].source = file.edges[k].source
                      /\ OutputEdges[i].target = file.edges[k].target
                      /\ Act(file.edges[k].source) # "omit"
                      /\ Act(file.edges[k].target) # "omit"
  OBVIOUS
<1>1. PICK k \in KeptEdges :
        i = Pos(KeptEdges, k) /\ OutputEdges[i] = FilterEdge(file.edges[k], call.scope)
  BY OutputEdgesAre DEF Renumbers
<1>2. k \in DOMAIN file.edges /\ IsEdge(file.edges[k])
  BY DEF KeptEdges, IsFile
<1>3. Act(file.edges[k].source) # "omit" /\ Act(file.edges[k].target) # "omit"
  BY DEF KeptEdges, ClassifyEdge, Act
<1> QED
  BY <1>1, <1>2, <1>3, FilterEdgeIs

LEMMA OutputIdsUnique ==
  ASSUME Valid
  PROVE  NodeIdsUnique(Output) /\ EdgeIdsUnique(Output)
<1>1. IsFile(file) /\ NodeIdsUnique(file) /\ EdgeIdsUnique(file)
  BY DEF Valid, L1Valid
<1>2. ASSUME NEW i \in DOMAIN OutputNodes, NEW j \in DOMAIN OutputNodes,
             OutputNodes[i].id = OutputNodes[j].id
      PROVE  i = j
  <2>1. PICK k \in KeptNodes : i = Pos(KeptNodes, k) /\ OutputNodes[i] = OutputNode(file.nodes[k])
    BY <1>1, OutputNodeSources
  <2>2. PICK l \in KeptNodes : j = Pos(KeptNodes, l) /\ OutputNodes[j] = OutputNode(file.nodes[l])
    BY <1>1, OutputNodeSources
  <2>3. \A m \in KeptNodes : OutputNode(file.nodes[m]).id = file.nodes[m].id
    BY <1>1, OutputNodeSources, OutputNodeIs
  <2>4. k \in DOMAIN file.nodes /\ l \in DOMAIN file.nodes
    BY <1>1, OutputNodeSources
  <2>5. file.nodes[k].id = file.nodes[l].id
    BY <1>2, <2>1, <2>2, <2>3
  <2> QED
    BY <1>1, <2>1, <2>2, <2>4, <2>5 DEF NodeIdsUnique
<1>3. ASSUME NEW i \in DOMAIN OutputEdges, NEW j \in DOMAIN OutputEdges,
             OutputEdges[i].id = OutputEdges[j].id
      PROVE  i = j
  <2>1. PICK k \in KeptEdges :
          i = Pos(KeptEdges, k) /\ k \in DOMAIN file.edges /\ OutputEdges[i].id = file.edges[k].id
    BY <1>1, OutputEdgeSources
  <2>2. PICK l \in KeptEdges :
          j = Pos(KeptEdges, l) /\ l \in DOMAIN file.edges /\ OutputEdges[j].id = file.edges[l].id
    BY <1>1, OutputEdgeSources
  <2> QED
    BY <1>1, <1>3, <2>1, <2>2 DEF EdgeIdsUnique
<1> QED
  BY <1>1, <1>2, <1>3, OutputIs DEF NodeIdsUnique, EdgeIdsUnique

(* A node that was not left out is found in the output under its id, as it *)
(* was or as a stub.                                                       *)
LEMMA EndInOutput ==
  ASSUME Valid, NEW id, Act(id) # "omit"
  PROVE  /\ NodesWithId(Output, id) # {}
         /\ NodeAt(Output, id).type \in {NodeAt(file, id).type, "boundary_ref"}
         /\ Act(id) = "retain" => NodeAt(Output, id).type = NodeAt(file, id).type
         /\ Act(id) = "replace" => NodeAt(Output, id).type = "boundary_ref"
         /\ NodesWithId(file, id) # {}
<1>1. IsFile(file) /\ NodeIdsUnique(Output)
  BY OutputIdsUnique DEF Valid
<1>2. PICK k \in DOMAIN file.nodes : file.nodes[k].id = id
  BY DEF Act, ActionOf, NodesWithId
<1>3. k \in KeptNodes /\ IsNode(file.nodes[k])
  BY <1>1, <1>2 DEF KeptNodes, Act, IsFile
<1>4. NodesWithId(file, id) = {k} /\ NodeAt(file, id) = file.nodes[k]
  BY <1>1, <1>2, <1>3, KeptNodesUnique
<1> DEFINE i == Pos(KeptNodes, k)
           node == OutputNode(file.nodes[k])
<1>5. i \in DOMAIN OutputNodes /\ OutputNodes[i] = node /\ IsSequence(OutputNodes)
  BY <1>1, <1>3, OutputNodesAre DEF Renumbers
<1>6. /\ node.id = id /\ node.type \in {file.nodes[k].type, "boundary_ref"}
      /\ Act(id) = "retain" => node.type = file.nodes[k].type
      /\ Act(id) = "replace" => node.type = "boundary_ref"
  BY <1>2, <1>3, OutputNodeIs
<1> HIDE DEF i, node
<1>7. NodesWithId(Output, id) = {i} /\ i \in Int
  BY <1>1, <1>5, <1>6, OutputIs DEF NodesWithId, NodeIdsUnique, IsSequence
<1>8. NodeAt(Output, id) = node
  BY <1>1, <1>5, <1>7, OutputIs DEF NodeAt
<1> QED
  BY <1>4, <1>6, <1>7, <1>8

LEMMA OutputEdgesValid ==
  ASSUME Valid
  PROVE  EndpointsExist(Output) /\ EdgeTypesKnown(Output) /\ EndpointTypesPermitted(Output)
<1>1. /\ IsFile(file) /\ EdgeTypesKnown(file) /\ EndpointTypesPermitted(file)
      /\ Output.edges = OutputEdges
  BY OutputIs DEF Valid, L1Valid
<1> SUFFICES ASSUME NEW i \in DOMAIN OutputEdges
             PROVE  /\ NodesWithId(Output, OutputEdges[i].source) # {}
                    /\ NodesWithId(Output, OutputEdges[i].target) # {}
                    /\ OutputEdges[i].type \in {EdgeTypeOrder[t] : t \in DOMAIN EdgeTypeOrder}
                    /\ OutputEdges[i].type \notin ExtensionTypes \cup {"same_as"} =>
                         /\ NodeAt(Output, OutputEdges[i].source).type \in
                              PermittedSources(OutputEdges[i].type) \cup ExtensionTypes \cup {"boundary_ref"}
                         /\ NodeAt(Output, OutputEdges[i].target).type \in
                              PermittedTargets(OutputEdges[i].type) \cup ExtensionTypes \cup {"boundary_ref"}
  BY <1>1 DEF EndpointsExist, EdgeTypesKnown, EndpointTypesPermitted
<1>2. PICK k \in KeptEdges :
        /\ k \in DOMAIN file.edges
        /\ OutputEdges[i].type = file.edges[k].type
        /\ OutputEdges[i].source = file.edges[k].source
        /\ OutputEdges[i].target = file.edges[k].target
        /\ Act(file.edges[k].source) # "omit"
        /\ Act(file.edges[k].target) # "omit"
  BY <1>1, OutputEdgeSources
<1>3. \A id \in {file.edges[k].source, file.edges[k].target} :
        /\ NodesWithId(Output, id) # {} /\ NodesWithId(file, id) # {}
        /\ NodeAt(Output, id).type \in {NodeAt(file, id).type, "boundary_ref"}
  BY <1>2, EndInOutput
<1>4. file.edges[k].type \in {EdgeTypeOrder[t] : t \in DOMAIN EdgeTypeOrder}
  BY <1>1, <1>2 DEF EdgeTypesKnown
<1>5. file.edges[k].type \notin ExtensionTypes \cup {"same_as"} =>
        /\ NodeAt(file, file.edges[k].source).type \in
             PermittedSources(file.edges[k].type) \cup ExtensionTypes \cup {"boundary_ref"}
        /\ NodeAt(file, file.edges[k].target).type \in
             PermittedTargets(file.edges[k].type) \cup ExtensionTypes \cup {"boundary_ref"}
  BY <1>1, <1>2, <1>3 DEF EndpointTypesPermitted
<1> QED
  BY <1>2, <1>3, <1>4, <1>5

(* What the rules on identifiers ask of one node.                          *)
NodeValid(node, scope) ==
  /\ \A i \in DOMAIN node.ids :
       /\ AuthorityPresent(node.ids[i]) /\ PeriodOrdered(node.ids[i])
       /\ EffectiveSensitivity(node.ids[i], node.type) \in SensitivityAllowed(scope)
  /\ IdentifierTuplesUnique(node.ids)
  /\ node.type = "boundary_ref" => Len(node.ids) = 1 /\ node.ids[1].scheme = "opaque"

LEMMA StubValid ==
  ASSUME NEW id, NEW value, call.scope \in {"partner", "public"}
  PROVE  NodeValid(BoundaryRefNode(id, value), call.scope)
<1> DEFINE stub == BoundaryRefNode(id, value)
           record == [scheme |-> "opaque", value |-> <<value, 0>>, auth |-> None,
                      from |-> None, to |-> None, annulled |-> FALSE, sens |-> None]
<1>1. stub.type = "boundary_ref" /\ stub.ids = <<record>>
  BY DEF BoundaryRefNode
<1>2. /\ DOMAIN stub.ids = {1} /\ Len(stub.ids) = 1 /\ stub.ids[1] = record
  BY <1>1
<1>3. AuthorityPresent(record) /\ PeriodOrdered(record) /\ record.scheme = "opaque"
  BY DEF AuthorityPresent, PeriodOrdered, RequiresAuthority
<1>4. EffectiveSensitivity(record, stub.type) \in SensitivityAllowed(call.scope)
  BY <1>1 DEF EffectiveSensitivity, SchemeSensitivity, SensitivityAllowed
<1>5. IdentifierTuplesUnique(stub.ids)
  BY <1>2 DEF IdentifierTuplesUnique
<1> HIDE DEF stub, record
<1>6. NodeValid(stub, call.scope)
  BY <1>1, <1>2, <1>3, <1>4, <1>5 DEF NodeValid
<1> QED
  BY <1>6 DEF stub

LEMMA FilteredValid ==
  ASSUME Manageable, NEW k \in DOMAIN file.nodes, NEW node,
         node.type = file.nodes[k].type,
         node.ids = FilterIdentifiers(file.nodes[k], call.scope)
  PROVE  NodeValid(node, call.scope)
<1> DEFINE old == file.nodes[k]
           S == AllowedPositions(old, call.scope)
<1>1. IsNode(old) /\ old \in Elements(file.nodes)
  BY DEF Manageable, Valid, IsFile, Elements
<1>2. /\ \A i \in DOMAIN old.ids : AuthorityPresent(old.ids[i]) /\ PeriodOrdered(old.ids[i])
      /\ IdentifierTuplesUnique(old.ids)
      /\ old.type = "boundary_ref" => Len(old.ids) = 1 /\ old.ids[1].scheme = "opaque"
  BY DEF Manageable, Valid, L1Valid, IdentifiersValid, BoundaryRefsOpaque
<1>3. /\ Renumbers(node.ids, S)
      /\ S \subseteq DOMAIN old.ids
      /\ \A i \in S : node.ids[Pos(S, i)] = old.ids[i]
  BY <1>1, FilteredIdentifiers
<1>4. \A i \in S : EffectiveSensitivity(old.ids[i], old.type) \in SensitivityAllowed(call.scope)
  BY DEF AllowedPositions
<1>5. ASSUME old.type = "boundary_ref" PROVE S = {1}
  <2>1. DOMAIN old.ids = {1} /\ old.ids[1].scheme = "opaque"
    BY <1>1, <1>2, <1>5 DEF IsNode, IsSequence
  <2>2. old.ids[1].sens \in SensitivityAllowed(call.scope) \cup {None}
    BY <1>1, <1>5 DEF Manageable, Unmanageable
  <2>3. SchemeSensitivity(old.ids[1].scheme) = "public" /\ old.type # "person"
    BY <1>5, <2>1 DEF SchemeSensitivity
  <2>4. "public" \in SensitivityAllowed(call.scope)
    BY DEF Manageable, Valid, SensitivityAllowed
  <2> DEFINE id == old.ids[1]
  <2> HIDE DEF id
  <2>5. EffectiveSensitivity(id, old.type) = IF id.sens # None THEN id.sens ELSE SchemeSensitivity(id.scheme)
    BY <2>3 DEF EffectiveSensitivity
  <2>6. EffectiveSensitivity(id, old.type) \in SensitivityAllowed(call.scope)
    BY <2>2, <2>3, <2>4, <2>5 DEF id
  <2> QED
    BY <2>1, <2>6 DEF AllowedPositions, id
<1> HIDE DEF S
<1>6. \A i \in DOMAIN node.ids : \E j \in S : i = Pos(S, j) /\ node.ids[i] = old.ids[j]
  BY <1>3 DEF Renumbers
<1>7. \A i \in DOMAIN node.ids :
        /\ AuthorityPresent(node.ids[i]) /\ PeriodOrdered(node.ids[i])
        /\ EffectiveSensitivity(node.ids[i], node.type) \in SensitivityAllowed(call.scope)
  BY <1>2, <1>3, <1>4, <1>6
<1>8. IdentifierTuplesUnique(node.ids)
  <2> SUFFICES ASSUME NEW i \in DOMAIN node.ids, NEW j \in DOMAIN node.ids,
                      node.ids[i].scheme = node.ids[j].scheme,
                      node.ids[i].value = node.ids[j].value,
                      node.ids[i].auth = node.ids[j].auth
               PROVE  i = j
    BY DEF IdentifierTuplesUnique
  <2>1. PICK a \in S : i = Pos(S, a) /\ node.ids[i] = old.ids[a]
    BY <1>6
  <2>2. PICK b \in S : j = Pos(S, b) /\ node.ids[j] = old.ids[b]
    BY <1>6
  <2>3. /\ old.ids[a].scheme = old.ids[b].scheme /\ old.ids[a].value = old.ids[b].value
        /\ old.ids[a].auth = old.ids[b].auth
    BY <2>1, <2>2
  <2>4. IdentifierTuplesUnique(old.ids) /\ a \in DOMAIN old.ids /\ b \in DOMAIN old.ids
    BY <1>2, <1>3
  <2> HIDE DEF old, S
  <2>5. a = b
    BY <2>3, <2>4 DEF IdentifierTuplesUnique
  <2> QED
    BY <2>1, <2>2, <2>5
<1>9. ASSUME node.type = "boundary_ref"
      PROVE  Len(node.ids) = 1 /\ node.ids[1].scheme = "opaque"
  <2>1. S = {1} /\ old.ids[1].scheme = "opaque"
    BY <1>2, <1>5, <1>9
  <2>2. Len(node.ids) = 1 /\ DOMAIN node.ids = {1}
    BY <1>3, <2>1, FS_Singleton DEF Renumbers, IsSequence
  <2>3. node.ids[1] = old.ids[1]
    BY <1>6, <2>1, <2>2
  <2> QED
    BY <2>1, <2>2, <2>3
<1> QED
  BY <1>7, <1>8, <1>9 DEF NodeValid

LEMMA OutputValid ==
  ASSUME Manageable
  PROVE  L1Valid(Output)
<1>1. /\ IsFile(file) /\ Valid /\ call.scope \in {"partner", "public"}
      /\ ReportingEntityIsOrganization(file)
      /\ file.reporting # None => Act(file.reporting) = "retain"
  BY DEF Manageable, Valid, Unmanageable, L1Valid, Act
<1>2. /\ Output.nodes = OutputNodes /\ Output.scope = call.scope
      /\ Output.reporting = file.reporting
  BY <1>1, OutputIs
<1>3. ASSUME NEW i \in DOMAIN OutputNodes PROVE NodeValid(OutputNodes[i], call.scope)
  <2>1. PICK k \in KeptNodes : OutputNodes[i] = OutputNode(file.nodes[k])
    BY <1>1, OutputNodeSources
  <2>2. IsNode(file.nodes[k]) /\ Act(file.nodes[k].id) # "omit" /\ k \in DOMAIN file.nodes
    BY <1>1, OutputNodeSources
  <2>3. CASE OutputNode(file.nodes[k])
               = BoundaryRefNode(file.nodes[k].id, hashed[file.nodes[k].id])
    BY <1>1, <2>1, <2>3, StubValid
  <2>4. CASE /\ OutputNode(file.nodes[k]).type = file.nodes[k].type
             /\ OutputNode(file.nodes[k]).ids = FilterIdentifiers(file.nodes[k], call.scope)
    BY <2>1, <2>2, <2>4, FilteredValid
  <2> QED
    BY <2>2, <2>3, <2>4, OutputNodeIs
<1>4. IdentifiersValid(Output) /\ BoundaryRefsOpaque(Output) /\ ScopeRespected(Output)
  BY <1>2, <1>3 DEF NodeValid, IdentifiersValid, BoundaryRefsOpaque, ScopeRespected
<1>5. ReportingEntityIsOrganization(Output)
  <2> SUFFICES ASSUME file.reporting # None
               PROVE  /\ NodesWithId(Output, file.reporting) # {}
                      /\ NodeAt(Output, file.reporting).type = "organization"
    BY <1>2 DEF ReportingEntityIsOrganization
  <2>1. NodeAt(file, file.reporting).type = "organization" /\ Act(file.reporting) = "retain"
    BY <1>1 DEF ReportingEntityIsOrganization
  <2> QED
    BY <1>1, <2>1, EndInOutput
<1> QED
  BY <1>1, <1>4, <1>5, OutputIdsUnique, OutputEdgesValid DEF L1Valid

(* A reporting entity that became a stub or was dropped fails the rule on  *)
(* reporting entities.                                                     *)
LEMMA LostReportingFails ==
  ASSUME Valid, file.reporting # None, Act(file.reporting) # "retain"
  PROVE  ~ReportingEntityIsOrganization(Output)
<1>1. IsFile(file) /\ Output.nodes = OutputNodes /\ Output.reporting = file.reporting
  BY OutputIs DEF Valid
<1>2. CASE Act(file.reporting) = "omit"
  <2>1. ASSUME NEW i \in DOMAIN OutputNodes, OutputNodes[i].id = file.reporting
        PROVE  FALSE
    <3>1. PICK k \in KeptNodes : OutputNodes[i] = OutputNode(file.nodes[k])
      BY <1>1, OutputNodeSources
    <3>2. IsNode(file.nodes[k]) /\ Act(file.nodes[k].id) # "omit"
      BY <1>1, OutputNodeSources
    <3>3. OutputNodes[i].id = file.nodes[k].id
      BY <3>1, <3>2, OutputNodeIs
    <3> QED
      BY <1>2, <2>1, <3>2, <3>3
  <2>2. NodesWithId(Output, file.reporting) = {}
    BY <1>1, <2>1 DEF NodesWithId
  <2> QED
    BY <1>1, <2>2 DEF ReportingEntityIsOrganization
<1>3. CASE Act(file.reporting) = "replace"
  <2>1. NodeAt(Output, file.reporting).type = "boundary_ref"
    BY <1>3, EndInOutput
  <2> QED
    BY <1>1, <2>1 DEF ReportingEntityIsOrganization
<1> QED
  BY <1>2, <1>3, ActInActions DEF Actions

(* A boundary reference whose own identifier is filtered away fails the    *)
(* rule on boundary references.                                            *)
LEMMA LostOpaqueFails ==
  ASSUME Valid, NEW n \in Elements(file.nodes), n.type = "boundary_ref",
         n.ids[1].sens \notin SensitivityAllowed(call.scope) \cup {None}
  PROVE  ~BoundaryRefsOpaque(Output)
<1>1. /\ IsFile(file) /\ NodeIdsUnique(file) /\ BoundaryRefsOpaque(file)
      /\ Output.nodes = OutputNodes
  BY OutputIs DEF Valid, L1Valid
<1>2. PICK k \in DOMAIN file.nodes : n = file.nodes[k]
  BY DEF Elements
<1>3. IsNode(n) /\ Len(n.ids) = 1 /\ DOMAIN n.ids = {1}
  BY <1>1, <1>2 DEF IsFile, BoundaryRefsOpaque, IsNode, IsSequence
<1>4. NodesWithId(file, n.id) = {k} /\ NodeAt(file, n.id) = n
  <2>1. k \in Int
    BY <1>1, <1>2 DEF IsFile, IsSequence
  <2>2. NodesWithId(file, n.id) = {k}
    BY <1>1, <1>2 DEF NodesWithId, NodeIdsUnique
  <2> QED
    BY <1>2, <2>1, <2>2 DEF NodeAt
<1>5. Act(n.id) = "retain"
  BY <1>4 DEF Act, ActionOf, NodeAction, ClassifyNode
<1>6. k \in KeptNodes
  BY <1>2, <1>5 DEF KeptNodes, Act
<1> DEFINE i == Pos(KeptNodes, k)
           S == AllowedPositions(n, call.scope)
<1>7. i \in DOMAIN OutputNodes /\ OutputNodes[i] = OutputNode(n)
  BY <1>1, <1>2, <1>6, OutputNodesAre DEF Renumbers
<1>8. /\ OutputNodes[i].type = "boundary_ref"
      /\ OutputNodes[i].ids = FilterIdentifiers(n, call.scope)
  BY <1>3, <1>5, <1>7, OutputNodeIs
<1>9. S = {}
  <2>1. EffectiveSensitivity(n.ids[1], n.type) = n.ids[1].sens
    BY DEF EffectiveSensitivity
  <2> QED
    BY <1>3, <2>1 DEF AllowedPositions
<1>10. Len(FilterIdentifiers(n, call.scope)) = 0
  BY <1>3, <1>9, FilteredIdentifiers, FS_EmptySet DEF Renumbers
<1> HIDE DEF i
<1> QED
  BY <1>1, <1>7, <1>8, <1>10 DEF BoundaryRefsOpaque

LEMMA UnmanageableFails ==
  ASSUME Valid, Unmanageable
  PROVE  ~L1Valid(Output)
BY LostReportingFails, LostOpaqueFails DEF Unmanageable, L1Valid, Act

(* For every valid file and every choice of retained nodes: the final      *)
(* validation rejects what redaction made of it exactly when its reporting *)
(* entity does not stay, or a boundary reference is itself too sensitive.  *)
THEOREM FailsAsForeseen == Spec => FailsExactlyAsForeseen
<1> DEFINE Step == L1Valid(file) /\ call # Idle /\ outcome' \in {"done", "invalid"} =>
                     (outcome' = "invalid" <=> Unmanageable)
<1>1. Inv /\ TypeOK /\ [Next]_vars => [Step]_vars
  <2> SUFFICES ASSUME Inv, TypeOK, Next, L1Valid(file), call # Idle,
                      outcome' \in {"done", "invalid"}
               PROVE  outcome' = "invalid" <=> Unmanageable
    OBVIOUS
  <2>1. Valid
    BY DEF Valid, Inv
  <2>2. CASE Accept
    BY <2>1, <2>2, UnmanageableFails DEF Accept
  <2>3. CASE Reject
    BY <2>1, <2>3, OutputValid DEF Reject, Manageable
  <2>4. CASE SkipNode \/ HashNode
    BY <2>4 DEF SkipNode, HashNode, TypeOK
  <2>5. CASE EntropyFails
    BY <2>5 DEF EntropyFails
  <2>6. CASE Call
    BY <2>6 DEF Call, Refuse, RunCommand, Redact, Calling
  <2> QED
    BY <2>2, <2>3, <2>4, <2>5, <2>6 DEF Next
<1>2. Spec => [][Step]_vars
  BY <1>1, InvHolds, LoopCorrect, PTL DEF Spec
<1> QED
  BY <1>2 DEF FailsExactlyAsForeseen

-----------------------------------------------------------------------------
(* What enters the hash: the canonical strings of the public identifiers,  *)
(* each as often as it is recorded, in byte order.                         *)

Occurrences(texts, text) == {k \in DOMAIN texts : texts[k] = text}

SortedTexts(texts) ==
  /\ IsSequence(texts) /\ texts = [k \in DOMAIN texts |-> texts[k]]
  /\ \A k \in DOMAIN texts : texts[k] \in Text
  /\ \A j, k \in DOMAIN texts : j < k => TextLeq(texts[j], texts[k])

LEMMA OccurrencesFinite ==
  ASSUME NEW s, IsSequence(s), NEW S \in SUBSET DOMAIN s
  PROVE  IsFiniteSet(S) /\ Cardinality(S) \in Nat
BY PositionsFinite, FS_CardinalityType

\* Where two sorted sequences differ first, the lesser text is rarer in the other.
LEMMA FirstDifference ==
  ASSUME NEW s, SortedTexts(s), NEW t, SortedTexts(t), NEW i \in DOMAIN s,
         \A j \in 1 .. i - 1 : j \in DOMAIN t /\ s[j] = t[j],
         i \in DOMAIN t => TextLess(s[i], t[i])
  PROVE  Cardinality(Occurrences(t, s[i])) < Cardinality(Occurrences(s, s[i]))
<1> DEFINE x == s[i]
           A == Occurrences(t, x)
           B == Occurrences(s, x)
<1>1. /\ Len(s) \in Nat /\ DOMAIN s = 1 .. Len(s) /\ Len(t) \in Nat /\ DOMAIN t = 1 .. Len(t)
      /\ \A k \in DOMAIN s : s[k] \in Text
      /\ \A k \in DOMAIN t : t[k] \in Text
  BY DEF SortedTexts, IsSequence
<1>2. ASSUME NEW k \in A PROVE k \in B /\ k # i
  <2>1. k \in DOMAIN t /\ t[k] = x /\ x \in Text
    BY <1>1 DEF Occurrences
  <2>2. CASE k < i
    BY <1>1, <2>1, <2>2 DEF Occurrences
  <2>3. CASE k >= i
    <3>1. i \in DOMAIN t /\ t[i] \in Text /\ TextLess(x, t[i])
      BY <1>1, <2>1, <2>3
    <3>2. t[i] = t[k] \/ TextLess(t[i], t[k])
      BY <1>1, <2>1, <2>3, <3>1 DEF SortedTexts, TextLeq
    <3>3. TextLess(x, x)
      BY <2>1, <3>1, <3>2, TextLessTransitive
    <3> QED
      BY <2>1, <3>3, TextLessIrreflexive
  <2> QED
    BY <1>1, <2>1, <2>2, <2>3
<1>3. B \in SUBSET DOMAIN s /\ i \in B
  BY DEF Occurrences
<1>4. IsFiniteSet(B)
  BY <1>3, OccurrencesFinite DEF SortedTexts
<1>5. A \subseteq B /\ A # B
  BY <1>2, <1>3
<1> HIDE DEF A, B, x
<1>6. IsFiniteSet(A) /\ Cardinality(A) \in Nat /\ Cardinality(B) \in Nat /\ Cardinality(A) < Cardinality(B)
  BY <1>4, <1>5, FS_Subset, FS_CardinalityType
<1> QED
  BY <1>6 DEF A, B, x

\* A sorted sequence is known from how often each text occurs in it.
LEMMA SortedTextsUnique ==
  ASSUME NEW s, SortedTexts(s), NEW t, SortedTexts(t),
         \A x : Cardinality(Occurrences(s, x)) = Cardinality(Occurrences(t, x))
  PROVE  s = t
<1>1. /\ Len(s) \in Nat /\ DOMAIN s = 1 .. Len(s) /\ Len(t) \in Nat /\ DOMAIN t = 1 .. Len(t)
      /\ \A k \in DOMAIN s : s[k] \in Text
      /\ \A k \in DOMAIN t : t[k] \in Text
      /\ s = [k \in DOMAIN s |-> s[k]] /\ t = [k \in DOMAIN t |-> t[k]]
  BY DEF SortedTexts, IsSequence
<1> DEFINE D == {k \in DOMAIN s \cup DOMAIN t : ~(k \in DOMAIN s /\ k \in DOMAIN t /\ s[k] = t[k])}
<1>2. ASSUME D # {} PROVE FALSE
  <2>1. D \in SUBSET Nat
    BY <1>1
  <2>2. PICK i \in D : \A k \in D : i <= k
    BY <1>2, <2>1, LeastNatural
  <2>3. \A j \in 1 .. i - 1 : j \in DOMAIN s /\ j \in DOMAIN t /\ s[j] = t[j]
    <3> SUFFICES ASSUME NEW j \in 1 .. i - 1 PROVE j \in DOMAIN s \cup DOMAIN t /\ j \notin D
      OBVIOUS
    <3>1. i \in 1 .. Len(s) \/ i \in 1 .. Len(t)
      BY <1>1
    <3> QED
      BY <1>1, <2>2, <3>1
  <2>4. \A u, v : ~(Cardinality(Occurrences(u, v)) < Cardinality(Occurrences(u, v)))
                    \/ Cardinality(Occurrences(u, v)) \notin Int
    OBVIOUS
  <2>5. \A x : /\ Cardinality(Occurrences(s, x)) \in Nat
               /\ Cardinality(Occurrences(t, x)) \in Nat
    BY OccurrencesFinite DEF Occurrences, SortedTexts
  <2>6. CASE i \in DOMAIN s /\ (i \in DOMAIN t => TextLess(s[i], t[i]))
    <3>1. Cardinality(Occurrences(t, s[i])) < Cardinality(Occurrences(s, s[i]))
      BY <2>3, <2>6, FirstDifference
    <3> QED
      BY <2>5, <3>1
  <2>7. CASE i \in DOMAIN t /\ (i \in DOMAIN s => TextLess(t[i], s[i]))
    <3>1. Cardinality(Occurrences(s, t[i])) < Cardinality(Occurrences(t, t[i]))
      BY <2>3, <2>7, FirstDifference
    <3> QED
      BY <2>5, <3>1
  <2>8. i \in DOMAIN s /\ i \in DOMAIN t => TextLess(s[i], t[i]) \/ TextLess(t[i], s[i])
    BY <1>1, TextLessTotal
  <2> QED
    BY <2>6, <2>7, <2>8
<1>3. DOMAIN s = DOMAIN t /\ \A k \in DOMAIN s : s[k] = t[k]
  BY <1>2
<1> QED
  BY <1>1, <1>3

\* The texts are the canonical strings of the public identifiers of the node,
\* placed by at.
Spells(texts, node, at) ==
  /\ SortedTexts(texts)
  /\ at \in [PublicAt(node) -> DOMAIN texts]
  /\ \A i, j \in PublicAt(node) : at[i] = at[j] => i = j
  /\ \A k \in DOMAIN texts : \E i \in PublicAt(node) : at[i] = k
  /\ \A i \in PublicAt(node) : texts[at[i]] = CanonicalId(node.ids[i])

LEMMA SpelledForms ==
  ASSUME NEW node, IsSequence(node.ids), NEW texts, NEW at, Spells(texts, node, at)
  PROVE  /\ DOMAIN PublicForms(node) = Elements(texts)
         /\ \A x \in Elements(texts) : PublicForms(node)[x] = Cardinality(Occurrences(texts, x))
         /\ (texts = <<>>) <=> (DOMAIN PublicForms(node) = {})
<1> DEFINE P == PublicAt(node)
<1>1. P \in SUBSET DOMAIN node.ids
  BY DEF PublicAt
<1>2. DOMAIN PublicForms(node) = {CanonicalId(node.ids[i]) : i \in P}
  BY DEF PublicForms
<1>3. {CanonicalId(node.ids[i]) : i \in P} = Elements(texts)
  <2>1. /\ \A i \in P : at[i] \in DOMAIN texts /\ texts[at[i]] = CanonicalId(node.ids[i])
        /\ \A k \in DOMAIN texts : \E i \in P : at[i] = k
    BY DEF Spells
  <2> HIDE DEF P
  <2> QED
    BY <2>1 DEF Elements
<1>4. ASSUME NEW x \in Elements(texts)
      PROVE  PublicForms(node)[x] = Cardinality(Occurrences(texts, x))
  <2> DEFINE S == {i \in P : CanonicalId(node.ids[i]) = x}
             T == Occurrences(texts, x)
             h == [i \in S |-> at[i]]
  <2>1. PublicForms(node)[x] = Cardinality(S)
    BY <1>2, <1>3 DEF PublicForms
  <2>2. S \in SUBSET DOMAIN node.ids /\ S \subseteq P
    BY <1>1
  <2>3. IsFiniteSet(S)
    BY <2>2, OccurrencesFinite
  <2>4. \A i \in S : at[i] \in T
    BY DEF Spells, Occurrences
  <2>5. \A k \in T : \E i \in S : at[i] = k
    BY DEF Spells, Occurrences
  <2>6. \A i, j \in S : at[i] = at[j] => i = j
    BY DEF Spells
  <2> HIDE DEF S, T, P
  <2>7. h \in [S -> T] /\ \A i \in S : h[i] = at[i]
    BY <2>4
  <2> HIDE DEF h
  <2>8. Cardinality(T) = Cardinality(S)
    BY <2>3, <2>5, <2>6, <2>7, SameSize
  <2> QED
    BY <2>1, <2>8 DEF T
<1>5. (texts = <<>>) <=> (Elements(texts) = {})
  <2>1. IsSequence(texts) /\ texts = [k \in DOMAIN texts |-> texts[k]]
    BY DEF Spells, SortedTexts
  <2>2. (Elements(texts) = {}) <=> (DOMAIN texts = {})
    BY DEF Elements
  <2>3. DOMAIN texts = {} => texts = <<>>
    BY <2>1
  <2> QED
    BY <2>2, <2>3
<1> QED
  BY <1>2, <1>3, <1>4, <1>5

\* The texts of two nodes are the same exactly when they say the same as often.
LEMMA SameForms ==
  ASSUME NEW m, IsSequence(m.ids), NEW s, NEW f, Spells(s, m, f),
         NEW n, IsSequence(n.ids), NEW t, NEW g, Spells(t, n, g)
  PROVE  s = t <=> PublicForms(m) = PublicForms(n)
<1>1. /\ DOMAIN PublicForms(m) = Elements(s)
      /\ \A x \in Elements(s) : PublicForms(m)[x] = Cardinality(Occurrences(s, x))
  BY SpelledForms
<1>2. /\ DOMAIN PublicForms(n) = Elements(t)
      /\ \A x \in Elements(t) : PublicForms(n)[x] = Cardinality(Occurrences(t, x))
  BY SpelledForms
<1>3. ASSUME s = t PROVE PublicForms(m) = PublicForms(n)
  <2>1. /\ PublicForms(m) = [x \in DOMAIN PublicForms(m) |-> PublicForms(m)[x]]
        /\ PublicForms(n) = [x \in DOMAIN PublicForms(n) |-> PublicForms(n)[x]]
    BY DEF PublicForms
  <2>2. DOMAIN PublicForms(m) = DOMAIN PublicForms(n)
    BY <1>1, <1>2, <1>3
  <2>3. \A x \in DOMAIN PublicForms(m) : PublicForms(m)[x] = PublicForms(n)[x]
    BY <1>1, <1>2, <1>3
  <2> QED
    BY <2>1, <2>2, <2>3
<1>4. ASSUME PublicForms(m) = PublicForms(n) PROVE s = t
  <2>1. ASSUME NEW x PROVE Cardinality(Occurrences(s, x)) = Cardinality(Occurrences(t, x))
    <3>1. CASE x \in Elements(s)
      BY <1>1, <1>2, <1>4, <3>1
    <3>2. CASE x \notin Elements(s)
      <4>1. x \notin Elements(t)
        BY <1>1, <1>2, <1>4, <3>2
      <4>2. Occurrences(s, x) = {} /\ Occurrences(t, x) = {}
        BY <3>2, <4>1 DEF Occurrences, Elements
      <4> QED
        BY <4>2
    <3> QED
      BY <3>1, <3>2
  <2> QED
    BY <2>1, SortedTextsUnique DEF Spells
<1> QED
  BY <1>3, <1>4

\* The list of the texts at the positions in S, in their order, ties by position.
LEMMA HashInputSpells ==
  ASSUME NEW node, IsNode(node), HasIdentifiers(node)
  PROVE  \E at : Spells(HashInput(node), node, at)
<1> DEFINE S == AllowedPositions(node, "public")
           ids == FilterIdentifiers(node, "public")
           D == DOMAIN ids
           Less(i, j) == \/ TextLess(CanonicalId(ids[i]), CanonicalId(ids[j]))
                         \/ CanonicalId(ids[i]) = CanonicalId(ids[j]) /\ i < j
           R == {p \in D \X D : Less(p[1], p[2])}
           order == SortedBy(D, Less)
           texts == HashInput(node)
<1>1. texts = [k \in DOMAIN order |-> CanonicalId(ids[order[k]])]
  BY DEF HashInput
<1>2. S = PublicAt(node)
  BY DEF AllowedPositions, PublicAt, SensitivityAllowed
<1>3. Renumbers(ids, S) /\ S \in SUBSET DOMAIN node.ids /\ \A k \in S : ids[Pos(S, k)] = node.ids[k]
  BY FilteredIdentifiers
<1>4. order = [i \in 1 .. Cardinality(D) |->
                 CHOOSE e \in D : Cardinality({d \in D : Less(d, e)}) = i - 1]
  BY DEF SortedBy
<1>5. \A i, j \in D : <<i, j>> \in R <=> Less(i, j)
  OBVIOUS
<1> HIDE DEF S, ids, texts
<1>6. IsSequence(ids) /\ D = 1 .. Len(ids) /\ Len(ids) \in Nat /\ IsFiniteSet(D)
  BY <1>3, PositionsFinite DEF Renumbers, IsSequence
<1>7. \A i \in D : \E k \in S : i = Pos(S, k) /\ ids[i] = node.ids[k]
  BY <1>3 DEF Renumbers
<1>8. \A i \in D : CanonicalId(ids[i]) \in Text
  <2>1. \A k \in S : IsIdentifier(node.ids[k])
    BY <1>3 DEF HasIdentifiers
  <2> QED
    BY <1>7, <2>1, CanonicalIdIs
<1>9. StrictOrder(R, D)
  <2>1. \A i \in D : ~Less(i, i)
    BY <1>6, <1>8, TextLessIrreflexive
  <2>2. \A i, j, k \in D : Less(i, j) /\ Less(j, k) => Less(i, k)
    BY <1>6, <1>8, TextLessTransitive
  <2>3. \A i, j \in D : i = j \/ Less(i, j) \/ Less(j, i)
    BY <1>6, <1>8, TextLessTotal
  <2> HIDE DEF D, R, Less
  <2> QED
    BY <1>5, <2>1, <2>2, <2>3 DEF StrictOrder
<1>10. /\ Enumerates(order, R, D)
       /\ DOMAIN order = 1 .. Cardinality(D)
  <2>1. ASSUME NEW e \in D PROVE {d \in D : Less(d, e)} = Below(R, D, e)
    BY <1>5 DEF Below
  <2>2. \A e \in D : Cardinality({d \in D : Less(d, e)}) = RankIn(R, D, e)
    BY <2>1 DEF RankIn
  <2> HIDE DEF D, R, Less
  <2>3. DOMAIN order = 1 .. Cardinality(D)
    BY <1>4
  <2>4. \A i \in 1 .. Cardinality(D) :
          (\E e \in D : RankIn(R, D, e) = i - 1) => order[i] \in D /\ RankIn(R, D, order[i]) = i - 1
    BY <1>4, <2>2
  <2> HIDE DEF order
  <2> QED
    BY <1>6, <1>9, <2>3, <2>4, EnumerationByRank
<1> HIDE DEF D, R, Less, order
<1>11. /\ Cardinality(D) \in Nat
       /\ \A e \in D : RankIn(R, D, e) + 1 \in DOMAIN order /\ order[RankIn(R, D, e) + 1] = e
       /\ \A i, j \in DOMAIN order : i < j => <<order[i], order[j]>> \in R
       /\ \A i, j \in DOMAIN order : order[i] = order[j] => i = j
  BY <1>6, <1>9, <1>10, EnumerationIs
<1>11a. \A i \in DOMAIN order : order[i] \in D
  BY <1>10 DEF Enumerates
<1>12. DOMAIN texts = DOMAIN order /\ \A k \in DOMAIN texts : texts[k] = CanonicalId(ids[order[k]])
  BY <1>1
<1>13. SortedTexts(texts)
  <2>1. IsSequence(texts) /\ texts = [k \in DOMAIN texts |-> texts[k]]
    BY <1>1, <1>10, <1>11, <1>12, FunctionIsSequence
  <2>2. \A k \in DOMAIN texts : texts[k] \in Text
    BY <1>8, <1>11a, <1>12
  <2>3. ASSUME NEW j \in DOMAIN texts, NEW k \in DOMAIN texts, j < k
        PROVE  TextLeq(texts[j], texts[k])
    <3>1. Less(order[j], order[k])
      BY <1>5, <1>11, <1>11a, <1>12, <2>3
    <3> QED
      BY <1>12, <3>1 DEF Less, TextLeq
  <2> QED
    BY <2>1, <2>2, <2>3 DEF SortedTexts
<1> DEFINE at == [i \in S |-> RankIn(R, D, Pos(S, i)) + 1]
<1>14. \A i \in S : Pos(S, i) \in D /\ ids[Pos(S, i)] = node.ids[i]
  BY <1>3 DEF Renumbers, D
<1>15. at \in [S -> DOMAIN texts] /\ \A i \in S : at[i] = RankIn(R, D, Pos(S, i)) + 1
  BY <1>11, <1>12, <1>14
<1> HIDE DEF at
<1>16. \A i \in S : order[at[i]] = Pos(S, i)
  BY <1>11, <1>14, <1>15
<1>17. \A i, j \in S : at[i] = at[j] => i = j
  BY <1>3, <1>16 DEF Renumbers
<1>18. ASSUME NEW k \in DOMAIN texts PROVE \E i \in S : at[i] = k
  <2>1. PICK i \in S : order[k] = Pos(S, i)
    BY <1>7, <1>11a, <1>12
  <2> QED
    BY <1>11, <1>12, <1>15, <1>16, <2>1
<1>19. \A i \in S : texts[at[i]] = CanonicalId(node.ids[i])
  BY <1>12, <1>14, <1>15, <1>16
<1>20. Spells(texts, node, at)
  BY <1>2, <1>13, <1>15, <1>17, <1>18, <1>19 DEF Spells
<1> QED
  BY <1>20 DEF texts

\* Redaction leaves what enters the hash, as a public identifier suits everyone.
LEMMA FilteredHashInput ==
  ASSUME NEW node, IsNode(node), HasIdentifiers(node),
         NEW left, IsNode(left), left.type = node.type,
         NEW scope \in {"partner", "public"}, left.ids = FilterIdentifiers(node, scope)
  PROVE  HasIdentifiers(left) /\ HashInput(left) = HashInput(node)
<1> DEFINE S == AllowedPositions(node, scope)
           P == PublicAt(node)
           Q == PublicAt(left)
<1>1. /\ Renumbers(left.ids, S) /\ S \in SUBSET DOMAIN node.ids
      /\ \A k \in S : left.ids[Pos(S, k)] = node.ids[k]
  BY FilteredIdentifiers
<1>2. P \subseteq S
  BY DEF PublicAt, AllowedPositions, SensitivityAllowed
<1> HIDE DEF S
<1>3. \A i \in DOMAIN left.ids : \E k \in S : i = Pos(S, k) /\ left.ids[i] = node.ids[k]
  BY <1>1 DEF Renumbers
<1>4. HasIdentifiers(left)
  BY <1>1, <1>3 DEF HasIdentifiers, Renumbers
<1>5. \A i \in P : Pos(S, i) \in Q /\ left.ids[Pos(S, i)] = node.ids[i]
  BY <1>1, <1>2 DEF Renumbers, PublicAt
<1>6. ASSUME NEW j \in Q PROVE \E i \in P : Pos(S, i) = j
  <2>1. j \in DOMAIN left.ids /\ EffectiveSensitivity(left.ids[j], left.type) = "public"
    BY DEF PublicAt
  <2>2. PICK k \in S : j = Pos(S, k) /\ left.ids[j] = node.ids[k]
    BY <1>3, <2>1
  <2>3. k \in P
    BY <1>1, <2>1, <2>2 DEF PublicAt
  <2> QED
    BY <2>2, <2>3
<1>7. PICK f : Spells(HashInput(node), node, f)
  BY HashInputSpells
<1>8. PICK g : Spells(HashInput(left), left, g)
  BY <1>4, HashInputSpells
<1> DEFINE t == HashInput(left)
           h == [i \in P |-> g[Pos(S, i)]]
<1>9. /\ SortedTexts(t) /\ g \in [Q -> DOMAIN t]
      /\ \A i, j \in Q : g[i] = g[j] => i = j
      /\ \A k \in DOMAIN t : \E i \in Q : g[i] = k
      /\ \A i \in Q : t[g[i]] = CanonicalId(left.ids[i])
  BY <1>8 DEF Spells
<1> HIDE DEF P, Q, t
<1>10. h \in [P -> DOMAIN t] /\ \A i \in P : h[i] = g[Pos(S, i)]
  BY <1>5, <1>9
<1> HIDE DEF h
<1>11. \A i, j \in P : h[i] = h[j] => i = j
  BY <1>1, <1>2, <1>5, <1>9, <1>10 DEF Renumbers
<1>12. \A k \in DOMAIN t : \E i \in P : h[i] = k
  BY <1>6, <1>9, <1>10
<1>13. \A i \in P : t[h[i]] = CanonicalId(node.ids[i])
  BY <1>5, <1>9, <1>10
<1>14. Spells(t, node, h)
  BY <1>9, <1>10, <1>11, <1>12, <1>13 DEF Spells, P
<1>15. t = HashInput(node)
  BY <1>7, <1>14, SameForms DEF IsNode
<1> QED
  BY <1>4, <1>15 DEF t

-----------------------------------------------------------------------------
(* The stubs.  A node of the file still gives the hash of its original, as *)
(* long as it is one; a stub has that hash, or a token that nothing else   *)
(* has if there was nothing to hash.                                       *)

Source(id) == NodeAt(original, id)

Carries(n) ==
  n.type # "boundary_ref" => HasIdentifiers(n) /\ HashInput(n) = HashInput(Source(n.id))

Carried ==
  \/ file.nodes = original.nodes
  \/ /\ NodeIdsUnique(file)
     /\ \A n \in Elements(file.nodes) :
          /\ \E j \in DOMAIN original.nodes : NodesWithId(original, n.id) = {j}
          /\ Carries(n)

IsToken(value) == \E j \in Nat : value = RandomToken(j)

\* The value hides a node that has these texts, among the tokens below the limit.
Hides(value, texts, limit) ==
  IF texts = <<>> THEN \E j \in Nat : j < limit /\ value = RandomToken(j)
  ELSE value = Sha256(texts)

Value(n) == n.ids[1].value[1]

StubsHide ==
  /\ \A n \in Stubs : /\ IsSequence(n.ids) /\ Len(n.ids) = 1
                      /\ n.ids[1].value = <<Value(n), 0>>
                      /\ Hides(Value(n), HashInput(Source(n.id)), drawn)
  /\ \A m, n \in Stubs : m.id # n.id /\ Value(m) = Value(n) => ~IsToken(Value(m))

HashedHide ==
  call # Idle =>
    /\ \A id \in DOMAIN hashed : \E k \in DOMAIN file.nodes :
         /\ file.nodes[k].id = id /\ Act(id) = "replace"
         /\ Hides(hashed[id], HashInput(file.nodes[k]), drawn)
    /\ \A id, other \in DOMAIN hashed :
         id # other /\ hashed[id] = hashed[other] => ~IsToken(hashed[id])
    /\ \A id \in DOMAIN hashed : \A n \in Stubs :
         hashed[id] = Value(n) => ~IsToken(Value(n))

StubInv ==
  /\ LoopInv /\ original \in Originals /\ drawn \in Nat /\ cursor # 0
  /\ Carried /\ StubsHide /\ HashedHide

LEMMA ValuesDiffer ==
  /\ \A texts : ~IsToken(Sha256(texts))
  /\ \A i, j : RandomToken(i) = RandomToken(j) => i = j
  /\ \A s, t : Sha256(s) = Sha256(t) => s = t
  /\ \A texts, value, limit : Hides(value, texts, limit) => (IsToken(value) <=> texts = <<>>)
BY DEF IsToken, Sha256, RandomToken, Hides

LEMMA TheSource ==
  ASSUME NEW id, NEW j \in DOMAIN original.nodes, NodesWithId(original, id) = {j},
         original \in Originals
  PROVE  /\ Source(id) = original.nodes[j] /\ Source(id).id = id
         /\ OriginalNodes(id) = {Source(id)}
         /\ IsNode(Source(id))
         /\ Source(id).type # "boundary_ref" => HasIdentifiers(Source(id))
<1>1. /\ IsSequence(original.nodes) /\ \A k \in DOMAIN original.nodes : IsNode(original.nodes[k])
      /\ \A k \in DOMAIN original.nodes :
           original.nodes[k].type # "boundary_ref" => HasIdentifiers(original.nodes[k])
  BY OriginalsAssumption DEF IsFile
<1>2. j <= j
  BY <1>1 DEF IsSequence
<1>3. Source(id) = original.nodes[j] /\ original.nodes[j].id = id
  BY <1>2 DEF Source, NodeAt, NodesWithId
<1>4. OriginalNodes(id) = {original.nodes[j]}
  BY DEF OriginalNodes
<1> QED
  BY <1>1, <1>3, <1>4

\* While the nodes are the original ones there are no stubs.
LEMMA NoStubsYet ==
  ASSUME file.nodes = original.nodes
  PROVE  Stubs = {}
<1> SUFFICES ASSUME NEW n \in Stubs PROVE FALSE
  OBVIOUS
<1>1. PICK k \in DOMAIN original.nodes : n = original.nodes[k]
  BY DEF Stubs, Elements
<1>2. n \in OriginalNodes(n.id) /\ n.type = "boundary_ref"
  BY <1>1 DEF OriginalNodes, NodesWithId, Stubs
<1> QED
  BY <1>2 DEF Stubs

\* A node that stays has one original, and what there was to hash of it.
LEMMA KeptCarried ==
  ASSUME IsFile(file), Carried, original \in Originals, NodeIdsUnique(Output),
         NEW k \in KeptNodes
  PROVE  /\ \E j \in DOMAIN original.nodes : NodesWithId(original, file.nodes[k].id) = {j}
         /\ Carries(file.nodes[k])
<1>1. k \in DOMAIN file.nodes /\ NodesWithId(file, file.nodes[k].id) = {k}
  BY KeptNodesUnique DEF KeptNodes
<1>2. CASE file.nodes = original.nodes
  <2>1. NodesWithId(original, file.nodes[k].id) = {k} /\ k \in DOMAIN original.nodes
    BY <1>1, <1>2 DEF NodesWithId
  <2>2. Source(file.nodes[k].id) = file.nodes[k]
    BY <1>2, <2>1, TheSource
  <2> QED
    BY <1>2, <2>1, <2>2, OriginalsAssumption DEF Carries
<1>3. CASE \A n \in Elements(file.nodes) :
             /\ \E j \in DOMAIN original.nodes : NodesWithId(original, n.id) = {j}
             /\ Carries(n)
  BY <1>1, <1>3 DEF Elements
<1> QED
  BY <1>2, <1>3 DEF Carried

SourceStays == \A id : /\ Source(id)' = Source(id)
                       /\ NodesWithId(original, id)' = NodesWithId(original, id)

LEMMA SourcesStay ==
  ASSUME original' = original
  PROVE  SourceStays
BY DEF SourceStays, Source, NodeAt, NodesWithId

\* Where a stub of the output comes from.
NewStub(n) ==
  /\ n.id \in DOMAIN hashed /\ IsSequence(n.ids) /\ Len(n.ids) = 1
  /\ n.ids[1].value = <<hashed[n.id], 0>>
  /\ Hides(hashed[n.id], HashInput(Source(n.id)), drawn)

OldStub(n) ==
  /\ IsSequence(n.ids) /\ Len(n.ids) = 1
  /\ \E m \in Stubs : m.id = n.id /\ m.ids[1] = n.ids[1]

LEMMA StubSource ==
  ASSUME StubInv, Hashed, L1Valid(Output), NEW k \in KeptNodes,
         OutputNode(file.nodes[k]).type = "boundary_ref",
         \A o \in OriginalNodes(file.nodes[k].id) : o.type # "boundary_ref"
  PROVE  /\ OutputNode(file.nodes[k]).id = file.nodes[k].id
         /\ NewStub(OutputNode(file.nodes[k])) \/ OldStub(OutputNode(file.nodes[k]))
<1> DEFINE node == file.nodes[k]
           n == OutputNode(node)
<1>1. /\ IsFile(file) /\ Carried /\ original \in Originals /\ cursor \in Nat \ {0}
      /\ NodeIdsUnique(Output) /\ BoundaryRefsOpaque(Output) /\ call # Idle
      /\ cursor \notin DOMAIN file.nodes
  BY DEF StubInv, LoopInv, Inv, L1Valid, Hashed
<1>2. k \in DOMAIN file.nodes /\ IsNode(node) /\ Act(node.id) # "omit"
  BY <1>1 DEF KeptNodes, Act, IsFile
<1>3. NodesWithId(file, node.id) = {k} /\ NodeAt(file, node.id) = node
  BY <1>1, KeptNodesUnique
<1>4. /\ IsNode(n) /\ n.id = node.id
      /\ \/ /\ Act(node.id) = "replace"
            /\ n = BoundaryRefNode(node.id, hashed[node.id])
         \/ /\ Act(node.id) = "retain"
            /\ n.type = node.type
            /\ n.ids = FilterIdentifiers(node, call.scope)
  BY <1>2, OutputNodeIs
<1>5. Carries(node)
  BY <1>1, KeptCarried
<1>6. Len(n.ids) = 1
  <2>1. n = OutputNodes[Pos(KeptNodes, k)] /\ Pos(KeptNodes, k) \in DOMAIN OutputNodes
    BY <1>1, OutputNodesAre DEF Renumbers
  <2>2. Output.nodes = OutputNodes
    BY <1>1, OutputIs
  <2> QED
    BY <1>1, <2>1, <2>2 DEF BoundaryRefsOpaque
<1> HIDE DEF n
<1>7. CASE Act(node.id) = "replace"
  <2>1. n = BoundaryRefNode(node.id, hashed[node.id])
    BY <1>4, <1>7
  <2>2. node.type # "boundary_ref"
    BY <1>3, <1>7 DEF Act, ActionOf, NodeAction
  <2>3. node.id \in DOMAIN hashed
    <3>1. k < cursor
      BY <1>1, <1>2 DEF IsFile, IsSequence
    <3> QED
      BY <1>1, <1>2, <1>7, <3>1 DEF StubInv, LoopInv, TypeOK, Act
  <2>4. Hides(hashed[node.id], HashInput(node), drawn)
    <3>1. PICK l \in DOMAIN file.nodes :
            file.nodes[l].id = node.id /\ Hides(hashed[node.id], HashInput(file.nodes[l]), drawn)
      BY <1>1, <2>3 DEF StubInv, HashedHide
    <3>2. l = k
      BY <1>3, <3>1 DEF NodesWithId
    <3> QED
      BY <3>1, <3>2
  <2>5. HashInput(node) = HashInput(Source(node.id))
    BY <1>5, <2>2 DEF Carries
  <2>6. n.ids[1].value = <<hashed[node.id], 0>>
    BY <2>1 DEF BoundaryRefNode
  <2>7. NewStub(n)
    BY <1>4, <1>6, <2>3, <2>4, <2>5, <2>6 DEF NewStub, IsNode
  <2> QED
    BY <1>4, <2>7 DEF n
<1>8. CASE Act(node.id) # "replace"
  <2>1. n.type = node.type /\ n.ids = FilterIdentifiers(node, call.scope)
    BY <1>4, <1>8
  <2>2. node \in Stubs
    BY <1>2, <2>1 DEF Stubs, Elements, n
  <2>3. IsSequence(node.ids) /\ Len(node.ids) = 1
    BY <2>2 DEF StubInv, StubsHide
  <2>4. IsSequence(n.ids) /\ \A i \in DOMAIN n.ids : \E j \in DOMAIN node.ids : n.ids[i] = node.ids[j]
    BY <1>2, <2>1, FilteredElements
  <2>5. n.ids[1] = node.ids[1]
    BY <1>6, <2>3, <2>4 DEF IsSequence
  <2>6. OldStub(n)
    BY <1>4, <1>6, <2>2, <2>4, <2>5 DEF OldStub
  <2> QED
    BY <1>4, <2>6 DEF n
<1> QED
  BY <1>7, <1>8

LEMMA AcceptCarries ==
  ASSUME StubInv, Accept
  PROVE  Carried'
<1>1. /\ IsFile(file) /\ Carried /\ original \in Originals /\ original' = original
      /\ call.scope \in {"partner", "public"}
      /\ NodeIdsUnique(Output) /\ file' = Output /\ file'.nodes = OutputNodes
  BY OutputIs DEF StubInv, LoopInv, Inv, L1Valid, Accept, Hashed
<1>2. SourceStays
  BY <1>1, SourcesStay
<1>3. ASSUME NEW n \in Elements(OutputNodes)
      PROVE  (\E j \in DOMAIN original.nodes : NodesWithId(original, n.id) = {j}) /\ Carries(n)
  <2>1. PICK k \in KeptNodes : n = OutputNode(file.nodes[k])
    BY <1>1, OutputNodesAre DEF Renumbers, Elements
  <2>2. IsNode(file.nodes[k]) /\ Act(file.nodes[k].id) # "omit"
    BY <1>1 DEF KeptNodes, Act, IsFile
  <2>3. /\ \E j \in DOMAIN original.nodes : NodesWithId(original, file.nodes[k].id) = {j}
        /\ Carries(file.nodes[k])
    BY <1>1, KeptCarried
  <2>4. IsNode(n) /\ n.id = file.nodes[k].id
    BY <2>1, <2>2, OutputNodeIs
  <2>5. ASSUME n.type # "boundary_ref"
        PROVE  HasIdentifiers(n) /\ HashInput(n) = HashInput(Source(n.id))
    <3>1. n.type = file.nodes[k].type /\ n.ids = FilterIdentifiers(file.nodes[k], call.scope)
      BY <2>1, <2>2, <2>5, OutputNodeIs
    <3>2. HasIdentifiers(file.nodes[k]) /\ HashInput(file.nodes[k]) = HashInput(Source(n.id))
      BY <2>3, <2>4, <2>5, <3>1 DEF Carries
    <3>3. HasIdentifiers(n) /\ HashInput(n) = HashInput(file.nodes[k])
      BY <1>1, <2>2, <2>4, <3>1, <3>2, FilteredHashInput
    <3> QED
      BY <3>2, <3>3
  <2> QED
    BY <2>3, <2>4, <2>5 DEF Carries
<1>4. \A n : Carries(n)' <=> Carries(n)
  BY <1>2 DEF SourceStays, Carries
<1>5. NodeIdsUnique(file)'
  BY <1>1 DEF NodeIdsUnique
<1>6. \A n \in Elements(file.nodes)' :
        (\E j \in DOMAIN original.nodes : NodesWithId(original, n.id) = {j})' /\ Carries(n)'
  BY <1>1, <1>2, <1>3, <1>4 DEF SourceStays, Elements
<1> QED
  BY <1>5, <1>6 DEF Carried

LEMMA AcceptHides ==
  ASSUME StubInv, Accept
  PROVE  StubsHide'
<1>1. /\ IsFile(file) /\ original' = original /\ drawn' = drawn /\ call # Idle
      /\ Hashed /\ L1Valid(Output) /\ file'.nodes = OutputNodes
  BY OutputIs DEF StubInv, LoopInv, Inv, Accept, Hashed
<1>2. SourceStays
  BY <1>1, SourcesStay
<1>3. ASSUME NEW n \in Stubs' PROVE NewStub(n) \/ OldStub(n)
  <2>1. /\ n \in Elements(OutputNodes) /\ n.type = "boundary_ref"
        /\ \A o \in OriginalNodes(n.id) : o.type # "boundary_ref"
    BY <1>1, OriginalsStay DEF Stubs, Elements
  <2>2. PICK k \in KeptNodes : n = OutputNode(file.nodes[k])
    BY <1>1, <2>1, OutputNodesAre DEF Renumbers, Elements
  <2>3. OutputNode(file.nodes[k]).id = file.nodes[k].id
    BY <1>1, <2>2, OutputNodeIs DEF KeptNodes, Act, IsFile
  <2> QED
    BY <1>1, <2>1, <2>2, <2>3, StubSource
<1>5. /\ \A n \in Stubs : /\ n.ids[1].value = <<Value(n), 0>>
                          /\ Hides(Value(n), HashInput(Source(n.id)), drawn)
      /\ \A m, n \in Stubs : m.id # n.id /\ Value(m) = Value(n) => ~IsToken(Value(m))
      /\ \A id, other \in DOMAIN hashed :
           id # other /\ hashed[id] = hashed[other] => ~IsToken(hashed[id])
      /\ \A id \in DOMAIN hashed : \A n \in Stubs :
           hashed[id] = Value(n) => ~IsToken(Value(n))
  BY <1>1 DEF StubInv, StubsHide, HashedHide
<1>6. \A n : NewStub(n) => /\ n.id \in DOMAIN hashed /\ Value(n) = hashed[n.id]
                           /\ n.ids[1].value = <<Value(n), 0>>
  BY DEF NewStub, Value
<1>7. \A n : OldStub(n) => \E m \in Stubs : /\ m.id = n.id /\ Value(m) = Value(n)
                                            /\ n.ids[1].value = <<Value(n), 0>>
  BY <1>5 DEF OldStub, Value
<1>8. ASSUME NEW n \in Stubs'
      PROVE  /\ IsSequence(n.ids) /\ Len(n.ids) = 1
             /\ n.ids[1].value = <<Value(n), 0>>
             /\ Hides(Value(n), HashInput(Source(n.id)), drawn)'
  <2>1. Hides(Value(n), HashInput(Source(n.id)), drawn)
    BY <1>3, <1>5, <1>6, <1>7 DEF NewStub
  <2> QED
    BY <1>1, <1>2, <1>3, <1>6, <1>7, <2>1 DEF NewStub, OldStub, SourceStays
<1>9. ASSUME NEW m \in Stubs', NEW n \in Stubs', m.id # n.id, Value(m) = Value(n)
      PROVE  ~IsToken(Value(m))
  <2>1. (NewStub(m) \/ OldStub(m)) /\ (NewStub(n) \/ OldStub(n))
    BY <1>3
  <2> QED
    BY <1>5, <1>6, <1>7, <1>9, <2>1
<1> QED
  BY <1>8, <1>9 DEF StubsHide

(* A step that leaves the nodes alone.                                     *)
LEMMA StubsStay ==
  ASSUME StubInv, original' = original, file'.nodes = file.nodes,
         drawn' \in Nat, drawn <= drawn'
  PROVE  Carried' /\ StubsHide'
<1>1. SourceStays /\ Stubs' = Stubs /\ Elements(file.nodes)' = Elements(file.nodes)
  BY SourcesStay, OriginalsStay DEF Stubs, Elements
<1>2. \A value, texts : Hides(value, texts, drawn) => Hides(value, texts, drawn')
  BY DEF Hides, StubInv
<1>3. \A n : Carries(n)' <=> Carries(n)
  BY <1>1 DEF SourceStays, Carries
<1>4. NodeIdsUnique(file)' <=> NodeIdsUnique(file)
  BY DEF NodeIdsUnique
<1>5. Carried'
  <2>1. CASE file.nodes = original.nodes
    BY <2>1 DEF Carried
  <2>2. CASE /\ NodeIdsUnique(file)
             /\ \A n \in Elements(file.nodes) :
                  /\ \E j \in DOMAIN original.nodes : NodesWithId(original, n.id) = {j}
                  /\ Carries(n)
    <3>1. \A n \in Elements(file.nodes)' :
            (\E j \in DOMAIN original.nodes : NodesWithId(original, n.id) = {j})' /\ Carries(n)'
      BY <1>1, <1>3, <2>2 DEF SourceStays
    <3> QED
      BY <1>4, <2>2, <3>1 DEF Carried
  <2> QED
    BY <2>1, <2>2 DEF StubInv, Carried
<1>6. StubsHide'
  <2>1. \A n \in Stubs : /\ IsSequence(n.ids) /\ Len(n.ids) = 1
                         /\ n.ids[1].value = <<Value(n), 0>>
                         /\ Hides(Value(n), HashInput(Source(n.id)), drawn)
    BY DEF StubInv, StubsHide
  <2>2. \A n \in Stubs : Hides(Value(n), HashInput(Source(n.id)), drawn)'
    BY <1>1, <1>2, <2>1 DEF SourceStays
  <2> QED
    BY <1>1, <2>1, <2>2 DEF StubInv, StubsHide
<1> QED
  BY <1>5, <1>6

(* The value of one node more, a token that was not drawn before if there  *)
(* is nothing to hash.                                                     *)
LEMMA HashNodeHides ==
  ASSUME StubInv, HashNode
  PROVE  HashedHide' /\ drawn' \in Nat /\ drawn <= drawn'
<1> DEFINE node == file.nodes[cursor]
           texts == HashInput(node)
           value == IF texts = <<>> THEN RandomToken(drawn) ELSE Sha256(texts)
<1>1. /\ UNCHANGED <<original, file, call>> /\ call # Idle /\ cursor \in DOMAIN file.nodes
      /\ Act(node.id) = "replace"
      /\ hashed' = [id \in DOMAIN hashed \cup {node.id} |->
                      IF id = node.id THEN value ELSE hashed[id]]
      /\ drawn' = drawn + (IF texts = <<>> THEN 1 ELSE 0)
  BY DEF HashNode, AtNode, Act
<1>2. drawn \in Nat /\ drawn' \in Nat /\ drawn <= drawn'
  BY <1>1 DEF StubInv
<1>3. /\ \A id : Act(id)' = Act(id)
      /\ Stubs' = Stubs
  BY <1>1, ActStays, OriginalsStay DEF Stubs, Elements
<1>4. \A v, t : Hides(v, t, drawn) => Hides(v, t, drawn')
  BY <1>2 DEF Hides
<1>5. Hides(value, texts, drawn')
  BY <1>1, <1>2 DEF Hides
<1>6. /\ \A id \in DOMAIN hashed : \E k \in DOMAIN file.nodes :
           /\ file.nodes[k].id = id /\ Act(id) = "replace"
           /\ Hides(hashed[id], HashInput(file.nodes[k]), drawn)
      /\ \A id, other \in DOMAIN hashed :
           id # other /\ hashed[id] = hashed[other] => ~IsToken(hashed[id])
      /\ \A id \in DOMAIN hashed : \A n \in Stubs :
           hashed[id] = Value(n) => ~IsToken(Value(n))
      /\ \A n \in Stubs : Hides(Value(n), HashInput(Source(n.id)), drawn)
  BY <1>1 DEF StubInv, HashedHide, StubsHide
\* What was drawn or computed before is not the new token.
<1>7. ASSUME NEW v, NEW t, Hides(v, t, drawn), v = value PROVE ~IsToken(v)
  <2>1. CASE texts = <<>>
    <3>1. v = RandomToken(drawn)
      BY <1>7, <2>1
    <3>2. t = <<>>
      BY <1>2, <1>7, <3>1, ValuesDiffer DEF IsToken
    <3>3. PICK j \in Nat : j < drawn /\ v = RandomToken(j)
      BY <1>7, <3>2 DEF Hides
    <3>4. j = drawn
      BY <3>1, <3>3, ValuesDiffer
    <3> QED
      BY <1>2, <3>3, <3>4
  <2>2. CASE texts # <<>>
    BY <1>7, <2>2, ValuesDiffer
  <2> QED
    BY <2>1, <2>2
<1> HIDE DEF value, texts
<1>8. DOMAIN hashed' = DOMAIN hashed \cup {node.id}
      /\ \A id \in DOMAIN hashed' : hashed'[id] = IF id = node.id THEN value ELSE hashed[id]
  BY <1>1
<1>9. ASSUME NEW id \in DOMAIN hashed'
      PROVE  \E k \in DOMAIN file.nodes :
               /\ file.nodes[k].id = id /\ Act(id)' = "replace"
               /\ Hides(hashed'[id], HashInput(file.nodes[k]), drawn')
  <2>1. CASE id = node.id
    BY <1>1, <1>3, <1>5, <1>8, <2>1 DEF texts
  <2>2. CASE id # node.id
    <3>1. id \in DOMAIN hashed /\ hashed'[id] = hashed[id]
      BY <1>8, <2>2
    <3>2. PICK k \in DOMAIN file.nodes :
            /\ file.nodes[k].id = id /\ Act(id) = "replace"
            /\ Hides(hashed[id], HashInput(file.nodes[k]), drawn)
      BY <1>6, <3>1
    <3>3. Hides(hashed[id], HashInput(file.nodes[k]), drawn')
      BY <1>1, <1>4, <3>2
    <3> QED
      BY <1>1, <1>3, <3>1, <3>2, <3>3
  <2> QED
    BY <2>1, <2>2
<1>10. ASSUME NEW id \in DOMAIN hashed', NEW other \in DOMAIN hashed', id # other,
              hashed'[id] = hashed'[other]
       PROVE  ~IsToken(hashed'[id])
  <2>1. CASE id # node.id /\ other # node.id
    BY <1>6, <1>8, <1>10, <2>1
  <2>2. CASE id = node.id \/ other = node.id
    <3>1. PICK old \in {id, other} : old # node.id
      BY <1>10
    <3>2. old \in DOMAIN hashed /\ hashed[old] = value /\ hashed'[id] = value
      BY <1>8, <1>10, <2>2, <3>1
    <3> QED
      BY <1>6, <1>7, <3>2
  <2> QED
    BY <2>1, <2>2
<1>11. ASSUME NEW id \in DOMAIN hashed', NEW n \in Stubs, hashed'[id] = Value(n)
       PROVE  ~IsToken(Value(n))
  <2>1. CASE id = node.id
    BY <1>6, <1>7, <1>8, <1>11, <2>1
  <2>2. CASE id # node.id
    BY <1>6, <1>8, <1>11, <2>2
  <2> QED
    BY <2>1, <2>2
<1>12. HashedHide'
  <2>1. \A id \in DOMAIN hashed' : \E k \in DOMAIN file'.nodes :
          /\ file'.nodes[k].id = id /\ Act(id)' = "replace"
          /\ Hides(hashed'[id], HashInput(file'.nodes[k]), drawn')
    BY <1>1, <1>9
  <2> QED
    BY <1>3, <1>10, <1>11, <2>1 DEF HashedHide
<1> QED
  BY <1>2, <1>12

LEMMA StubInit == Init => StubInv
<1> SUFFICES ASSUME Init PROVE StubInv
  OBVIOUS
<1>1. /\ LoopInv /\ file = original /\ original \in Originals /\ drawn = 0 /\ cursor = 1
      /\ call = Idle
  BY LoopInit DEF Init
<1>2. Stubs = {}
  BY <1>1, NoStubsYet
<1> QED
  BY <1>1, <1>2 DEF StubInv, Carried, StubsHide, HashedHide

LEMMA StubStep == StubInv /\ [Next]_vars => StubInv'
<1> SUFFICES ASSUME StubInv, [Next]_vars PROVE StubInv'
  OBVIOUS
<1>1. LoopInv' /\ LoopInv
  BY LoopStep DEF StubInv
<1>2. IsFile(file) /\ cursor \in Nat \ {0} /\ drawn \in Nat /\ original \in Originals
  BY DEF StubInv, LoopInv, Inv
<1>3. ASSUME original' = original, file'.nodes = file.nodes, drawn' \in Nat, drawn <= drawn',
             cursor' # 0, HashedHide'
      PROVE  StubInv'
  BY <1>1, <1>2, <1>3, StubsStay DEF StubInv
<1>4. CASE Call
  <2>1. UNCHANGED <<original, drawn>> /\ file'.nodes = file.nodes /\ cursor' # 0
    BY <1>2, <1>4 DEF Call, Refuse, RunCommand, Redact, RedactInternal, BeginHashing, IsFile
  <2>2. HashedHide'
    <3>1. call = Idle
      BY <1>4 DEF Call, Refuse, RunCommand, Redact, Calling
    <3>2. call' = Idle \/ hashed' = [id \in {} |-> None]
      BY <1>4, <3>1 DEF Call, Refuse, RunCommand, Redact, RedactInternal, BeginHashing
    <3>3. hashed' = [id \in {} |-> None] => DOMAIN hashed' = {}
      OBVIOUS
    <3> QED
      BY <3>2, <3>3 DEF HashedHide
  <2> QED
    BY <1>2, <1>3, <2>1, <2>2
<1>5. CASE SkipNode \/ UNCHANGED vars
  <2>1. UNCHANGED <<original, file, call, hashed, drawn>> /\ cursor' # 0
    BY <1>2, <1>5 DEF SkipNode, vars
  <2>2. HashedHide'
    <3>1. Stubs' = Stubs /\ \A id : Act(id)' = Act(id)
      BY <2>1, ActStays, OriginalsStay DEF Stubs, Elements
    <3> QED
      BY <2>1, <3>1 DEF StubInv, HashedHide
  <2> QED
    BY <1>2, <1>3, <2>1, <2>2
<1>6. CASE HashNode
  <2>1. UNCHANGED <<original, file>> /\ cursor' # 0
    BY <1>2, <1>6 DEF HashNode
  <2> QED
    BY <1>3, <1>6, <2>1, HashNodeHides
<1>7. CASE EntropyFails \/ Reject
  <2>1. UNCHANGED <<original, file, drawn, cursor>> /\ call' = Idle
    BY <1>7 DEF EntropyFails, Reject
  <2> QED
    BY <1>2, <1>3, <2>1 DEF HashedHide
<1>8. CASE Accept
  <2>1. UNCHANGED <<original, drawn, cursor>> /\ call' = Idle
    BY <1>8 DEF Accept
  <2> QED
    BY <1>1, <1>2, <1>8, <2>1, AcceptCarries, AcceptHides DEF StubInv, HashedHide
<1> QED
  BY <1>4, <1>5, <1>6, <1>7, <1>8 DEF Next

LEMMA StubsTell == StubInv => StubsTellPublicIdentity
<1> SUFFICES ASSUME StubInv PROVE StubsTellPublicIdentity
  OBVIOUS
<1>1. original \in Originals /\ Carried /\ StubsHide
  BY DEF StubInv
<1>2. ASSUME NEW n \in Stubs
      PROVE  /\ IsNode(Source(n.id)) /\ HasIdentifiers(Source(n.id))
             /\ PublicIdentity(n) = PublicForms(Source(n.id))
             /\ NodeIdsUnique(file)
  <2>1. file.nodes # original.nodes
    BY NoStubsYet
  <2>2. NodeIdsUnique(file) /\ \E j \in DOMAIN original.nodes : NodesWithId(original, n.id) = {j}
    BY <1>1, <2>1 DEF Carried, Stubs
  <2>3. IsNode(Source(n.id)) /\ OriginalNodes(n.id) = {Source(n.id)}
        /\ (Source(n.id).type # "boundary_ref" => HasIdentifiers(Source(n.id)))
    BY <1>1, <2>2, TheSource
  <2> QED
    BY <2>2, <2>3 DEF Stubs, PublicIdentity, Source
<1>3. ASSUME NEW n \in Stubs
      PROVE  LET texts == HashInput(Source(n.id))
             IN  /\ Elements(texts) = DOMAIN PublicIdentity(n)
                 /\ texts = <<>> <=> DOMAIN PublicIdentity(n) = {}
                 /\ n.ids[1].value = <<Value(n), 0>>
                 /\ Hides(Value(n), texts, drawn)
  <2> DEFINE texts == HashInput(Source(n.id))
  <2>1. PICK at : Spells(texts, Source(n.id), at)
    BY <1>2, HashInputSpells
  <2>2. /\ DOMAIN PublicForms(Source(n.id)) = Elements(texts)
        /\ (texts = <<>>) <=> (DOMAIN PublicForms(Source(n.id)) = {})
    <3>1. IsSequence(Source(n.id).ids)
      BY <1>2 DEF IsNode
    <3> HIDE DEF texts
    <3> QED
      BY <2>1, <3>1, SpelledForms
  <2> QED
    BY <1>1, <1>2, <2>2 DEF StubsHide
<1>4. ASSUME NEW m \in Stubs, NEW n \in Stubs
      PROVE  HashInput(Source(m.id)) = HashInput(Source(n.id))
               <=> PublicIdentity(m) = PublicIdentity(n)
  <2>1. PICK f : Spells(HashInput(Source(m.id)), Source(m.id), f)
    BY <1>2, HashInputSpells
  <2>2. PICK g : Spells(HashInput(Source(n.id)), Source(n.id), g)
    BY <1>2, HashInputSpells
  <2>3. IsSequence(Source(m.id).ids) /\ IsSequence(Source(n.id).ids)
    BY <1>2 DEF IsNode
  <2> QED
    BY <1>2, <2>1, <2>2, <2>3, SameForms
<1>5. ASSUME NEW m \in Stubs, NEW n \in Stubs, m # n
      PROVE  m.ids[1].value = n.ids[1].value
               <=> PublicIdentity(m) = PublicIdentity(n) /\ DOMAIN PublicIdentity(m) # {}
  <2>1. m.id # n.id
    BY <1>2, <1>5 DEF Stubs, Elements, NodeIdsUnique
  <2>2. m.ids[1].value = n.ids[1].value <=> Value(m) = Value(n)
    BY <1>3
  <2>3. Value(m) = Value(n) => ~IsToken(Value(m))
    BY <1>1, <2>1 DEF StubsHide
  <2> DEFINE s == HashInput(Source(m.id))
             t == HashInput(Source(n.id))
  <2>4. /\ Hides(Value(m), s, drawn) /\ Hides(Value(n), t, drawn)
        /\ (s = <<>> <=> DOMAIN PublicIdentity(m) = {})
        /\ (s = t <=> PublicIdentity(m) = PublicIdentity(n))
    BY <1>3, <1>4
  <2> HIDE DEF s, t
  <2>5. ASSUME Value(m) = Value(n) PROVE s = t /\ s # <<>>
    <3>1. s # <<>> /\ t # <<>>
      BY <2>3, <2>4, <2>5, ValuesDiffer
    <3> QED
      BY <2>4, <2>5, <3>1, ValuesDiffer DEF Hides
  <2>6. ASSUME s = t, s # <<>> PROVE Value(m) = Value(n)
    BY <2>4, <2>6 DEF Hides
  <2> QED
    BY <2>2, <2>4, <2>5, <2>6
<1>6. ASSUME NEW m \in Stubs, DOMAIN PublicIdentity(m) # {}
      PROVE  \E texts \in {m.ids[1].value[1][2]} :
               Elements(texts) = DOMAIN PublicIdentity(m) /\ m.ids[1].value[1] = Sha256(texts)
  <2>1. Value(m) = Sha256(HashInput(Source(m.id)))
    BY <1>3, <1>6 DEF Hides
  <2>2. m.ids[1].value[1][2] = HashInput(Source(m.id))
    BY <2>1 DEF Value, Sha256
  <2> QED
    BY <1>3, <2>1, <2>2 DEF Value
<1> QED
  BY <1>5, <1>6 DEF StubsTellPublicIdentity

(* Whatever scopes a file went through, two stubs have one value exactly   *)
(* when their nodes had the same public identifiers, of which there were   *)
(* some: no stub is tied to a node that had none, nor to the audience that *)
(* it was made for.                                                        *)
THEOREM StubsMeetByPublicIdentity == Spec => []StubsTellPublicIdentity
<1>1. Spec => []StubInv
  BY StubInit, StubStep, PTL DEF Spec
<1> QED
  BY <1>1, StubsTell, PTL
=============================================================================
