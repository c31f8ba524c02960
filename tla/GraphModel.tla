----------------------------- MODULE GraphModel -----------------------------
(***************************************************************************)
(* The graph that is built from a file (graph/mod.rs), the selectors that  *)
(* pick nodes and edges (graph/selectors, cmd/selectors.rs), and the file  *)
(* that is put together for a set of nodes (graph/extraction).             *)
(*                                                                         *)
(* A file is a record as in L1Rules.  Its nodes also have labels, pairs of *)
(* a key and a value, jurisdiction, name (None, or the set of the lower-   *)
(* case texts that the name contains), operator and data_quality; an edge  *)
(* has labels and props.                                                   *)
(***************************************************************************)
EXTENDS L1Rules, SequencesExt

CONSTANTS
  CountryCodes,     \* texts with the form of a country code
  IsoAuthorities    \* authorities that ISO 3166-1 lists

(* The graph.                                                              *)
DuplicateNodeId == "DuplicateNodeId"
DanglingEdgeRef == "DanglingEdgeRef"
ASSUME ErrorsAssumption == None \notin {DuplicateNodeId, DanglingEdgeRef}   \* no error is none

NodesOfType(file, type) ==
  {file.nodes[k].id : k \in {j \in DOMAIN file.nodes : file.nodes[j].type = type}}
EdgesOfType(file, type) == {k \in DOMAIN file.edges : file.edges[k].type = type}

\* The first error ends the construction; nodes are entered before edges.
BuildGraph(file) ==
  IF ~NodeIdsUnique(file) THEN [error |-> DuplicateNodeId, nodes |-> {}, arcs |-> {}]
  ELSE IF ~EndpointsExist(file) THEN [error |-> DanglingEdgeRef, nodes |-> {}, arcs |-> {}]
  ELSE [error |-> None,
        nodes |-> {file.nodes[k].id : k \in DOMAIN file.nodes},
        arcs  |-> {[index |-> k, type |-> file.edges[k].type,
                    source |-> file.edges[k].source, target |-> file.edges[k].target] :
                     k \in DOMAIN file.edges}]

-----------------------------------------------------------------------------
(* Selectors.  The flags of a command are a record of sets of texts; a     *)
(* label flag is <<key>> or <<key, value>>, an identifier flag <<scheme>>  *)
(* or <<scheme, value>>, split at the first '=' or ':'.                    *)

NoFlags == [node_types |-> {}, edge_types |-> {}, labels |-> {},
            identifiers |-> {}, jurisdictions |-> {}, names |-> {}]

Short(flags) == {f[1] : f \in {g \in flags : Len(g) = 1}}
Full(flags) == {g \in flags : Len(g) = 2}

SelectorSet(flags) ==
  [node_types |-> flags.node_types, edge_types |-> flags.edge_types,
   label_keys |-> Short(flags.labels), label_key_values |-> Full(flags.labels),
   identifier_schemes |-> Short(flags.identifiers),
   identifier_scheme_values |-> Full(flags.identifiers),
   jurisdictions |-> flags.jurisdictions, names |-> flags.names]

NodeGroups == {"node_types", "label_keys", "label_key_values", "identifier_schemes",
               "identifier_scheme_values", "jurisdictions", "names"}
EdgeGroups == {"edge_types", "label_keys", "label_key_values"}

HasNodeSelectors(set) == \E g \in NodeGroups : set[g] # {}
HasEdgeSelectors(set) == \E g \in EdgeGroups : set[g] # {}
NoSelector(set) == ~HasNodeSelectors(set) /\ ~HasEdgeSelectors(set)

\* No flag at all, or a jurisdiction that is no country code: InvalidArgument.
FlagsInvalid(flags) == flags = NoFlags \/ ~(flags.jurisdictions \subseteq CountryCodes)

\* Some selector of the group, if there are any, holds.
LabelsMatch(set, labels) ==
  /\ set.label_keys # {} => \E l \in labels : l[1] \in set.label_keys
  /\ set.label_key_values # {} => labels \cap set.label_key_values # {}

MatchesNode(set, node) ==
  LET schemes == {node.ids[i].scheme : i \in DOMAIN node.ids}
      pairs == {<<node.ids[i].scheme, node.ids[i].value>> : i \in DOMAIN node.ids}
  IN /\ set.node_types # {} => node.type \in set.node_types
     /\ LabelsMatch(set, node.labels)
     /\ set.identifier_schemes # {} => schemes \cap set.identifier_schemes # {}
     /\ set.identifier_scheme_values # {} => pairs \cap set.identifier_scheme_values # {}
     /\ set.jurisdictions # {} => node.jurisdiction \in set.jurisdictions
     /\ set.names # {} => node.name # None /\ node.name \cap set.names # {}

MatchesEdge(set, edge) ==
  /\ set.edge_types # {} => edge.type \in set.edge_types
  /\ LabelsMatch(set, edge.labels)

\* selector_match: positions of the nodes and of the edges.
MatchedNodes(set, file) ==
  {k \in DOMAIN file.nodes :
     NoSelector(set) \/ (HasNodeSelectors(set) /\ MatchesNode(set, file.nodes[k]))}
MatchedEdges(set, file) ==
  {k \in DOMAIN file.edges :
     NoSelector(set) \/ (HasEdgeSelectors(set) /\ MatchesEdge(set, file.edges[k]))}

\* Mutant: the index answers whenever a type is asked for.
TypeIndexAlways(set, group, groups) == set[group] # {}

\* Where types are all that is asked for, the index by type answers.
OnlyGroup(set, group, groups) ==
  set[group] # {} /\ \A g \in groups \ {group} : set[g] = {}

SeedNodes(set, file) ==
  IF ~HasNodeSelectors(set) THEN {}
  ELSE IF OnlyGroup(set, "node_types", NodeGroups)
    THEN UNION {NodesOfType(file, type) : type \in set.node_types}
  ELSE {file.nodes[k].id : k \in {j \in DOMAIN file.nodes : MatchesNode(set, file.nodes[j])}}

SeedEdges(set, file) ==
  IF ~HasEdgeSelectors(set) THEN {}
  ELSE IF OnlyGroup(set, "edge_types", EdgeGroups)
    THEN UNION {EdgesOfType(file, type) : type \in set.edge_types}
  ELSE {k \in DOMAIN file.edges : MatchesEdge(set, file.edges[k])}

\* The nodes a selector_subgraph starts from; none: EmptyResult.
Seeds(set, file) ==
  LET edges == SeedEdges(set, file)
  IN SeedNodes(set, file)
       \cup {file.edges[k].source : k \in edges} \cup {file.edges[k].target : k \in edges}

-----------------------------------------------------------------------------
\* assemble_subgraph: what the nodes induce, in the order of the file.
Assemble(file, arcs, included) ==
  LET kept == {arc.index : arc \in {a \in arcs : {a.source, a.target} \subseteq included}}
  IN [file EXCEPT
        !.nodes = Picked(@, {k \in DOMAIN @ : @[k].id \in included}),
        !.edges = Picked(@, kept),
        !.reporting = IF @ \in included THEN @ ELSE None]
=============================================================================
