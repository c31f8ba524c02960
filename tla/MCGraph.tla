------------------------------ MODULE MCGraph ------------------------------
(* Files and commands for model checking GraphCommands.                      *)
EXTENDS GraphCommands

Iso == {<<1, 0>>}   \* authority 1, in upper case

Id(scheme, value, auth) ==
  [scheme |-> scheme, value |-> <<value, 0>>, auth |-> auth, from |-> None,
   to |-> None, annulled |-> FALSE, sens |-> None]
Node(id, type) ==
  [id |-> id, type |-> type, ids |-> <<>>, labels |-> {}, jurisdiction |-> None,
   name |-> None, operator |-> None, data_quality |-> TRUE]
Edge(id, type, source, target) ==
  [id |-> id, type |-> type, source |-> source, target |-> target, ids |-> <<>>,
   labels |-> {}, props |-> [n \in {} |-> 0]]
File(ns, es, reporting) ==
  [nodes |-> ns, edges |-> es, reporting |-> reporting, scope |-> None, date |-> 1]

Nodes ==
  <<[Node(101, "organization") EXCEPT !.ids = <<Id("lei", 1, None)>>, !.jurisdiction = "DE",
       !.name = {"steel", "e"}, !.labels = {<<"region", "eu">>, <<"risk", None>>}],
    [Node(102, "organization") EXCEPT !.ids = <<Id("internal", 1, <<1, 0>>), Id("vat", 1, <<9, 0>>)>>,
       !.labels = {<<"region", "us">>}, !.data_quality = FALSE],
    [Node(103, "facility") EXCEPT !.operator = 101, !.jurisdiction = "US", !.name = {"e"}],
    Node(104, "organization")>>

Parent(id, source, target) == Edge(id, "legal_parentage", source, target)
Share(id, source, target, percentage) ==
  [Edge(id, "ownership", source, target) EXCEPT
     !.props = [n \in {"percentage"} |-> percentage]]

\* Cycles: a triangle with parallel edges, a loop, a tail behind them.
Parents ==
  <<Parent(1, 101, 102), Parent(2, 101, 102), Parent(3, 102, 104), Parent(4, 104, 101),
    Parent(5, 104, 104), Parent(6, 102, 101), Parent(7, 101, 103)>>
Sub(edges, S) == LET order == SortedBy(S, LAMBDA a, b : a < b)
                 IN [i \in DOMAIN order |-> edges[order[i]]]
ParentFiles == {File(Nodes, Sub(Parents, S), None) : S \in SUBSET DOMAIN Parents}
Owned == File(Nodes, <<Share(1, 101, 104, 60), Share(2, 102, 104, 50), Share(3, 103, 104, 50)>>, 101)
Broken ==
  {File(Append(Nodes, Node(101, "good")), <<>>, None),
   File(Nodes, <<Parent(1, 101, 102), Parent(2, 102, 101), Parent(3, 101, 109)>>, None)}

\* Paths and neighbourhoods: parallel edges, two ways round, a facility.
Ways ==
  <<[Edge(1, "supplies", 101, 102) EXCEPT !.labels = {<<"risk", None>>},
       !.props = [n \in {"tier"} |-> 1]],
    Edge(2, "supplies", 101, 102), Edge(3, "subcontracts", 102, 104),
    Edge(4, "supplies", 101, 104), Edge(5, "operates", 102, 103), Edge(6, "supplies", 104, 101)>>
WayFiles == {File(Nodes, Sub(Ways, S), r) : S \in SUBSET DOMAIN Ways, r \in {None, 101}}
FewFiles == {f \in WayFiles : Len(f.edges) \in {0, 3, 4, 6} /\ f.reporting = 101}

Reach == {[op |-> "reach", from |-> 101, dir |-> d, depth |-> k] :
            d \in {"forward", "backward", "both"}, k \in {NoneGiven, 0, 1, 2}}
           \cup {[op |-> "reach", from |-> 109, dir |-> "both", depth |-> 1]}
Shortest == {[op |-> "shortest", from |-> f, to |-> t, dir |-> d, types |-> types] :
            f \in {101, 104}, t \in {103, 104}, d \in {"forward", "both"},
            types \in {NoneGiven, {"supplies", "operates"}}}
Paths == {[op |-> "path", from |-> 101, to |-> t, depth |-> k, max |-> m] :
            t \in {101, 103, 104}, k \in 0 .. 3, m \in {0, 1, 3}}
           \cup {[op |-> o, from |-> 101, to |-> 109, depth |-> 2, max |-> 1, dir |-> "both", types |-> NoneGiven] :
                   o \in {"path", "shortest"}}

Flags ==
  {NoFlags,
   [NoFlags EXCEPT !.node_types = {"facility"}],
   [NoFlags EXCEPT !.node_types = {"organization"}, !.labels = {<<"region", "eu">>}],
   [NoFlags EXCEPT !.edge_types = {"supplies"}, !.labels = {<<"risk">>}],
   [NoFlags EXCEPT !.edge_types = {"operates", "subcontracts"}],
   [NoFlags EXCEPT !.node_types = {"organization"}, !.identifiers = {<<"vat", <<1, 0>>>>, <<"lei", <<2, 0>>>>}],
   [NoFlags EXCEPT !.identifiers = {<<"internal">>}, !.edge_types = {"operates"}],
   [NoFlags EXCEPT !.jurisdictions = {"DE", "US"}, !.names = {"steel"}],
   [NoFlags EXCEPT !.jurisdictions = {"Germany"}]}

Extract ==
  {[op |-> o, flags |-> f, ids |-> <<>>, expand |-> k] :
     o \in {"select", "subgraph"}, f \in Flags, k \in 0 .. 2}
   \cup {[op |-> "subgraph", flags |-> f, ids |-> ids, expand |-> k] :
     f \in {NoFlags, [NoFlags EXCEPT !.edge_types = {"operates"}]},
     ids \in {<<101>>, <<103, 104>>, <<104, 109>>}, k \in 0 .. 2}
Valid(o) == o.op = "select" => o.flags.jurisdictions \subseteq CountryCodes

Check(source) == [op |-> "validate", level |-> 3, source |-> source]

Calls ==
  (WayFiles \X Paths)
    \cup (FewFiles \X (Reach \cup Shortest \cup {[op |-> "query", flags |-> f] : f \in Flags}))
    \cup (FewFiles \X {o \in Extract : Valid(o)})
    \cup (ParentFiles \X {Check(None)})
    \cup ({Owned} \X {Check({<<1, 0>>}), [Check(None) EXCEPT !.level = 2]})
    \cup (Broken \X {Check(None), [op |-> "reach", from |-> 101, dir |-> "both", depth |-> 1]})
=============================================================================
