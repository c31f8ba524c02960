---------------------------- MODULE AdviceRules ----------------------------
(***************************************************************************)
(* The L2 rules (warnings) and L3 rules (information) of omts-core:        *)
(* validation/rules_l2 and validation/rules_l3.rs.  A rule yields a set of *)
(* pairs of the rule's name and what is reported on: the id of a node, a   *)
(* pair <<"edge", id>>, or <<node, index of the identifier>>.  The third   *)
(* L3 rule, on cycles, is the module Cycles.                               *)
(***************************************************************************)
EXTENDS GraphModel

NodesOf(file, types) ==
  {file.nodes[k] : k \in {j \in DOMAIN file.nodes : file.nodes[j].type \in types}}
EdgesOf(file, types) ==
  {file.edges[k] : k \in {j \in DOMAIN file.edges : file.edges[j].type \in types}}

Report(rule, places) == {<<rule, place>> : place \in places}
OnNodes(nodes) == {<<"node", n.id>> : n \in nodes}
OnEdges(edges) == {<<"edge", e.id>> : e \in edges}

\* The facility and the organization that an edge connects.
FacilitySide(e) == IF e.type = "tolls" THEN e.source ELSE e.target
OrgSide(e) == IF e.type = "tolls" THEN e.target ELSE e.source

\* Mutant: an operator that the file does not have counts.
FacilitiesNamingOrg(file) ==
  LET orgs == {n.id : n \in NodesOf(file, {"organization"})}
      facilities == NodesOf(file, {"facility"})
  IN {f.id : f \in {g \in facilities : g.operator # None}}
       \cup {FacilitySide(e) : e \in
               {d \in EdgesOf(file, {"operates", "operational_control", "tolls"}) :
                  OrgSide(d) \in orgs /\ \E g \in facilities : g.id = FacilitySide(d)}}

FacilitiesWithOrg(file) ==
  LET orgs == {n.id : n \in NodesOf(file, {"organization"})}
      facilities == NodesOf(file, {"facility"})
  IN {f.id : f \in {g \in facilities : g.operator \in orgs}}
       \cup {FacilitySide(e) : e \in
               {d \in EdgesOf(file, {"operates", "operational_control", "tolls"}) :
                  OrgSide(d) \in orgs /\ \E g \in facilities : g.id = FacilitySide(d)}}

L2Gdm01(file) ==
  Report("L2-GDM-01", OnNodes({f \in NodesOf(file, {"facility"}) :
                                 f.id \notin FacilitiesWithOrg(file)}))

L2Gdm02(file) ==
  Report("L2-GDM-02", OnEdges({e \in EdgesOf(file, {"ownership"}) :
                                 "valid_from" \notin DOMAIN e.props}))

L2Gdm03(file) ==
  Report("L2-GDM-03",
    OnNodes({n \in NodesOf(file, {"organization", "facility"}) : ~n.data_quality})
      \cup OnEdges({e \in EdgesOf(file, {"supplies", "subcontracts", "tolls"}) :
                      "data_quality" \notin DOMAIN e.props}))

L2Gdm04(file) ==
  Report("L2-GDM-04", OnEdges({e \in EdgesOf(file, {"supplies"}) :
                                 file.reporting = None /\ "tier" \in DOMAIN e.props}))

L2Eid01(file) ==
  Report("L2-EID-01", OnNodes({n \in NodesOf(file, {"organization"}) :
                                 \A i \in DOMAIN n.ids : n.ids[i].scheme = "internal"}))

\* A missing authority is the business of L1-EID-03.
L2Eid04(file) ==
  Report("L2-EID-04",
    UNION {{<<"id", file.nodes[k].id, i>> :
              i \in {j \in DOMAIN file.nodes[k].ids :
                       LET id == file.nodes[k].ids[j]
                       IN id.scheme = "vat" /\ id.auth # None /\ id.auth \notin IsoAuthorities}} :
             k \in DOMAIN file.nodes})

Warnings(file) ==
  L2Gdm01(file) \cup L2Gdm02(file) \cup L2Gdm03(file)
    \cup L2Gdm04(file) \cup L2Eid01(file) \cup L2Eid04(file)

-----------------------------------------------------------------------------
(* The L3 rules with an external source: the set of the LEIs it knows to   *)
(* be lapsed, or None.                                                     *)
L3Eid01(file, source) ==
  Report("L3-EID-01",
    UNION {{<<"id", file.nodes[k].id, i>> :
              i \in {j \in DOMAIN file.nodes[k].ids :
                       file.nodes[k].ids[j].scheme = "lei" /\ file.nodes[k].ids[j].value \in source}} :
             k \in DOMAIN file.nodes})

SumOf(S, f(_)) ==
  LET sum[T \in SUBSET S] ==
        IF T = {} THEN 0 ELSE LET t == CHOOSE t \in T : TRUE IN f(t) + sum[T \ {t}]
  IN sum[S]

\* Percentages are summed whatever the periods of the edges.
L3Mrg01(file, source) ==
  LET orgs == {n.id : n \in NodesOf(file, {"organization"})}
      Owners(n) == {k \in EdgesOfType(file, "ownership") :
                      /\ file.edges[k].target = n /\ file.edges[k].source \in orgs
                      /\ "percentage" \in DOMAIN file.edges[k].props}
  IN Report("L3-MRG-01", {<<"node", n>> : n \in
       {o \in orgs : SumOf(Owners(o), LAMBDA k : file.edges[k].props["percentage"]) > 100}})

Information(file, source) ==
  IF source = None THEN {} ELSE L3Eid01(file, source) \cup L3Mrg01(file, source)
=============================================================================
