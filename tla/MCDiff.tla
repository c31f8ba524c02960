------------------------------- MODULE MCDiff -------------------------------
(* Files for model checking Diff.                                            *)
EXTENDS DiffClaims

Id(scheme, value) ==
  [scheme |-> scheme, value |-> <<value, 0>>, auth |-> None, from |-> None,
   to |-> None, annulled |-> FALSE, sens |-> None]
Node(id, ids) ==
  [id |-> id, type |-> "organization", ids |-> ids, labels |-> {},
   props |-> NoProperties, quality |-> None]
Edge(id, type, source, target, props) ==
  [id |-> id, type |-> type, source |-> source, target |-> target, ids |-> <<>>,
   labels |-> {}, props |-> props, quality |-> None]
File(ns, es) == [nodes |-> ns, edges |-> es]
NoFilter == [nodeTypes |-> {}, edgeTypes |-> {}, ignore |-> {}]
Compare(x, y) == [a |-> x, b |-> y, filter |-> NoFilter]

(* Every pair of records of one identifier: white space, authority in two   *)
(* spellings, every period of two dates.                                    *)
Records ==
  {id \in [scheme : {"duns", "vat"}, value : {<<1, 0>>, <<1, 1>>},
           auth : {None, <<1, 0>>, <<1, 1>>}, from : {None, 1, 2},
           to : {None, Open, 1, 2}, annulled : {FALSE}, sens : {None}] :
     /\ id.auth \in IF id.scheme = "vat" THEN {<<1, 0>>, <<1, 1>>} ELSE {None, <<1, 0>>}
     /\ id.value = <<1, 1>> => id.from = None /\ id.to = None}
RecordPairs ==
  {Compare(File(<<Node(101, <<x>>)>>, <<>>), File(<<Node(102, <<y>>)>>, <<>>)) :
     x \in Records, y \in Records}

(* Chains and ambiguous groups: three nodes a side, any of three            *)
(* identifiers or an internal one, ids shared between the files or not, and *)
(* an id that occurs twice.                                                 *)
IdSets == {<<>>, <<Id("duns", 1)>>, <<Id("duns", 1), Id("lei", 2)>>,
           <<Id("lei", 2), Id("gln", 3)>>, <<Id("gln", 3), Id("internal", 4)>>}
Chains ==
  {Compare(File(<<Node(101, p), Node(102, q)>>, <<>>),
           File(<<Node(i, r), Node(j, s), Node(103, <<Id("gln", 3)>>)>>, <<>>)) :
     p \in IdSets, q \in IdSets, r \in IdSets, s \in IdSets,
     i \in {101, 102}, j \in {102}}

(* Content: everything that is compared, and node types.                    *)
Facts(node) ==
  {node, [node EXCEPT !.labels = {<<1, 1>>}], [node EXCEPT !.type = "facility"],
   [node EXCEPT !.ids = @ \o <<Id("internal", 4)>>],
   [node EXCEPT !.ids[1].sens = "restricted"],
   [node EXCEPT !.quality = [n \in {"data_quality.source"} |-> <<1, 0>>]],
   [node EXCEPT !.quality = [n \in {"data_quality.source"} |-> <<2, 0>>]]}
  \cup {[node EXCEPT !.props = [n \in {"valid_from"} |-> v]] : v \in {<<1, 0>>, <<1, 1>>, <<2, 0>>}}
Filters ==
  {[nodeTypes |-> t, edgeTypes |-> {}, ignore |-> i] :
     t \in {{}, {"organization"}}, i \in {{}, {"valid_from"}, {"data_quality"}, {"data_quality.source"}}}
Contents ==
  {[a |-> File(<<x>>, <<>>), b |-> File(<<y>>, <<>>), filter |-> f] :
     x \in Facts(Node(101, <<Id("duns", 1)>>)), y \in Facts(Node(101, <<Id("duns", 1)>>)),
     f \in Filters}

(* Edges: two a side, over nodes that both files know under two ids each.   *)
Supply(commodity) == [n \in {"commodity"} |-> <<commodity, 0>>]
WithIds(edge, ids) == [edge EXCEPT !.ids = ids]
Links2(s, t) ==
  {Edge(1, "supplies", s, t, Supply(1)), Edge(1, "supplies", s, t, Supply(2)),
   Edge(1, "com.example", s, t, Supply(2)), Edge(1, "same_as", s, t, NoProperties),
   WithIds(Edge(1, "supplies", t, s, Supply(1)), <<Id("lei", 7)>>),
   WithIds(Edge(1, "supplies", s, t, Supply(2)), <<Id("lei", 7), Id("lei", 8)>>)}
EdgePairs(S) == {<<d, e>> : d \in S, e \in S} \cup {<<d>> : d \in S}
TwiceOneKey ==
  LET restricted == [Id("lei", 7) EXCEPT !.sens = "restricted"]
  IN {<<Id("lei", 7)>>, <<restricted, Id("lei", 7)>>, <<restricted>>}
Ends == <<Node(101, <<Id("duns", 1)>>), Node(102, <<>>)>>
\* Edges that can match several edges of the other file.
EitherPartner ==
  LET Named(ids) == WithIds(Edge(1, "supplies", 101, 102, NoProperties), ids)
      named == {Named(<<Id("lei", 7)>>), Named(<<Id("lei", 8)>>), Named(<<Id("lei", 7), Id("lei", 8)>>)}
  IN {<<d, e>> : d \in named, e \in named}
Edges ==
  {[a |-> File(Ends, x), b |-> File(Ends, y),
    filter |-> [NoFilter EXCEPT !.edgeTypes = f]] :
     x \in EdgePairs(Links2(101, 102)), y \in EdgePairs(Links2(101, 102)), f \in {{}}}
  \cup {[a |-> File(Ends, <<x>>), b |-> File(<<[Ends[1] EXCEPT !.id = 105], Ends[2]>>, <<y>>),
         filter |-> [nodeTypes |-> n, edgeTypes |-> f, ignore |-> {}]] :
         x \in Links2(101, 102), y \in Links2(105, 102), f \in {{}, {"supplies"}},
         n \in {{}, {"organization"}, {"facility"}}}
  \cup {Compare(File(Ends, <<WithIds(Edge(1, "supplies", 101, 102, NoProperties), x)>>),
               File(Ends, <<WithIds(Edge(1, "supplies", 101, 102, NoProperties), y)>>)) :
          x \in TwiceOneKey, y \in TwiceOneKey}
  \cup {Compare(File(Ends, x), File(Ends, y)) : x \in EitherPartner, y \in EitherPartner}

(* One id, two nodes: each file gives the id of the other's node to its own.*)
Swapped ==
  {Compare(File(<<Node(101, <<Id("duns", 1)>>), Node(102, <<Id("duns", 2)>>)>>,
                <<Edge(1, "supplies", 101, 102, Supply(1))>>),
           File(<<Node(101, <<Id("duns", 2)>>), Node(102, <<Id("duns", 1)>>)>>,
                <<Edge(1, "supplies", s, t, Supply(1))>>)) : s, t \in {101, 102}}

(* One identifier in two spellings, on one node or on two.                  *)
Period(id, from, to) == [id EXCEPT !.from = from, !.to = to]
Padded(id) == [id EXCEPT !.value = <<id.value[1], 1>>]
Spellings ==
  LET x == Period(Id("duns", 1), 1, 1)
      z == Period(Id("duns", 1), 2, 2)
  IN {Compare(File(<<Node(101, p)>>, <<>>), File(<<Node(102, q)>>, <<>>)) :
        p, q \in {<<x>>, <<z, Padded(x)>>, <<z, x>>, <<Padded(x)>>}}

(* Files compared with themselves: two nodes with one identifier that say   *)
(* the same or not, edges that lead nowhere.                                *)
Itselves ==
  LET twins == {File(<<x, [y EXCEPT !.id = 102]>>, <<>>) :
                  x, y \in Facts(Node(101, <<Id("duns", 1)>>))}
      loose == {File(Ends, <<x>>) : x \in Links2(101, 109)}
  IN {[a |-> x, b |-> x, filter |-> f] : x \in twins, f \in Filters}
     \cup {[a |-> x, b |-> x, filter |-> [NoFilter EXCEPT !.edgeTypes = f]] :
            x \in loose, f \in {{}, {"com.example"}}}

(* One record that has ended, one that has begun since and does not end.    *)
OpenEnds ==
  {Compare(File(<<Node(101, <<Period(Id("duns", 1), 1, 1)>>)>>, <<>>),
           File(<<Node(102, <<Period(Id("duns", 1), 2, to)>>)>>, <<>>)) : to \in {None, Open, 2}}

DiffInputs == Itselves \cup Spellings \cup RecordPairs \cup Chains \cup Contents \cup Edges \cup Swapped
=============================================================================
