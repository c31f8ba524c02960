----------------------------- MODULE MCExchange -----------------------------
(* What the exchange of files is checked on.  Names and numbers of the       *)
(* workbook are numbers; 3 is a name without letters or digits, 4 one whose  *)
(* slug is that of 2.                                                        *)
EXTENDS RoundTrips

Slugs == <<"acme", "bolt", "", "bolt", "delta", "echo">>
Large == 4   \* files of more nodes are large
Sizes(file, style) ==
  IF Len(file.nodes) <= Large THEN 1
  ELSE CASE style = "cbor" -> 1 [] style = "compact" -> 2 [] style = "pretty" -> 9

Id(scheme, value) ==
  [scheme |-> scheme, value |-> <<value, 0>>, auth |-> None, from |-> None,
   to |-> None, annulled |-> FALSE, sens |-> None, status |-> None]
Auth(id, auth) == [id EXCEPT !.auth = <<auth, 0>>]
Sens(id, sens) == [id EXCEPT !.sens = sens]

Prefixed(type) ==
  CASE type = "organization" -> "org" [] type = "facility" -> "fac"
    [] type = "person" -> "per" [] type = "good" -> "good"
    [] type = "attestation" -> "att" [] type = "boundary_ref" -> "ref"
    [] OTHER -> "ext"
NodeId(type, n) == <<Prefixed(type), "", n>>
Node(type, n, ids) ==
  [id |-> NodeId(type, n), type |-> type, ids |-> ids,
   fields |-> IF type = "boundary_ref" THEN NoProperties ELSE [name |-> n]]
Org(n) == NodeId("organization", n)
Att(n) == NodeId("attestation", n)
Edge(n, type, source, target, props) ==
  [id |-> <<"e", "", n>>, type |-> type, source |-> source, target |-> target,
   props |-> props, extra |-> NoProperties]
File(nodes, edges) ==
  [nodes |-> nodes, edges |-> edges, reporting |-> None, scope |-> None, date |-> 7,
   extra |-> NoProperties]

Scopes == {None, "internal", "partner", "public"}
Valid(files) == {f \in files : L1Valid(f)}

(* Identifiers of every kind on nodes with and without columns for them.   *)
IdLists ==
  {<<>>, <<Id("lei", 1), Id("lei", 2)>>, <<Sens(Id("lei", 1), "confidential")>>,
   <<Sens(Auth(Id("nat-reg", 1), 1), "public")>>,
   <<[Id("duns", 1) EXCEPT !.from = 3, !.to = Open], Auth(Id("vat", 2), 1)>>,
   <<Auth(Id("gln", 1), 1), Auth(Id("gln", 1), 2)>>,
   <<[Id("com.example", 1) EXCEPT !.to = Open], Sens(Id("gln", 2), "restricted")>>,
   <<Auth(Id("internal", 2), 1), Auth(Id("duns", 1), 3)>>}
IdentifierFiles ==
  Valid({[File(<<Node(t, 1, ids)>>, <<>>) EXCEPT !.scope = s] :
           t \in {"organization", "facility", "person"}, ids \in IdLists, s \in Scopes})

(* Edges of every sheet, in a fixed order, up to three of them at once: to *)
(* boundary references and extension nodes, with ids that the import makes *)
(* itself, several to one attestation.                                     *)
EdgeNodes ==
  <<Node("organization", 1, <<>>), Node("organization", 2, <<>>), Node("facility", 3, <<>>),
    Node("attestation", 4, <<>>), Node("attestation", 5, <<>>),
    Node("boundary_ref", 6, <<Id("opaque", 1)>>), Node("com.example", 1, <<>>)>>
Scope(n) == [scope |-> n]
EdgePool ==
  <<Edge(1, "attested_by", Org(1), Att(4), Scope(1)),
    Edge(2, "supplies", Org(1), Org(2), [tier |-> 2, valid_to |-> Open, percentage |-> 5]),
    Edge(3, "supplies", Org(2), NodeId("boundary_ref", 6), NoProperties),
    [Edge(4, "ownership", Org(1), Org(2), [percentage |-> 5]) EXCEPT !.id = AttestedId(2)],
    [Edge(5, "sells_to", Org(2), Org(1), NoProperties) EXCEPT !.id = EdgeSlug("same_as", 1)],
    [Edge(6, "same_as", Org(1), Org(2), NoProperties) EXCEPT !.extra = [confidence |-> "definite"]],
    Edge(7, "same_as", Org(2), Org(1), [confidence |-> "definite"]),
    Edge(8, "attested_by", NodeId("facility", 3), Att(4), NoProperties),
    Edge(9, "attested_by", Org(2), Att(5), Scope(2)),
    Edge(10, "attested_by", NodeId("boundary_ref", 6), Att(4), Scope(3)),
    Edge(11, "com.example", NodeId("com.example", 1), Org(1), NoProperties),
    Edge(12, "supplies", NodeId("com.example", 1), Org(1), [commodity |-> 1])>>
EdgeFiles ==
  Valid({File(EdgeNodes, [k \in 1 .. Cardinality(S) |-> EdgePool[SortedBy(S, LAMBDA i, j : i < j)[k]]]) :
           S \in UNION {kSubset(k, DOMAIN EdgePool) : k \in 0 .. 3}})

(* Fields with and without a column, and every header.                     *)
FieldNodes ==
  {[Node("facility", 3, <<>>) EXCEPT !.fields = f] :
     f \in {[geo |-> <<"Object", [lat |-> <<"Integer", 1>>, lon |-> <<"Float", -2>>]>>],
            [geo |-> <<"Object", [lat |-> <<"Float", 1>>, lon |-> <<"String", "east">>]>>],
            [geo |-> <<"Object", [coordinates |-> <<"Array", <<>>>>]>>], [geo |-> <<"Null">>],
            [name |-> 3, address |-> 1], [governance |-> 1]}}
  \cup {[Node("attestation", 4, <<>>) EXCEPT !.fields = f] :
          f \in {[valid_from |-> 1, valid_to |-> Open], [valid_to |-> 2, standard |-> 1]}}
  \cup {Node("good", 5, <<>>), Node("person", 5, <<>>)}
FieldFiles ==
  Valid({[File(<<Node("organization", 1, <<>>), n>>, <<>>) EXCEPT !.scope = s, !.reporting = r] :
           n \in FieldNodes, s \in {None, "public"}, r \in {None, Org(1)}})

(* Suppliers of files that no list made: cycles, several buyers, two with  *)
(* one name, one that nobody hears of.                                     *)
SupplierNodes == [n \in 1 .. 3 |-> Node("organization", n, IF n = 2 THEN <<Auth(Id("internal", 11), 1)>> ELSE <<>>)]
Mark(mark, value) == [m \in {mark} |-> value]
SupplierPool == {<<s, t>> \in (1 .. 3) \X (1 .. 3) : s # t}
SupplierFiles ==
  {[File(SupplierNodes, [k \in 1 .. Cardinality(S) |->
        LET e == SortedBy(S, LAMBDA p, q : TextLess(p, q))[k]
        IN Edge(k, "supplies", Org(e[1]), Org(e[2]), [commodity |-> k, labels |-> Mark("risk-tier", k)])])
      EXCEPT !.reporting = r] :
     S \in UNION {kSubset(k, SupplierPool) : k \in 0 .. 3}, r \in {None, Org(1)}}

(* Workbooks filled in by hand: from a good one, one thing is changed.     *)
Row(id, cells) == [id |-> id, inline |-> NoProperties, cells |-> cells]
EdgeRow(type, source, target, cells) ==
  [id |-> None, type |-> type, source |-> source, target |-> target, cells |-> cells]
IdRow(node, scheme) ==
  [node |-> node, scheme |-> scheme, value |-> <<7, 0>>, auth |-> <<1, 0>>, sens |-> None,
   from |-> None, to |-> None, status |-> None]
Acme == <<"org", "acme", 0>>
Person == NodeId("person", 5)
GoodBook ==
  [sheets |-> AllSheets,
   meta   |-> [date |-> 7, reporting |-> None, scope |-> None, confidence |-> None, source |-> None],
   nodes  |-> [t \in SheetTypes |->
                CASE t = "organization" -> <<Row(None, [name |-> 1]), Row(Org(2), [name |-> 2])>>
                  [] t = "person" -> <<Row(Person, [name |-> 5])>>
                  [] t = "attestation" -> <<Row(Att(4), [attested_entity_id |-> Acme])>>
                  [] OTHER -> <<>>],
   supply |-> <<EdgeRow("supplies", Acme, Org(2), [tier |-> 2])>>,
   corporate |-> <<>>, sameAs |-> <<>>, ids |-> <<IdRow(Person, "com.example")>>]
WithRows(type, rows) == [GoodBook EXCEPT !.nodes[type] = rows]
Books ==
  {GoodBook} \cup {[GoodBook EXCEPT !.sheets = AllSheets \ {s}] : s \in {"Metadata", "Same As", "Organizations"}}
  \cup {[GoodBook EXCEPT !.meta.date = d] : d \in {None, Unreadable}}
  \cup {[GoodBook EXCEPT !.meta.scope = s] : s \in {"public", "partner", Unreadable}}
  \cup {[GoodBook EXCEPT !.meta.confidence = c] : c \in {"verified", Unreadable}}
  \cup {[GoodBook EXCEPT !.ids = <<r>>] :
          r \in {IdRow(Person, "nat-reg"), IdRow(Acme, "gln"), IdRow(Person, None), IdRow(None, "gln")}}
  \cup {[GoodBook EXCEPT !.supply = <<r>>] :
          r \in {EdgeRow("supplied", Acme, Org(2), [tier |-> Unreadable]),
                 EdgeRow("supplied", Acme, Org(2), [valid_from |-> Unreadable]),
                 EdgeRow("sells_to", Acme, Org(3), NoProperties),
                 EdgeRow("sells_to", Acme, None, NoProperties)}}
  \cup {[GoodBook EXCEPT !.corporate = <<EdgeRow(None, Org(2), Acme, [direct |-> d])>>] : d \in {"yes", "no"}}
  \cup {[GoodBook EXCEPT !.sameAs = <<EdgeRow(None, None, Acme, NoProperties),
                                     EdgeRow(None, Acme, t, [basis |-> 1])>>] : t \in {Org(2), Org(3)}}
  \cup {WithRows("organization", <<Row(None, [name |-> 1]), Row(id, [name |-> n])>>) :
          id \in {None, Org(2)}, n \in {1, 3}}
  \cup {WithRows("organization", <<[Row(Acme, NoProperties) EXCEPT
            !.inline = [s \in {"vat"} |-> [value |-> <<1, 0>>, auth |-> a]]],
            Row(Org(2), [jurisdiction |-> Unreadable])>>) : a \in {None, <<1, 0>>}}
  \cup {WithRows("attestation", <<Row(None, NoProperties), Row(id, [attested_entity_id |-> e, scope |-> 1])>>) :
          id \in {None, Att(4)}, e \in {Acme, Org(3)}}

(* Lists filled in by hand: suppliers with and without ids, of every tier, *)
(* under parents given by name and by id, alone and together.              *)
Entry(name, sid, tier, parent) ==
  [name |-> name, sid |-> sid, tier |-> tier, parent |-> parent, ids |-> NoProperties,
   cells |-> NoProperties, terms |-> [commodity |-> name], marks |-> NoProperties]
EntryPool ==
  {Entry(1, 0, None, 0), Entry(1, 11, 1, 0), Entry(2, 0, 2, 1), Entry(2, 12, 2, 11),
   Entry(3, 0, 0, 5), Entry(4, 0, 1, 0), Entry(5, 0, 1, 0), Entry(2, 0, 9, 2),
   Entry(1, 12, Unreadable, 0), Entry(0, 0, 1, 0)}
Full ==
  [Entry(1, 11, 1, 0) EXCEPT
     !.ids = [s \in {"lei", "vat"} |-> [value |-> <<1, 0>>, auth |-> IF s = "vat" THEN <<1, 0>> ELSE None]],
     !.cells = [jurisdiction |-> 1], !.terms = [valid_from |-> Unreadable, annual_value |-> 3],
     !.marks = Mark("business-unit", 2)]
List(rows) == [entity |-> 5, date |-> None, scope |-> None, rows |-> rows]
Lists ==
  {List(<<a>>) : a \in EntryPool} \cup {List(<<a, b>>) : a \in EntryPool, b \in EntryPool}
  \cup {List(<<Entry(6, 0, 3, p), Entry(2, s, 2, 1), Full>>) : p \in {2, 12}, s \in {0, 12}}
  \cup {[List(<<Full>>) EXCEPT !.entity = e, !.date = d, !.scope = s] :
          e \in {0, 3, 5}, d \in {1, Unreadable}, s \in {"public", Unreadable}}

(* Bytes at and above the limits, and bytes that are no file.              *)
Small == File(<<Node("organization", 1, <<>>)>>, <<>>)
Big == File([n \in 1 .. 5 |-> Node("organization", n, <<>>)], <<>>)
SomeBytes ==
  {Encoded(Small, "pretty"), Encoded(Big, "cbor"), WithNewline(Encoded(Big, "compact")),
   Framed(Encoded(Big, "pretty"), 1), Framed(Encoded(Big, "cbor"), 3), Bytes(Junk, "cbor", 1),
   Framed(Framed(Encoded(Small, "cbor"), 1), 2), Framed(Bytes(Junk, "json", 1), 1),
   WithNewline(Framed(Encoded(Small, "cbor"), 1)), [Bytes(Junk, "cbor", 1) EXCEPT !.form = "other"]}

(* Undeclared fields of every kind, at the bounds of the integer types, not  *)
(* finite, nested, given twice, and such as no value can hold.               *)
Scalars ==
  {<<"null">>, <<"bool", TRUE>>, <<"text", "x">>, <<"float", 2>>, <<"float", NotFinite>>, <<"bytes">>}
    \cup {<<"number", n>> : n \in {-(MaxI64 + 1), 2, MaxI64, MaxI64 + 1, MaxU64}}
Extras ==
  {<<<<"x", t>>>> : t \in Scalars}
    \cup {<<<<"x", <<"list", <<s, t>>>>>>>> : s \in Scalars, t \in Scalars}
    \cup {<<<<"x", s>>, <<"y", <<"map", <<<<"x", t>>, <<"x", s>>>>>>>>, <<"x", t>>>> :
            s \in Scalars, t \in Scalars}
ExtraBytes ==
  {Bytes([Small EXCEPT !.extra = <<"map", entries>>], "cbor", 1) : entries \in Extras}

HandMade == {BookArtifact(b) : b \in Books}
SomeArtifacts ==
  {OmtsArtifact(b) : b \in SomeBytes \cup ExtraBytes \cup {Encoded(f, "cbor") :
     f \in IdentifierFiles \cup EdgeFiles \cup FieldFiles \cup SupplierFiles}}
  \cup HandMade \cup {ListArtifact(l) : l \in Lists}
SomeAuthorities == {ListAuthority, <<2, 0>>}
=============================================================================
