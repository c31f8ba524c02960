----------------------------- MODULE RoundTrips -----------------------------
(* What survives when files travel through workbooks and supplier lists.     *)
EXTENDS Exchange

Back(j) == trail[Len(trail) - j].content
EndsWith(kinds) ==
  /\ Len(kinds) <= Len(trail)
  /\ \A j \in DOMAIN kinds : trail[Len(trail) - Len(kinds) + j].kind = kinds[j]

IdsOf(nodes) == {nodes[k].id : k \in DOMAIN nodes}
EdgesOf(file, types) == {file.edges[k] : k \in {j \in DOMAIN file.edges : file.edges[j].type \in types}}
OnSheets(file) == SelectSeq(file.nodes, LAMBDA n : n.type \in SheetTypes)

-----------------------------------------------------------------------------
(* One trip through a workbook, from file f to file g.                     *)

\* An identifier is lost behind an earlier one in the same column, or with
\* the same scheme and value under another authority.
Lost(node, i) ==
  \E j \in 1 .. i - 1 :
    /\ node.ids[j].scheme = node.ids[i].scheme
    /\ Inlined(node, node.ids[i]) \/ node.ids[j].value = node.ids[i].value

Shown(node, id) ==
  <<id.scheme, id.value,
    IF Inlined(node, id) /\ id.scheme \in {"lei", "duns"} THEN None ELSE id.auth>>

\* The columns of an organization hold no sensitivity and no period.  A blank
\* cell on the Identifiers sheet is the default of the scheme, for a person
\* too, and confidential for a person when the scheme has none.
SensitivityAfter(node, id) ==
  IF ~Inlined(node, id) /\ id.sens # None THEN id.sens
  ELSE IF node.type = "person" /\ SchemeDefault(id.scheme) = None THEN "confidential"
  ELSE SchemeSensitivity(id.scheme)

IdentifiersReturn(n, m) ==
  LET kept == {i \in DOMAIN n.ids : ~Lost(n, i)}
  IN /\ {Shown(m, m.ids[j]) : j \in DOMAIN m.ids} = {Shown(n, n.ids[i]) : i \in kept}
     /\ \A i \in kept, j \in DOMAIN m.ids :
          Shown(m, m.ids[j]) = Shown(n, n.ids[i]) =>
            /\ EffectiveSensitivity(m.ids[j], m.type) = SensitivityAfter(n, n.ids[i])
            /\ ~Inlined(n, n.ids[i]) =>
                 /\ m.ids[j].from = n.ids[i].from
                 /\ m.ids[j].to = IF n.ids[i].to = Open THEN None ELSE n.ids[i].to

ColumnsReturn(before, after, columns) ==
  \A c \in columns :
    Property(after, c) = IF Property(before, c) = Open THEN None ELSE Property(before, c)

NodeColumns == [
  organization |-> OrganizationColumns, facility |-> FacilityColumns,
  good |-> GoodColumns, person |-> PersonColumns,
  attestation |-> AttestationColumns, consignment |-> ConsignmentColumns]
\* A point given by whole numbers comes back with floats.
IsPoint(node) ==
  /\ "geo" \in DOMAIN node.fields
  /\ \A key \in {"lat", "lon"} : /\ HasMember(node.fields["geo"], key)
                                 /\ IsNumeric(Member(node.fields["geo"], key))
NodesReturn(f, g) ==
  /\ IdsOf(OnSheets(f)) = IdsOf(g.nodes)
  /\ \A k \in DOMAIN g.nodes :
       LET m == g.nodes[k]
           n == NodeAt(f, m.id)
       IN /\ m.type = n.type
          /\ IdentifiersReturn(n, m)
          /\ ColumnsReturn(n.fields, m.fields, NodeColumns[m.type])
          /\ "geo" \in DOMAIN m.fields <=> n.type = "facility" /\ IsPoint(n)
          /\ "geo" \in DOMAIN m.fields =>
               m.fields["geo"] = <<"Object", [lat |-> <<"Float", n.fields["geo"][2].lat[2]>>,
                                              lon |-> <<"Float", n.fields["geo"][2].lon[2]>>]>>

WrittenEdge(e, columns) ==
  [e EXCEPT !.extra = NoProperties,
            !.props = Only(@, {c \in columns : Property(@, c) \notin {None, Open}})]

\* same_as edges get new ids; of the edges to one attestation the last stays.
EdgesReturn(f, g) ==
  /\ EdgesOf(g, SupplyTypes) =
       {WrittenEdge(e, SupplyColumns) : e \in EdgesOf(f, SupplyTypes)}
  /\ EdgesOf(g, CorporateTypes) =
       {WrittenEdge(e, CorporateColumns) : e \in EdgesOf(f, CorporateTypes)}
  /\ {<<e.source, e.target>> : e \in EdgesOf(g, {"same_as"})} =
       {<<e.source, e.target>> : e \in EdgesOf(f, {"same_as"})}
  /\ \A k \in DOMAIN f.nodes :
       f.nodes[k].type = "attestation" =>
         LET id    == f.nodes[k].id
             after == {e \in EdgesOf(g, {"attested_by"}) : e.target = id}
         IN IF Attesting(f, id) = {} THEN after = {}
            ELSE {e.source : e \in after} = {f.edges[LastOf(Attesting(f, id))].source}
  /\ \A k \in DOMAIN g.edges :
       g.edges[k].type \in SupplyTypes \cup CorporateTypes \cup {"same_as", "attested_by"}

HeaderReturns(f, g) ==
  <<g.reporting, g.scope, g.date>> = <<f.reporting, f.scope, f.date>>

\* Why the workbook of a valid file is refused: an edge leads to a node that
\* has no sheet; the public may not see a person, or an identifier whose
\* sensitivity its column does not hold; or an id made for an edge is taken.
WrittenEdges(f) ==
  EdgesOf(f, SupplyTypes \cup CorporateTypes \cup {"same_as"})
    \cup {f.edges[LastOf(Attesting(f, id))] : id \in {f.nodes[k].id : k \in
            {j \in DOMAIN f.nodes : /\ f.nodes[j].type = "attestation"
                                    /\ Attesting(f, f.nodes[j].id) # {}}}}
MadeIds(f) ==
  LET atts   == SelectSeq(f.nodes, LAMBDA n : n.type = "attestation")
      listed == SelectSeq(f.edges, LAMBDA e :
                  e.type \in SupplyTypes \cup CorporateTypes \cup {"same_as"})
  IN {AttestedId(Len(listed) + k) : k \in {j \in DOMAIN atts : Attesting(f, atts[j].id) # {}}}
       \cup {EdgeSlug("same_as", k) :
               k \in 1 .. Len(SelectSeq(listed, LAMBDA e : e.type = "same_as"))}
Refusable(f) ==
  \/ \E e \in WrittenEdges(f) : ~({e.source, e.target} \subseteq IdsOf(OnSheets(f)))
  \/ /\ f.scope = "public"
     /\ \E k \in DOMAIN f.nodes :
          \/ f.nodes[k].type = "person"
          \/ \E i \in DOMAIN f.nodes[k].ids :
               /\ Inlined(f.nodes[k], f.nodes[k].ids[i])
               /\ SchemeDefault(f.nodes[k].ids[i].scheme) = "restricted"
  \/ \E e \in EdgesOf(f, SupplyTypes \cup CorporateTypes) : e.id \in MadeIds(f)

(* The workbook of a valid file is refused for a reason of that list, or   *)
(* brings back the nodes and edges of the six node sheets with everything  *)
(* that has a column: no identifier, no edge and no header field appears,  *)
(* moves to another node or is lost otherwise (export and import of        *)
(* omts-excel).                                                            *)
RoundTripCarries ==
  /\ EndsWith(<<"omts", "book">>) /\ error # None => Refusable(Back(1))
  /\ EndsWith(<<"omts", "book", "omts">>) =>
       LET f == Back(2)
           g == Back(0)
       IN /\ ~Refusable(f)
          /\ NodesReturn(f, g) /\ EdgesReturn(f, g) /\ HeaderReturns(f, g)

(* What came back from a workbook once comes back ever after: the second   *)
(* trip is never refused, and changes nothing.                             *)
TripsSettle ==
  /\ EndsWith(<<"omts", "book", "omts", "book">>) => error = None
  /\ EndsWith(<<"omts", "book", "omts", "book", "omts">>) => Back(0) = Back(2)

-----------------------------------------------------------------------------
(* A supplier list, the file made of it, and the list written of that.     *)

Refers(text, row) == text # Blank /\ text \in {row.name, row.sid}

\* Every supplier has one row, of the tier after that of its parent, and its
\* name and id are told apart from those of the others, also as slugs.
Tidy(list) ==
  LET rows == DataRows(list)
      slugs == [k \in DOMAIN rows |-> SupplierId(rows[k].name, k, ReportingId(list))]
  IN /\ \A j, k \in DOMAIN rows :
          j # k => /\ slugs[j] # slugs[k]
                   /\ {rows[j].name, rows[j].sid} \cap {rows[k].name, rows[k].sid}
                        \subseteq {Blank}
     /\ \A k \in DOMAIN rows :
          rows[k].tier > 1 =>
            \E j \in DOMAIN rows : /\ rows[j].tier = rows[k].tier - 1
                                   /\ Refers(rows[k].parent, rows[j])

\* The ids of the suppliers are read back only under the default authority.
IdsHeld(file) ==
  \A k \in DOMAIN file.nodes : \A i \in DOMAIN file.nodes[k].ids :
    file.nodes[k].ids[i].scheme = "internal" => file.nodes[k].ids[i].auth = ListAuthority

RowReturns(list, row, file, after) ==
  /\ after.tier = row.tier
  /\ after.sid = IF IdsHeld(file) THEN row.sid ELSE Blank
  /\ after.ids = row.ids
  /\ after.cells = ReadCells(row.cells, {"jurisdiction"})
  /\ after.terms = ReadTerms(row.terms)
  /\ after.marks = row.marks
  /\ IF row.tier = 1 THEN after.parent = list.entity
     ELSE LET rows == DataRows(list)
          IN \E k \in DOMAIN rows : Refers(row.parent, rows[k]) /\ Refers(after.parent, rows[k])

(* A tidy list survives the trip through a file: the same suppliers, each  *)
(* under the same parent at the same tier, with its ids, its terms and its *)
(* marks, whatever the order in which the hash map gives the suppliers.    *)
ListKeepsTrees ==
  EndsWith(<<"list", "omts", "list">>) /\ Tidy(Back(2)) =>
    LET before == DataRows(Back(2))
        after  == Back(0).rows
    IN /\ Len(after) = Len(before)
       /\ \A k \in DOMAIN before : \E j \in DOMAIN after :
            /\ after[j].name = before[k].name
            /\ RowReturns(Back(2), before[k], Back(1), after[j])
       /\ \A j, k \in DOMAIN after : j < k => after[j].tier <= after[k].tier
       /\ Back(0).entity = Back(2).entity

-----------------------------------------------------------------------------
RECURSIVE Finite(_)
Finite(value) ==
  CASE value[1] = "Float" -> IF value[2] = NotFinite THEN <<"Null">> ELSE value
    [] value[1] \in {"Array", "Object"} ->
         <<value[1], [k \in DOMAIN value[2] |-> Finite(value[2][k])]>>
    [] OTHER -> value
InJson(file) == [file EXCEPT !.extra = [key \in DOMAIN @ |-> Finite(@[key])]]
Plain(bytes) == IF bytes.form = "zstd" THEN bytes.body ELSE bytes

(* Every file a command wrote is read again, from disk and from a pipe     *)
(* alike, and holds what was written, undeclared fields, nulls and types   *)
(* of numbers included, unless it exceeds the size limit or, of a          *)
(* compressed one, what it holds exceeds four times the limit.  Only JSON  *)
(* makes a null of a float that is not finite, and then for good.          *)
ReadsBack ==
  stored.kind = "omts" =>
    LET complaint == ReadComplaint(stored.bytes, "path")
        size      == stored.bytes.size
    IN /\ complaint = ReadComplaint(stored.bytes, "stdin")
       /\ trail # <<>> =>
            /\ Parsed(stored.bytes) \in {Back(0), InJson(Back(0))}
            /\ Plain(stored.bytes).form = "json" => Parsed(stored.bytes) = InJson(Back(0))
            /\ complaint \in {None, "FileTooLarge", "DecompressedTooLarge"}
            /\ complaint = "FileTooLarge" <=> size > MaxFileSize
            /\ complaint = "DecompressedTooLarge" =>
                 stored.bytes.body.size > 4 * MaxFileSize

-----------------------------------------------------------------------------
(* The claim of the importer that all identifiers on person nodes default  *)
(* to confidential regardless of the defaults of their schemes             *)
(* (identifiers.rs:143), which the code asks only after those.             *)
PersonIdsConfidential ==
  EndsWith(<<"book", "omts">>) =>
    \A k \in DOMAIN Back(0).nodes :
      LET node == Back(0).nodes[k]
          rows == SelectSeq(Back(1).ids, LAMBDA r : r.node = node.id)
      IN node.type = "person" =>
           \A i \in DOMAIN node.ids, r \in DOMAIN rows :
             /\ rows[r].sens = None
             /\ <<rows[r].scheme, rows[r].value>> = <<node.ids[i].scheme, node.ids[i].value>>
             => node.ids[i].sens = "confidential"
=============================================================================
