---------------------------- MODULE SupplierList ----------------------------
(***************************************************************************)
(* The single sheet "Supplier List" of omts-excel, in both directions.     *)
(*                                                                         *)
(* A list has a header (the name of the reporting entity, date, scope) and *)
(* rows.  A row tells the name and the id of a supplier (sid), its tier,   *)
(* its parent, its identifier columns (ids, a function from schemes), the  *)
(* terms of the relationship and its marks; terms and marks are functions  *)
(* whose domain is what is given.  Names, supplier ids and business units  *)
(* are numbers, so that rows can be sorted; 0 is the blank text.           *)
(***************************************************************************)
EXTENDS Workbook

Terms == {"commodity", "valid_from", "annual_value", "value_currency", "contract_ref"}
Marks == {"risk-tier", "kraljic-quadrant", "approval-status", "business-unit"}
Blank == 0

\* An organization known by its name.
NameOf(node) == IF "name" \in DOMAIN node.fields THEN node.fields["name"] ELSE Blank

-----------------------------------------------------------------------------
(* Import.                                                                 *)

DefaultDate == 1   \* 2000-01-01

\* Tiers other than 1, 2 and 3 are brought into the range, texts are tier 1.
TierOf(cell) ==
  IF cell \in {None, Unreadable} THEN 1
  ELSE IF cell < 1 THEN 1 ELSE IF cell > 3 THEN 3 ELSE cell

DataRows(list) ==
  LET rows == SelectSeq(list.rows, LAMBDA r : r.name # Blank)
  IN [k \in DOMAIN rows |-> [rows[k] EXCEPT !.tier = TierOf(rows[k].tier)]]

Names(rows) == {rows[k].name : k \in DOMAIN rows}
Sids(rows) == {rows[k].sid : k \in DOMAIN rows} \ {Blank}

\* A supplier of tier 2 or 3 names a parent that the list knows.
ParentComplaints(rows) ==
  [k \in DOMAIN rows |->
     IF rows[k].tier = 1 THEN None
     ELSE IF rows[k].parent = Blank THEN "InvalidCell"
     ELSE IF rows[k].parent \notin Names(rows) \cup Sids(rows) THEN "UnresolvedReference"
     ELSE None]

ReportingId(list) == Slug("org", list.entity, 0)

\* A supplier whose slug is that of the reporting entity gets another id.
SupplierId(name, counter, reporting) ==
  LET slug == Slug("org", name, counter)
  IN IF slug = reporting THEN <<slug[1], slug[2] \o "-supplier", slug[3]>> ELSE slug

ListIdentifier(scheme, value, auth) ==
  [scheme |-> scheme, value |-> value, auth |-> auth, from |-> None, to |-> None,
   annulled |-> FALSE, sens |-> None, status |-> None]

\* LEI, DUNS and VAT number by scheme and value, then the supplier id by
\* value and authority; the column internal_id is not read.
RowIdentifiers(row) ==
  LET given == SelectSeq(<<"lei", "duns", "vat">>, LAMBDA s : s \in DOMAIN row.ids)
  IN [k \in DOMAIN given |->
        ListIdentifier(given[k], row.ids[given[k]].value, row.ids[given[k]].auth)]
MergedIds(ids, row, authority) ==
  LET new == SelectSeq(RowIdentifiers(row), LAMBDA i :
               \A j \in DOMAIN ids : ids[j].scheme # i.scheme \/ ids[j].value # i.value)
      own == ListIdentifier("internal", <<row.sid, 0>>, authority)
      all == ids \o new
  IN IF row.sid = Blank \/ \E j \in DOMAIN all :
          <<all[j].scheme, all[j].value, all[j].auth>> = <<own.scheme, own.value, own.auth>>
       THEN all ELSE Append(all, own)

(* The pass over the rows: byName and bySid lead to node ids, nodes holds  *)
(* the nodes made so far under their ids.  A row with a supplier id is     *)
(* looked up by that id alone, one without by its name; the name keeps the *)
(* node it led to if it led to one.                                        *)
NoSuppliers == [byName |-> NoProperties, bySid |-> NoProperties,
                nodes |-> <<>>, counter |-> 1]
Known(found, row) ==
  IF row.sid # Blank THEN Property(found.bySid, row.sid) ELSE Property(found.byName, row.name)
NewSupplier(row, id) ==
  [id |-> id, type |-> "organization", ids |-> <<>>,
   fields |-> [c \in {"name"} |-> row.name] @@ ReadCells(row.cells, {"jurisdiction"})]
WithSupplier(found, row, reporting, authority) ==
  LET known == Known(found, row)
      id    == IF known # None THEN known ELSE SupplierId(row.name, found.counter, reporting)
      at    == {n \in DOMAIN found.nodes : found.nodes[n].id = id}
      nodes == IF at # {} THEN found.nodes ELSE Append(found.nodes, NewSupplier(row, id))
  IN [byName  |-> IF known # None THEN found.byName @@ [n \in {row.name} |-> id]
                  ELSE [n \in {row.name} |-> id] @@ found.byName,
      bySid   |-> IF known # None \/ row.sid = Blank THEN found.bySid
                  ELSE [s \in {row.sid} |-> id] @@ found.bySid,
      nodes   |-> [n \in DOMAIN nodes |->
                     IF nodes[n].id # id THEN nodes[n]
                     ELSE [nodes[n] EXCEPT !.ids = MergedIds(@, row, authority)]],
      counter |-> IF known # None THEN found.counter ELSE found.counter + 1]
Suppliers(rows, reporting, authority) ==
  FoldLeft(LAMBDA found, row : WithSupplier(found, row, reporting, authority),
           NoSuppliers, rows)

\* Dates and amounts that cannot be read count as blank here.
ReadTerms(terms) ==
  Only(terms, {c \in Terms : c \in {"valid_from", "annual_value"} \cap DOMAIN terms
                                => terms[c] # Unreadable})

\* The supplier of an edge is looked up by its name, whatever its id.
EdgeSource(found, row) == found.byName[row.name]
EdgeTarget(found, row, reporting) ==
  IF row.tier = 1 THEN reporting
  ELSE IF row.parent \in DOMAIN found.bySid THEN found.bySid[row.parent]
  ELSE found.byName[row.parent]
ListEdges(rows, found, reporting) ==
  [k \in DOMAIN rows |->
     [id |-> EdgeSlug("supplies", k), type |-> "supplies",
      source |-> EdgeSource(found, rows[k]), target |-> EdgeTarget(found, rows[k], reporting),
      props |-> ReadTerms(rows[k].terms) @@ [c \in {"tier"} |-> rows[k].tier]
                  @@ (IF DOMAIN rows[k].marks = {} THEN NoProperties
                      ELSE [c \in {"labels"} |-> rows[k].marks]),
      extra |-> NoProperties]]

\* The suppliers follow the reporting entity in the order of a hash map.
ReadList(list, authority, order) ==
  LET rows      == DataRows(list)
      reporting == ReportingId(list)
      found     == Suppliers(rows, reporting, authority)
      entity    == [id |-> reporting, type |-> "organization", ids |-> <<>>,
                    fields |-> [c \in {"name"} |-> list.entity]]
  IN [nodes |-> <<entity>> \o [n \in DOMAIN found.nodes |-> found.nodes[order[n]]],
      edges |-> ListEdges(rows, found, reporting), reporting |-> reporting,
      scope |-> IF list.scope = None THEN "partner" ELSE list.scope,
      date  |-> IF list.date = None THEN DefaultDate ELSE list.date,
      extra |-> NoProperties]

Count(list, authority) ==
  Len(Suppliers(DataRows(list), ReportingId(list), authority).nodes)
Orders(n) == {p \in [1 .. n -> 1 .. n] : \A i, j \in 1 .. n : p[i] = p[j] => i = j}

ListComplaint(list, authority) ==
  LET rows  == DataRows(list)
      early == FirstOf(<<IF list.entity = Blank THEN "InvalidCell" ELSE None,
                         IF list.date = Unreadable \/ list.scope = Unreadable THEN "InvalidCell" ELSE None,
                         IF rows = <<>> THEN "InvalidCell" ELSE None>>
                       \o ParentComplaints(rows))
  IN IF early # None THEN early
     ELSE LET n == Count(list, authority)
          IN IF L1Valid(ReadList(list, authority, [i \in 1 .. n |-> i])) THEN None
             ELSE "ValidationFailed"

-----------------------------------------------------------------------------
(* Export.                                                                 *)

IsOrganization(node) == node.type = "organization"

\* Without a declared reporting entity the first organization stands in.
EntityId(file) ==
  LET orgs == SelectSeq(file.nodes, IsOrganization)
  IN IF file.reporting # None THEN file.reporting
     ELSE IF orgs = <<>> THEN None ELSE orgs[1].id

SupplyEdges(file) == SelectSeq(file.edges, LAMBDA e : e.type = "supplies")

\* Breadth first, against the direction of the edges: within k steps.
WithinSteps(edges, entity, k) ==
  LET within[j \in 0 .. k] ==
        IF j = 0 THEN {entity}
        ELSE LET near == within[j - 1]
             IN near \cup {edges[i].source : i \in {i \in DOMAIN edges : edges[i].target \in near}}
  IN within[k]
\* Mutant: the search stops one step too early.
TierOneStepShort(edges, entity, id) ==
  LET steps == {k \in 1 .. Len(edges) - 1 : id \in WithinSteps(edges, entity, k)}
  IN IF steps = {} THEN 1 ELSE CHOOSE k \in steps : \A j \in steps : k <= j
\* An organization the entity does not hear of counts as a direct supplier.
ComputedTier(edges, entity, id) ==
  LET steps == {k \in 1 .. Len(edges) : id \in WithinSteps(edges, entity, k)}
  IN IF steps = {} THEN 1 ELSE CHOOSE k \in steps : \A j \in steps : k <= j

ValueOf(ids, Wanted(_)) ==
  LET found == {i \in DOMAIN ids : Wanted(ids[i])}
  IN IF found = {} THEN Blank
     ELSE ids[CHOOSE i \in found : \A j \in found : i <= j].value[1]

ListAuthority == <<1, 0>>   \* supplier-list
SidOf(node) ==
  ValueOf(node.ids, LAMBDA i : i.scheme = "internal" /\ i.auth = ListAuthority)

\* The parent of a supplier is the buyer on its last edge.
Buyer(file, id) ==
  LET edges == SupplyEdges(file)
      own   == {k \in DOMAIN edges : edges[k].source = id}
  IN IF own = {} THEN None ELSE edges[LastOf(own)].target
ParentCell(file, id) ==
  LET buyer == Buyer(file, id)
  IN IF NodesWithId(file, buyer) = {} THEN Blank
     ELSE IF SidOf(NodeAt(file, buyer)) # Blank THEN SidOf(NodeAt(file, buyer))
     ELSE NameOf(NodeAt(file, buyer))

ListIds(node) ==
  [s \in {t \in {"lei", "duns", "vat"} : WithScheme(node.ids, t) # {}} |->
     LET first == FirstOfScheme(node.ids, s)
     IN [value |-> first.value, auth |-> IF s = "vat" THEN first.auth ELSE None]]

ListRow(file, node, terms, marks) ==
  [name |-> NameOf(node), sid |-> SidOf(node),
   tier |-> ComputedTier(SupplyEdges(file), EntityId(file), node.id),
   parent |-> ParentCell(file, node.id), ids |-> ListIds(node),
   cells |-> Only(node.fields, {"jurisdiction"}), terms |-> terms, marks |-> marks]

\* One row for each edge of the supplier, or one without terms.
SupplierRows(file, node) ==
  LET own == SelectSeq(SupplyEdges(file), LAMBDA e : e.source = node.id)
  IN IF own = <<>> THEN <<ListRow(file, node, NoProperties, NoProperties)>>
     ELSE [k \in DOMAIN own |->
             ListRow(file, node, Only(own[k].props, Terms),
                     IF "labels" \in DOMAIN own[k].props
                       THEN Only(own[k].props["labels"], Marks) ELSE NoProperties)]

UnitOf(row) == IF "business-unit" \in DOMAIN row.marks THEN row.marks["business-unit"] ELSE Blank

\* By tier, name and business unit; a stable sort.
Sorted(rows) ==
  LET Before(j, k) == TextLess(<<rows[j].tier, rows[j].name, UnitOf(rows[j]), j>>,
                               <<rows[k].tier, rows[k].name, UnitOf(rows[k]), k>>)
      order == SortedBy(DOMAIN rows, Before)
  IN [k \in DOMAIN order |-> rows[order[k]]]

ExportList(file) ==
  LET listed == SelectSeq(file.nodes, LAMBDA n : IsOrganization(n) /\ n.id # EntityId(file))
      entity == EntityId(file)
  IN [entity |-> IF NodesWithId(file, entity) = {} THEN Blank ELSE NameOf(NodeAt(file, entity)),
      date |-> file.date, scope |-> file.scope,
      rows |-> Sorted(FlattenSeq([k \in DOMAIN listed |-> SupplierRows(file, listed[k])]))]
=============================================================================
