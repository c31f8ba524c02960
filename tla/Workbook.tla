------------------------------ MODULE Workbook ------------------------------
(***************************************************************************)
(* The Excel workbook of omts-excel: what export writes on its sheets and  *)
(* what import makes of the sheets, cell by cell.                          *)
(*                                                                         *)
(* A file is as in L1Rules; the fields of a node and the properties of an  *)
(* edge are functions whose domain is what is present.  A graph-local id   *)
(* is <<prefix, text, number>>, the empty text and 0 standing for a part   *)
(* the id does not have, so that <<"org", "", 1>> is org-1.  A workbook    *)
(* has for each sheet the sequence of its data rows; the cells of a row    *)
(* are a function on its non-blank columns.  Columns that only one         *)
(* direction knows are left out: labels, _conflicts, governance_structure, *)
(* risk_severity and risk_likelihood are written and never read.           *)
(***************************************************************************)
EXTENDS L1Rules, DynamicValues

CONSTANTS
  SlugText,     \* the slug of a text; "" when it has no letter and no digit
  Unreadable    \* a cell that is no date, code or number

NodeSheets == <<"organization", "facility", "good", "person", "attestation",
                "consignment">>
SheetTypes == {NodeSheets[i] : i \in DOMAIN NodeSheets}
Prefix == [organization |-> "org", facility |-> "fac", good |-> "good",
           person |-> "person", attestation |-> "att", consignment |-> "con"]

Coordinates == {"latitude", "longitude"}
MemberOf == [latitude |-> "lat", longitude |-> "lon"]

\* The columns that become fields of the same name, sheet by sheet.  The
\* older headers operator and nationality stand for operator_id and
\* jurisdiction; the column status of an attestation is attestation_status.
OrganizationColumns == {"name", "jurisdiction", "status"}
FacilityColumns == {"name", "operator", "address"}
GoodColumns == {"name", "commodity_code", "unit"}
PersonColumns == {"name", "jurisdiction", "role"}
AttestationColumns == {"name", "attestation_type", "standard", "issuer", "valid_from",
                       "valid_to", "outcome", "attestation_status", "reference"}
ConsignmentColumns == {"name", "lot_id", "unit", "quantity", "production_date",
                       "origin_country", "direct_emissions_co2e",
                       "indirect_emissions_co2e", "installation_id"}

SupplyTypes == {"supplies", "subcontracts", "tolls", "distributes", "brokers",
                "operates", "produces", "composed_of", "sells_to"}
SupplyColumns == {"valid_from", "valid_to", "commodity", "tier", "volume",
                  "volume_unit", "annual_value", "value_currency", "contract_ref",
                  "share_of_buyer_demand"}
CorporateTypes == {"ownership", "legal_parentage", "operational_control",
                   "beneficial_ownership", "former_identity"}
CorporateColumns == {"valid_from", "valid_to", "percentage", "direct",
                     "consolidation_basis", "control_type", "event_type",
                     "effective_date", "description"}
SameAsColumns == {"confidence", "basis"}

\* Columns whose unreadable cells count as blank, and those that refuse them.
CodeColumns == {"jurisdiction", "status", "attestation_type", "valid_from",
                "valid_to", "outcome", "attestation_status", "production_date",
                "origin_country", "consolidation_basis", "event_type",
                "effective_date"}
NumberColumns == {"quantity", "direct_emissions_co2e", "indirect_emissions_co2e",
                  "tier", "volume", "annual_value", "share_of_buyer_demand",
                  "percentage"} \cup Coordinates

\* The schemes with columns of their own on the Organizations sheet.
InlineSchemes == <<"lei", "duns", "nat-reg", "vat", "internal">>
Inlined(node, id) ==
  node.type = "organization" /\ \E i \in DOMAIN InlineSchemes : id.scheme = InlineSchemes[i]

Only(f, S) == [x \in DOMAIN f \cap S |-> f[x]]

-----------------------------------------------------------------------------
(* Export.                                                                 *)

\* An open end is an explicit null, which is written as a blank cell.
Cells(fields, columns) ==
  Only(fields, {c \in columns : c \in DOMAIN fields => fields[c] # Open})

\* A coordinate that is missing or no number leaves its cell blank, as a shape
\* with other members and a value that is no object do.
PointCells(node) ==
  IF "geo" \notin DOMAIN node.fields THEN NoProperties
  ELSE LET geo == node.fields["geo"]
       IN [c \in {c \in Coordinates : /\ HasMember(geo, MemberOf[c])
                                      /\ IsNumeric(Member(geo, MemberOf[c]))} |->
             AsF64(Member(geo, MemberOf[c]))[2]]

WithScheme(ids, scheme) == {i \in DOMAIN ids : ids[i].scheme = scheme}

\* Mutant: a later identifier of the scheme overwrites the cell.
LastOfScheme(ids, scheme) ==
  ids[CHOOSE i \in WithScheme(ids, scheme) : \A j \in WithScheme(ids, scheme) : j <= i]
\* The first identifier of each scheme; LEI and DUNS columns hold no authority.
FirstOfScheme(ids, scheme) ==
  ids[CHOOSE i \in WithScheme(ids, scheme) : \A j \in WithScheme(ids, scheme) : i <= j]
InlineCells(node) ==
  LET schemes == {InlineSchemes[i] : i \in {j \in DOMAIN InlineSchemes :
                    WithScheme(node.ids, InlineSchemes[j]) # {}}}
  IN [s \in schemes |->
        LET first == FirstOfScheme(node.ids, s)
        IN [value |-> first.value,
            auth  |-> IF s \in {"lei", "duns"} THEN None ELSE first.auth]]

\* Each attested_by edge is written to the row of its attestation, over what
\* an earlier edge left there; the library skips the writing of an empty text.
Attesting(file, id) ==
  {k \in DOMAIN file.edges : file.edges[k].type = "attested_by" /\ file.edges[k].target = id}
Scoped(file, id) == {k \in Attesting(file, id) : "scope" \in DOMAIN file.edges[k].props}
LastOf(positions) == CHOOSE k \in positions : \A j \in positions : j <= k
AttestedCells(file, id) ==
  (IF Attesting(file, id) = {} THEN NoProperties
   ELSE [c \in {"attested_entity_id"} |-> file.edges[LastOf(Attesting(file, id))].source])
  @@ (IF Scoped(file, id) = {} THEN NoProperties
      ELSE Only(file.edges[LastOf(Scoped(file, id))].props, {"scope"}))

PlainRow(node, cells) == [id |-> node.id, inline |-> NoProperties, cells |-> cells]
OrganizationRow(node) ==
  [PlainRow(node, Cells(node.fields, OrganizationColumns)) EXCEPT !.inline = InlineCells(node)]
FacilityRow(node) == PlainRow(node, Cells(node.fields, FacilityColumns) @@ PointCells(node))
GoodRow(node) == PlainRow(node, Cells(node.fields, GoodColumns))
PersonRow(node) == PlainRow(node, Cells(node.fields, PersonColumns))
AttestationRow(file, node) ==
  PlainRow(node, Cells(node.fields, AttestationColumns) @@ AttestedCells(file, node.id))
ConsignmentRow(node) == PlainRow(node, Cells(node.fields, ConsignmentColumns))

NodeRow(file, node) ==
  CASE node.type = "organization" -> OrganizationRow(node)
    [] node.type = "facility"     -> FacilityRow(node)
    [] node.type = "good"         -> GoodRow(node)
    [] node.type = "person"       -> PersonRow(node)
    [] node.type = "attestation"  -> AttestationRow(file, node)
    [] node.type = "consignment"  -> ConsignmentRow(node)
NodeRows(file, type) ==
  LET nodes == SelectSeq(file.nodes, LAMBDA n : n.type = type)
  IN [k \in DOMAIN nodes |-> NodeRow(file, nodes[k])]

\* Mutant: the rows are written from the last edge to the first.
EdgeRowsUpward(file, types, columns) ==
  LET edges == Reverse(SelectSeq(file.edges, LAMBDA e : e.type \in types))
  IN [k \in DOMAIN edges |->
        [id |-> edges[k].id, type |-> edges[k].type, source |-> edges[k].source,
         target |-> edges[k].target, cells |-> Cells(edges[k].props, columns)]]
EdgeRows(file, types, columns) ==
  LET edges == SelectSeq(file.edges, LAMBDA e : e.type \in types)
  IN [k \in DOMAIN edges |->
        [id |-> edges[k].id, type |-> edges[k].type, source |-> edges[k].source,
         target |-> edges[k].target, cells |-> Cells(edges[k].props, columns)]]

\* Confidence and basis are looked up beside the properties of the edge.
SameAsRows(file) ==
  LET edges == SelectSeq(file.edges, LAMBDA e : e.type = "same_as")
  IN [k \in DOMAIN edges |->
        [source |-> edges[k].source, target |-> edges[k].target,
         cells |-> Only(edges[k].extra, SameAsColumns)]]

SupplyRows(file) == EdgeRows(file, SupplyTypes, SupplyColumns)
CorporateRows(file) == EdgeRows(file, CorporateTypes, CorporateColumns)

\* Boundary references are omitted, other nodes without a sheet are not.
IdentifierRows(file) ==
  FlattenSeq([n \in DOMAIN file.nodes |->
    LET node == file.nodes[n]
        ids  == IF node.type = "boundary_ref" THEN <<>>
                ELSE SelectSeq(node.ids, LAMBDA i : ~Inlined(node, i))
    IN [k \in DOMAIN ids |->
          [node |-> node.id, scheme |-> ids[k].scheme, value |-> ids[k].value,
           auth |-> ids[k].auth, sens |-> ids[k].sens, from |-> ids[k].from,
           to |-> IF ids[k].to = Open THEN None ELSE ids[k].to,
           status |-> ids[k].status]]])

AllSheets == {"Metadata", "Organizations", "Facilities", "Goods", "Persons",
              "Attestations", "Consignments", "Supply Relationships",
              "Corporate Structure", "Same As", "Identifiers"}
\* The defaults for the quality of the data are never written.
MetaRows(file) ==
  [date |-> file.date, reporting |-> file.reporting, scope |-> file.scope,
   confidence |-> None, source |-> None]
ExportWorkbook(file) ==
  [sheets    |-> AllSheets, meta |-> MetaRows(file),
   nodes     |-> [t \in SheetTypes |-> NodeRows(file, t)],
   supply    |-> SupplyRows(file),
   corporate |-> CorporateRows(file),
   sameAs    |-> SameAsRows(file),
   ids       |-> IdentifierRows(file)]

-----------------------------------------------------------------------------
(* Import.                                                                 *)

Slug(prefix, text, counter) ==
  IF text = None THEN <<prefix, "", counter>>
  ELSE IF SlugText[text] = "" THEN <<prefix, "", counter>>
  ELSE <<prefix, SlugText[text], 0>>

\* The ends of the edge, which the generated id also shows, change nothing:
\* the counter alone tells the edges of one sheet apart.
EdgeSlug(type, counter) == <<"edge-", type, counter>>

BadNumber(cells, columns) ==
  \E c \in DOMAIN cells \cap columns \cap NumberColumns : cells[c] = Unreadable

\* The words for true, in lower case; any other word of the column is false.
TrueWords == {"true", "yes", "1"}

ReadCells(cells, columns) ==
  LET kept == Only(cells, {c \in columns : c \in DOMAIN cells =>
                             ~(c \in CodeColumns /\ cells[c] = Unreadable)})
  IN [c \in DOMAIN kept |->
        IF c # "direct" THEN kept[c] ELSE IF kept[c] \in TrueWords THEN "true" ELSE "false"]

ReadPoint(cells) ==
  IF ~(Coordinates \subseteq DOMAIN cells) THEN NoProperties
  ELSE [f \in {"geo"} |->
          FromJsonValue(<<"map", <<<<"lat", <<"float", cells["latitude"]>>>>,
                                   <<"lon", <<"float", cells["longitude"]>>>>>>>>)]

DefaultQuality(meta) ==
  IF meta.confidence = None /\ meta.source = None THEN NoProperties
  ELSE [f \in {"quality"} |-> <<meta.confidence, meta.source>>]

\* Rows without any content are skipped, also by the counter of the sheet.
Filled(rows) ==
  SelectSeq(rows, LAMBDA r : r.id # None \/ DOMAIN r.cells # {} \/ DOMAIN r.inline # {})

RowId(row, type, k) ==
  IF row.id # None THEN row.id ELSE Slug(Prefix[type], Property(row.cells, "name"), k)

SchemeDefault(scheme) ==
  IF scheme \in {"lei", "duns", "gln"} THEN "public"
  ELSE IF scheme \in {"nat-reg", "vat", "internal"} THEN "restricted"
  ELSE None

InlineIds(row) ==
  LET present == SelectSeq(InlineSchemes, LAMBDA s : s \in DOMAIN row.inline)
  IN [k \in DOMAIN present |->
        [scheme |-> present[k], value |-> row.inline[present[k]].value,
         auth |-> row.inline[present[k]].auth, from |-> None, to |-> None,
         annulled |-> FALSE, sens |-> SchemeDefault(present[k]), status |-> "reported"]]

SheetIds(book, id) ==
  LET rows == SelectSeq(book.ids, LAMBDA r : r.node = id)
  IN [k \in DOMAIN rows |->
        [scheme |-> rows[k].scheme, value |-> rows[k].value, auth |-> rows[k].auth,
         from |-> rows[k].from, to |-> rows[k].to, annulled |-> FALSE,
         sens |-> IF rows[k].sens # None THEN rows[k].sens
                  ELSE SchemeDefault(rows[k].scheme),
         status |-> IF rows[k].status # None THEN rows[k].status ELSE "reported"]]

\* Of several identifiers with one scheme and value the first stays.
Deduplicated(ids) ==
  LET first == {i \in DOMAIN ids : \A j \in 1 .. i - 1 :
                  ids[j].scheme # ids[i].scheme \/ ids[j].value # ids[i].value}
      order == SortedBy(first, LAMBDA i, j : i < j)
  IN [k \in DOMAIN order |-> ids[order[k]]]

PersonDefault(type, ids) ==
  [k \in DOMAIN ids |-> IF type = "person" /\ ids[k].sens = None
                          THEN [ids[k] EXCEPT !.sens = "confidential"] ELSE ids[k]]

ReadIds(book, type, row, id) ==
  PersonDefault(type, Deduplicated(InlineIds(row) \o SheetIds(book, id)))
ReadNode(book, type, row, k, fields) ==
  [id |-> RowId(row, type, k), type |-> type,
   ids |-> ReadIds(book, type, row, RowId(row, type, k)),
   fields |-> fields @@ DefaultQuality(book.meta)]

ReadOrganization(book, row, k) ==
  ReadNode(book, "organization", row, k, ReadCells(row.cells, OrganizationColumns))
ReadFacility(book, row, k) ==
  ReadNode(book, "facility", row, k, ReadCells(row.cells, FacilityColumns) @@ ReadPoint(row.cells))
ReadGood(book, row, k) ==
  ReadNode(book, "good", row, k, ReadCells(row.cells, GoodColumns))
ReadPerson(book, row, k) ==
  ReadNode(book, "person", row, k, ReadCells(row.cells, PersonColumns))
ReadAttestation(book, row, k) ==
  ReadNode(book, "attestation", row, k, ReadCells(row.cells, AttestationColumns))
ReadConsignment(book, row, k) ==
  ReadNode(book, "consignment", row, k, ReadCells(row.cells, ConsignmentColumns))

ReadRow(book, type, row, k) ==
  CASE type = "organization" -> ReadOrganization(book, row, k)
    [] type = "facility"     -> ReadFacility(book, row, k)
    [] type = "good"         -> ReadGood(book, row, k)
    [] type = "person"       -> ReadPerson(book, row, k)
    [] type = "attestation"  -> ReadAttestation(book, row, k)
    [] type = "consignment"  -> ReadConsignment(book, row, k)

ReadNodes(book) ==
  FlattenSeq([s \in DOMAIN NodeSheets |->
    LET rows == Filled(book.nodes[NodeSheets[s]])
    IN [k \in DOMAIN rows |-> ReadRow(book, NodeSheets[s], rows[k], k)]])

ReadType(type, types, default) == IF type \in types THEN type ELSE default

ReadEdges(rows, types, columns, default) ==
  [k \in DOMAIN rows |->
     [id |-> IF rows[k].id # None THEN rows[k].id
             ELSE EdgeSlug(ReadType(rows[k].type, types, default), k),
      type |-> ReadType(rows[k].type, types, default),
      source |-> rows[k].source, target |-> rows[k].target,
      props |-> ReadCells(rows[k].cells, columns), extra |-> NoProperties]]

\* The ids on the sheet are not read; a row with a blank entity is skipped,
\* but counted.
ReadSameAs(rows) ==
  LET whole == SortedBy({k \in DOMAIN rows : None \notin {rows[k].source, rows[k].target}},
                        LAMBDA j, k : j < k)
  IN [w \in DOMAIN whole |->
        [id |-> EdgeSlug("same_as", whole[w]), type |-> "same_as",
         source |-> rows[whole[w]].source, target |-> rows[whole[w]].target,
         props |-> NoProperties, extra |-> Only(rows[whole[w]].cells, SameAsColumns)]]

\* The rows whose id and attested entity are both given.
Attested(rows) ==
  SortedBy({k \in DOMAIN rows : rows[k].id # None /\ "attested_entity_id" \in DOMAIN rows[k].cells},
           LAMBDA j, k : j < k)
AttestedId(counter) == <<"edge-attested-by", "", counter>>
\* The counter goes on from the number of the edges on the other sheets.
ReadAttested(book, offset) ==
  LET rows == Filled(book.nodes["attestation"])
      told == Attested(rows)
  IN [w \in DOMAIN told |->
        [id |-> AttestedId(offset + told[w]), type |-> "attested_by",
         source |-> rows[told[w]].cells["attested_entity_id"], target |-> rows[told[w]].id,
         props |-> Only(rows[told[w]].cells, {"scope"}), extra |-> NoProperties]]

ReadSupply(book) == ReadEdges(book.supply, SupplyTypes, SupplyColumns, "supplies")
ReadCorporate(book) == ReadEdges(book.corporate, CorporateTypes, CorporateColumns, "ownership")
ReadAllEdges(book) ==
  LET listed == ReadSupply(book) \o ReadCorporate(book) \o ReadSameAs(book.sameAs)
  IN listed \o ReadAttested(book, Len(listed))

ReadFile(book) ==
  [nodes |-> ReadNodes(book), edges |-> ReadAllEdges(book),
   reporting |-> book.meta.reporting, scope |-> book.meta.scope, date |-> book.meta.date,
   extra |-> NoProperties]

-----------------------------------------------------------------------------
(* Why an import is refused: the first complaint, in the order of parsing. *)

FirstOf(complaints) ==
  LET raised == {k \in DOMAIN complaints : complaints[k] # None}
  IN IF raised = {} THEN None
     ELSE complaints[CHOOSE k \in raised : \A j \in raised : k <= j]

SheetComplaint(book, names) == IF names \subseteq book.sheets THEN None ELSE "MissingSheet"

MetaComplaint(meta) ==
  IF meta.date \in {None, Unreadable} \/ Unreadable \in {meta.scope, meta.confidence}
    THEN "InvalidCell" ELSE None

NodeComplaint(book) ==
  IF \/ \E k \in DOMAIN book.nodes["facility"] :
          BadNumber(book.nodes["facility"][k].cells, Coordinates)
     \/ \E k \in DOMAIN book.nodes["consignment"] :
          BadNumber(book.nodes["consignment"][k].cells, ConsignmentColumns)
    THEN "InvalidCell" ELSE None

IdentifierComplaint(book) ==
  IF \E k \in DOMAIN book.ids :
       book.ids[k].node # None /\ None \in {book.ids[k].scheme, book.ids[k].value}
    THEN "InvalidCell" ELSE None

NodeIds(book) == LET nodes == ReadNodes(book) IN {nodes[k].id : k \in DOMAIN nodes}

PersonComplaint(book) ==
  IF book.meta.scope = "public" /\ Filled(book.nodes["person"]) # <<>>
    THEN "PersonNodesWithPublicScope" ELSE None

Unresolved(ids, known) == IF ids \subseteq known THEN None ELSE "UnresolvedReference"

EdgeComplaints(rows, columns, known) ==
  [k \in DOMAIN rows |->
     IF None \in {rows[k].source, rows[k].target} THEN "InvalidCell"
     ELSE IF ~({rows[k].source, rows[k].target} \subseteq known) THEN "UnresolvedReference"
     ELSE IF BadNumber(rows[k].cells, columns) THEN "InvalidCell" ELSE None]

SameAsComplaints(rows, known) ==
  [k \in DOMAIN rows |->
     IF None \in {rows[k].source, rows[k].target} THEN None
     ELSE Unresolved({rows[k].source, rows[k].target}, known)]

AttestedComplaints(book, known) ==
  LET rows == Filled(book.nodes["attestation"])
      told == Attested(rows)
  IN [w \in DOMAIN told |->
        Unresolved({rows[told[w]].id, rows[told[w]].cells["attested_entity_id"]}, known)]

ImportComplaint(book) ==
  LET known == NodeIds(book)
      early == FirstOf(<<SheetComplaint(book, {"Organizations", "Metadata"}),
                         MetaComplaint(book.meta), SheetComplaint(book, AllSheets),
                         NodeComplaint(book), IdentifierComplaint(book),
                         PersonComplaint(book)>>
                 \o EdgeComplaints(book.supply, SupplyColumns, known)
                 \o EdgeComplaints(book.corporate, CorporateColumns, known)
                 \o SameAsComplaints(book.sameAs, known)
                 \o AttestedComplaints(book, known))
  IN IF early # None THEN early
     ELSE IF L1Valid(ReadFile(book)) THEN None ELSE "ValidationFailed"
=============================================================================
