----------------------------- MODULE MCRedaction -----------------------------
(* Files for model checking Redaction.                                       *)
EXTENDS Redaction

Id(scheme, value, sens) ==
  [scheme |-> scheme, value |-> <<value, 0>>,
   auth |-> IF RequiresAuthority(scheme) \/ scheme = "internal" THEN <<1, 0>> ELSE None,
   from |-> None, to |-> None, annulled |-> FALSE, sens |-> sens]
Node(id, type, ids) == [id |-> id, type |-> type, ids |-> ids, name |-> 1]
Edge(id, type, source, target, props, overrides) ==
  [id |-> id, type |-> type, source |-> source, target |-> target, ids |-> <<>>,
   props |-> IF overrides = NoProperties THEN props
             ELSE [n \in DOMAIN props \cup {Overrides} |->
                     IF n = Overrides THEN 0 ELSE props[n]],
   overrides |-> overrides]

\* Sensitivities by default and declared, nodes of one public identity, and two
\* records of one canonical form.
IdLists ==
  {<<>>, <<Id("lei", 1, None), Id("duns", 1, None)>>,
   <<Id("duns", 1, "public"), Id("vat", 1, None), Id("lei", 1, None)>>,
   <<Id("lei", 2, "confidential"), Id("vat", 2, "public")>>,
   <<Id("internal", 1, None), Id("gln", 1, "restricted")>>,
   <<Id("duns", 1, None), [Id("duns", 1, "public") EXCEPT !.auth = <<1, 0>>]>>}

Opaque(sens) == [Id("opaque", 0, sens) EXCEPT !.value = <<<<3, 1>>, 0>>]

Thirds ==
  {Node(103, "person", ids) : ids \in {<<Id("duns", 1, None)>>, <<Id("lei", 3, "public")>>}}
   \cup {Node(103, "boundary_ref", <<Opaque(sens)>>) : sens \in {None, "restricted"}}
   \cup {Node(103, "organization", <<Id("duns", 1, None)>>),
         Node(101, "person", <<>>)}   \* an id that is taken

Contract == [contract_ref |-> 1, volume |-> 1, note |-> 1]
EdgeLists ==
  {<<Edge(1, "supplies", 101, 102, Contract, o), Edge(2, type, 103, 101, [percentage |-> 1], NoProperties)>> :
     o \in {NoProperties, [contract_ref |-> "public", note |-> "confidential"],
            [volume |-> "unknown", note |-> "restricted"]},
     type \in {"beneficial_ownership", "supplies"}}

Files ==
  {[nodes |-> <<Node(101, "organization", a), Node(102, "organization", b), c>>,
    edges |-> e, reporting |-> r, scope |-> None] :
     a \in IdLists, b \in {<<>>, <<Id("lei", 1, None), Id("duns", 1, None)>>},
     c \in Thirds, e \in EdgeLists, r \in {None, 101}}

\* The ones with a reporting entity do not vary otherwise.
SomeFiles ==
  {f \in Files :
     /\ f.reporting # None => f.nodes[1].ids = <<>> /\ f.edges[1].overrides = NoProperties
     /\ f.edges[2].type = "beneficial_ownership" <=> f.nodes[3].type = "person"}

Retained == {{101}, {101, 103}}
=============================================================================
