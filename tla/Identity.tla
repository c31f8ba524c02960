------------------------------ MODULE Identity ------------------------------
(***************************************************************************)
(* When two identifier records, and two edges, denote the same thing:      *)
(* identity/predicates.rs and canonical.rs of omts-core.                   *)
(*                                                                         *)
(* Texts are numbered in their lexicographic order.  A text that can carry *)
(* a variation the predicates ignore is a pair: the value of an identifier *)
(* is <<core, pad>>, pad being the white space around it, an authority is  *)
(* <<name, spelling>>, spelling being its mix of upper and lower case.     *)
(* Dates are numbers.  An absent field is None; `to' can also be Open, the *)
(* explicit null that says there is no expiry.                             *)
(***************************************************************************)
EXTENDS Integers, Sequences, FiniteSets

CONSTANTS None, Open

IsSequence(seq) == Len(seq) \in Nat /\ DOMAIN seq = 1 .. Len(seq)

\* Scheme names in byte order; com.example stands for every extension.
SchemeOrder == <<"com.example", "duns", "gln", "internal", "lei", "nat-reg",
                 "opaque", "vat">>
Position(seq, e) == CHOOSE i \in DOMAIN seq : seq[i] = e

\* Byte order of two texts given as sequences of numbers.
TextLess(a, b) ==
  \E i \in DOMAIN b :
    /\ \A j \in 1 .. i - 1 : j \in DOMAIN a /\ a[j] = b[j]
    /\ i \in DOMAIN a => a[i] < b[i]
TextLeq(a, b) == a = b \/ TextLess(a, b)

\* The elements of the finite set S in the strict total order Less.
SortedBy(S, Less(_, _)) ==
  [i \in 1 .. Cardinality(S) |->
     CHOOSE e \in S : Cardinality({d \in S : Less(d, e)}) = i - 1]

\* The elements of seq at the positions in S, in their order.
Picked(seq, S) ==
  LET order == SortedBy(S, LAMBDA i, j : i < j)
  IN [k \in DOMAIN order |-> seq[order[k]]]

-----------------------------------------------------------------------------
(* canonical.rs                                                            *)

RequiresAuthority(scheme) == scheme \in {"nat-reg", "vat"}

NoText == <<0, 0>>   \* the empty authority

\* The canonical string: scheme:value, or scheme:authority:value.  It keeps
\* the white space of the value and the spelling of the authority.
CanonicalId(id) ==
  <<Position(SchemeOrder, id.scheme)>>
    \o (IF ~RequiresAuthority(id.scheme) THEN <<>>
        ELSE IF id.auth = None THEN NoText ELSE id.auth)
    \o id.value

-----------------------------------------------------------------------------
(* Node identity.                                                          *)

\* Mutant: a period that ends on the day the other begins is disjoint from it.
DisjointOnSameDay(end, start) ==
  start # None /\ end \notin {None, Open} /\ end <= start

\* One interval ends, at a known date, before the other begins.
IntervalsDisjoint(end, start) ==
  start # None /\ end \notin {None, Open} /\ end < start

HasTemporal(id) == id.from # None \/ id.to # None

\* Mutant: only the end of the first period is compared.
OneSidedCompatible(a, b) ==
  HasTemporal(a) /\ HasTemporal(b) => ~IntervalsDisjoint(a.to, b.from)

TemporalCompatible(a, b) ==
  HasTemporal(a) /\ HasTemporal(b) =>
    ~IntervalsDisjoint(a.to, b.from) /\ ~IntervalsDisjoint(b.to, a.from)

\* Both without authority, or both with one that is equal up to case.
SameAuthority(a, b) ==
  IF a.auth = None \/ b.auth = None THEN a.auth = b.auth
  ELSE a.auth[1] = b.auth[1]

IdentifiersMatch(a, b) ==
  /\ a.scheme # "internal"
  /\ a.scheme = b.scheme
  /\ a.value[1] = b.value[1]
  /\ SameAuthority(a, b)
  /\ TemporalCompatible(a, b)

IsLeiAnnulled(id) == id.scheme = "lei" /\ id.annulled

\* The type of a record, and of what carries records.
IsIdentifier(id) ==
  /\ id.scheme \in {SchemeOrder[i] : i \in DOMAIN SchemeOrder}
  /\ id.value \in Nat \X Nat
  /\ id.auth = None \/ id.auth \in Nat \X Nat
HasIdentifiers(x) == IsSequence(x.ids) /\ \A i \in DOMAIN x.ids : IsIdentifier(x.ids[i])

External(ids) == Picked(ids, {i \in DOMAIN ids : ids[i].scheme # "internal"})

\* Some identifier of one list matches some identifier of the other.
AnyMatch(ids1, ids2) ==
  \E i \in DOMAIN ids1, j \in DOMAIN ids2 : IdentifiersMatch(ids1[i], ids2[j])

-----------------------------------------------------------------------------
(* Edge identity.                                                          *)

\* Known edge types in the byte order of their Rust names, then extensions.
EdgeTypeOrder == <<"attested_by", "beneficial_ownership", "brokers",
  "composed_of", "distributes", "former_identity", "legal_parentage",
  "operates", "operational_control", "ownership", "produces", "same_as",
  "sells_to", "subcontracts", "supplies", "tolls", "com.example">>

\* The properties that tell two edges of a type with the same end points
\* apart.  For the others, extensions included, type and end points suffice.
IdentityProperties(type) ==
  CASE type = "ownership"                -> {"percentage", "direct"}
    [] type = "operational_control"      -> {"control_type"}
    [] type = "legal_parentage"          -> {"consolidation_basis"}
    [] type = "former_identity"          -> {"event_type", "effective_date"}
    [] type = "beneficial_ownership"     -> {"control_type", "percentage"}
    [] type \in {"supplies", "subcontracts", "sells_to"}
                                         -> {"commodity", "contract_ref"}
    [] type \in {"tolls", "brokers"}     -> {"commodity"}
    [] type = "distributes"              -> {"service_type"}
    [] type = "attested_by"              -> {"scope"}
    [] OTHER                             -> {}

\* The domain of `props' is the set of properties that are present.
NoProperties == [name \in {} |-> None]
Property(props, name) == IF name \in DOMAIN props THEN props[name] ELSE None

\* Mutant: an absent property equals any value.
PropertiesMatchIfPresent(type, a, b) ==
  /\ type # "same_as"
  /\ \A name \in IdentityProperties(type) :
       \/ None \in {Property(a, name), Property(b, name)}
       \/ Property(a, name) = Property(b, name)

IdentityPropertiesMatch(type, a, b) ==
  /\ type # "same_as"
  /\ \A name \in IdentityProperties(type) : Property(a, name) = Property(b, name)

\* The edges are already known to join the same groups of nodes and to have
\* one type, which is not same_as: the key of their bucket says so.
EdgesMatch(a, b) ==
  LET externalA == External(a.ids)
      externalB == External(b.ids)
  IN /\ a.type # "same_as" /\ b.type # "same_as"
     /\ a.type = b.type
     /\ IF externalA # <<>> \/ externalB # <<>>
          THEN AnyMatch(externalA, externalB)
          ELSE IdentityPropertiesMatch(a.type, a.props, b.props)
=============================================================================
