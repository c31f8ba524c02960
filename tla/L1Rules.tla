------------------------------ MODULE L1Rules ------------------------------
(***************************************************************************)
(* The L1 (structural) validation rules of omts-core that relate parts of  *)
(* a file to each other: validation/rules_l1_gdm, validation/rules_l1_sdi  *)
(* and, of rules_l1_eid, the ones a merge or a redaction could break.  The *)
(* rules on the text of one identifier (L1-EID-01, 02, 04 to 08) are left  *)
(* out: no operation modelled here rewrites an identifier.                 *)
(*                                                                         *)
(* A file is a record with fields nodes and edges (sequences), reporting   *)
(* (the id of the reporting entity), scope (the disclosure scope) and      *)
(* date.  Graph-local ids are numbers, k being the text "n-k".             *)
(***************************************************************************)
EXTENDS Identity

NodeTypes == {"organization", "facility", "good", "person", "attestation",
              "consignment", "boundary_ref"}
ExtensionTypes == {"com.example"}   \* types with a dot in their name

NodesWithId(file, id) == {k \in DOMAIN file.nodes : file.nodes[k].id = id}

\* Of several nodes with one id the map from ids to nodes keeps the last.
NodeAt(file, id) ==
  file.nodes[CHOOSE k \in NodesWithId(file, id) :
               \A j \in NodesWithId(file, id) : j <= k]

(* Graph data model.                                                       *)
NodeIdsUnique(file) ==
  \A j, k \in DOMAIN file.nodes : file.nodes[j].id = file.nodes[k].id => j = k

EdgeIdsUnique(file) ==
  \A j, k \in DOMAIN file.edges : file.edges[j].id = file.edges[k].id => j = k

EndpointsExist(file) ==
  \A k \in DOMAIN file.edges :
    /\ NodesWithId(file, file.edges[k].source) # {}
    /\ NodesWithId(file, file.edges[k].target) # {}

EdgeTypesKnown(file) ==
  \A k \in DOMAIN file.edges :
    file.edges[k].type \in {EdgeTypeOrder[i] : i \in DOMAIN EdgeTypeOrder}

ReportingEntityIsOrganization(file) ==
  file.reporting # None =>
    /\ NodesWithId(file, file.reporting) # {}
    /\ NodeAt(file, file.reporting).type = "organization"

PermittedSources(type) ==
  CASE type = "beneficial_ownership" -> {"person"}
    [] type = "tolls"       -> {"organization", "facility"}
    [] type = "produces"    -> {"facility"}
    [] type = "composed_of" -> {"good", "consignment"}
    [] type = "attested_by" -> {"organization", "facility", "good", "consignment"}
    [] OTHER                -> {"organization"}

PermittedTargets(type) ==
  CASE type = "operational_control" -> {"organization", "facility"}
    [] type = "operates"            -> {"facility"}
    [] type \in {"produces", "composed_of"} -> {"good", "consignment"}
    [] type = "attested_by"         -> {"attestation"}
    [] OTHER                        -> {"organization"}

\* Extension edges, same_as, extension nodes and boundary references are exempt.
EndpointTypesPermitted(file) ==
  \A k \in DOMAIN file.edges :
    LET e == file.edges[k]
        Permitted(id, types) ==
          NodesWithId(file, id) # {} =>
            NodeAt(file, id).type \in types \cup ExtensionTypes \cup {"boundary_ref"}
    IN e.type \notin ExtensionTypes \cup {"same_as"} =>
         /\ Permitted(e.source, PermittedSources(e.type))
         /\ Permitted(e.target, PermittedTargets(e.type))

(* Identifier records.                                                     *)
AuthorityPresent(id) ==
  RequiresAuthority(id.scheme) \/ id.scheme = "internal" =>
    id.auth \notin {None, NoText}

PeriodOrdered(id) ==
  id.from # None /\ id.to \notin {None, Open} => id.from <= id.to

IdentifierTuplesUnique(ids) ==
  \A j, k \in DOMAIN ids :
    /\ ids[j].scheme = ids[k].scheme
    /\ ids[j].value = ids[k].value
    /\ ids[j].auth = ids[k].auth
    => j = k

IdentifiersValid(file) ==
  \A n \in DOMAIN file.nodes :
    LET ids == file.nodes[n].ids IN
      /\ \A i \in DOMAIN ids : AuthorityPresent(ids[i]) /\ PeriodOrdered(ids[i])
      /\ IdentifierTuplesUnique(ids)

(* Selective disclosure.                                                   *)
BoundaryRefsOpaque(file) ==
  \A n \in DOMAIN file.nodes :
    file.nodes[n].type = "boundary_ref" =>
      /\ Len(file.nodes[n].ids) = 1
      /\ file.nodes[n].ids[1].scheme = "opaque"

SchemeSensitivity(scheme) ==
  IF scheme \in {"nat-reg", "vat", "internal"} THEN "restricted" ELSE "public"

EffectiveSensitivity(id, nodeType) ==
  IF id.sens # None THEN id.sens
  ELSE IF nodeType = "person" THEN "confidential"
  ELSE SchemeSensitivity(id.scheme)

\* The sensitivities that a file of the given scope may show.
SensitivityAllowed(scope) ==
  CASE scope = "partner" -> {"public", "restricted"}
    [] scope = "public"  -> {"public"}
    [] OTHER             -> {"public", "restricted", "confidential"}

ScopeRespected(file) ==
  \A n \in DOMAIN file.nodes :
    \A i \in DOMAIN file.nodes[n].ids :
      EffectiveSensitivity(file.nodes[n].ids[i], file.nodes[n].type)
        \in SensitivityAllowed(file.scope)

L1Valid(file) ==
  /\ NodeIdsUnique(file)
  /\ EdgeIdsUnique(file)
  /\ EndpointsExist(file)
  /\ EdgeTypesKnown(file)
  /\ ReportingEntityIsOrganization(file)
  /\ EndpointTypesPermitted(file)
  /\ IdentifiersValid(file)
  /\ BoundaryRefsOpaque(file)
  /\ ScopeRespected(file)
=============================================================================
