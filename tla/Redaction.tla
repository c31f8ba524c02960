------------------------------ MODULE Redaction ------------------------------
(***************************************************************************)
(* redact of omts-core (redaction/mod.rs, sensitivity.rs, boundary_hash.rs)*)
(* applied again and again to one file: by the command `omts redact', which*)
(* refuses a wider scope and retains no node, and by library callers, who  *)
(* choose the nodes to retain and check nothing beforehand.                *)
(*                                                                         *)
(* The hash loop of redact is a step per node, because it can stop in the  *)
(* middle when the random generator fails; the passes before and after it  *)
(* are a step each.  Edges have one more field than in L1Rules: overrides, *)
(* the map _property_sensitivity (the name is in props when it is there).  *)
(***************************************************************************)
EXTENDS L1Rules

CONSTANTS
  Originals,    \* the files considered
  RetainSets,   \* the sets of node ids that library callers retain
  MaxCalls      \* bound on the number of calls

ASSUME MaxCallsAssumption == MaxCalls \in Nat

VARIABLES
  original,    \* the file as its author wrote it
  file,        \* the file as it is now
  strictest,   \* level of the strictest scope that was applied (history)
  call,        \* the call that is running, Idle when there is none
  cursor,      \* next node of the hash loop
  hashed,      \* boundary_ref_values
  drawn,       \* number of random tokens drawn
  outcome,     \* how the last call ended
  calls        \* number of calls begun

vars == <<original, file, strictest, call, cursor, hashed, drawn, outcome, calls>>

Scopes == {"internal", "partner", "public"}
Idle == [scope |-> None, retain |-> {}]

ScopeLevel(scope) ==
  CASE scope = "internal" -> 0 [] scope = "partner" -> 1 [] scope = "public" -> 2

-----------------------------------------------------------------------------
(* Sensitivity of edge properties.                                         *)

Overrides == "_property_sensitivity"
Sensitivities == {"public", "restricted", "confidential"}

\* The fields that the code declares.
IsNode(node) ==
  /\ {"id", "type", "ids", "name"} \subseteq DOMAIN node
  /\ IsSequence(node.ids)
  /\ \A i \in DOMAIN node.ids : node.ids[i].sens \in Sensitivities \cup {None}
IsEdge(edge) ==
  {"id", "type", "source", "target", "props", "overrides"} \subseteq DOMAIN edge
IsFile(f) ==
  /\ {"nodes", "edges", "reporting", "scope"} \subseteq DOMAIN f
  /\ IsSequence(f.nodes) /\ \A k \in DOMAIN f.nodes : IsNode(f.nodes[k])
  /\ IsSequence(f.edges) /\ \A k \in DOMAIN f.edges : IsEdge(f.edges[k])

\* Whose fact a property is could not be told if two edges had one id.  Only
\* the value of a boundary reference can be a hash.
ASSUME OriginalsAssumption ==
  \A f \in Originals :
    /\ IsFile(f) /\ EdgeIdsUnique(f)
    /\ \A k \in DOMAIN f.nodes : f.nodes[k].type # "boundary_ref" => HasIdentifiers(f.nodes[k])
ASSUME NoneAssumption == None \notin Scopes

PropertyDefault(type, name) ==
  CASE name \in {"contract_ref", "annual_value", "value_currency", "volume"} -> "restricted"
    [] name = "percentage" /\ type = "beneficial_ownership" -> "confidential"
    [] OTHER -> "public"

\* An override that is no sensitivity is ignored.
PropertySensitivity(edge, name) ==
  LET override == Property(edge.overrides, name)
  IN IF override \in Sensitivities THEN override ELSE PropertyDefault(edge.type, name)

-----------------------------------------------------------------------------
(* What becomes of a node, an identifier, a property and an edge.          *)

ClassifyNode(node, scope) ==
  IF scope = "public" /\ node.type = "person" THEN "omit" ELSE "retain"

NodeAction(node, scope, retain) ==
  IF ClassifyNode(node, scope) = "omit" THEN "omit"
  ELSE IF node.type = "boundary_ref" \/ node.id \in retain THEN "retain"
  ELSE "replace"

\* The map is keyed by id: of several nodes with one id the last decides.  An
\* end point that is not in it counts as omitted.
ActionOf(id, scope, retain) ==
  IF NodesWithId(file, id) = {} THEN "omit"
  ELSE NodeAction(NodeAt(file, id), scope, retain)

\* Mutant: the type of the node is not considered.
FilterByScheme(node, scope) ==
  Picked(node.ids, {k \in DOMAIN node.ids :
    (IF node.ids[k].sens # None THEN node.ids[k].sens
     ELSE SchemeSensitivity(node.ids[k].scheme)) \in SensitivityAllowed(scope)})

FilterIdentifiers(node, scope) ==
  Picked(node.ids, {k \in DOMAIN node.ids :
    EffectiveSensitivity(node.ids[k], node.type) \in SensitivityAllowed(scope)})

RestrictedTo(f, S) == [x \in S |-> f[x]]
Elements(seq) == {seq[k] : k \in DOMAIN seq}

\* Mutant: the overrides of the author are not looked at.
FilterEdgeByDefault(edge, scope) ==
  [edge EXCEPT !.props = RestrictedTo(edge.props,
     {name \in DOMAIN edge.props :
        PropertyDefault(edge.type, name) \in SensitivityAllowed(scope)})]

\* The overrides stay for a partner and go for the public.
FilterEdge(edge, scope) ==
  LET kept == {name \in DOMAIN edge.props \ {Overrides} :
                 PropertySensitivity(edge, name) \in SensitivityAllowed(scope)}
  IN IF scope = "partner"
       THEN [edge EXCEPT !.props = RestrictedTo(edge.props,
                                     kept \cup ({Overrides} \cap DOMAIN edge.props))]
       ELSE [edge EXCEPT !.props = RestrictedTo(edge.props, kept),
                         !.overrides = NoProperties]

\* Mutant: one replaced end is enough to drop an edge.
ClassifyEdgeOneEnd(edge, source, target, scope) ==
  IF \/ scope = "public" /\ edge.type = "beneficial_ownership"
     \/ "omit" \in {source, target}
     \/ "replace" \in {source, target}
  THEN "omit" ELSE "retain"

ClassifyEdge(edge, source, target, scope) ==
  IF \/ scope = "public" /\ edge.type = "beneficial_ownership"
     \/ "omit" \in {source, target}
     \/ {source, target} = {"replace"}
  THEN "omit" ELSE "retain"

-----------------------------------------------------------------------------
(* Boundary references.  The value of an opaque identifier is <<text, 0>>. *)

\* Mutant: all identifiers that the scope allows enter the hash.
HashInputOfScope(node) ==
  LET ids  == FilterIdentifiers(node, call.scope)
      Less(i, j) == \/ TextLess(CanonicalId(ids[i]), CanonicalId(ids[j]))
                    \/ CanonicalId(ids[i]) = CanonicalId(ids[j]) /\ i < j
      order == SortedBy(DOMAIN ids, Less)
  IN [k \in DOMAIN order |-> CanonicalId(ids[order[k]])]

\* Canonical strings of the public identifiers, sorted.
HashInput(node) ==
  LET ids  == FilterIdentifiers(node, "public")
      Less(i, j) == \/ TextLess(CanonicalId(ids[i]), CanonicalId(ids[j]))
                    \/ CanonicalId(ids[i]) = CanonicalId(ids[j]) /\ i < j
      order == SortedBy(DOMAIN ids, Less)
  IN [k \in DOMAIN order |-> CanonicalId(ids[order[k]])]

\* SHA-256 over its input and the salt, which a file keeps, taken as injective.
Sha256(texts) == <<1, texts>>
\* The k-th token of the random generator, taken as never repeated.
RandomToken(k) == <<2, k>>

BoundaryRefNode(id, value) ==
  [id |-> id, type |-> "boundary_ref",
   ids |-> <<[scheme |-> "opaque", value |-> <<value, 0>>, auth |-> None,
              from |-> None, to |-> None, annulled |-> FALSE, sens |-> None]>>,
   name |-> None]

-----------------------------------------------------------------------------
Init ==
  /\ original \in Originals
  /\ file = original
  /\ strictest = 0
  /\ call = Idle
  /\ cursor = 1
  /\ hashed = [id \in {} |-> None]
  /\ drawn = 0
  /\ outcome = "none"
  /\ calls = 0

Calling == call = Idle /\ calls < MaxCalls

\* The guard of the command, when the file declares a scope.
LessRestrictive(scope) ==
  file.scope # None /\ ScopeLevel(scope) < ScopeLevel(file.scope)

Refuse(scope) ==
  /\ Calling
  /\ LessRestrictive(scope)
  /\ outcome' = "refused"
  /\ calls' = calls + 1
  /\ UNCHANGED <<original, file, strictest, call, cursor, hashed, drawn>>

\* The internal scope changes the header only and validates nothing.
RedactInternal ==
  /\ file' = [file EXCEPT !.scope = "internal"]
  /\ outcome' = "done"
  /\ UNCHANGED <<strictest, call, cursor, hashed>>

BeginHashing(scope, retain) ==
  /\ call' = [scope |-> scope, retain |-> retain]
  /\ cursor' = 1
  /\ hashed' = [id \in {} |-> None]
  /\ outcome' = "running"
  /\ UNCHANGED <<file, strictest>>

Redact(scope, retain) ==
  /\ Calling
  /\ calls' = calls + 1
  /\ IF scope = "internal" THEN RedactInternal ELSE BeginHashing(scope, retain)
  /\ UNCHANGED <<original, drawn>>

\* omts redact: no node is retained.
RunCommand(scope) == ~LessRestrictive(scope) /\ Redact(scope, {})

AtNode == call # Idle /\ cursor \in DOMAIN file.nodes

SkipNode ==
  /\ AtNode
  /\ ActionOf(file.nodes[cursor].id, call.scope, call.retain) # "replace"
  /\ cursor' = cursor + 1
  /\ UNCHANGED <<original, file, strictest, call, hashed, drawn, outcome, calls>>

\* Mutant: only the last value is kept.
HashNodeForgets ==
  /\ AtNode
  /\ LET node   == file.nodes[cursor]
         random == HashInput(node) = <<>>
         value  == IF random THEN RandomToken(drawn) ELSE Sha256(HashInput(node))
     IN /\ ActionOf(node.id, call.scope, call.retain) = "replace"
        /\ hashed' = [id \in {node.id} |-> value]
        /\ drawn' = drawn + (IF random THEN 1 ELSE 0)
  /\ cursor' = cursor + 1
  /\ UNCHANGED <<original, file, strictest, call, outcome, calls>>

\* The value for the node at the cursor replaces that of an earlier node with
\* the same id.
HashNode ==
  /\ AtNode
  /\ LET node   == file.nodes[cursor]
         random == HashInput(node) = <<>>
         value  == IF random THEN RandomToken(drawn) ELSE Sha256(HashInput(node))
     IN /\ ActionOf(node.id, call.scope, call.retain) = "replace"
        /\ hashed' = [id \in DOMAIN hashed \cup {node.id} |->
                        IF id = node.id THEN value ELSE hashed[id]]
        /\ drawn' = drawn + (IF random THEN 1 ELSE 0)
  /\ cursor' = cursor + 1
  /\ UNCHANGED <<original, file, strictest, call, outcome, calls>>

\* CsprngFailure: the call ends and the file is what it was.
EntropyFails ==
  /\ AtNode
  /\ ActionOf(file.nodes[cursor].id, call.scope, call.retain) = "replace"
  /\ HashInput(file.nodes[cursor]) = <<>>
  /\ call' = Idle
  /\ outcome' = "no_entropy"
  /\ UNCHANGED <<original, file, strictest, cursor, hashed, drawn, calls>>

OutputNode(node) ==
  IF ActionOf(node.id, call.scope, call.retain) = "replace"
    THEN BoundaryRefNode(node.id, hashed[node.id])
    ELSE [node EXCEPT !.ids = FilterIdentifiers(node, call.scope)]

KeptNodes ==
  {k \in DOMAIN file.nodes :
     ActionOf(file.nodes[k].id, call.scope, call.retain) # "omit"}

OutputNodes ==
  LET kept == Picked(file.nodes, KeptNodes)
  IN [k \in DOMAIN kept |-> OutputNode(kept[k])]

KeptEdges ==
  {k \in DOMAIN file.edges :
     ClassifyEdge(file.edges[k],
                  ActionOf(file.edges[k].source, call.scope, call.retain),
                  ActionOf(file.edges[k].target, call.scope, call.retain),
                  call.scope) = "retain"}

OutputEdges ==
  LET kept == Picked(file.edges, KeptEdges)
  IN [k \in DOMAIN kept |-> FilterEdge(kept[k], call.scope)]

\* The header is copied, the reporting entity included.
Output == [file EXCEPT !.nodes = OutputNodes, !.edges = OutputEdges,
                       !.scope = call.scope]

Hashed == call # Idle /\ cursor \notin DOMAIN file.nodes

Accept ==
  /\ Hashed
  /\ L1Valid(Output)
  /\ file' = Output
  /\ strictest' = IF ScopeLevel(call.scope) > strictest
                    THEN ScopeLevel(call.scope) ELSE strictest
  /\ call' = Idle
  /\ outcome' = "done"
  /\ UNCHANGED <<original, cursor, hashed, drawn, calls>>

\* InvalidOutput
Reject ==
  /\ Hashed
  /\ ~L1Valid(Output)
  /\ call' = Idle
  /\ outcome' = "invalid"
  /\ UNCHANGED <<original, file, strictest, cursor, hashed, drawn, calls>>

Call == \E scope \in Scopes :
          \/ Refuse(scope)
          \/ RunCommand(scope)
          \/ \E retain \in RetainSets : Redact(scope, retain)

Next == Call \/ SkipNode \/ HashNode \/ EntropyFails \/ Accept \/ Reject

Spec == Init /\ [][Next]_vars
-----------------------------------------------------------------------------
Outcomes == {"none", "running", "done", "refused", "no_entropy", "invalid"}

(* Every variable has its type, and every node to replace that the loop    *)
(* has passed has its value.                                               *)
TypeOK ==
  /\ strictest \in 0 .. 2
  /\ call.scope \in {None, "partner", "public"}
  /\ outcome \in Outcomes
  /\ (outcome = "running") <=> (call # Idle)
  /\ call # Idle =>
       \A k \in DOMAIN file.nodes :
         k < cursor /\ ActionOf(file.nodes[k].id, call.scope, call.retain) = "replace"
           => file.nodes[k].id \in DOMAIN hashed

\* What the author said of the nodes and edges of the original file.
OriginalNodes(id) == {original.nodes[k] : k \in NodesWithId(original, id)}
OriginalEdges(id) ==
  {original.edges[k] : k \in {j \in DOMAIN original.edges : original.edges[j].id = id}}

SensitivityLevel(s) ==
  CASE s = "public" -> 0 [] s = "restricted" -> 1 [] s = "confidential" -> 2

\* The facts of a file, with the sensitivity they had in the original: that a
\* person or a beneficial owner exists, identifiers, properties.
PersonFacts(f) ==
  {<<<<1, node.id, <<>>>>, 1>> : node \in {n \in Elements(f.nodes) : n.type = "person"}}
OwnerFacts(f) ==
  {<<<<2, edge.id, <<>>>>, 1>> :
     edge \in {e \in Elements(f.edges) : e.type = "beneficial_ownership"}}
IdentifierFacts(f) ==
  UNION {{<<<<3, node.id, CanonicalId(id)>>,
            SensitivityLevel(EffectiveSensitivity(id, origin.type))>> :
            id \in Elements(node.ids), origin \in OriginalNodes(node.id)} :
            node \in {n \in Elements(f.nodes) : n.type # "boundary_ref"}}
PropertyFacts(f) ==
  UNION {{<<<<4, edge.id, name>>, SensitivityLevel(PropertySensitivity(origin, name))>> :
            name \in DOMAIN edge.props \ {Overrides}, origin \in OriginalEdges(edge.id)} :
            edge \in Elements(f.edges)}
Facts(f) == PersonFacts(f) \cup OwnerFacts(f) \cup IdentifierFacts(f) \cup PropertyFacts(f)

(* Whatever sequence of commands and calls a file goes through, it says    *)
(* nothing that its author held too sensitive for one of the audiences it  *)
(* was prepared for, overrides that are gone since included, and it never  *)
(* gains a fact.                                                           *)
Promise == INSTANCE Disclosure WITH shown <- Facts(file), level <- strictest
DisclosureSpec == Promise!Spec

\* Stubs made by redaction, not the boundary references of the original.
Stubs ==
  {n \in Elements(file.nodes) :
     n.type = "boundary_ref" /\ \A o \in OriginalNodes(n.id) : o.type # "boundary_ref"}

\* The public identifiers of a node, each form with the number of records.
PublicAt(node) ==
  {i \in DOMAIN node.ids : EffectiveSensitivity(node.ids[i], node.type) = "public"}
PublicForms(node) ==
  [text \in {CanonicalId(node.ids[i]) : i \in PublicAt(node)} |->
     Cardinality({i \in PublicAt(node) : CanonicalId(node.ids[i]) = text})]
PublicIdentity(stub) == PublicForms(NodeAt(original, stub.id))

(* A stub tells the public identity of its node and nothing else: two      *)
(* stubs have one value exactly when their nodes have the same public      *)
(* identifiers, of which there are some, and the value of such a stub does *)
(* not depend on the scopes the file went through before.  An identifier   *)
(* of which a node has two records counts twice.                           *)
StubsTellPublicIdentity ==
  \A m, n \in Stubs :
    /\ m # n => (m.ids[1].value = n.ids[1].value
                  <=> /\ PublicIdentity(m) = PublicIdentity(n)
                      /\ DOMAIN PublicIdentity(m) # {})
    /\ DOMAIN PublicIdentity(m) # {} =>
         \E texts \in {m.ids[1].value[1][2]} :
           Elements(texts) = DOMAIN PublicIdentity(m) /\ m.ids[1].value[1] = Sha256(texts)

StubIds(f) == {n.id : n \in {m \in Elements(f.nodes) : m.type = "boundary_ref"}}
NodeIds(f) == {n.id : n \in Elements(f.nodes)}

(* Redaction keeps the graph connected: an edge disappears only with one   *)
(* of its ends, when both of its ends become stubs, or as a beneficial     *)
(* ownership that is not for the public.                                   *)
ConnectivityKept ==
  [][\A e \in Elements(file.edges) :
       \/ \E d \in Elements(file'.edges) : d.id = e.id /\ d.source = e.source
                                            /\ d.target = e.target
       \/ {e.source, e.target} \ NodeIds(file') # {}
       \/ {e.source, e.target} \subseteq StubIds(file') \ StubIds(file)
       \/ file'.scope = "public" /\ e.type = "beneficial_ownership"]_file

\* What the call that is running cannot manage: the node of the reporting
\* entity does not stay what it is, or a boundary reference loses the opaque
\* identifier that its author marked as too sensitive for the scope.
Unmanageable ==
  \/ /\ file.reporting # None
     /\ ActionOf(file.reporting, call.scope, call.retain) # "retain"
  \/ \E n \in Elements(file.nodes) :
       /\ n.type = "boundary_ref"
       /\ n.ids[1].sens \notin SensitivityAllowed(call.scope) \cup {None}

(* The final validation (redaction/mod.rs:570) rejects what a call made of *)
(* a valid file for these two reasons, whenever one of them is given, and  *)
(* for no other: edges of dropped nodes are gone, stubs have one opaque    *)
(* identifier, and what was filtered suits the scope.                      *)
FailsExactlyAsForeseen ==
  [][L1Valid(file) /\ call # Idle /\ outcome' \in {"done", "invalid"} =>
       (outcome' = "invalid" <=> Unmanageable)]_vars
=============================================================================
