--------------------------- MODULE MergePipeline ---------------------------
(***************************************************************************)
(* merge_with_config of omts-core (merge_pipeline/pipeline.rs) with the    *)
(* helpers of merge/ops.rs.  It runs on one thread; what is not determined *)
(* by the input is the order in which a HashMap yields the buckets of the  *)
(* two candidate indexes.  A step is the comparison of one pair, the       *)
(* handling of one same_as edge, or one of the passes that follow and that *)
(* depend on nothing but the representatives.                              *)
(*                                                                         *)
(* Nodes and edges of all files are concatenated; their ordinals start at  *)
(* 1 here.  A node is a record: id, type, ids, labels, scalars (name,      *)
(* jurisdiction, status), conflicts (its _conflicts), operator (the id of  *)
(* another node) and carried, which stands for the other typed fields.     *)
(* An edge is a record: id, type, source, target, ids, labels, props and   *)
(* extra, these two functions on the names that are present.               *)
(***************************************************************************)
EXTENDS L1Rules, RepForest, SequencesExt

CONSTANTS
  Inputs,          \* the argument lists considered: sequences of files
  Threshold,       \* config.same_as_threshold
  GroupSizeLimit   \* config.group_size_limit

ASSUME ThresholdAssumption == Threshold \in {"definite", "probable", "possible"}
ASSUME GroupSizeLimitAssumption == GroupSizeLimit \in Nat
ASSUME NoneAssumption == None \notin {"partner", "public"}   \* the absent scope is none

\* Identifiers have a known scheme and texts of two parts; lists are Vecs.
IsEdge(x) ==
  /\ HasIdentifiers(x)
  /\ {"id", "type", "source", "target", "ids", "labels", "props", "extra"} \subseteq DOMAIN x
  /\ x.type \in {EdgeTypeOrder[i] : i \in DOMAIN EdgeTypeOrder}
WellFormed(file) ==
  /\ IsSequence(file.nodes) /\ \A k \in DOMAIN file.nodes : HasIdentifiers(file.nodes[k])
  /\ IsSequence(file.edges) /\ \A k \in DOMAIN file.edges : IsEdge(file.edges[k])
ASSUME InputsAssumption ==
  \A arg \in Inputs : IsSequence(arg) /\ \A f \in DOMAIN arg : WellFormed(arg[f])

VARIABLES
  files,       \* the argument
  allNodes,    \* nodes of all files; allNodes[o].file is node_origins[o]
  allEdges,    \* edges of all files, likewise
  phase,       \* the pass that is running
  todo,        \* keys of the candidate index whose bucket is still to come
  pairs,       \* pairs of the current bucket still to be compared
  cursor,      \* next edge of the same_as pass
  forest,      \* the union-find over node ordinals
  edgeForest,  \* the union-find over edge ordinals
  nodeOrder,   \* representatives of the node groups, in the output's order
  edgeOrder,   \* likewise of the edge groups
  warnings,    \* representatives of the oversized groups
  nodes,       \* output nodes
  edges,       \* output edges
  output       \* the merged file, once it is accepted

input   == <<files, allNodes, allEdges>>
results == <<warnings, nodes, edges, output>>
orders  == <<nodeOrder, edgeOrder>>
vars == <<input, phase, todo, pairs, cursor, forest, edgeForest, orders, results>>

Scalars == {"name", "jurisdiction", "status"}

\* The items of all lists, each with the number of its list, that is its file.
Concatenated(lists) ==
  FlattenSeq([f \in DOMAIN lists |->
    [k \in DOMAIN lists[f] |-> [item |-> lists[f][k], file |-> f]]])

NodeOrdinals == DOMAIN allNodes
EdgeOrdinals == DOMAIN allEdges
Node(o) == allNodes[o].item
Edge(e) == allEdges[e].item

-----------------------------------------------------------------------------
(* The identifier index, and what makes two nodes one.                     *)

Indexed(id) == id.scheme # "internal" /\ ~IsLeiAnnulled(id)

Keys(ids) == {CanonicalId(ids[i]) : i \in {j \in DOMAIN ids : Indexed(ids[j])}}

Bucket(key) == {o \in NodeOrdinals : key \in Keys(Node(o).ids)}

\* All identifiers of both nodes are compared, not those of the bucket only.
NodesMatch(a, b) == AnyMatch(Node(a).ids, Node(b).ids)

\* Buckets of one are skipped.
SharedKeys ==
  {key \in UNION {Keys(Node(o).ids) : o \in NodeOrdinals} :
     Cardinality(Bucket(key)) > 1}

\* The end points of an edge are looked up in its own file.
Candidates(e, id) ==
  {o \in NodeOrdinals : allNodes[o].file = allEdges[e].file /\ Node(o).id = id}
Resolves(e) ==
  Candidates(e, Edge(e).source) # {} /\ Candidates(e, Edge(e).target) # {}
Source(e) == Max(Candidates(e, Edge(e).source))
Target(e) == Max(Candidates(e, Edge(e).target))

\* properties.confidence, else confidence beside the properties.
Confidence(edge) ==
  IF "confidence" \in DOMAIN edge.props THEN edge.props["confidence"]
  ELSE Property(edge.extra, "confidence")

\* An absent or unknown confidence counts as possible.
Honours(confidence) ==
  CASE Threshold = "definite" -> confidence = "definite"
    [] Threshold = "probable" -> confidence \in {"definite", "probable"}
    [] OTHER -> TRUE

Honoured(e) ==
  /\ Edge(e).type = "same_as"
  /\ Honours(Confidence(Edge(e)))
  /\ Resolves(e)

-----------------------------------------------------------------------------
Init ==
  /\ files \in Inputs
  /\ allNodes = Concatenated([f \in DOMAIN files |-> files[f].nodes])
  /\ allEdges = Concatenated([f \in DOMAIN files |-> files[f].edges])
  /\ phase = "start"
  /\ todo = {}
  /\ pairs = {}
  /\ cursor = 1
  /\ forest = NewForest(NodeOrdinals)
  /\ edgeForest = NewForest(EdgeOrdinals)
  /\ nodeOrder = <<>>
  /\ edgeOrder = <<>>
  /\ warnings = {}
  /\ nodes = <<>>
  /\ edges = <<>>
  /\ output = None

NoInputFiles ==
  /\ phase = "start"
  /\ files = <<>>
  /\ phase' = "no_input"
  /\ UNCHANGED <<input, todo, pairs, cursor, forest, edgeForest, orders, results>>

Start ==
  /\ phase = "start"
  /\ files # <<>>
  /\ phase' = "match_nodes"
  /\ todo' = SharedKeys
  /\ UNCHANGED <<input, pairs, cursor, forest, edgeForest, orders, results>>

\* for i in 0..n, for j in i+1..n over the members in the order of the file.
PairsOf(members) == {p \in members \X members : p[1] < p[2]}
FirstPair ==
  CHOOSE p \in pairs : \A q \in pairs : p[1] < q[1] \/ (p[1] = q[1] /\ p[2] <= q[2])

\* The next bucket in the order of the HashMap.
NextBucket(key) ==
  /\ phase = "match_nodes"
  /\ pairs = {}
  /\ todo' = todo \ {key}
  /\ pairs' = PairsOf(Bucket(key))
  /\ UNCHANGED <<input, phase, cursor, forest, edgeForest, orders, results>>

\* Mutant: a common key is taken for a match.
ComparePairByKey ==
  /\ phase = "match_nodes"
  /\ pairs # {}
  /\ forest' = Unite(forest, FirstPair[1], FirstPair[2])
  /\ pairs' = pairs \ {FirstPair}
  /\ UNCHANGED <<input, phase, todo, cursor, edgeForest, orders, results>>

ComparePair ==
  /\ phase = "match_nodes"
  /\ pairs # {}
  /\ forest' = IF NodesMatch(FirstPair[1], FirstPair[2])
                 THEN Unite(forest, FirstPair[1], FirstPair[2]) ELSE forest
  /\ pairs' = pairs \ {FirstPair}
  /\ UNCHANGED <<input, phase, todo, cursor, edgeForest, orders, results>>

\* Mutant: the pass ends with the first bucket.
NodesComparedEarly ==
  /\ phase = "match_nodes"
  /\ pairs = {}
  /\ phase' = "same_as"
  /\ todo' = {}
  /\ UNCHANGED <<input, pairs, cursor, forest, edgeForest, orders, results>>

NodesCompared ==
  /\ phase = "match_nodes"
  /\ pairs = {}
  /\ todo = {}
  /\ phase' = "same_as"
  /\ UNCHANGED <<input, todo, pairs, cursor, forest, edgeForest, orders, results>>

\* Mutant: an edge that is not honoured is looked at again.
ApplySameAsAgain ==
  /\ phase = "same_as"
  /\ cursor \in EdgeOrdinals
  /\ Honoured(cursor)
  /\ cursor' = cursor + 1
  /\ forest' = Unite(forest, Source(cursor), Target(cursor))
  /\ UNCHANGED <<input, phase, todo, pairs, edgeForest, orders, results>>

ApplySameAs ==
  /\ phase = "same_as"
  /\ cursor \in EdgeOrdinals
  /\ cursor' = cursor + 1
  /\ forest' = IF Honoured(cursor)
                 THEN Unite(forest, Source(cursor), Target(cursor)) ELSE forest
  /\ UNCHANGED <<input, phase, todo, pairs, edgeForest, orders, results>>

CheckGroupSizes ==
  /\ phase = "same_as"
  /\ cursor \notin EdgeOrdinals
  /\ warnings' = {r \in Representatives(forest) :
                    Cardinality(ClassOf(forest, r)) > GroupSizeLimit}
  /\ phase' = "order_nodes"
  /\ UNCHANGED <<input, todo, pairs, cursor, forest, edgeForest, orders, nodes, edges, output>>
-----------------------------------------------------------------------------
(* Groups of nodes become nodes.                                           *)

MinText(texts) ==
  IF texts = {} THEN <<>> ELSE CHOOSE t \in texts : \A u \in texts : TextLeq(t, u)

\* Lowest canonical identifier of the group.
GroupKey(f, r) == MinText(UNION {Keys(Node(o).ids) : o \in ClassOf(f, r)})

\* Mutant: groups in the order of their representatives.
GroupLessByOrdinal(f, r, s) == r < s

GroupLess(f, r, s) ==
  \/ TextLess(GroupKey(f, r), GroupKey(f, s))
  \/ GroupKey(f, r) = GroupKey(f, s) /\ r < s

\* Representatives in the order of the output.
GroupOrder(f) == SortedBy(Representatives(f), LAMBDA r, s : GroupLess(f, r, s))

\* Of the identifiers of the members, the first record of each canonical
\* form, in the order of these forms.  A slot is a member and a position.
SlotBefore(p, q) == p[1] < q[1] \/ (p[1] = q[1] /\ p[2] < q[2])

\* Mutant: sorted, but not deduplicated.
MergeIdentifiersKeepAll(members, ids) ==
  LET slots  == UNION {{o} \X DOMAIN ids[o] : o \in members}
      Cid(p) == CanonicalId(ids[p[1]][p[2]])
      order  == SortedBy(slots, LAMBDA p, q :
                  TextLess(Cid(p), Cid(q)) \/ (Cid(p) = Cid(q) /\ SlotBefore(p, q)))
  IN [k \in DOMAIN order |-> ids[order[k][1]][order[k][2]]]

MergeIdentifiers(members, ids) ==
  LET slots  == UNION {{o} \X DOMAIN ids[o] : o \in members}
      Cid(p) == CanonicalId(ids[p[1]][p[2]])
      firsts == {p \in slots : \A q \in slots : SlotBefore(q, p) => Cid(q) # Cid(p)}
      order  == SortedBy(firsts, LAMBDA p, q : TextLess(Cid(p), Cid(q)))
  IN [k \in DOMAIN order |-> ids[order[k][1]][order[k][2]]]

\* The values of a scalar in a group, each with the file it comes from.
ValuesSeen(members, field) ==
  {[value |-> Node(o).scalars[field], file |-> allNodes[o].file] :
     o \in {m \in members : Node(m).scalars[field] # None}}

Agreed(members, field) ==
  \A v, w \in ValuesSeen(members, field) : v.value = w.value

MergeScalar(members, field) ==
  IF ValuesSeen(members, field) # {} /\ Agreed(members, field)
    THEN (CHOOSE v \in ValuesSeen(members, field) : TRUE).value ELSE None

\* Mutant: the entries of a conflict are deduplicated by their file alone.
ConflictsPerFile(members) ==
  {[field |-> field,
    values |-> {v \in ValuesSeen(members, field) :
                  \A w \in ValuesSeen(members, field) :
                    w.file = v.file => v.value <= w.value}] :
     field \in {s \in Scalars : ~Agreed(members, s)}}

Conflicts(members) ==
  {[field |-> field, values |-> ValuesSeen(members, field)] :
     field \in {s \in Scalars : ~Agreed(members, s)}}

MergedNode(members, id) ==
  LET first == Node(Min(members))
  IN [id        |-> id,
      type      |-> first.type,
      ids       |-> MergeIdentifiers(members, [o \in members |-> Node(o).ids]),
      labels    |-> UNION {Node(o).labels : o \in members},
      scalars   |-> [s \in Scalars |-> MergeScalar(members, s)],
      conflicts |-> Conflicts(members),
      operator  |-> first.operator,
      carried   |-> first.carried]

MergedNodes(f, ord) ==
  [k \in DOMAIN ord |-> MergedNode(ClassOf(f, ord[k]), k - 1)]

\* rep_to_new_id
NewId(f, ord, o) == Position(ord, f.rep[o]) - 1

OrderNodes ==
  /\ phase = "order_nodes"
  /\ nodeOrder' = GroupOrder(forest)
  /\ phase' = "build_nodes"
  /\ UNCHANGED <<input, todo, pairs, cursor, forest, edgeForest, edgeOrder, results>>

\* Key of the edge candidate index; same_as and dangling edges have none.
HasEdgeKey(e) == Edge(e).type # "same_as" /\ Resolves(e)
EdgeKey(f, e) == <<f.rep[Source(e)], f.rep[Target(e)], Edge(e).type>>
EdgeBucket(key) == {e \in EdgeOrdinals : HasEdgeKey(e) /\ EdgeKey(forest, e) = key}

BuildNodes ==
  /\ phase = "build_nodes"
  /\ nodes' = MergedNodes(forest, nodeOrder)
  /\ phase' = "match_edges"
  /\ todo' = {key \in {EdgeKey(forest, e) : e \in {d \in EdgeOrdinals : HasEdgeKey(d)}} :
                Cardinality(EdgeBucket(key)) > 1}
  /\ UNCHANGED <<input, pairs, cursor, forest, edgeForest, orders, warnings, edges, output>>
-----------------------------------------------------------------------------
(* Edges that say the same become one.                                     *)

NextEdgeBucket(key) ==
  /\ phase = "match_edges"
  /\ pairs = {}
  /\ todo' = todo \ {key}
  /\ pairs' = PairsOf(EdgeBucket(key))
  /\ UNCHANGED <<input, phase, cursor, forest, edgeForest, orders, results>>

\* Mutant: only the first pair of a bucket is compared.
CompareFirstEdges ==
  /\ phase = "match_edges"
  /\ pairs # {}
  /\ edgeForest' = IF EdgesMatch(Edge(FirstPair[1]), Edge(FirstPair[2]))
                     THEN Unite(edgeForest, FirstPair[1], FirstPair[2])
                     ELSE edgeForest
  /\ pairs' = {}
  /\ UNCHANGED <<input, phase, todo, cursor, forest, orders, results>>

CompareEdges ==
  /\ phase = "match_edges"
  /\ pairs # {}
  /\ edgeForest' = IF EdgesMatch(Edge(FirstPair[1]), Edge(FirstPair[2]))
                     THEN Unite(edgeForest, FirstPair[1], FirstPair[2])
                     ELSE edgeForest
  /\ pairs' = pairs \ {FirstPair}
  /\ UNCHANGED <<input, phase, todo, cursor, forest, orders, results>>

\* Fields of EdgeProperties; any other name is in its extra map.
TypedProperties ==
  {"data_quality", "valid_from", "valid_to", "percentage", "direct",
   "control_type", "consolidation_basis", "event_type", "effective_date",
   "description", "commodity", "contract_ref", "volume", "volume_unit",
   "annual_value", "value_currency", "tier", "share_of_buyer_demand",
   "service_type", "quantity", "unit", "scope"}

EdgeGroupKey(f, r) ==
  LET members == ClassOf(edgeForest, r)
      first   == Min(members)
      EndKey(Point(_)) == IF Candidates(first, Point(Edge(first))) = {} THEN <<>>
        ELSE GroupKey(f, f.rep[Max(Candidates(first, Point(Edge(first))))])
      CidsOf(e) == {CanonicalId(External(Edge(e).ids)[i]) :
                      i \in DOMAIN External(Edge(e).ids)}
  IN <<EndKey(LAMBDA e : e.source), EndKey(LAMBDA e : e.target),
       <<Position(EdgeTypeOrder, Edge(first).type)>>,
       MinText(UNION {CidsOf(e) : e \in members}), <<r>>>>

\* Lexicographic order of these keys.
KeyLess(k1, k2) ==
  \E i \in DOMAIN k1 :
    TextLess(k1[i], k2[i]) /\ \A j \in 1 .. i - 1 : k1[j] = k2[j]

EdgeGroupOrder(f) ==
  LET key == [r \in Representatives(edgeForest) |-> EdgeGroupKey(f, r)]
  IN SortedBy(Representatives(edgeForest), LAMBDA r, s : KeyLess(key[r], key[s]))

\* A same_as edge is kept as it is; of a group of others the first member
\* gives the properties and nothing of the extra maps is kept.
RewrittenEdge(f, ord, e) ==
  [Edge(e) EXCEPT !.source = NewId(f, ord, Source(e)),
                  !.target = NewId(f, ord, Target(e))]

MergedEdge(f, ord, members) ==
  LET first == Edge(Min(members)) IN
  IF first.type = "same_as" THEN RewrittenEdge(f, ord, Min(members))
  ELSE [RewrittenEdge(f, ord, Min(members)) EXCEPT
          !.ids    = MergeIdentifiers(members, [e \in members |-> Edge(e).ids]),
          !.labels = UNION {Edge(e).labels : e \in members},
          !.props  = Restrict(first.props, DOMAIN first.props \cap TypedProperties),
          !.extra  = NoProperties]

\* Dangling edges are dropped.
MergedEdges(f, ord, eord) ==
  LET kept == Picked(eord, {k \in DOMAIN eord : Resolves(Min(ClassOf(edgeForest, eord[k])))})
  IN [k \in DOMAIN kept |->
        [MergedEdge(f, ord, ClassOf(edgeForest, kept[k])) EXCEPT !.id = k - 1]]

OrderEdges ==
  /\ phase = "match_edges"
  /\ pairs = {}
  /\ todo = {}
  /\ edgeOrder' = EdgeGroupOrder(forest)
  /\ phase' = "build_edges"
  /\ UNCHANGED <<input, todo, pairs, cursor, forest, edgeForest, nodeOrder, results>>

BuildEdges ==
  /\ phase = "build_edges"
  /\ edges' = MergedEdges(forest, nodeOrder, edgeOrder)
  /\ phase' = "finish"
  /\ UNCHANGED <<input, todo, pairs, cursor, forest, edgeForest, orders,
                 warnings, nodes, output>>
-----------------------------------------------------------------------------
(* The header, and validation of the result.                               *)

ReportingEntities ==
  {files[f].reporting : f \in DOMAIN files} \ {None}

MergedFile ==
  [nodes     |-> nodes,
   edges     |-> edges,
   reporting |-> IF Cardinality(ReportingEntities) = 1
                   THEN CHOOSE r \in ReportingEntities : TRUE ELSE None,
   scope     |-> None,
   date      |-> Max({files[f].date : f \in DOMAIN files})]

\* The random generator that makes the file salt is not available.
SaltFails ==
  /\ phase = "finish"
  /\ phase' = "salt_failed"
  /\ UNCHANGED <<input, todo, pairs, cursor, forest, edgeForest, orders, results>>

Accept ==
  /\ phase = "finish"
  /\ L1Valid(MergedFile)
  /\ output' = MergedFile
  /\ phase' = "done"
  /\ UNCHANGED <<input, todo, pairs, cursor, forest, edgeForest, orders, warnings, nodes, edges>>

\* PostMergeValidationFailed
Reject ==
  /\ phase = "finish"
  /\ ~L1Valid(MergedFile)
  /\ phase' = "invalid"
  /\ UNCHANGED <<input, todo, pairs, cursor, forest, edgeForest, orders, results>>

Final == {"done", "invalid", "salt_failed", "no_input"}

MatchNodes ==
  (\E key \in todo : NextBucket(key)) \/ ComparePair \/ NodesCompared
MatchEdges ==
  (\E key \in todo : NextEdgeBucket(key)) \/ CompareEdges
Assemble == \/ CheckGroupSizes \/ OrderNodes \/ BuildNodes
            \/ OrderEdges \/ BuildEdges
Finish == SaltFails \/ Accept \/ Reject

Next == \/ NoInputFiles \/ Start \/ MatchNodes \/ ApplySameAs
        \/ MatchEdges \/ Assemble \/ Finish

Spec == Init /\ [][Next]_vars
\* The function runs to its end once it is called.  Every step changes one of
\* the variables in `control'.
control == <<phase, todo, pairs, cursor>>
FairSpec == Spec /\ WF_control(Next)
-----------------------------------------------------------------------------
(* Every variable has its type; the buckets hold ordinals of the right     *)
(* kind, and both union-finds name a member of the class of each ordinal.  *)
Phases == Final \cup {"start", "match_nodes", "same_as", "order_nodes",
                      "build_nodes", "match_edges", "build_edges", "finish"}

TypeOK ==
  /\ phase \in Phases
  /\ cursor \in Nat \ {0}
  /\ ForestOK(forest, NodeOrdinals)
  /\ ForestOK(edgeForest, EdgeOrdinals)
  /\ pairs \subseteq IF phase = "match_nodes" THEN NodeOrdinals \X NodeOrdinals
                     ELSE EdgeOrdinals \X EdgeOrdinals
  /\ warnings \subseteq NodeOrdinals
  /\ output # None => L1Valid(output)

(* Two records denote one entity when they share an indexed identifier and *)
(* match, or when an honoured same_as edge joins them.                     *)
Linked(a, b) ==
  /\ Keys(Node(a).ids) \cap Keys(Node(b).ids) # {}
  /\ NodesMatch(a, b)

Links ==
  {p \in NodeOrdinals \X NodeOrdinals : p[1] < p[2] /\ Linked(p[1], p[2])}
    \cup {<<Source(e), Target(e)>> : e \in {d \in EdgeOrdinals : Honoured(d)}}

(* The pipeline implements entity resolution: it unites two groups only    *)
(* along a link, and leaves no link between two groups when it ends.       *)
Resolution == INSTANCE EntityResolution WITH
  records <- NodeOrdinals,
  links   <- Links,
  classes <- {ClassOf(forest, r) : r \in Representatives(forest)},
  outcome <- CASE phase = "done" -> "published"
               [] phase \in Final \ {"done"} -> "rejected"
               [] OTHER -> "open"
ResolutionSpec == Resolution!Spec
ResolutionFairSpec == Resolution!FairSpec

(* A call of merge returns: with a file or with an error.                  *)
MergeReturns == <>(phase \in Final)

\* The output node that stands for a node of the input.
Merged(o) == nodes[NewId(forest, nodeOrder, o) + 1]

Accepted == phase = "done"

\* The nodes of the input that the k-th output node stands for.
MembersOf(k) == {o \in NodeOrdinals : NewId(forest, nodeOrder, o) = k - 1}

(* The output node n has its type, identifiers, labels and scalars from    *)
(* its members: a scalar that is set is undisputed among them, and each    *)
(* value of a conflict is one a member has, with the file of that member.  *)
TakenFrom(n, members) ==
  /\ \E o \in members : n.type = Node(o).type
  /\ \A k \in DOMAIN n.ids : \E o \in members : \E i \in DOMAIN Node(o).ids : n.ids[k] = Node(o).ids[i]
  /\ n.labels \subseteq UNION {Node(o).labels : o \in members}
  /\ \A s \in Scalars : n.scalars[s] # None =>
       /\ \E o \in members : Node(o).scalars[s] = n.scalars[s]
       /\ \A o \in members : Node(o).scalars[s] \in {None, n.scalars[s]}
  /\ \A c \in n.conflicts : \A v \in c.values : \E o \in members :
       v = [value |-> Node(o).scalars[c.field], file |-> allNodes[o].file]

(* Of identifiers, labels and scalars nothing is lost and nothing made up: *)
(* of each identifier of a node exactly one record with its canonical form *)
(* is in the merged node, its labels are there, the value of each scalar   *)
(* is kept or recorded as a conflict with its file, and what a merged node *)
(* says of these, and its type, some node it stands for has said.          *)
NodeFactsKept ==
  Accepted =>
    /\ \A o \in NodeOrdinals :
         /\ \A i \in DOMAIN Node(o).ids :
              Cardinality({k \in DOMAIN Merged(o).ids :
                 CanonicalId(Merged(o).ids[k]) = CanonicalId(Node(o).ids[i])}) = 1
         /\ Node(o).labels \subseteq Merged(o).labels
         /\ \A s \in Scalars :
              \/ Node(o).scalars[s] \in {None, Merged(o).scalars[s]}
              \/ \E c \in Merged(o).conflicts :
                   /\ c.field = s
                   /\ [value |-> Node(o).scalars[s], file |-> allNodes[o].file] \in c.values
    /\ \A k \in DOMAIN nodes : TakenFrom(nodes[k], MembersOf(k))

\* The output edge d says all that identifies the edge e of the input.
Represents(d, e) ==
  /\ d.type = Edge(e).type
  /\ d.source = NewId(forest, nodeOrder, Source(e))
  /\ d.target = NewId(forest, nodeOrder, Target(e))
  /\ \A i \in DOMAIN Edge(e).ids : \E k \in DOMAIN d.ids :
       CanonicalId(d.ids[k]) = CanonicalId(Edge(e).ids[i])
  /\ External(Edge(e).ids) = <<>> =>
       \A name \in IdentityProperties(d.type) :
         Property(d.props, name) = Property(Edge(e).props, name)

(* No edge with both end points is lost and none is invented: it is        *)
(* represented between the merged nodes of its end points, and every       *)
(* output edge represents one.  Edges that lead nowhere are dropped.       *)
EdgeFactsKept ==
  Accepted =>
    /\ \A e \in EdgeOrdinals : Resolves(e) =>
         \E k \in DOMAIN edges : Represents(edges[k], e)
    /\ \A k \in DOMAIN edges :
         \E e \in EdgeOrdinals : Resolves(e) /\ Represents(edges[k], e)

(* Deduplication is complete: no two output edges without external         *)
(* identifiers, same_as aside, are the same relationship.                  *)
EdgesDistinct ==
  Accepted => \A j, k \in DOMAIN edges :
    /\ edges[j].source = edges[k].source
    /\ edges[j].target = edges[k].target
    /\ External(edges[j].ids) = <<>> /\ External(edges[k].ids) = <<>>
    /\ EdgesMatch(edges[j], edges[k])
    => j = k

(* Valid files give a valid file, with three exceptions: the reporting     *)
(* entity keeps its old id, a group can mix node types, and a group can    *)
(* hold boundary references with different opaque identifiers.             *)
MixedTypes ==
  \E o, m \in NodeOrdinals :
    forest.rep[o] = forest.rep[m] /\ Node(o).type # Node(m).type
MixedBoundaries ==
  \E o, m \in NodeOrdinals :
    /\ forest.rep[o] = forest.rep[m]
    /\ Node(o).type = "boundary_ref"
    /\ Keys(Node(o).ids) # Keys(Node(m).ids)
OnlyForeseenRejections ==
  phase = "invalid" =>
    \/ \E f \in DOMAIN files : ~L1Valid(files[f])
    \/ Cardinality(ReportingEntities) = 1
    \/ MixedTypes
    \/ MixedBoundaries

\* The forest in which the lowest ordinal of each class is representative.
Lowest(f) ==
  [rep |-> [o \in DOMAIN f.rep |-> Min(ClassOf(f, f.rep[o]))], rank |-> f.rank]

GroupKeysTellApart ==
  \A r, s \in Representatives(forest) :
    r # s /\ GroupKey(forest, r) = GroupKey(forest, s) =>
      ClassOf(forest, r) = {r} /\ ClassOf(forest, s) = {s}

(* The output does not depend on which member represents a group, hence    *)
(* not on the order in which the HashMap yields the buckets, when groups   *)
(* with the same lowest identifier are single nodes.                       *)
OutputIndependentOfBucketOrder ==
  phase \in {"finish", "done"} /\ GroupKeysTellApart =>
    LET low == Lowest(forest) IN
      /\ nodes = MergedNodes(low, GroupOrder(low))
      /\ edges = MergedEdges(low, GroupOrder(low), EdgeGroupOrder(low))
=============================================================================
