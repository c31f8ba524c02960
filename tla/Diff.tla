-------------------------------- MODULE Diff --------------------------------
(***************************************************************************)
(* diff_filtered of omts-core (diff/engine.rs, matching.rs, props.rs,      *)
(* compare.rs) and the command `omts diff': two files are compared, nodes  *)
(* by identifiers first and by id afterwards, edges by the groups of their *)
(* end points.  The shared identifiers are visited in the order of a       *)
(* HashMap, that is, in any order; edges of the second file one by one.    *)
(*                                                                         *)
(* A node is [id, type, ids, labels, props, quality], an edge has source   *)
(* and target besides.  The value of a property is <<meaning, spelling>>:  *)
(* 2026-2-9 and 2026-02-09, or 51 and 51.0, have one meaning.  quality is  *)
(* None or the fields of data_quality under their full names.              *)
(*                                                                         *)
(* Once a comparison is done, the files may be compared the other way.     *)
(***************************************************************************)
EXTENDS Identity, RepForest

CONSTANT Inputs   \* records [a, b, filter]

\* What the parser has made sure of: fields that are present have a value.
Typed(x) ==
  /\ HasIdentifiers(x)
  /\ \A i \in DOMAIN x.ids :
       x.ids[i].from \in Int \cup {None} /\ x.ids[i].to \in Int \cup {None, Open}
  /\ \A name \in DOMAIN x.props : x.props[name] # None
  /\ x.quality # None => \A name \in DOMAIN x.quality : x.quality[name] # None
Parsed(file) ==
  /\ IsSequence(file.nodes) /\ \A i \in DOMAIN file.nodes : Typed(file.nodes[i])
  /\ IsSequence(file.edges) /\ \A i \in DOMAIN file.edges : Typed(file.edges[i])

ASSUME DiffAssumption ==
  /\ None \notin Int /\ Open \notin Int
  /\ \A input \in Inputs : Parsed(input.a) /\ Parsed(input.b)

VARIABLES
  a, b,      \* the files, each with its version, nodes and edges
  filter,    \* node types, edge types (none: all of them), ignored fields
  stage,     \* "nodes", "edges" or "done"
  pending,   \* shared canonical identifiers that have not been visited
  forest,    \* union-find over the nodes of a, then those of b
  by,        \* pair_matched_by: the pairs found and what for
  nodes,     \* the match of the nodes
  cursor,    \* next edge of b
  edges,     \* the match of the edges
  exit,      \* exit code of the command, None before
  before     \* result of the comparison the other way, None at first

vars == <<a, b, filter, stage, pending, forest, by, nodes, cursor, edges, exit, before>>

-----------------------------------------------------------------------------
(* compare.rs and props.rs                                                 *)

SameValue(v, w) == IF None \in {v, w} THEN v = w ELSE v[1] = w[1]

ChangedFields(f, g) ==
  {name \in DOMAIN f \cup DOMAIN g : ~SameValue(Property(f, name), Property(g, name))}

\* The whole object counts as one field when one side has none.
QualityChanges(x, y) ==
  IF None \in {x.quality, y.quality}
    THEN IF x.quality = y.quality THEN {} ELSE {"data_quality"}
    ELSE ChangedFields(x.quality, y.quality)

PropertyChanges(x, y) ==
  (ChangedFields(x.props, y.props) \ filter.ignore)
    \cup (IF "data_quality" \in filter.ignore THEN {}
          ELSE QualityChanges(x, y) \ filter.ignore)

ExternalKeys(ids) == LET ext == External(ids) IN {CanonicalId(ext[k]) : k \in DOMAIN ext}
\* Of several records with one canonical string the last counts.
RecordOf(ids, key) ==
  LET at == {k \in DOMAIN ids : ids[k].scheme # "internal" /\ CanonicalId(ids[k]) = key}
  IN ids[CHOOSE k \in at : \A l \in at : l <= k]

\* Mutant: records that both sides have are taken to be the same.
IdentifierKeysChanged(x, y) ==
  (ExternalKeys(x.ids) \ ExternalKeys(y.ids)) \cup (ExternalKeys(y.ids) \ ExternalKeys(x.ids))

\* Canonical strings of the identifiers added, removed or modified.
IdentifierChanges(x, y) ==
  LET inX == ExternalKeys(x.ids)
      inY == ExternalKeys(y.ids)
  IN (inX \ inY) \cup (inY \ inX)
       \cup {key \in inX \cap inY : RecordOf(x.ids, key) # RecordOf(y.ids, key)}

\* Mutant: labels that were added are not changes.
LabelsRemoved(x, y) == x.labels \ y.labels

LabelChanges(x, y) == (x.labels \ y.labels) \cup (y.labels \ x.labels)

IsModified(x, y) ==
  \/ PropertyChanges(x, y) # {}
  \/ IdentifierChanges(x, y) # {}
  \/ LabelChanges(x, y) # {}

-----------------------------------------------------------------------------
(* match_nodes                                                             *)

Allowed(types, type) == types = {} \/ type \in types

Active(file) ==
  {i \in DOMAIN file.nodes : Allowed(filter.nodeTypes, file.nodes[i].type)}
Ordinal(j) == Len(a.nodes) + j

SharedKeys(x, y) ==
  LET KeysOf(file) == UNION {ExternalKeys(file.nodes[i].ids) : i \in DOMAIN file.nodes}
  IN KeysOf(x) \cap KeysOf(y)

\* Some record of the first node with this key matches any of the second.
FoundBy(key, i, j) ==
  /\ i \in Active(a) /\ key \in ExternalKeys(a.nodes[i].ids)
  /\ j \in Active(b) /\ key \in ExternalKeys(b.nodes[j].ids)
  /\ \E k \in DOMAIN a.nodes[i].ids :
       /\ CanonicalId(a.nodes[i].ids[k]) = key
       /\ AnyMatch(<<a.nodes[i].ids[k]>>, b.nodes[j].ids)

PairLess(p, q) == p[1] < q[1] \/ (p[1] = q[1] /\ p[2] < q[2])

\* The forest after the pairs have been united, in order.
UniteAll(f, pairs) ==
  LET order == SortedBy(pairs, PairLess)
      after[k \in 0 .. Len(order)] ==
        IF k = 0 THEN f ELSE Unite(after[k - 1], order[k][1], Ordinal(order[k][2]))
  IN after[Len(order)]

\* What each of the pairs was found by, one more thing for some of them.
Noted(pairs, what) ==
  [p \in DOMAIN by \cup pairs |->
     (IF p \in DOMAIN by THEN by[p] ELSE {}) \cup (IF p \in pairs THEN {what} ELSE {})]

VisitKey(key) ==
  LET pairs == {p \in (DOMAIN a.nodes) \X (DOMAIN b.nodes) : FoundBy(key, p[1], p[2])}
  IN /\ stage = "nodes"
     /\ pending' = pending \ {key}
     /\ forest' = UniteAll(forest, pairs)
     /\ by' = Noted(pairs, key)
     /\ UNCHANGED <<a, b, filter, stage, nodes, cursor, edges, exit, before>>

LeftA == Active(a) \ {p[1] : p \in DOMAIN by}
LeftB == Active(b) \ {p[2] : p \in DOMAIN by}
Ids(file, indices) == {file.nodes[i].id : i \in indices}

\* The node of b that an id stands for is the one a HashSet yields last.
FallbackChoices ==
  {w \in [Ids(b, LeftB) -> LeftB] : \A id \in DOMAIN w : b.nodes[w[id]].id = id}

Classified(f) ==
  LET matched == {p \in Active(a) \X Active(b) : f.rep[p[1]] = f.rep[Ordinal(p[2])]}
      Group(p) == {q \in matched : f.rep[q[1]] = f.rep[p[1]]}
  IN [matched   |-> matched,
      removed   |-> Active(a) \ {p[1] : p \in matched},
      added     |-> Active(b) \ {p[2] : p \in matched},
      ambiguous |-> {Group(p) : p \in {q \in matched : Cardinality(Group(q)) > 1}}]

\* Mutant: nodes that identifiers have matched take part once more.
MatchRestById ==
  LET pairs == {p \in Active(a) \X Active(b) : a.nodes[p[1]].id = b.nodes[p[2]].id}
  IN /\ stage = "nodes" /\ pending = {}
     /\ stage' = "edges"
     /\ forest' = UniteAll(forest, pairs)
     /\ by' = Noted(pairs, <<"node-id">>)
     /\ nodes' = Classified(forest')
     /\ UNCHANGED <<a, b, filter, pending, cursor, edges, exit, before>>

\* Nodes that no identifier has matched are paired by id, then all of them
\* are classified by group.
MatchRest ==
  /\ stage = "nodes" /\ pending = {}
  /\ stage' = "edges"
  /\ \E w \in FallbackChoices :
       LET pairs == {<<i, w[a.nodes[i].id]>> : i \in {k \in LeftA : a.nodes[k].id \in DOMAIN w}}
       IN /\ forest' = UniteAll(forest, pairs)
          /\ by' = Noted(pairs, <<"node-id">>)
  /\ nodes' = Classified(forest')
  /\ UNCHANGED <<a, b, filter, pending, cursor, edges, exit, before>>

-----------------------------------------------------------------------------
(* match_edges                                                             *)

WithId(file, id) == {i \in DOMAIN file.nodes : file.nodes[i].id = id}
Last(S) == CHOOSE i \in S : \A j \in S : j <= i

\* build_node_rep_map: one map for both files, the ids of b written last.
\* Uniting the matched pairs anew yields the classes of the forest.
RepOf(id) ==
  IF WithId(b, id) # {} THEN forest.rep[Ordinal(Last(WithId(b, id)))]
  ELSE IF WithId(a, id) # {} THEN forest.rep[Last(WithId(a, id))]
  ELSE None

\* Unknown end points do not pass a filter on node types.
EndAllowed(id) ==
  \/ filter.nodeTypes = {}
  \/ IF WithId(a, id) # {} THEN a.nodes[Last(WithId(a, id))].type \in filter.nodeTypes
     ELSE /\ WithId(b, id) # {}
          /\ b.nodes[Last(WithId(b, id))].type \in filter.nodeTypes

EdgeActive(e) ==
  /\ Allowed(filter.edgeTypes, e.type)
  /\ EndAllowed(e.source) /\ EndAllowed(e.target)

\* Mutant: the end points of the edge are not told apart.
SameEnds(d, e) ==
  /\ {RepOf(d.source), RepOf(d.target)} \cap {None} = {}
  /\ {RepOf(d.source), RepOf(d.target)} = {RepOf(e.source), RepOf(e.target)}
  /\ d.type = e.type

SameBucket(d, e) ==
  /\ {RepOf(d.source), RepOf(d.target)} \cap {None} = {}
  /\ RepOf(d.source) = RepOf(e.source)
  /\ RepOf(d.target) = RepOf(e.target)
  /\ d.type = e.type

\* Mutant: edges that are already paired are not passed over.
CandidatesTwice(e) ==
  {i \in DOMAIN a.edges : /\ EdgeActive(a.edges[i]) /\ SameBucket(a.edges[i], e)
                          /\ EdgesMatch(a.edges[i], e)}

Candidates(e) ==
  {i \in DOMAIN a.edges :
     /\ EdgeActive(a.edges[i])
     /\ i \notin {p[1] : p \in edges.matched}
     /\ SameBucket(a.edges[i], e)
     /\ EdgesMatch(a.edges[i], e)}

AtEdge == stage = "edges" /\ cursor \in DOMAIN b.edges

SkipEdge ==
  /\ AtEdge
  /\ ~EdgeActive(b.edges[cursor])
  /\ cursor' = cursor + 1
  /\ UNCHANGED <<a, b, filter, stage, pending, forest, by, nodes, edges, exit, before>>

\* The first edge of a that matches.
PairEdge ==
  /\ AtEdge
  /\ EdgeActive(b.edges[cursor])
  /\ Candidates(b.edges[cursor]) # {}
  /\ \E i \in Candidates(b.edges[cursor]) :
       /\ \A k \in Candidates(b.edges[cursor]) : i <= k
       /\ edges' = [edges EXCEPT !.matched = @ \cup {<<i, cursor>>}]
  /\ cursor' = cursor + 1
  /\ UNCHANGED <<a, b, filter, stage, pending, forest, by, nodes, exit, before>>

AddEdge ==
  /\ AtEdge
  /\ EdgeActive(b.edges[cursor])
  /\ Candidates(b.edges[cursor]) = {}
  /\ edges' = [edges EXCEPT !.added = @ \cup {cursor}]
  /\ cursor' = cursor + 1
  /\ UNCHANGED <<a, b, filter, stage, pending, forest, by, nodes, exit, before>>

-----------------------------------------------------------------------------
(* diff_filtered and the command.                                          *)

RemovedEdges ==
  {i \in DOMAIN a.edges : EdgeActive(a.edges[i])} \ {p[1] : p \in edges.matched}

\* DiffResult
Result ==
  [nodesRemoved  |-> nodes.removed,
   nodesAdded    |-> nodes.added,
   nodesMatched  |-> nodes.matched,
   nodesModified |-> {p \in nodes.matched : IsModified(a.nodes[p[1]], b.nodes[p[2]])},
   edgesRemoved  |-> RemovedEdges,
   edgesAdded    |-> edges.added,
   edgesMatched  |-> edges.matched,
   edgesModified |-> {p \in edges.matched : IsModified(a.edges[p[1]], b.edges[p[2]])}]

IsEmpty(r) ==
  /\ r.nodesRemoved = {} /\ r.nodesAdded = {} /\ r.nodesModified = {}
  /\ r.edgesRemoved = {} /\ r.edgesAdded = {} /\ r.edgesModified = {}

\* The exit code is the same whatever the format of the report.
Finish ==
  /\ stage = "edges" /\ cursor \notin DOMAIN b.edges
  /\ stage' = "done"
  /\ exit' = IF IsEmpty(Result) THEN 0 ELSE 1
  /\ UNCHANGED <<a, b, filter, pending, forest, by, nodes, cursor, edges, before>>

NoNodes == [matched |-> {}, removed |-> {}, added |-> {}, ambiguous |-> {}]
NoEdges == [matched |-> {}, added |-> {}]
NoPairs == [p \in {} |-> {}]

Init ==
  /\ \E input \in Inputs :
       /\ a = input.a /\ b = input.b /\ filter = input.filter
  /\ stage = "nodes"
  /\ pending = SharedKeys(a, b)
  /\ forest = NewForest(1 .. Len(a.nodes) + Len(b.nodes))
  /\ by = NoPairs /\ nodes = NoNodes
  /\ cursor = 1 /\ edges = NoEdges
  /\ exit = None /\ before = None

\* The same files the other way around.
Reverse ==
  /\ stage = "done" /\ before = None
  /\ before' = Result
  /\ a' = b /\ b' = a
  /\ stage' = "nodes"
  /\ pending' = SharedKeys(a', b')
  /\ forest' = NewForest(1 .. Len(a'.nodes) + Len(b'.nodes))
  /\ by' = NoPairs /\ nodes' = NoNodes
  /\ cursor' = 1 /\ edges' = NoEdges
  /\ exit' = None
  /\ UNCHANGED filter

Next ==
  \/ \E key \in pending : VisitKey(key)
  \/ MatchRest
  \/ SkipEdge \/ PairEdge \/ AddEdge
  \/ Finish
  \/ Reverse

Spec == Init /\ [][Next]_vars
-----------------------------------------------------------------------------
(* Every variable has its type, and every active node and edge that has    *)
(* been looked at is either matched or reported as added or removed.       *)
TypeOK ==
  /\ stage \in {"nodes", "edges", "done"} /\ exit \in {None, 0, 1}
  /\ pending \subseteq SharedKeys(a, b)
  /\ DOMAIN by \subseteq Active(a) \X Active(b)
  /\ DOMAIN forest.rep = 1 .. Len(a.nodes) + Len(b.nodes)
  /\ stage # "nodes" =>
       /\ DOMAIN by \subseteq nodes.matched
       /\ Active(a) = nodes.removed \cup {p[1] : p \in nodes.matched}
       /\ Active(b) = nodes.added \cup {p[2] : p \in nodes.matched}
  /\ \A j \in 1 .. cursor - 1 : EdgeActive(b.edges[j]) =>
       Cardinality({p \in edges.matched : p[2] = j}) = IF j \in edges.added THEN 0 ELSE 1
  /\ \A p, q \in edges.matched : p[1] = q[1] => p = q

RecordsOf(x) == LET ext == External(x.ids) IN {ext[k] : k \in DOMAIN ext}

UniqueIds(file) == Cardinality(Ids(file, DOMAIN file.nodes)) = Len(file.nodes)

\* Nodes that an identifier links: both have it, and a record of the first
\* that says so matches some record of the second.
Identified ==
  {p \in Active(a) \X Active(b) :
     \E x \in RecordsOf(a.nodes[p[1]]) :
       /\ CanonicalId(x) \in ExternalKeys(b.nodes[p[2]].ids)
       /\ AnyMatch(<<x>>, b.nodes[p[2]].ids)}
\* The links of the definition: identifiers, or the same id where they are
\* silent about both nodes.
Links ==
  LET found == Identified
      onA == {p[1] : p \in found}
      onB == {p[2] : p \in found}
  IN found \cup {p \in (Active(a) \ onA) \X (Active(b) \ onB) :
                   a.nodes[p[1]].id = b.nodes[p[2]].id}

(* Whatever order the shared identifiers are visited in, two nodes are     *)
(* reported as a pair exactly when a chain of shared identifiers, or of    *)
(* equal ids where nothing else is known, connects them.                   *)
PairsAreChains ==
  stage = "edges" /\ cursor = 1 /\ UniqueIds(a) /\ UniqueIds(b) =>
    LET links  == Links
        closed == {S \in SUBSET DOMAIN forest.rep :
                     \A p \in links : p[1] \in S <=> Ordinal(p[2]) \in S}
        Connected(p) == \A S \in closed : p[1] \in S => Ordinal(p[2]) \in S
    IN \A p \in Active(a) \X Active(b) : p \in nodes.matched <=> Connected(p)

\* The two files use no id for nodes that are not the same.
NoIdReused ==
  /\ UniqueIds(a) /\ UniqueIds(b)
  /\ \A i \in DOMAIN a.nodes, j \in DOMAIN b.nodes :
       a.nodes[i].id = b.nodes[j].id => <<i, j>> \in nodes.matched

\* The ends with these ids, in their own files, are a matched pair of nodes.
SameGroup(idA, idB) ==
  \E p \in nodes.matched : a.nodes[p[1]].id = idA /\ b.nodes[p[2]].id = idB

EdgesJoinMatchedNodes ==
  \A p \in edges.matched :
    /\ SameGroup(a.edges[p[1]].source, b.edges[p[2]].source)
    /\ SameGroup(a.edges[p[1]].target, b.edges[p[2]].target)

\* Edges join nodes of their own file; the command does not insist.
EndsExist(file) ==
  \A k \in DOMAIN file.edges :
    {file.edges[k].source, file.edges[k].target} \subseteq Ids(file, DOMAIN file.nodes)

(* Edges are paired only when the nodes they join are, as long as the two  *)
(* files do not use one id for different nodes and no edge leads nowhere.  *)
PairedEdgesJoinPairedNodes ==
  NoIdReused /\ EndsExist(a) /\ EndsExist(b) => EdgesJoinMatchedNodes

\* Records of a node or an edge that have one canonical string are one record.
OneRecordPerKey(x) == Cardinality(ExternalKeys(x.ids)) = Len(External(x.ids))

Meaning(f) == [name \in DOMAIN f |-> f[name][1]]
SameContent(x, y) ==
  /\ Meaning(x.props) = Meaning(y.props)
  /\ IF None \in {x.quality, y.quality} THEN x.quality = y.quality
     ELSE Meaning(x.quality) = Meaning(y.quality)
  /\ RecordsOf(x) = RecordsOf(y)
  /\ x.labels = y.labels

(* Exit code 0 without a filter means that the files say the same: every   *)
(* node and every edge of one has its like in the other.  Types of nodes   *)
(* and internal identifiers are not compared.                              *)
SilenceMeansSameContent ==
  /\ exit = 0
  /\ filter = [nodeTypes |-> {}, edgeTypes |-> {}, ignore |-> {}]
  /\ \A file \in {a, b} :
       /\ \A i \in DOMAIN file.nodes : OneRecordPerKey(file.nodes[i])
       /\ \A i \in DOMAIN file.edges : OneRecordPerKey(file.edges[i])
  => /\ \A i \in DOMAIN a.nodes : \E j \in DOMAIN b.nodes : SameContent(a.nodes[i], b.nodes[j])
     /\ \A j \in DOMAIN b.nodes : \E i \in DOMAIN a.nodes : SameContent(a.nodes[i], b.nodes[j])
     /\ Len(a.edges) = Len(b.edges)
     /\ \A i \in DOMAIN a.edges : \E j \in DOMAIN b.edges :
          /\ SameContent(a.edges[i], b.edges[j])
          /\ a.edges[i].type = b.edges[j].type

\* No identifier is said to have ended before it began.
PeriodsOrdered(x) ==
  \A i \in DOMAIN x.ids : ~IntervalsDisjoint(x.ids[i].to, x.ids[i].from)

\* An edge that can be paired with itself.
Pairable(e) ==
  e.type # "same_as" /\ {e.source, e.target} \subseteq Ids(a, DOMAIN a.nodes)

(* A file compared with itself, filtered or not, gives exit code 0 exactly *)
(* when no two of its nodes that share an identifier differ and each edge  *)
(* that passes the filter joins nodes of the file and is not same_as.      *)
NothingDiffersFromItself ==
  /\ a = b /\ exit # None /\ UniqueIds(a)
  /\ \A i \in DOMAIN a.nodes : PeriodsOrdered(a.nodes[i])
  /\ \A i \in DOMAIN a.edges : PeriodsOrdered(a.edges[i])
  => (exit = 0
        <=> /\ \A p \in Identified : ~IsModified(a.nodes[p[1]], b.nodes[p[2]])
            /\ \A i \in DOMAIN a.edges : EdgeActive(a.edges[i]) => Pairable(a.edges[i]))

Transposed(pairs) == {<<p[2], p[1]>> : p \in pairs}

\* An identifier without the spelling of its parts.
Plain(id) ==
  <<id.scheme, id.value[1],
    IF ~RequiresAuthority(id.scheme) \/ id.auth = None THEN 0 ELSE id.auth[1]>>

\* No node has an identifier in two spellings.
OneSpelling(file) ==
  \A i \in DOMAIN file.nodes : \A x, y \in RecordsOf(file.nodes[i]) :
    Plain(x) = Plain(y) => CanonicalId(x) = CanonicalId(y)

(* The comparison the other way reports the same pairs, with what was      *)
(* added removed and what was removed added.  Where a node spells an       *)
(* identifier in two ways this fails: the record that a key leads to is    *)
(* compared with all those of the other node, but not the other way round. *)
ReverseMirrors ==
  /\ stage = "done" /\ before # None
  /\ UniqueIds(a) /\ UniqueIds(b) /\ OneSpelling(a) /\ OneSpelling(b)
  =>
    LET result == Result
    IN /\ result.nodesMatched = Transposed(before.nodesMatched)
       /\ result.nodesAdded = before.nodesRemoved /\ result.nodesRemoved = before.nodesAdded
       /\ result.nodesModified = Transposed(before.nodesModified)
       /\ NoIdReused =>
            /\ result.edgesMatched = Transposed(before.edgesMatched)
            /\ result.edgesAdded = before.edgesRemoved
            /\ result.edgesRemoved = before.edgesAdded
            /\ result.edgesModified = Transposed(before.edgesModified)

Covers(id, day) ==
  /\ id.from # None => id.from <= day
  /\ id.to \notin {None, Open} => day <= id.to

\* Days that tell the periods of the records apart: their dates and one more.
Days(ids) == {0} \cup (({id.from : id \in ids} \cup {id.to : id \in ids}) \ {None, Open})

(* Identifiers pair two nodes only through records that denote the same    *)
(* entity on a common day, and always when there are such records with one *)
(* canonical string; an absent bound and an explicit null leave the period *)
(* open.  Periods that end before they begin are another matter.  So does  *)
(* the code; the words above it want an end of both before any two periods *)
(* are apart, which OpenEndNeverSeparates of DiffClaims is about.          *)
PairedIffCommonDay ==
  stage = "edges" =>
    \A i \in Active(a), j \in Active(b) :
      \A x \in RecordsOf(a.nodes[i]), y \in RecordsOf(b.nodes[j]) :
        RecordsOf(a.nodes[i]) = {x} /\ RecordsOf(b.nodes[j]) = {y}
          /\ CanonicalId(x) = CanonicalId(y) /\ SameAuthority(x, y)
          /\ a.nodes[i].id # b.nodes[j].id
          /\ PeriodsOrdered(a.nodes[i]) /\ PeriodsOrdered(b.nodes[j])
          /\ Cardinality(nodes.matched) <= 1
        => (<<i, j>> \in nodes.matched
              <=> \E day \in Days({x, y}) : Covers(x, day) /\ Covers(y, day))
=============================================================================
