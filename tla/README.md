# A verification project for OMTSF

OMTSF is a Rust library and command line tool for supply-chain graphs: a file
lists organizations, facilities, goods, persons and the relations between them;
the tool validates such files, merges files of several parties, redacts them for
an audience, compares two versions, answers graph queries, and exchanges them
with Excel. This directory models the parts of it that decide something, checks
them with TLC, and proves most of their safety properties with TLAPS.

Paths below are relative to `omts-rs/crates/omts-core/src/` unless they say
otherwise.

## Inventory

The program is a set of pure functions on one thread; nothing is shared and
nothing is persisted but the files that go in and come out. What makes it hard
is therefore not concurrency but

- **order**: results depend on the order of arguments, of list elements and of
  buckets that a `HashMap` with a random seed yields;
- **references**: nodes refer to each other by ids that are local to a file,
  and merging renumbers all of them;
- **two notions of equality**: an index by exact text and a predicate that
  normalizes, with periods of validity that make the predicate intransitive;
- **closure**: pairwise decisions become groups through a disjoint-set
  structure, and one wrong pair joins two groups;
- **late failure**: merge, redact and import validate their own result and fail
  at the end if it is not valid;
- **sequences of calls**: the output of a command is the input of the next, and
  a file that went through one of them may be read differently by another.

| Component | Code | State | Operations | What makes it correct |
|---|---|---|---|---|
| Disjoint sets | `union_find.rs` | parent pointers, ranks | `new`, `find`, `union` | classes are the closure of the unions; `find` returns; a rank is at most the logarithm of its class |
| Identity | `canonical.rs`, `identity/predicates.rs` | none | canonical id, node and edge predicates | symmetric; periods compatible iff they overlap |
| L1 rules | `validation/`, `rules_l1_eid/`, `sensitivity.rs` | none | one check per rule | accepts exactly the structurally sound files |
| Merge | `merge_pipeline/`, `merge/` | the passes of one call | `merge`, `merge_with_config` | entities resolved along links only and completely; nothing said is lost; valid in, valid out; one result for one input |
| Redaction | `redaction/`, `boundary_hash.rs`, `../../omts-cli/src/cmd/redact.rs` | one pass, the hashes made so far | `redact` | nothing above the scope stays; edges stay attached; repeated redaction never loosens |
| Diff | `diff/` | match groups of two files | `diff`, `diff_filtered` | pairs are chains of shared identifiers; silence means equal content; the two directions mirror each other |
| Graph queries | `graph/`, `../../omts-cli/src/cmd/{reach,path,query,subgraph,selectors}.rs` | queue, visited set, predecessors, path, call stack | reachability, shortest and all paths, cycles, ego graphs, selection, extraction | sound and complete within depth; report independent of hash order; an extraction is the induced file |
| L2, L3 rules | `validation/rules_l2`, `rules_l3.rs`, `external.rs` | none | advisory checks | the advice on a part is the advice on the whole, for what is kept |
| Encodings | `encoding.rs`, `cbor.rs`, `compression.rs`, `convert.rs`, `file_parse.rs`, `../../omts-cli/src/io.rs` | none | detect, decode, encode, limits | what was written is read again, from disk and from a pipe alike |
| Excel | `../../omts-excel/src` | maps of names and ids while rows are read | import and export of a workbook and of a supplier list | what has a column returns; a second trip changes nothing; a list keeps its trees |
| Command line | `../../omts-cli/src` | none | one library call per command | validates before merging; refuses a looser scope; exit codes |
| Data model | `dynvalue.rs`, `file.rs`, `types.rs`, `newtypes.rs`, ... | none | serde conversions, checks of one value | a value of an undeclared field keeps its type and its null in every encoding; the rest is not modelled |
| Benchmarks, WASM | `../../omts-bench`, `../../omts-wasm` | none | - | not modelled |

Components meet by calls: the command line parses each file and calls one
operation of the library. Merge asks the predicates about pairs that an index of
canonical ids proposes, records the answers in a disjoint-set structure, builds
the groups, and calls the L1 rules on its result. Diff uses the same predicates,
index and structure. Redaction uses the sensitivity rules, the canonical ids and
the L1 rules. Queries work on a graph built from a file, which validation also
builds for the rule on cycles. Import calls the L1 rules; export checks nothing.

`PROJECT.json` lists under `hazards` each place where something can go wrong
that a test hardly reaches, with the properties that would notice.

## Plan

1. `DisjointSets`, `UnionFind`, `RepForest` and the proofs about them: the basis
   of merge and diff. *Done.*
2. `Identity`, then `L1Rules`: operators that everything else uses. *Done.*
3. `EntityResolution` (what a merge promises) and `MergePipeline` (what the code
   does), which composes 1 and 2 and refines the former; `MergeTwice` composes
   two merges. *Done.*
4. `Disclosure` (what redaction promises) and `Redaction`, calls in sequence,
   which refines it. *Done.*
5. `Diff`: identifier pass, fallback by id, match groups, edge pairing, one way
   and the other. *Done.*
6. `Search` and its proofs, `Cycles`, `GraphModel`, `AdviceRules`, and
   `GraphCommands`, which composes them. *Done.*
7. `DynamicValues`, `Workbook`, `SupplierList`, `FileFormats`, and `Exchange`, which composes
   them into the sequences of `convert`, `export` and `import`. *Done.*
8. Proofs about `MergePipeline`: that it implements `EntityResolution`, and every
   invariant of its runs; the same for `Diff`; the hops of `Search`. *Done.*
9. Proofs about `Redaction`: that it implements `Disclosure`, for which the
   promise itself is proved, and every property of its run. *Done.*
10. Proofs about `Cycles`, and that the commands of `GraphCommands` inherit those
    of `Search` and `Cycles`; then about extractions and all paths. *Done.*
11. Redaction followed by merge: whether the boundary references of two
    redacted files meet again. *Open.*

## Modules

Each mutant is the operator before the definition it mutates; it names the bug
it stands for and is used by no specification. `MC*` modules hold instances.

**Disjoint sets.** `DisjointSets` is the abstract structure: a representative for
each element, `find` and `union` as a call and a return. `UnionFind` is
`union_find.rs`. A call begins (`BeginFind`, `BeginUnion`), `HalveStep` is one
iteration of the loop of `find` (one write and one move of the cursor), the last
iteration is `FindReturns`, `FirstRoot`, or one of the four ends of `union`:
`SameSet`, `LinkLess`, `LinkGreater`, `LinkEqual`. `ra` is the local of the same
name. The rank is incremented modulo `RankMax + 1`, as a release build does.
`root` and `joined` are history variables. `RepForest` is the structure as
callers see it, representatives and ranks with the operator `Unite`; that this
loses nothing is the property `UnionIsUnite`.

**Identity and L1.** `Identity` has the canonical form of an identifier, temporal
compatibility and the node and edge predicates. Texts are numbers in
lexicographic order; a text with variants that the predicate ignores is a pair of
a core and a variant (white space of a value, case of an authority). Dates are
numbers. The percent encoding of canonical strings is abstracted: a canonical id
is the sequence of its parts. `L1Rules` has the rules an operation could break:
L1-GDM-01 to 06, L1-SDI-01 and 02, L1-EID-03, 09 and 11. Left out are those that
look at the text of a single identifier, which no modelled operation changes.

**Merge.** `EntityResolution` is what a merge promises: classes of records are
joined along links only, and a result is published or rejected only when no link
is left between two classes. `MergePipeline` is `merge_with_config`. Its state is
that of the function: `phase` is the pass, `todo` the buckets not yet seen,
`pairs` the pairs of the current bucket, `cursor` the position in the `same_as`
pass, `forest` and `edgeForest` the two union-finds. One step compares one pair
(`ComparePair`, `CompareEdges`), handles one edge (`ApplySameAs`), or is one of
the later passes, which do not depend on any order (`CheckGroupSizes`,
`OrderNodes`, `BuildNodes`, `OrderEdges`, `BuildEdges`, then `SaltFails`,
`Accept` or `Reject`). `NextBucket` and `NextEdgeBucket` choose any remaining
bucket, as the `HashMap` may. A bucket is a set: the code lists a node twice that
has two identifiers with one canonical form, which only compares the node with
itself. Ordinals start at 1. The salt and the time stamp are not modelled;
metadata are the counts of what is. `operator` stands for a typed reference to
another node and `carried` for the other typed fields that are copied from the
first member of a group. `MergeTwice` runs two merges of the same files, one
after the other. `MergeClaims` states a sentence of the documentation that the
code does not keep.

**Redaction.** `Disclosure` is what redaction promises: a file says facts, each
with a sensitivity; a step for an audience removes all unsuitable ones and adds
none. `Redaction` is the command `omts redact` and the library call `redact`,
applied several times to one file. `call` is the call in progress. The loop that
hashes is a step per node (`SkipNode`, `HashNode`, `EntropyFails`), because it can
stop in the middle; `RunCommand` and `RedactInternal` are the passes before it,
`Accept` and `Reject` those after it. SHA-256 is an injective function. The facts
of the refinement mapping are the identifiers and edge properties of the file,
with the sensitivity they had in the original, so an override that is dropped on
the way still counts.

**Diff.** `Diff` is `diff_filtered` and the exit code of `omts diff`. `VisitKey`
takes the shared identifiers in any order, `MatchRest` pairs the rest by id in any
order, `PairEdge` and `AddEdge` go through the edges of the second file. When a
comparison ends, the same files may be compared the other way, which
`ReverseMirrors` is about. `DiffClaims` states two sentences of the documentation.
The properties have preconditions, each of which some input of the run lacks:
`OneRecordPerKey` (no node and no edge has two records of one canonical form, of
which only the last is compared), `PeriodsOrdered` (a period that ends before it
begins is disjoint from itself), `OneSpelling` (a node does not write one authority
in two ways, which are two keys but one match) and `EndsExist` (no edge leads nowhere).

**Graph.** `Search` is the breadth-first loop of `reachable_from`,
`shortest_path`, `ego_graph`, `selector_subgraph` and `reach --depth`, which
differ in seeds, limit, goal and filter: `Pop` takes a node from the queue,
`SeeKnown` and `SeeNew` look at one neighbour, `Trace` goes back one predecessor.
`Cycles` is Kahn's count (`TakeReady`) and the walk over what it leaves
(`PickStart`, `Descend`, `CloseCycle`, `SkipFinished`, `Retreat`), one edge at a
time. `GraphModel` has the construction of the graph, the selectors, the indexes by
type and the assembly of an extraction; `AdviceRules` the L2 and L3 rules.
`GraphCommands` composes them: a behaviour is one invocation of `reach`, `path`,
`query`, `subgraph` or `validate`, or of the library calls `shortest_path` and
`selector_subgraph`, from the parsed file to the exit code. `Build` sets the graph
before any search begins; the recursion of `all_paths` is the stack `calls`.

**Exchange.** `Workbook` is the many-sheet workbook in both directions: what
export writes on each sheet (`OrganizationRow`, ..., `SupplyRows`) and what import
reads from it (`ReadOrganization`, ..., `ReadSupply`), and `ImportComplaint`, the
first reason to refuse it. `SupplierList` is the one-sheet template. The rows of a
list are read one after the other (`WithSupplier`), as the maps from names and
supplier ids make the order matter; the suppliers leave a hash map in any order.
`FileFormats` has the bytes of a file as a record of what they start with, how
many they are and what they hold; the sizes of serialized files and of zstd
frames are parameters. `DynamicValues` is what the two encodings make of a value
that no struct declares: the visitor that builds it (`Deserialize`, with the two
integer types of limited width), the values it refuses (`Accepted`), and what is
written of it (`Serialize`). It serves the undeclared fields of a file and the `geo`
of a node, which export splits into two cells. `Exchange` hands what one command wrote to the next: `Convert`,
`ExportExcel`, `ExportSupplierList`, `ImportFullExcel`, `ImportSupplierList` and
their failures. `trail` is a history of what was stored. `RoundTrips` has the
properties. Columns that are written and never read are left out.

## Runs

| Run | Shows | Instance |
|---|---|---|
| `union_find` | type, forest, locals, closure, rank bound, refinement, `UnionIsUnite`, termination | 5 elements, the 5 unions that reach rank 2, so that paths of length 2 are halved |
| `merge` | entity resolution; node and edge facts kept; edges distinct; rejections of three known kinds; result independent of bucket order, but for ties | the union of four families of inputs, below |
| `merge_returns` | merge returns; refinement with fairness | 48 inputs, threshold `probable`, and no input file |
| `redaction` | the disclosure promise; stubs tell public identity; connectivity; rejected exactly for two known reasons | three nodes, two edges, up to three calls |
| `diff` | pairs are chains; paired edges join paired nodes; silence, self-comparison, mirror; pairs of records | every pair of records of one identifier; three nodes a side; every kind of content; two edges a side |
| `graph` | searches, hops, paths, extractions, advice and cycles exact; every command ends | four nodes, all subsets of seven edges (cycles) and of six (paths), every kind of flag |
| `exchange` | round trips carry, settle, keep trees; files are read back | identifiers of every kind, three of twelve edges, hand-made workbooks and lists, undeclared values of every kind, bytes around the limits |
| `claim_reporting`, `merge_same_files`, `claim_diff_edges`, `claim_periods`, `claim_person_ids` | one finding each | the smallest input that shows it |

**Merge** (`AllInputs`): `PairInputs`, two files of two organizations with
identifiers shared in every way, periods and `same_as` edges; `EdgeInputs`, three
edges of 14 kinds in two files whose nodes are in different order; `TypeInputs`,
valid files with nodes of each type and five edge types; `OrderInputs`, four nodes
with chains of identifiers and a tie on the lowest. Every decision of the pipeline
is about a pair, a triple through transitivity, or one group. Two files of two
nodes contain each kind of pair (same file, other file, colliding local ids),
groups of one to four, groups that two identifiers hold together, and pairs that
share a bucket without matching. Ties and orders need four nodes. Two dates give
periods that are disjoint, touch and overlap. A union-find error needs a path of
length two, which five elements build. `TypeInputs` are filtered by `L1Valid`
because the command line validates each file before it merges
(`../../omts-cli/src/cmd/merge.rs:60-76`); the library does not, and the other
families need no such filter.

**Redaction.** Every rule classifies one node, one identifier, or one edge with
its two ends. Three nodes give each pair of classifications at an edge; the third
is a person, a boundary reference, an organization, or a node with a taken id.
Identifiers and properties are public, restricted and confidential by default and
by declaration; one list has two records of one canonical form. Three calls are an internal, a partner and a public one in any
order, by the command or by a caller who retains nodes (`RetainSets`).

**Diff.** Pairs of records of one identifier cover all periods over two dates,
white space and authority spelling, periods that end before they begin included;
other lists have one key twice, or in two spellings. Files compared with themselves have
two nodes with one identifier, `same_as` edges and edges that lead nowhere. Three nodes a side over three identifiers
give chains that alternate between the files and groups with several members on
both sides. `MaxCalls`-like bounds are not needed: a comparison is finite.

**Graph.** A search goes wrong at a node that is reached on two ways of different
length, at a self loop, at parallel edges, or at the limit. Six edges over four nodes
hold all of these, with limits 0 to 3; the cycles have a triangle, two parallel
edges, a loop, a two-cycle and a tail.

**Exchange.** `MaxTrail` is 5: a file, a workbook, a file, a workbook, a file, which
is what `TripsSettle` needs. `MaxFileSize` is 2, so that sizes 1, 2, 3, 8, 9 lie
below, at and above the limit and its fourfold. Hand-made workbooks differ from a
good one in one thing each. Lists have up to two rows of ten kinds, and three rows in
one chain. Undeclared values are pairs of scalars, in lists and under a key that comes
twice; the integer types have 3 bits (`MaxI64` = 3, `MaxU64` = 7), and numbers lie at
and around their ends.

`CHECK_DEADLOCK FALSE` is set where a call ends or a chain of calls is bounded:
everywhere but in `union_find`, whose structure always accepts another call.

**Fairness.** `FairSpec` of `UnionFind` is weak fairness of the steps of a call
in progress, not of new calls; that of `MergePipeline`, and `Spec` of
`GraphCommands`, is weak fairness of the next step. All say that a function on a
thread that is running goes on, which is all that the liveness properties need.

Some properties name the exceptions they make:

- **`OutputIndependentOfBucketOrder`** compares the result with the one computed
  from the partition alone, each class represented by its lowest ordinal. When two
  groups share their lowest identifier and one has more than one node, the result
  does depend on the order (`merge_same_files`).
- **`OnlyForeseenRejections`** of a merge: one declared reporting entity (its id is
  stale), a group of several node types, and a group of boundary references with
  different opaque identifiers.
- **`FailsExactlyAsForeseen`** of a redaction: the node of the reporting entity becomes
  a stub or is dropped, or a boundary reference has an opaque identifier that is itself
  marked as too sensitive for the scope. In these cases the redaction does fail.
- **`NothingDiffersFromItself`**: files in which an id names two nodes or a period ends
  before it begins. For all others it says exactly when the exit code is 0.
- **`NodeFactsKept`** is about the type, identifiers, labels and three scalars of a node,
  **`EdgeFactsKept`** about the identifiers and, without external ones, the identity
  properties of an edge whose two ends exist.
- **`RoundTripCarries`**: what a workbook cannot hold (`Lost`, `SensitivityAfter`) and
  why the workbook of a valid file is refused (`Refusable`).
- **`ReadsBack`**: the size limits, and floats that JSON cannot write.
- **`ListKeepsTrees`** is about tidy lists (`Tidy`): one row per supplier, of the tier
  after that of its parent, names and ids told apart.

## Findings

Each is shown by a run whose only property is a sentence of the documentation or
of a comment; `PROJECT.json` quotes it with its place.

- `reporting_entity` is copied with its old graph-local id although every node
  gets a new one: the merge of two valid files, one of which names its reporting
  entity, is rejected (`claim_reporting`). When another merged node happens to
  have that id the field names that node instead.
- The result of a merge depends on the hash seed: two groups with the same lowest
  identifier are ordered by their representatives (`merge_same_files`).
- An edge of the first file of a diff is resolved through the ids of the second
  where both files use one id (`claim_diff_edges`).
- A record that has ended is apart from one that began later, also if that one has no
  end (`claim_periods`). The comment above the code (`identity/predicates.rs:71-75`),
  `spec/merge-semantics.md:38-39`, `docs/merge.md:70` and `docs/diff.md:27` want an end
  of both; the tests of the code do not. `PairedIffCommonDay` states what the code does.
- The identifiers of a person that come from a workbook have the default of their
  scheme, restricted or public, not confidential (`claim_person_ids`).

The models keep, and the code has, further behaviour that a reader of the
documentation may not expect; these have no run of their own.

*Merge* (`docs/merge.md`, `spec/merge-semantics.md`)

- The representative of a class depends on the order of the unions; the ordinal
  decides only between equal ranks (`Winner` in `RepForest`).
- `operator` of a facility is copied with the id it has in its file, which no merged node
  need have, though `spec/graph-data-model.md:103` calls it a graph-local id (`MergedNode`).
- Of every field but name, jurisdiction and status the first member's value is
  taken without a conflict, and conflicts of an earlier merge are dropped
  (`MergedNode`).
- Two nodes in one bucket are compared on all their identifiers, annulled LEIs
  included (`NodesMatch`), and identifiers that match up to the spelling of the
  authority are compared only when some bucket holds both (`SharedKeys`).

*Redaction* (`spec/selective-disclosure.md`)

- The identifiers of an edge are never filtered (91-94), and the name of a person
  is not cleared (`redaction/mod.rs:440-442`); neither is a fact of `Disclosure`.
- A boundary reference that a partner redaction made of a person survives a later
  public one (146), and L1-SDI-02 does not look for persons.
- The canonical strings are sorted before they are hashed, and doubles are not removed
  (`boundary_hash.rs:110-113`). A scheme without an authority lets a node have two
  records of one canonical form, and its stub then differs from that of a node with one
  of them (`PublicForms` counts records).
- Redaction again can leave an edge between two stubs, one of them older.
- The command retains no node, so it fails on each file with a reporting entity
  that it has to redact.

*Diff* (`docs/diff.md`)

- The index of identifiers is exact in case and white space, though the authority
  should not be (2.1); any text with two hyphens is compared as a date; edges of an
  extension type match without identifiers (2.2).
- A file can differ from itself: a `same_as` edge, or one that leads nowhere, is never
  paired, and nodes that share an identifier are compared with one another
  (`NothingDiffersFromItself`); `omts-rs/README.md:94` and `docs/diff.md:353` have exit
  code 0 for identical files.
- Of records with one canonical identifier the last is compared; node types are not
  compared; a filter on edges looks an end up in the first file before the second.

*Graph and advice*

- `path --max-paths 0` prints nothing and exits with 0; parallel edges print a path
  several times and report a cycle twice; a subgraph given ids and selectors that
  match nothing fails with 1.
- An extraction may keep the id of an operator that was cut away (`AdviceFollows`).
- L3-MRG-02 reports without an external source, though `validation/external.rs:53-55`
  and `validation/mod.rs:654-655` say that no L3 rule does; L3-MRG-01 ignores the
  periods of the shares it adds up (`spec/merge-semantics.md:273`,
  `docs/merge.md:269`); the rule on cycles of `composed_of`
  (`spec/graph-data-model.md:529`) does not exist.

*Excel and encodings*

- A workbook is not the full-fidelity round trip of `README.md:148`: second
  identifiers of a scheme that has columns, their sensitivities and periods, edges
  to boundary references and all but one of the edges to an attestation do not
  return, and the confidence of a `same_as` edge is not written where the parser
  put it.
- `docs/tasks.md` would have a snapshot date of today for a list without one (it is
  2000-01-01), a tier-2 parent for a tier-3 supplier (any parent will do), labels on
  nodes (they are on edges) and the column `internal_id` (it is not read).
- Rows that share a supplier id become one node, but the source of their edges is
  looked up by name (`../../omts-excel/src/supplier_list.rs:479`).
- `convert.rs:4-6` keeps null apart from absent; an explicit null of an optional
  typed field is dropped. A float of a CBOR file that is not finite becomes a null
  in JSON (`FloatTerm`), which `convert.rs:83` on lossless conversion does not say.
- Export creates, and so empties, its output before it builds the workbook.
- A newline may lift a converted file over the size limit, and a compressed file may
  hold more than what reading permits (`ReadsBack`).

## Proofs

**`UnionFindProofs`**, for every number of elements, every set of union arguments
and every rank type that is wide enough (`CapacityAssumption`: fewer elements than
2^`RankMax`, which a 64-bit `usize` and a `u8` satisfy by far):

- `TypeCorrect`, `ForestHolds`, `LocalsHold`, `RanksHold`, `ClosureHolds`: the type
  invariant and the four invariants of the run;
- `UnionsAreUnite`: a call of `union` is `Unite`, which is what the models of merge
  and diff use;
- `Implements`: the arrays implement `DisjointSets`, safety part.

The inductive invariant `IInv` is the conjunction of the five, and each needs the
others. A pointer leads to a higher rank (`Forest`), which a wrapped rank would
break, so `Forest` needs the rank bound; the bound (2^rank elements under a root)
counts the members of a class, so it needs the classes; a link hangs one root
below the other, so it needs the locals of `union` to be roots still, although
the second `find` rewrote the array (`LocalsValid`, which path halving preserves
because it never writes to a root). `Pow2` is a constant with its recursion as an
assumption, because a proof module cannot have a recursive operator.

**`SearchProofs`**, for every set of graphs with finitely many nodes and every query
from finitely many seeds: `SearchInvariant`, and from it `SearchIsSound`: a search
without a limit and without a goal ends with the least set that holds its seeds and is
closed under neighbours, and a path that `shortest_path` puts together runs from a
seed to the goal along edges. `IInv` is the conjunction of six parts. `LeastInv` says
that what was seen lies in every closed set with the seeds; `FrontierInv` that a
node that was seen waits in the queue, or is the one looked at with the rest of
its neighbours still to come, or has only neighbours that were seen. Together they
give the closed set at the end, when the queue is empty. `PredInv` says that every
node seen but the seeds has a predecessor that was seen and has it as a neighbour,
which makes each step of `Trace` a step along an edge (`PathInv`). `GraphInv` and
`QueueInv` give the sets these range over. The specification of the proof is
`SearchSpec`, in which a search begins with its graph in place, as `GraphCommands`
has it after `Build`.

`SearchFindsShortest` (`HopsExact`) adds the number of hops: a search ends with what
its limit lets it reach, no more and no less, and a path that `shortest_path` puts
together is a shortest one. It rests on `SearchCountsHops`, the invariant `HopsInv`:
the queue holds nodes of two neighbouring levels, the nearer before the farther, and
what was seen lies between the ball of the level that is looked at and the next one
(`LevelInv`); a predecessor is one level nearer (`PredLevels`), so a path that is
traced back loses a level per step (`PathLevels`). That the balls stop growing at the
number of nodes (`BallFar`) is where the nodes have to be finitely many
(`SearchAssumption`, which also says that a search has a goal or a limit, not both).

**`DisclosureProofs`** is about the promise itself: no fact unsuitable for the
strictest audience so far is in the file (`NothingUnsuitableEver`), and no step adds
one (`DisclosureOnlyShrinks`). `RedactionProofs` shows that redaction keeps it.

**`RedactionProofs`**, for every set of files whose edges have distinct ids (rule
GDM-02 of a file that is read) and whose nodes have identifiers with a scheme, a value
and an optional authority (`OriginalsAssumption`), any retained sets and any number of
calls:

- `Discloses`: redaction implements `Disclosure`, so `NeverUnsuitable`: no fact in
  the file is unsuitable for the strictest audience it was ever cut down for;
- `LoopCorrect`: the type invariant;
- `Connects`: an edge disappears only with one of its ends, between two ends that
  both become stubs, or as a beneficial ownership kept from the public;
- `FailsAsForeseen`: the redaction of a valid file is refused exactly when one of the two
  known reasons is given;
- `StubsMeetByPublicIdentity`: two stubs have one value exactly when their nodes had
  the same public identifiers, record for record, of which there were some.

The inductive invariant `Inv` relates the file to the original it came from, which
neither property mentions. `NodesTruthful` says that a node has the type it had in
the original, or that nothing was redacted yet: a person could otherwise hide
behind a type that later calls let through. `EdgesTruthful` says that an edge still
carries the override of its original, unless properties are gone already; without
it a second call would judge a property by a weaker default. `NothingUnsuitable`
itself is the third part. Inside a call, `LoopInv` says what the nodes and edges
done so far are: kept as `KeptNodes` and `KeptEdges` define, with distinct ids,
because the output was validated. Filtered sequences are `Picked` by position, a
definition in first-order logic, since the recursion of `SelectSeq` is beyond the
provers; the lemmas about it show that every picked element is an element of the
original that passes the test. `NoneAssumption` keeps the absent scope apart.

For the stubs the invariant is `StubInv`. `Carried` says that a node that is still a
node gives the same texts to hash as in the original: public identifiers pass every
filter, and sorted texts are determined by how often each occurs
(`SortedTextsUnique`). `StubsHide` says that the value of a stub is the hash of the
texts of its node or, if there are none, a token that no other stub has; `HashedHide`
says the same of the values of a call in progress, and that the tokens among them are in
no stub yet. It needs `TypeOK`, for a value that the loop left out would be made up.

**`MergeProofs`**, for every set of arguments, any number of well-formed files each
(`InputsAssumption`: what the parser gives), every threshold and every limit:

- `MergeTypeCorrect`;
- `MergeImplementsResolution`: the merge implements `EntityResolution`, safety part;
- `MergeKeepsNodeFacts`: identifiers, labels and scalars of a node are kept, or recorded as
  a conflict, and what a merged node says of these, and its type, some node of its group
  said; the other fields are the first member's, and old conflicts are gone;
- `MergeKeepsEdgeFacts`: an edge whose two ends exist is represented by one with its type,
  ends, identifiers and, without external ones, identity properties, and each edge of the
  result represents one;
- `MergeLeavesNoDuplicates`: no two edges of the result should have been one;
- `MergeIgnoresBucketOrder`: the result is that of the partition alone, unless two
  groups share their lowest identifier and one of them has more than one node
  (`merge_same_files` shows that it then is not);
- `MergeRejectsAsForeseen`: each of the nine L1 rules holds of the merge of valid
  files, but for the three known reasons.

`MergeInvHolds` is the first inductive invariant. `WorkOK` says that the pairs of the
current bucket share a key and come in ascending order, `NodesSettled` that two linked
nodes are in one class or still to be compared, in this bucket or in one to come, and
`SameAsSettled` that the ends of an honoured `same_as` edge before the cursor are in one
class. The step that joins two classes needs that `Unite` joins exactly the classes of
its arguments (`UniteIs`, `UniteJoins`); that the arrays do is `UnionsAreUnite`.
`FactsInvHolds` describes the later passes: the order of the groups, what each merged
node and edge is made of (`NodesMade`, `EdgesMade`), and that edges are grouped only
with duplicates and completely (`EdgesGrouped`, `EdgesSettled`). Independence of the
order is shown by a correspondence of each representative with the lowest member of
its class (`Lowest`): both orders sort groups by their lowest identifiers, so the
lists correspond (`EnumerationImage`), and so do the ids given out along them.

**`DiffProofs`**, for every set of pairs of parsed files (`DiffAssumption`):

- `DiffTypeCorrect`, `DiffPairsChains`, `DiffPairsJoinPairs`, `DiffPairsOnCommonDays`,
  `DiffSilenceMeansSameContent`, `DiffNothingDiffersFromItself`, `DiffReverseMirrors`:
  every invariant of the run.

`DiffInv` says in each stage what was found so far: the classes are the closure of the
links of the keys visited (`ForestInv`), and every edge before the cursor is paired,
with one not paired otherwise, or added (`EdgesOK`). `SelfInv` and `StableInv` are
about the greedy pairing of edges, each with the first candidate left. In a comparison
of a file with itself an edge that can be paired with itself always is, as the edges
before it found themselves, and no other edge is paired (`SelfInv`); nodes that fall
together have no changes if those that share an identifier have none, as chains are made
of these (`SelfUnmodified`). The pairing is stable: of two edges that could be paired,
one is paired with an earlier partner. There is only one stable pairing, and it does
not matter from which side it is sought; so the result is a description of the two files
(`Reports`, kept for the first comparison by `BeforeInv`) that is its own mirror image.
The attempt to prove these properties showed their preconditions: without
`OneRecordPerKey` for edges, `PeriodsOrdered` or `OneSpelling` TLC finds a
counterexample.

The same module proves the search for cycles (`CyclesFound`), for every graph with
finitely many nodes and arcs. `CycleInv` follows the code. While it counts, the counter
of a node is the number of edges that enter it from nodes not yet taken from the queue,
and no node that leads back to itself has been taken (`CountInv`): the node before it
on its cycle was not, so an edge still entered it. Hence all of them are left over for
the walks (`LeftOverInv`). There the frames are a trail along edges that visits no node
twice (`TrailInv`), so closing it yields a cycle (`SegmentIsCycle`, `ReportsInv`). That none is missed is `CoverInv`:
each edge of a node on the trail is still to be tried, leads on along the trail or to
a finished node, or the node shares a cycle with a report already; and each finished node
that leads back to itself shares one with a report. A node is finished when all its
edges have been tried, and one of them leads to a node of the same cycle
(`CycleLeaves`), so it inherits that node's report.

**`GraphProofs`**, for every set of invocations whose files and arguments are what the
parsers give (`InvocationsAssumption`: lists are lists, limits are natural numbers, a
label or identifier flag has one part or two, ids are numbered in the order of their
texts and none is the mark of an absent value; and `ErrorsAssumption`: no error is the
absent one):

- `CommandsFindCycles`, `CommandsSearchSoundly` and `CommandsCountHops` carry the three
  theorems over to the commands of `GraphCommands`. `SearchesInvHolds` says that every
  search of a command begins on the graph of the file, a graph of finitely many nodes
  and arcs (`GraphOfFile`), and from finitely many seeds, also when `subgraph` runs one
  after the other, and that no other step of a command touches a search on its way.
- `ExtractionsAreExact` (`SubgraphExact`). `ExtractInv` says that the nodes found so far
  are the neighbourhood of the seeds worked off so far. A search that ends adds the
  neighbourhood of its seed, which is its ball (`BallIsAround`), and the neighbourhood
  of a union is the union of the neighbourhoods (`AroundUnion`), so the order and the
  overlaps do not matter. The seeds that the index by type gives are those of a scan
  (`SeedsAreMatched`). Each of the nine L1 rules carries over to the part
  (`PartValid`): ids stay distinct, and a node that is kept is found by its id as
  before (`PartNodeAt`).
- `AdviceIsKept` (`AdviceFollows`), from the same invariant, rule by rule: those that
  look at one node or edge at a time see the same (`SingleAdvice`), a facility loses its
  organization with the last edge or operator that is kept (`FacilityAdvice`), and tiers
  lose the reporting entity (`TierAdvice`). The proof showed the precondition, a valid
  file: a file with one id for two edges, or with an edge that leads from the facility
  to the organization that operates it, has other advice.
- `PathsAreExact` (`PathsExact`). The recursion of `dfs_recurse` is a stack of calls, and
  a call knows, by how many children it has left, which edge it took last (`Chosen`) and
  which it takes later (`Later`). A wanted walk, simple, within the depth and to the
  target, waits at a call if it follows the edges chosen up to there and goes on along a
  later one. `PathsInv` says that the paths found are, one for one, the wanted walks that
  wait at no call (`WalkRule`, `Found`). Taking the next child lets go of the walks
  through one edge: there are none if it leads back to the trail (`SkipKeeps`), one if it
  leads to the target, which is found at that step (`TargetFound`), and else they wait at
  the new call, unless the depth admits none (`EntryKeeps`); a return lets go of none
  (`ReturnKeeps`). In the end nothing waits. The
  walks of the property are built length by length and bounded by the number of nodes:
  they are the simple ones (`SimpleWalksAre`), and no simple walk is longer
  (`WalksAreShort`). The order in which paths are printed is strict (`PathsOrdered`), so
  sorting only permutes them, and a prefix has each path as often as it was walked unless
  it sorts last (`PrintedPaths`).

**`CommonLemmas`** holds what these share: induction and recursion over the naturals
stated with sets and functions (`Induction`, `Recursion`), as the provers cannot
instantiate the operators in the theorems of the library; that the elements of a
finite set in a strict order are listed once, in order, and in one way only
(`EnumerationIs`, `EnumerationUnique`); the order of texts; what a canonical string
tells of a record (`CanonicalIdTells`); and `Unite`.

Only model-checked: the exchange of files (`RoundTripCarries`, `TripsSettle`,
`ListKeepsTrees`, `ReadsBack`). Its values are nested, and its models use recursive
operators, about which the provers know nothing. Liveness under fairness and `ENABLED` are out of the provers'
reach.

## Not modelled

- Serde conversions and checks of one value (`newtypes.rs`, `enums.rs`,
  `check_digits.rs`, the declared fields of `file.rs`): pure functions of one argument
  without state; the records of the modules follow their fields. How deep a parser
  lets values nest is external.
- `init` writes a fixed file, `inspect` counts, and `format.rs` lays results out.
- The serializers, zstd, the workbook libraries and SHA-256 are external: they appear
  as parameters, or as what the code relies on.
- The benchmarks are generators of load, and the WASM crate is empty.
