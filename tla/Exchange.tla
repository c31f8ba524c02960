------------------------------ MODULE Exchange ------------------------------
(***************************************************************************)
(* Files, workbooks and supplier lists handed from one command to the      *)
(* next: omts convert, omts export and omts import.                        *)
(*                                                                         *)
(* stored is what the last command wrote, error why the last one failed;   *)
(* trail, which only the properties read, keeps the contents that were     *)
(* stored, one for each export and import.                                 *)
(***************************************************************************)
EXTENDS SupplierList

CONSTANTS
  Artifacts,       \* what the user starts from
  Authorities,     \* values of import --authority
  MaxTrail,        \* bound: exports and imports in one behaviour, plus one
  Junk, MaxFileSize, SizeOf(_, _), FrameSizes

INSTANCE FileFormats

ASSUME BoundsAssumption ==
  MaxTrail \in Nat /\ MaxFileSize \in Nat /\ FrameSizes \subseteq Nat

VARIABLES stored, trail, error
vars == <<stored, trail, error>>

OmtsArtifact(bytes) == [kind |-> "omts", bytes |-> bytes]
BookArtifact(book)  == [kind |-> "book", book |-> book]
ListArtifact(list)  == [kind |-> "list", list |-> list]

Readable(artifact) == artifact.kind = "omts" => ParseComplaint(artifact.bytes) = None
Content(artifact) ==
  CASE artifact.kind = "omts" -> Parsed(artifact.bytes)
    [] artifact.kind = "book" -> artifact.book
    [] artifact.kind = "list" -> artifact.list
Stop(artifact) == [kind |-> artifact.kind, content |-> Content(artifact)]

Init ==
  /\ stored \in Artifacts
  /\ trail = IF Readable(stored) THEN <<Stop(stored)>> ELSE <<>>
  /\ error = None

Fail(reason) ==
  /\ error' = reason
  /\ UNCHANGED <<stored, trail>>

Write(artifact) ==
  /\ stored' = artifact
  /\ error' = None

Travel(artifact) ==
  /\ Write(artifact)
  /\ trail' = Append(trail, Stop(artifact))

Sources == {"path", "stdin"}
ReadFails(from) ==
  /\ stored.kind = "omts"
  /\ ReadComplaint(stored.bytes, from) # None
  /\ Fail(ReadComplaint(stored.bytes, from))
Reads(from) ==
  /\ stored.kind = "omts"
  /\ ReadComplaint(stored.bytes, from) = None
  /\ Len(trail) < MaxTrail

\* omts convert --to ... [--pretty] [--compact] [--compress].
Convert(from) ==
  /\ Reads(from)
  /\ \E to \in Encodings, pretty \in BOOLEAN, compact \in BOOLEAN,
        frame \in {None} \cup FrameSizes :
       Write(OmtsArtifact(Converted(Parsed(stored.bytes), to, pretty, compact, frame)))
  /\ UNCHANGED trail

\* omts export --output-format excel, -o being required.
ExportExcel(from) ==
  /\ Reads(from)
  /\ Travel(BookArtifact(ExportWorkbook(Parsed(stored.bytes))))

\* omts export --output-format excel-supplier-list.
ExportSupplierList(from) ==
  /\ Reads(from)
  /\ Travel(ListArtifact(ExportList(Parsed(stored.bytes))))

ExportWithoutOutput(from) ==
  /\ Reads(from)
  /\ Fail("InvalidArgument")

\* omts import; which template it is the sheet names tell.
ImportFullExcel ==
  /\ stored.kind = "book"
  /\ LET complaint == ImportComplaint(stored.book)
     IN IF complaint # None THEN Fail(complaint)
        ELSE /\ Len(trail) < MaxTrail
             /\ \E toStdout \in BOOLEAN :
                  Travel(OmtsArtifact(Imported(ReadFile(stored.book), toStdout)))

ImportSupplierList ==
  /\ stored.kind = "list"
  /\ \E authority \in Authorities :
       LET complaint == ListComplaint(stored.list, authority)
       IN IF complaint # None THEN Fail(complaint)
          ELSE /\ Len(trail) < MaxTrail
               /\ \E order \in Orders(Count(stored.list, authority)), toStdout \in BOOLEAN :
                    Travel(OmtsArtifact(Imported(ReadList(stored.list, authority, order), toStdout)))

Next ==
  \/ \E from \in Sources : ReadFails(from) \/ Convert(from) \/ ExportExcel(from)
                             \/ ExportSupplierList(from) \/ ExportWithoutOutput(from)
  \/ ImportFullExcel
  \/ ImportSupplierList

Spec == Init /\ [][Next]_vars
=============================================================================
