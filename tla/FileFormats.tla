---------------------------- MODULE FileFormats ----------------------------
(***************************************************************************)
(* The bytes of .omts files: encodings and compression of omts-core        *)
(* (encoding, cbor, compression, convert, file_parse) and the reading and  *)
(* writing of the command line (io, cmd/convert, cmd/import).              *)
(*                                                                         *)
(* Bytes are records: form tells what they start with ("json", "cbor",     *)
(* "zstd" or "other"), size counts them, body is the file they spell (Junk *)
(* if they spell none) or, of a zstd frame, the bytes in the frame, and    *)
(* newline tells whether a line end follows.                               *)
(*                                                                         *)
(* In a body, the undeclared fields of the file (extra) and the geo fields *)
(* of its nodes are terms, as they are in the text; in a file they are     *)
(* dynamic values.  The other fields are the same in both.                 *)
(***************************************************************************)
EXTENDS Integers

CONSTANTS
  None,
  Junk,
  MaxFileSize,        \* --max-file-size
  SizeOf(_, _),       \* external serializers: the size of a file in a style
  FrameSizes,         \* external zstd: the sizes a frame may have
  MaxI64, MaxU64, NotFinite

LOCAL INSTANCE DynamicValues

Encodings == {"json", "cbor"}

-----------------------------------------------------------------------------
(* Writing.                                                                *)

HasGeo(node) == "geo" \in DOMAIN node.fields
WithGeo(node, geo) == [node EXCEPT !.fields = [@ EXCEPT !["geo"] = geo]]
BodyNode(node, encoding) ==
  IF HasGeo(node)
    THEN WithGeo(node, Serialize(node.fields["geo"], encoding)) ELSE node
Body(file, encoding) ==
  [file EXCEPT !.extra = Serialize(<<"Object", @>>, encoding),
               !.nodes = [k \in DOMAIN @ |-> BodyNode(@[k], encoding)]]

Bytes(body, encoding, size) ==
  [form |-> encoding, size |-> size, body |-> body, newline |-> FALSE]
Encoded(file, style) ==
  LET encoding == IF style = "cbor" THEN "cbor" ELSE "json"
  IN Bytes(Body(file, encoding), encoding, SizeOf(file, style))
Framed(bytes, size) ==
  [form |-> "zstd", size |-> size, body |-> bytes, newline |-> FALSE]
WithNewline(bytes) == [bytes EXCEPT !.size = @ + 1, !.newline = TRUE]

\* CBOR has no layouts; --compact wins over --pretty.
StyleFor(to, pretty, compact) ==
  IF to = "cbor" THEN "cbor" ELSE IF compact \/ ~pretty THEN "compact" ELSE "pretty"

Serialized(file, to, pretty, compact, frame) ==
  LET bytes == Encoded(file, StyleFor(to, pretty, compact))
  IN IF frame = None THEN bytes ELSE Framed(bytes, frame)

\* Mutant: every output ends with a newline.
ConvertedAsText(file, to, pretty, compact, frame) ==
  WithNewline(Serialized(file, to, pretty, compact, frame))
\* frame is the size of the zstd frame, None without --compress.
Converted(file, to, pretty, compact, frame) ==
  LET bytes == Serialized(file, to, pretty, compact, frame)
  IN IF to = "json" /\ frame = None THEN WithNewline(bytes) ELSE bytes

\* import writes pretty JSON, with a newline only on its standard output.
Imported(file, toStdout) ==
  IF toStdout THEN WithNewline(Encoded(file, "pretty")) ELSE Encoded(file, "pretty")

-----------------------------------------------------------------------------
(* Reading.                                                                *)

\* The size of a file on disk is known before it is read.
PathComplaint(bytes) == IF bytes.size > MaxFileSize THEN "FileTooLarge" ELSE None

\* Mutant: a full buffer is taken for an overflow.
StdinComplaintWhenFull(bytes) == IF bytes.size >= MaxFileSize THEN "FileTooLarge" ELSE None
\* Of a stream at most MaxFileSize bytes are taken; if so many came, one more
\* is asked for.
StdinComplaint(bytes) ==
  LET taken == IF bytes.size <= MaxFileSize THEN bytes.size ELSE MaxFileSize
  IN IF taken = MaxFileSize /\ bytes.size - taken > 0 THEN "FileTooLarge" ELSE None

DecompressedLimit == 4 * MaxFileSize

Understood(body) ==
  /\ body # Junk
  /\ Accepted(body.extra)
  /\ \A k \in DOMAIN body.nodes :
       HasGeo(body.nodes[k]) => Accepted(body.nodes[k].fields["geo"])

PlainComplaint(bytes) ==
  IF bytes.form \notin Encodings THEN "EncodingDetectionFailed"
  ELSE IF ~Understood(bytes.body) THEN "ParseFailed" ELSE None

\* One byte more than the limit is read, so that what follows it is not seen;
\* what follows a frame and is no frame makes the stream unreadable.
FrameComplaint(bytes) ==
  IF bytes.body.size > DecompressedLimit THEN "DecompressedTooLarge"
  ELSE IF bytes.newline \/ bytes.body.form = "zstd" THEN "ParseFailed"
  ELSE PlainComplaint(bytes.body)

ParseComplaint(bytes) ==
  IF bytes.form = "zstd" THEN FrameComplaint(bytes) ELSE PlainComplaint(bytes)

ReadComplaint(bytes, from) ==
  LET size == IF from = "path" THEN PathComplaint(bytes) ELSE StdinComplaint(bytes)
  IN IF size # None THEN size ELSE ParseComplaint(bytes)

\* geo is optional: a null is the same as none.
FileNode(node) ==
  IF ~HasGeo(node) THEN node
  ELSE IF node.fields["geo"] = <<"null">>
    THEN [node EXCEPT !.fields = [f \in DOMAIN @ \ {"geo"} |-> @[f]]]
  ELSE WithGeo(node, Deserialize(node.fields["geo"]))
FileOf(body) ==
  [body EXCEPT !.extra = Deserialize(@)[2],
               !.nodes = [k \in DOMAIN @ |-> FileNode(@[k])]]

Parsed(bytes) == FileOf(IF bytes.form = "zstd" THEN bytes.body.body ELSE bytes.body)
=============================================================================
