--------------------------- MODULE MCMergeClaims ---------------------------
(* An input of two small files for the claim of MergeClaims.                 *)
EXTENDS MCMerge, MergeClaims

Nodes(ns) == File(ns, <<>>)
Reported(file, id) == [file EXCEPT !.reporting = id]
OtherFile == Nodes(<<Org(101, <<Duns(2)>>)>>)

\* The reporting entity keeps an id that no node of the result has.
ReportingInputs == {<<Reported(Nodes(<<Org(101, <<Duns(1)>>)>>), 101), OtherFile>>}
=============================================================================
