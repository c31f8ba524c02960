-------------------------- MODULE EntityResolution --------------------------
(***************************************************************************)
(* What a merge promises about entities, without indexes, orders or        *)
(* representatives: records are put together one link at a time, and a     *)
(* result is published only when every link is inside one class.           *)
(***************************************************************************)
EXTENDS FiniteSets

VARIABLES
  records,   \* the node records of all files
  links,     \* the pairs of records that denote one entity
  classes,   \* the partition of the records reached so far
  outcome    \* "open", "published" or "rejected"

vars == <<records, links, classes, outcome>>

Init ==
  /\ links \subseteq records \X records
  /\ classes = {{r} : r \in records}
  /\ outcome = "open"

Closed == \A l \in links : \E c \in classes : l[1] \in c /\ l[2] \in c

\* Two classes become one only because a link joins them.
Join ==
  /\ outcome = "open"
  /\ \E l \in links, c, d \in classes :
       /\ l[1] \in c /\ l[2] \in d /\ c # d
       /\ classes' = (classes \ {c, d}) \cup {c \cup d}
  /\ UNCHANGED <<records, links, outcome>>

Publish ==
  /\ outcome = "open"
  /\ Closed
  /\ outcome' = "published"
  /\ UNCHANGED <<records, links, classes>>

Reject ==
  /\ outcome = "open"
  /\ Closed
  /\ outcome' = "rejected"
  /\ UNCHANGED <<records, links, classes>>

Next == Join \/ Publish \/ Reject

Spec == Init /\ [][Next]_vars
FairSpec == Spec /\ WF_vars(Next)
=============================================================================
