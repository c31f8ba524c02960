----------------------------- MODULE Disclosure -----------------------------
(***************************************************************************)
(* What redaction promises, whatever the file looks like.  A fact is a     *)
(* pair: something that a file says, and how sensitive its author made it  *)
(* (0 public, 1 restricted, 2 confidential).  The level is the strictest   *)
(* audience the file was prepared for (0 internal, 1 partner, 2 public).   *)
(***************************************************************************)
EXTENDS Integers

VARIABLES
  shown,   \* the facts the file still says
  level    \* the strictest audience so far

vars == <<shown, level>>

Suits(fact, audience) == fact[2] + audience <= 2

Init ==
  /\ \A fact \in shown : fact[2] \in 0 .. 2
  /\ level = 0

\* Preparing a file for an audience removes facts, all unsuitable ones among
\* them, and adds none; it never forgets a stricter audience of the past.
Prepare(audience) ==
  /\ level' = IF audience > level THEN audience ELSE level
  /\ shown' \subseteq {fact \in shown : Suits(fact, level')}

Next == \E audience \in 0 .. 2 : Prepare(audience)

Spec == Init /\ [][Next]_vars

(* A file says nothing that is too sensitive for an audience it was        *)
(* prepared for.                                                           *)
NothingUnsuitable == \A fact \in shown : Suits(fact, level)
=============================================================================
