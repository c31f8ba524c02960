-------------------------- MODULE DisclosureProofs --------------------------
(***************************************************************************)
(* What follows from the abstract specification of redaction, for any set  *)
(* of facts.                                                               *)
(***************************************************************************)
EXTENDS Disclosure, TLAPS

LevelInv == level \in 0 .. 2 /\ \A fact \in shown : fact[2] \in 0 .. 2

(* However often a file is prepared, and for whatever audiences in         *)
(* whatever order, it says nothing that is too sensitive for one of them.  *)
THEOREM NothingUnsuitableEver == Spec => [](LevelInv /\ NothingUnsuitable)
<1>1. Init => LevelInv /\ NothingUnsuitable
  BY DEF Init, LevelInv, NothingUnsuitable, Suits
<1>2. LevelInv /\ NothingUnsuitable /\ [Next]_vars => (LevelInv /\ NothingUnsuitable)'
  <2> SUFFICES ASSUME LevelInv, NothingUnsuitable, [Next]_vars
               PROVE  (LevelInv /\ NothingUnsuitable)'
    OBVIOUS
  <2>1. ASSUME NEW audience \in 0 .. 2, Prepare(audience)
        PROVE  (LevelInv /\ NothingUnsuitable)'
    BY <2>1 DEF Prepare, LevelInv, NothingUnsuitable, Suits
  <2>2. CASE UNCHANGED vars
    BY <2>2 DEF vars, LevelInv, NothingUnsuitable, Suits
  <2> QED
    BY <2>1, <2>2 DEF Next
<1> QED
  BY <1>1, <1>2, PTL DEF Spec

(* A file never says again what an earlier version of it did not say, and  *)
(* what it may say only shrinks: no order of redactions widens it.         *)
OnlyShrinks == shown' \subseteq shown /\ level' >= level

THEOREM DisclosureOnlyShrinks == Spec => [][OnlyShrinks]_vars
<1>1. LevelInv /\ [Next]_vars => [OnlyShrinks]_vars
  <2> SUFFICES ASSUME LevelInv, Next PROVE OnlyShrinks
    OBVIOUS
  <2> QED
    BY DEF Next, Prepare, LevelInv, OnlyShrinks
<1> QED
  BY <1>1, NothingUnsuitableEver, PTL DEF Spec
=============================================================================
