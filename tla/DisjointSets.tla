---------------------------- MODULE DisjointSets ----------------------------
(***************************************************************************)
(* What the disjoint-set structure of omts-core promises to its callers    *)
(* (the merge pipeline and the diff engine), without trees or ranks: every *)
(* element has a representative, `union' gives two classes one of their    *)
(* two representatives and touches no other class, `find' answers with the *)
(* representative and changes nothing.                                     *)
(***************************************************************************)
CONSTANTS
  Elem,       \* the ordinals 0 .. n-1 the structure was created with
  NoAnswer    \* the value of `answer' before the first find returns

VARIABLES
  rep,        \* the representative of each element
  call,       \* the call in progress, or Idle
  answer      \* what the latest completed find returned

vars == <<rep, call, answer>>

Idle            == [op |-> "none"]
FindCall(e)     == [op |-> "find", a |-> e, b |-> e]
UnionCall(a, b) == [op |-> "union", a |-> a, b |-> b]
Calls == {FindCall(e) : e \in Elem} \cup {UnionCall(a, b) : a, b \in Elem}

Init ==
  /\ rep = [e \in Elem |-> e]
  /\ call = Idle
  /\ answer = NoAnswer

\* A caller starts an operation; the structure is sequential (&mut self).
Begin(c) ==
  /\ call = Idle
  /\ call' = c
  /\ UNCHANGED <<rep, answer>>

FindReturns ==
  /\ call.op = "find"
  /\ answer' = rep[call.a]
  /\ call' = Idle
  /\ UNCHANGED rep

\* One of the two representatives survives; which one is not promised here.
UnionReturns ==
  /\ call.op = "union"
  /\ \E w \in {rep[call.a], rep[call.b]} :
        rep' = [e \in Elem |-> IF rep[e] \in {rep[call.a], rep[call.b]}
                                 THEN w ELSE rep[e]]
  /\ call' = Idle
  /\ UNCHANGED answer

Next == (\E c \in Calls : Begin(c)) \/ FindReturns \/ UnionReturns

Spec == Init /\ [][Next]_vars
=============================================================================
