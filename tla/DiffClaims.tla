----------------------------- MODULE DiffClaims -----------------------------
(* What documents and comments say of the diff and the code does not do.     *)
EXTENDS Diff

(* A pair of edges joins a pair of source nodes and a pair of target nodes, *)
(* each in one match group, with no word of what ids the files use          *)
(* (docs/diff.md section 2.2: "Their source nodes belong to the same        *)
(* union-find match group").  The code asks a map in which an id of the     *)
(* second file stands for the node of that id in the first file, too.       *)
EdgeEndsShareGroups == EdgesJoinMatchedNodes

Ended(id) == id.to \notin {None, Open}

(* Two records of one identifier pair their nodes unless both have an end: *)
(* a period without one is never apart from another (comment on            *)
(* temporal_compatible, identity/predicates.rs:71-75; merge-semantics.md   *)
(* section 2; docs/diff.md section 2.1: "Temporal validity periods overlap *)
(* (or at least one is open-ended)").  The code looks at the end of one    *)
(* and the begin of the other only.                                        *)
OpenEndNeverSeparates ==
  stage = "edges" =>
    \A i \in Active(a), j \in Active(b) :
      \A x \in RecordsOf(a.nodes[i]), y \in RecordsOf(b.nodes[j]) :
        CanonicalId(x) = CanonicalId(y) /\ SameAuthority(x, y) /\ ~(Ended(x) /\ Ended(y))
          => <<i, j>> \in nodes.matched
=============================================================================
