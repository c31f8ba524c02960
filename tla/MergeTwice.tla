----------------------------- MODULE MergeTwice -----------------------------
(***************************************************************************)
(* Two merges of the same files, one after the other.  The second process  *)
(* hashes its keys with a seed of its own, so the buckets may come in      *)
(* another order.                                                          *)
(***************************************************************************)
CONSTANTS None, Open, Inputs, Threshold, GroupSizeLimit

VARIABLES
  files1, allNodes1, allEdges1, phase1, todo1, pairs1, cursor1, forest1,
  edgeForest1, nodeOrder1, edgeOrder1, warnings1, nodes1, edges1, output1,
  files2, allNodes2, allEdges2, phase2, todo2, pairs2, cursor2, forest2,
  edgeForest2, nodeOrder2, edgeOrder2, warnings2, nodes2, edges2, output2

First == INSTANCE MergePipeline WITH
  files <- files1, allNodes <- allNodes1, allEdges <- allEdges1,
  phase <- phase1, todo <- todo1, pairs <- pairs1, cursor <- cursor1,
  forest <- forest1, edgeForest <- edgeForest1, nodeOrder <- nodeOrder1,
  edgeOrder <- edgeOrder1, warnings <- warnings1, nodes <- nodes1,
  edges <- edges1, output <- output1
Second == INSTANCE MergePipeline WITH
  files <- files2, allNodes <- allNodes2, allEdges <- allEdges2,
  phase <- phase2, todo <- todo2, pairs <- pairs2, cursor <- cursor2,
  forest <- forest2, edgeForest <- edgeForest2, nodeOrder <- nodeOrder2,
  edgeOrder <- edgeOrder2, warnings <- warnings2, nodes <- nodes2,
  edges <- edges2, output <- output2

vars1 == <<files1, allNodes1, allEdges1, phase1, todo1, pairs1, cursor1, forest1,
           edgeForest1, nodeOrder1, edgeOrder1, warnings1, nodes1, edges1, output1>>
vars2 == <<files2, allNodes2, allEdges2, phase2, todo2, pairs2, cursor2, forest2,
           edgeForest2, nodeOrder2, edgeOrder2, warnings2, nodes2, edges2, output2>>
vars == <<vars1, vars2>>

Init ==
  /\ First!Init
  /\ Second!Init
  /\ files2 = files1

Next ==
  \/ First!Next /\ UNCHANGED vars2
  \/ phase1 \in First!Final /\ Second!Next /\ UNCHANGED vars1

Spec == Init /\ [][Next]_vars

(* Merging the same files again gives the same file, the salt aside.       *)
(* docs/merge.md:138: "Every merge output must be byte-identical for the   *)
(* same inputs".                                                           *)
SameFilesSameOutput ==
  phase1 = "done" /\ phase2 = "done" => output1 = output2
=============================================================================
