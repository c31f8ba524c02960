---------------------------- MODULE MergeClaims ----------------------------
(* What a comment says of a merge and the code of the pipeline does not    *)
(* do, checked on an input on which it fails.                              *)
EXTENDS MergePipeline

(* A merge of valid files passes the validation of its result.             *)
(* merge_pipeline/types.rs:11-12: a failure "should not occur under normal *)
(* operation; if it does it indicates a bug in the pipeline".              *)
NormalMergeSucceeds ==
  phase = "invalid" => \E f \in DOMAIN files : ~L1Valid(files[f])
=============================================================================
