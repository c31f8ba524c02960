---------------------------- MODULE MCMergeTwice ----------------------------
(* An input whose result depends on the order of the buckets.                *)
EXTENDS MergeTwice

Files == INSTANCE MCFiles

\* Two periods of one identifier, and a group found in two ways.
TiedInputs == {Files!OrderInput(<<>>)}
=============================================================================
