-------------------------- MODULE MCWritePipeline --------------------------
(***************************************************************************)
(* Instances of WritePipeline: every row on the first engine; on a second  *)
(* engine there are only range tombstones, which go to all engines.        *)
(***************************************************************************)
EXTENDS WritePipeline, TLC

CONSTANT e1

OnFirst == [k \in Keys |-> e1]

=============================================================================
