------------------------------ MODULE MCPipeline ------------------------------
(***************************************************************************)
(* A small instance of Pipeline: two datasets, five shards.                *)
(***************************************************************************)
EXTENDS PipelineInv, TLC

CONSTANTS a, b

OneConfig   == [d \in Datasets |-> "bin"]

\* Three stripes: one more than make-ec has workers at a time.
ThreeAndTwo == a :> 3 @@ b :> 2
MixedSizes  == [sh \in Shards |-> IF sh.dataset = b THEN 1 ELSE sh.seq]
WholeBuilds == {Datasets}
FullOnly    == {[group |-> None, stripe |-> None]}
==============================================================================
