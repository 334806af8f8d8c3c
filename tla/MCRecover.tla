------------------------------- MODULE MCRecover -------------------------------
(***************************************************************************)
(* One stripe of two datasets: the second one refills the PAD of the first.*)
(***************************************************************************)
EXTENDS RecoverInv, TLC

CONSTANTS a, b

OneEach   == a :> 1 @@ b :> 1
OneConfig == [d \in Datasets |-> "bin"]

\* The refill is the larger shard, so the padded size grows.
SmallThenLarge == [sh \in Shards |-> IF sh.dataset = a THEN 1 ELSE 2]

\* Bound: the one stripe there is has not been spoiled; once it is, it stays so, and
\* the properties say nothing of it.
NotSpoiled == spoiled = {}

WholeBuilds == {Datasets}
FullOnly    == {[group |-> None, stripe |-> None]}
==============================================================================
