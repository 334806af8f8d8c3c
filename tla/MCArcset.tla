------------------------------- MODULE MCArcset -------------------------------
(***************************************************************************)
(* Small instances of Arcset.  A partition holds Capacity = 3 units.       *)
(***************************************************************************)
EXTENDS ArcsetInv, ArcsetClaims, ArcsetRefines, ArcsetReports, TLC

CONSTANTS a, b

OneConfig == [d \in Datasets |-> "bin"]

TwoAndOne == a :> 2 @@ b :> 1

\* a's second shard is the large one: two stripes share the group, and the
\* padded size of a stripe depends on who fills it.
MixedSizes == [sh \in Shards |-> IF sh.dataset = b THEN 1 ELSE sh.seq]

\* One shard fills a partition.
TwoUnits == [sh \in Shards |-> 2]

\* The third shard opens the second stripe; once the parity of the first is there,
\* that stripe does not fit the group and waits for the group expand adds.
SkewedSizes == [sh \in Shards |-> IF sh.seq = 2 THEN 1 ELSE 2]

WholeBuilds == {Datasets}
LateBuilds  == {Datasets, {b}}
AnyBuilds   == {Datasets} \cup {{d} : d \in Datasets}

AllStripes == [group |-> None, stripe |-> None]
FullOnly   == {AllStripes}
AnyFilter  == {AllStripes, [group |-> 0, stripe |-> 1]}
==============================================================================
