------------------------------ MODULE Placement ------------------------------
(***************************************************************************)
(* The placement arithmetic of an arcset: which partition a position of a  *)
(* stripe lives in, how full a partition is, and which slot build-data     *)
(* gives to the next DATA shard (internal/builddata/build.go).             *)
(*                                                                         *)
(* The t_shard table is passed as `rows', a set of records                 *)
(*   [group, stripe, pos, partition, type, shard, size, padded]            *)
(* A slot is the record [group, stripe, pos].                              *)
(***************************************************************************)
EXTENDS Naturals, FiniteSets, FiniteSetsExt

CONSTANTS K,          \* data positions of a stripe (k of metadata "ec" = "k+m")
          M,          \* parity positions of a stripe
          Layout,     \* "raid3" or "raid5"
          Capacity    \* partition_capacity

\* ec.Config.Validate also bounds k by 24 and restricts m to {0, 2, 4, 6};
\* nothing below depends on more than this.
ASSUME PlacementAssumption ==
    /\ K \in Nat \ {0}
    /\ M \in Nat
    /\ Layout \in {"raid3", "raid5"}
    /\ Capacity \in Nat \ {0}

DataPos   == 0 .. K - 1
ParityPos == K .. K + M - 1
StripePos == 0 .. K + M - 1

Slot == [group : Nat, stripe : Nat, pos : StripePos]

\* Mutant of Partition: the rotation is over the data partitions only.
PartitionRotatedOverK(g, p, s) ==
    g * (K + M) + (IF Layout = "raid5" THEN (p + s) % K ELSE p)

\* The partition of a position: fixed per position under raid3, rotating with
\* the stripe under raid5; every group owns K + M partitions of its own.
Partition(g, p, s) ==
    g * (K + M) + (IF Layout = "raid5" THEN (p + s) % (K + M) ELSE p)

SlotPartition(sl) == Partition(sl.group, sl.pos, sl.stripe)

SlotOf(r) == [group |-> r.group, stripe |-> r.stripe, pos |-> r.pos]

StripeRows(rows, g, s) == {r \in rows : r.group = g /\ r.stripe = s}
DataRows(rows)         == {r \in rows : r.type = "DATA"}
ParityRows(rows, g, s) == {r \in StripeRows(rows, g, s) : r.type = "EC"}

\* The bytes PG accounts to a partition, and whether a shard still fits there.
Used(rows, part) ==
    MapThenSumSet(LAMBDA r : r.size, {r \in rows : r.partition = part})

\* Mutant of Fits: the room left is tested without the shard's own size.
FitsIfNotFull(rows, sl, size) == Used(rows, SlotPartition(sl)) < Capacity

Fits(rows, sl, size) == Used(rows, SlotPartition(sl)) + size <= Capacity

\* s < nextSeq[g]: stripe s or a later one of the group has a row.
Started(rows, g, s) == \E r \in rows : r.group = g /\ r.stripe >= s

\* {nextSeq[g]}: the stripe after the last one that has a row.
NextSeq(rows, g) ==
    {s \in {0} \cup {r.stripe + 1 : r \in {x \in rows : x.group = g}} :
        ~Started(rows, g, s)}

\* A PAD row whose partition has room is reused first, and only with m > 0.
PadSlots(rows, size) ==
    {SlotOf(r) : r \in {x \in rows : /\ M > 0
                                     /\ x.type = "PAD"
                                     /\ x.pos < K
                                     /\ Fits(rows, SlotOf(x), size)}}

\* Mutant of HoleSlots: incomplete stripes are not looked for.
NoHoleSlots(rows, groups, size) == {}

\* An existing stripe of a configured group with a data position that has no
\* row at all.
HoleSlots(rows, groups, size) ==
    {sl \in UNION {[group : {r.group}, stripe : 0 .. r.stripe, pos : DataPos]
                      : r \in {x \in rows : x.group < groups}} :
        /\ \A r \in rows : SlotOf(r) # sl
        /\ Fits(rows, sl, size)}

\* Position 0 of the next stripe of a group, when the shard would fit at every
\* data position of that stripe.  The parity partitions are not looked at.
FreshSlots(rows, groups, size) ==
    {sl \in UNION {[group : {g}, stripe : NextSeq(rows, g), pos : {0}]
                      : g \in 0 .. groups - 1} :
        \A p \in DataPos : Fits(rows, [sl EXCEPT !.pos = p], size)}

\* The slots placement looks at, in the order PAD, hole, new stripe ...
Candidates(rows, groups, size) ==
    IF PadSlots(rows, size) # {} THEN PadSlots(rows, size)
    ELSE IF HoleSlots(rows, groups, size) # {} THEN HoleSlots(rows, groups, size)
    ELSE FreshSlots(rows, groups, size)

\* ... and among those, the first by group, then stripe, then position.
Before(a, b) ==
    \/ a.group < b.group
    \/ a.group = b.group /\ a.stripe < b.stripe
    \/ a.group = b.group /\ a.stripe = b.stripe /\ a.pos <= b.pos

IsPlacedAt(sl, rows, groups, size) ==
    /\ sl \in Candidates(rows, groups, size)
    /\ \A other \in Candidates(rows, groups, size) : Before(sl, other)
==============================================================================
