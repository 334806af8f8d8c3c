------------------------------ MODULE ArcsetInv ------------------------------
(***************************************************************************)
(* The inductive invariant behind the safety properties of Arcset: what    *)
(* the running command knows at each of its program points, and what the   *)
(* tables and the files owe to each other between commands.                *)
(***************************************************************************)
EXTENDS Arcset

DataSlot  == [group : Nat, stripe : Nat, pos : DataPos]
Placement == [shard : Shards, slot : DataSlot]

\* build-data between the moved file and the written row.
Recording == op.cmd = "build-data" /\ op.pc # "place"

\* Meanwhile it remembers its placement.
CurTyped == Recording => cur \in Placement

\* A DATA row describes the shard it holds.
DataRowsTyped ==
    \A r \in DataRows(rows) :
        r.shard \in Shards /\ r.size = Size[r.shard] /\ r.pos \in DataPos

TypeInv == TypeOK /\ CurTyped /\ DataRowsTyped

\* build-data and make-ec run on an arcset that is building; only make-ec has
\* workers; validate runs alone, on the rows that are still there, and a check
\* it has passed still holds.
CommandInv ==
    /\ op.cmd \in {"build-data", "make-ec"} => arcset.status = "building"
    /\ op.cmd # "make-ec" => DOMAIN work = {}
    /\ val.pc # "idle" => op = Idle /\ val.rows = rows
    /\ val.pc = "write" => ChecksPass

\* Every shard has its bytes somewhere, every DATA and PAD row its file; rows
\* collide neither in their slot nor in their shard, and the partition is the
\* one of the slot.
StoreInv ==
    /\ \A sh \in Shards : sh \in source \/ \E f \in target : f.shard = sh
    /\ DataOnDisk(rows)
    /\ \A r \in rows : r.type = "PAD" => SlotOf(r) \in pads
    /\ \A r, q \in rows : SlotOf(r) = SlotOf(q) => r = q
    /\ \A r, q \in DataRows(rows) : r.shard = q.shard => r = q
    /\ \A r \in rows : r.partition = SlotPartition(SlotOf(r))

\* The file is there before the row, nothing is in the way of the row but the
\* PAD row it replaces, and when the stripe's data changes its parity rows are
\* gone.
RecordInv ==
    Recording =>
        /\ FileAt(cur.shard, cur.slot) \in target
        /\ \A r \in rows : SlotOf(r) = cur.slot => r.type = "PAD"
        /\ ~Placed(cur.shard)
        /\ op.pc = "record" => ParityRows(rows, cur.slot.group, cur.slot.stripe) = {}

\* What a worker of make-ec has achieved for its stripe when it is at pc.
WorkerInv(st) ==
    LET pc     == work[st].pc
        done   == work[st].done
        stripe == StripeRows(rows, st.group, st.stripe)
    IN  /\ pc = "encode" => \A p \in done : ParityFile(rows, st, p) \in parity
        /\ pc \in {"pad", "verify"} => done = {}
        /\ pc \in {"pad", "verify", "metadata", "insert", "done"} => ParityOnDisk(rows, st)
        /\ pc \in {"verify", "metadata", "insert", "done"} =>
             \A p \in DataPos \ DataPosOf(st) : ParitySlot(st, p) \in pads
        /\ pc = "metadata" =>
             \A r \in stripe : /\ r.type = "DATA"
                               /\ r.pos \in done => r.padded = PaddedSize(rows, st)
        /\ pc = "insert" =>
             /\ {r.pos : r \in stripe} = DataPosOf(st) \cup done
             /\ \A r \in stripe : r.padded = PaddedSize(rows, st)
        /\ pc = "done" => {r.pos : r \in stripe} = StripePos

\* A make-ec without a filter has a worker for every stripe with data.
WorkInv ==
    /\ \A st \in DOMAIN work : WorkerInv(st)
    /\ op.cmd = "make-ec" /\ op.full => DataStripes(rows) \subseteq DOMAIN work

\* The inductive invariant of the safety theorems.
SafeInv ==
    /\ TypeInv
    /\ CommandInv
    /\ StoreInv
    /\ RecordInv
    /\ WorkInv
    /\ ParityRowsCurrent
    /\ CompletedProtected

\* What the other properties of rows need besides: parity rows are at parity
\* positions and PAD rows at data positions, in stripes with data, and only make-ec
\* with m > 0 writes them.
RowKinds ==
    /\ \A r \in rows : /\ r.type = "EC" => r.pos \in ParityPos
                       /\ r.type = "PAD" => r.pos \in DataPos /\ M > 0
                       /\ StripeKey(r) \in DataStripes(rows)
    /\ op.cmd = "make-ec" => M > 0
    /\ DOMAIN work \subseteq DataStripes(rows)

\* All data positions of the stripes of group g before stripe s hold DATA.
FilledBefore(g, s) ==
    \A t \in 0 .. s - 1 : DataPosOf([group |-> g, stripe |-> t]) = DataPos

\* A stripe is opened by the shard at its first position.
Opened(sl) == 0 \in DataPosOf(StripeKey(sl))

\* Stripes of a group are opened one after the other.
OrderInv ==
    /\ \A r \in rows : FilledBefore(r.group, r.stripe) /\ Opened(r)
    /\ Recording => /\ FilledBefore(cur.slot.group, cur.slot.stripe)
                    /\ cur.slot.pos = 0 \/ Opened(cur.slot)

\* A partition that holds DATA is not overfilled, and the shard that is being
\* moved still fits.
CapacityInv ==
    /\ IsFiniteSet(rows)
    /\ DataWithinCapacity
    /\ Recording => Fits(rows, cur.slot, Size[cur.shard])
==============================================================================
