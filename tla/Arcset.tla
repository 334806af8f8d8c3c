-------------------------------- MODULE Arcset --------------------------------
(***************************************************************************)
(* The life of one arcset: append, expand, build-data, make-ec and         *)
(* validate over the PostgreSQL tables t_arcset, r_arcset_dataset_ref and  *)
(* t_shard, and over the files of the arcset's partition directories.      *)
(*                                                                         *)
(* Every SQL statement (or transaction) and every rename, unlink or write  *)
(* that another command can observe is a step of its own, so a crash falls *)
(* between any two of them.  Contents are abstracted to their identity: a  *)
(* DATA file is the shard it holds, a parity file is the set of            *)
(* <<pos, shard>> pairs it was encoded from (None: bytes of no shard,      *)
(* which only Recover brings about).                                       *)
(***************************************************************************)
EXTENDS Placement, Sequences

CONSTANTS Datasets,       \* the built datasets that may be appended
          Count,          \* Count[d]: how many DATA shards dataset d has
          Size,           \* Size[sh]: the file size of a shard
          MaxSize,        \* no file is larger
          Config,         \* Config[d]: its format/compress/shard_max_bytes, as one
                          \* value, or None (Catalog compares key by key)
          InitGroups,     \* group_count at arcset create
          MaxPartitions,  \* 10^partition_width - 1
          BuildScopes,    \* the sets of datasets build-data is called for: all of
                          \* them, or the one of --dataset-uid
          Filters,        \* the --group/--seq filters make-ec is called with
          Parallel,       \* --ec-parallel
          None            \* no shard, no config, no placement (a NULL)

Shards == UNION {[dataset : {d}, seq : 1 .. Count[d]] : d \in Datasets}
Stripe == [group : Nat, stripe : Nat]

\* append refuses a dataset without shards; file sizes come from os.Stat.
ASSUME ArcsetAssumption ==
    /\ Count \in [Datasets -> Nat \ {0}]
    /\ \A sh \in Shards : Size[sh] \in 0 .. MaxSize /\ sh # None
    /\ MaxSize \in Nat
    /\ InitGroups \in Nat \ {0}
    /\ MaxPartitions \in Nat
    /\ BuildScopes \subseteq SUBSET Datasets
    /\ \A f \in Filters : f \in [group : Nat \cup {None}, stripe : Nat \cup {None}]
    /\ Parallel \in Nat \ {0}

VARIABLES
    arcset,   \* the t_arcset row
    rels,     \* r_arcset_dataset_ref in append_order
    frozen,   \* datasets whose SQLite file is read-only
    rows,     \* t_shard
    source,   \* shards still in their dataset's directory
    target,   \* DATA files in the arcset: [shard, group, stripe, pos]
    pads,     \* PAD files in the arcset, by slot
    parity,   \* EC files in the arcset: [group, stripe, pos, cover]
    op,       \* the control-plane command that is running
    cur,      \* the placement build-data is executing
    work,     \* make-ec's stripe workers
    val       \* the validate command that is running

tables == <<arcset, rels, rows>>
files  == <<frozen, source, target, pads, parity>>
vars   == <<arcset, rels, frozen, rows, source, target, pads, parity, op, cur, work, val>>

Idle    == [cmd |-> "none", pc |-> "none", only |-> {}, full |-> FALSE, degraded |-> FALSE]
NoWork  == [st \in {} |-> [pc |-> "done", done |-> {}]]
NotValidating == [pc |-> "idle", stage |-> "all", rows |-> {}, rels |-> <<>>]

\* PGStore.Create
Init ==
    /\ arcset = [status |-> "defined", phase |-> "none", degraded |-> FALSE,
                 groups |-> InitGroups, config |-> None]
    /\ rels = <<>>
    /\ frozen = {}
    /\ rows = {}
    /\ source = Shards
    /\ target = {}
    /\ pads = {}
    /\ parity = {}
    /\ op = Idle
    /\ cur = None
    /\ work = NoWork
    /\ val = NotValidating

Running(cmd, pc) == op.cmd = cmd /\ op.pc = pc

StripeKey(r) == [group |-> r.group, stripe |-> r.stripe]

\* Mutants of DeleteECAndPADShards: the PAD rows stay, the DATA rows go too.
DeletesECOnly(st)   == {r \in rows : StripeKey(r) = st => r.type # "EC"}
DeletesDataToo(st)  == {r \in rows : StripeKey(r) # st}

DeleteECShards(st)       == {r \in rows : StripeKey(r) = st => r.type # "EC"}
DeleteECAndPADShards(st) == {r \in rows : StripeKey(r) = st => r.type = "DATA"}

CompleteBuild(a) ==
    [a EXCEPT !.status = "completed", !.phase = "none", !.degraded = FALSE]

(***************************************************************************)
(* arcset append                                                           *)
(***************************************************************************)

Registered(d) == \E i \in DOMAIN rels : rels[i] = d

\* inheritConfig: the first dataset that has a configuration gives it to the arcset,
\* a later one must agree.  This is written before the registration is tried.
AppendInherit(d) ==
    /\ op = Idle
    /\ op' = [Idle EXCEPT !.cmd = "append", !.pc = "register", !.only = {d}]
    /\ arcset.config = None \/ Config[d] \in {None, arcset.config}
    /\ arcset' = [arcset EXCEPT !.config = IF @ = None THEN Config[d] ELSE @]
    /\ UNCHANGED <<rels, files, rows, cur, work, val>>

Busy == arcset.status = "building" /\ arcset.phase = "ec"

\* AppendDataset, one transaction that holds the arcset row FOR UPDATE.
AppendRegister(d) ==
    /\ Running("append", "register") /\ d \in op.only
    /\ ~Busy
    /\ ~Registered(d)
    /\ rels' = Append(rels, d)
    /\ arcset' = [arcset EXCEPT !.status = "building", !.phase = "data"]
    /\ op' = [op EXCEPT !.pc = "freeze"]
    /\ UNCHANGED <<files, rows, cur, work, val>>

\* A retry finds the relation and commits without touching the status.
AppendKnown(d) ==
    /\ Running("append", "register") /\ d \in op.only
    /\ ~Busy
    /\ Registered(d)
    /\ op' = [op EXCEPT !.pc = "freeze"]
    /\ UNCHANGED <<tables, files, cur, work, val>>

AppendBusy ==
    /\ Running("append", "register")
    /\ Busy
    /\ op' = Idle
    /\ UNCHANGED <<tables, files, cur, work, val>>

\* chmod 0444 of the dataset SQLite.
AppendFreeze ==
    /\ Running("append", "freeze")
    /\ frozen' = frozen \cup op.only
    /\ op' = Idle
    /\ UNCHANGED <<tables, source, target, pads, parity, cur, work, val>>

(***************************************************************************)
(* arcset expand                                                           *)
(***************************************************************************)

Expand(add) ==
    /\ op = Idle
    /\ (arcset.groups + add) * (K + M) <= MaxPartitions
    /\ arcset' = [arcset EXCEPT !.groups = @ + add]
    /\ UNCHANGED <<rels, files, rows, op, cur, work, val>>

(***************************************************************************)
(* arcset build-data [--dataset-uid].  Under the router's serialisation    *)
(* nobody else writes t_shard meanwhile, so the in-memory placementState   *)
(* equals the table and the placement is computed from `rows'.             *)
(***************************************************************************)

\* Mutant of BuildAllowed: the status is not checked.
BuildAnyStatus == op = Idle

BuildAllowed == op = Idle /\ arcset.status = "building" /\ arcset.phase = "data"

BuildStart(only) ==
    /\ BuildAllowed
    /\ op' = [Idle EXCEPT !.cmd = "build-data", !.pc = "place", !.only = only]
    /\ UNCHANGED <<tables, files, cur, work, val>>

Placed(sh) == \E r \in rows : r.type = "DATA" /\ r.shard = sh

Pending ==
    {sh \in Shards : Registered(sh.dataset) /\ sh.dataset \in op.only /\ ~Placed(sh)}

AppendedBefore(d, e) == \E i, j \in DOMAIN rels : i < j /\ rels[i] = d /\ rels[j] = e

\* Mutant of IsNext: the shards are taken in any order.
IsNextAnyOrder(sh) == sh \in Pending

\* Relations in append_order, the shards of one in its sort order.
IsNext(sh) ==
    /\ sh \in Pending
    /\ \A o \in Pending : IF o.dataset = sh.dataset THEN sh.seq <= o.seq
                          ELSE AppendedBefore(sh.dataset, o.dataset)

FileAt(sh, sl) == [shard |-> sh, group |-> sl.group, stripe |-> sl.stripe, pos |-> sl.pos]

\* place() looks for parity rows to invalidate when it fills a position of a
\* stripe that existed before.
Invalidates(sl) == Started(rows, sl.group, sl.stripe) /\ ParityRows(rows, sl.group, sl.stripe) # {}

\* Mutant of AfterMove: a refill leaves the parity rows.
AfterMoveKeepsParity(sl) == "record"

AfterMove(sl) == IF Invalidates(sl) THEN "invalidate" ELSE "record"

Placing(sh, sl) ==
    /\ Running("build-data", "place")
    /\ IsNext(sh)
    /\ IsPlacedAt(sl, rows, arcset.groups, Size[sh])

\* Mutants of AlreadyMoved: a missing source is taken for a finished move, and
\* the target is never looked at.
SourceGone(sh, sl) == FileAt(sh, sl) \in target \/ sh \notin source
NeverMoved(sh, sl) == FALSE

\* moveFile checks for the file at the target path, with the right checksum.
AlreadyMoved(sh, sl) == FileAt(sh, sl) \in target

\* Moved by an earlier attempt: only a left-over source is removed.
MoveVerified(sh, sl) ==
    /\ Placing(sh, sl)
    /\ AlreadyMoved(sh, sl)
    /\ source' = source \ {sh}
    /\ cur' = [shard |-> sh, slot |-> sl]
    /\ op' = [op EXCEPT !.pc = AfterMove(sl)]
    /\ UNCHANGED <<tables, frozen, target, pads, parity, work, val>>

MoveRename(sh, sl) ==
    /\ Placing(sh, sl)
    /\ ~AlreadyMoved(sh, sl)
    /\ sh \in source
    /\ source' = source \ {sh}
    /\ target' = target \cup {FileAt(sh, sl)}
    /\ cur' = [shard |-> sh, slot |-> sl]
    /\ op' = [op EXCEPT !.pc = AfterMove(sl)]
    /\ UNCHANGED <<tables, frozen, pads, parity, work, val>>

\* Across file systems: copy to a temporary name, verify, rename ...
MoveCopy(sh, sl) ==
    /\ Placing(sh, sl)
    /\ ~AlreadyMoved(sh, sl)
    /\ sh \in source
    /\ target' = target \cup {FileAt(sh, sl)}
    /\ cur' = [shard |-> sh, slot |-> sl]
    /\ op' = [op EXCEPT !.pc = "unlink"]
    /\ UNCHANGED <<tables, frozen, source, pads, parity, work, val>>

\* ... and only then remove the source.
MoveUnlink ==
    /\ Running("build-data", "unlink")
    /\ source' = source \ {cur.shard}
    /\ op' = [op EXCEPT !.pc = AfterMove(cur.slot)]
    /\ UNCHANGED <<tables, frozen, target, pads, parity, cur, work, val>>

\* Neither a source nor a file at the chosen target: build-data returns.
MoveFails(sh, sl) ==
    /\ Placing(sh, sl)
    /\ ~AlreadyMoved(sh, sl)
    /\ sh \notin source
    /\ op' = Idle
    /\ UNCHANGED <<tables, files, cur, work, val>>

\* No slot has room: the command returns before it reaches SetParityDegraded.
BuildRefused(sh) ==
    /\ Running("build-data", "place")
    /\ IsNext(sh)
    /\ Candidates(rows, arcset.groups, Size[sh]) = {}
    /\ op' = Idle
    /\ UNCHANGED <<tables, files, cur, work, val>>

BuildInvalidate ==
    /\ Running("build-data", "invalidate")
    /\ rows' = DeleteECShards(StripeKey(cur.slot))
    /\ op' = [op EXCEPT !.pc = "record", !.degraded = TRUE]
    /\ UNCHANGED <<arcset, rels, files, cur, work, val>>

DataRow(sh, sl) ==
    [group |-> sl.group, stripe |-> sl.stripe, pos |-> sl.pos,
     partition |-> SlotPartition(sl), type |-> "DATA", shard |-> sh,
     size |-> Size[sh], padded |-> 0]

\* UpdateShardData turns the PAD row into the DATA row, InsertShard adds one.
BuildRecord ==
    /\ Running("build-data", "record")
    /\ rows' = (rows \ {r \in rows : r.type = "PAD" /\ SlotOf(r) = cur.slot})
                  \cup {DataRow(cur.shard, cur.slot)}
    /\ cur' = None
    /\ op' = [op EXCEPT !.pc = "place"]
    /\ UNCHANGED <<arcset, rels, files, work, val>>

BuildFinish ==
    /\ Running("build-data", "place")
    /\ Pending = {}
    /\ arcset' = [arcset EXCEPT !.degraded = @ \/ op.degraded]
    /\ op' = Idle
    /\ UNCHANGED <<rels, files, rows, cur, work, val>>

(***************************************************************************)
(* arcset make-ec [--group] [--seq] [--ec-parallel]                        *)
(***************************************************************************)

StripeData(rs, st)  == DataRows(StripeRows(rs, st.group, st.stripe))

\* What the parity of a stripe is computed from; an empty shard adds nothing.
Cover(rs, st)       == {<<r.pos, r.shard>> : r \in {x \in StripeData(rs, st) : x.size > 0}}
PaddedSize(rs, st)  == Max({r.size : r \in StripeData(rs, st)} \cup {0})


\* groupStripes: only stripes with a DATA row are encoded.
DataStripes(rs) == {StripeKey(r) : r \in DataRows(rs)}

Matches(filter, st) ==
    /\ filter.group \in {None, st.group}
    /\ filter.stripe \in {None, st.stripe}

MakeECAllowed ==
    /\ op = Idle
    /\ arcset.status = "building"
    /\ arcset.phase \in {"data", "ec"}

\* Every DATA file is at the path its row names, with the row's checksum.
DataOnDisk(rs) == \A r \in DataRows(rs) : FileAt(r.shard, SlotOf(r)) \in target

\* m = 0: validate the DATA shards and complete.
MakeECWithoutParity ==
    /\ MakeECAllowed
    /\ M = 0
    /\ DataOnDisk(rows)
    /\ arcset' = CompleteBuild(arcset)
    /\ UNCHANGED <<rels, files, rows, op, cur, work, val>>

\* SetBuildPhase("ec") precedes the filtering, so a filter that matches no
\* stripe is an error that leaves building/ec behind.
MakeECStart(filter) ==
    LET todo == {st \in DataStripes(rows) : Matches(filter, st)}
    IN  /\ MakeECAllowed
        /\ M > 0
        /\ DataStripes(rows) # {}
        /\ arcset' = [arcset EXCEPT !.status = "building", !.phase = "ec"]
        /\ work' = [st \in todo |-> [pc |-> "wait", done |-> {}]]
        /\ op' = IF todo = {} THEN Idle
                 ELSE [Idle EXCEPT !.cmd = "make-ec", !.pc = "stripes",
                                   !.full = (filter = [group |-> None, stripe |-> None])]
        /\ UNCHANGED <<rels, files, rows, cur, val>>

\* Mutants of Holding (a worker that fails keeps its place in the semaphore) and of
\* Failed (an error of a worker is dropped).
HoldingForEver == {st \in DOMAIN work : work[st].pc \notin {"wait", "done"}}
ErrorsDropped  == {}

At(st, pc) == Running("make-ec", "stripes") /\ work[st].pc = pc
Active     == {st \in DOMAIN work : work[st].pc \notin {"wait", "done", "failed"}}
Failed     == {st \in DOMAIN work : work[st].pc = "failed"}
Holding    == Active    \* each has put its token in sem until it returns
EarlierStripe(a, b) ==
    a.group < b.group \/ (a.group = b.group /\ a.stripe < b.stripe)

\* Serial: in order, and not after an error.  Parallel: any stripe, as long as
\* there is room in the semaphore; an error elsewhere stops nobody.
StripeStart(st) ==
    /\ At(st, "wait")
    /\ Cardinality(Holding) < Parallel
    /\ Parallel = 1 =>
         /\ Failed = {}
         /\ \A other \in DOMAIN work :
                work[other].pc = "wait" => ~EarlierStripe(other, st)
    /\ work' = [work EXCEPT ![st] = [pc |-> "encode", done |-> {}]]
    /\ UNCHANGED <<tables, files, op, cur, val>>

ParitySlot(st, p) == [group |-> st.group, stripe |-> st.stripe, pos |-> p]

\* A worker goes through the positions P one statement or rename at a time.
Left(st, P) == P \ work[st].done

IsFirst(p, S) == p \in S /\ \A q \in S : p <= q

Advance(st, P, p, then) ==
    [work EXCEPT ![st] =
        IF Left(st, P) = {p} THEN [pc |-> then, done |-> {}]
        ELSE [pc |-> work[st].pc, done |-> work[st].done \cup {p}]]

\* Mutant of ParityFile: positions counted from one.
ParityFileFromOne(rs, st, p) ==
    [group |-> st.group, stripe |-> st.stripe, pos |-> p + 1, cover |-> Cover(rs, st)]

\* The parity of position p over the DATA rows of the stripe.
ParityFile(rs, st, p) ==
    [group |-> st.group, stripe |-> st.stripe, pos |-> p, cover |-> Cover(rs, st)]

DataPosOf(st) == {r.pos : r \in StripeData(rows, st)}

\* EncodeStripeStreaming: the parity is computed into temporaries; each one is
\* then renamed over the old EC file, one at a time.
StripeEncode(st, p) ==
    /\ At(st, "encode")
    /\ IsFirst(p, Left(st, ParityPos))
    /\ DataOnDisk(StripeData(rows, st))
    /\ parity' = {f \in parity : SlotOf(f) # ParitySlot(st, p)}
                   \cup {ParityFile(rows, st, p)}
    /\ work' = Advance(st, ParityPos, p, "pad")
    /\ UNCHANGED <<tables, frozen, source, target, pads, op, cur, val>>

\* Zero-byte PAD files for the data positions without a DATA row.
StripePad(st) ==
    /\ At(st, "pad")
    /\ pads' = pads \cup {ParitySlot(st, p) : p \in DataPos \ DataPosOf(st)}
    /\ work' = [work EXCEPT ![st].pc = "verify"]
    /\ UNCHANGED <<tables, frozen, source, target, parity, op, cur, val>>

ParityOnDisk(rs, st) == \A p \in ParityPos : ParityFile(rs, st, p) \in parity

\* VerifyStripeStreaming: every file opens, and the parity is that of the data.
FilesAgree(st) ==
    /\ DataOnDisk(StripeData(rows, st))
    /\ \A p \in DataPos \ DataPosOf(st) : ParitySlot(st, p) \in pads
    /\ ParityOnDisk(rows, st)

\* The new files are verified, then DeleteECAndPADShards.
StripeVerify(st) ==
    /\ At(st, "verify")
    /\ FilesAgree(st)
    /\ rows' = DeleteECAndPADShards(st)
    /\ work' = [work EXCEPT ![st].pc = "metadata"]
    /\ UNCHANGED <<arcset, rels, files, op, cur, val>>

\* UpdateShardMetadata of the DATA rows (a Go map, in any order): padded_size.
StripeMetadata(st, p) ==
    /\ At(st, "metadata")
    /\ p \in Left(st, DataPosOf(st))
    /\ rows' = {IF SlotOf(r) = ParitySlot(st, p)
                THEN [r EXCEPT !.padded = PaddedSize(rows, st)] ELSE r : r \in rows}
    /\ work' = Advance(st, DataPosOf(st), p, "insert")
    /\ UNCHANGED <<arcset, rels, files, op, cur, val>>

NewRow(st, p) ==
    LET padded == PaddedSize(rows, st)
    IN  [group |-> st.group, stripe |-> st.stripe, pos |-> p,
         partition |-> Partition(st.group, p, st.stripe),
         type |-> IF p < K THEN "PAD" ELSE "EC", shard |-> None,
         size |-> IF p < K THEN 0 ELSE padded, padded |-> padded]

\* InsertShard of the PAD rows, then of the EC rows, in position order.
Inserts(st, p) ==
    /\ At(st, "insert")
    /\ IsFirst(p, Left(st, StripePos \ DataPosOf(st)))

StripeInsert(st, p) ==
    /\ Inserts(st, p)
    /\ rows' = rows \cup {NewRow(st, p)}
    /\ work' = Advance(st, StripePos \ DataPosOf(st), p, "done")
    /\ UNCHANGED <<arcset, rels, files, op, cur, val>>

\* An I/O or SQL error, or a failed verification, ends a worker anywhere.
StripeFail(st) ==
    /\ Running("make-ec", "stripes")
    /\ st \in Active
    /\ work' = [work EXCEPT ![st].pc = "failed"]
    /\ UNCHANGED <<tables, files, op, cur, val>>

MakeECFinish ==
    /\ Running("make-ec", "stripes")
    /\ Active = {}
    /\ \/ \A st \in DOMAIN work : work[st].pc # "wait"
       \/ Parallel = 1 /\ Failed # {}
    /\ arcset' = IF Failed = {} /\ op.full THEN CompleteBuild(arcset) ELSE arcset
    /\ op' = Idle
    /\ work' = NoWork
    /\ UNCHANGED <<rels, files, rows, cur, val>>

(***************************************************************************)
(* arcset validate --stage=data|ec|all                                     *)
(***************************************************************************)

ValidateRead(stage) ==
    /\ val.pc = "idle"
    /\ stage = "ec" => M > 0
    /\ val' = [pc |-> "check", stage |-> stage, rows |-> rows, rels |-> rels]
    /\ UNCHANGED <<tables, files, op, cur, work>>

\* validateShardCounts, against the shard_count each dataset registered with.
CountsComplete(rs, rl) ==
    \A i \in DOMAIN rl :
        Cardinality({r \in DataRows(rs) : r.shard.dataset = rl[i]}) >= Count[rl[i]]

\* validateEC of one stripe: all k + m rows, a padded size, matching parity.
StripeValid(rs, st) ==
    LET stripe == StripeRows(rs, st.group, st.stripe)
    IN  /\ {r.pos : r \in stripe} = StripePos
        /\ \E r \in stripe : r.padded > 0 \/ (r.type = "EC" /\ r.size > 0)
        /\ \A r \in stripe : r.type = "PAD" => SlotOf(r) \in pads
        /\ DataOnDisk(stripe)
        /\ ParityOnDisk(rs, st)

ChecksPass ==
    /\ val.stage \in {"data", "all"} => DataOnDisk(val.rows)
    /\ val.stage = "all" => CountsComplete(val.rows, val.rels)
    /\ (M > 0 /\ val.stage \in {"ec", "all"}) =>
           \A st \in {StripeKey(r) : r \in val.rows} : StripeValid(val.rows, st)

ValidatePasses ==
    /\ val.pc = "check"
    /\ ChecksPass
    /\ val' = [val EXCEPT !.pc = "write"]
    /\ UNCHANGED <<tables, files, op, cur, work>>

\* A failed check, or any other error, returns and writes nothing.
ValidateFails ==
    /\ val.pc # "idle"
    /\ val' = NotValidating
    /\ UNCHANGED <<tables, files, op, cur, work>>

\* CompleteBuild, whatever the status is; or SetParityDegraded(false); or, for
\* the data stage, only the health, which is "ok" already.
ValidateWrite ==
    /\ val.pc = "write"
    /\ arcset' = CASE val.stage = "all"  -> CompleteBuild(arcset)
                   [] val.stage = "ec"   -> [arcset EXCEPT !.degraded = FALSE]
                   [] val.stage = "data" -> arcset
    /\ val' = NotValidating
    /\ UNCHANGED <<rels, files, rows, op, cur, work>>

(***************************************************************************)
(* Faults and the specification                                            *)
(***************************************************************************)

\* The process dies, or any other error makes the command return early: its
\* memory is gone, the tables and the files stay as they are.
Crash ==
    /\ op # Idle
    /\ op' = Idle
    /\ cur' = None
    /\ work' = NoWork
    /\ UNCHANGED <<tables, files, val>>

Fault == Crash \/ \E st \in DOMAIN work : StripeFail(st)

AppendStep ==
    \/ \E d \in Datasets : AppendInherit(d) \/ AppendRegister(d) \/ AppendKnown(d)
    \/ AppendBusy
    \/ AppendFreeze

BuildStep ==
    \/ \E only \in BuildScopes : BuildStart(only)
    \/ \E sh \in Shards :
         \/ BuildRefused(sh)
         \/ \E sl \in Candidates(rows, arcset.groups, Size[sh]) :
              MoveVerified(sh, sl) \/ MoveRename(sh, sl) \/ MoveCopy(sh, sl) \/ MoveFails(sh, sl)
    \/ MoveUnlink
    \/ BuildInvalidate
    \/ BuildRecord
    \/ BuildFinish

StripeStep ==
    \E st \in DOMAIN work :
        \/ StripeStart(st) \/ StripePad(st) \/ StripeVerify(st)
        \/ \E p \in StripePos :
             StripeEncode(st, p) \/ StripeMetadata(st, p) \/ StripeInsert(st, p)

MakeECStep ==
    \/ MakeECWithoutParity
    \/ \E filter \in Filters : MakeECStart(filter)
    \/ StripeStep
    \/ MakeECFinish

ValidateStep ==
    \/ \E stage \in {"data", "ec", "all"} : ValidateRead(stage)
    \/ ValidatePasses \/ ValidateFails \/ ValidateWrite

ControlStep ==
    \/ AppendStep
    \/ \E add \in 1 .. MaxPartitions : Expand(add)
    \/ BuildStep
    \/ MakeECStep
    \/ Fault

\* The router runs one command of an arcset at a time.
Next ==
    \/ val.pc = "idle" /\ ControlStep
    \/ op = Idle /\ ValidateStep

Spec == Init /\ [][Next]_vars

(***************************************************************************)
(* Types                                                                   *)
(***************************************************************************)

Row == [group : Nat, stripe : Nat, pos : StripePos, partition : Nat,
        type : {"DATA", "PAD", "EC"}, shard : Shards \cup {None},
        size : Nat, padded : Nat]

ArcsetRow == [status : {"defined", "building", "completed"},
              phase : {"none", "data", "ec"}, degraded : BOOLEAN,
              groups : Nat \ {0}, config : {Config[d] : d \in Datasets} \cup {None}]

Command == [cmd : {"none", "append", "build-data", "make-ec"},
            pc : {"none", "register", "freeze", "place", "unlink", "invalidate",
                  "record", "stripes"},
            only : SUBSET Datasets, full : BOOLEAN, degraded : BOOLEAN]

Worker == [pc : {"wait", "encode", "pad", "verify", "metadata", "insert", "done", "failed"},
           done : SUBSET StripePos]

\* Every variable of the model holds a value of the table, file set or command
\* it stands for.
TypeOK ==
    /\ arcset \in ArcsetRow
    /\ rels \in Seq(Datasets)
    /\ frozen \subseteq Datasets
    /\ rows \subseteq Row
    /\ source \subseteq Shards
    /\ target \subseteq [shard : Shards, group : Nat, stripe : Nat, pos : DataPos]
    /\ pads \subseteq Slot
    /\ parity \subseteq [group : Nat, stripe : Nat, pos : StripePos,
                         cover : SUBSET (DataPos \X (Shards \cup {None}))]
    /\ op \in Command
    /\ cur \in [shard : Shards, slot : Slot] \cup {None}
    /\ DOMAIN work \subseteq Stripe
    /\ work \in [DOMAIN work -> Worker]
    /\ val.pc \in {"idle", "check", "write"}
    /\ val.stage \in {"data", "ec", "all"}
    /\ val.rows \subseteq Row
    /\ val.rels \in Seq(Datasets)

(***************************************************************************)
(* Safety                                                                  *)
(***************************************************************************)

\* No INSERT or UPDATE of build-data or make-ec ever meets a unique index of
\* t_shard: (arcset, group, stripe, pos), (arcset, partition, stripe_seq), and
\* (dataset_ref, seq) of DATA rows, whatever was crashed, retried or refilled.
UniqueRows ==
    /\ \A r, q \in rows : r # q =>
        /\ SlotOf(r) # SlotOf(q)
        /\ ~(r.partition = q.partition /\ r.stripe = q.stripe)
        /\ ~(r.type = "DATA" /\ q.type = "DATA" /\ r.shard = q.shard)
    /\ \A st \in DOMAIN work, p \in StripePos :
        Inserts(st, p) => \A r \in rows : SlotOf(r) # ParitySlot(st, p)

\* Moving a shard never loses it: at every instant its bytes are in the
\* dataset's directory or at a path of the arcset, and a DATA row names a path
\* that holds the shard.
EveryShardStored ==
    /\ \A sh \in Shards : sh \in source \/ \E f \in target : f.shard = sh
    /\ DataOnDisk(rows)

\* A parity row in PG is never stale: while it is there, its file is on disk
\* and encodes exactly the DATA rows of the stripe, and the whole stripe agrees
\* on the padded size -- between any two statements of build-data and make-ec.
ParityRowsCurrent ==
    \A e \in {r \in rows : r.type = "EC"} :
        /\ ParityFile(rows, StripeKey(e), e.pos) \in parity
        /\ e.size = PaddedSize(rows, StripeKey(e))
        /\ \A r \in StripeRows(rows, e.group, e.stripe) : r.padded = e.size

\* A completed arcset can lose any m files of a stripe: every stripe with data
\* has a row and a file at each of its k + m positions, and the parity files
\* cover exactly the data that is there now.
Protected(st) ==
    LET stripe == StripeRows(rows, st.group, st.stripe)
    IN  /\ M > 0 => {r.pos : r \in stripe} = StripePos
        /\ \A r \in stripe : r.type = "PAD" => SlotOf(r) \in pads
        /\ DataOnDisk(stripe)
        /\ ParityOnDisk(rows, st)

CompletedProtected ==
    arcset.status = "completed" => \A st \in DataStripes(rows) : Protected(st)

\* No partition that holds DATA holds more than its capacity, where parity has
\* partitions of its own (raid3) or there is none (m = 0).  Under raid5 make-ec puts
\* its files beside the data without looking at what is left.
DataWithinCapacity ==
    \A r \in DataRows(rows) : Used(rows, r.partition) <= Capacity

\* Crash and retry: whatever placement chooses for the next shard, the shard is
\* still in the dataset's directory or already at exactly that place, so build-data
\* cannot reach the error of MoveFails.  So it is when the pipeline calls a failed
\* command again; another dataset's build-data in between breaks it (ArcsetClaims).
RetryFindsShard ==
    \A sh \in Shards : \A sl \in Candidates(rows, arcset.groups, Size[sh]) :
        Placing(sh, sl) => sh \in source \/ FileAt(sh, sl) \in target

\* A group has at most one open stripe, its last: every earlier stripe has DATA
\* at all k positions, so a partition is written in stripe order and refilling
\* PADs never has two stripes of a group to choose from.
StripesFilledInOrder ==
    \A st \in DataStripes(rows) :
        Started(rows, st.group, st.stripe + 1) =>
            DataPosOf(st) = DataPos

\* Once a DATA row is written, its shard keeps its slot for ever: no refill,
\* recomputation, expansion or retry moves or drops it.
DataRowsStable ==
    [][\A r \in DataRows(rows) : \E q \in DataRows(rows') :
            q.shard = r.shard /\ SlotOf(q) = SlotOf(r)]_vars

\* What was exported stays valid: while the arcset remains completed, no row,
\* no DATA file and no parity file changes.
CompletedContentStable ==
    [][(arcset.status = "completed" /\ arcset'.status = "completed") =>
            rows' = rows /\ target' = target /\ parity' = parity]_vars

\* Every command returns, with or without an error: the shard loop of build-data
\* runs dry or is refused, and every stripe of make-ec gets its place in the
\* semaphore and ends, however many workers before it have failed.
CommandTerminates == op # Idle ~> op = Idle
==============================================================================
