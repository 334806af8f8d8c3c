--------------------------- MODULE PipelineProofs ----------------------------
(***************************************************************************)
(* The pipeline calls the commands of an arcset as Arcset describes them,  *)
(* and a build-data that follows a failed one finds every shard the failed *)
(* one moved.                                                              *)
(***************************************************************************)
EXTENDS PipelineInv, ArcsetSafety

(***************************************************************************)
(* Placement                                                               *)
(***************************************************************************)

\* Two placements of the same candidates are the same one.
LEMMA PlacedOnce ==
    ASSUME NEW rs \in SUBSET Row, NEW groups \in Nat, NEW size, NEW a, NEW b,
           IsPlacedAt(a, rs, groups, size), IsPlacedAt(b, rs, groups, size)
    PROVE  a = b
<1>1. a \in DataSlot /\ b \in DataSlot  BY CandidatesType DEF IsPlacedAt
<1>2. Before(a, b) /\ Before(b, a)  BY DEF IsPlacedAt
<1>3. a.group = b.group /\ a.stripe = b.stripe /\ a.pos = b.pos
  <2>1. /\ a.group \in Nat /\ a.stripe \in Nat /\ a.pos \in Nat
        /\ b.group \in Nat /\ b.stripe \in Nat /\ b.pos \in Nat
    BY <1>1, PosTypes DEF DataSlot
  <2> QED  BY <1>2, <2>1 DEF Before
<1> QED  BY <1>1, <1>3 DEF DataSlot

\* The open positions of a group are all in its last stripe.
LEMMA PadsTogether ==
    ASSUME SafeInv, OrderInv, NEW x \in rows, NEW y \in rows,
           x.type = "PAD", y.type = "PAD", x.pos \in DataPos, y.pos \in DataPos, x.group = y.group
    PROVE  x.stripe = y.stripe
<1>1. ASSUME NEW u \in rows, NEW v \in rows, u.type = "PAD", u.pos \in DataPos, u.group = v.group
      PROVE  ~(u.stripe < v.stripe)
  <2> SUFFICES ASSUME u.stripe < v.stripe PROVE FALSE  OBVIOUS
  <2>1. u.stripe \in Nat /\ v.stripe \in Nat  BY DEF SafeInv, TypeInv, TypeOK, Row
  <2>2. DataPosOf([group |-> v.group, stripe |-> u.stripe]) = DataPos
    BY <2>1 DEF OrderInv, FilledBefore
  <2>3. PICK d \in rows : d.type = "DATA" /\ d.group = u.group /\ d.stripe = u.stripe /\ d.pos = u.pos
    BY <1>1, <2>2 DEF DataPosOf, StripeData, StripeRows, DataRows
  <2>4. d = u  BY <2>3 DEF SafeInv, StoreInv, SlotOf
  <2> QED  BY <1>1, <2>3, <2>4
<1>2. x.stripe \in Nat /\ y.stripe \in Nat  BY DEF SafeInv, TypeInv, TypeOK, Row
<1> QED  BY <1>1, <1>2

\* append_order and the sort order of a dataset name one shard as the first.
LEMMA FirstOnce ==
    ASSUME rels \in Seq(Datasets), \A i, j \in DOMAIN rels : rels[i] = rels[j] => i = j,
           NEW a, NEW b, FirstUnplaced(a), FirstUnplaced(b)
    PROVE  a = b
<1>1. a \in Unplaced /\ b \in Unplaced /\ a \in Shards /\ b \in Shards
  BY DEF FirstUnplaced, Unplaced
<1>2. a.dataset = b.dataset
  <2> SUFFICES ASSUME a.dataset # b.dataset PROVE FALSE  OBVIOUS
  <2>1. AppendedBefore(a.dataset, b.dataset) /\ AppendedBefore(b.dataset, a.dataset)
    BY <1>1 DEF FirstUnplaced
  <2>2. PICK i, j \in DOMAIN rels : i < j /\ rels[i] = a.dataset /\ rels[j] = b.dataset
    BY <2>1 DEF AppendedBefore
  <2>3. PICK u, v \in DOMAIN rels : u < v /\ rels[u] = b.dataset /\ rels[v] = a.dataset
    BY <2>1 DEF AppendedBefore
  <2>4. i = v /\ j = u  BY <2>2, <2>3
  <2>5. DOMAIN rels \subseteq Nat  OBVIOUS
  <2> QED  BY <2>2, <2>3, <2>4, <2>5
<1>3. a.seq <= b.seq /\ b.seq <= a.seq  BY <1>1, <1>2 DEF FirstUnplaced
<1>4. PICK d \in Datasets : a \in [dataset : {d}, seq : 1 .. Count[d]]  BY <1>1 DEF Shards
<1>5. PICK e \in Datasets : b \in [dataset : {e}, seq : 1 .. Count[e]]  BY <1>1 DEF Shards
<1>6. a.seq \in Nat /\ b.seq \in Nat  BY <1>4, <1>5, ArcsetAssumption
<1>7. a.seq = b.seq  BY <1>3, <1>6
<1> QED  BY <1>2, <1>4, <1>5, <1>7

\* The parity rows that place() deletes are in no partition another open
\* position of the group lies in: the choice stands.
LEMMA ChoiceSurvivesInvalidate ==
    ASSUME SafeInv, RowKinds, OrderInv, ParityLast, NEW groups \in Nat, NEW size,
           NEW sl, IsPlacedAt(sl, rows, groups, size),
           rows' = DeleteECShards(StripeKey(sl))
    PROVE  IsPlacedAt(sl, rows', groups, size)
<1> DEFINE st == StripeKey(sl)
<1>0. /\ rows \in SUBSET Row /\ sl \in DataSlot /\ sl \in Candidates(rows, groups, size)
      /\ \A r \in rows : /\ r.group \in Nat /\ r.stripe \in Nat /\ r.pos \in StripePos
                         /\ r.partition = Partition(r.group, r.pos, r.stripe)
  BY CandidatesType DEF IsPlacedAt, SafeInv, TypeInv, TypeOK, StoreInv, SlotPartition, SlotOf, Row
<1>1. \A r \in rows : r \in rows' \/ (r.type = "EC" /\ r.group = sl.group /\ r.stripe = sl.stripe)
  BY DEF DeleteECShards, StripeKey
<1>2. rows' \subseteq rows  BY DEF DeleteECShards
<1>3. CASE \A e \in rows : e.type = "EC" => e.group # sl.group \/ e.stripe # sl.stripe
  <2>1. rows' = rows  BY <1>1, <1>2, <1>3
  <2> QED  BY <2>1
<1>4. ASSUME NEW e \in rows, e.type = "EC", e.group = sl.group, e.stripe = sl.stripe
      PROVE  IsPlacedAt(sl, rows', groups, size)
  <2>1. sl \notin HoleSlots(rows, groups, size)
    <3>1. sl.pos \in {r.pos : r \in StripeRows(rows, sl.group, sl.stripe)}
      BY <1>0, <1>4 DEF ParityLast, DataSlot
    <3>2. PICK r \in rows : r.group = sl.group /\ r.stripe = sl.stripe /\ r.pos = sl.pos
      BY <3>1 DEF StripeRows
    <3>3. SlotOf(r) = sl  BY <1>0, <3>2 DEF SlotOf, DataSlot
    <3> QED  BY <3>3 DEF HoleSlots
  <2>2. sl \notin FreshSlots(rows, groups, size)
    <3> SUFFICES ASSUME NEW g \in 0 .. groups - 1,
                        sl \in [group : {g}, stripe : NextSeq(rows, g), pos : {0}]
                 PROVE  FALSE
      BY DEF FreshSlots
    <3>1. ~Started(rows, sl.group, sl.stripe)  BY DEF NextSeq
    <3> QED  BY <1>0, <1>4, <3>1 DEF Started, DataSlot
  <2>3. sl \in PadSlots(rows, size)
    BY <1>0, <2>1, <2>2 DEF Candidates
  <2>4. PICK x \in rows : /\ x.type = "PAD" /\ M > 0 /\ x.pos < K /\ SlotOf(x) = sl
                          /\ Fits(rows, sl, size)
    BY <2>3 DEF PadSlots
  <2>5. ASSUME NEW y \in rows, y.type = "PAD", y.group = sl.group
        PROVE  Fits(rows', SlotOf(y), size) <=> Fits(rows, SlotOf(y), size)
    <3> DEFINE p == SlotPartition(SlotOf(y))
    <3>1. x.pos \in DataPos /\ y.pos \in DataPos  BY <2>4, <2>5 DEF RowKinds
    <3>2. y.stripe = sl.stripe /\ y.group \in Nat /\ y.stripe \in Nat
      BY <1>0, <2>4, <2>5, <3>1, PadsTogether DEF SlotOf
    <3>3. p = Partition(y.group, y.pos, y.stripe)  BY DEF SlotPartition, SlotOf
    <3>4. ASSUME NEW r \in rows, r.type = "EC", r.group = sl.group, r.stripe = sl.stripe
          PROVE  r.partition # p
      <4>1. r.pos \in ParityPos  BY <3>4 DEF RowKinds
      <4>2. r.pos # y.pos /\ r.pos \in StripePos /\ y.pos \in StripePos
        BY <3>1, <4>1, PosTypes
      <4> QED  BY <1>0, <2>5, <3>2, <3>3, <3>4, <4>2, PartitionInjective
    <3> HIDE DEF p
    <3>5. {r \in rows' : r.partition = p} = {r \in rows : r.partition = p}
      BY <1>1, <1>2, <3>4
    <3>6. Used(rows', p) = Used(rows, p)  BY <3>5, UsedByRows
    <3> QED  BY <3>6 DEF Fits, p
  <2>6. ASSUME NEW y \in rows, y.type = "PAD", y.pos < K, Fits(rows', SlotOf(y), size)
        PROVE  Before(sl, SlotOf(y))
    <3>1. CASE y.group = sl.group
      <4>1. SlotOf(y) \in PadSlots(rows, size)  BY <2>4, <2>5, <2>6, <3>1 DEF PadSlots
      <4>2. SlotOf(y) \in Candidates(rows, groups, size)  BY <4>1 DEF Candidates
      <4> QED  BY <4>2 DEF IsPlacedAt
    <3>2. CASE y.group # sl.group
      <4> DEFINE p == SlotPartition(SlotOf(y))
      <4>1. ASSUME NEW r \in rows, r.type = "EC", r.group = sl.group, r.stripe = sl.stripe
            PROVE  r.partition # p
        BY <1>0, <3>2, <4>1, PartitionsOfGroups DEF SlotPartition, SlotOf
      <4> HIDE DEF p
      <4>2. {r \in rows' : r.partition = p} = {r \in rows : r.partition = p}
        BY <1>1, <1>2, <4>1
      <4>3. Used(rows', p) = Used(rows, p)  BY <4>2, UsedByRows
      <4>4. SlotOf(y) \in PadSlots(rows, size)  BY <2>4, <2>6, <4>3 DEF PadSlots, Fits, p
      <4>5. SlotOf(y) \in Candidates(rows, groups, size)  BY <4>4 DEF Candidates
      <4> QED  BY <4>5 DEF IsPlacedAt
    <3> QED  BY <3>1, <3>2
  <2>7. x \in rows' /\ x.group = sl.group  BY <1>1, <2>4 DEF SlotOf
  <2>8. sl \in PadSlots(rows', size)  BY <2>4, <2>5, <2>7 DEF PadSlots
  <2>9. Candidates(rows', groups, size) = PadSlots(rows', size)  BY <2>8 DEF Candidates
  <2>10. \A other \in PadSlots(rows', size) : Before(sl, other)
    BY <1>2, <2>6 DEF PadSlots
  <2> QED  BY <2>8, <2>9, <2>10 DEF IsPlacedAt
<1> QED  BY <1>3, <1>4
(***************************************************************************)
(* Rows                                                                    *)
(***************************************************************************)

\* InsertShard of the PAD rows precedes that of the EC rows, and what takes a PAD
\* row away puts a DATA row in its place.
LEMMA ParityLastSafe == SafeInv /\ ParityLast /\ [Next]_vars => ParityLast'
<1> SUFFICES ASSUME SafeInv, ParityLast, [Next]_vars, NEW e \in rows', e.type = "EC",
                    NEW p \in DataPos
             PROVE  \E r \in rows' : r.group = e.group /\ r.stripe = e.stripe /\ r.pos = p
  BY DEF ParityLast, StripeRows
<1> DEFINE Covered(x) == \E r \in rows : r.group = x.group /\ r.stripe = x.stripe /\ r.pos = p
           Goal == \E r \in rows' : r.group = e.group /\ r.stripe = e.stripe /\ r.pos = p
<1>0. \A x \in rows : x.type = "EC" => Covered(x)
  BY DEF ParityLast, StripeRows
<1>t. rows \in SUBSET Row  BY DEF SafeInv, TypeInv, TypeOK
<1>1. CASE rows' = rows  BY <1>0, <1>1
<1>2. CASE BuildInvalidate
  <2>1. e \in rows /\ StripeKey(e) # StripeKey(cur.slot)
    BY <1>2 DEF BuildInvalidate, DeleteECShards
  <2>2. PICK r \in rows : r.group = e.group /\ r.stripe = e.stripe /\ r.pos = p  BY <1>0, <2>1
  <2>3. r \in rows'  BY <1>2, <2>1, <2>2 DEF BuildInvalidate, DeleteECShards, StripeKey
  <2> QED  BY <2>2, <2>3
<1>3. CASE BuildRecord
  <2>1. /\ e \in rows
        /\ DataRow(cur.shard, cur.slot) \in rows'
        /\ \A r \in rows : r \in rows' \/ SlotOf(r) = cur.slot
    BY <1>3 DEF BuildRecord, DataRow
  <2>2. PICK r \in rows : r.group = e.group /\ r.stripe = e.stripe /\ r.pos = p  BY <1>0, <2>1
  <2>3. CASE SlotOf(r) = cur.slot
    <3>1. /\ DataRow(cur.shard, cur.slot).group = r.group
          /\ DataRow(cur.shard, cur.slot).stripe = r.stripe
          /\ DataRow(cur.shard, cur.slot).pos = r.pos
      BY <2>3 DEF DataRow, SlotOf
    <3> QED  BY <2>1, <2>2, <3>1
  <2> QED  BY <2>1, <2>2, <2>3
<1>4. ASSUME NEW st \in DOMAIN work, StripeVerify(st) PROVE Goal
  <2>1. e \in rows /\ StripeKey(e) # st
    BY <1>4 DEF StripeVerify, DeleteECAndPADShards
  <2>2. PICK r \in rows : r.group = e.group /\ r.stripe = e.stripe /\ r.pos = p  BY <1>0, <2>1
  <2>3. r \in rows'  BY <1>4, <2>1, <2>2 DEF StripeVerify, DeleteECAndPADShards, StripeKey
  <2> QED  BY <2>2, <2>3
<1>5. ASSUME NEW st \in DOMAIN work, NEW q \in StripePos, StripeMetadata(st, q) PROVE Goal
  <2> DEFINE New(r) == IF SlotOf(r) = ParitySlot(st, q)
                       THEN [r EXCEPT !.padded = PaddedSize(rows, st)] ELSE r
  <2>1. rows' = {New(r) : r \in rows}  BY <1>5 DEF StripeMetadata
  <2>2. \A r \in rows : /\ New(r).group = r.group /\ New(r).stripe = r.stripe
                        /\ New(r).pos = r.pos /\ New(r).type = r.type
    BY <1>t DEF Row
  <2> HIDE DEF New
  <2>3. PICK x \in rows : e = New(x)  BY <2>1
  <2>4. PICK r \in rows : r.group = x.group /\ r.stripe = x.stripe /\ r.pos = p
    BY <1>0, <2>2, <2>3
  <2>5. New(r) \in rows'  BY <2>1
  <2> QED  BY <2>2, <2>3, <2>4, <2>5
<1>6. ASSUME NEW st \in DOMAIN work, NEW q \in StripePos, StripeInsert(st, q) PROVE Goal
  <2>1. rows' = rows \cup {NewRow(st, q)}  BY <1>6 DEF StripeInsert
  <2>2. CASE e \in rows  BY <1>0, <2>1, <2>2
  <2>3. CASE e = NewRow(st, q)
    <3>1. e.group = st.group /\ e.stripe = st.stripe /\ ~(q < K)
      BY <2>3 DEF NewRow
    <3>2. /\ work[st].pc = "insert"
          /\ \A x \in Left(st, StripePos \ DataPosOf(st)) : q <= x
      BY <1>6 DEF StripeInsert, Inserts, At, IsFirst
    <3>3. {r.pos : r \in StripeRows(rows, st.group, st.stripe)} = DataPosOf(st) \cup work[st].done
      BY <3>2 DEF SafeInv, WorkInv, WorkerInv
    <3>4. p \notin Left(st, StripePos \ DataPosOf(st))
      <4>1. p \in Nat /\ p < K /\ q \in Nat /\ K \in Nat
        BY PosTypes, PlacementAssumption DEF DataPos
      <4> QED  BY <3>1, <3>2, <4>1
    <3>5. p \in {r.pos : r \in StripeRows(rows, st.group, st.stripe)}
      BY <3>3, <3>4, PosTypes DEF Left
    <3> QED  BY <2>1, <3>1, <3>5 DEF StripeRows
  <2> QED  BY <2>1, <2>2, <2>3
<1> QED
  BY <1>1, <1>2, <1>3, <1>4, <1>5, <1>6, RowsWritten DEF vars
(***************************************************************************)
(* Stages                                                                  *)
(***************************************************************************)

\* A step of the pipeline is a step of the arcset, or of the script alone.
LEMMA PipelineStep ==
    ASSUME SafeInv, StageInv, Drive \/ Failure
    PROVE  [Next]_vars
<1>1. val.pc = "idle" \/ (stage = "validate" /\ op = Idle)  BY DEF StageInv
<1>2. CASE AppendStage
  <2>1. AppendStep  BY <1>2 DEF AppendStage, AppendStep, StageInv
  <2> QED  BY <1>1, <1>2, <2>1 DEF AppendStage, Next, ControlStep
<1>3. CASE BuildStage  BY <1>1, <1>3 DEF BuildStage, Next, ControlStep
<1>4. CASE MakeECStage  BY <1>1, <1>4 DEF MakeECStage, Next, ControlStep
<1>5. CASE ValidateStage
  <2>1. op = Idle /\ ValidateStep  BY <1>5 DEF ValidateStage, ValidateStep
  <2> QED  BY <2>1 DEF Next
<1>6. CASE NextDataset  BY <1>6 DEF NextDataset
<1>7. CASE Failure
  <2>1. ASSUME Fault PROVE val.pc = "idle"
    <3>1. op # Idle  BY <2>1 DEF Fault, Crash, StripeFail, Running, Idle
    <3> QED  BY <1>1, <3>1
  <2>2. ASSUME ValidateFails PROVE op = Idle
    BY <2>2 DEF ValidateFails, SafeInv, CommandInv
  <2> QED  BY <1>7, <2>1, <2>2 DEF Failure, Next, ControlStep, ValidateStep
<1> QED  BY <1>2, <1>3, <1>4, <1>5, <1>6, <1>7 DEF Drive

\* What the commands of a stage leave to the others.
LEMMA StageSafe ==
    ASSUME SafeInv, StageInv, Drive \/ Failure
    PROVE  StageInv'
<1> USE DEF tables, files
<1>t. op \in Command /\ rels \in Seq(Datasets)  BY DEF SafeInv, TypeInv, TypeOK
<1>1. ASSUME UNCHANGED rels PROVE (\A i, j \in DOMAIN rels : rels[i] = rels[j] => i = j)'
  BY <1>1 DEF StageInv
<1>2. CASE AppendStage
  <2>1. stage' \in {"append", "build-data"} /\ UNCHANGED <<current, waiting, val>> /\ val.pc = "idle"
    BY <1>2 DEF AppendStage, Stay, Goto, StageInv, AppendInherit, AppendRegister, AppendKnown, AppendFreeze
  <2>2. op'.cmd \in {"none", "append"}
    <3>1. AppendStep  BY <1>2 DEF AppendStage, AppendStep, StageInv
    <3> QED  BY <1>t, <3>1, AppendCommand
  <2>3. (\A i, j \in DOMAIN rels : rels[i] = rels[j] => i = j)'
    <3>1. CASE UNCHANGED rels  BY <1>1, <3>1
    <3>2. CASE AppendRegister(current)
      <4>1. rels' = Append(rels, current) /\ current \in Datasets
        BY <3>2 DEF AppendRegister, StageInv
      <4>2. \A i \in DOMAIN rels : rels[i] # current  BY <3>2 DEF AppendRegister, Registered
      <4>3. DOMAIN rels = 1 .. Len(rels) /\ DOMAIN rels' = 1 .. Len(rels) + 1 /\ Len(rels) \in Nat
        BY <1>t, <4>1
      <4>4. /\ \A i \in DOMAIN rels : rels'[i] = rels[i]
            /\ rels'[Len(rels) + 1] = current
        BY <1>t, <4>1
      <4>5. \A i \in DOMAIN rels' : i \in DOMAIN rels \/ i = Len(rels) + 1  BY <4>3
      <4> QED  BY <4>2, <4>4, <4>5 DEF StageInv
    <3> QED
      BY <1>2, <3>1, <3>2 DEF AppendStage, AppendInherit, AppendKnown, AppendFreeze
  <2> QED  BY <2>1, <2>2, <2>3 DEF StageInv
<1>3. CASE BuildStage
  <2>1. /\ stage' \in {"build-data", "make-ec"} /\ UNCHANGED <<current, waiting>> /\ val.pc = "idle"
    BY <1>3 DEF BuildStage, Goto, Stay, StageInv
  <2>2. UNCHANGED <<val, rels>> /\ (op'.cmd = "build-data" => op'.only = Datasets)
    <3>1. \A only \in BuildScopes : BuildStart(only) => UNCHANGED <<val, rels>> /\ op'.only = Datasets
      BY WholeBuildsAssumption DEF BuildStart, Idle
    <3>2. \A sh \in Shards : BuildRefused(sh) => UNCHANGED <<val, rels>> /\ op' = Idle
      BY DEF BuildRefused
    <3>3. \A sh, sl : MoveFails(sh, sl) => UNCHANGED <<val, rels>> /\ op' = Idle
      BY DEF MoveFails
    <3>4. \A sh, sl : MoveVerified(sh, sl) \/ MoveRename(sh, sl) \/ MoveCopy(sh, sl) =>
             UNCHANGED <<val, rels>> /\ op.cmd = "build-data" /\ op'.only = op.only
      BY <1>t DEF MoveVerified, MoveRename, MoveCopy, Placing, Running, Command
    <3>5. MoveUnlink \/ BuildInvalidate \/ BuildRecord =>
             UNCHANGED <<val, rels>> /\ op.cmd = "build-data" /\ op'.only = op.only
      BY <1>t DEF MoveUnlink, BuildInvalidate, BuildRecord, Running, Command
    <3>6. BuildFinish => UNCHANGED <<val, rels>> /\ op' = Idle  BY DEF BuildFinish
    <3>7. Idle.cmd = "none"  BY DEF Idle
    <3> QED
      BY <1>3, <3>1, <3>2, <3>3, <3>4, <3>5, <3>6, <3>7 DEF BuildStage, BuildStep, StageInv
  <2> QED  BY <1>1, <2>1, <2>2 DEF StageInv
<1>4. CASE MakeECStage
  <2>1. /\ MakeECStep /\ UNCHANGED <<current, waiting>> /\ val.pc = "idle"
        /\ stage' = IF arcset'.status = "completed" THEN "validate" ELSE "make-ec"
    BY <1>4 DEF MakeECStage, Goto, Stay, StageInv
  <2>2. op'.cmd \in {"none", "make-ec"}  BY <1>t, <2>1, MakeECCommand
  <2>3. UNCHANGED <<val, rels>>
    BY <2>1 DEF MakeECStep, StripeStep, MakeECWithoutParity, MakeECStart, MakeECFinish, StripeStart,
       StripePad, StripeVerify, StripeEncode, StripeMetadata, StripeInsert
  <2>4. arcset'.status = "completed" => op' = Idle
    <3>1. MakeECWithoutParity \/ MakeECFinish => op' = Idle
      BY DEF MakeECWithoutParity, MakeECFinish, MakeECAllowed
    <3>2. \A filter : MakeECStart(filter) => arcset'.status # "completed"
      BY DEF MakeECStart, SafeInv, TypeInv, TypeOK, ArcsetRow
    <3>3. StripeStep => UNCHANGED arcset /\ op.cmd = "make-ec"
      BY DEF StripeStep, StripeStart, StripePad, StripeVerify, StripeEncode, StripeMetadata,
         StripeInsert, Inserts, At, Running
    <3>4. op.cmd = "make-ec" => arcset.status # "completed"  BY DEF SafeInv, CommandInv
    <3> QED  BY <2>1, <3>1, <3>2, <3>3, <3>4 DEF MakeECStep
  <2> QED  BY <1>1, <2>1, <2>2, <2>3, <2>4 DEF StageInv
<1>5. CASE ValidateStage
  <2>1. /\ op = Idle /\ UNCHANGED <<op, rels, current, waiting>>
        /\ stage' = "validate" \/ (stage' = "next" /\ val' = NotValidating)
    BY <1>5 DEF ValidateStage, ValidateRead, ValidatePasses, ValidateWrite, Stay, Goto
  <2> QED  BY <1>1, <2>1 DEF StageInv, NotValidating, Idle
<1>6. CASE NextDataset
  <2>1. UNCHANGED vars /\ stage = "next" /\ stage' \in {"done", "append"} /\ val.pc = "idle"
    BY <1>6 DEF NextDataset, StageInv
  <2>2. (current \in Datasets /\ waiting \subseteq Datasets)'
    BY <1>6 DEF NextDataset, StageInv
  <2> QED  BY <1>1, <2>1, <2>2 DEF StageInv, vars
<1>7. CASE Failure
  <2>1. UNCHANGED <<stage, current, waiting, rels>>
    BY <1>7 DEF Failure, Fault, Crash, StripeFail, ValidateFails
  <2>2. /\ op' = Idle \/ op' = op
        /\ val' = val \/ val' = NotValidating
    BY <1>7 DEF Failure, Fault, Crash, StripeFail, ValidateFails
  <2> QED  BY <1>1, <2>1, <2>2 DEF StageInv, NotValidating, Idle
<1> QED  BY <1>2, <1>3, <1>4, <1>5, <1>6, <1>7 DEF Drive
(***************************************************************************)
(* Retry                                                                   *)
(***************************************************************************)

\* The choice depends on the rows, the relations and the number of groups only.
LEMMA ChoiceKept ==
    ASSUME UNCHANGED <<rows, rels>>, arcset'.groups = arcset.groups, NEW sh, NEW sl, Chosen(sh, sl)
    PROVE  Chosen(sh, sl)'
BY DEF Chosen, FirstUnplaced, Unplaced, Registered, Placed, AppendedBefore

\* A whole build goes through the unplaced shards from the first one on.
LEMMA NextIsFirst ==
    ASSUME op.only = Datasets, NEW sh
    PROVE  IsNext(sh) <=> FirstUnplaced(sh)
<1>1. \A x \in Shards : x.dataset \in Datasets  BY DEF Shards
<1>2. Pending = Unplaced  BY <1>1 DEF Pending, Unplaced
<1> QED  BY <1>2 DEF IsNext, FirstUnplaced

\* Between two calls of build-data, nothing changes the choice: neither append,
\* which is over, nor make-ec and validate, which wait for build-data to succeed.
LEMMA OtherStagesRetry ==
    ASSUME SafeInv, StageInv, RetryInv,
           AppendStage \/ MakeECStage \/ ValidateStage \/ NextDataset
    PROVE  RetryInv'
<1> USE DEF tables, files
<1>1. stage # "build-data"
  BY DEF AppendStage, MakeECStage, ValidateStage, NextDataset
<1>2. target' = target
  <2>1. AppendStage => target' = target
    BY DEF AppendStage, AppendInherit, AppendRegister, AppendKnown, AppendFreeze
  <2>2. MakeECStage => target' = target
    BY DEF MakeECStage, MakeECStep, StripeStep, MakeECWithoutParity, MakeECStart, MakeECFinish,
       StripeStart, StripePad, StripeVerify, StripeEncode, StripeMetadata, StripeInsert
  <2>3. ValidateStage \/ NextDataset => target' = target
    BY DEF ValidateStage, ValidateRead, ValidatePasses, ValidateWrite, NextDataset, vars
  <2> QED  BY <2>1, <2>2, <2>3
<1>3. [Next]_vars  BY PipelineStep DEF Drive
<1>4. \A f \in target' : HasRow(f)'
  BY <1>1, <1>2, <1>3, SlotsKept DEF RetryInv, HasRow
<1>5. stage' = "build-data" => ~Recording'
  <2>1. stage' = "build-data" => AppendFreeze
    BY DEF AppendStage, MakeECStage, ValidateStage, NextDataset, Goto, Stay
  <2> QED  BY <2>1 DEF AppendFreeze, Recording, Idle
<1> QED  BY <1>4, <1>5 DEF RetryInv

\* A command that dies leaves files and rows as they are.
LEMMA FailureRetry ==
    ASSUME RetryInv, Failure
    PROVE  RetryInv'
<1> USE DEF tables, files
<1>1. UNCHANGED <<rows, rels, arcset, target, stage>>
  BY DEF Failure, Fault, Crash, StripeFail, ValidateFails
<1>2. Recording' => Recording /\ cur' = cur
  BY DEF Failure, Fault, Crash, StripeFail, ValidateFails, Recording, Idle
<1>3. \A f : HasRow(f)' <=> HasRow(f)  BY <1>1 DEF HasRow
<1>4. \A sh, sl : Chosen(sh, sl) => Chosen(sh, sl)'  BY <1>1, ChoiceKept
<1> QED  BY <1>1, <1>2, <1>3, <1>4 DEF RetryInv

\* build-data moves the shard to the slot it has chosen, and until the row is
\* there nothing it does changes the choice.
LEMMA BuildRetry ==
    ASSUME SafeInv, RowKinds, OrderInv, ParityLast, StageInv, RetryInv, BuildStage
    PROVE  RetryInv'
<1> USE DEF tables, files
<1> DEFINE Named(f) == HasRow(f) \/ Chosen(f.shard, SlotOf(f))
<1>t. /\ op \in Command /\ rels \in Seq(Datasets) /\ rows \in SUBSET Row
      /\ arcset.groups \in Nat
  BY DEF SafeInv, TypeInv, TypeOK, ArcsetRow
<1>1. stage = "build-data" /\ BuildStep /\ stage' \in {"build-data", "make-ec"}
  BY DEF BuildStage, Goto, Stay
<1>2. stage' = "make-ec" => Pending = {} /\ Running("build-data", "place")
  BY <1>1 DEF BuildStage, Goto, Stay
<1>3. \A f \in target : Named(f)  BY DEF RetryInv
<1>4. \A f \in target : Chosen(f.shard, SlotOf(f)) => ~(stage' = "make-ec")
  <2> SUFFICES ASSUME NEW f \in target, Chosen(f.shard, SlotOf(f)), stage' = "make-ec" PROVE FALSE
    OBVIOUS
  <2>1. op.only = Datasets  BY <1>2 DEF StageInv, Running
  <2>2. IsNext(f.shard)  BY <2>1, NextIsFirst DEF Chosen
  <2> QED  BY <1>2, <2>2 DEF IsNext
<1>5. [Next]_vars  BY PipelineStep DEF Drive
<1>6. \A f : HasRow(f) => HasRow(f)'  BY <1>5, SlotsKept DEF HasRow
<1>7. ASSUME UNCHANGED <<rows, rels>>, arcset'.groups = arcset.groups,
             \A f \in target' : f \in target \/ (Chosen(f.shard, SlotOf(f)) /\ stage' = "build-data"),
             Recording' => Chosen(cur'.shard, cur'.slot)
      PROVE  RetryInv'
  <2>1. \A f \in target' : HasRow(f)' \/ (stage' = "build-data" /\ Chosen(f.shard, SlotOf(f)))
    BY <1>1, <1>3, <1>4, <1>6, <1>7
  <2>2. \A f \in target' : HasRow(f)' \/ (stage' = "build-data" /\ Chosen(f.shard, SlotOf(f))')
    BY <1>7, <2>1, ChoiceKept
  <2>3. Recording' => Chosen(cur.shard, cur.slot)'
    BY <1>7, ChoiceKept
  <2> QED  BY <2>2, <2>3 DEF RetryInv
<1>8. ASSUME BuildFinish \/ (\E only \in BuildScopes : BuildStart(only))
             \/ (\E sh \in Shards : BuildRefused(sh) \/ \E sl : MoveFails(sh, sl))
      PROVE  RetryInv'
  <2>1. UNCHANGED <<rows, rels, target>> /\ arcset'.groups = arcset.groups
    BY <1>8 DEF BuildFinish, BuildStart, BuildRefused, MoveFails, SafeInv, TypeInv, TypeOK, ArcsetRow
  <2>2. ~Recording'
    <3>1. \A only : BuildStart(only) => op'.pc = "place"  BY DEF BuildStart, Idle
    <3>2. BuildFinish => op' = Idle  BY DEF BuildFinish
    <3>3. \A sh : BuildRefused(sh) => op' = Idle  BY DEF BuildRefused
    <3>4. \A sh, sl : MoveFails(sh, sl) => op' = Idle  BY DEF MoveFails
    <3> QED  BY <1>8, <3>1, <3>2, <3>3, <3>4 DEF Recording, Idle
  <2> QED  BY <1>7, <2>1, <2>2
<1>9. ASSUME NEW sh \in Shards, NEW sl \in Candidates(rows, arcset.groups, Size[sh]),
             MoveVerified(sh, sl) \/ MoveRename(sh, sl) \/ MoveCopy(sh, sl)
      PROVE  RetryInv'
  <2>1. /\ UNCHANGED <<rows, rels, arcset>> /\ Placing(sh, sl)
        /\ cur' = [shard |-> sh, slot |-> sl]
        /\ target' \subseteq target \cup {FileAt(sh, sl)}
    BY <1>9 DEF MoveVerified, MoveRename, MoveCopy
  <2>2. op.only = Datasets /\ IsNext(sh) /\ IsPlacedAt(sl, rows, arcset.groups, Size[sh])
    BY <2>1 DEF StageInv, Placing, Running
  <2>3. Chosen(sh, sl)  BY <2>2, NextIsFirst DEF Chosen
  <2>4. stage' = "build-data"  BY <1>1, <1>2, <2>2 DEF IsNext
  <2>5. FileAt(sh, sl).shard = sh /\ SlotOf(FileAt(sh, sl)) = sl
    <3>1. sl \in DataSlot  BY <1>t, CandidatesType
    <3> QED  BY <3>1 DEF FileAt, SlotOf, DataSlot
  <2>6. Chosen(cur'.shard, cur'.slot)  BY <2>1, <2>3
  <2>7. \A f \in target' : f \in target \/ (Chosen(f.shard, SlotOf(f)) /\ stage' = "build-data")
    BY <2>1, <2>3, <2>4, <2>5
  <2> QED  BY <1>7, <2>1, <2>6, <2>7
<1>10. CASE MoveUnlink
  <2>1. UNCHANGED <<rows, rels, arcset, target, cur>> /\ Recording
    BY <1>10 DEF MoveUnlink, Recording, Running
  <2>2. Chosen(cur'.shard, cur'.slot)  BY <1>1, <2>1 DEF RetryInv
  <2> QED  BY <1>7, <2>1, <2>2
<1>11. CASE BuildInvalidate
  <2>1. /\ UNCHANGED <<rels, arcset, target, cur>> /\ Recording
        /\ rows' = DeleteECShards(StripeKey(cur.slot)) /\ stage' = "build-data"
    BY <1>1, <1>2, <1>11 DEF BuildInvalidate, Recording, Running
  <2>2. Chosen(cur.shard, cur.slot)  BY <1>1, <2>1 DEF RetryInv
  <2>3. IsPlacedAt(cur.slot, rows', arcset.groups, Size[cur.shard])
    BY <1>t, <2>1, <2>2, ChoiceSurvivesInvalidate DEF Chosen
  <2>4. \A sh : Placed(sh)' <=> Placed(sh)
    BY <2>1 DEF Placed, DeleteECShards
  <2>5. FirstUnplaced(cur.shard)'
    <3>1. Unplaced' = Unplaced  BY <2>1, <2>4 DEF Unplaced, Registered
    <3> QED  BY <2>1, <2>2, <3>1 DEF Chosen, FirstUnplaced, AppendedBefore
  <2>6. Chosen(cur.shard, cur.slot)'  BY <2>1, <2>3, <2>5 DEF Chosen
  <2>7. ASSUME NEW f \in target, Chosen(f.shard, SlotOf(f))
        PROVE  f.shard = cur.shard /\ SlotOf(f) = cur.slot
    <3>1. f.shard = cur.shard
      BY <1>t, <2>2, <2>7, FirstOnce DEF Chosen, StageInv
    <3> QED  BY <1>t, <2>2, <2>7, <3>1, PlacedOnce DEF Chosen
  <2>8. \A f \in target' : HasRow(f)' \/ (stage' = "build-data" /\ Chosen(f.shard, SlotOf(f))')
    BY <1>3, <1>6, <2>1, <2>6, <2>7
  <2> QED  BY <2>1, <2>6, <2>8 DEF RetryInv
<1>12. CASE BuildRecord
  <2>1. /\ UNCHANGED target /\ Recording /\ ~Recording'
        /\ DataRow(cur.shard, cur.slot) \in rows'
    BY <1>t, <1>12 DEF BuildRecord, Recording, Running, Command
  <2>2. Chosen(cur.shard, cur.slot)  BY <1>1, <2>1 DEF RetryInv
  <2>3. /\ DataRow(cur.shard, cur.slot).shard = cur.shard
        /\ DataRow(cur.shard, cur.slot).type = "DATA"
        /\ SlotOf(DataRow(cur.shard, cur.slot)) = SlotOf(cur.slot)
    BY DEF DataRow, SlotOf
  <2>4. ASSUME NEW f \in target, Chosen(f.shard, SlotOf(f)) PROVE HasRow(f)'
    <3>1. f.shard = cur.shard
      BY <1>t, <2>2, <2>4, FirstOnce DEF Chosen, StageInv
    <3>2. SlotOf(f) = cur.slot
      BY <1>t, <2>2, <2>4, <3>1, PlacedOnce DEF Chosen
    <3>3. SlotOf(cur.slot) = SlotOf(f)  BY <3>2 DEF SlotOf
    <3> QED  BY <2>1, <2>3, <3>1, <3>3 DEF HasRow, DataRows
  <2>5. \A f \in target' : HasRow(f)'  BY <1>3, <1>6, <2>1, <2>4
  <2> QED  BY <2>1, <2>5 DEF RetryInv
<1> QED
  BY <1>1, <1>8, <1>9, <1>10, <1>11, <1>12 DEF BuildStep

\* Without steps, everything stays.
LEMMA PipelineStutter ==
    ASSUME ParityLast, StageInv, RetryInv, UNCHANGED pvars
    PROVE  ParityLast' /\ StageInv' /\ RetryInv'
<1>1. UNCHANGED <<arcset, rels, rows, target, op, cur, val, stage, current, waiting>>
  BY DEF pvars, vars
<1>2. \A f : HasRow(f)' <=> HasRow(f)  BY <1>1 DEF HasRow
<1>3. \A sh, sl : Chosen(sh, sl) => Chosen(sh, sl)'  BY <1>1, ChoiceKept
<1>4. Recording' <=> Recording  BY <1>1 DEF Recording
<1> QED  BY <1>1, <1>2, <1>3, <1>4 DEF ParityLast, StageInv, RetryInv

\* The script begins with an arcset just created.
LEMMA PipelineInitSafe == PipelineInit => PipelineInvariant
<1> SUFFICES ASSUME PipelineInit PROVE PipelineInvariant  OBVIOUS
<1>1. /\ Init /\ stage = "append" /\ current \in Datasets /\ waiting \subseteq Datasets
      /\ rels = <<>> /\ rows = {} /\ target = {} /\ op = Idle /\ DOMAIN work = {} /\ val.pc = "idle"
  BY DEF PipelineInit, Init, NoWork, NotValidating
<1>2. SafeInv  BY <1>1, InitSafe
<1>3. RowKinds /\ OrderInv /\ ParityLast
  BY <1>1 DEF RowKinds, OrderInv, ParityLast, Recording, Idle
<1>4. StageInv /\ RetryInv  BY <1>1 DEF StageInv, RetryInv, Idle
<1> QED  BY <1>2, <1>3, <1>4 DEF PipelineInvariant

\* PipelineInvariant is inductive.
LEMMA PipelineNextSafe ==
    PipelineInvariant /\ [Drive \/ Failure]_pvars => PipelineInvariant' /\ [Next]_vars
<1> SUFFICES ASSUME PipelineInvariant, [Drive \/ Failure]_pvars
             PROVE  PipelineInvariant' /\ [Next]_vars
  OBVIOUS
<1> USE DEF PipelineInvariant
<1>1. [Next]_vars  BY PipelineStep DEF pvars
<1>2. SafeInv' /\ RowKinds' /\ OrderInv' /\ ParityLast'
  BY <1>1, NextSafe, KindsSafe, OrderSafe, ParityLastSafe
<1>3. CASE Drive \/ Failure
  <2>1. StageInv'  BY <1>3, StageSafe
  <2>2. RetryInv'  BY <1>3, OtherStagesRetry, BuildRetry, FailureRetry DEF Drive
  <2> QED  BY <1>1, <1>2, <2>1, <2>2
<1>4. CASE UNCHANGED pvars  BY <1>1, <1>2, <1>4, PipelineStutter
<1> QED  BY <1>3, <1>4

\* PipelineInvariant holds in every state the script reaches.
LEMMA PipelineSafe == PipelineSpec => []PipelineInvariant
BY PipelineInitSafe, PipelineNextSafe, PTL DEF PipelineSpec

\* What the script does to an arcset is what Arcset allows: the theorems about
\* Spec hold under the pipeline.
THEOREM PipelineRunsArcset == PipelineSpec => Spec
<1>1. PipelineInit => Init  BY DEF PipelineInit
<1> QED  BY <1>1, PipelineSafe, PipelineNextSafe, PTL DEF PipelineSpec, Spec

\* Crash and retry: when the failed build-data is called again, whatever slot it
\* chooses for a shard, the shard is still in the dataset's directory or already
\* there (moveFile, findNewSlot).
THEOREM RetryFinds == PipelineSpec => []RetryFindsShard
<1>1. PipelineInvariant => RetryFindsShard
  <2> SUFFICES ASSUME PipelineInvariant, NEW sh \in Shards,
                      NEW sl \in Candidates(rows, arcset.groups, Size[sh]),
                      Placing(sh, sl), sh \notin source
               PROVE  FileAt(sh, sl) \in target
    BY DEF RetryFindsShard
  <2>1. PICK f \in target : f.shard = sh
    BY DEF PipelineInvariant, SafeInv, StoreInv
  <2>2. ~HasRow(f)
    <3>1. ~Placed(sh)  BY DEF Placing, IsNext, Pending
    <3> QED  BY <2>1, <3>1 DEF HasRow, Placed, DataRows
  <2>3. IsPlacedAt(SlotOf(f), rows, arcset.groups, Size[sh])
    BY <2>1, <2>2 DEF PipelineInvariant, RetryInv, Chosen
  <2>4. /\ rows \in SUBSET Row /\ arcset.groups \in Nat
        /\ target \subseteq [shard : Shards, group : Nat, stripe : Nat, pos : DataPos]
    BY DEF PipelineInvariant, SafeInv, TypeInv, TypeOK, ArcsetRow
  <2>5. SlotOf(f) = sl  BY <2>3, <2>4, PlacedOnce DEF Placing
  <2>6. f = FileAt(sh, sl)  BY <2>1, <2>4, <2>5 DEF FileAt, SlotOf
  <2> QED  BY <2>6
<1> QED  BY <1>1, PipelineSafe, PTL

\* Outside build-data, each DATA file of the arcset is the one its row names.
THEOREM NoFileStrays == PipelineSpec => []NoStrayFiles
<1>1. PipelineInvariant => NoStrayFiles
  BY DEF PipelineInvariant, RetryInv, HasRow, NoStrayFiles
<1> QED  BY <1>1, PipelineSafe, PTL
==============================================================================
