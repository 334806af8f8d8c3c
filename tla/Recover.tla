-------------------------------- MODULE Recover --------------------------------
(***************************************************************************)
(* arcset recover beside the other commands: media lose files, recover     *)
(* rebuilds what is missing of one stripe from any k of its files          *)
(* (internal/recoverec, ec.ReconstructStripeStreaming).                    *)
(*                                                                         *)
(* A DATA path holds its shard (it is in `target'), other bytes (`wrong'), *)
(* or nothing.  What a file says of the codeword of its stripe is a set of *)
(* pairs <<position, shard>>, the shard being None for bytes of no shard;  *)
(* a PAD and a file of zeros say nothing.                                  *)
(***************************************************************************)
EXTENDS Arcset

VARIABLES wrong,    \* DATA paths with other bytes: [file, zero]
          rec,      \* the recover command that is running
          spoiled   \* the stripes of which make-ec has accepted wrong DATA bytes

rvars == <<vars, wrong, rec, spoiled>>

NotRecovering == [pc |-> "idle", row |-> None, all |-> FALSE, todo |-> {},
                  rebuilt |-> {}, word |-> {}]

RecoverInit == Init /\ wrong = {} /\ rec = NotRecovering /\ spoiled = {}

(***************************************************************************)
(* The files of a stripe, as recover finds them                            *)
(***************************************************************************)

RowsAt(st, p)  == {r \in rows : SlotOf(r) = ParitySlot(st, p)}
DataAt(st, p)  == {FileAt(r.shard, SlotOf(r)) : r \in DataRows(RowsAt(st, p))}
EcAt(st, p)    == {f \in parity : SlotOf(f) = ParitySlot(st, p)}
WrongAt(st, p) == {w \in wrong : w.file \in DataAt(st, p)}

\* A data position without a DATA row is looked up under its PAD name.
Present(st) ==
    {p \in StripePos :
        IF p >= K THEN EcAt(st, p) # {}
        ELSE IF DataAt(st, p) = {} THEN ParitySlot(st, p) \in pads
        ELSE WrongAt(st, p) # {} \/ DataAt(st, p) \subseteq target}

Missing(st) == StripePos \ Present(st)

\* The decoder works with the first k files it could open.
Inputs(st) ==
    {p \in Present(st) : Cardinality({q \in Present(st) : q < p}) < K}

\* What the DATA files at the positions P say.
Said(st, P) ==
    {<<r.pos, r.shard>> :
        r \in {x \in StripeData(rows, st) :
                 x.pos \in P /\ x.size > 0 /\ FileAt(x.shard, SlotOf(x)) \in target}}
    \cup {<<w.file.pos, None>> :
        w \in {v \in wrong : StripeKey(v.file) = st /\ v.file.pos \in P /\ ~v.zero}}

\* The padded size recover works with is the largest the rows know of: the files
\* are read up to there, and what is rebuilt is no longer.
Reaches(st, size) ==
    \E r \in StripeRows(rows, st.group, st.stripe) :
        size <= r.padded \/ (r.type = "EC" /\ size <= r.size)

Cut(st, word) ==
    {<<x[1], IF x[2] # None /\ Reaches(st, Size[x[2]]) THEN x[2] ELSE None>> : x \in word}

\* The words the files at P may belong to: the one their parity encodes, or
\* what the DATA files say when no parity is among them.
Words(st, P) ==
    LET covers == {Cut(st, f.cover) : f \in UNION {EcAt(st, p) : p \in P}}
    IN  IF covers = {} THEN {Cut(st, Said(st, P))} ELSE covers

\* All files at P belong to one generation of the stripe.
Agree(st, P) ==
    \E word \in Words(st, P) :
        Words(st, P) = {word} /\ {x \in word : x[1] \in P} = Cut(st, Said(st, P))

\* Bytes of no shard are involved.
Unsure(st, P) == \E x \in Cut(st, Said(st, P)) \cup UNION Words(st, P) : x[2] = None

\* What Reconstruct may decode.  Inputs of two generations still determine a
\* codeword, with bytes of no shard at the positions that were not read.  But
\* bytes of no shard may have come from the other files, by an earlier recover:
\* then they lead back to the word of a rebuilt parity file, or to the shards.
Decodings(st) ==
    LET P    == Inputs(st)
        rest == DataPos \ P
        said == Cut(st, Said(st, P))
        lost == said \cup (rest \X {None})
    IN  IF Unsure(st, P) THEN
             {word \in Words(st, P) : {x \in word : x[1] \in P} = said}
               \cup {lost, said \cup Cut(st, {x \in Cover(rows, st) : x[1] \in rest})}
        ELSE IF Agree(st, P) THEN Words(st, P)
        ELSE {lost}

(***************************************************************************)
(* arcset recover --shard-file --target=data|all                           *)
(***************************************************************************)

RecStripe == StripeKey(rec.row)

\* Neither the status nor the health is looked at; some row must know the
\* padded size, and at least k files must open.
RecoverStart(r, all) ==
    LET st   == StripeKey(r)
        todo == {p \in Missing(st) : all \/ p < K}
    IN  /\ op = Idle /\ rec.pc = "idle"
        /\ M > 0
        /\ all \/ r.type = "DATA"
        /\ Reaches(st, 1)
        /\ Cardinality(Present(st)) >= K
        /\ \E word \in Decodings(st) :
               rec' = [pc |-> IF todo = {} THEN "check" ELSE "rename", row |-> r,
                       all |-> all, todo |-> todo, rebuilt |-> {}, word |-> word]
        /\ UNCHANGED <<vars, wrong, spoiled>>

\* Mutant of RightBytes: the last chunk is not cut at the original size.
RightIfNotPadded(f) ==
    <<f.pos, f.shard>> \in rec.word /\ Size[f.shard] = PaddedSize(rows, StripeKey(f))

\* The decoded bytes, cut at the size of the row, are the shard.
RightBytes(f) == <<f.pos, f.shard>> \in rec.word \/ Size[f.shard] = 0

RenameData(f) ==
    /\ IF RightBytes(f) THEN target' = target \cup {f} /\ wrong' = wrong
       ELSE /\ wrong' = wrong \cup {[file |-> f, zero |-> \A x \in rec.word : x[1] # f.pos]}
            /\ target' = target
    /\ UNCHANGED <<pads, parity>>

RenameEC(sl) ==
    /\ parity' = parity \cup {[group |-> sl.group, stripe |-> sl.stripe, pos |-> sl.pos,
                               cover |-> rec.word]}
    /\ UNCHANGED <<target, pads, wrong>>

RenamePad(sl) == pads' = pads \cup {sl} /\ UNCHANGED <<target, parity, wrong>>

\* All temporaries are complete; they take their final names one by one.
RecoverRename(p) ==
    /\ rec.pc = "rename"
    /\ IsFirst(p, rec.todo)
    /\ \/ \E f \in DataAt(RecStripe, p) : RenameData(f)
       \/ p < K /\ DataAt(RecStripe, p) = {} /\ RenamePad(ParitySlot(RecStripe, p))
       \/ p >= K /\ RenameEC(ParitySlot(RecStripe, p))
    /\ rec' = [rec EXCEPT !.pc = IF rec.todo = {p} THEN "check" ELSE "rename",
                          !.todo = rec.todo \ {p}, !.rebuilt = rec.rebuilt \cup {p}]
    /\ UNCHANGED <<tables, frozen, source, op, cur, work, val, spoiled>>

\* VerifyStripeStreaming: every file opens and all bytes are on one codeword.
StripeVerifies(st) ==
    Missing(st) = {} /\ (Unsure(st, StripePos) \/ Agree(st, StripePos))

\* Only the checksum of the shard that was asked for is compared, and only now
\* that every file has its name.
RecoverCheck ==
    /\ rec.pc = "check"
    /\ rec.row.type = "DATA" => FileAt(rec.row.shard, SlotOf(rec.row)) \in target
    /\ rec.all => StripeVerifies(RecStripe)
    /\ rec' = [rec EXCEPT !.pc = "update"]
    /\ UNCHANGED <<vars, wrong, spoiled>>

\* last_check, health (which no command ever sets to anything but ok), and
\* parity_degraded, whatever the other stripes look like.
RecoverUpdate ==
    /\ rec.pc = "update"
    /\ arcset' = [arcset EXCEPT !.degraded = ~rec.all]
    /\ rec' = NotRecovering
    /\ UNCHANGED <<rels, files, rows, op, cur, work, val, wrong, spoiled>>

\* A mismatch, any other error or a crash: what was renamed stays.
RecoverFail ==
    /\ rec.pc # "idle"
    /\ rec' = NotRecovering
    /\ UNCHANGED <<vars, wrong, spoiled>>

RecoverStep ==
    \/ \E r \in rows, all \in BOOLEAN : RecoverStart(r, all)
    \/ \E p \in StripePos : RecoverRename(p)
    \/ RecoverCheck \/ RecoverUpdate \/ RecoverFail

(***************************************************************************)
(* Commands that read DATA files without comparing their checksums         *)
(***************************************************************************)

InPlace(r) == LET f == FileAt(r.shard, SlotOf(r))
              IN  f \in target \/ \E w \in wrong : w.file = f

\* Every DATA file of the stripe opens, and not all of them hold their shards.
SomeWrong(st) ==
    /\ \A r \in StripeData(rows, st) : InPlace(r)
    /\ ~DataOnDisk(StripeData(rows, st))

WrongParity(st, p) ==
    [group |-> st.group, stripe |-> st.stripe, pos |-> p, cover |-> Said(st, DataPos)]

\* make-ec with m > 0 encodes and verifies whatever the files hold.
EncodeWrong(st, p) ==
    /\ At(st, "encode")
    /\ IsFirst(p, Left(st, ParityPos))
    /\ SomeWrong(st)
    /\ parity' = {f \in parity : SlotOf(f) # ParitySlot(st, p)} \cup {WrongParity(st, p)}
    /\ work' = Advance(st, ParityPos, p, "pad")
    /\ UNCHANGED <<tables, frozen, source, target, pads, op, cur, val, wrong, rec, spoiled>>

VerifyWrong(st) ==
    /\ At(st, "verify")
    /\ SomeWrong(st)
    /\ \A p \in ParityPos : WrongParity(st, p) \in parity
    /\ rows' = DeleteECAndPADShards(st)
    /\ work' = [work EXCEPT ![st].pc = "metadata"]
    /\ spoiled' = spoiled \cup {st}
    /\ UNCHANGED <<arcset, rels, files, op, cur, val, wrong, rec>>

\* validate --stage=ec compares no checksums either.
ValidateWrong ==
    /\ val.pc = "check" /\ val.stage = "ec"
    /\ \A st \in {StripeKey(r) : r \in rows} :
          /\ {r.pos : r \in StripeRows(rows, st.group, st.stripe)} = StripePos
          /\ Reaches(st, 1)
          /\ StripeVerifies(st)
    /\ val' = [val EXCEPT !.pc = "write"]
    /\ UNCHANGED <<tables, files, op, cur, work, wrong, rec, spoiled>>

(***************************************************************************)
(* Media                                                                   *)
(***************************************************************************)

\* Between two commands a file of a stripe disappears, while fewer than m of
\* the stripe's files are missing: what the redundancy is made for.
Lose(st, p) ==
    /\ op = Idle /\ rec.pc = "idle" /\ val.pc = "idle"
    /\ p \in Present(st)
    /\ Cardinality(Missing(st)) < M
    /\ target' = target \ DataAt(st, p)
    /\ wrong' = wrong \ WrongAt(st, p)
    /\ pads' = pads \ {ParitySlot(st, p)}
    /\ parity' = parity \ EcAt(st, p)
    /\ UNCHANGED <<tables, frozen, source, op, cur, work, val, rec, spoiled>>

RecoverNext ==
    \/ /\ rec.pc = "idle"
       /\ \/ Next /\ UNCHANGED <<wrong, rec, spoiled>>
          \/ ValidateWrong
          \/ \E st \in DOMAIN work : VerifyWrong(st) \/ \E p \in StripePos : EncodeWrong(st, p)
    \/ val.pc = "idle" /\ RecoverStep
    \/ \E st \in DataStripes(rows), p \in StripePos : Lose(st, p)

RecoverSpec == RecoverInit /\ [][RecoverNext]_rvars

(***************************************************************************)
(* Properties                                                              *)
(***************************************************************************)

\* A completed arcset keeps every byte as long as the media lose at most m files
\* of a stripe at a time: k files are left, they are of one generation, and it
\* is the one of the rows -- whatever recover, make-ec, refills of PADs, retries
\* and failed recoveries did to the files before, except to a stripe that
\* make-ec has encoded over a DATA file a recover left wrong.
CompletedSurvivesLosses ==
    arcset.status = "completed" /\ M > 0 =>
        \A st \in DataStripes(rows) \ spoiled :
            Cardinality(Present(st)) >= K /\ Decodings(st) = {Cover(rows, st)}

\* A recover of everything that ends well leaves a stripe that can lose any m
\* files again, if its parity rows were there to say that the files are current.
RecoveredProtected ==
    (rec.pc = "update" /\ rec.all /\ RecStripe \notin spoiled
       /\ {r.pos : r \in ParityRows(rows, RecStripe.group, RecStripe.stripe)} = ParityPos)
    => Protected(RecStripe)

\* design/README, decision 33: the checksum of a rebuilt DATA shard must be the
\* recorded one, or the recovery has failed.
RebuiltShardsMatch ==
    rec.pc = "update" =>
        \A p \in rec.rebuilt : WrongAt(RecStripe, p) = {}

\* design/arcset-lifecycle, 6.4: completed means that the current content has passed
\* the full verification, which compares the checksums of the DATA shards.
CompletedHoldsShards == arcset.status = "completed" => wrong = {}
==============================================================================
