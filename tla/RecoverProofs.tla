---------------------------- MODULE RecoverProofs ----------------------------
(***************************************************************************)
(* RecoverSafe is inductive, and the safety properties of Recover follow   *)
(* from it, for every k and m.                                             *)
(***************************************************************************)
EXTENDS RecoverInv, ArcsetSafety, FiniteSetTheorems

(***************************************************************************)
(* The files of a stripe                                                   *)
(***************************************************************************)

\* The rows at a slot are rows of its stripe and position.
LEMMA SlotRows ==
    \A st, p : /\ \A r : r \in RowsAt(st, p) <=> /\ r \in rows
                                                 /\ r.group = st.group /\ r.stripe = st.stripe
                                                 /\ r.pos = p
               /\ \A f : f \in EcAt(st, p) <=> /\ f \in parity
                                               /\ f.group = st.group /\ f.stripe = st.stripe
                                               /\ f.pos = p
BY DEF RowsAt, EcAt, SlotOf, ParitySlot

\* The positions of a stripe are finitely many, k of data and m of parity.
LEMMA PosCounts ==
    /\ IsFiniteSet(StripePos) /\ Cardinality(StripePos) = K + M
    /\ IsFiniteSet(DataPos) /\ Cardinality(DataPos) = K
    /\ IsFiniteSet(ParityPos) /\ Cardinality(ParityPos) = M
<1>1. K \in Nat /\ M \in Nat /\ K - 1 \in Int /\ K + M - 1 \in Int /\ K > 0
  BY PlacementAssumption
<1>2. IsFiniteSet(StripePos) /\ Cardinality(StripePos) = K + M
  BY <1>1, FS_Interval DEF StripePos
<1>3. IsFiniteSet(DataPos) /\ Cardinality(DataPos) = K
  BY <1>1, FS_Interval DEF DataPos
<1>4. IsFiniteSet(ParityPos) /\ Cardinality(ParityPos) = M
  BY <1>1, FS_Interval DEF ParityPos
<1> QED  BY <1>2, <1>3, <1>4

\* As many files are there as are not missing.
LEMMA PresentCounts ==
    ASSUME NEW st
    PROVE  /\ Present(st) \subseteq StripePos /\ IsFiniteSet(Present(st))
           /\ Missing(st) \subseteq StripePos /\ IsFiniteSet(Missing(st))
           /\ Cardinality(Present(st)) \in Nat /\ Cardinality(Missing(st)) \in Nat
           /\ Cardinality(Present(st)) + Cardinality(Missing(st)) = K + M
<1>1. Present(st) \subseteq StripePos /\ Missing(st) \subseteq StripePos
  BY DEF Present, Missing
<1>2. IsFiniteSet(Present(st)) /\ IsFiniteSet(Missing(st))
  BY <1>1, PosCounts, FS_Subset
<1>3. Present(st) \cap Missing(st) = {} /\ Present(st) \cup Missing(st) = StripePos
  BY <1>1 DEF Missing
<1>4. /\ Cardinality(Present(st)) \in Nat /\ Cardinality(Missing(st)) \in Nat
      /\ Cardinality({}) = 0
  BY <1>2, FS_CardinalityType, FS_EmptySet
<1>5. Cardinality(StripePos) = Cardinality(Present(st)) + Cardinality(Missing(st)) - Cardinality({})
  <2>1. Cardinality(Present(st) \cup Missing(st))
          = Cardinality(Present(st)) + Cardinality(Missing(st)) - Cardinality(Present(st) \cap Missing(st))
    BY <1>2, FS_Union
  <2> QED  BY <1>3, <2>1
<1> QED  BY <1>1, <1>2, <1>4, <1>5, PosCounts

\* A set of positions has a first one.
LEMMA FirstPos ==
    ASSUME NEW S \in SUBSET StripePos, S # {}
    PROVE  \E p \in S : \A q \in S : p <= q
<1>1. K + M - 1 \in Nat /\ StripePos = 0 .. K + M - 1
  BY PlacementAssumption DEF StripePos
<1> DEFINE B == K + M - 1
           T == {B - p : p \in S}
<1>2. T \in SUBSET (0 .. B) /\ T # {}
  <2>1. B \in Nat /\ \A p \in S : B - p \in 0 .. B  BY <1>1
  <2>2. PICK p : p \in S  OBVIOUS
  <2>3. B - p \in T  BY <2>2
  <2> HIDE DEF B
  <2> QED  BY <2>1, <2>3
<1>3. Max(T) \in T /\ \A y \in T : Max(T) >= y  BY <1>1, <1>2, MaxOfBounded
<1>4. PICK p \in S : Max(T) = B - p  BY <1>3
<1>5. \A q \in S : B - p >= B - q  BY <1>3, <1>4
<1>6. p \in Nat /\ \A q \in S : q \in Nat  BY <1>1
<1> QED  BY <1>1, <1>5, <1>6

\* The decoder reads a parity file, or all k data files.
LEMMA InputsCount ==
    ASSUME NEW st, Cardinality(Missing(st)) <= M, Inputs(st) \cap ParityPos = {}
    PROVE  Inputs(st) = DataPos
<1> DEFINE P == Present(st)
           D == P \cap DataPos
           before(p) == {q \in P : q < p}
<1>1. /\ P \subseteq StripePos /\ IsFiniteSet(P) /\ Cardinality(P) \in Nat /\ Cardinality(P) >= K
      /\ K \in Nat \ {0} /\ M \in Nat
  BY PresentCounts, PlacementAssumption
<1>2. \A p : p \in Inputs(st) <=> p \in P /\ Cardinality(before(p)) < K
  BY DEF Inputs
<1> HIDE DEF P
<1>3. DataPos \subseteq P
  <2> SUFFICES ASSUME NEW d \in DataPos, d \notin P PROVE FALSE  OBVIOUS
  <2>1. D \subseteq DataPos \ {d} /\ IsFiniteSet(DataPos \ {d}) /\ Cardinality(DataPos \ {d}) = K - 1
    BY PosCounts, FS_RemoveElement
  <2>2. IsFiniteSet(D) /\ Cardinality(D) <= K - 1 /\ Cardinality(D) \in Nat
    BY <2>1, FS_Subset, FS_CardinalityType
  <2>3. P \cap ParityPos # {}
    <3> SUFFICES ASSUME P \cap ParityPos = {} PROVE FALSE  OBVIOUS
    <3>1. P = D  BY <1>1, PosTypes
    <3> QED  BY <1>1, <2>2, <3>1
  <2>4. PICK p \in P \cap ParityPos : \A q \in P \cap ParityPos : p <= q
    BY <1>1, <2>3, FirstPos
  <2>5. before(p) \subseteq D
    <3> SUFFICES ASSUME NEW q \in P, q < p PROVE q \in DataPos  OBVIOUS
    <3>1. q \notin ParityPos
      <4> SUFFICES ASSUME q \in ParityPos PROVE FALSE  OBVIOUS
      <4>1. p <= q  BY <2>4
      <4>2. p \in Nat /\ q \in Nat  BY <1>1, PosTypes
      <4> QED  BY <4>1, <4>2
    <3> QED  BY <1>1, <3>1, PosTypes
  <2>6. Cardinality(before(p)) <= Cardinality(D) /\ Cardinality(before(p)) \in Nat
    BY <2>2, <2>5, FS_Subset, FS_CardinalityType
  <2>7. p \in Inputs(st)  BY <1>1, <1>2, <2>2, <2>4, <2>6
  <2> QED  BY <2>4, <2>7
<1>4. DataPos \subseteq Inputs(st)
  <2> SUFFICES ASSUME NEW p \in DataPos PROVE Cardinality(before(p)) < K
    BY <1>2, <1>3
  <2>1. before(p) \subseteq DataPos \ {p}
    <3> SUFFICES ASSUME NEW q \in P, q < p PROVE q \in DataPos /\ q # p  OBVIOUS
    <3>1. q \in StripePos /\ p \in StripePos /\ p < K /\ q \in Nat /\ p \in Nat  BY <1>1, PosTypes
    <3>2. q < K  BY <1>1, <3>1
    <3> QED  BY <3>1, <3>2, PosTypes
  <2>2. IsFiniteSet(DataPos \ {p}) /\ Cardinality(DataPos \ {p}) = K - 1
    BY PosCounts, FS_RemoveElement
  <2>3. Cardinality(before(p)) <= K - 1 /\ Cardinality(before(p)) \in Nat
    BY <2>1, <2>2, FS_Subset, FS_CardinalityType
  <2> QED  BY <1>1, <2>3
<1>5. Inputs(st) \subseteq DataPos
  BY <1>1, <1>2, PosTypes
<1> QED  BY <1>4, <1>5

(***************************************************************************)
(* What k files of one generation decode to                                *)
(***************************************************************************)

\* What the rows say of a stripe, and the bytes of its DATA shards, are at data
\* positions, and every shard has its row's size.
LEMMA CoverTyped ==
    ASSUME TypeInv, NEW st
    PROVE  /\ Cover(rows, st) \in Word
           /\ \A x \in Cover(rows, st) : \E r \in StripeData(rows, st) :
                  x = <<r.pos, r.shard>> /\ r.size = Size[r.shard] /\ r.size > 0
                    /\ r.shard # None /\ r.pos \in DataPos
<1>1. \A r \in StripeData(rows, st) :
          /\ r.shard \in Shards /\ r.size = Size[r.shard] /\ r.pos \in DataPos /\ r.shard # None
  BY ArcsetAssumption DEF TypeInv, DataRowsTyped, StripeData, DataRows, StripeRows
<1> QED  BY <1>1 DEF Cover, Word

\* When the rows know the padded size, reading a file up to there cuts nothing.
LEMMA CutIsWhole ==
    ASSUME TypeInv, NEW st, RowsKnow(st), NEW W \in SUBSET Cover(rows, st)
    PROVE  Cut(st, W) = W
<1>1. \A x \in W : /\ x = <<x[1], x[2]>>
                   /\ x[2] # None /\ Reaches(st, Size[x[2]])
  <2> TAKE x \in W
  <2>1. PICK r \in StripeData(rows, st) :
            x = <<r.pos, r.shard>> /\ r.size = Size[r.shard] /\ r.shard # None
    BY CoverTyped
  <2>2. Reaches(st, r.size)  BY DEF RowsKnow
  <2> QED  BY <2>1, <2>2
<1>2. \A x \in W : <<x[1], IF x[2] # None /\ Reaches(st, Size[x[2]]) THEN x[2] ELSE None>> = x
  BY <1>1
<1> QED  BY <1>2 DEF Cut

\* Without wrong files, the present ones say what the rows say of them.
LEMMA PresentSay ==
    ASSUME TypeInv, RowInv, NEW st \in Stripe, \A w \in wrong : StripeKey(w.file) # st,
           NEW P \in SUBSET Present(st)
    PROVE  Said(st, P) = {x \in Cover(rows, st) : x[1] \in P}
<1>1. \A w \in wrong : ~(StripeKey(w.file) = st)  OBVIOUS
<1>2. ASSUME NEW r \in StripeData(rows, st), r.pos \in P
      PROVE  FileAt(r.shard, SlotOf(r)) \in target
  <2>1. r \in rows /\ r.type = "DATA" /\ r.group = st.group /\ r.stripe = st.stripe
    BY DEF StripeData, DataRows, StripeRows
  <2>2. r \in RowsAt(st, r.pos)  BY <2>1, SlotRows
  <2>3. FileAt(r.shard, SlotOf(r)) \in DataAt(st, r.pos)
    BY <2>1, <2>2 DEF DataAt, DataRows
  <2>4. r.pos \in DataPos /\ r.pos \in StripePos /\ r.pos < K
    BY <2>1, PosTypes DEF TypeInv, DataRowsTyped, DataRows
  <2>5. WrongAt(st, r.pos) = {}
    <3> SUFFICES ASSUME NEW w \in wrong, w.file \in DataAt(st, r.pos) PROVE FALSE
      BY DEF WrongAt
    <3>1. PICK q \in RowsAt(st, r.pos) : w.file = FileAt(q.shard, SlotOf(q))
      BY DEF DataAt, DataRows
    <3>2. q.group = st.group /\ q.stripe = st.stripe  BY SlotRows
    <3>3. StripeKey(w.file) = [group |-> st.group, stripe |-> st.stripe]
      BY <3>1, <3>2 DEF StripeKey, FileAt, SlotOf
    <3>4. st = [group |-> st.group, stripe |-> st.stripe]  BY DEF Stripe
    <3> QED  BY <1>1, <3>3, <3>4
  <2>6. ~(r.pos >= K)
    <3>1. r.pos \in Nat  BY <2>4, PosTypes
    <3> QED  BY <2>4, <3>1, PlacementAssumption
  <2> QED  BY <1>2, <2>3, <2>5, <2>6 DEF Present
<1>3. Said(st, P) = {<<r.pos, r.shard>> : r \in {x \in StripeData(rows, st) : x.pos \in P /\ x.size > 0}}
  BY <1>1, <1>2 DEF Said
<1> QED  BY <1>3 DEF Cover

\* k files of the generation of the rows lead back to it.
LEMMA RightDecodes ==
    ASSUME TypeInv, FileInv, RowInv, NEW st \in Stripe, RowsKnow(st), Right(st)
    PROVE  Cardinality(Present(st)) >= K /\ Decodings(st) = {Cover(rows, st)}
<1> DEFINE P    == Inputs(st)
           word == Cover(rows, st)
<1>1. Cardinality(Missing(st)) <= M /\ \A w \in wrong : StripeKey(w.file) # st
  BY DEF Right
<1>2. Cardinality(Present(st)) >= K
  BY <1>1, PresentCounts, PlacementAssumption
<1>3. P \subseteq Present(st) /\ P \subseteq StripePos
  BY PresentCounts DEF Inputs
<1>4. Said(st, P) = {x \in word : x[1] \in P}
  BY <1>1, <1>3, PresentSay
<1>5. Cut(st, Said(st, P)) = Said(st, P) /\ Cut(st, word) = word
  BY <1>4, CutIsWhole
<1>6. \A f \in UNION {EcAt(st, p) : p \in P} : f.cover = word
  <2> SUFFICES ASSUME NEW p \in P, NEW f \in EcAt(st, p) PROVE f.cover = word
    OBVIOUS
  <2>1. f \in parity /\ f.group = st.group /\ f.stripe = st.stripe  BY SlotRows
  <2>2. StripeKey(f) = st  BY <2>1 DEF StripeKey, Stripe
  <2> QED  BY <2>1, <2>2 DEF Right
<1>7. Words(st, P) = {word}
  <2> DEFINE covers == {Cut(st, f.cover) : f \in UNION {EcAt(st, p) : p \in P}}
  <2>1. covers \subseteq {word}  BY <1>5, <1>6
  <2>2. CASE covers # {}  BY <2>1, <2>2 DEF Words
  <2>3. CASE covers = {}
    <3>1. P \cap ParityPos = {}
      <4> SUFFICES ASSUME NEW p \in P, p \in ParityPos PROVE FALSE  OBVIOUS
      <4>1. p >= K  BY PlacementAssumption DEF ParityPos
      <4>2. EcAt(st, p) # {}  BY <1>3, <4>1 DEF Present
      <4>3. PICK f : f \in EcAt(st, p)  BY <4>2
      <4>4. Cut(st, f.cover) \in covers  BY <4>3
      <4> QED  BY <2>3, <4>4
    <3>2. P = DataPos  BY <1>1, <3>1, InputsCount
    <3>3. \A x \in word : x[1] \in DataPos  BY CoverTyped
    <3>4. Said(st, P) = word  BY <1>4, <3>2, <3>3
    <3> QED  BY <1>5, <2>3, <3>4 DEF Words
  <2> QED  BY <2>2, <2>3
<1>8. ~Unsure(st, P)
  <2>1. \A x \in word : x[2] # None  BY CoverTyped
  <2>2. Cut(st, Said(st, P)) \subseteq word  BY <1>4, <1>5
  <2> QED  BY <1>7, <2>1, <2>2 DEF Unsure
<1>9. Agree(st, P)  BY <1>4, <1>5, <1>7 DEF Agree
<1> QED  BY <1>2, <1>7, <1>8, <1>9 DEF Decodings

(***************************************************************************)
(* Frames                                                                  *)
(***************************************************************************)

\* What depends on the rows and the files alone.
LEMMA FilesKept ==
    ASSUME UNCHANGED <<rows, target, pads, parity, wrong>>
    PROVE  /\ FileInv => FileInv'
           /\ RowInv => RowInv'
           /\ \A st : /\ Encoded(st)' <=> Encoded(st)
                      /\ RowsKnow(st)' <=> RowsKnow(st)
                      /\ Right(st)' <=> Right(st)
                      /\ Missing(st)' = Missing(st)
<1>1. FileInv => FileInv'  BY DEF FileInv
<1>2. RowInv => RowInv'  BY DEF RowInv
<1>3. ASSUME NEW st PROVE Missing(st)' = Missing(st)
  <2>1. \A p : /\ EcAt(st, p)' = EcAt(st, p) /\ DataAt(st, p)' = DataAt(st, p)
               /\ WrongAt(st, p)' = WrongAt(st, p)
    BY DEF EcAt, DataAt, WrongAt, RowsAt
  <2>2. Present(st)' = Present(st)  BY <2>1 DEF Present
  <2> QED  BY <2>2 DEF Missing
<1>4. ASSUME NEW st
      PROVE  /\ Encoded(st)' <=> Encoded(st)
             /\ RowsKnow(st)' <=> RowsKnow(st)
  BY DEF Encoded, RowsKnow, Reaches
<1>5. ASSUME NEW st PROVE Right(st)' <=> Right(st)
  BY <1>3 DEF Right
<1> QED  BY <1>1, <1>2, <1>3, <1>4, <1>5

\* A step of a command that leaves the rows and the files alone and starts
\* nothing new is harmless.
LEMMA QuietSafe ==
    ASSUME RecoverSafe, rec.pc = "idle", TypeInv', RunInv', PlaceInv', EncodersInv', CompletedEncoded',
           UNCHANGED <<rows, target, pads, parity, wrong, rec, spoiled>>
    PROVE  RecoverSafe'
<1>1. RecTyped'  BY DEF RecoverSafe, RecTyped
<1>2. FileInv' /\ RowInv'  BY FilesKept DEF RecoverSafe
<1>3. EncodedInv'
  BY FilesKept DEF RecoverSafe, EncodedInv
<1>4. RecoveryInv'  BY DEF RecoveryInv
<1> QED  BY <1>1, <1>2, <1>3, <1>4 DEF RecoverSafe

\* What a command that has no workers preserves.
LEMMA NoEncoders ==
    ASSUME DOMAIN work' = {}, op'.cmd # "make-ec"
    PROVE  EncodersInv'
BY DEF EncodersInv

\* Completed arcsets are looked at again when their rows or their status change.
LEMMA StillCompleted ==
    ASSUME CompletedEncoded, UNCHANGED rows,
           arcset'.status = "completed" => arcset.status = "completed"
    PROVE  CompletedEncoded'
<1>1. \A st : Encoded(st)' <=> Encoded(st)  BY DEF Encoded
<1> QED  BY <1>1 DEF CompletedEncoded

(***************************************************************************)
(* Commands that leave the rows and the files alone                        *)
(***************************************************************************)

\* An arcset just created has neither rows nor files.
LEMMA InitRecoverSafe == RecoverInit => RecoverSafe
<1> SUFFICES ASSUME RecoverInit PROVE RecoverSafe  OBVIOUS
<1>1. TypeInv  BY InitTypes DEF RecoverInit
<1>2. /\ rows = {} /\ DOMAIN work = {} /\ op.cmd = "none" /\ val.pc = "idle"
      /\ arcset.status = "defined" /\ parity = {} /\ wrong = {} /\ spoiled = {}
  BY DEF RecoverInit, Init, Idle, NoWork, NotValidating
<1>3. rec.pc = "idle" /\ RecTyped
  BY <1>2 DEF RecoverInit, NotRecovering, RecTyped, Word
<1> QED
  BY <1>1, <1>2, <1>3 DEF RecoverSafe, RunInv, FileInv, RowInv, DataRows, PlaceInv, Recording,
     EncodedInv, EncodersInv, CompletedEncoded, RecoveryInv

\* append writes no row and no file of the arcset, and makes it building.
LEMMA AppendKeeps ==
    ASSUME RecoverSafe, rec.pc = "idle", val.pc = "idle", AppendStep,
           UNCHANGED <<wrong, rec, spoiled>>
    PROVE  RecoverSafe'
<1>1. TypeInv'  BY AppendTypes DEF RecoverSafe
<1>2. /\ UNCHANGED <<rows, source, target, pads, parity, work, val>>
      /\ op.cmd \in {"none", "append"} /\ op'.cmd \in {"none", "append"}
      /\ arcset'.status \in {arcset.status, "building"}
  <2>1. arcset \in ArcsetRow /\ op \in Command  BY DEF RecoverSafe, TypeInv, TypeOK
  <2> USE <2>1 DEF tables, files, Running, Idle, ArcsetRow, Command
  <2>2. ASSUME NEW d \in Datasets, AppendInherit(d) PROVE <1>2!:  BY <2>2 DEF AppendInherit
  <2>3. ASSUME NEW d \in Datasets, AppendRegister(d) PROVE <1>2!:  BY <2>3 DEF AppendRegister
  <2>4. ASSUME NEW d \in Datasets, AppendKnown(d) PROVE <1>2!:  BY <2>4 DEF AppendKnown
  <2>5. CASE AppendBusy  BY <2>5 DEF AppendBusy
  <2>6. CASE AppendFreeze  BY <2>6 DEF AppendFreeze
  <2> QED  BY <2>2, <2>3, <2>4, <2>5, <2>6 DEF AppendStep
<1>3. DOMAIN work' = {}  BY <1>2 DEF RecoverSafe, RunInv
<1>4. RunInv'  BY <1>2, <1>3 DEF RunInv
<1>5. PlaceInv'  BY <1>2 DEF PlaceInv, Recording
<1>6. CompletedEncoded'  BY <1>2, StillCompleted DEF RecoverSafe
<1> QED  BY <1>1, <1>2, <1>3, <1>4, <1>5, <1>6, NoEncoders, QuietSafe

\* expand changes the number of groups alone.
LEMMA ExpandKeeps ==
    ASSUME RecoverSafe, rec.pc = "idle", val.pc = "idle",
           NEW add \in 1 .. MaxPartitions, Expand(add), UNCHANGED <<wrong, rec, spoiled>>
    PROVE  RecoverSafe'
<1>1. TypeInv'  BY ExpandTypes DEF RecoverSafe
<1>2. /\ UNCHANGED <<rows, source, target, pads, parity, work, val, op, cur>>
      /\ arcset'.status = arcset.status /\ op.cmd = "none"
  BY DEF Expand, tables, files, RecoverSafe, TypeInv, TypeOK, ArcsetRow, Idle
<1>3. DOMAIN work' = {}  BY <1>2 DEF RecoverSafe, RunInv
<1>4. RunInv'  BY <1>2, <1>3 DEF RunInv
<1>5. PlaceInv'  BY <1>2 DEF PlaceInv, Recording
<1>6. CompletedEncoded'  BY <1>2, StillCompleted DEF RecoverSafe
<1> QED  BY <1>1, <1>2, <1>3, <1>4, <1>5, <1>6, NoEncoders, QuietSafe

\* A crash forgets the command; a failed worker knows nothing any more.
LEMMA FaultKeeps ==
    ASSUME RecoverSafe, rec.pc = "idle", val.pc = "idle", Fault,
           UNCHANGED <<wrong, rec, spoiled>>
    PROVE  RecoverSafe'
<1>1. TypeInv'  BY FaultTypes DEF RecoverSafe
<1>2. UNCHANGED <<arcset, rows, source, target, pads, parity, val>>
  BY DEF Fault, Crash, StripeFail, tables, files
<1>3. CompletedEncoded'  BY <1>2, StillCompleted DEF RecoverSafe
<1>4. CASE Crash
  <2>1. op'.cmd = "none" /\ DOMAIN work' = {}  BY <1>4 DEF Crash, Idle, NoWork
  <2>2. RunInv' /\ PlaceInv'  BY <1>2, <2>1 DEF RunInv, PlaceInv, Recording
  <2> QED  BY <1>1, <1>2, <1>3, <2>1, <2>2, NoEncoders, QuietSafe
<1>5. ASSUME NEW st \in DOMAIN work, StripeFail(st) PROVE RecoverSafe'
  <2>1. UNCHANGED <<op, cur>> /\ op.cmd = "make-ec"
    BY <1>5 DEF StripeFail, Running
  <2>2. DOMAIN work' = DOMAIN work  BY <1>5 DEF StripeFail
  <2>3. work'[st].pc = "failed" /\ \A other \in DOMAIN work : other # st => work'[other] = work[other]
    BY <1>5 DEF StripeFail, RecoverSafe, TypeInv, TypeOK, Worker
  <2>4. RunInv'  BY <1>2, <2>1, <2>2 DEF RecoverSafe, RunInv
  <2>5. PlaceInv'  BY <2>1 DEF PlaceInv, Recording
  <2>6. EncodersInv'
    <3>1. EncoderInv(st)'  BY <2>3 DEF EncoderInv
    <3>2. ASSUME NEW other \in DOMAIN work, other # st PROVE EncoderInv(other)'
      <4>1. EncoderInv(other)  BY <3>2 DEF RecoverSafe, EncodersInv
      <4> QED  BY <1>2, <2>3, <3>2, <4>1, FilesKept DEF EncoderInv
    <3> QED  BY <1>2, <2>1, <2>2, <3>1, <3>2 DEF RecoverSafe, EncodersInv
  <2> QED  BY <1>1, <1>2, <1>3, <2>4, <2>5, <2>6, QuietSafe
<1> QED  BY <1>4, <1>5 DEF Fault

\* validate completes an arcset whose rows it has found complete.
LEMMA ValidateKeeps ==
    ASSUME RecoverSafe, rec.pc = "idle", op = Idle, ValidateStep \/ ValidateWrong,
           UNCHANGED <<wrong, rec, spoiled>>
    PROVE  RecoverSafe'
<1>1. TypeInv'
  <2>1. CASE ValidateStep  BY <2>1, ValidateTypes DEF RecoverSafe
  <2>2. CASE ValidateWrong
    BY <2>2 DEF ValidateWrong, tables, files, RecoverSafe, TypeInv, TypeOK, CurTyped, Recording,
                DataRowsTyped
  <2> QED  BY <2>1, <2>2
<1>2. UNCHANGED <<rows, source, target, pads, parity, work, op, cur>>
  BY DEF ValidateStep, ValidateRead, ValidatePasses, ValidateFails, ValidateWrite, ValidateWrong,
         tables, files
<1>3. op.cmd = "none" /\ DOMAIN work = {}  BY DEF Idle, RecoverSafe, RunInv
<1>4. PlaceInv'  BY <1>2, <1>3 DEF PlaceInv, Recording
<1>5. \A st : Encoded(st)' <=> Encoded(st)  BY <1>2 DEF Encoded
<1>6. RunInv' /\ CompletedEncoded'
  <2>1. ASSUME UNCHANGED arcset, val'.pc \in {"idle", "check"} \/ val'.stage = "ec",
               val'.pc # "idle" => val'.rows = rows
        PROVE  RunInv' /\ CompletedEncoded'
    <3>1. RunInv'  BY <1>2, <1>3, <2>1 DEF RunInv
    <3>2. CompletedEncoded'  BY <1>2, <2>1, StillCompleted DEF RecoverSafe
    <3> QED  BY <3>1, <3>2
  <2>2. ASSUME NEW stage \in {"data", "ec", "all"}, ValidateRead(stage)
        PROVE  RunInv' /\ CompletedEncoded'
    BY <2>1, <2>2 DEF ValidateRead, tables
  <2>3. CASE ValidatePasses
    <3>1. /\ val'.pc = "write" /\ val'.rows = val.rows /\ val'.stage = val.stage /\ val.rows = rows
          /\ UNCHANGED arcset
      BY <2>3 DEF ValidatePasses, tables, RecoverSafe, TypeInv, TypeOK, RunInv
    <3>2. ASSUME val.stage = "all", M > 0, NEW st \in DataStripes(rows)
          PROVE  Encoded(st)
      <4>1. st \in {StripeKey(r) : r \in val.rows}
        BY <3>1 DEF DataStripes, DataRows
      <4>2. {r.pos : r \in StripeRows(rows, st.group, st.stripe)} = StripePos
        BY <2>3, <3>1, <3>2, <4>1 DEF ValidatePasses, ChecksPass, StripeValid
      <4>3. K \in StripePos /\ K \in ParityPos
        BY <3>2, PlacementAssumption DEF StripePos, ParityPos
      <4>4. PICK r \in StripeRows(rows, st.group, st.stripe) : r.pos = K
        BY <4>2, <4>3
      <4>5. r \in rows /\ r.type = "EC"
        BY <4>3, <4>4 DEF RecoverSafe, RowInv, StripeRows
      <4> QED  BY <4>4, <4>5 DEF Encoded, ParityRows
    <3>3. (val'.stage = "all" /\ M > 0) => \A st \in DataStripes(rows) : Encoded(st)
      BY <3>1, <3>2
    <3>4. RunInv'  BY <1>2, <1>3, <1>5, <3>1, <3>3 DEF RunInv
    <3>5. CompletedEncoded'  BY <1>2, <3>1, StillCompleted DEF RecoverSafe
    <3> QED  BY <3>4, <3>5
  <2>4. CASE ValidateFails
    BY <2>1, <2>4 DEF ValidateFails, NotValidating, tables
  <2>5. CASE ValidateWrite
    <3>1. RunInv'  BY <1>2, <1>3, <2>5 DEF ValidateWrite, NotValidating, RunInv
    <3>2. CASE val.stage = "all"
      <4>1. M > 0 => \A st \in DataStripes(rows) : Encoded(st)
        BY <2>5, <3>2 DEF ValidateWrite, RecoverSafe, RunInv
      <4> QED  BY <1>2, <1>5, <3>1, <4>1 DEF CompletedEncoded
    <3>3. CASE val.stage # "all"
      <4>1. arcset'.status = arcset.status
        BY <2>5, <3>3 DEF ValidateWrite, RecoverSafe, TypeInv, TypeOK, ArcsetRow
      <4> QED  BY <1>2, <3>1, <4>1, StillCompleted DEF RecoverSafe
    <3> QED  BY <3>1, <3>2, <3>3
  <2>6. CASE ValidateWrong
    <3>1. val'.pc = "write" /\ val'.stage = "ec" /\ val'.rows = rows /\ UNCHANGED arcset
      BY <2>6 DEF ValidateWrong, tables, RecoverSafe, TypeInv, TypeOK, RunInv
    <3> QED  BY <2>1, <3>1
  <2> QED  BY <2>2, <2>3, <2>4, <2>5, <2>6 DEF ValidateStep
<1> QED  BY <1>1, <1>2, <1>3, <1>4, <1>6, NoEncoders, QuietSafe

(***************************************************************************)
(* Steps that write rows or files                                          *)
(***************************************************************************)

\* What the parity rows say of one stripe.
Truth(st) == Encoded(st) => RowsKnow(st) /\ (st \in spoiled \/ Right(st))

\* Only stripes with rows have parity rows.
LEMMA TruthEverywhere ==
    /\ TypeInv /\ EncodedInv => \A st \in Stripe : Truth(st)
    /\ TypeInv' /\ (\A st \in Stripe : Truth(st)') => EncodedInv'
<1>1. ASSUME TypeInv, EncodedInv, NEW st \in Stripe PROVE Truth(st)
  <2> SUFFICES ASSUME Encoded(st) PROVE st \in {StripeKey(r) : r \in rows}
    BY <1>1 DEF EncodedInv, Truth
  <2>1. PICK r \in rows : r.group = st.group /\ r.stripe = st.stripe
    BY DEF Encoded, ParityRows, StripeRows
  <2>2. StripeKey(r) = st  BY <2>1 DEF StripeKey, Stripe
  <2> QED  BY <2>1, <2>2
<1>2. ASSUME TypeInv', \A st \in Stripe : Truth(st)' PROVE EncodedInv'
  <2>1. \A r \in rows' : StripeKey(r) \in Stripe
    BY <1>2 DEF TypeInv, TypeOK, Row, StripeKey, Stripe
  <2> QED  BY <1>2, <2>1 DEF EncodedInv, Truth
<1> QED  BY <1>1, <1>2

\* A stripe stays right while its data stays what it is, no file of it goes, and
\* the parity files that come are of the data.
LEMMA RightKept ==
    ASSUME NEW st \in Stripe, Right(st),
           \A r \in StripeData(rows, st) : \E q \in StripeData(rows', st) : SameData(r, q),
           \A q \in StripeData(rows', st) : \E r \in StripeData(rows, st) : SameData(r, q),
           target \subseteq target', pads \subseteq pads',
           \A p : EcAt(st, p) # {} => EcAt(st, p)' # {},
           \A f \in parity' : StripeKey(f) = st => f.cover = Cover(rows, st),
           \A w \in wrong' : StripeKey(w.file) # st
    PROVE  Right(st)' /\ Cover(rows', st) = Cover(rows, st)
<1>1. Cover(rows', st) = Cover(rows, st)  BY DEF Cover, SameData
<1>2. ASSUME NEW p PROVE DataAt(st, p)' = DataAt(st, p) /\ WrongAt(st, p) = {}
  <2>1. \A f : f \in DataAt(st, p) <=>
                 \E r \in StripeData(rows, st) : r.pos = p /\ f = FileAt(r.shard, SlotOf(r))
    BY SlotRows DEF DataAt, DataRows, StripeData, StripeRows
  <2>2. \A f : f \in DataAt(st, p)' <=>
                 \E r \in StripeData(rows', st) : r.pos = p /\ f = FileAt(r.shard, SlotOf(r))
    <3>1. \A r : r \in RowsAt(st, p)' <=> r \in rows' /\ r.group = st.group /\ r.stripe = st.stripe
                                          /\ r.pos = p
      BY DEF RowsAt, SlotOf, ParitySlot
    <3> QED  BY <3>1 DEF DataAt, DataRows, StripeData, StripeRows
  <2>3. \A r, q : SameData(r, q) => FileAt(r.shard, SlotOf(r)) = FileAt(q.shard, SlotOf(q))
    BY DEF SameData, FileAt, SlotOf
  <2>4. \A r, q : SameData(r, q) => r.pos = q.pos  BY DEF SameData
  <2>5. DataAt(st, p)' = DataAt(st, p)
    <3>1. ASSUME NEW f \in DataAt(st, p) PROVE f \in DataAt(st, p)'
      <4>1. PICK r \in StripeData(rows, st) : r.pos = p /\ f = FileAt(r.shard, SlotOf(r))
        BY <2>1
      <4>2. PICK q \in StripeData(rows', st) : SameData(r, q)  OBVIOUS
      <4>3. q.pos = p /\ f = FileAt(q.shard, SlotOf(q))  BY <2>3, <2>4, <4>1, <4>2
      <4> QED  BY <2>2, <4>3
    <3>2. ASSUME NEW f \in DataAt(st, p)' PROVE f \in DataAt(st, p)
      <4>1. PICK q \in StripeData(rows', st) : q.pos = p /\ f = FileAt(q.shard, SlotOf(q))
        BY <2>2
      <4>2. PICK r \in StripeData(rows, st) : SameData(r, q)  OBVIOUS
      <4>3. r.pos = p /\ f = FileAt(r.shard, SlotOf(r))  BY <2>3, <2>4, <4>1, <4>2
      <4> QED  BY <2>1, <4>3
    <3>3. \A f : f \in DataAt(st, p)' <=> f \in DataAt(st, p)  BY <3>1, <3>2
    <3> QED  BY <3>3
  <2>6. \A f \in DataAt(st, p) : StripeKey(f) = st
    <3> SUFFICES ASSUME NEW r \in StripeData(rows, st)
                 PROVE  StripeKey(FileAt(r.shard, SlotOf(r))) = st
      BY <2>1
    <3>1. r.group = st.group /\ r.stripe = st.stripe  BY DEF StripeData, StripeRows, DataRows
    <3> QED  BY <3>1 DEF StripeKey, FileAt, SlotOf, Stripe
  <2>7. WrongAt(st, p) = {}  BY <2>6 DEF WrongAt, Right
  <2> QED  BY <2>5, <2>7
<1>3. Present(st) \subseteq Present(st)'
  <2> SUFFICES ASSUME NEW p \in Present(st) PROVE p \in Present(st)'  OBVIOUS
  <2>1. p \in StripePos  BY DEF Present
  <2>2. CASE p >= K  BY <2>1, <2>2 DEF Present
  <2>3. CASE ~(p >= K) /\ DataAt(st, p) = {}  BY <1>2, <2>1, <2>3 DEF Present
  <2>4. CASE ~(p >= K) /\ DataAt(st, p) # {}
    <3>1. DataAt(st, p) \subseteq target  BY <1>2, <2>4 DEF Present
    <3> QED  BY <1>2, <2>1, <2>4, <3>1 DEF Present
  <2> QED  BY <2>2, <2>3, <2>4
<1>4. Missing(st)' \subseteq Missing(st)  BY <1>3 DEF Missing
<1>5. Cardinality(Missing(st)') <= Cardinality(Missing(st)) /\ Cardinality(Missing(st)') \in Nat
  BY <1>4, PresentCounts, FS_Subset, FS_CardinalityType
<1>6. Cardinality(Missing(st)') <= M
  BY <1>5, PresentCounts, PlacementAssumption DEF Right
<1> QED  BY <1>1, <1>6 DEF Right

\* The rows of another stripe tell the same.
LEMMA OtherRows ==
    ASSUME NEW st, StripeRows(rows', st.group, st.stripe) = StripeRows(rows, st.group, st.stripe)
    PROVE  /\ Encoded(st)' <=> Encoded(st)
           /\ RowsKnow(st)' <=> RowsKnow(st)
           /\ StripeData(rows', st) = StripeData(rows, st)
           /\ \A r \in StripeData(rows, st) : SameData(r, r)
BY DEF Encoded, ParityRows, RowsKnow, Reaches, StripeData, SameData

\* ... and the stripe stays right if its files are still there.
LEMMA OtherStripe ==
    ASSUME NEW st \in Stripe, Truth(st), spoiled \subseteq spoiled',
           StripeRows(rows', st.group, st.stripe) = StripeRows(rows, st.group, st.stripe),
           target \subseteq target', pads \subseteq pads',
           \A f : StripeKey(f) = st => (f \in parity' <=> f \in parity),
           \A w : StripeKey(w.file) = st => (w \in wrong' <=> w \in wrong)
    PROVE  Truth(st)' /\ (Right(st) => Right(st)')
<1>1. \A p, f : f \in EcAt(st, p) => StripeKey(f) = st
  BY SlotRows DEF StripeKey, Stripe
<1>2. \A p : EcAt(st, p) # {} => EcAt(st, p)' # {}
  BY <1>1 DEF EcAt
<1>3. Right(st) => Right(st)'
  <2> SUFFICES ASSUME Right(st) PROVE Right(st)'  OBVIOUS
  <2>1. \A f \in parity' : StripeKey(f) = st => f.cover = Cover(rows, st)  BY DEF Right
  <2>2. \A w \in wrong' : StripeKey(w.file) # st  BY DEF Right
  <2> QED  BY <1>2, <2>1, <2>2, OtherRows, RightKept
<1> QED  BY <1>3, OtherRows DEF Truth

(***************************************************************************)
(* arcset build-data                                                       *)
(***************************************************************************)

\* A slot that placement chooses holds at most PAD rows.
LEMMA SlotFree ==
    ASSUME TypeInv, RowInv, NEW groups \in Nat, NEW size,
           NEW sl \in Candidates(rows, groups, size),
           NEW r \in rows, SlotOf(r) = sl
    PROVE  r.type = "PAD"
<1>1. r.group \in Nat /\ r.stripe \in Nat  BY DEF TypeInv, TypeOK, Row
<1>2. CASE sl \in PadSlots(rows, size)
  <2>1. PICK x \in rows : x.type = "PAD" /\ x.pos < K /\ SlotOf(x) = sl
    BY <1>2 DEF PadSlots
  <2>2. SlotOf(r) = SlotOf(x)  BY <2>1
  <2>3. r.type # "DATA"
    <3> SUFFICES ASSUME r.type = "DATA" PROVE FALSE  OBVIOUS
    <3>1. r = x  BY <2>1, <2>2 DEF RowInv, DataRows
    <3> QED  BY <2>1, <3>1
  <2>4. r.pos = x.pos  BY <2>2 DEF SlotOf
  <2>5. x.pos \notin ParityPos
    BY <2>1, PosTypes, PlacementAssumption DEF ParityPos
  <2>6. r.type # "EC"  BY <2>4, <2>5 DEF RowInv
  <2> QED  BY <2>3, <2>6 DEF TypeInv, TypeOK, Row
<1>3. CASE sl \in HoleSlots(rows, groups, size)
  BY <1>3 DEF HoleSlots
<1>4. CASE sl \in FreshSlots(rows, groups, size)
  <2>1. sl.stripe \in NextSeq(rows, sl.group)  BY <1>4 DEF FreshSlots
  <2>2. ~Started(rows, sl.group, sl.stripe)  BY <2>1 DEF NextSeq
  <2> QED  BY <1>1, <2>2 DEF Started, SlotOf
<1> QED  BY <1>2, <1>3, <1>4 DEF Candidates

\* Files of shards without a row disturb nothing.
LEMMA FilesAdded ==
    ASSUME RecoverSafe, TypeInv', target \subseteq target',
           \A f \in target' \ target : \A r \in DataRows(rows) : f # FileAt(r.shard, SlotOf(r)),
           UNCHANGED <<rows, pads, parity, wrong, spoiled>>
    PROVE  FileInv' /\ RowInv' /\ EncodedInv'
<1>1. FileInv'  BY DEF RecoverSafe, FileInv
<1>2. RowInv'  BY DEF RecoverSafe, RowInv
<1>3. ASSUME NEW st \in Stripe PROVE Truth(st)'
  <2>1. Truth(st)  BY TruthEverywhere DEF RecoverSafe
  <2> QED  BY <2>1, OtherStripe
<1> QED  BY <1>1, <1>2, <1>3, TruthEverywhere

\* build-data puts the file before the row, and drops the parity rows of a
\* refilled stripe before the new row.
LEMMA BuildKeeps ==
    ASSUME RecoverSafe, rec.pc = "idle", val.pc = "idle", BuildStep,
           UNCHANGED <<wrong, rec, spoiled>>
    PROVE  RecoverSafe'
<1>1. TypeInv'  BY BuildTypes DEF RecoverSafe
<1>2. /\ TypeInv /\ arcset \in ArcsetRow /\ op \in Command
      /\ FileInv /\ RowInv /\ PlaceInv
  BY DEF RecoverSafe, TypeInv, TypeOK
<1>3. /\ UNCHANGED <<pads, parity, work, val>>
      /\ DOMAIN work = {}
      /\ arcset.status = "building" /\ arcset'.status = "building"
      /\ op'.cmd \in {"none", "build-data"}
  <2> USE <1>2 DEF RecoverSafe, RunInv, tables, files, Running, Idle, ArcsetRow, Command
  <2>1. ASSUME NEW only \in BuildScopes, BuildStart(only) PROVE <1>3!:
    BY <2>1 DEF BuildStart, BuildAllowed
  <2>2. ASSUME NEW sh \in Shards, BuildRefused(sh) PROVE <1>3!:
    BY <2>2 DEF BuildRefused
  <2>3. ASSUME NEW sh \in Shards, NEW sl,
               \/ MoveVerified(sh, sl) \/ MoveRename(sh, sl)
               \/ MoveCopy(sh, sl) \/ MoveFails(sh, sl)
        PROVE  <1>3!:
    BY <2>3 DEF MoveVerified, MoveRename, MoveCopy, MoveFails, Placing
  <2>4. CASE MoveUnlink  BY <2>4 DEF MoveUnlink
  <2>5. CASE BuildInvalidate  BY <2>5 DEF BuildInvalidate
  <2>6. CASE BuildRecord  BY <2>6 DEF BuildRecord
  <2>7. CASE BuildFinish  BY <2>7 DEF BuildFinish
  <2> QED  BY <2>1, <2>2, <2>3, <2>4, <2>5, <2>6, <2>7 DEF BuildStep
<1>4. RunInv' /\ EncodersInv' /\ CompletedEncoded' /\ RecTyped' /\ RecoveryInv'
  <2>1. DOMAIN work' = {} /\ op'.cmd # "make-ec"  BY <1>3
  <2>2. RunInv'  BY <1>3 DEF RunInv
  <2>3. EncodersInv'  BY <2>1, NoEncoders
  <2>4. CompletedEncoded'  BY <1>3 DEF CompletedEncoded
  <2>5. RecTyped'  BY DEF RecoverSafe, RecTyped
  <2>6. RecoveryInv'  BY DEF RecoveryInv
  <2> QED  BY <2>2, <2>3, <2>4, <2>5, <2>6
<1>5. ASSUME UNCHANGED <<rows, target>>, PlaceInv' PROVE RecoverSafe'
  BY <1>1, <1>3, <1>4, <1>5, QuietSafe
<1>6. ASSUME UNCHANGED <<rows, target>>, op'.cmd = "none" \/ op'.pc = "place" PROVE RecoverSafe'
  BY <1>5, <1>6 DEF PlaceInv, Recording
<1>7. ASSUME NEW only \in BuildScopes, BuildStart(only) PROVE RecoverSafe'
  BY <1>6, <1>7 DEF BuildStart, tables, files, Idle
<1>8. ASSUME NEW sh \in Shards, BuildRefused(sh) PROVE RecoverSafe'
  BY <1>6, <1>8 DEF BuildRefused, tables, files, Idle
<1>9. ASSUME NEW sh \in Shards, NEW sl \in Candidates(rows, arcset.groups, Size[sh]),
             MoveFails(sh, sl)
      PROVE  RecoverSafe'
  BY <1>6, <1>9 DEF MoveFails, tables, files, Idle
<1>10. CASE BuildFinish
  BY <1>6, <1>10 DEF BuildFinish, files, Idle
<1>11. ASSUME NEW sh \in Shards, NEW sl \in Candidates(rows, arcset.groups, Size[sh]),
              MoveVerified(sh, sl) \/ MoveRename(sh, sl) \/ MoveCopy(sh, sl)
       PROVE  RecoverSafe'
  <2>1. /\ Placing(sh, sl) /\ UNCHANGED rows /\ cur' = [shard |-> sh, slot |-> sl]
        /\ target' \in {target, target \cup {FileAt(sh, sl)}}
        /\ op'.pc \in {"unlink", AfterMove(sl)}
    BY <1>2, <1>11 DEF MoveVerified, MoveRename, MoveCopy, tables, Command
  <2>2. ~Placed(sh)  BY <2>1 DEF Placing, IsNext, Pending
  <2>3. \A r \in DataRows(rows) : FileAt(sh, sl) # FileAt(r.shard, SlotOf(r))
    BY <2>2 DEF Placed, DataRows, FileAt
  <2>4. FileInv' /\ RowInv' /\ EncodedInv'
    <3>1. /\ target \subseteq target'
          /\ \A f \in target' \ target : f = FileAt(sh, sl)
      BY <2>1
    <3>2. \A f \in target' \ target : \A r \in DataRows(rows) : f # FileAt(r.shard, SlotOf(r))
      BY <2>3, <3>1
    <3> QED  BY <1>1, <1>3, <2>1, <3>1, <3>2, FilesAdded
  <2>5. \A r \in rows : SlotOf(r) = sl => r.type = "PAD"
    BY <1>2, SlotFree DEF ArcsetRow
  <2>6. op'.pc = "record" => ParityRows(rows, sl.group, sl.stripe) = {}
    BY <1>2, <2>1, RecordWithoutParity
  <2>7. PlaceInv'
    <3>1. cur'.slot = sl  BY <2>1
    <3> QED  BY <2>1, <2>5, <2>6, <3>1 DEF PlaceInv, Encoded
  <2> QED  BY <1>1, <1>4, <2>4, <2>7 DEF RecoverSafe
<1>12. CASE MoveUnlink
  <2>1. /\ UNCHANGED <<rows, target, cur>> /\ Recording /\ op'.pc = AfterMove(cur.slot)
    BY <1>2, <1>12 DEF MoveUnlink, Recording, Running, tables, Command
  <2>2. op'.pc = "record" => ParityRows(rows, cur.slot.group, cur.slot.stripe) = {}
    BY <1>2, <2>1, RecordWithoutParity
  <2>3. PlaceInv'  BY <1>2, <2>1, <2>2 DEF PlaceInv, Encoded
  <2> QED  BY <1>5, <2>1, <2>3
<1>13. CASE BuildInvalidate
  <2> DEFINE gone == StripeKey(cur.slot)
  <2>1. /\ UNCHANGED <<target, cur>> /\ Recording /\ op'.cmd = "build-data"
        /\ rows' = {r \in rows : StripeKey(r) = gone => r.type # "EC"}
    BY <1>2, <1>13 DEF BuildInvalidate, Recording, Running, files, DeleteECShards, Command
  <2>2. rows' \subseteq rows /\ DataRows(rows') = DataRows(rows)  BY <2>1 DEF DataRows
  <2>3. FileInv'  BY <1>2, <1>3, <2>1, <2>2 DEF FileInv
  <2>4. RowInv'  BY <1>2, <2>2 DEF RowInv
  <2>5. ~Encoded(cur.slot)'
    BY <2>1 DEF Encoded, ParityRows, StripeRows, StripeKey
  <2>6. PlaceInv'  BY <1>2, <2>1, <2>2, <2>5 DEF PlaceInv
  <2>7. ASSUME NEW st \in Stripe PROVE Truth(st)'
    <3>1. CASE st = gone
      <4>1. ~Encoded(st)'  BY <2>1, <3>1 DEF Encoded, ParityRows, StripeRows, StripeKey
      <4> QED  BY <4>1 DEF Truth
    <3>2. CASE st # gone
      <4>1. \A r : StripeKey(r) = gone => ~(r.group = st.group /\ r.stripe = st.stripe)
        BY <3>2 DEF StripeKey, Stripe
      <4>2. StripeRows(rows', st.group, st.stripe) = StripeRows(rows, st.group, st.stripe)
        BY <2>1, <4>1 DEF StripeRows
      <4>3. Truth(st)  BY TruthEverywhere DEF RecoverSafe
      <4> QED  BY <1>3, <2>1, <4>2, <4>3, OtherStripe
    <3> QED  BY <3>1, <3>2
  <2>8. EncodedInv'  BY <1>1, <2>7, TruthEverywhere
  <2> QED  BY <1>1, <1>4, <2>3, <2>4, <2>6, <2>8 DEF RecoverSafe
<1>14. CASE BuildRecord
  <2> DEFINE new == DataRow(cur.shard, cur.slot)
  <2>1. /\ UNCHANGED target /\ Recording /\ op.pc = "record" /\ op'.pc = "place"
        /\ rows' = (rows \ {r \in rows : r.type = "PAD" /\ SlotOf(r) = cur.slot}) \cup {new}
    BY <1>2, <1>14 DEF BuildRecord, Recording, Running, files, Command
  <2>2. cur \in Placement  BY <1>2, <2>1 DEF TypeInv, CurTyped
  <2>3. /\ new.type = "DATA" /\ SlotOf(new) = cur.slot /\ new.pos \in DataPos
        /\ new.group = cur.slot.group /\ new.stripe = cur.slot.stripe
    BY <2>2 DEF DataRow, SlotOf, Placement, DataSlot
  <2>4. ~Encoded(cur.slot) /\ \A r \in rows : SlotOf(r) = cur.slot => r.type = "PAD"
    BY <1>2, <2>1 DEF PlaceInv
  <2> HIDE DEF new
  <2>5. DataRows(rows') = DataRows(rows) \cup {new}  BY <2>1, <2>3 DEF DataRows
  <2>6. FileInv'  BY <1>2, <1>3, <2>1, <2>5 DEF FileInv
  <2>7. \A r \in rows' : r = new \/ (r \in rows /\ SlotOf(r) # cur.slot)
    BY <2>1, <2>4
  <2>8. RowInv'
    <3>1. new.pos \notin ParityPos  BY <2>3, PosTypes
    <3>2. \A r \in rows' : r.type = "EC" <=> r.pos \in ParityPos
      BY <1>2, <2>3, <2>7, <3>1 DEF RowInv
    <3>3. ASSUME NEW r \in DataRows(rows'), NEW q \in rows', SlotOf(r) = SlotOf(q) PROVE r = q
      <4>1. CASE r = new  BY <2>3, <2>7, <3>3, <4>1
      <4>2. CASE r # new
        <5>1. r \in DataRows(rows) /\ SlotOf(r) # cur.slot  BY <2>5, <2>7, <4>2 DEF DataRows
        <5>2. q \in rows  BY <2>3, <2>7, <3>3, <5>1
        <5> QED  BY <1>2, <3>3, <5>1, <5>2 DEF RowInv
      <4> QED  BY <4>1, <4>2
    <3> QED  BY <3>2, <3>3 DEF RowInv
  <2>9. PlaceInv'  BY <2>1 DEF PlaceInv, Recording
  <2>10. ASSUME NEW st \in Stripe PROVE Truth(st)'
    <3>1. CASE st.group = cur.slot.group /\ st.stripe = cur.slot.stripe
      <4>1. ParityRows(rows, st.group, st.stripe) = {}  BY <2>4, <3>1 DEF Encoded
      <4>2. ~Encoded(st)'  BY <2>3, <2>7, <4>1 DEF Encoded, ParityRows, StripeRows
      <4> QED  BY <4>2 DEF Truth
    <3>2. CASE ~(st.group = cur.slot.group /\ st.stripe = cur.slot.stripe)
      <4>1. \A r : SlotOf(r) = cur.slot => ~(r.group = st.group /\ r.stripe = st.stripe)
        BY <2>2, <3>2 DEF SlotOf, Placement, DataSlot
      <4>2. ~(new.group = st.group /\ new.stripe = st.stripe)  BY <2>3, <3>2
      <4>3. StripeRows(rows', st.group, st.stripe) = StripeRows(rows, st.group, st.stripe)
        BY <2>1, <4>1, <4>2 DEF StripeRows
      <4>4. Truth(st)  BY TruthEverywhere DEF RecoverSafe
      <4> QED  BY <1>3, <2>1, <4>3, <4>4, OtherStripe
    <3> QED  BY <3>1, <3>2
  <2>11. EncodedInv'  BY <1>1, <2>10, TruthEverywhere
  <2> QED  BY <1>1, <1>4, <2>6, <2>8, <2>9, <2>11 DEF RecoverSafe
<1> QED  BY <1>7, <1>8, <1>9, <1>10, <1>11, <1>12, <1>13, <1>14 DEF BuildStep

(***************************************************************************)
(* arcset make-ec                                                          *)
(***************************************************************************)

\* The data of a stripe is part of the data.
LEMMA SameStripeData ==
    ASSUME NEW rs, NEW qs, DataRows(rs) = DataRows(qs), NEW st
    PROVE  StripeData(rs, st) = StripeData(qs, st)
<1>1. StripeData(rs, st) = {r \in DataRows(rs) : r.group = st.group /\ r.stripe = st.stripe}
  BY DEF StripeData, StripeRows, DataRows
<1>2. StripeData(qs, st) = {r \in DataRows(qs) : r.group = st.group /\ r.stripe = st.stripe}
  BY DEF StripeData, StripeRows, DataRows
<1> QED  BY <1>1, <1>2

\* The padded size covers every shard of the stripe.
LEMMA PaddedCovers ==
    ASSUME TypeInv, NEW st, NEW r \in StripeData(rows, st)
    PROVE  r.size <= PaddedSize(rows, st)
<1> DEFINE S == {x.size : x \in StripeData(rows, st)} \cup {0}
<1>1. \A x \in StripeData(rows, st) : x.size \in 0 .. MaxSize
  BY ArcsetAssumption DEF TypeInv, DataRowsTyped, StripeData, DataRows, StripeRows
<1>2. S \in SUBSET (0 .. MaxSize) /\ S # {} /\ r.size \in S /\ MaxSize \in Nat
  BY <1>1, ArcsetAssumption
<1>3. Max(S) >= r.size /\ Max(S) \in 0 .. MaxSize
  <2> HIDE DEF S
  <2> QED  BY <1>2, MaxOfBounded
<1>4. r.size \in Nat /\ Max(S) \in Nat  BY <1>1, <1>3
<1> QED  BY <1>3, <1>4 DEF PaddedSize

\* Files that VerifyStripeStreaming accepts, none of them wrong, are right.
LEMMA AgreeingFilesRight ==
    ASSUME RecoverSafe, NEW st \in Stripe, FilesAgree(st)
    PROVE  Right(st)
<1>1. ASSUME NEW w \in wrong, StripeKey(w.file) = st PROVE FALSE
  <2>1. PICK r \in DataRows(rows) : w.file = FileAt(r.shard, SlotOf(r))
    BY DEF RecoverSafe, FileInv
  <2>2. r \in StripeData(rows, st)
    BY <1>1, <2>1 DEF StripeKey, FileAt, SlotOf, Stripe, StripeData, StripeRows, DataRows
  <2>3. w.file \in target
    BY <2>1, <2>2 DEF FilesAgree, DataOnDisk, StripeData, DataRows
  <2> QED  BY <2>3 DEF RecoverSafe, FileInv
<1>2. ASSUME NEW f \in parity, StripeKey(f) = st PROVE f.cover = Cover(rows, st)
  <2>1. f.pos \in ParityPos  BY DEF RecoverSafe, FileInv
  <2>2. ParityFile(rows, st, f.pos) \in parity
    BY <2>1 DEF FilesAgree, ParityOnDisk
  <2>3. SlotOf(f) = SlotOf(ParityFile(rows, st, f.pos))
    BY <1>2 DEF SlotOf, ParityFile, StripeKey
  <2>4. f = ParityFile(rows, st, f.pos)  BY <2>2, <2>3 DEF RecoverSafe, FileInv
  <2>5. ParityFile(rows, st, f.pos).cover = Cover(rows, st)  BY DEF ParityFile
  <2> QED  BY <2>4, <2>5
<1>3. Missing(st) = {}
  <2> SUFFICES ASSUME NEW p \in StripePos PROVE p \in Present(st)
    BY DEF Missing
  <2>1. CASE p >= K
    <3>1. p \in ParityPos  BY <2>1, PosTypes, PlacementAssumption DEF DataPos
    <3>2. ParityFile(rows, st, p) \in EcAt(st, p)
      BY <3>1, SlotRows DEF FilesAgree, ParityOnDisk, ParityFile
    <3> QED  BY <2>1, <3>2 DEF Present
  <2>2. CASE ~(p >= K)
    <3>1. p \in DataPos  BY <2>2, PosTypes, PlacementAssumption DEF ParityPos
    <3>2. \A r \in DataRows(RowsAt(st, p)) : r \in StripeData(rows, st) /\ r.pos = p
      BY SlotRows DEF DataRows, StripeData, StripeRows
    <3>3. DataAt(st, p) \subseteq target
      BY <3>2 DEF DataAt, FilesAgree, DataOnDisk, StripeData, DataRows
    <3>4. DataAt(st, p) = {} => ParitySlot(st, p) \in pads
      <4> SUFFICES ASSUME DataAt(st, p) = {} PROVE p \notin DataPosOf(st)
        BY <3>1 DEF FilesAgree
      <4> SUFFICES ASSUME NEW r \in StripeData(rows, st), r.pos = p PROVE FALSE
        BY DEF DataPosOf
      <4>1. r \in DataRows(RowsAt(st, p))
        BY SlotRows DEF StripeData, StripeRows, DataRows
      <4> QED  BY <4>1 DEF DataAt
    <3> QED  BY <2>2, <3>3, <3>4 DEF Present
  <2> QED  BY <2>1, <2>2
<1> QED  BY <1>1, <1>2, <1>3, FS_EmptySet, PlacementAssumption DEF Right

\* Of a right stripe no DATA file is wrong.
LEMMA SomeWrongNotRight ==
    ASSUME NEW st \in Stripe, SomeWrong(st)
    PROVE  ~Right(st)
<1>1. PICK r \in StripeData(rows, st) : FileAt(r.shard, SlotOf(r)) \notin target
  BY DEF SomeWrong, DataOnDisk, StripeData, DataRows
<1>2. PICK w \in wrong : w.file = FileAt(r.shard, SlotOf(r))
  BY <1>1 DEF SomeWrong, InPlace
<1>3. StripeKey(w.file) = st
  BY <1>2 DEF StripeKey, FileAt, SlotOf, Stripe, StripeData, StripeRows, DataRows
<1> QED  BY <1>3 DEF Right

\* A step of the worker of one stripe leaves the other stripes alone.
LEMMA EncoderStep ==
    ASSUME RecoverSafe, rec.pc = "idle", val.pc = "idle", NEW st \in DOMAIN work, op.cmd = "make-ec",
           TypeInv', UNCHANGED <<arcset, op, val, target, wrong, rec>>,
           spoiled \subseteq spoiled', spoiled' \subseteq Stripe,
           DOMAIN work' = DOMAIN work,
           \A other \in DOMAIN work : other # st => work'[other] = work[other],
           DataStripes(rows') = DataStripes(rows),
           \A other \in Stripe : other # st =>
               StripeRows(rows', other.group, other.stripe) = StripeRows(rows, other.group, other.stripe),
           \A f : StripeKey(f) # st => (f \in parity' <=> f \in parity),
           pads \subseteq pads',
           FileInv', RowInv', Truth(st)', EncoderInv(st)'
    PROVE  RecoverSafe'
<1>1. DOMAIN work \subseteq Stripe /\ st \in Stripe
  BY DEF RecoverSafe, TypeInv, TypeOK
<1>2. ASSUME NEW other \in Stripe, other # st
      PROVE  /\ Truth(other)' /\ (Right(other) => Right(other)')
             /\ Encoded(other)' <=> Encoded(other)
             /\ StripeRows(rows', other.group, other.stripe) = StripeRows(rows, other.group, other.stripe)
  <2>1. Truth(other)  BY TruthEverywhere DEF RecoverSafe
  <2>2. StripeRows(rows', other.group, other.stripe) = StripeRows(rows, other.group, other.stripe)
    BY <1>2
  <2>3. \A f : StripeKey(f) = other => (f \in parity' <=> f \in parity)  BY <1>2
  <2> QED  BY <2>1, <2>2, <2>3, OtherStripe, OtherRows
<1>3. EncodedInv'  BY <1>2, TruthEverywhere
<1>4. EncodersInv'
  <2>1. ASSUME NEW other \in DOMAIN work, other # st PROVE EncoderInv(other)'
    <3>1. EncoderInv(other)  BY DEF RecoverSafe, EncodersInv
    <3>2. work'[other] = work[other]  BY <2>1
    <3> QED  BY <1>1, <1>2, <2>1, <3>1, <3>2 DEF EncoderInv
  <2> QED  BY <2>1 DEF RecoverSafe, EncodersInv
<1>5. RunInv'  BY DEF RecoverSafe, RunInv
<1>6. CompletedEncoded'  BY DEF RecoverSafe, RunInv, CompletedEncoded
<1>7. PlaceInv' /\ RecoveryInv'  BY DEF PlaceInv, Recording, RecoveryInv
<1>8. RecTyped'  BY DEF RecoverSafe, RecTyped
<1> QED  BY <1>3, <1>4, <1>5, <1>6, <1>7, <1>8 DEF RecoverSafe

\* A worker that starts, or writes the PAD files, changes nothing that matters.
LEMMA StartPadKeep ==
    ASSUME RecoverSafe, rec.pc = "idle", val.pc = "idle", TypeInv', NEW st \in DOMAIN work,
           StripeStart(st) \/ StripePad(st), UNCHANGED <<wrong, rec, spoiled>>
    PROVE  RecoverSafe'
<1>1. /\ UNCHANGED <<arcset, rows, op, val, target, parity>> /\ op.cmd = "make-ec"
      /\ pads \subseteq pads' /\ DOMAIN work' = DOMAIN work
      /\ \A other \in DOMAIN work : other # st => work'[other] = work[other]
  BY DEF StripeStart, StripePad, At, Running, tables, files
<1>2. work'[st].pc \in {"encode", "verify"}
  BY DEF StripeStart, StripePad, RecoverSafe, TypeInv, TypeOK, Worker
<1>3. EncoderInv(st)'  BY <1>2 DEF EncoderInv
<1>4. FileInv' /\ RowInv'  BY <1>1 DEF RecoverSafe, FileInv, RowInv
<1>5. st \in Stripe /\ spoiled \subseteq Stripe
  BY DEF RecoverSafe, TypeInv, TypeOK, RecTyped
<1>6. Truth(st)'
  <2>1. Truth(st)  BY <1>5, TruthEverywhere DEF RecoverSafe
  <2> QED  BY <1>1, <1>5, <2>1, OtherStripe
<1> QED  BY <1>1, <1>3, <1>4, <1>5, <1>6, EncoderStep

\* Replacing one parity file keeps slots unique and stripes complete.
LEMMA ParityReplaced ==
    ASSUME FileInv, NEW st \in Stripe, NEW p \in ParityPos, NEW new,
           new.group = st.group, new.stripe = st.stripe, new.pos = p,
           parity' = {f \in parity : SlotOf(f) # ParitySlot(st, p)} \cup {new},
           UNCHANGED <<target, wrong, rows>>
    PROVE  /\ FileInv'
           /\ \A f : StripeKey(f) # st => (f \in parity' <=> f \in parity)
           /\ \A q : EcAt(st, q) # {} => EcAt(st, q)' # {}
<1>1. SlotOf(new) = ParitySlot(st, p) /\ StripeKey(new) = st
  BY DEF SlotOf, ParitySlot, StripeKey, Stripe
<1>2. FileInv'  BY <1>1 DEF FileInv
<1>3. ASSUME NEW f, StripeKey(f) # st PROVE f \in parity' <=> f \in parity
  <2>1. f # new  BY <1>1, <1>3
  <2>2. SlotOf(f) # ParitySlot(st, p)
    <3> SUFFICES ASSUME SlotOf(f) = ParitySlot(st, p) PROVE FALSE  OBVIOUS
    <3>1. f.group = st.group /\ f.stripe = st.stripe  BY DEF SlotOf, ParitySlot
    <3> QED  BY <1>3, <3>1 DEF StripeKey, Stripe
  <2> QED  BY <2>1, <2>2
<1>4. ASSUME NEW q, EcAt(st, q) # {} PROVE EcAt(st, q)' # {}
  <2>1. PICK f \in parity : SlotOf(f) = ParitySlot(st, q)  BY <1>4 DEF EcAt
  <2>2. CASE q = p  BY <1>1, <2>2 DEF EcAt
  <2>3. CASE q # p
    <3>1. ParitySlot(st, q) # ParitySlot(st, p)  BY <2>3 DEF ParitySlot
    <3> QED  BY <2>1, <3>1 DEF EcAt
  <2> QED  BY <2>2, <2>3
<1> QED  BY <1>2, <1>3, <1>4

\* The parity file of the DATA rows replaces one that a right stripe had too.
LEMMA EncodeKeeps ==
    ASSUME RecoverSafe, rec.pc = "idle", val.pc = "idle", TypeInv',
           NEW st \in DOMAIN work, NEW p \in StripePos,
           \/ StripeEncode(st, p) /\ UNCHANGED <<wrong, rec, spoiled>>
           \/ EncodeWrong(st, p)
    PROVE  RecoverSafe'
<1>1. /\ UNCHANGED <<arcset, rows, op, val, target, pads, wrong, rec, spoiled>>
      /\ op.cmd = "make-ec" /\ DOMAIN work' = DOMAIN work
      /\ work[st].pc = "encode" /\ p \in ParityPos
      /\ work' = Advance(st, ParityPos, p, "pad")
      /\ \A other \in DOMAIN work : other # st => work'[other] = work[other]
  BY DEF StripeEncode, EncodeWrong, At, Running, IsFirst, Left, Advance, tables, files
<1>2. work'[st].pc \in {"encode", "pad"}
  BY <1>1 DEF Advance
<1>3. EncoderInv(st)'  BY <1>2 DEF EncoderInv
<1>4. FileInv /\ RowInv'  BY <1>1 DEF RecoverSafe, RowInv
<1>5. st \in Stripe /\ spoiled \subseteq Stripe /\ Truth(st)
  <2>1. st \in Stripe  BY DEF RecoverSafe, TypeInv, TypeOK
  <2> QED  BY <2>1, TruthEverywhere DEF RecoverSafe, RecTyped
<1>6. PICK new : /\ parity' = {f \in parity : SlotOf(f) # ParitySlot(st, p)} \cup {new}
                 /\ new.group = st.group /\ new.stripe = st.stripe /\ new.pos = p
                 /\ new.cover = Cover(rows, st) \/ SomeWrong(st)
  <2>1. CASE StripeEncode(st, p)
    <3>1. /\ parity' = {f \in parity : SlotOf(f) # ParitySlot(st, p)} \cup {ParityFile(rows, st, p)}
      BY <2>1 DEF StripeEncode
    <3>2. /\ ParityFile(rows, st, p).group = st.group /\ ParityFile(rows, st, p).stripe = st.stripe
          /\ ParityFile(rows, st, p).pos = p /\ ParityFile(rows, st, p).cover = Cover(rows, st)
      BY DEF ParityFile
    <3> QED  BY <3>1, <3>2
  <2>2. CASE EncodeWrong(st, p)
    <3>1. /\ parity' = {f \in parity : SlotOf(f) # ParitySlot(st, p)} \cup {WrongParity(st, p)}
          /\ SomeWrong(st)
      BY <2>2 DEF EncodeWrong
    <3>2. /\ WrongParity(st, p).group = st.group /\ WrongParity(st, p).stripe = st.stripe
          /\ WrongParity(st, p).pos = p
      BY DEF WrongParity
    <3> QED  BY <3>1, <3>2
  <2> QED  BY <2>1, <2>2
<1>7. /\ FileInv'
      /\ \A f : StripeKey(f) # st => (f \in parity' <=> f \in parity)
      /\ \A q : EcAt(st, q) # {} => EcAt(st, q)' # {}
  BY <1>1, <1>4, <1>5, <1>6, ParityReplaced
<1>8. ASSUME Right(st) PROVE Right(st)'
  <2>1. new.cover = Cover(rows, st)  BY <1>5, <1>6, <1>8, SomeWrongNotRight
  <2>2. \A f \in parity' : StripeKey(f) = st => f.cover = Cover(rows, st)
    BY <1>6, <1>8, <2>1 DEF Right
  <2>3. \A w \in wrong' : StripeKey(w.file) # st  BY <1>1, <1>8 DEF Right
  <2>4. StripeRows(rows', st.group, st.stripe) = StripeRows(rows, st.group, st.stripe)  BY <1>1
  <2> QED  BY <1>1, <1>5, <1>7, <1>8, <2>2, <2>3, <2>4, OtherRows, RightKept
<1>9. Truth(st)'
  <2>1. StripeRows(rows', st.group, st.stripe) = StripeRows(rows, st.group, st.stripe)  BY <1>1
  <2> QED  BY <1>1, <1>5, <1>8, <2>1, OtherRows DEF Truth
<1> QED  BY <1>1, <1>3, <1>4, <1>5, <1>7, <1>9, EncoderStep

\* A verified stripe is right, or known to be spoiled; its parity rows are gone.
LEMMA VerifyKeeps ==
    ASSUME RecoverSafe, rec.pc = "idle", val.pc = "idle", TypeInv', NEW st \in DOMAIN work,
           \/ StripeVerify(st) /\ UNCHANGED <<wrong, rec, spoiled>>
           \/ VerifyWrong(st)
    PROVE  RecoverSafe'
<1>1. /\ UNCHANGED <<arcset, op, val, target, pads, parity, wrong, rec>> /\ op.cmd = "make-ec"
      /\ spoiled' \in {spoiled, spoiled \cup {st}}
      /\ st \in spoiled' \/ FilesAgree(st)
      /\ DOMAIN work' = DOMAIN work
      /\ \A other \in DOMAIN work : other # st => work'[other] = work[other]
      /\ rows' = {r \in rows : StripeKey(r) = st => r.type = "DATA"}
  BY DEF StripeVerify, VerifyWrong, At, Running, files, DeleteECAndPADShards
<1>2. work'[st].pc = "metadata"
  BY DEF StripeVerify, VerifyWrong, RecoverSafe, TypeInv, TypeOK, Worker
<1>3. st \in Stripe /\ spoiled \subseteq Stripe
  BY DEF RecoverSafe, TypeInv, TypeOK, RecTyped
<1>4. rows' \subseteq rows /\ DataRows(rows') = DataRows(rows)  BY <1>1 DEF DataRows
<1>5. FileInv'  BY <1>1, <1>4 DEF RecoverSafe, FileInv
<1>6. RowInv'  BY <1>4 DEF RecoverSafe, RowInv
<1>7. DataStripes(rows') = DataStripes(rows)  BY <1>4 DEF DataStripes
<1>8. ASSUME NEW other \in Stripe, other # st
      PROVE  StripeRows(rows', other.group, other.stripe) = StripeRows(rows, other.group, other.stripe)
  <2>1. \A r : StripeKey(r) = st => ~(r.group = other.group /\ r.stripe = other.stripe)
    BY <1>3, <1>8 DEF StripeKey, Stripe
  <2> QED  BY <1>1, <2>1 DEF StripeRows
<1>9. Truth(st)'
  <2>1. \A r \in StripeRows(rows', st.group, st.stripe) : r.type = "DATA"
    BY <1>1, <1>3 DEF StripeRows, StripeKey, Stripe
  <2>2. ~Encoded(st)'  BY <2>1 DEF Encoded, ParityRows
  <2> QED  BY <2>2 DEF Truth
<1>10. FilesAgree(st) => Right(st)'
  <2> SUFFICES ASSUME FilesAgree(st) PROVE Right(st)'  OBVIOUS
  <2>1. Right(st)  BY <1>3, AgreeingFilesRight
  <2>3. StripeData(rows', st) = StripeData(rows, st)  BY <1>4, SameStripeData
  <2>2. \A r \in StripeData(rows, st) : SameData(r, r)  BY DEF SameData
  <2>4. /\ \A f \in parity' : StripeKey(f) = st => f.cover = Cover(rows, st)
        /\ \A w \in wrong' : StripeKey(w.file) # st
        /\ \A p : EcAt(st, p) # {} => EcAt(st, p)' # {}
    BY <1>1, <2>1 DEF Right, EcAt
  <2> QED  BY <1>1, <1>3, <2>1, <2>2, <2>3, <2>4, RightKept
<1>11. EncoderInv(st)'  BY <1>1, <1>2, <1>10 DEF EncoderInv
<1> QED  BY <1>1, <1>3, <1>5, <1>6, <1>7, <1>8, <1>9, <1>11, EncoderStep

\* The padded size that is written covers every shard of the stripe.
LEMMA MetadataKeeps ==
    ASSUME RecoverSafe, rec.pc = "idle", val.pc = "idle", TypeInv',
           NEW st \in DOMAIN work, NEW p \in StripePos, StripeMetadata(st, p),
           UNCHANGED <<wrong, rec, spoiled>>
    PROVE  RecoverSafe'
<1> DEFINE padded == PaddedSize(rows, st)
           upd(r) == IF SlotOf(r) = ParitySlot(st, p) THEN [r EXCEPT !.padded = padded] ELSE r
<1>1. /\ UNCHANGED <<arcset, op, val, target, pads, parity>>
      /\ op.cmd = "make-ec" /\ DOMAIN work' = DOMAIN work
      /\ work[st].pc = "metadata"
      /\ \A other \in DOMAIN work : other # st => work'[other] = work[other]
      /\ rows' = {upd(r) : r \in rows}
  BY DEF StripeMetadata, At, Running, files, Advance
<1>2. /\ work'[st].pc \in {"metadata", "insert"}
      /\ work'[st].pc = "insert" => work'[st].done = {}
  BY <1>1 DEF StripeMetadata, Advance
<1>3. ASSUME NEW r \in rows
      PROVE  /\ upd(r).group = r.group /\ upd(r).stripe = r.stripe /\ upd(r).pos = r.pos
             /\ upd(r).type = r.type /\ upd(r).shard = r.shard /\ upd(r).size = r.size
             /\ SlotOf(upd(r)) = SlotOf(r)
             /\ r.group # st.group \/ r.stripe # st.stripe => upd(r) = r
             /\ upd(r).padded \in {r.padded, padded}
  BY DEF RecoverSafe, TypeInv, TypeOK, Row, SlotOf, ParitySlot
<1>4. /\ \A q \in rows' : \E r \in rows : q = upd(r)
      /\ \A r \in rows : upd(r) \in rows'
  BY <1>1
<1>5. padded \in Nat /\ \A r \in StripeData(rows, st) : r.size <= padded
  <2>1. padded \in Nat
    BY PaddedType, ArcsetAssumption DEF RecoverSafe, TypeInv, DataRowsTyped
  <2> QED  BY <2>1, PaddedCovers DEF RecoverSafe
<1> HIDE DEF padded, upd
<1>6. /\ \A r \in DataRows(rows) : \E q \in DataRows(rows') : SameData(r, q)
      /\ \A q \in DataRows(rows') : \E r \in DataRows(rows) : SameData(r, q)
  BY <1>3, <1>4 DEF DataRows, SameData
<1>7. DataStripes(rows') = DataStripes(rows)  BY <1>6, DataKept
<1>8. st \in Stripe /\ spoiled \subseteq Stripe /\ Truth(st)
  <2>1. st \in Stripe  BY DEF RecoverSafe, TypeInv, TypeOK
  <2> QED  BY <2>1, TruthEverywhere DEF RecoverSafe, RecTyped
<1>9. FileInv'
  <2>1. ASSUME NEW w \in wrong
        PROVE  w.file \notin target /\ \E q \in DataRows(rows') : w.file = FileAt(q.shard, SlotOf(q))
    <3>1. PICK r \in DataRows(rows) : w.file = FileAt(r.shard, SlotOf(r))
      BY DEF RecoverSafe, FileInv
    <3>2. upd(r) \in DataRows(rows') /\ upd(r).shard = r.shard /\ SlotOf(upd(r)) = SlotOf(r)
      BY <1>3, <1>4 DEF DataRows
    <3> QED  BY <3>1, <3>2 DEF RecoverSafe, FileInv
  <2> QED  BY <1>1, <2>1 DEF RecoverSafe, FileInv
<1>10. RowInv'
  <2>1. \A q \in rows' : q.type = "EC" <=> q.pos \in ParityPos
    BY <1>3, <1>4 DEF RecoverSafe, RowInv
  <2>2. ASSUME NEW x \in DataRows(rows'), NEW y \in rows', SlotOf(x) = SlotOf(y) PROVE x = y
    <3>1. PICK r \in rows, q \in rows : x = upd(r) /\ y = upd(q)  BY <1>4 DEF DataRows
    <3>2. r \in DataRows(rows) /\ SlotOf(r) = SlotOf(q)  BY <1>3, <2>2, <3>1 DEF DataRows
    <3>3. r = q  BY <3>2 DEF RecoverSafe, RowInv
    <3> QED  BY <3>1, <3>3
  <2> QED  BY <2>1, <2>2 DEF RowInv
<1>11. ASSUME NEW other \in Stripe, other # st
       PROVE  StripeRows(rows', other.group, other.stripe) = StripeRows(rows, other.group, other.stripe)
  <2>1. \A r \in rows : r.group = other.group /\ r.stripe = other.stripe
                          => r.group # st.group \/ r.stripe # st.stripe
    BY <1>8, <1>11 DEF Stripe
  <2>2. \A q \in rows' : q.group = other.group /\ q.stripe = other.stripe => q \in rows
    BY <1>3, <1>4, <2>1
  <2>3. \A r \in rows : r.group = other.group /\ r.stripe = other.stripe => r \in rows'
    BY <1>3, <1>4, <2>1
  <2> QED  BY <2>2, <2>3 DEF StripeRows
<1>12. /\ \A r \in StripeData(rows, st) : \E q \in StripeData(rows', st) : SameData(r, q)
       /\ \A q \in StripeData(rows', st) : \E r \in StripeData(rows, st) : SameData(r, q)
  <2>1. \A rs : \A r : r \in StripeData(rs, st) <=>
                         r \in DataRows(rs) /\ r.group = st.group /\ r.stripe = st.stripe
    BY DEF StripeData, StripeRows, DataRows
  <2> QED  BY <1>6, <2>1 DEF SameData
<1>13. Right(st) => Right(st)'
  <2> SUFFICES ASSUME Right(st) PROVE Right(st)'  OBVIOUS
  <2>1. /\ \A f \in parity' : StripeKey(f) = st => f.cover = Cover(rows, st)
        /\ \A w \in wrong' : StripeKey(w.file) # st
        /\ \A q : EcAt(st, q) # {} => EcAt(st, q)' # {}
    BY <1>1 DEF Right, EcAt
  <2> QED  BY <1>1, <1>8, <1>12, <2>1, RightKept
<1>14. Encoded(st)' => Encoded(st)
  BY <1>3, <1>4 DEF Encoded, ParityRows, StripeRows
<1>15. RowsKnow(st) => RowsKnow(st)'
  <2> SUFFICES ASSUME RowsKnow(st) PROVE RowsKnow(st)'  OBVIOUS
  <2>1. \A r \in StripeRows(rows, st.group, st.stripe) : upd(r) \in StripeRows(rows', st.group, st.stripe)
    BY <1>3, <1>4 DEF StripeRows
  <2>2. DataPos \subseteq {r.pos : r \in StripeRows(rows', st.group, st.stripe)}
    <3> SUFFICES ASSUME NEW d \in DataPos
                 PROVE  \E q \in StripeRows(rows', st.group, st.stripe) : q.pos = d
      OBVIOUS
    <3>1. PICK r \in StripeRows(rows, st.group, st.stripe) : r.pos = d  BY DEF RowsKnow
    <3>2. upd(r).pos = d  BY <1>3, <3>1 DEF StripeRows
    <3> QED  BY <2>1, <3>2
  <2>3. ASSUME NEW q \in StripeData(rows', st) PROVE Reaches(st, q.size)'
    <3>1. PICK r \in StripeData(rows, st) : SameData(r, q)  BY <1>12
    <3>2. q.size = r.size /\ r.size <= padded /\ r.size \in Nat
      BY <1>5, <3>1 DEF SameData, RecoverSafe, TypeInv, TypeOK, Row, StripeData, StripeRows, DataRows
    <3>3. PICK x \in StripeRows(rows, st.group, st.stripe) :
              r.size <= x.padded \/ (x.type = "EC" /\ r.size <= x.size)
      BY DEF RowsKnow, Reaches
    <3>4. /\ upd(x).padded \in {x.padded, padded}
          /\ upd(x).type = x.type /\ upd(x).size = x.size
      BY <1>3 DEF StripeRows
    <3>5. q.size <= upd(x).padded \/ (upd(x).type = "EC" /\ q.size <= upd(x).size)
      BY <3>2, <3>3, <3>4
    <3> QED  BY <2>1, <3>5 DEF Reaches
  <2> QED  BY <2>2, <2>3 DEF RowsKnow
<1>16. Truth(st)'  BY <1>8, <1>13, <1>14, <1>15 DEF Truth
<1>17. EncoderInv(st)'
  <2>1. st \in spoiled \/ Right(st)  BY <1>1 DEF RecoverSafe, EncodersInv, EncoderInv
  <2> QED  BY <1>2, <1>13, <2>1 DEF EncoderInv
<1> QED  BY <1>1, <1>7, <1>8, <1>9, <1>10, <1>11, <1>16, <1>17, EncoderStep

\* The parity rows come last: by then the rows describe every data position.
LEMMA InsertKeeps ==
    ASSUME RecoverSafe, rec.pc = "idle", val.pc = "idle", TypeInv',
           NEW st \in DOMAIN work, NEW p \in StripePos, StripeInsert(st, p),
           UNCHANGED <<wrong, rec, spoiled>>
    PROVE  RecoverSafe'
<1> DEFINE new    == NewRow(st, p)
           padded == PaddedSize(rows, st)
           todo   == StripePos \ DataPosOf(st)
           stripe == StripeRows(rows, st.group, st.stripe)
<1>1. /\ UNCHANGED <<arcset, op, val, target, pads, parity>>
      /\ op.cmd = "make-ec" /\ DOMAIN work' = DOMAIN work
      /\ work[st].pc = "insert" /\ p \in Left(st, todo) /\ \A q \in Left(st, todo) : p <= q
      /\ \A other \in DOMAIN work : other # st => work'[other] = work[other]
      /\ rows' = rows \cup {new}
  BY DEF StripeInsert, Inserts, IsFirst, At, Running, files, Advance
<1>2. work'[st] = IF Left(st, todo) = {p} THEN [pc |-> "done", done |-> {}]
                  ELSE [pc |-> "insert", done |-> work[st].done \cup {p}]
  BY <1>1 DEF StripeInsert, Advance
<1>3. /\ new.group = st.group /\ new.stripe = st.stripe /\ new.pos = p
      /\ new.type = (IF p < K THEN "PAD" ELSE "EC") /\ new.padded = padded
  BY DEF NewRow
<1>4. p \notin DataPosOf(st) /\ p \notin work[st].done /\ (p < K <=> p \in DataPos)
      /\ (p < K <=> p \notin ParityPos)
  BY <1>1, PosTypes DEF Left
<1>5. /\ st \in spoiled \/ Right(st)
      /\ work[st].done \subseteq {r.pos : r \in stripe}
  BY <1>1 DEF RecoverSafe, EncodersInv, EncoderInv
<1>6. padded \in Nat /\ \A r \in StripeData(rows, st) : r.size <= padded
  <2>1. padded \in Nat
    BY PaddedType, ArcsetAssumption DEF RecoverSafe, TypeInv, DataRowsTyped
  <2> QED  BY <2>1, PaddedCovers DEF RecoverSafe
<1>7. st \in Stripe /\ spoiled \subseteq Stripe /\ Truth(st)
  <2>1. st \in Stripe  BY DEF RecoverSafe, TypeInv, TypeOK
  <2> QED  BY <2>1, TruthEverywhere DEF RecoverSafe, RecTyped
<1>8. DataPosOf(st) \subseteq {r.pos : r \in stripe}
  BY DEF DataPosOf, StripeData, DataRows
<1> HIDE DEF new, padded
<1>9. DataRows(rows') = DataRows(rows)  BY <1>1, <1>3 DEF DataRows
<1>10. DataStripes(rows') = DataStripes(rows)  BY <1>9 DEF DataStripes
<1>11. StripeRows(rows', st.group, st.stripe) = stripe \cup {new}
  BY <1>1, <1>3 DEF StripeRows
<1>12. ASSUME NEW other \in Stripe, other # st
       PROVE  StripeRows(rows', other.group, other.stripe) = StripeRows(rows, other.group, other.stripe)
  <2>1. ~(new.group = other.group /\ new.stripe = other.stripe)
    BY <1>3, <1>7, <1>12 DEF Stripe
  <2> QED  BY <1>1, <2>1 DEF StripeRows
<1>13. FileInv'  BY <1>1, <1>9 DEF RecoverSafe, FileInv
<1>14. RowInv'
  <2>1. \A r \in rows' : r.type = "EC" <=> r.pos \in ParityPos
    BY <1>1, <1>3, <1>4 DEF RecoverSafe, RowInv
  <2>2. ASSUME NEW r \in DataRows(rows'), NEW q \in rows', SlotOf(r) = SlotOf(q) PROVE r = q
    <3>1. r \in DataRows(rows)  BY <1>9
    <3>2. q # new
      <4> SUFFICES ASSUME q = new PROVE FALSE  OBVIOUS
      <4>1. r.group = st.group /\ r.stripe = st.stripe /\ r.pos = p
        BY <1>3, <2>2 DEF SlotOf
      <4>2. r \in StripeData(rows, st)  BY <3>1, <4>1 DEF StripeData, StripeRows, DataRows
      <4> QED  BY <1>4, <4>1, <4>2 DEF DataPosOf
    <3> QED  BY <1>1, <2>2, <3>1, <3>2 DEF RecoverSafe, RowInv
  <2> QED  BY <2>1, <2>2 DEF RowInv
<1>15. StripeData(rows', st) = StripeData(rows, st)  BY <1>9, SameStripeData
<1>16. Right(st) => Right(st)'
  <2> SUFFICES ASSUME Right(st) PROVE Right(st)'  OBVIOUS
  <2>1. \A r \in StripeData(rows, st) : SameData(r, r)  BY DEF SameData
  <2>2. /\ \A f \in parity' : StripeKey(f) = st => f.cover = Cover(rows, st)
        /\ \A w \in wrong' : StripeKey(w.file) # st
        /\ \A q : EcAt(st, q) # {} => EcAt(st, q)' # {}
    BY <1>1 DEF Right, EcAt
  <2> QED  BY <1>1, <1>7, <1>15, <2>1, <2>2, RightKept
<1>17. ASSUME DataPos \subseteq {r.pos : r \in stripe} PROVE RowsKnow(st)'
  <2>1. DataPos \subseteq {r.pos : r \in StripeRows(rows', st.group, st.stripe)}  BY <1>11, <1>17
  <2>2. \A r \in StripeData(rows', st) : Reaches(st, r.size)'
    <3> SUFFICES ASSUME NEW r \in StripeData(rows, st) PROVE Reaches(st, r.size)'  BY <1>15
    <3>1. r.size <= new.padded  BY <1>3, <1>6
    <3> QED  BY <1>11, <3>1 DEF Reaches
  <2> QED  BY <2>1, <2>2 DEF RowsKnow
<1>18. Truth(st)'
  <2> SUFFICES ASSUME Encoded(st)' PROVE RowsKnow(st)' /\ (st \in spoiled \/ Right(st)')
    BY DEF Truth
  <2>1. CASE Encoded(st)
    BY <1>5, <1>7, <1>16, <1>17, <2>1 DEF Truth, RowsKnow
  <2>2. CASE ~Encoded(st)
    <3>1. new.type = "EC"
      BY <1>11, <2>2 DEF Encoded, ParityRows
    <3>2. ~(p < K)  BY <1>3, <3>1
    <3>3. ASSUME NEW d \in DataPos, d \notin DataPosOf(st) PROVE d \in work[st].done
      <4> SUFFICES ASSUME d \notin work[st].done PROVE FALSE  OBVIOUS
      <4>1. d \in StripePos /\ d < K /\ d \in Nat /\ p \in Nat  BY PosTypes
      <4>2. d \in Left(st, todo)  BY <3>3, <4>1 DEF Left
      <4>3. p <= d  BY <1>1, <4>2
      <4> QED  BY <3>2, <4>1, <4>3, PlacementAssumption
    <3>4. DataPos \subseteq {r.pos : r \in stripe}
      <4> HIDE DEF stripe
      <4> QED  BY <1>5, <1>8, <3>3
    <3> QED  BY <1>5, <1>16, <1>17, <3>4
  <2> QED  BY <2>1, <2>2
<1>19. EncoderInv(st)'
  <2>1. CASE Left(st, todo) = {p}
    <3>1. work'[st].pc = "done"  BY <1>2, <2>1
    <3>2. M > 0  BY <1>1 DEF RecoverSafe, RunInv
    <3>3. K \in StripePos /\ K \in ParityPos
      BY <3>2, PlacementAssumption DEF StripePos, ParityPos
    <3>4. K \in {r.pos : r \in stripe \cup {new}}
      <4>1. CASE K = p  BY <1>3, <4>1
      <4>2. CASE K # p
        <5>1. K \in DataPosOf(st) \/ K \in work[st].done
          BY <2>1, <3>3, <4>2 DEF Left
        <5> HIDE DEF stripe
        <5> QED  BY <1>5, <1>8, <5>1
      <4> QED  BY <4>1, <4>2
    <3>5. PICK r \in StripeRows(rows', st.group, st.stripe) : r.pos = K  BY <1>11, <3>4
    <3>6. r.type = "EC"  BY <1>14, <3>3, <3>5 DEF RowInv, StripeRows
    <3>7. Encoded(st)'  BY <3>5, <3>6 DEF Encoded, ParityRows
    <3> QED  BY <3>1, <3>7 DEF EncoderInv
  <2>2. CASE Left(st, todo) # {p}
    <3>1. work'[st].pc = "insert" /\ work'[st].done = work[st].done \cup {p}  BY <1>2, <2>2
    <3>2. work'[st].done \subseteq {r.pos : r \in StripeRows(rows', st.group, st.stripe)}
      <4> HIDE DEF stripe
      <4> QED  BY <1>3, <1>5, <1>11, <3>1
    <3>3. st \in spoiled' \/ Right(st)'  BY <1>5, <1>16
    <3> QED  BY <3>1, <3>2, <3>3 DEF EncoderInv
  <2> QED  BY <2>1, <2>2
<1> QED  BY <1>1, <1>7, <1>10, <1>12, <1>13, <1>14, <1>18, <1>19, EncoderStep

\* Without parity there is nothing to keep.
LEMMA WithoutParityKeeps ==
    ASSUME RecoverSafe, rec.pc = "idle", val.pc = "idle", TypeInv', MakeECWithoutParity,
           UNCHANGED <<wrong, rec, spoiled>>
    PROVE  RecoverSafe'
<1>1. /\ UNCHANGED <<op, cur, work, val, rows, target, pads, parity>>
      /\ op.cmd = "none" /\ DOMAIN work = {} /\ M = 0
  BY DEF MakeECWithoutParity, MakeECAllowed, files, Idle, RecoverSafe, RunInv
<1>2. RunInv'  BY <1>1 DEF RunInv
<1>3. PlaceInv'  BY <1>1 DEF PlaceInv, Recording
<1>4. EncodersInv'  BY <1>1, NoEncoders
<1>5. CompletedEncoded'  BY <1>1 DEF CompletedEncoded
<1> QED  BY <1>1, <1>2, <1>3, <1>4, <1>5, QuietSafe

\* Without a filter, every stripe with data gets a worker.
LEMMA StartKeeps ==
    ASSUME RecoverSafe, rec.pc = "idle", val.pc = "idle", TypeInv',
           NEW filter \in Filters, MakeECStart(filter), UNCHANGED <<wrong, rec, spoiled>>
    PROVE  RecoverSafe'
<1> DEFINE todo == {st \in DataStripes(rows) : Matches(filter, st)}
<1>1. /\ UNCHANGED <<val, rows, target, pads, parity>> /\ M > 0
      /\ arcset'.status = "building"
      /\ DOMAIN work' = todo /\ \A st \in todo : work'[st].pc = "wait"
      /\ op' = IF todo = {} THEN Idle
               ELSE [Idle EXCEPT !.cmd = "make-ec", !.pc = "stripes",
                                 !.full = (filter = [group |-> None, stripe |-> None])]
  BY DEF MakeECStart, files, RecoverSafe, TypeInv, TypeOK, ArcsetRow
<1>2. /\ op'.cmd \in {"none", "make-ec"}
      /\ op'.cmd # "make-ec" => todo = {}
      /\ op'.cmd = "make-ec" /\ op'.full => filter = [group |-> None, stripe |-> None]
  BY <1>1 DEF Idle
<1>3. RunInv'  BY <1>1, <1>2 DEF RunInv
<1>4. PlaceInv'  BY <1>2 DEF PlaceInv, Recording
<1>5. EncodersInv'
  <2>1. \A st \in todo : EncoderInv(st)'  BY <1>1 DEF EncoderInv
  <2>2. filter = [group |-> None, stripe |-> None] => todo = DataStripes(rows)
    BY DEF Matches
  <2> QED  BY <1>1, <1>2, <2>1, <2>2 DEF EncodersInv
<1>6. CompletedEncoded'  BY <1>1 DEF CompletedEncoded
<1> QED  BY <1>1, <1>3, <1>4, <1>5, <1>6, QuietSafe

\* make-ec completes the arcset when every stripe with data has parity rows.
LEMMA FinishKeeps ==
    ASSUME RecoverSafe, rec.pc = "idle", val.pc = "idle", TypeInv', MakeECFinish,
           UNCHANGED <<wrong, rec, spoiled>>
    PROVE  RecoverSafe'
<1>1. /\ UNCHANGED <<val, rows, target, pads, parity>>
      /\ op'.cmd = "none" /\ DOMAIN work' = {}
      /\ op.cmd = "make-ec" /\ arcset.status = "building"
      /\ arcset' = IF Failed = {} /\ op.full THEN CompleteBuild(arcset) ELSE arcset
  BY DEF MakeECFinish, files, Running, Idle, NoWork, RecoverSafe, RunInv
<1>2. RunInv'  BY <1>1 DEF RunInv
<1>3. PlaceInv'  BY <1>1 DEF PlaceInv, Recording
<1>4. EncodersInv'  BY <1>1, NoEncoders
<1>5. CompletedEncoded'
  <2>1. CASE Failed = {} /\ op.full
    <3>1. \A st \in DOMAIN work : work[st].pc = "done"
      BY <2>1 DEF MakeECFinish, Active, Failed
    <3>2. \A st \in DataStripes(rows) : Encoded(st)
      BY <1>1, <2>1, <3>1 DEF RecoverSafe, EncodersInv, EncoderInv
    <3>3. \A st : Encoded(st)' <=> Encoded(st)  BY <1>1 DEF Encoded
    <3> QED  BY <1>1, <3>2, <3>3 DEF CompletedEncoded
  <2>2. CASE ~(Failed = {} /\ op.full)
    BY <1>1, <2>2 DEF CompletedEncoded
  <2> QED  BY <2>1, <2>2
<1> QED  BY <1>1, <1>2, <1>3, <1>4, <1>5, QuietSafe

\* Every step of make-ec keeps the invariant.
LEMMA MakeECKeeps ==
    ASSUME RecoverSafe, rec.pc = "idle", val.pc = "idle", MakeECStep,
           UNCHANGED <<wrong, rec, spoiled>>
    PROVE  RecoverSafe'
<1>1. TypeInv'  BY MakeECTypes DEF RecoverSafe
<1>2. CASE MakeECWithoutParity  BY <1>1, <1>2, WithoutParityKeeps
<1>3. ASSUME NEW filter \in Filters, MakeECStart(filter) PROVE RecoverSafe'
  BY <1>1, <1>3, StartKeeps
<1>4. ASSUME NEW st \in DOMAIN work, StripeStart(st) \/ StripePad(st) PROVE RecoverSafe'
  BY <1>1, <1>4, StartPadKeep
<1>5. ASSUME NEW st \in DOMAIN work, StripeVerify(st) PROVE RecoverSafe'
  BY <1>1, <1>5, VerifyKeeps
<1>6. ASSUME NEW st \in DOMAIN work, NEW p \in StripePos,
             StripeEncode(st, p) \/ StripeMetadata(st, p) \/ StripeInsert(st, p)
      PROVE  RecoverSafe'
  BY <1>1, <1>6, EncodeKeeps, MetadataKeeps, InsertKeeps
<1>7. CASE MakeECFinish  BY <1>1, <1>7, FinishKeeps
<1> QED  BY <1>2, <1>3, <1>4, <1>5, <1>6, <1>7 DEF MakeECStep, StripeStep

(***************************************************************************)
(* Words                                                                   *)
(***************************************************************************)

\* What files say is of the type of a word.
LEMMA SaidTyped ==
    ASSUME TypeInv, RecTyped, NEW st, NEW P
    PROVE  Said(st, P) \in Word
<1>1. \A r \in StripeData(rows, st) : r.shard \in Shards /\ r.pos \in DataPos
  BY DEF TypeInv, DataRowsTyped, StripeData, DataRows, StripeRows
<1>2. \A w \in wrong : w.file.pos \in DataPos  BY DEF RecTyped, DataFile
<1> QED  BY <1>1, <1>2 DEF Said, Word

\* Reading a file only up to the padded size keeps the type.
LEMMA CutTyped ==
    ASSUME NEW st, NEW W \in Word
    PROVE  Cut(st, W) \in Word
<1>1. \A x \in W : x[1] \in DataPos /\ x[2] \in Shards \cup {None}  BY DEF Word
<1>2. \A x \in W : <<x[1], IF x[2] # None /\ Reaches(st, Size[x[2]]) THEN x[2] ELSE None>>
                     \in DataPos \X (Shards \cup {None})
  BY <1>1
<1> QED  BY <1>2 DEF Cut, Word

\* Whatever the decoder makes of the files is a word.
LEMMA DecodingsTyped ==
    ASSUME TypeInv, RecTyped, NEW st, NEW word \in Decodings(st)
    PROVE  word \in Word
<1> DEFINE P    == Inputs(st)
           rest == DataPos \ P
           said == Cut(st, Said(st, P))
           old  == {x \in Cover(rows, st) : x[1] \in rest}
<1>1. said \in Word  BY SaidTyped, CutTyped
<1>2. Words(st, P) \subseteq Word
  <2>1. \A p \in P : \A f \in EcAt(st, p) : f.cover \in Word
    BY DEF EcAt, TypeInv, TypeOK, Word
  <2>2. \A f \in UNION {EcAt(st, p) : p \in P} : Cut(st, f.cover) \in Word
    BY <2>1, CutTyped
  <2>3. {Cut(st, f.cover) : f \in UNION {EcAt(st, p) : p \in P}} \subseteq Word  BY <2>2
  <2> QED  BY <1>1, <2>3 DEF Words
<1>3. old \in Word
  <2>1. Cover(rows, st) \in Word  BY CoverTyped
  <2> QED  BY <2>1 DEF Word
<1>4. Cut(st, old) \in Word  BY <1>3, CutTyped
<1>5. rest \X {None} \in Word  BY DEF Word
<1>6. said \cup (rest \X {None}) \in Word /\ said \cup Cut(st, old) \in Word
  BY <1>1, <1>4, <1>5 DEF Word
<1>7. word \in Words(st, P) \cup {said \cup (rest \X {None}), said \cup Cut(st, old)}
  BY DEF Decodings
<1> QED  BY <1>2, <1>6, <1>7

\* The steps over wrong DATA files keep the types.
LEMMA WrongTypes ==
    ASSUME TypeInv, RecTyped, NEW st \in DOMAIN work, NEW p \in StripePos,
           EncodeWrong(st, p) \/ VerifyWrong(st)
    PROVE  TypeInv'
<1> USE DEF TypeInv, TypeOK, CurTyped, Recording, DataRowsTyped, DataRows, tables, files, Running
<1>1. CASE EncodeWrong(st, p)
  <2>1. work[st].done \cup {p} \subseteq StripePos  BY DEF Worker
  <2>2. [pc |-> work[st].pc, done |-> work[st].done \cup {p}] \in Worker  BY <2>1 DEF Worker
  <2>3. [pc |-> "pad", done |-> {}] \in Worker  BY DEF Worker
  <2>4. Advance(st, ParityPos, p, "pad") \in [DOMAIN work -> Worker]
    BY <2>2, <2>3 DEF Advance
  <2>5. DOMAIN work' = DOMAIN work /\ work' \in [DOMAIN work -> Worker]
    BY <1>1, <2>4 DEF EncodeWrong
  <2>6. Said(st, DataPos) \in SUBSET (DataPos \X (Shards \cup {None}))
    <3>1. TypeInv  OBVIOUS
    <3> QED  BY <3>1, SaidTyped DEF Word
  <2>7. WrongParity(st, p) \in [group : Nat, stripe : Nat, pos : StripePos,
                                cover : SUBSET (DataPos \X (Shards \cup {None}))]
    BY <2>6 DEF WrongParity, Stripe
  <2> QED  BY <1>1, <2>5, <2>7 DEF EncodeWrong
<1>2. CASE VerifyWrong(st)
  <2>1. work' \in [DOMAIN work -> Worker] /\ DOMAIN work' = DOMAIN work
    BY <1>2 DEF VerifyWrong, Worker, At
  <2> QED  BY <1>2, <2>1 DEF VerifyWrong, DeleteECAndPADShards
<1> QED  BY <1>1, <1>2

(***************************************************************************)
(* arcset recover                                                          *)
(***************************************************************************)

\* While recover runs, no other command does; a step of it that leaves the rows
\* and the files alone must only keep what it knows.
LEMMA RecoverQuiet ==
    ASSUME RecoverSafe, op = Idle, val.pc = "idle", M > 0,
           UNCHANGED <<rows, target, pads, parity, op, cur, work, val, wrong, spoiled>>,
           TypeInv', arcset'.status = arcset.status, RecTyped', RecoveryInv',
           rec'.pc # "idle" => rec'.row \in rows
    PROVE  RecoverSafe'
<1>1. op.cmd = "none" /\ DOMAIN work = {}  BY DEF Idle, RecoverSafe, RunInv
<1>2. RunInv'  BY <1>1 DEF RecoverSafe, RunInv
<1>3. FileInv' /\ RowInv'  BY FilesKept DEF RecoverSafe
<1>4. EncodedInv'  BY FilesKept DEF RecoverSafe, EncodedInv
<1>5. PlaceInv'  BY <1>1 DEF PlaceInv, Recording
<1>6. EncodersInv'  BY <1>1, NoEncoders
<1>7. CompletedEncoded'  BY StillCompleted DEF RecoverSafe
<1> QED  BY <1>2, <1>3, <1>4, <1>5, <1>6, <1>7 DEF RecoverSafe

\* recover decodes what the rows say when parity rows vouch for the files.
LEMMA RecoverStartKeeps ==
    ASSUME RecoverSafe, val.pc = "idle", NEW r \in rows, NEW all \in BOOLEAN, RecoverStart(r, all)
    PROVE  RecoverSafe'
<1> DEFINE st   == StripeKey(r)
           todo == {p \in Missing(st) : all \/ p < K}
<1>1. /\ UNCHANGED <<vars, wrong, spoiled>> /\ op = Idle /\ M > 0
  BY DEF RecoverStart
<1>2. PICK word \in Decodings(st) :
          rec' = [pc |-> IF todo = {} THEN "check" ELSE "rename", row |-> r,
                  all |-> all, todo |-> todo, rebuilt |-> {}, word |-> word]
  BY DEF RecoverStart
<1>3. r \in Row /\ st \in Stripe
  BY DEF RecoverSafe, TypeInv, TypeOK, Row, StripeKey, Stripe
<1>4. TypeInv'  BY <1>1, StutterTypes DEF RecoverSafe
<1>5. todo \subseteq Missing(st) /\ todo \subseteq StripePos  BY PresentCounts
<1>6. word \in Word  BY DecodingsTyped DEF RecoverSafe
<1>7. /\ rec'.pc \in {"check", "rename"} /\ rec'.row = r /\ rec'.todo = todo /\ rec'.word = word
  BY <1>2
<1> HIDE DEF todo
<1>8. RecTyped'
  BY <1>1, <1>2, <1>3, <1>5, <1>6 DEF RecoverSafe, RecTyped
<1>9. RecoveryInv'
  <2>1. RecStripe' = st  BY <1>7 DEF RecStripe
  <2>2. Missing(st)' = Missing(st) /\ (Encoded(st)' <=> Encoded(st))
    BY <1>1, FilesKept DEF vars
  <2>3. Encoded(st) /\ st \notin spoiled => word = Cover(rows, st)
    <3> SUFFICES ASSUME Encoded(st), st \notin spoiled PROVE word = Cover(rows, st)
      OBVIOUS
    <3>1. Truth(st)  BY <1>3, TruthEverywhere DEF RecoverSafe
    <3>2. RowsKnow(st) /\ Right(st)  BY <3>1 DEF Truth
    <3>3. Decodings(st) = {Cover(rows, st)}  BY <1>3, <3>2, RightDecodes DEF RecoverSafe
    <3> QED  BY <3>3
  <2>4. PICK key : key = st  OBVIOUS
  <2>5. RecStripe' = key /\ Missing(key)' = Missing(key) /\ (Encoded(key)' <=> Encoded(key))
    BY <2>1, <2>2, <2>4
  <2>6. spoiled' = spoiled /\ rows' = rows  BY <1>1 DEF vars
  <2>7. Missing(RecStripe)' = Missing(key) /\ (Encoded(RecStripe)' <=> Encoded(key))
        /\ Cover(rows, RecStripe)' = Cover(rows, key)
    BY <2>5, <2>6 DEF Cover
  <2> QED  BY <1>5, <1>7, <2>3, <2>4, <2>5, <2>6, <2>7 DEF RecoveryInv
<1>10. UNCHANGED <<arcset, rows, target, pads, parity, op, cur, work, val>>  BY <1>1 DEF vars
<1> QED  BY <1>1, <1>4, <1>7, <1>8, <1>9, <1>10, RecoverQuiet

\* The checks, the update of the arcset and a failure write no row and no file.
LEMMA RecoverEndKeeps ==
    ASSUME RecoverSafe, val.pc = "idle", RecoverCheck \/ RecoverUpdate \/ RecoverFail
    PROVE  RecoverSafe'
<1>1. /\ rec.pc # "idle" /\ rec \in [pc : {"idle", "rename", "check", "update"}, row : Row \cup {None},
                                   all : BOOLEAN, todo : SUBSET StripePos,
                                   rebuilt : SUBSET StripePos, word : Word]
  BY DEF RecoverCheck, RecoverUpdate, RecoverFail, RecoverSafe, RecTyped
<1>2. op = Idle /\ M > 0 /\ rec.row \in rows  BY <1>1 DEF RecoverSafe, RunInv
<1>3. UNCHANGED <<rows, target, pads, parity, op, cur, work, val, wrong, spoiled>>
  BY DEF RecoverCheck, RecoverUpdate, RecoverFail, vars, files
<1>4. TypeInv' /\ arcset'.status = arcset.status
  <2>1. CASE RecoverCheck \/ RecoverFail
    <3>1. UNCHANGED vars  BY <2>1 DEF RecoverCheck, RecoverFail
    <3> QED  BY <3>1, StutterTypes DEF RecoverSafe, vars
  <2>2. CASE RecoverUpdate
    <3>1. arcset' \in ArcsetRow /\ arcset'.status = arcset.status
      BY <2>2 DEF RecoverUpdate, RecoverSafe, RecTyped, TypeInv, TypeOK, ArcsetRow
    <3> QED
      BY <2>2, <3>1 DEF RecoverUpdate, files, RecoverSafe, TypeInv, TypeOK, CurTyped, Recording,
                        DataRowsTyped
  <2> QED  BY <2>1, <2>2
<1>5. RecTyped' /\ RecoveryInv' /\ (rec'.pc # "idle" => rec'.row \in rows)
  <2>1. CASE RecoverUpdate \/ RecoverFail
    <3>1. rec' = NotRecovering  BY <2>1 DEF RecoverUpdate, RecoverFail
    <3> QED
      BY <1>3, <3>1 DEF NotRecovering, RecoverSafe, RecTyped, Word, RecoveryInv
  <2>2. CASE RecoverCheck
    <3>1. /\ rec' = [rec EXCEPT !.pc = "update"]
          /\ rec.all => StripeVerifies(RecStripe)
      BY <2>2 DEF RecoverCheck
    <3>2. /\ rec'.pc = "update" /\ rec'.row = rec.row /\ rec'.all = rec.all
          /\ rec'.todo = rec.todo /\ rec'.word = rec.word
      BY <1>1, <3>1
    <3>3. RecTyped'  BY <1>1, <1>3, <3>1 DEF RecoverSafe, RecTyped
    <3>4. PICK key : key = RecStripe  OBVIOUS
    <3>5. RecStripe' = key  BY <3>2, <3>4 DEF RecStripe
    <3>6. /\ Missing(key)' = Missing(key) /\ (Encoded(key)' <=> Encoded(key))
          /\ Cover(rows', key) = Cover(rows, key)
      BY <1>3, FilesKept
    <3>7. rec.all => Missing(key) = {}  BY <3>1, <3>4 DEF StripeVerifies
    <3>8. RecoveryInv'
      BY <1>1, <1>3, <3>2, <3>4, <3>5, <3>6, <3>7 DEF RecoverSafe, RecoveryInv
    <3> QED  BY <1>2, <3>2, <3>3, <3>8
  <2> QED  BY <2>1, <2>2
<1>6. val.pc = "idle"  OBVIOUS
<1> QED  BY <1>2, <1>3, <1>4, <1>5, <1>6, RecoverQuiet

\* What recover renames is missing until then, and right when parity rows vouch
\* for the files it was decoded from.
LEMMA RecoverRenameKeeps ==
    ASSUME RecoverSafe, val.pc = "idle", NEW p \in StripePos, RecoverRename(p)
    PROVE  RecoverSafe'
<1> DEFINE st   == RecStripe
           sl   == ParitySlot(st, p)
           vouched == Encoded(st) /\ st \notin spoiled
<1>1. /\ rec.pc = "rename" /\ p \in rec.todo
      /\ rec' = [rec EXCEPT !.pc = IF rec.todo = {p} THEN "check" ELSE "rename",
                            !.todo = rec.todo \ {p}, !.rebuilt = rec.rebuilt \cup {p}]
      /\ UNCHANGED <<arcset, rels, rows, frozen, source, op, cur, work, val, spoiled>>
  BY DEF RecoverRename, IsFirst, tables
<1>2. /\ op = Idle /\ M > 0 /\ rec.row \in rows
      /\ rec.todo \subseteq Missing(st)
      /\ vouched => rec.word = Cover(rows, st)
  BY <1>1 DEF RecoverSafe, RunInv, RecoveryInv
<1>3. /\ st \in Stripe /\ spoiled \subseteq Stripe
      /\ rec \in [pc : {"idle", "rename", "check", "update"}, row : Row \cup {None},
                  all : BOOLEAN, todo : SUBSET StripePos, rebuilt : SUBSET StripePos, word : Word]
  BY <1>2 DEF RecoverSafe, RecTyped, TypeInv, TypeOK, RecStripe, Row, StripeKey, Stripe
<1>4. PICK key \in Stripe : key = st  BY <1>3
<1>5. \A f \in DataAt(st, p) : /\ f \in DataFile /\ f.pos = p /\ StripeKey(f) = st /\ p \in DataPos
                               /\ f \notin target
                               /\ \A w \in wrong : w.file # f
                               /\ \E r \in DataRows(rows) : f = FileAt(r.shard, SlotOf(r))
                               /\ vouched => RightBytes(f)
  <2> TAKE f \in DataAt(st, p)
  <2>1. PICK r \in DataRows(RowsAt(st, p)) : f = FileAt(r.shard, SlotOf(r))  BY DEF DataAt
  <2>2. /\ r \in DataRows(rows) /\ r \in rows /\ r.type = "DATA" /\ r.pos = p
        /\ r.group = st.group /\ r.stripe = st.stripe
    BY <2>1, SlotRows DEF DataRows
  <2>3. r.shard \in Shards /\ r.size = Size[r.shard] /\ r.pos \in DataPos
    BY <2>2 DEF RecoverSafe, TypeInv, DataRowsTyped
  <2>4. f.shard = r.shard /\ f.pos = p /\ f.group = st.group /\ f.stripe = st.stripe
    BY <2>1, <2>2 DEF FileAt, SlotOf
  <2>5. f \in DataFile
    BY <1>3, <2>1, <2>2, <2>3 DEF FileAt, SlotOf, DataFile, Stripe
  <2>6. DataAt(st, p) = {f}
    <3> SUFFICES ASSUME NEW g \in DataAt(st, p) PROVE g = f  OBVIOUS
    <3>1. PICK q \in DataRows(RowsAt(st, p)) : g = FileAt(q.shard, SlotOf(q))  BY DEF DataAt
    <3>2. q \in DataRows(rows) /\ q.group = st.group /\ q.stripe = st.stripe /\ q.pos = p
      BY <3>1, SlotRows DEF DataRows
    <3>3. SlotOf(q) = SlotOf(r)  BY <2>2, <3>2 DEF SlotOf
    <3>4. q = r  BY <2>2, <3>2, <3>3 DEF RecoverSafe, RowInv
    <3> QED  BY <2>1, <3>1, <3>4
  <2>7. p \notin Present(st) /\ ~(p >= K)
    <3>1. p \notin Present(st)  BY <1>1, <1>2 DEF Missing
    <3>2. p \in DataPos /\ p < K /\ p \in Nat  BY <2>2, <2>3, PosTypes
    <3> QED  BY <3>1, <3>2, PlacementAssumption
  <2>8. WrongAt(st, p) = {} /\ f \notin target  BY <2>6, <2>7 DEF Present
  <2>9. \A w \in wrong : w.file # f  BY <2>6, <2>8 DEF WrongAt
  <2>10. vouched => RightBytes(f)
    <3> SUFFICES ASSUME vouched PROVE RightBytes(f)  OBVIOUS
    <3>1. CASE r.size > 0
      <4>1. r \in StripeData(rows, st)
        BY <2>2 DEF StripeData, StripeRows, DataRows
      <4>2. <<r.pos, r.shard>> \in Cover(rows, st)  BY <3>1, <4>1 DEF Cover
      <4> QED  BY <1>2, <2>2, <2>4, <4>2 DEF RightBytes
    <3>2. CASE ~(r.size > 0)
      <4>1. Size[r.shard] \in Nat  BY <2>3, ArcsetAssumption
      <4> QED  BY <2>3, <2>4, <3>2, <4>1 DEF RightBytes
    <3> QED  BY <3>1, <3>2
  <2>11. StripeKey(f) = st  BY <1>3, <2>4 DEF StripeKey, Stripe
  <2> QED  BY <2>1, <2>2, <2>3, <2>4, <2>5, <2>8, <2>9, <2>10, <2>11
<1>6. p >= K => p \in ParityPos /\ EcAt(st, p) = {}
  <2> SUFFICES ASSUME p >= K PROVE p \in ParityPos /\ EcAt(st, p) = {}  OBVIOUS
  <2>1. p \notin Present(st)  BY <1>1, <1>2 DEF Missing
  <2>2. p \in ParityPos  BY PosTypes, PlacementAssumption DEF DataPos
  <2> QED  BY <2>1, <2>2 DEF Present
\* What the three kinds of file have in common.
<1>7. /\ target \subseteq target' /\ pads \subseteq pads' /\ parity \subseteq parity' /\ wrong \subseteq wrong'
      /\ \A f \in target' \ target : f \in DataAt(st, p)
      /\ \A w \in wrong' \ wrong : w.file \in DataAt(st, p) /\ w.zero \in BOOLEAN
                                   /\ w \in [file : DataFile, zero : BOOLEAN]
      /\ \A f \in parity' \ parity :
             /\ f = [group |-> st.group, stripe |-> st.stripe, pos |-> p, cover |-> rec.word]
             /\ p >= K
      /\ \A q \in pads' \ pads : q = sl
      /\ wrong' = wrong \/ target' = target
      /\ vouched => wrong' = wrong
  <2>1. ASSUME NEW f \in DataAt(st, p), RenameData(f) PROVE <1>7!:
    <3>1. UNCHANGED <<pads, parity>>  BY <2>1 DEF RenameData
    <3>2. CASE RightBytes(f)
      <4>1. target' = target \cup {f} /\ wrong' = wrong  BY <2>1, <3>2 DEF RenameData
      <4> QED  BY <3>1, <4>1
    <3>3. CASE ~RightBytes(f)
      <4>1. target' = target /\ ~vouched  BY <1>5, <2>1, <3>3 DEF RenameData
      <4>2. PICK zero \in BOOLEAN : wrong' = wrong \cup {[file |-> f, zero |-> zero]}
        <5> DEFINE z == \A x \in rec.word : x[1] # f.pos
        <5>1. wrong' = wrong \cup {[file |-> f, zero |-> z]}  BY <2>1, <3>3 DEF RenameData
        <5>2. z \in BOOLEAN  OBVIOUS
        <5> HIDE DEF z
        <5> QED  BY <5>1, <5>2
      <4>3. f \in DataFile  BY <1>5
      <4> QED  BY <3>1, <4>1, <4>2, <4>3
    <3> QED  BY <3>2, <3>3
  <2>2. ASSUME RenamePad(sl) PROVE <1>7!:
    BY <2>2 DEF RenamePad
  <2>3. ASSUME p >= K, RenameEC(sl) PROVE <1>7!:
    BY <2>3 DEF RenameEC, ParitySlot
  <2> QED  BY <2>1, <2>2, <2>3 DEF RecoverRename
<1> HIDE DEF sl
<1>8. TypeInv'
  <2>1. target' \subseteq [shard : Shards, group : Nat, stripe : Nat, pos : DataPos]
    <3>1. \A f \in target' : f \in target \/ f \in DataFile  BY <1>5, <1>7
    <3> QED  BY <3>1 DEF RecoverSafe, TypeInv, TypeOK, DataFile
  <2>2. pads' \subseteq Slot
    <3>1. sl \in Slot  BY <1>3 DEF sl, ParitySlot, Slot, Stripe
    <3> QED  BY <1>7, <3>1 DEF RecoverSafe, TypeInv, TypeOK
  <2>3. parity' \subseteq [group : Nat, stripe : Nat, pos : StripePos,
                           cover : SUBSET (DataPos \X (Shards \cup {None}))]
    <3>1. [group |-> st.group, stripe |-> st.stripe, pos |-> p, cover |-> rec.word]
            \in [group : Nat, stripe : Nat, pos : StripePos,
                 cover : SUBSET (DataPos \X (Shards \cup {None}))]
      BY <1>3 DEF Word, Stripe
    <3> QED  BY <1>7, <3>1 DEF RecoverSafe, TypeInv, TypeOK
  <2> QED
    BY <1>1, <2>1, <2>2, <2>3 DEF RecoverSafe, TypeInv, TypeOK, CurTyped, Recording, DataRowsTyped
<1>9. /\ rec'.pc \in {"check", "rename"} /\ rec'.row = rec.row /\ rec'.all = rec.all
      /\ rec'.todo = rec.todo \ {p} /\ rec'.word = rec.word
  BY <1>1, <1>3
<1>10. RecTyped'
  <2>1. wrong' \subseteq [file : DataFile, zero : BOOLEAN]
    BY <1>7 DEF RecoverSafe, RecTyped
  <2> QED  BY <1>1, <1>3, <2>1 DEF RecTyped
<1>11. FileInv'
  <2>1. ASSUME NEW w \in wrong'
        PROVE  w.file \notin target' /\ \E r \in DataRows(rows) : w.file = FileAt(r.shard, SlotOf(r))
    <3>1. CASE w \in wrong
      <4>1. w.file \notin target /\ \E r \in DataRows(rows) : w.file = FileAt(r.shard, SlotOf(r))
        BY <3>1 DEF RecoverSafe, FileInv
      <4>2. w.file \notin DataAt(st, p)  BY <1>5, <3>1
      <4> QED  BY <1>7, <4>1, <4>2
    <3>2. CASE w \notin wrong
      <4>1. w.file \in DataAt(st, p) /\ target' = target  BY <1>7, <3>2
      <4> QED  BY <1>5, <4>1
    <3> QED  BY <3>1, <3>2
  <2>2. \A f \in parity' : f.pos \in ParityPos
    BY <1>6, <1>7 DEF RecoverSafe, FileInv
  <2>3. ASSUME NEW f \in parity', NEW g \in parity', SlotOf(f) = SlotOf(g) PROVE f = g
    <3>1. ASSUME NEW x \in parity' \ parity, NEW y \in parity PROVE SlotOf(x) # SlotOf(y)
      <4>1. x.group = st.group /\ x.stripe = st.stripe /\ x.pos = p /\ p >= K  BY <1>7
      <4>2. y \notin EcAt(st, p)  BY <1>6, <4>1
      <4> QED  BY <4>1, <4>2, SlotRows DEF SlotOf
    <3>2. CASE f \in parity /\ g \in parity
      BY <2>3, <3>2 DEF RecoverSafe, FileInv
    <3>3. CASE f \notin parity /\ g \notin parity  BY <1>7, <3>3
    <3> QED  BY <2>3, <3>1, <3>2, <3>3
  <2> QED  BY <1>1, <2>1, <2>2, <2>3 DEF FileInv
<1>12. RowInv'  BY <1>1 DEF RecoverSafe, RowInv
<1>13. ASSUME NEW other \in Stripe PROVE Truth(other)'
  <2>1. Truth(other)  BY TruthEverywhere DEF RecoverSafe
  <2>2. StripeRows(rows', other.group, other.stripe) = StripeRows(rows, other.group, other.stripe)
    BY <1>1
  <2>3. CASE other # st
    <3>1. \A f : StripeKey(f) = other => (f \in parity' <=> f \in parity)
      <4> SUFFICES ASSUME NEW f \in parity' \ parity PROVE StripeKey(f) = st
        BY <1>7, <2>3
      <4>1. f.group = st.group /\ f.stripe = st.stripe  BY <1>7
      <4> QED  BY <1>3, <4>1 DEF StripeKey, Stripe
    <3>2. \A w : StripeKey(w.file) = other => (w \in wrong' <=> w \in wrong)
      BY <1>5, <1>7, <2>3
    <3> QED  BY <1>1, <1>7, <2>1, <2>2, <3>1, <3>2, OtherStripe
  <2>4. CASE other = st
    <3>1. (Encoded(other)' <=> Encoded(other)) /\ (RowsKnow(other)' <=> RowsKnow(other))
      BY <2>2, OtherRows
    <3>2. ASSUME vouched, Right(other) PROVE Right(other)'
      <4>1. \A f \in parity' : StripeKey(f) = other => f.cover = Cover(rows, other)
        BY <1>2, <1>7, <2>4, <3>2 DEF Right
      <4>2. \A w \in wrong' : StripeKey(w.file) # other  BY <1>7, <3>2 DEF Right
      <4>3. \A q : EcAt(other, q) # {} => EcAt(other, q)' # {}  BY <1>7 DEF EcAt
      <4> QED  BY <1>7, <2>2, <3>2, <4>1, <4>2, <4>3, OtherRows, RightKept
    <3> QED  BY <1>1, <2>1, <2>4, <3>1, <3>2 DEF Truth
  <2> QED  BY <2>3, <2>4
<1>14. EncodedInv'  BY <1>8, <1>13, TruthEverywhere
<1>15. op.cmd = "none" /\ DOMAIN work = {}  BY <1>2 DEF Idle, RecoverSafe, RunInv
<1>16. RunInv'  BY <1>1, <1>2, <1>9, <1>15 DEF RecoverSafe, RunInv
<1>17. PlaceInv' /\ EncodersInv'
  BY <1>1, <1>15, NoEncoders DEF PlaceInv, Recording
<1>18. CompletedEncoded'  BY <1>1, StillCompleted DEF RecoverSafe
<1>19. RecoveryInv'
  <2>1. RecStripe' = key  BY <1>4, <1>9 DEF RecStripe
  <2>2. ASSUME NEW q \in rec.todo, q # p PROVE q \in Missing(key)'
    <3>1. q \in StripePos /\ q \notin Present(key)  BY <1>2, <1>4 DEF Missing
    <3>2. DataAt(key, q)' = DataAt(key, q)  BY <1>1 DEF DataAt, RowsAt
    <3>3. \A f \in DataAt(key, q) : f.pos = q
      BY SlotRows DEF DataAt, DataRows, FileAt, SlotOf
    <3>4. \A f \in DataAt(st, p) : f \notin DataAt(key, q)
      BY <1>5, <2>2, <3>3
    <3>5. EcAt(key, q)' = EcAt(key, q)
      <4>1. \A f \in parity' \ parity : SlotOf(f) # ParitySlot(key, q)
        BY <1>7, <2>2 DEF SlotOf, ParitySlot
      <4> QED  BY <1>7, <4>1 DEF EcAt
    <3>6. WrongAt(key, q)' = WrongAt(key, q)
      BY <1>7, <3>2, <3>4 DEF WrongAt
    <3>7. DataAt(key, q) \subseteq target' => DataAt(key, q) \subseteq target
      BY <1>7, <3>4
    <3>8. ParitySlot(key, q) \in pads' => ParitySlot(key, q) \in pads
      <4>1. ParitySlot(key, q) # sl  BY <2>2 DEF sl, ParitySlot
      <4> QED  BY <1>7, <4>1
    <3>9. q \notin Present(key)'
      BY <3>1, <3>2, <3>5, <3>6, <3>7, <3>8 DEF Present
    <3> QED  BY <3>1, <3>9 DEF Missing
  <2>3. rec'.todo \subseteq Missing(key)'  BY <1>9, <2>2
  <2>4. (Encoded(key)' <=> Encoded(key)) /\ Cover(rows', key) = Cover(rows, key)
    BY <1>1 DEF Encoded
  <2> QED  BY <1>1, <1>2, <1>4, <1>9, <2>1, <2>3, <2>4 DEF RecoveryInv
<1> QED
  BY <1>8, <1>10, <1>11, <1>12, <1>14, <1>16, <1>17, <1>18, <1>19 DEF RecoverSafe

(***************************************************************************)
(* Media, and the specification                                            *)
(***************************************************************************)

\* A file of one slot is lost: the others are still there.
LEMMA OthersPresent ==
    ASSUME RecoverSafe, NEW st \in Stripe, NEW p \in StripePos, Lose(st, p),
           NEW other \in Stripe, Right(other), NEW q \in Present(other),
           other # st \/ q # p
    PROVE  q \in Present(other)'
<1>1. /\ UNCHANGED rows
      /\ target' = target \ DataAt(st, p)
      /\ pads' = pads \ {ParitySlot(st, p)}
      /\ parity' = parity \ EcAt(st, p)
  BY DEF Lose, tables
<1>2. \A x, y : ~(x.group = st.group /\ x.stripe = st.stripe /\ x.pos = p
                  /\ x.group = other.group /\ x.stripe = other.stripe /\ x.pos = q)
  BY DEF Stripe
<1>3. ParitySlot(other, q) # ParitySlot(st, p)  BY DEF ParitySlot, Stripe
<1>4. q \in StripePos  BY DEF Present
<1>5. CASE q >= K
  <2>1. PICK f : f \in EcAt(other, q)  BY <1>5 DEF Present
  <2>2. f \in parity'  BY <1>1, <1>2, <2>1, SlotRows
  <2>3. f \in EcAt(other, q)'  BY <2>1, <2>2 DEF EcAt
  <2> QED  BY <1>4, <1>5, <2>3 DEF Present
<1>6. CASE ~(q >= K)
  <2>1. DataAt(other, q)' = DataAt(other, q)  BY <1>1 DEF DataAt, RowsAt
  <2>2. CASE DataAt(other, q) = {}
    <3>1. ParitySlot(other, q) \in pads  BY <1>6, <2>2 DEF Present
    <3> QED  BY <1>1, <1>3, <1>4, <1>6, <2>1, <2>2, <3>1 DEF Present
  <2>3. CASE DataAt(other, q) # {}
    <3>1. \A x \in Stripe : \A n : \A f \in DataAt(x, n) :
              f.group = x.group /\ f.stripe = x.stripe /\ f.pos = n
      BY SlotRows DEF DataAt, DataRows, FileAt, SlotOf
    <3>2. WrongAt(other, q) = {}
      <4>1. \A f \in DataAt(other, q) : StripeKey(f) = other
        BY <3>1 DEF StripeKey, Stripe
      <4> QED  BY <4>1 DEF WrongAt, Right
    <3>3. DataAt(other, q) \subseteq target  BY <1>6, <2>3, <3>2 DEF Present
    <3>4. \A f \in DataAt(other, q) : f \notin DataAt(st, p)  BY <1>2, <3>1
    <3>5. DataAt(other, q) \subseteq target'  BY <1>1, <3>3, <3>4
    <3> QED  BY <1>4, <1>6, <2>1, <2>3, <3>5 DEF Present
  <2> QED  BY <2>2, <2>3
<1> QED  BY <1>5, <1>6

\* No more than m files of a stripe are missing at a time.
LEMMA LoseKeeps ==
    ASSUME RecoverSafe, NEW st \in DataStripes(rows), NEW p \in StripePos, Lose(st, p)
    PROVE  RecoverSafe'
<1>1. st \in Stripe
  BY DEF DataStripes, DataRows, StripeKey, Stripe, RecoverSafe, TypeInv, TypeOK, Row
<1>2. /\ UNCHANGED <<arcset, rels, rows, frozen, source, op, cur, work, val, rec, spoiled>>
      /\ op = Idle /\ rec.pc = "idle" /\ val.pc = "idle" /\ Cardinality(Missing(st)) < M
      /\ target' \subseteq target /\ wrong' \subseteq wrong /\ pads' \subseteq pads
      /\ parity' \subseteq parity
  BY DEF Lose, tables
<1>3. TypeInv'
  BY <1>2 DEF RecoverSafe, TypeInv, TypeOK, CurTyped, Recording, DataRowsTyped
<1>4. RecTyped'  BY <1>2 DEF RecoverSafe, RecTyped
<1>5. FileInv'  BY <1>2 DEF RecoverSafe, FileInv
<1>6. RowInv'  BY <1>2 DEF RecoverSafe, RowInv
<1>7. op.cmd = "none" /\ DOMAIN work = {}  BY <1>2 DEF Idle, RecoverSafe, RunInv
<1>8. RunInv'  BY <1>2, <1>7 DEF RunInv
<1>9. PlaceInv' /\ EncodersInv' /\ RecoveryInv'
  BY <1>2, <1>7, NoEncoders DEF PlaceInv, Recording, RecoveryInv
<1>10. CompletedEncoded'  BY <1>2, StillCompleted DEF RecoverSafe
<1>11. ASSUME NEW other \in Stripe, Right(other) PROVE Right(other)'
  <2>1. Missing(other)' \subseteq Missing(other) \cup (IF other = st THEN {p} ELSE {})
    <3> SUFFICES ASSUME NEW q \in Present(other), other # st \/ q # p
                 PROVE  q \in Present(other)'
      BY DEF Missing
    <3> QED  BY <1>1, <1>11, OthersPresent
  <2>2. Cardinality(Missing(other)') <= M
    <3> DEFINE more == IF other = st THEN {p} ELSE {}
    <3>1. /\ IsFiniteSet(Missing(other)) /\ Cardinality(Missing(other)) \in Nat
          /\ Cardinality(Missing(other)) <= M
      BY <1>11, PresentCounts DEF Right
    <3>2. CASE other # st
      <4>1. Missing(other)' \subseteq Missing(other)  BY <2>1, <3>2
      <4>2. Cardinality(Missing(other)') <= Cardinality(Missing(other))
            /\ Cardinality(Missing(other)') \in Nat
        BY <3>1, <4>1, FS_Subset, FS_CardinalityType
      <4> QED  BY <3>1, <4>2, PlacementAssumption
    <3>3. CASE other = st
      <4>1. Missing(other)' \subseteq Missing(other) \cup {p}  BY <2>1, <3>3
      <4>2. /\ IsFiniteSet(Missing(other) \cup {p})
            /\ Cardinality(Missing(other) \cup {p}) <= Cardinality(Missing(other)) + 1
            /\ Cardinality(Missing(other) \cup {p}) \in Nat
        <5> DEFINE S == Missing(other)
        <5>1. IsFiniteSet(S) /\ Cardinality(S) \in Nat  BY <3>1
        <5> HIDE DEF S
        <5>2. /\ IsFiniteSet(S \cup {p})
              /\ Cardinality(S \cup {p}) = IF p \in S THEN Cardinality(S) ELSE Cardinality(S) + 1
          BY <5>1, FS_AddElement
        <5>3. Cardinality(S \cup {p}) <= Cardinality(S) + 1 /\ Cardinality(S \cup {p}) \in Nat
          BY <5>1, <5>2
        <5> QED  BY <5>2, <5>3 DEF S
      <4>3. Cardinality(Missing(other)') <= Cardinality(Missing(other) \cup {p})
            /\ Cardinality(Missing(other)') \in Nat
        BY <4>1, <4>2, FS_Subset, FS_CardinalityType
      <4> QED  BY <1>2, <3>1, <3>3, <4>2, <4>3, PlacementAssumption
    <3> QED  BY <3>2, <3>3
  <2> QED  BY <1>2, <1>11, <2>2 DEF Right
<1>12. ASSUME NEW other \in Stripe PROVE Truth(other)'
  <2>1. Truth(other)  BY TruthEverywhere DEF RecoverSafe
  <2>2. StripeRows(rows', other.group, other.stripe) = StripeRows(rows, other.group, other.stripe)
    BY <1>2
  <2> QED  BY <1>2, <1>11, <2>1, <2>2, OtherRows DEF Truth
<1>13. EncodedInv'  BY <1>3, <1>12, TruthEverywhere
<1> QED  BY <1>3, <1>4, <1>5, <1>6, <1>8, <1>9, <1>10, <1>13 DEF RecoverSafe

\* A step that changes nothing keeps the invariant.
LEMMA StutterKeeps == RecoverSafe /\ UNCHANGED rvars => RecoverSafe'
<1> SUFFICES ASSUME RecoverSafe, UNCHANGED rvars PROVE RecoverSafe'  OBVIOUS
<1>1. UNCHANGED <<arcset, rows, target, pads, parity, op, cur, work, val, wrong, rec, spoiled>>
  BY DEF rvars, vars
<1>2. UNCHANGED vars  BY DEF rvars
<1>3. TypeInv'  BY <1>2, StutterTypes DEF RecoverSafe
<1>4. RecTyped'  BY <1>1 DEF RecoverSafe, RecTyped
<1>5. RunInv'  BY <1>1 DEF RecoverSafe, RunInv, Encoded
<1>6. FileInv' /\ RowInv'  BY <1>1, FilesKept DEF RecoverSafe
<1>7. EncodedInv'  BY <1>1, FilesKept DEF RecoverSafe, EncodedInv
<1>8. PlaceInv'  BY <1>1 DEF RecoverSafe, PlaceInv, Recording, Encoded
<1>9. EncodersInv'  BY <1>1, FilesKept DEF RecoverSafe, EncodersInv, EncoderInv
<1>10. CompletedEncoded'  BY <1>1, StillCompleted DEF RecoverSafe
<1>11. RecoveryInv'
  <2>1. PICK key : key = RecStripe  OBVIOUS
  <2>2. RecStripe' = key  BY <1>1, <2>1 DEF RecStripe
  <2>3. /\ Missing(key)' = Missing(key) /\ (Encoded(key)' <=> Encoded(key))
        /\ Cover(rows', key) = Cover(rows, key)
    BY <1>1, FilesKept
  <2> QED  BY <1>1, <2>1, <2>2, <2>3 DEF RecoverSafe, RecoveryInv
<1> QED
  BY <1>3, <1>4, <1>5, <1>6, <1>7, <1>8, <1>9, <1>10, <1>11 DEF RecoverSafe

\* The invariant is inductive.
LEMMA RecoverNextSafe == RecoverSafe /\ [RecoverNext]_rvars => RecoverSafe'
<1> SUFFICES ASSUME RecoverSafe, [RecoverNext]_rvars PROVE RecoverSafe'  OBVIOUS
<1>1. ASSUME rec.pc = "idle", Next, UNCHANGED <<wrong, rec, spoiled>> PROVE RecoverSafe'
  <2>1. ASSUME val.pc = "idle", NEW add \in 1 .. MaxPartitions, Expand(add) PROVE RecoverSafe'
    BY <1>1, <2>1, ExpandKeeps
  <2>2. CASE val.pc = "idle" /\ ControlStep
    BY <1>1, <2>1, <2>2, AppendKeeps, BuildKeeps, MakeECKeeps, FaultKeeps DEF ControlStep
  <2>3. CASE op = Idle /\ ValidateStep  BY <1>1, <2>3, ValidateKeeps
  <2> QED  BY <1>1, <2>2, <2>3 DEF Next
<1>2. ASSUME rec.pc = "idle", ValidateWrong PROVE RecoverSafe'
  <2>1. op = Idle  BY <1>2 DEF ValidateWrong, RecoverSafe, RunInv
  <2>2. UNCHANGED <<wrong, rec, spoiled>>  BY <1>2 DEF ValidateWrong
  <2> QED  BY <1>2, <2>1, <2>2, ValidateKeeps
<1>3. ASSUME rec.pc = "idle", NEW st \in DOMAIN work,
             VerifyWrong(st) \/ \E p \in StripePos : EncodeWrong(st, p)
      PROVE  RecoverSafe'
  <2>1. PICK p \in StripePos : VerifyWrong(st) \/ EncodeWrong(st, p)
    <3>1. 0 \in StripePos  BY PlacementAssumption DEF StripePos
    <3> QED  BY <1>3, <3>1
  <2>2. op.cmd = "make-ec"
    BY <2>1 DEF VerifyWrong, EncodeWrong, At, Running
  <2>3. val.pc = "idle"  BY <2>2 DEF RecoverSafe, RunInv, Idle
  <2>4. TypeInv'  BY <2>1, WrongTypes DEF RecoverSafe
  <2> QED  BY <1>3, <2>1, <2>3, <2>4, VerifyKeeps, EncodeKeeps
<1>4. ASSUME val.pc = "idle", RecoverStep PROVE RecoverSafe'
  BY <1>4, RecoverStartKeeps, RecoverRenameKeeps, RecoverEndKeeps DEF RecoverStep
<1>5. ASSUME NEW st \in DataStripes(rows), NEW p \in StripePos, Lose(st, p) PROVE RecoverSafe'
  BY <1>5, LoseKeeps
<1> QED  BY <1>1, <1>2, <1>3, <1>4, <1>5, StutterKeeps DEF RecoverNext

\* RecoverSafe is an invariant of the specification.
THEOREM RecoveryStaysSafe == RecoverSpec => []RecoverSafe
BY InitRecoverSafe, RecoverNextSafe, PTL DEF RecoverSpec

\* A completed arcset keeps every byte as long as the media lose at most m files
\* of a stripe at a time, except in a stripe that make-ec has encoded over wrong
\* bytes: whichever k files are left decode to the DATA rows.
THEOREM CompletedStaysReadable == RecoverSpec => []CompletedSurvivesLosses
<1>1. ASSUME RecoverSafe PROVE CompletedSurvivesLosses
  <2> SUFFICES ASSUME arcset.status = "completed", M > 0, NEW st \in DataStripes(rows), st \notin spoiled
               PROVE  Cardinality(Present(st)) >= K /\ Decodings(st) = {Cover(rows, st)}
    BY DEF CompletedSurvivesLosses
  <2>1. st \in Stripe
    BY <1>1 DEF DataStripes, DataRows, StripeKey, Stripe, RecoverSafe, TypeInv, TypeOK, Row
  <2>2. Encoded(st)  BY <1>1 DEF RecoverSafe, CompletedEncoded
  <2>3. Truth(st)  BY <1>1, <2>1, TruthEverywhere DEF RecoverSafe
  <2>4. RowsKnow(st) /\ Right(st)  BY <2>2, <2>3 DEF Truth
  <2> QED  BY <1>1, <2>1, <2>4, RightDecodes DEF RecoverSafe
<1> QED  BY <1>1, RecoveryStaysSafe, PTL

\* A recover --target=all that ends well, of a stripe whose parity rows are
\* there, leaves it able to lose any m files again.
THEOREM RecoveredStaysProtected == RecoverSpec => []RecoveredProtected
<1>1. ASSUME RecoverSafe PROVE RecoveredProtected
  <2> DEFINE st     == RecStripe
             stripe == StripeRows(rows, st.group, st.stripe)
  <2> SUFFICES ASSUME rec.pc = "update", rec.all, st \notin spoiled,
                      {r.pos : r \in ParityRows(rows, st.group, st.stripe)} = ParityPos
               PROVE  Protected(st)
    BY DEF RecoveredProtected
  <2>1. M > 0 /\ rec.row \in rows  BY <1>1 DEF RecoverSafe, RunInv
  <2>2. st \in Stripe
    BY <1>1, <2>1 DEF RecoverSafe, TypeInv, TypeOK, RecStripe, Row, StripeKey, Stripe
  <2>3. Missing(st) = {}  BY <1>1 DEF RecoverSafe, RecoveryInv
  <2>4. Encoded(st)
    <3>1. K \in ParityPos  BY <2>1, PlacementAssumption DEF ParityPos
    <3> QED  BY <3>1 DEF Encoded
  <2>5. RowsKnow(st) /\ Right(st)
    <3>1. Truth(st)  BY <1>1, <2>2, TruthEverywhere DEF RecoverSafe
    <3> QED  BY <2>4, <3>1 DEF Truth
  <2>6. {r.pos : r \in stripe} = StripePos
    <3>1. \A r \in rows : r.pos \in StripePos  BY <1>1 DEF RecoverSafe, TypeInv, TypeOK, Row
    <3>2. {r.pos : r \in stripe} \subseteq StripePos  BY <3>1 DEF StripeRows
    <3>3. ParityPos \subseteq {r.pos : r \in stripe}  BY DEF ParityRows
    <3>4. DataPos \subseteq {r.pos : r \in stripe}  BY <2>5 DEF RowsKnow
    <3> HIDE DEF stripe
    <3> QED  BY <3>2, <3>3, <3>4, PosTypes
  <2>7. \A p \in StripePos : p \in Present(st)  BY <2>3 DEF Missing
  <2>8. \A p : WrongAt(st, p) = {}
    <3>1. \A p : \A f \in DataAt(st, p) : StripeKey(f) = st
      BY <2>2, SlotRows DEF DataAt, DataRows, FileAt, SlotOf, StripeKey, Stripe
    <3> QED  BY <2>5, <3>1 DEF WrongAt, Right
  <2>9. DataOnDisk(stripe)
    <3> SUFFICES ASSUME NEW r \in DataRows(stripe) PROVE FileAt(r.shard, SlotOf(r)) \in target
      BY DEF DataOnDisk
    <3>1. r \in rows /\ r.type = "DATA" /\ r.group = st.group /\ r.stripe = st.stripe
      BY DEF DataRows, StripeRows
    <3>2. r \in DataRows(RowsAt(st, r.pos))  BY <3>1, SlotRows DEF DataRows
    <3>3. FileAt(r.shard, SlotOf(r)) \in DataAt(st, r.pos)  BY <3>2 DEF DataAt
    <3>4. r.pos \in StripePos /\ ~(r.pos >= K)
      <4>1. r.pos \in DataPos  BY <1>1, <3>1 DEF RecoverSafe, TypeInv, DataRowsTyped, DataRows
      <4>2. r.pos \in StripePos /\ r.pos < K /\ r.pos \in Nat  BY <4>1, PosTypes
      <4> QED  BY <4>2, PlacementAssumption
    <3> QED  BY <2>7, <2>8, <3>3, <3>4 DEF Present
  <2>10. \A r \in stripe : r.type = "PAD" => SlotOf(r) \in pads
    <3> SUFFICES ASSUME NEW r \in stripe, r.type = "PAD" PROVE SlotOf(r) \in pads  OBVIOUS
    <3>1. r \in rows /\ r.group = st.group /\ r.stripe = st.stripe  BY DEF StripeRows
    <3>2. r.pos \in StripePos /\ ~(r.pos >= K)
      <4>1. r.pos \in StripePos  BY <1>1, <3>1 DEF RecoverSafe, TypeInv, TypeOK, Row
      <4>2. r.pos \notin ParityPos  BY <1>1, <3>1 DEF RecoverSafe, RowInv
      <4> QED  BY <4>1, <4>2, PosTypes, PlacementAssumption DEF DataPos
    <3>3. DataAt(st, r.pos) = {}
      <4> SUFFICES ASSUME NEW q \in DataRows(RowsAt(st, r.pos)) PROVE FALSE  BY DEF DataAt
      <4>1. q \in DataRows(rows) /\ q.group = st.group /\ q.stripe = st.stripe /\ q.pos = r.pos
        BY SlotRows DEF DataRows
      <4>2. SlotOf(q) = SlotOf(r)  BY <3>1, <4>1 DEF SlotOf
      <4>3. q = r  BY <1>1, <3>1, <4>1, <4>2 DEF RecoverSafe, RowInv
      <4> QED  BY <3>1, <4>1, <4>3 DEF DataRows
    <3>4. ParitySlot(st, r.pos) \in pads  BY <2>7, <3>2, <3>3 DEF Present
    <3> QED  BY <3>1, <3>4 DEF ParitySlot, SlotOf
  <2>11. ParityOnDisk(rows, st)
    <3> SUFFICES ASSUME NEW p \in ParityPos PROVE ParityFile(rows, st, p) \in parity
      BY DEF ParityOnDisk
    <3>1. p \in StripePos /\ p >= K  BY PosTypes, PlacementAssumption DEF ParityPos
    <3>2. PICK f : f \in EcAt(st, p)  BY <2>7, <3>1 DEF Present
    <3>3. f \in parity /\ f.group = st.group /\ f.stripe = st.stripe /\ f.pos = p
      BY <3>2, SlotRows
    <3>4. StripeKey(f) = st  BY <2>2, <3>3 DEF StripeKey, Stripe
    <3>5. f.cover = Cover(rows, st)  BY <2>5, <3>3, <3>4 DEF Right
    <3>6. f \in [group : Nat, stripe : Nat, pos : StripePos,
                 cover : SUBSET (DataPos \X (Shards \cup {None}))]
      BY <1>1, <3>3 DEF RecoverSafe, TypeInv, TypeOK
    <3>7. f = [group |-> f.group, stripe |-> f.stripe, pos |-> f.pos, cover |-> f.cover]
      BY <3>6
    <3>8. f = ParityFile(rows, st, p)  BY <3>3, <3>5, <3>7 DEF ParityFile
    <3> QED  BY <3>3, <3>8
  <2> QED  BY <2>6, <2>9, <2>10, <2>11 DEF Protected
<1> QED  BY <1>1, RecoveryStaysSafe, PTL
==============================================================================
