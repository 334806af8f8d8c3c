--------------------------- MODULE ArcsetRefinement ----------------------------
(***************************************************************************)
(* What the rest of the system may rely on, for every instance.  Arcset    *)
(* implements ArcsetSpec: with the invariant SafeInv in both states of a   *)
(* step, a step is one of three kinds: it leaves rows and parity files     *)
(* alone, it re-encodes one stripe, or it is the row of one shard.  And    *)
(* the counts that arcset show reads off t_shard mean what they say.       *)
(***************************************************************************)
EXTENDS ArcsetRefines, ArcsetReports, ArcsetSafety, FiniteSetTheorems

\* Files follow their rows, so a stripe is protected as soon as all its rows are
\* there and its parity files are current.
LEMMA ShieldOf ==
    StoreInv => \A st : Protected(st) <=>
        /\ M > 0 => {r.pos : r \in StripeRows(rows, st.group, st.stripe)} = StripePos
        /\ ParityOnDisk(rows, st)
BY DEF StoreInv, Protected, DataOnDisk, StripeRows, DataRows

\* The home of a shard is the slot of its DATA row.
LEMMA HomeOf ==
    ASSUME NEW rs, \A r, q \in DataRows(rs) : r.shard = q.shard => r = q
    PROVE  /\ DOMAIN Home(rs) = {r.shard : r \in DataRows(rs)}
           /\ \A r \in DataRows(rs) : Home(rs)[r.shard] = SlotOf(r)
BY DEF Home

\* Shards whose DATA rows keep their slots keep their homes.
LEMMA HomeKept ==
    ASSUME NEW rs, NEW qs,
           \A r, q \in DataRows(rs) : r.shard = q.shard => r = q,
           \A r, q \in DataRows(qs) : r.shard = q.shard => r = q,
           \A r \in DataRows(rs) : \E q \in DataRows(qs) : SameData(r, q),
           \A q \in DataRows(qs) : \E r \in DataRows(rs) : SameData(r, q)
    PROVE  Home(qs) = Home(rs)
<1> DEFINE D         == {r.shard : r \in DataRows(rs)}
           at(xs, sh) == SlotOf(CHOOSE x \in DataRows(xs) : x.shard = sh)
<1>1. {q.shard : q \in DataRows(qs)} = D  BY DEF SameData
<1>2. /\ \A r \in DataRows(rs) : Home(rs)[r.shard] = SlotOf(r)
      /\ \A q \in DataRows(qs) : Home(qs)[q.shard] = SlotOf(q)
  BY HomeOf
<1>3. ASSUME NEW sh \in D PROVE Home(qs)[sh] = Home(rs)[sh]
  <2>1. PICK r \in DataRows(rs) : r.shard = sh  OBVIOUS
  <2>2. PICK q \in DataRows(qs) : SameData(r, q)  BY <2>1
  <2>3. Home(rs)[sh] = SlotOf(r) /\ Home(qs)[sh] = SlotOf(q)
    BY <1>2, <2>1, <2>2 DEF SameData
  <2> QED  BY <2>2, <2>3 DEF SameData, SlotOf
<1>4. /\ Home(rs) = [sh \in D |-> at(rs, sh)]
      /\ Home(qs) = [sh \in D |-> at(qs, sh)]
  BY <1>1, Zenon DEF Home
<1> HIDE DEF D, at
<1>5. \A sh \in D : at(qs, sh) = at(rs, sh)  BY <1>3, <1>4
<1> QED  BY <1>4, <1>5

\* An arcset just created is an abstract arcset without homes.
LEMMA InitImplements == Init => Abstract!Init
<1> SUFFICES ASSUME Init PROVE Abstract!Init  OBVIOUS
<1>1. rows = {} /\ arcset.status = "defined"  BY DEF Init
<1>2. DataRows(rows) = {}  BY <1>1 DEF DataRows
<1>3. Home(rows) = [sh \in {} |-> {}]  BY <1>2 DEF Home
<1> QED  BY <1>1, <1>2, <1>3 DEF Abstract!Init, DataStripes

\* A step that leaves rows and parity files alone opens, completes or is not
\* seen; completed it is only with every stripe protected.
LEMMA ContentKept ==
    ASSUME SafeInv, SafeInv', UNCHANGED <<rows, parity>>
    PROVE  [Abstract!Next]_(Abstract!vars)
<1> DEFINE status(a) == IF a.status = "completed" THEN "completed" ELSE "open"
           shielded  == {st \in DataStripes(rows) : Protected(st)}
<1>1. \A st : Protected(st)' <=> Protected(st)
  <2>1. StoreInv /\ StoreInv'  BY DEF SafeInv
  <2>2. \A st : Protected(st) <=>
            /\ M > 0 => {r.pos : r \in StripeRows(rows, st.group, st.stripe)} = StripePos
            /\ ParityOnDisk(rows, st)
    BY <2>1, ShieldOf
  <2>3. \A st : Protected(st)' <=>
            /\ M > 0 => {r.pos : r \in StripeRows(rows, st.group, st.stripe)} = StripePos
            /\ ParityOnDisk(rows, st)
    BY <2>1 DEF StoreInv, Protected, DataOnDisk, StripeRows, DataRows, ParityOnDisk
  <2> QED  BY <2>2, <2>3
<1>2. Home(rows)' = Home(rows) /\ shielded' = shielded  BY <1>1
<1>3. CASE status(arcset)' = status(arcset)
  BY <1>2, <1>3 DEF Abstract!vars
<1>4. CASE status(arcset) = "completed" /\ status(arcset)' = "open"
  BY <1>2, <1>4 DEF Abstract!Next, Abstract!Reopen
<1>5. CASE status(arcset) = "open" /\ status(arcset)' = "completed"
  <2>1. \A st \in DataStripes(rows) : Protected(st)
    BY <1>1, <1>5 DEF SafeInv, CompletedProtected
  <2>2. ASSUME NEW sh \in DOMAIN Home(rows) PROVE StripeKey(Home(rows)[sh]) \in shielded
    <3>1. PICK r \in DataRows(rows) : r.shard = sh  BY DEF Home
    <3>2. Home(rows)[sh] = SlotOf(r)  BY <3>1, HomeOf DEF SafeInv, StoreInv
    <3> QED  BY <2>1, <3>2 DEF DataStripes, StripeKey, SlotOf
  <2> QED  BY <1>2, <1>5, <2>2 DEF Abstract!Next, Abstract!Complete
<1> QED  BY <1>3, <1>4, <1>5
\* Rows and parity files of another stripe are as they were, so its shield is.
LEMMA OtherShields ==
    ASSUME SafeInv, SafeInv', NEW st,
           \A key : key.group # st.group \/ key.stripe # st.stripe =>
               StripeRows(rows', key.group, key.stripe) = StripeRows(rows, key.group, key.stripe),
           \A f : f.group # st.group \/ f.stripe # st.stripe => (f \in parity <=> f \in parity'),
           NEW key, key.group # st.group \/ key.stripe # st.stripe
    PROVE  Protected(key)' <=> Protected(key)
<1> DEFINE full(rs) == M > 0 => {r.pos : r \in StripeRows(rs, key.group, key.stripe)} = StripePos
<1>1. StripeRows(rows', key.group, key.stripe) = StripeRows(rows, key.group, key.stripe)
  OBVIOUS
<1>2. Cover(rows', key) = Cover(rows, key)  BY <1>1 DEF Cover, StripeData
<1>3. \A p : ParityFile(rows', key, p) = ParityFile(rows, key, p)  BY <1>2 DEF ParityFile
<1>4. \A p : ParityFile(rows, key, p) \in parity <=> ParityFile(rows, key, p) \in parity'
  BY DEF ParityFile
<1>5. ParityOnDisk(rows, key)' <=> ParityOnDisk(rows, key)
  BY <1>3, <1>4 DEF ParityOnDisk
<1>6. Protected(key) <=> full(rows) /\ ParityOnDisk(rows, key)
  BY ShieldOf DEF SafeInv
<1>7. Protected(key)' <=> full(rows)' /\ ParityOnDisk(rows, key)'
  BY DEF SafeInv, StoreInv, Protected, DataOnDisk, StripeRows, DataRows
<1> QED  BY <1>1, <1>5, <1>6, <1>7

\* A step that re-encodes one stripe, or drops its parity rows, encodes that
\* stripe, and is not seen when the stripe holds no data.
LEMMA EncodeImplements ==
    ASSUME SafeInv, SafeInv', NEW st \in Stripe,
           arcset.status = "building", UNCHANGED arcset,
           \A r \in DataRows(rows) : \E q \in DataRows(rows') : SameData(r, q),
           \A q \in DataRows(rows') : \E r \in DataRows(rows) : SameData(r, q),
           \A key : key.group # st.group \/ key.stripe # st.stripe =>
               StripeRows(rows', key.group, key.stripe) = StripeRows(rows, key.group, key.stripe),
           \A f : f.group # st.group \/ f.stripe # st.stripe => (f \in parity <=> f \in parity')
    PROVE  [Abstract!Next]_(Abstract!vars)
<1> DEFINE shielded == {key \in DataStripes(rows) : Protected(key)}
<1>1. Home(rows') = Home(rows) /\ DataStripes(rows') = DataStripes(rows)
  BY HomeKept, DataKept DEF SafeInv, StoreInv
<1>2. \A key \in DataStripes(rows) : key \in Stripe
  <2>1. \A r \in DataRows(rows) : r.group \in Nat /\ r.stripe \in Nat
    BY DEF SafeInv, TypeInv, TypeOK, DataRows, Row
  <2> QED  BY <2>1 DEF DataStripes, StripeKey, Stripe
<1>3. \A key \in DataStripes(rows) : key # st => (Protected(key)' <=> Protected(key))
  <2> SUFFICES ASSUME NEW key \in DataStripes(rows), key # st
               PROVE  Protected(key)' <=> Protected(key)
    OBVIOUS
  <2>1. key.group # st.group \/ key.stripe # st.stripe  BY <1>2 DEF Stripe
  <2> QED  BY <2>1, OtherShields
<1>4. shielded' \ {st} = shielded \ {st}  BY <1>1, <1>3
<1>5. CASE st \in DataStripes(rows)
  <2>1. PICK r \in DataRows(rows) : StripeKey(r) = st  BY <1>5 DEF DataStripes
  <2>2. /\ DOMAIN Home(rows) = {x.shard : x \in DataRows(rows)}
        /\ \A x \in DataRows(rows) : Home(rows)[x.shard] = SlotOf(x)
    BY HomeOf DEF SafeInv, StoreInv
  <2>3. r.shard \in DOMAIN Home(rows) /\ StripeKey(Home(rows)[r.shard]) = st
    <3>1. StripeKey(SlotOf(r)) = StripeKey(r)  BY DEF StripeKey, SlotOf
    <3> QED  BY <2>1, <2>2, <3>1
  <2>4. Abstract!Encode(StripeKey(Home(rows)[r.shard]))
    BY <1>1, <1>4, <2>3 DEF Abstract!Encode
  <2> QED  BY <2>3, <2>4 DEF Abstract!Next
<1>6. CASE st \notin DataStripes(rows)
  <2>1. shielded' = shielded  BY <1>1, <1>4, <1>6
  <2> QED  BY <1>1, <2>1 DEF Abstract!vars
<1> QED  BY <1>5, <1>6

\* The DATA row of a shard is what settles it: the slot is free, the shard had no
\* home, and only the stripe of the slot may lose its shield.
LEMMA RecordImplements ==
    ASSUME SafeInv, SafeInv', BuildRecord
    PROVE  [Abstract!Next]_(Abstract!vars)
<1> DEFINE sh       == cur.shard
           sl       == cur.slot
           new      == DataRow(sh, sl)
           shielded == {key \in DataStripes(rows) : Protected(key)}
<1>1. /\ UNCHANGED <<arcset, parity>> /\ arcset.status = "building"
      /\ rows' = (rows \ {r \in rows : r.type = "PAD" /\ SlotOf(r) = sl}) \cup {new}
      /\ cur \in Placement
      /\ \A r \in rows : SlotOf(r) = sl => r.type = "PAD"
      /\ ~Placed(sh)
  BY DEF BuildRecord, Running, Recording, files, SafeInv, TypeInv, CurTyped, CommandInv, RecordInv
<1>2. sh \in Shards /\ sl \in DataSlot  BY <1>1 DEF Placement
<1>3. /\ new.type = "DATA" /\ new.shard = sh /\ SlotOf(new) = sl
      /\ new.group = sl.group /\ new.stripe = sl.stripe /\ StripeKey(new) = StripeKey(sl)
  BY <1>2 DEF DataRow, SlotOf, StripeKey, DataSlot
<1> HIDE DEF new
<1>4. DataRows(rows') = DataRows(rows) \cup {new}  BY <1>1, <1>3 DEF DataRows
<1>5. \A r \in DataRows(rows) : r.shard # sh /\ SlotOf(r) # sl
  BY <1>1 DEF Placed, DataRows
<1>6. /\ DOMAIN Home(rows) = {r.shard : r \in DataRows(rows)}
      /\ \A r \in DataRows(rows) : Home(rows)[r.shard] = SlotOf(r)
  BY HomeOf DEF SafeInv, StoreInv
<1>7. /\ DOMAIN Home(rows') = {r.shard : r \in DataRows(rows')}
      /\ \A r \in DataRows(rows') : Home(rows')[r.shard] = SlotOf(r)
  BY HomeOf DEF SafeInv, StoreInv
<1>8. Home(rows') = [x \in DOMAIN Home(rows) \cup {sh} |-> IF x = sh THEN sl ELSE Home(rows)[x]]
  <2> DEFINE D == DOMAIN Home(rows) \cup {sh}
  <2>1. DOMAIN Home(rows') = D  BY <1>3, <1>4, <1>6, <1>7
  <2>2. ASSUME NEW x \in D PROVE Home(rows')[x] = IF x = sh THEN sl ELSE Home(rows)[x]
    <3>1. CASE x = sh  BY <1>3, <1>4, <1>7, <3>1
    <3>2. CASE x # sh
      <4>1. PICK r \in DataRows(rows) : r.shard = x  BY <1>6, <3>2
      <4> QED  BY <1>4, <1>6, <1>7, <3>2, <4>1
    <3> QED  BY <3>1, <3>2
  <2>3. Home(rows') = [x \in D |-> Home(rows')[x]]  BY <2>1 DEF Home
  <2> HIDE DEF D
  <2>4. Home(rows') = [x \in D |-> IF x = sh THEN sl ELSE Home(rows)[x]]  BY <2>2, <2>3
  <2> QED  BY <2>4 DEF D
<1>9. \A key \in DataStripes(rows) \cup DataStripes(rows') :
          key # StripeKey(sl) => (Protected(key)' <=> Protected(key))
  <2> SUFFICES ASSUME NEW key \in DataStripes(rows) \cup DataStripes(rows'), key # StripeKey(sl)
               PROVE  Protected(key)' <=> Protected(key)
    OBVIOUS
  <2>1. key \in Stripe
    BY DEF SafeInv, TypeInv, TypeOK, DataStripes, DataRows, StripeKey, Stripe, Row
  <2>2. key.group # StripeKey(sl).group \/ key.stripe # StripeKey(sl).stripe
    BY <2>1 DEF Stripe, StripeKey
  <2>3. \A g, s : g # sl.group \/ s # sl.stripe => StripeRows(rows', g, s) = StripeRows(rows, g, s)
    BY <1>1, <1>3 DEF StripeRows, SlotOf
  <2> QED  BY <1>1, <2>2, <2>3, OtherShields DEF StripeKey
<1>10. shielded' \ {StripeKey(sl)} = shielded \ {StripeKey(sl)}
  <2>1. DataStripes(rows') = DataStripes(rows) \cup {StripeKey(sl)}
    BY <1>3, <1>4 DEF DataStripes
  <2> QED  BY <1>9, <2>1
<1>11. Abstract!Settle(sh, sl)
  <2>1. sh \notin DOMAIN Home(rows)  BY <1>5, <1>6
  <2>2. \A x \in DOMAIN Home(rows) : Home(rows)[x] # sl  BY <1>5, <1>6
  <2> QED  BY <1>1, <1>8, <1>10, <2>1, <2>2 DEF Abstract!Settle
<1>12. sh \in DOMAIN Home(rows') /\ Home(rows')[sh] = sl  BY <1>3, <1>4, <1>7
<1> QED  BY <1>2, <1>11, <1>12 DEF Abstract!Next

\* The only steps that write t_shard or an EC file.
LEMMA ContentWritten ==
    Next => \/ UNCHANGED <<rows, parity>>
            \/ BuildInvalidate \/ BuildRecord
            \/ \E st \in DOMAIN work : StripeVerify(st)
            \/ \E st \in DOMAIN work, p \in StripePos :
                   StripeEncode(st, p) \/ StripeMetadata(st, p) \/ StripeInsert(st, p)
<1> USE DEF tables, files
<1>1. AppendStep => UNCHANGED <<rows, parity>>
  BY DEF AppendStep, AppendInherit, AppendRegister, AppendKnown, AppendBusy, AppendFreeze
<1>2. \A add : Expand(add) => UNCHANGED <<rows, parity>>  BY DEF Expand
<1>3. Fault => UNCHANGED <<rows, parity>>  BY DEF Fault, Crash, StripeFail
<1>4. ValidateStep => UNCHANGED <<rows, parity>>
  BY DEF ValidateStep, ValidateRead, ValidatePasses, ValidateFails, ValidateWrite
<1>5. BuildStep => UNCHANGED <<rows, parity>> \/ BuildInvalidate \/ BuildRecord
  BY DEF BuildStep, BuildStart, BuildRefused, MoveVerified, MoveRename, MoveCopy, MoveFails,
         MoveUnlink, BuildFinish
<1>6. MakeECStep => \/ UNCHANGED <<rows, parity>>
                    \/ \E st \in DOMAIN work : StripeVerify(st)
                    \/ \E st \in DOMAIN work, p \in StripePos :
                          StripeEncode(st, p) \/ StripeMetadata(st, p) \/ StripeInsert(st, p)
  BY DEF MakeECStep, StripeStep, MakeECWithoutParity, MakeECStart, MakeECFinish,
         StripeStart, StripePad
<1> QED  BY <1>1, <1>2, <1>3, <1>4, <1>5, <1>6 DEF Next, ControlStep

\* The parity rows that build-data invalidates are those of one stripe.
LEMMA InvalidateImplements ==
    ASSUME SafeInv, SafeInv', BuildInvalidate
    PROVE  [Abstract!Next]_(Abstract!vars)
<1> DEFINE st == StripeKey(cur.slot)
<1>1. /\ UNCHANGED <<arcset, parity>> /\ arcset.status = "building"
      /\ rows' = {r \in rows : StripeKey(r) = st => r.type # "EC"}
      /\ cur \in Placement
  BY DEF BuildInvalidate, DeleteECShards, Running, Recording, files,
         SafeInv, TypeInv, CurTyped, CommandInv
<1>2. st \in Stripe  BY <1>1 DEF Placement, DataSlot, StripeKey, Stripe
<1>3. DataRows(rows') = DataRows(rows)  BY <1>1 DEF DataRows
<1>4. \A key : key.group # st.group \/ key.stripe # st.stripe =>
          StripeRows(rows', key.group, key.stripe) = StripeRows(rows, key.group, key.stripe)
  BY <1>1 DEF StripeRows, StripeKey
<1> HIDE DEF st
<1> QED  BY <1>1, <1>2, <1>3, <1>4, EncodeImplements DEF SameData

\* What a worker of make-ec writes is about its own stripe, and is no DATA.
LEMMA WorkerImplements ==
    ASSUME SafeInv, SafeInv', NEW st \in DOMAIN work,
           \/ StripeVerify(st)
           \/ \E p \in StripePos :
                 StripeEncode(st, p) \/ StripeMetadata(st, p) \/ StripeInsert(st, p)
    PROVE  [Abstract!Next]_(Abstract!vars)
<1> USE DEF files, tables
<1>1. st \in Stripe  BY DEF SafeInv, TypeInv, TypeOK
<1>2. UNCHANGED arcset /\ arcset.status = "building"
  BY DEF StripeVerify, StripeEncode, StripeMetadata, StripeInsert, Inserts, At, Running,
         SafeInv, CommandInv
<1>3. CASE StripeVerify(st)
  <2>1. parity' = parity /\ rows' = {r \in rows : StripeKey(r) = st => r.type = "DATA"}
    BY <1>3 DEF StripeVerify, DeleteECAndPADShards
  <2>2. DataRows(rows') = DataRows(rows)  BY <2>1 DEF DataRows
  <2>3. \A key : key.group # st.group \/ key.stripe # st.stripe =>
            StripeRows(rows', key.group, key.stripe) = StripeRows(rows, key.group, key.stripe)
    BY <2>1 DEF StripeRows, StripeKey
  <2> QED  BY <1>1, <1>2, <2>1, <2>2, <2>3, EncodeImplements DEF SameData
<1>4. ASSUME NEW p \in StripePos, StripeEncode(st, p) PROVE [Abstract!Next]_(Abstract!vars)
  <2>1. /\ rows' = rows
        /\ parity' = {f \in parity : SlotOf(f) # ParitySlot(st, p)} \cup {ParityFile(rows, st, p)}
    BY <1>4 DEF StripeEncode
  <2>2. \A f : f.group # st.group \/ f.stripe # st.stripe => (f \in parity <=> f \in parity')
    BY <2>1 DEF SlotOf, ParitySlot, ParityFile
  <2> QED  BY <1>1, <1>2, <2>1, <2>2, EncodeImplements DEF SameData
<1>5. ASSUME NEW p \in StripePos, StripeMetadata(st, p) PROVE [Abstract!Next]_(Abstract!vars)
  <2> DEFINE upd(r) == IF SlotOf(r) = ParitySlot(st, p)
                       THEN [r EXCEPT !.padded = PaddedSize(rows, st)] ELSE r
  <2>1. parity' = parity /\ rows' = {upd(r) : r \in rows}  BY <1>5 DEF StripeMetadata
  <2>2. ASSUME NEW r \in rows
        PROVE  /\ SameData(upd(r), r) /\ upd(r).type = r.type
               /\ r.group # st.group \/ r.stripe # st.stripe => upd(r) = r
    BY DEF SameData, SafeInv, TypeInv, TypeOK, Row, SlotOf, ParitySlot
  <2>3. (\A q \in rows' : \E r \in rows : q = upd(r)) /\ \A r \in rows : upd(r) \in rows'
    BY <2>1
  <2> HIDE DEF upd
  <2>4. /\ \A r \in DataRows(rows) : \E q \in DataRows(rows') : SameData(r, q)
        /\ \A q \in DataRows(rows') : \E r \in DataRows(rows) : SameData(r, q)
    BY <2>2, <2>3 DEF DataRows, SameData
  <2>5. ASSUME NEW key, key.group # st.group \/ key.stripe # st.stripe
        PROVE  StripeRows(rows', key.group, key.stripe) = StripeRows(rows, key.group, key.stripe)
    <3>1. \A r \in rows : r.group = key.group /\ r.stripe = key.stripe => r \in rows'
      BY <2>2, <2>3, <2>5
    <3>2. \A q \in rows' : q.group = key.group /\ q.stripe = key.stripe => q \in rows
      BY <2>2, <2>3, <2>5 DEF SameData
    <3> QED  BY <3>1, <3>2 DEF StripeRows
  <2> QED  BY <1>1, <1>2, <2>1, <2>4, <2>5, EncodeImplements
<1>6. ASSUME NEW p \in StripePos, StripeInsert(st, p) PROVE [Abstract!Next]_(Abstract!vars)
  <2>1. parity' = parity /\ rows' = rows \cup {NewRow(st, p)}  BY <1>6 DEF StripeInsert
  <2>2. /\ NewRow(st, p).type # "DATA" /\ NewRow(st, p).group = st.group
        /\ NewRow(st, p).stripe = st.stripe
    BY DEF NewRow
  <2>3. DataRows(rows') = DataRows(rows)  BY <2>1, <2>2 DEF DataRows
  <2>4. \A key : key.group # st.group \/ key.stripe # st.stripe =>
            StripeRows(rows', key.group, key.stripe) = StripeRows(rows, key.group, key.stripe)
    BY <2>1, <2>2 DEF StripeRows
  <2> QED  BY <1>1, <1>2, <2>1, <2>3, <2>4, EncodeImplements DEF SameData
<1> QED  BY <1>3, <1>4, <1>5, <1>6

\* append, build-data, make-ec and validate, with their crashes and retries,
\* implement the abstract arcset.
THEOREM Implements == Spec => ImplementsArcsetSpec
<1>1. ASSUME SafeInv, SafeInv', [Next]_vars PROVE [Abstract!Next]_(Abstract!vars)
  <2>1. CASE UNCHANGED <<rows, parity>>  BY <1>1, <2>1, ContentKept
  <2>2. CASE ~UNCHANGED <<rows, parity>>
    <3>1. Next  BY <1>1, <2>2 DEF vars
    <3> QED
      BY <1>1, <2>2, <3>1, ContentWritten, InvalidateImplements, RecordImplements, WorkerImplements
  <2> QED  BY <2>1, <2>2
<1> QED  BY <1>1, InitImplements, Safe, PTL DEF Spec, ImplementsArcsetSpec, Abstract!Spec

\* Rows with different positions are as many as a finite set of positions if and
\* only if they take up all of it.
LEMMA PosCount ==
    ASSUME NEW P, IsFiniteSet(P), NEW S,
           \A r \in S : r.pos \in P,
           \A r, q \in S : r.pos = q.pos => r = q
    PROVE  /\ IsFiniteSet(S)
           /\ Cardinality(S) = Cardinality(P) <=> {r.pos : r \in S} = P
<1> DEFINE f == [r \in S |-> r.pos]
<1>1. f \in Injection(S, P)  BY DEF Injection, IsInjective
<1>2. f \in Surjection(S, P) <=> {r.pos : r \in S} = P
  <2>1. f \in [S -> P] /\ \A r \in S : f[r] = r.pos  OBVIOUS
  <2>2. f \in Surjection(S, P) <=> \A p \in P : \E r \in S : f[r] = p
    BY <2>1 DEF Surjection
  <2> HIDE DEF f
  <2> QED  BY <2>1, <2>2
<1> QED  BY <1>1, <1>2, FS_Injection

\* What the counts of a stripe say of its positions.
LEMMA CountsOf ==
    ASSUME SafeInv, RowKinds, NEW st
    PROVE  LET stripe == StripeRows(rows, st.group, st.stripe)
           IN  /\ CountOf(st, "DATA") + CountOf(st, "PAD") = K <=>
                    DataPos \subseteq {r.pos : r \in stripe}
               /\ CountOf(st, "EC") = M <=> ParityPos \subseteq {r.pos : r \in stripe}
<1> DEFINE stripe  == StripeRows(rows, st.group, st.stripe)
           of(t) == {r \in stripe : r.type = t}
           shown == of("DATA") \cup of("PAD")
<1>1. \A r, q \in stripe : r.pos = q.pos => r = q
  BY DEF StripeRows, SlotOf, SafeInv, StoreInv
<1>2. \A r \in stripe : /\ r.type \in {"DATA", "PAD", "EC"}
                        /\ r.type \in {"DATA", "PAD"} => r.pos \in DataPos
                        /\ r.type = "EC" => r.pos \in ParityPos
  BY DEF StripeRows, SafeInv, TypeInv, TypeOK, Row, DataRowsTyped, DataRows, RowKinds
<1>3. /\ IsFiniteSet(DataPos) /\ Cardinality(DataPos) = K
      /\ IsFiniteSet(ParityPos) /\ Cardinality(ParityPos) = M
  <2>1. K \in Nat \ {0} /\ M \in Nat  BY PlacementAssumption
  <2>2. /\ IsFiniteSet(0 .. K - 1) /\ Cardinality(0 .. K - 1) = K
    BY <2>1, FS_Interval
  <2>3. /\ IsFiniteSet(K .. K + M - 1) /\ Cardinality(K .. K + M - 1) = M
    BY <2>1, FS_Interval
  <2> QED  BY <2>2, <2>3 DEF DataPos, ParityPos
<1>4. /\ IsFiniteSet(shown)
      /\ Cardinality(shown) = K <=> {r.pos : r \in shown} = DataPos
      /\ IsFiniteSet(of("EC"))
      /\ Cardinality(of("EC")) = M <=> {r.pos : r \in of("EC")} = ParityPos
  <2>1. /\ \A r \in shown : r.pos \in DataPos /\ r \in stripe
        /\ \A r \in of("EC") : r.pos \in ParityPos /\ r \in stripe
    BY <1>2
  <2> HIDE DEF stripe, shown, of
  <2> QED  BY <1>1, <1>3, <2>1, PosCount
<1>5. Cardinality(shown) = Cardinality(of("DATA")) + Cardinality(of("PAD"))
  <2>1. IsFiniteSet(of("DATA")) /\ IsFiniteSet(of("PAD"))
    <3>1. of("DATA") \in SUBSET shown /\ of("PAD") \in SUBSET shown  OBVIOUS
    <3> HIDE DEF shown, of
    <3> QED  BY <1>4, <3>1, FS_Subset
  <2>2. of("DATA") \cap of("PAD") = {}  OBVIOUS
  <2> HIDE DEF of
  <2>3. /\ Cardinality(of("DATA")) \in Nat /\ Cardinality(of("PAD")) \in Nat
    BY <2>1, FS_CardinalityType
  <2>4. Cardinality(of("DATA") \cup of("PAD"))
          = Cardinality(of("DATA")) + Cardinality(of("PAD")) - Cardinality(of("DATA") \cap of("PAD"))
    BY <2>1, FS_Union, Zenon
  <2>5. Cardinality(of("DATA") \cap of("PAD")) = 0  BY <2>2, FS_EmptySet, Zenon
  <2> QED  BY <2>3, <2>4, <2>5
<1>6. /\ {r.pos : r \in shown} = DataPos <=> DataPos \subseteq {r.pos : r \in stripe}
      /\ {r.pos : r \in of("EC")} = ParityPos <=> ParityPos \subseteq {r.pos : r \in stripe}
  <2>1. DataPos \cap ParityPos = {}  BY PosTypes
  <2>2. /\ \A p \in DataPos : (\E r \in stripe : r.pos = p) <=> \E r \in shown : r.pos = p
        /\ \A p \in ParityPos : (\E r \in stripe : r.pos = p) <=> \E r \in of("EC") : r.pos = p
        /\ \A r \in shown : r.pos \in DataPos
        /\ \A r \in of("EC") : r.pos \in ParityPos
    BY <1>2, <2>1
  <2> HIDE DEF shown, of, stripe
  <2> QED  BY <2>2
<1>7. \A t : CountOf(st, t) = Cardinality(of(t))  BY DEF CountOf
<1> HIDE DEF shown, of
<1> QED  BY <1>4, <1>5, <1>6, <1>7

\* A stripe counted as ec_complete is protected.
LEMMA ECCompleteProtected ==
    ASSUME SafeInv, RowKinds, NEW st \in Shown, ECComplete(st)
    PROVE  Protected(st)
<1> DEFINE stripe == StripeRows(rows, st.group, st.stripe)
<1>1. /\ DataPos \subseteq {r.pos : r \in stripe}
      /\ M > 0 => ParityPos \subseteq {r.pos : r \in stripe}
  BY CountsOf, PlacementAssumption DEF ECComplete
<1>2. \A r \in stripe : /\ r.pos \in StripePos
                        /\ r.type \in {"DATA", "PAD", "EC"}
                        /\ r.type \in {"DATA", "PAD"} => r.pos \in DataPos
  BY DEF StripeRows, SafeInv, TypeInv, TypeOK, Row, DataRowsTyped, DataRows, RowKinds
<1>3. M > 0 => {r.pos : r \in stripe} = StripePos
  <2>1. \A r \in stripe : r.pos \in StripePos  BY <1>2
  <2> HIDE DEF stripe
  <2> QED  BY <1>1, <2>1, PosTypes
<1>4. \A r \in stripe : r.type = "PAD" => SlotOf(r) \in pads
  BY DEF StripeRows, SafeInv, StoreInv
<1>5. DataOnDisk(stripe)
  BY DEF StripeRows, SafeInv, StoreInv, DataOnDisk, DataRows
<1>6. ASSUME NEW p \in ParityPos PROVE ParityFile(rows, st, p) \in parity
  <2>1. M > 0  BY PlacementAssumption DEF ParityPos
  <2>2. PICK e \in stripe : e.pos = p  BY <1>1, <2>1
  <2>3. e.type = "EC"  BY <1>2, <2>2, PosTypes
  <2>4. StripeKey(e) = st
    BY <2>2 DEF Shown, StripeKey, StripeRows
  <2> QED  BY <2>2, <2>3, <2>4 DEF SafeInv, ParityRowsCurrent, StripeRows
<1> QED  BY <1>3, <1>4, <1>5, <1>6 DEF Protected, ParityOnDisk

\* The stripe counts of arcset show can be relied on at every instant: a stripe
\* counted as ec_complete can lose any m files, and a completed arcset with
\* parity shows no other.
THEOREM ShownAreProtected == Spec => []ShownStripesProtected
<1>1. ASSUME SafeInv, RowKinds PROVE ShownStripesProtected
  <2>1. \A st \in Shown : ECComplete(st) => Protected(st)
    BY <1>1, ECCompleteProtected
  <2>2. ASSUME M > 0, arcset.status = "completed", NEW st \in Shown
        PROVE  ECComplete(st)
    <3>1. st \in DataStripes(rows)  BY <1>1 DEF Shown, RowKinds
    <3>2. {r.pos : r \in StripeRows(rows, st.group, st.stripe)} = StripePos
      BY <1>1, <2>2, <3>1 DEF SafeInv, CompletedProtected, Protected
    <3> QED  BY <1>1, <3>2, CountsOf, PosTypes DEF ECComplete
  <2> QED  BY <2>1, <2>2 DEF ShownStripesProtected
<1> QED  BY <1>1, Safe, KindsKept, PTL

(***************************************************************************)
(* The plan                                                                *)
(***************************************************************************)

\* A list by position has the rows it is made from, each once.
LEMMA ByPosRight ==
    ASSUME NEW S, IsFiniteSet(S), \A r \in S : r.pos \in Nat,
           \A r, q \in S : r.pos = q.pos => r = q
    PROVE  /\ ByPos(S) \in [1 .. Cardinality(S) -> S]
           /\ \A r \in S : \E i \in 1 .. Cardinality(S) : ByPos(S)[i] = r
<1> DEFINE R == {ss \in S \X S : ss[1].pos < ss[2].pos}
<1>1. \A r, q \in S : <<r, q>> \in R <=> r.pos < q.pos  OBVIOUS
<1>2. \A r \in S : Below(R, S, r) = {q \in S : q.pos < r.pos}
  BY DEF Below
<1> HIDE DEF R
<1>3. Orders(R, S)  BY <1>1 DEF Orders
<1>4. ByPos(S) = [i \in 1 .. Cardinality(S) |->
                    CHOOSE r \in S : Cardinality({q \in S : q.pos < r.pos}) = i - 1]
  BY Zenon DEF ByPos, InOrder
<1>5. \A i : (CHOOSE r \in S : Cardinality({q \in S : q.pos < r.pos}) = i - 1)
             = CHOOSE r \in S : Cardinality(Below(R, S, r)) = i - 1
  BY <1>2
<1>6. ByPos(S) = Sorted(R, S)  BY <1>4, <1>5 DEF Sorted
<1> QED  BY <1>3, <1>6, SortedRight

\* t_shard and the stripes that are shown are finite.
FiniteRows == IsFiniteSet(rows)

\* The values of a function of a finite set are finitely many.
LEMMA FiniteRange ==
    ASSUME NEW S, IsFiniteSet(S), NEW f, DOMAIN f = S
    PROVE  IsFiniteSet({f[x] : x \in S})
<1> DEFINE T == {f[x] : x \in S}
           g == [x \in S |-> f[x]]
<1>1. g \in Surjection(S, T)  BY DEF Surjection
<1> HIDE DEF g
<1> QED  BY <1>1, FS_Surjection

\* No step makes infinitely many rows.
LEMMA RowsStayFinite ==
    ASSUME FiniteRows, [Next]_vars
    PROVE  FiniteRows'
<1> USE DEF FiniteRows
<1>1. CASE BuildInvalidate
  <2>1. rows' \in SUBSET rows  BY <1>1 DEF BuildInvalidate, DeleteECShards
  <2> QED  BY <2>1, FS_Subset
<1>2. CASE BuildRecord
  <2> DEFINE old == rows \ {r \in rows : r.type = "PAD" /\ SlotOf(r) = cur.slot}
  <2>1. rows' = old \cup {DataRow(cur.shard, cur.slot)}  BY <1>2 DEF BuildRecord
  <2>2. old \in SUBSET rows  OBVIOUS
  <2> HIDE DEF old
  <2>3. IsFiniteSet(old)  BY <2>2, FS_Subset
  <2> QED  BY <2>1, <2>3, FS_AddElement
<1>3. ASSUME NEW st \in DOMAIN work, StripeVerify(st) PROVE IsFiniteSet(rows')
  <2>1. rows' \in SUBSET rows  BY <1>3 DEF StripeVerify, DeleteECAndPADShards
  <2> QED  BY <2>1, FS_Subset
<1>4. ASSUME NEW st \in DOMAIN work, NEW p \in StripePos, StripeInsert(st, p)
      PROVE  IsFiniteSet(rows')
  <2>1. rows' = rows \cup {NewRow(st, p)}  BY <1>4 DEF StripeInsert
  <2> QED  BY <2>1, FS_AddElement
<1>5. ASSUME NEW st \in DOMAIN work, NEW p \in StripePos, StripeMetadata(st, p)
      PROVE  IsFiniteSet(rows')
  <2> DEFINE f == [r \in rows |-> IF SlotOf(r) = ParitySlot(st, p)
                                  THEN [r EXCEPT !.padded = PaddedSize(rows, st)] ELSE r]
  <2>1. rows' = {f[r] : r \in rows}  BY <1>5 DEF StripeMetadata
  <2>2. DOMAIN f = rows  OBVIOUS
  <2> HIDE DEF f
  <2> QED  BY <2>1, <2>2, FiniteRange
<1> QED  BY <1>1, <1>2, <1>3, <1>4, <1>5, RowsWritten DEF vars

\* The plan has a line for each stripe that is shown and for no other.
LEMMA PlanStripes ==
    ASSUME FiniteRows, SafeInv
    PROVE  /\ DOMAIN Plan = 1 .. Cardinality(Shown)
           /\ \A i \in DOMAIN Plan : \E st \in Shown : Plan[i] = PlanStripe(st)
<1> DEFINE R == {ss \in Shown \X Shown : EarlierStripe(ss[1], ss[2])}
           keys == InOrder(Shown, EarlierStripe)
<1>1. IsFiniteSet(Shown)
  <2> DEFINE f == [r \in rows |-> StripeKey(r)]
  <2>1. Shown = {f[r] : r \in rows} /\ DOMAIN f = rows  BY DEF Shown
  <2> HIDE DEF f
  <2> QED  BY <2>1, FiniteRange DEF FiniteRows
<1>2. \A a, b \in Shown : <<a, b>> \in R <=> EarlierStripe(a, b)  OBVIOUS
<1>3. \A a \in Shown : Below(R, Shown, a) = {b \in Shown : EarlierStripe(b, a)}  BY DEF Below
<1> HIDE DEF R
<1>4. \A a \in Shown : a = [group |-> a.group, stripe |-> a.stripe] /\ a.group \in Nat /\ a.stripe \in Nat
  BY DEF Shown, StripeKey, SafeInv, TypeInv, TypeOK, Row
<1>5. Orders(R, Shown)
  <2>1. \A a, b \in Shown : a = b \/ EarlierStripe(a, b) \/ EarlierStripe(b, a)
    BY <1>4 DEF EarlierStripe
  <2>2. \A a \in Shown : ~EarlierStripe(a, a)  BY <1>4 DEF EarlierStripe
  <2>3. \A a, b, c \in Shown : EarlierStripe(a, b) /\ EarlierStripe(b, c) => EarlierStripe(a, c)
    BY <1>4 DEF EarlierStripe
  <2> QED  BY <1>2, <2>1, <2>2, <2>3 DEF Orders
<1> DEFINE first(i)  == CHOOSE a \in Shown : Cardinality({b \in Shown : EarlierStripe(b, a)}) = i - 1
           second(i) == CHOOSE a \in Shown : Cardinality(Below(R, Shown, a)) = i - 1
<1>6. keys = [i \in 1 .. Cardinality(Shown) |-> first(i)]  BY Zenon DEF InOrder
<1>7. \A i : first(i) = second(i)  BY <1>3
<1>8. keys = Sorted(R, Shown)
  <2>1. Sorted(R, Shown) = [i \in 1 .. Cardinality(Shown) |-> second(i)]  BY Zenon DEF Sorted
  <2> HIDE DEF keys, first, second
  <2> QED  BY <1>6, <1>7, <2>1
<1>9. Plan = [i \in DOMAIN keys |-> PlanStripe(keys[i])]  BY Zenon DEF Plan
<1> HIDE DEF keys
<1>10. keys \in [1 .. Cardinality(Shown) -> Shown]  BY <1>1, <1>5, <1>8, SortedRight
<1> QED  BY <1>9, <1>10

\* The plan of the API, read between any two statements of build-data and make-ec,
\* shows all positions of a stripe that counts as ec_complete, each once.
THEOREM PlanIsComplete == Spec => []PlanComplete
<1>1. ASSUME FiniteRows, SafeInv, RowKinds PROVE PlanComplete
  <2> SUFFICES ASSUME NEW i \in DOMAIN Plan, ECComplete(Plan[i].stripe)
               PROVE  LET all == Plan[i].data \o Plan[i].ec
                      IN  Len(all) = K + M /\ {all[j].pos : j \in DOMAIN all} = StripePos
    BY DEF PlanComplete
  <2>1. PICK st \in Shown : Plan[i] = PlanStripe(st)  BY <1>1, PlanStripes
  <2> DEFINE stripe == StripeRows(rows, st.group, st.stripe)
             D == {r \in stripe : r.pos < K /\ r.type = "DATA"}
             E == {r \in stripe : ~(r.pos < K /\ r.type = "DATA")}
  <2>2. Plan[i].stripe = st /\ Plan[i].data = ByPos(D) /\ Plan[i].ec = ByPos(E)
    <3>1. Plan[i] = [stripe |-> st, data |-> ByPos(D), ec |-> ByPos(E)]
      BY <2>1, Zenon DEF PlanStripe
    <3> QED  BY <3>1
  <2>3. /\ \A r \in stripe : r.pos \in StripePos /\ r.pos \in Nat
        /\ \A r, q \in stripe : r.pos = q.pos => r = q
    <3>1. \A r \in stripe : r.pos \in StripePos
      BY <1>1 DEF StripeRows, SafeInv, TypeInv, TypeOK, Row
    <3>2. \A r, q \in stripe : r.pos = q.pos => SlotOf(r) = SlotOf(q)
      BY DEF StripeRows, SlotOf
    <3>3. \A r, q \in stripe : SlotOf(r) = SlotOf(q) => r = q
      BY <1>1 DEF StripeRows, SafeInv, StoreInv
    <3> HIDE DEF stripe
    <3> QED  BY <3>1, <3>2, <3>3, PosTypes
  <2>4. StripePos \subseteq {r.pos : r \in stripe}
    <3>1. ECComplete(st)  BY <2>2
    <3>2. DataPos \subseteq {r.pos : r \in stripe}  BY <1>1, <3>1, CountsOf DEF ECComplete
    <3>3. M > 0 => ParityPos \subseteq {r.pos : r \in stripe}
      BY <1>1, <3>1, CountsOf, PlacementAssumption DEF ECComplete
    <3> HIDE DEF stripe
    <3> QED  BY <3>2, <3>3, PosTypes, PlacementAssumption DEF ParityPos, StripePos, DataPos
  <2>5. IsFiniteSet(StripePos) /\ Cardinality(StripePos) = K + M
    <3>1. K \in Nat \ {0} /\ M \in Nat  BY PlacementAssumption
    <3>2. IsFiniteSet(0 .. K + M - 1) /\ Cardinality(0 .. K + M - 1) = K + M
      BY <3>1, FS_Interval
    <3> QED  BY <3>2 DEF StripePos
  <2>6. IsFiniteSet(stripe) /\ Cardinality(stripe) = K + M
    <3>1. {r.pos : r \in stripe} = StripePos  BY <2>3, <2>4
    <3> HIDE DEF stripe
    <3> QED  BY <2>3, <2>5, <3>1, PosCount
  <2>7. /\ IsFiniteSet(D) /\ IsFiniteSet(E)
        /\ Cardinality(D) \in Nat /\ Cardinality(E) \in Nat
        /\ Cardinality(D) + Cardinality(E) = K + M
    <3>1. D \in SUBSET stripe /\ E = stripe \ D  OBVIOUS
    <3>2. E \in SUBSET stripe /\ D \cap E = {} /\ D \cup E = stripe  OBVIOUS
    <3> HIDE DEF D, E, stripe
    <3>3. IsFiniteSet(D) /\ IsFiniteSet(E)  BY <2>6, <3>1, <3>2, FS_Subset
    <3>4. Cardinality(D) \in Nat /\ Cardinality(E) \in Nat  BY <3>3, FS_CardinalityType
    <3>5. Cardinality(D \cup E) = Cardinality(D) + Cardinality(E) - Cardinality(D \cap E)
      BY <3>3, FS_Union, Zenon
    <3>6. Cardinality(D \cap E) = 0  BY <3>2, FS_EmptySet, Zenon
    <3>7. Cardinality(D \cup E) = K + M  BY <2>6, <3>2, Zenon
    <3>8. K + M \in Nat  BY PlacementAssumption
    <3>9. Cardinality(D) + Cardinality(E) = K + M  BY <3>4, <3>5, <3>6, <3>7, <3>8
    <3> QED  BY <3>3, <3>4, <3>9
  <2>8. D \subseteq stripe /\ E \subseteq stripe /\ stripe = D \cup E  OBVIOUS
  <2> HIDE DEF D, E, stripe
  <2> DEFINE d == ByPos(D)
             e == ByPos(E)
             m == Cardinality(D)
             n == Cardinality(E)
  <2>9. /\ d \in [1 .. m -> D] /\ \A r \in D : \E j \in 1 .. m : d[j] = r
        /\ e \in [1 .. n -> E] /\ \A r \in E : \E j \in 1 .. n : e[j] = r
    BY <2>3, <2>7, <2>8, ByPosRight
  <2> HIDE DEF d, e, m, n
  <2>10. m \in Nat /\ n \in Nat /\ m + n = K + M  BY <2>7 DEF m, n
  <2>11. d \in Seq(D) /\ e \in Seq(E) /\ Len(d) = m /\ Len(e) = n
    BY <2>9, <2>10
  <2>12. /\ Len(d \o e) = m + n /\ DOMAIN (d \o e) = 1 .. m + n
         /\ \A j \in 1 .. m : (d \o e)[j] = d[j]
         /\ \A j \in 1 .. n : (d \o e)[m + j] = e[j]
         /\ \A j \in 1 .. m + n : j \in 1 .. m \/ \E x \in 1 .. n : j = m + x
    <3>1. d \in Seq(D \cup E) /\ e \in Seq(D \cup E)  BY <2>11
    <3>2. Len(d \o e) = m + n /\ DOMAIN (d \o e) = 1 .. m + n  BY <2>10, <2>11, <3>1
    <3>3. ASSUME NEW j \in 1 .. m PROVE (d \o e)[j] = d[j]  BY <2>10, <2>11, <3>1
    <3>4. ASSUME NEW j \in 1 .. n PROVE (d \o e)[m + j] = e[j]  BY <2>10, <2>11, <3>1
    <3>5. ASSUME NEW j \in 1 .. m + n, ~(j \in 1 .. m) PROVE \E x \in 1 .. n : j = m + x
      <4>1. j - m \in 1 .. n /\ j = m + (j - m)  BY <2>10, <3>5
      <4> QED  BY <4>1
    <3> QED  BY <3>2, <3>3, <3>4, <3>5
  <2>13. \A j \in 1 .. m + n : (d \o e)[j] \in stripe
    <3>1. \A j \in 1 .. m : (d \o e)[j] \in stripe  BY <2>8, <2>9, <2>12
    <3>2. \A j \in 1 .. n : (d \o e)[m + j] \in stripe  BY <2>8, <2>9, <2>12
    <3> QED  BY <2>12, <3>1, <3>2
  <2>14. \A r \in stripe : \E j \in 1 .. m + n : (d \o e)[j] = r
    <3> SUFFICES ASSUME NEW r \in stripe PROVE \E j \in 1 .. m + n : (d \o e)[j] = r  OBVIOUS
    <3>1. CASE r \in D
      <4>1. PICK j \in 1 .. m : d[j] = r  BY <2>9, <3>1
      <4>2. j \in 1 .. m + n  BY <2>10
      <4>3. (d \o e)[j] = r  BY <2>12, <4>1
      <4> QED  BY <4>2, <4>3
    <3>2. CASE r \in E
      <4>1. PICK j \in 1 .. n : e[j] = r  BY <2>9, <3>2
      <4>2. m + j \in 1 .. m + n  BY <2>10
      <4> QED  BY <2>12, <4>1, <4>2
    <3> QED  BY <2>8, <3>1, <3>2
  <2>15. {(d \o e)[j].pos : j \in 1 .. m + n} = StripePos
    <3>1. {r.pos : r \in stripe} = StripePos  BY <2>3, <2>4
    <3> DEFINE all == d \o e
    <3>2. /\ \A j \in 1 .. m + n : all[j] \in stripe
          /\ \A r \in stripe : \E j \in 1 .. m + n : all[j] = r
      BY <2>13, <2>14
    <3> HIDE DEF all
    <3>3. {all[j].pos : j \in 1 .. m + n} = {r.pos : r \in stripe}  BY <3>2
    <3> QED  BY <3>1, <3>3 DEF all
  <2> QED  BY <2>2, <2>10, <2>12, <2>15 DEF d, e
<1>2. Init => FiniteRows
  <2>1. Init => rows = {}  BY DEF Init
  <2> QED  BY <2>1, FS_EmptySet DEF FiniteRows
<1> QED  BY <1>1, <1>2, RowsStayFinite, Safe, KindsKept, PTL DEF Spec
==============================================================================
