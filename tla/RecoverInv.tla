------------------------------ MODULE RecoverInv ------------------------------
(***************************************************************************)
(* The inductive invariant behind the safety properties of Recover: a      *)
(* stripe with parity rows, and one whose new parity make-ec has verified, *)
(* has at least k files of one generation, the one of its rows, unless     *)
(* make-ec has accepted wrong DATA bytes of it.                            *)
(***************************************************************************)
EXTENDS Recover, ArcsetInv

DataFile == [shard : Shards, group : Nat, stripe : Nat, pos : DataPos]
Word     == SUBSET (DataPos \X (Shards \cup {None}))

RecTyped ==
    /\ wrong \subseteq [file : DataFile, zero : BOOLEAN]
    /\ rec \in [pc : {"idle", "rename", "check", "update"}, row : Row \cup {None},
                all : BOOLEAN, todo : SUBSET StripePos, rebuilt : SUBSET StripePos, word : Word]
    /\ spoiled \subseteq Stripe

\* The stripe has parity rows.
Encoded(st) == ParityRows(rows, st.group, st.stripe) # {}

\* build-data and make-ec run on an arcset that is building; validate and
\* recover run alone; what make-ec and recover do needs parity.
RunInv ==
    /\ op.cmd \in {"build-data", "make-ec"} => arcset.status = "building"
    /\ op.cmd = "make-ec" => M > 0
    /\ op.cmd # "make-ec" => DOMAIN work = {}
    /\ val.pc # "idle" => op = Idle /\ val.rows = rows
    /\ (val.pc = "write" /\ val.stage = "all" /\ M > 0) => \A st \in DataStripes(rows) : Encoded(st)
    /\ rec.pc # "idle" => op = Idle /\ val.pc = "idle" /\ M > 0 /\ rec.row \in rows

\* A path has one content, a wrong DATA file stands where a row says its shard
\* is, and a parity slot has one file.
FileInv ==
    /\ \A w \in wrong : /\ w.file \notin target
                        /\ \E r \in DataRows(rows) : w.file = FileAt(r.shard, SlotOf(r))
    /\ \A f, g \in parity : SlotOf(f) = SlotOf(g) => f = g
    /\ \A f \in parity : f.pos \in ParityPos

\* Parity rows are at parity positions, the others at data positions, and a slot
\* has one DATA row, or PAD rows, or none.
RowInv ==
    /\ \A r \in rows : r.type = "EC" <=> r.pos \in ParityPos
    /\ \A r \in DataRows(rows), q \in rows : SlotOf(r) = SlotOf(q) => r = q

\* When build-data records a shard, the stripe has no parity rows, and nothing is
\* in the way of the row but the PAD row it replaces.
PlaceInv ==
    Recording =>
        /\ \A r \in rows : SlotOf(r) = cur.slot => r.type = "PAD"
        /\ op.pc = "record" => ~Encoded(cur.slot)

\* The files are of the generation of the rows, and not more than m are missing.
Right(st) ==
    /\ \A w \in wrong : StripeKey(w.file) # st
    /\ \A f \in parity : StripeKey(f) = st => f.cover = Cover(rows, st)
    /\ Cardinality(Missing(st)) <= M

\* The rows describe every data position and the padded size.
RowsKnow(st) ==
    /\ DataPos \subseteq {r.pos : r \in StripeRows(rows, st.group, st.stripe)}
    /\ \A r \in StripeData(rows, st) : Reaches(st, r.size)

\* Parity rows tell the truth about the stripe.
EncodedInv ==
    \A st \in {StripeKey(r) : r \in rows} : Encoded(st) => RowsKnow(st) /\ (st \in spoiled \/ Right(st))

\* A worker that writes the rows of a stripe has verified its files, and the rows
\* it has counted as inserted are there.
EncoderInv(st) ==
    /\ work[st].pc \in {"metadata", "insert"} => st \in spoiled \/ Right(st)
    /\ work[st].pc = "insert" =>
         work[st].done \subseteq {r.pos : r \in StripeRows(rows, st.group, st.stripe)}
    /\ work[st].pc = "done" => Encoded(st)

EncodersInv ==
    /\ \A st \in DOMAIN work : EncoderInv(st)
    /\ op.cmd = "make-ec" /\ op.full => DataStripes(rows) \subseteq DOMAIN work

CompletedEncoded ==
    arcset.status = "completed" /\ M > 0 => \A st \in DataStripes(rows) : Encoded(st)

\* What recover still has to rename is missing, and what it has decoded is what
\* the rows say, if parity rows vouch for the files.
RecoveryInv ==
    rec.pc # "idle" =>
        /\ rec.todo \subseteq Missing(RecStripe)
        /\ Encoded(RecStripe) /\ RecStripe \notin spoiled => rec.word = Cover(rows, RecStripe)
        /\ rec.pc = "update" /\ rec.all => Missing(RecStripe) = {}

\* The inductive invariant.
RecoverSafe ==
    /\ TypeInv
    /\ RecTyped
    /\ RunInv
    /\ FileInv
    /\ RowInv
    /\ PlaceInv
    /\ EncodedInv
    /\ EncodersInv
    /\ CompletedEncoded
    /\ RecoveryInv
==============================================================================
