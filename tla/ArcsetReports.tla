----------------------------- MODULE ArcsetReports -----------------------------
(***************************************************************************)
(* What an operator is shown of an arcset while commands run: the stripe   *)
(* counts of arcset show and the stripes of GET /api/arcsets/{id}/plan,    *)
(* both computed from one read of t_shard.                                 *)
(***************************************************************************)
EXTENDS Arcset, Order

Shown == {StripeKey(r) : r \in rows}

CountOf(st, type) == Cardinality({r \in StripeRows(rows, st.group, st.stripe) : r.type = type})

\* Mutant of ECComplete: every data position has its row, whatever the EC rows say.
ECCompleteByData(st) == CountOf(st, "DATA") + CountOf(st, "PAD") = K

\* printShardStats: the stripes counted as ec_complete.
ECComplete(st) ==
    /\ CountOf(st, "DATA") + CountOf(st, "PAD") = K
    /\ M = 0 \/ CountOf(st, "EC") = M

ByPos(rs) == InOrder(rs, LAMBDA r, q : r.pos < q.pos)

\* Mutant of PlanStripe: PAD rows are neither data nor parity.
PlanStripeWithoutPad(st) ==
    LET stripe == StripeRows(rows, st.group, st.stripe)
    IN  [stripe |-> st,
         data   |-> ByPos({r \in stripe : r.type = "DATA"}),
         ec     |-> ByPos({r \in stripe : r.type = "EC"})]

\* One stripe of the plan: its DATA, and all that is to be shown beside it, PAD
\* as well as EC, each in the order of the positions.
PlanStripe(st) ==
    LET stripe == StripeRows(rows, st.group, st.stripe)
        isData(r) == r.pos < K /\ r.type = "DATA"
    IN  [stripe |-> st,
         data   |-> ByPos({r \in stripe : isData(r)}),
         ec     |-> ByPos({r \in stripe : ~isData(r)})]

Plan ==
    LET keys == InOrder(Shown, EarlierStripe)
    IN  [i \in DOMAIN keys |-> PlanStripe(keys[i])]

\* What is shown can be relied on at every instant, between any two statements
\* of build-data and make-ec: a stripe that counts as ec_complete can lose any m
\* files, and while the arcset is completed (with m > 0) there is no other stripe.
ShownStripesProtected ==
    /\ \A st \in Shown : ECComplete(st) => Protected(st)
    /\ M > 0 /\ arcset.status = "completed" => \A st \in Shown : ECComplete(st)

\* The plan, read at any such instant, shows of a stripe that counts as
\* ec_complete every position, and none twice: nothing is missing from what the
\* operator can choose to recover.
PlanComplete ==
    \A i \in DOMAIN Plan : ECComplete(Plan[i].stripe) =>
        LET all == Plan[i].data \o Plan[i].ec
        IN  Len(all) = K + M /\ {all[j].pos : j \in DOMAIN all} = StripePos
==============================================================================
