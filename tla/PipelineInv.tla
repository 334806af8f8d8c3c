---------------------------- MODULE PipelineInv -----------------------------
(***************************************************************************)
(* The inductive invariant of the pipeline: what a file without a row,     *)
(* left by a build-data that died, says about the placement the next call  *)
(* will choose.                                                            *)
(***************************************************************************)
EXTENDS Pipeline, ArcsetInv

\* A validate runs alone, a build-data builds everything, and a dataset is
\* appended once.
StageInv ==
    /\ current \in Datasets /\ waiting \subseteq Datasets
    /\ stage = "validate" => op = Idle
    /\ val.pc # "idle" => stage = "validate"
    /\ op.cmd = "build-data" => op.only = Datasets
    /\ \A i, j \in DOMAIN rels : rels[i] = rels[j] => i = j

\* The shards a whole build has to place, and the one it begins with.
Unplaced == {sh \in Shards : Registered(sh.dataset) /\ ~Placed(sh)}

FirstUnplaced(sh) ==
    /\ sh \in Unplaced
    /\ \A o \in Unplaced : IF o.dataset = sh.dataset THEN sh.seq <= o.seq
                           ELSE AppendedBefore(sh.dataset, o.dataset)

\* The placement a build-data would choose now.
Chosen(sh, sl) == FirstUnplaced(sh) /\ IsPlacedAt(sl, rows, arcset.groups, Size[sh])

HasRow(f) == \E r \in DataRows(rows) : r.shard = f.shard /\ SlotOf(r) = SlotOf(f)

\* Parity rows are inserted last: a stripe that has some has a row at each data
\* position.
ParityLast ==
    \A e \in rows : e.type = "EC" =>
        DataPos \subseteq {r.pos : r \in StripeRows(rows, e.group, e.stripe)}

\* A DATA file without a row is there during build-data only, and whether its
\* build-data is still running or has died, the placement that led to it is the
\* one that would be chosen now.
RetryInv ==
    /\ \A f \in target : HasRow(f) \/ (stage = "build-data" /\ Chosen(f.shard, SlotOf(f)))
    /\ stage = "build-data" /\ Recording => Chosen(cur.shard, cur.slot)

PipelineInvariant == SafeInv /\ RowKinds /\ OrderInv /\ ParityLast /\ StageInv /\ RetryInv
==============================================================================
