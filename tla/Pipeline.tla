------------------------------- MODULE Pipeline -------------------------------
(***************************************************************************)
(* The arcset commands in the order a pipeline drives them                 *)
(* (examples/astro/full-pipeline.sh): append, build-data, make-ec,         *)
(* validate, one command at a time, for one dataset after another.  A      *)
(* command that ends with an error is called again, which is what the      *)
(* design documents ask of the scalebox router.  Only finitely many        *)
(* commands are killed or fail for a reason outside packfs.                *)
(***************************************************************************)
EXTENDS Arcset

CONSTANT MaxFaults  \* bound on crashes and I/O errors in one behaviour

ASSUME MaxFaultsAssumption == MaxFaults \in Nat

\* The script calls build-data without --dataset-uid.
ASSUME WholeBuildsAssumption == \A only \in BuildScopes : only = Datasets

VARIABLES stage,    \* the command the pipeline is at
          current,  \* the dataset it appends, builds and protects
          waiting,  \* datasets it has not come to yet
          faults    \* crashes and I/O errors so far

pvars == <<vars, stage, current, waiting, faults>>

PipelineInit ==
    /\ Init
    /\ stage = "append"
    /\ current \in Datasets
    /\ waiting = Datasets \ {current}
    /\ faults = 0

Goto(next) == stage' = next /\ UNCHANGED <<current, waiting, faults>>
Stay       == UNCHANGED <<stage, current, waiting, faults>>

\* append has returned once the SQLite is frozen; until then it is retried for
\* the same dataset.
AppendStage ==
    /\ stage = "append"
    /\ \/ AppendInherit(current) /\ Stay
       \/ (AppendRegister(current) \/ AppendKnown(current)) /\ Stay
       \/ AppendFreeze /\ Goto("build-data")

\* A retried build-data starts over and skips what has its row.
BuildStage ==
    /\ stage = "build-data"
    /\ BuildStep
    /\ IF Running("build-data", "place") /\ Pending = {} THEN Goto("make-ec") ELSE Stay

MakeECStage ==
    /\ stage = "make-ec"
    /\ MakeECStep
    /\ IF arcset'.status = "completed" THEN Goto("validate") ELSE Stay

ValidateStage ==
    /\ stage = "validate"
    /\ op = Idle
    /\ \/ ValidateRead("all") /\ Stay
       \/ ValidatePasses /\ Stay
       \/ ValidateWrite /\ Goto("next")

\* The next dataset, or the end of the script.
NextDataset ==
    /\ stage = "next"
    /\ \/ /\ waiting = {}
          /\ stage' = "done"
          /\ UNCHANGED <<current, waiting>>
       \/ /\ current' \in waiting
          /\ waiting' = waiting \ {current'}
          /\ stage' = "append"
    /\ UNCHANGED <<vars, faults>>

Failure ==
    /\ faults < MaxFaults
    /\ Fault \/ ValidateFails
    /\ faults' = faults + 1
    /\ UNCHANGED <<stage, current, waiting>>

Drive == AppendStage \/ BuildStage \/ MakeECStage \/ ValidateStage \/ NextDataset

PipelineSpec == PipelineInit /\ [][Drive \/ Failure]_pvars /\ WF_pvars(Drive)

\* However the commands are interrupted, in the middle of a move, of a parity
\* rename or between two statements, calling the failed one again leads to the
\* state the pipeline is for: every dataset in the arcset, every shard placed
\* and protected, the arcset completed and, at the end, validated.
PipelineCompletes ==
    <>[](/\ stage = "done"
         /\ arcset.status = "completed" /\ ~arcset.degraded
         /\ \A d \in Datasets : Registered(d) /\ d \in frozen
         /\ \A sh \in Shards : Placed(sh) /\ sh \notin source
         /\ \A st \in DataStripes(rows) : Protected(st))

\* Once build-data has succeeded no shard has a second copy or a stray one, until
\* the next build-data: each DATA file of the arcset is the one its row names.
NoStrayFiles ==
    stage # "build-data" =>
        \A f \in target : \E r \in DataRows(rows) : r.shard = f.shard /\ SlotOf(r) = SlotOf(f)
==============================================================================
