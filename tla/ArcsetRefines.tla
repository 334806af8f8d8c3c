----------------------------- MODULE ArcsetRefines -----------------------------
(***************************************************************************)
(* The commands of Arcset, their crashes, retries and partial failures     *)
(* included, implement ArcsetSpec: a step of a command is a step of the    *)
(* abstract arcset or invisible to it.                                     *)
(***************************************************************************)
EXTENDS Arcset

Home(rs) ==
    [sh \in {r.shard : r \in DataRows(rs)} |->
        SlotOf(CHOOSE r \in DataRows(rs) : r.shard = sh)]

Abstract == INSTANCE ArcsetSpec WITH
    Shard    <- Shards,
    StripeOf <- StripeKey,
    status   <- IF arcset.status = "completed" THEN "completed" ELSE "open",
    home     <- Home(rows),
    shielded <- {st \in DataStripes(rows) : Protected(st)}

\* Seen from outside, append, build-data, make-ec and validate only ever reopen
\* the arcset, settle one shard in a free place while it is open, change the
\* shield of one stripe, or complete it with every stripe shielded.
ImplementsArcsetSpec == Abstract!Spec
==============================================================================
