----------------------------- MODULE ArcsetClaims -----------------------------
(***************************************************************************)
(* What the design documents say of an arcset and the code does not keep.  *)
(* Each formula states one sentence of docs/design; a run of its own shows *)
(* how Arcset, which follows the code, comes to violate it.                *)
(***************************************************************************)
EXTENDS Arcset

\* commands-db 2.4: make-ec requires that every DATA shard of every registered
\* dataset has its row, and completes only then.
CompletedHasAllData ==
    arcset.status = "completed" =>
        \A sh \in Shards : Registered(sh.dataset) => Placed(sh)

\* commands-db 2.3: on a retry after a crash the target path is determined, so
\* the file the first attempt moved is found again.
RetryTargetDetermined == RetryFindsShard
==============================================================================
