------------------------------ MODULE ArcsetSpec ------------------------------
(***************************************************************************)
(* What an arcset promises to those who export it, without commands, rows, *)
(* files or crashes: every DATA shard gets a home once and keeps it, the   *)
(* content changes only while the arcset is open, and completed means that *)
(* the stripe of every shard is shielded, i.e. survives the loss of any m  *)
(* of its files.                                                           *)
(***************************************************************************)
CONSTANTS Shard,         \* the DATA shards of the datasets
          StripeOf(_)    \* the stripe a place belongs to

VARIABLES status,        \* "open" or "completed"
          home,          \* the place of every shard that has one
          shielded       \* the stripes with data whose redundancy is intact

vars == <<status, home, shielded>>

Init == status = "open" /\ home = [sh \in {} |-> {}] /\ shielded = {}

\* A dataset is appended: the arcset opens (again), its content is untouched.
Reopen == status' = "open" /\ UNCHANGED <<home, shielded>>

\* A shard gets a free place; only the shield of that place's stripe changes.
Settle(sh, place) ==
    /\ status = "open"
    /\ sh \notin DOMAIN home
    /\ \A other \in DOMAIN home : home[other] # place
    /\ home' = [x \in DOMAIN home \cup {sh} |-> IF x = sh THEN place ELSE home[x]]
    /\ shielded' \ {StripeOf(place)} = shielded \ {StripeOf(place)}
    /\ UNCHANGED status

\* One stripe is being encoded: its shield comes, or goes for a while.
Encode(st) ==
    /\ status = "open"
    /\ shielded' \ {st} = shielded \ {st}
    /\ UNCHANGED <<status, home>>

Complete ==
    /\ status = "open"
    /\ \A sh \in DOMAIN home : StripeOf(home[sh]) \in shielded
    /\ status' = "completed"
    /\ UNCHANGED <<home, shielded>>

\* The new place is read off home', which a step fixes.
Next ==
    \/ Reopen
    \/ \E sh \in Shard \cap DOMAIN home' : Settle(sh, home'[sh])
    \/ \E sh \in DOMAIN home : Encode(StripeOf(home[sh]))
    \/ Complete

Spec == Init /\ [][Next]_vars
==============================================================================
