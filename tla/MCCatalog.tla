------------------------------- MODULE MCCatalog -------------------------------
(***************************************************************************)
(* Two clients, two arcsets, two datasets of the same or of different      *)
(* configurations or one of them without, one mount point.                 *)
(***************************************************************************)
EXTENDS CatalogInv, TLC

CONSTANTS c1, c2, a1, a2, d1, d2

TwoKeys   == {"format", "shard_max_bytes"}
TwoValues == {"this", "that"}

Nothing == [k \in TwoKeys |-> None]
OneSet  == [Nothing EXCEPT !["shard_max_bytes"] = "this"]
Same    == [k \in TwoKeys |-> "this"]
Other   == [Same EXCEPT !["format"] = "that"]

\* The second dataset has the configuration of the first, one that differs in a key,
\* or none at all: its dataset create ended in the scan.
SomeCases ==
    {[d \in Datasets |-> IF d = first THEN Same ELSE second] :
        first \in Datasets, second \in {Same, Other, Nothing}}

SomePresets == {Nothing, OneSet}

Symmetry == Permutations(Clients) \cup Permutations(Datasets)

\* Bound: a behaviour with mounts has one arcset of one group, no exports, and
\* datasets of one configuration.
MountsApart ==
    \/ /\ \A p \in Points : row[p] = None /\ stack[p] = <<>>
       /\ \A c \in Clients : client[c].mp = None
    \/ /\ Cardinality({a \in Arcsets : Known(a)}) <= 1
       /\ \A d \in Datasets : config[d] = Same
       /\ \A a \in Arcsets : manifest[a] = None /\ (Known(a) => arcs[a].groups = 1)
       /\ \A c \in Clients : client[c].pc \notin {"expand", "relations"}

\* Bound: without a router the datasets have one configuration.
CasesRouted == router \/ \A d \in Datasets : config[d] = Same

\* Bound: an arcset that has been exported is not expanded.
ExpandsApart ==
    \A a \in Arcsets : manifest[a] # None =>
        /\ arcs[a].groups = 1
        /\ \A c \in Clients : client[c].a = a => client[c].pc # "expand"
==============================================================================
