------------------------------ MODULE CatalogInv -------------------------------
(***************************************************************************)
(* The inductive invariant behind the safety properties of Catalog and     *)
(* Mounts: what a command that has not finished relies on, and which other *)
(* commands the row locks and the router keep away meanwhile.              *)
(***************************************************************************)
EXTENDS Mounts

\* The commands the router serialises, and those of them that append.
Appending  == {"inherit", "lock"} \cup InTransaction
Exporting  == {"relations", "shards", "encode"}
Serialised == {"expand"} \cup Appending \cup Exporting

\* What is seen depends on the command: a configuration, datasets or a manifest.
ClientRow(seen) ==
    [pc : Mounting \cup Serialised, a : Arcsets \cup {None}, d : Datasets \cup {None},
     mp : Points \cup {None}, seen : {seen}, list : SUBSET Datasets, num : Nat]

\* Relations are of arcsets that exist, and so is what a command is at work on.
CatalogTypes ==
    /\ config \in [Datasets -> Configs]
    /\ arcs \in [Arcsets -> ArcsetRow \cup {None}]
    /\ rels \subseteq [arcset : Arcsets, ds : Datasets, order : Nat] /\ IsFiniteSet(rels)
    /\ \A r \in rels : Known(r.arcset)
    /\ DOMAIN manifest = Arcsets
    /\ DOMAIN client = Clients
    /\ \A c \in Clients :
         /\ client[c] \in ClientRow(client[c].seen)
         /\ client[c].pc \in Serialised => client[c].a \in Arcsets /\ Known(client[c].a)
         /\ client[c].pc \in Appending => client[c].d \in Datasets
         /\ client[c].pc \in {"expand", "inherit"} => client[c].seen \in Configs

\* The number of groups that expand, or append with the configuration, is about
\* to write fits the width.
WidthInv ==
    \A c \in Clients : client[c].pc \in {"expand", "inherit"} => FitsWidth(client[c].num)

\* One transaction per arcset row and per dataset row.
LockInv ==
    \A c, e \in Clients : c # e =>
        /\ \A a \in Arcsets : ~(LocksArcset(c, a) /\ LocksArcset(e, a))
        /\ \A d \in Datasets : ~(LocksRef(c, d) /\ LocksRef(e, d))

\* The order that append is about to insert is still the next one, and its
\* dataset has no relation yet.
InsertInv ==
    \A c \in Clients : At(c, "insert") =>
        LET a == client[c].a
        IN  /\ RelationsOf(client[c].d) = {}
            /\ {r.order : r \in Related(a)} = 0 .. client[c].num - 1
            /\ Cardinality(Related(a)) = client[c].num

\* What a serialised command has read of its arcset is still so.
Fresh(c) ==
    LET me == client[c]
    IN  /\ At(c, "expand")  => me.seen = arcs[me.a].meta /\ me.num >= arcs[me.a].groups
        /\ At(c, "inherit") => /\ me.seen = Merged(arcs[me.a].meta, me.d)
                               /\ Agrees(arcs[me.a].meta, me.d) /\ me.num = arcs[me.a].groups
        /\ me.pc \in {"lock"} \cup InTransaction => Shows(arcs[me.a].meta, me.d)
        /\ At(c, "shards")  => me.list = Listed(me.a)
        /\ At(c, "encode")  => me.seen.shards \subseteq me.seen.datasets

\* With a router, one serialised command per arcset.
RouterInv ==
    router =>
        /\ \A c, e \in Clients :
             (c # e /\ client[c].pc \in Serialised /\ client[e].pc \in Serialised)
                 => client[c].a # client[e].a
        /\ \A c \in Clients : Fresh(c)

\* A mount that is being prepared will have what was placed when it began, and
\* an index belongs to a process that serves.
Prepared(c) ==
    LET me == client[c]
    IN  /\ (me.pc \in {"add", "index", "mount"} /\ me.a # None) => me.seen \subseteq ShardsOf(me.a)
        /\ (me.pc = "mount" /\ me.a # None) => me.seen \subseteq me.list
        /\ index[c] # None => me.pc = "serve"

MountInv == \A c \in Clients : Prepared(c)

\* The inductive invariant of the catalogue theorems.
CatalogSafe ==
    /\ CatalogTypes
    /\ WidthInv /\ PartitionsNamed
    /\ LockInv /\ InsertInv /\ RelationsExact
    /\ RouterInv /\ ConfigAgrees /\ ManifestAttributed

\* The inductive invariant of the mount theorems.
MountsSafe ==
    /\ row \in [Points -> Clients \cup {None, Stale}]
    /\ DOMAIN index = Clients
    /\ MountInv /\ RecordsOwned /\ MountHoldsPlaced
==============================================================================
