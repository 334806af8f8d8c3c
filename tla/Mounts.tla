--------------------------------- MODULE Mounts ---------------------------------
(***************************************************************************)
(* FUSE mounts beside the catalogue: packfs fs mount and fs umount         *)
(* (cmd/cli/fs/fs.go), the rows of t_fs_mount (arcset/store_pg_mount.go),  *)
(* DELETE /api/fs/mounts, and the index an arcset mount reads once         *)
(* (fuse/arcset.go).  A server is the process that mounted.                *)
(***************************************************************************)
EXTENDS Catalog, SequencesExt

CONSTANTS Points,       \* mount points
          MaxStack,     \* bound: mounts on top of each other
          ApiDeletes    \* bound: whether records are deleted through the API

Stale == "stale"

ASSUME MountsAssumption == None \notin Clients /\ Stale \notin Clients

VARIABLES
    row,       \* t_fs_mount: the process whose record a mount point has, or None
    stack,     \* the kernel: mounts of each point, the last one on top
    index      \* of each serving process: [a, listed, readable]

mvars == <<cvars, row, stack, index>>

MountsInit ==
    /\ CatalogInit
    /\ row = [p \in Points |-> None]
    /\ stack = [p \in Points |-> <<>>]
    /\ index = [c \in Clients |-> None]

CatalogKept == UNCHANGED <<world, arcs, rels, placed, manifest>>

\* The mount that is seen at p.
Top(p) == IF stack[p] = <<>> THEN None ELSE Last(stack[p])

\* A mount point whose server is dead cannot even be looked at (MkdirAll).
Usable(p) == Top(p) # Stale

Absorbed(d) == RelationsOf(d) # {}

MountDataset(c, p, d) ==
    /\ Usable(p) /\ ~Absorbed(d)
    /\ Begin(c, [Gone EXCEPT !.pc = "add", !.mp = p, !.d = d])
    /\ CatalogKept /\ UNCHANGED <<row, stack, index>>

\* seen: the datasets that are placed when the command begins.
MountArcset(c, p, a) ==
    /\ Usable(p) /\ Known(a)
    /\ Begin(c, [Gone EXCEPT !.pc = "add", !.mp = p, !.a = a, !.seen = ShardsOf(a)])
    /\ CatalogKept /\ UNCHANGED <<row, stack, index>>

Record(p, r) == row' = [row EXCEPT ![p] = r]

\* AddMount; the mount point is unique.
MountAdd(c) ==
    LET p == client[c].mp
    IN  /\ At(c, "add")
        /\ IF row[p] # None THEN Quit(c) /\ UNCHANGED row
           ELSE Record(p, c) /\ Go(c, IF client[c].a = None THEN "mount" ELSE "index")
        /\ CatalogKept /\ UNCHANGED <<stack, index>>

\* BuildArcsetIndex: the relations, then the shards.
MountIndex(c) ==
    /\ At(c, "index")
    /\ client' = [client EXCEPT ![c].pc = "mount", ![c].list = Listed(client[c].a)]
    /\ CatalogKept /\ UNCHANGED <<row, stack, index>>

\* A dataset of the index whose shards have no rows is listed without paths.
ReadIndex(c) ==
    LET me == client[c]
    IN  IF me.a = None THEN [a |-> None, listed |-> {me.d}, readable |-> {me.d}]
        ELSE [a |-> me.a, listed |-> me.list, readable |-> me.list \cap ShardsOf(me.a)]

\* fs.Mount, on top of what is there if its server lives.
MountServe(c) ==
    LET p == client[c].mp
    IN  /\ At(c, "mount") /\ ReadIndex(c).listed # {}
        /\ Usable(p) /\ Len(stack[p]) < MaxStack
        /\ index' = [index EXCEPT ![c] = ReadIndex(c)]
        /\ stack' = [stack EXCEPT ![p] = Append(@, c)]
        /\ Go(c, "serve")
        /\ CatalogKept /\ UNCHANGED row

\* Mutant of OnFailure: the record is not cleaned up.
OnFailureNothing(p) == UNCHANGED row

OnFailure(p) == Record(p, None)

\* No files, an SQLite file or a table that cannot be read, or fs.Mount fails.  The
\* error is in a shadowed variable, so the code goes on without a server, panics in
\* Wait, and the deferred DeleteMount removes the record.
MountFails(c) ==
    /\ client[c].pc \in {"index", "mount"}
    /\ OnFailure(client[c].mp)
    /\ Quit(c)
    /\ CatalogKept /\ UNCHANGED <<stack, index>>

\* fusermount -u takes away the top mount; its server, if it lives, comes back
\* from Wait.
Pop(p, then) ==
    /\ stack[p] # <<>>
    /\ stack' = [stack EXCEPT ![p] = Front(@)]
    /\ client' = [c \in Clients |-> IF c = Top(p) THEN [client[c] EXCEPT !.pc = "clean"]
                                    ELSE then[c]]
    /\ index' = [c \in Clients |-> IF c = Top(p) THEN None ELSE index[c]]

\* SIGINT or SIGTERM of a mount process.
Signal(c) ==
    /\ At(c, "serve")
    /\ Pop(client[c].mp, client)
    /\ CatalogKept /\ UNCHANGED row

\* The deferred DeleteMount, by mount point.
MountClean(c) ==
    /\ At(c, "clean")
    /\ Record(client[c].mp, None)
    /\ Quit(c)
    /\ CatalogKept /\ UNCHANGED <<stack, index>>

\* packfs fs umount: the kernel, then the record.
Umount(c, p) ==
    /\ At(c, "idle")
    /\ Pop(p, [client EXCEPT ![c] = [Gone EXCEPT !.pc = "forget", !.mp = p]])
    /\ CatalogKept /\ UNCHANGED row

Forget(c) ==
    /\ At(c, "forget")
    /\ Record(client[c].mp, None)
    /\ Quit(c)
    /\ CatalogKept /\ UNCHANGED <<stack, index>>

DeleteMount(p) ==
    /\ ApiDeletes /\ row[p] # None
    /\ Record(p, None)
    /\ CatalogKept /\ UNCHANGED <<client, stack, index>>

\* The record stays, and the mount without a server.
MountDies(c) ==
    /\ client[c].pc \in Mounting \ {"idle"}
    /\ Quit(c)
    /\ row' = [p \in Points |-> IF row[p] = c THEN Stale ELSE row[p]]
    /\ stack' = [p \in Points |-> [i \in DOMAIN stack[p] |->
                    IF stack[p][i] = c THEN Stale ELSE stack[p][i]]]
    /\ index' = [index EXCEPT ![c] = None]
    /\ CatalogKept

MountNext ==
    \/ \E p \in Points :
          \/ \E c \in Clients : \/ \E d \in Datasets : MountDataset(c, p, d)
                                \/ \E a \in Arcsets : MountArcset(c, p, a)
                                \/ Umount(c, p)
          \/ DeleteMount(p)
    \/ \E c \in Clients :
          \/ MountAdd(c) \/ MountIndex(c) \/ MountServe(c) \/ MountFails(c)
          \/ Signal(c) \/ MountClean(c) \/ Forget(c) \/ MountDies(c)

Next == \/ CatalogNext /\ UNCHANGED <<row, stack, index>>
        \/ MountNext

Spec == MountsInit /\ [][Next]_mvars

(***************************************************************************)
(* Properties                                                              *)
(***************************************************************************)

\* A record belongs to a process that is mounting or serving, or that was
\* killed: whatever fails, races or unmounts, no process that ends by itself
\* leaves a record that keeps its mount point from being used again.
RecordsOwned ==
    \A p \in Points : row[p] \in Clients =>
        /\ client[row[p]].mp = p
        /\ client[row[p]].pc \in {"index", "mount", "serve", "clean"}

\* The index of an arcset mount is read once, relations before shards, while
\* appends and builds go on: it has every dataset that was placed when the
\* command began, with its paths.
MountHoldsPlaced ==
    \A c \in Clients : index[c] # None /\ index[c].a # None =>
        /\ client[c].seen \subseteq index[c].readable
        /\ index[c].readable \subseteq ShardsOf(index[c].a)
=============================================================================
