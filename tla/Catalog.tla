-------------------------------- MODULE Catalog --------------------------------
(***************************************************************************)
(* The PostgreSQL catalogue of all arcsets, as concurrent commands of the  *)
(* CLI and of the API server see it: arcset create, append, expand and     *)
(* export (internal/arcsetops, arcset/store_pg.go, internal/export), one   *)
(* action per SQL statement that others can observe, with the row locks of *)
(* the append transaction.  What the commands do to shards is in Arcset;   *)
(* here a dataset is placed or not.                                        *)
(*                                                                         *)
(* The design leaves it to the scalebox router to call the commands of one *)
(* arcset one after the other; commands of different arcsets, validate and *)
(* mounts still overlap, and without a router so does everything.          *)
(***************************************************************************)
EXTENDS Naturals, FiniteSets

CONSTANTS Clients,       \* packfs processes and API requests
          Arcsets,       \* names
          Datasets,      \* built datasets
          Keys,          \* format, compress, shard_max_bytes: the keys compared
          Values,
          Cases,         \* bound: the configurations of all datasets considered
          Presets,       \* what arcset create may set of the keys
          Focus,         \* bound: the arcsets that are expanded, exported or preset
          Total,         \* k + m
          MaxPartitions,\* 10^partition_width - 1
          None

\* The part of a metadata object that append compares; a key may be missing.
Configs == [Keys -> Values \cup {None}]

ArcsetRow == [status : {"defined", "building", "completed"}, phase : {"none", "data", "ec"},
              meta : Configs, groups : Nat]

ASSUME CatalogAssumption ==
    /\ Total \in Nat \ {0} /\ MaxPartitions \in Nat
    /\ Focus \subseteq Arcsets
    /\ Cases \subseteq [Datasets -> Configs] /\ Presets \subseteq Configs
    /\ None \notin Values /\ None \notin ArcsetRow

VARIABLES
    router,    \* whether the commands of an arcset are serialised
    config,    \* what each dataset has of the keys when it is appended, and after
    arcs,      \* t_arcset: status, phase and, of the metadata, the keys and groups
    rels,      \* r_arcset_dataset_ref: [arcset, ds, order]
    placed,    \* datasets that have their DATA rows in t_shard
    manifest,  \* arcset.json of each arcset
    client

cvars == <<router, config, arcs, rels, placed, manifest, client>>
world == <<router, config>>

Torn == [datasets |-> {}, shards |-> {None}]
Gone == [pc |-> "idle", a |-> None, d |-> None, mp |-> None,
         seen |-> None, list |-> {}, num |-> 0]

CatalogInit ==
    /\ router \in BOOLEAN
    /\ config \in Cases
    /\ arcs = [a \in Arcsets |-> None]
    /\ rels = {}
    /\ placed = {}
    /\ manifest = [a \in Arcsets |-> None]
    /\ client = [c \in Clients |-> Gone]

At(c, pc) == client[c].pc = pc
Go(c, pc) == client' = [client EXCEPT ![c].pc = pc]
Quit(c)   == client' = [client EXCEPT ![c] = Gone]
Begin(c, how) == At(c, "idle") /\ client' = [client EXCEPT ![c] = how]

\* Client c is at work on arcset a with a command the router serialises.
Mounting == {"idle", "add", "index", "mount", "serve", "clean", "forget"}
Free(a)  == router => \A c \in Clients : client[c].a = a => client[c].pc \in Mounting

Known(a)   == arcs[a] # None
Related(a) == {r \in rels : r.arcset = a}

(***************************************************************************)
(* Create and expand                                                       *)
(***************************************************************************)

\* Mutant of FitsWidth: only the groups before the last one are counted.
FitsButLast(groups) == (groups - 1) * Total <= MaxPartitions

FitsWidth(groups) == groups * Total <= MaxPartitions

\* The name is unique; --shard-max-bytes sets one of the keys.
Create(c, a, groups, preset) ==
    /\ At(c, "idle") /\ ~Known(a) /\ groups > 0 /\ FitsWidth(groups)
    /\ a \in Focus \/ (groups = 1 /\ \A k \in Keys : preset[k] = None)
    /\ arcs' = [arcs EXCEPT ![a] = [status |-> "defined", phase |-> "none",
                                    meta |-> preset, groups |-> groups]]
    /\ UNCHANGED <<world, rels, placed, manifest, client>>

\* POST /api/arcsets: without a number of groups, one.
ApiCreate(c, a, groups, preset) == Create(c, a, IF groups = 0 THEN 1 ELSE groups, preset)

\* Mutant of Grown: add-groups taken for the new number of groups.
GrownTo(groups, add) == add

Grown(groups, add) == groups + add

ExpandRead(c, a, add) ==
    /\ Free(a) /\ Known(a) /\ add > 0
    /\ FitsWidth(Grown(arcs[a].groups, add))
    /\ Begin(c, [Gone EXCEPT !.pc = "expand", !.a = a, !.seen = arcs[a].meta,
                             !.num = Grown(arcs[a].groups, add)])
    /\ UNCHANGED <<world, arcs, rels, placed, manifest>>

\* A transaction holds the row of its arcset from its first statement, that of
\* its dataset from the second.
InTransaction == {"ref", "lookup", "insert"}
LocksArcset(c, a) == client[c].pc \in InTransaction /\ client[c].a = a
LocksRef(c, d)    == client[c].pc \in InTransaction \ {"ref"} /\ client[c].d = d
ArcsetLocked(a)   == \E c \in Clients : LocksArcset(c, a)
RefLocked(d)      == \E c \in Clients : LocksRef(c, d)

\* UpdateMetadata writes the whole metadata object.
UpdateMetadata(a, meta, groups) ==
    /\ ~ArcsetLocked(a)
    /\ arcs' = [arcs EXCEPT ![a].meta = meta, ![a].groups = groups]

ExpandWrite(c) ==
    /\ At(c, "expand")
    /\ UpdateMetadata(client[c].a, client[c].seen, client[c].num)
    /\ Quit(c)
    /\ UNCHANGED <<world, rels, placed, manifest>>

(***************************************************************************)
(* Append                                                                  *)
(***************************************************************************)

\* Mutant of Agrees: the configuration is not compared.
AgreesAlways(meta, d) == TRUE

\* Key by key; one that the arcset or the dataset does not have is passed over.
Agrees(meta, d) == \A k \in Keys : meta[k] = None \/ config[d][k] \in {None, meta[k]}

\* The arcset takes the keys it does not have.
Merged(meta, d) == [k \in Keys |-> IF meta[k] = None THEN config[d][k] ELSE meta[k]]

\* FindByID, and inheritConfig up to its write.
AppendRead(c, a, d) ==
    LET meta == arcs[a].meta
        new  == Merged(meta, d)
        mine == [Gone EXCEPT !.a = a, !.d = d]
    IN  /\ Free(a) /\ Known(a) /\ Agrees(meta, d)
        /\ Begin(c, IF new = meta THEN [mine EXCEPT !.pc = "lock"]
                    ELSE [mine EXCEPT !.pc = "inherit", !.seen = new, !.num = arcs[a].groups])
        /\ UNCHANGED <<world, arcs, rels, placed, manifest>>

\* Written before AppendDataset can still refuse the dataset.
AppendInherit(c) ==
    /\ At(c, "inherit")
    /\ UpdateMetadata(client[c].a, client[c].seen, client[c].num)
    /\ client' = [client EXCEPT ![c].pc = "lock", ![c].seen = None, ![c].num = 0]
    /\ UNCHANGED <<world, rels, placed, manifest>>

\* Mutant of MayLock: SELECT without FOR UPDATE.
NoLock(a) == TRUE

\* SELECT ... FOR UPDATE.
MayLock(a) == ~ArcsetLocked(a)

AppendLock(c) ==
    /\ At(c, "lock") /\ MayLock(client[c].a)
    /\ IF arcs[client[c].a].phase = "ec" THEN Quit(c) ELSE Go(c, "ref")
    /\ UNCHANGED <<world, arcs, rels, placed, manifest>>

\* INSERT ... ON CONFLICT (uid) DO UPDATE.
AppendRef(c) ==
    /\ At(c, "ref") /\ ~RefLocked(client[c].d)
    /\ Go(c, "lookup")
    /\ UNCHANGED <<world, arcs, rels, placed, manifest>>

RelationsOf(d) == {r \in rels : r.ds = d}

\* COALESCE(MAX(append_order), -1) + 1
NextOrder(a) == CHOOSE n \in 0 .. Cardinality(rels) :
                   /\ \A r \in Related(a) : r.order < n
                   /\ n = 0 \/ \E r \in Related(a) : r.order = n - 1

\* A dataset that is registered, here or in another arcset, changes nothing;
\* another gets the next order.
AppendLookup(c) ==
    LET a == client[c].a
        d == client[c].d
    IN  /\ At(c, "lookup")
        /\ IF RelationsOf(d) # {} THEN Quit(c)
           ELSE client' = [client EXCEPT ![c].pc = "insert", ![c].num = NextOrder(a)]
        /\ UNCHANGED <<world, arcs, rels, placed, manifest>>

\* The relation and the status, committed together; then the SQLite file is
\* frozen (see Arcset).
AppendCommit(c) ==
    LET a == client[c].a
    IN  /\ At(c, "insert")
        /\ rels' = rels \cup {[arcset |-> a, ds |-> client[c].d, order |-> client[c].num]}
        /\ arcs' = [arcs EXCEPT ![a].status = "building", ![a].phase = "data"]
        /\ Quit(c)
        /\ UNCHANGED <<world, placed, manifest>>

(***************************************************************************)
(* build-data, make-ec and validate, in what the catalogue shows of them   *)
(***************************************************************************)

SetState(a, status, phase) ==
    ~ArcsetLocked(a) /\ arcs' = [arcs EXCEPT ![a].status = status, ![a].phase = phase]

BuildData(a) ==
    /\ Free(a) /\ Known(a) /\ arcs[a].status = "building" /\ arcs[a].phase = "data"
    /\ placed' = placed \cup {r.ds : r \in Related(a)}
    /\ UNCHANGED <<world, arcs, rels, manifest, client>>

MakeEC(a) ==
    /\ Free(a) /\ Known(a) /\ arcs[a].status = "building"
    /\ SetState(a, "building", "ec") \/ SetState(a, "completed", "none")
    /\ UNCHANGED <<world, rels, placed, manifest, client>>

\* Not serialised, and without a look at the status.
Validate(a) ==
    /\ Known(a)
    /\ SetState(a, "completed", "none")
    /\ UNCHANGED <<world, rels, placed, manifest, client>>

(***************************************************************************)
(* Export: the row, the relations, the shards, then the file in place      *)
(***************************************************************************)

ExportFind(c, a) ==
    /\ Free(a) /\ Known(a) /\ arcs[a].status = "completed"
    /\ Begin(c, [Gone EXCEPT !.pc = "relations", !.a = a])
    /\ UNCHANGED <<world, arcs, rels, placed, manifest>>

\* Mutant of Listed: the relation with append_order 0 is left out.
ListedAfterFirst(a) == {r.ds : r \in {q \in Related(a) : q.order > 0}}

\* ListRelations and, of the rows of ListShards, the datasets they belong to.
Listed(a) == {r.ds : r \in Related(a)}

\* Mutant of ShardsOf: the rows of every arcset.
ShardsOfAll(a) == placed

ShardsOf(a) == {r.ds : r \in {q \in Related(a) : q.ds \in placed}}

ExportRelations(c) ==
    /\ At(c, "relations")
    /\ client' = [client EXCEPT ![c].pc = "shards", ![c].list = Listed(client[c].a)]
    /\ UNCHANGED <<world, arcs, rels, placed, manifest>>

\* ListShards; os.Create truncates the manifest of the last export.
ExportShards(c) ==
    LET a == client[c].a
        me == client[c]
    IN  /\ At(c, "shards")
        /\ client' = [client EXCEPT ![c].pc = "encode", ![c].list = {},
                        ![c].seen = [datasets |-> me.list, shards |-> ShardsOf(a)]]
        /\ manifest' = [manifest EXCEPT ![a] = Torn]
        /\ UNCHANGED <<world, arcs, rels, placed>>

ExportEncode(c) ==
    /\ At(c, "encode")
    /\ manifest' = [manifest EXCEPT ![client[c].a] = client[c].seen]
    /\ Quit(c)
    /\ UNCHANGED <<world, arcs, rels, placed>>

(***************************************************************************)

Command(c) ==
    \/ \E a \in Arcsets :
          \/ \E groups \in 0 .. MaxPartitions, preset \in Presets :
                Create(c, a, groups, preset) \/ ApiCreate(c, a, groups, preset)
          \/ \E d \in Datasets : AppendRead(c, a, d)
    \/ \E a \in Focus :
          \/ \E add \in 0 .. MaxPartitions : ExpandRead(c, a, add)
          \/ ExportFind(c, a)
    \/ ExpandWrite(c)
    \/ AppendInherit(c) \/ AppendLock(c) \/ AppendRef(c) \/ AppendLookup(c)
    \/ AppendCommit(c)
    \/ ExportRelations(c) \/ ExportShards(c) \/ ExportEncode(c)

\* The process or the request ends: an open transaction is rolled back.
Die(c) ==
    /\ client[c].pc \notin Mounting
    /\ Quit(c)
    /\ UNCHANGED <<world, arcs, rels, placed, manifest>>

CatalogNext ==
    \/ \E c \in Clients : Command(c) \/ Die(c)
    \/ \E a \in Arcsets : BuildData(a) \/ MakeEC(a) \/ Validate(a)

(***************************************************************************)
(* Properties                                                              *)
(***************************************************************************)

\* Whatever overlaps, with a router or without, the transactions leave every
\* arcset with the orders 0 .. n-1, each once, and every dataset in one arcset:
\* no insert runs into a unique index.
RelationsExact ==
    /\ \A a \in Arcsets : {r.order : r \in Related(a)} = 0 .. Cardinality(Related(a)) - 1
    /\ \A r, q \in rels : r.ds = q.ds => r = q

\* The arcset shows what the dataset has.
Shows(meta, d) == \A k \in Keys : config[d][k] \in {None, meta[k]}

\* When the router serialises the commands of an arcset, the arcset shows every key
\* that any of its datasets has, with its value, also after commands that died
\* halfway: no two of its datasets have different values.
ConfigAgrees ==
    router => \A r \in rels : Shows(arcs[r.arcset].meta, r.ds)

\* Partition numbers fit the width of their names after any create and expand,
\* serialised or not.
PartitionsNamed ==
    \A a \in Arcsets : Known(a) => arcs[a].groups * Total <= MaxPartitions

\* With a router no group is lost: append and expand each write the whole
\* metadata back, and neither undoes the other.
GroupsKept ==
    [][router => \A a \in Arcsets : Known(a) => arcs'[a].groups >= arcs[a].groups]_cvars

\* With a router every shard of a manifest has its dataset in it, although the
\* two are read one after the other.
ManifestAttributed ==
    router => \A a \in Arcsets :
        manifest[a] \notin {None, Torn} => manifest[a].shards \subseteq manifest[a].datasets
==============================================================================
