# A verification project for packfs

packfs packs the files of astronomical datasets into shards, collects the
shards of several datasets in an *arcset*, lays them out over partition
directories in stripes of k data and m parity files, and keeps the index of all
that in one SQLite file per dataset and in PostgreSQL (PG).  This directory
holds TLA+ models of that program, what TLC finds when it checks them on small
instances, and theorems, checked by TLAPS, that hold for every k, m, layout,
capacity and every set of files, datasets, arcsets and clients: about the arcset
commands, the abstract arcset they implement, recover, the pipeline, the catalogue,
mounts, and a dataset from its definitions to the bytes it gives back.

The models follow the Go source at one commit.  A path without a directory,
such as `build.go`, is one of the files of the inventory below.

## 1. Inventory

| component | source | state | operations | what is hard | model |
|---|---|---|---|---|---|
| dataset and shard making | `internal/dataset`, `internal/datasetops`, `internal/shard` | dataset SQLite (files, shards, segments, configuration), shard files | create, scan, build, shard make, mark-built | parallel makers, MAX + 1 numbers, crashes between file, row and segments, retries | `Dataset` |
| shard definitions | `gen_def.go`, `internal/shard/def.go` | none (pure) | pack files into shards, split large files | off-by-one at `shard_max_bytes`, offsets | `Packing` |
| shard files, unpack | `make_bin.go`, `make_tar.go`, `make_iso.go`, `internal/shard/unpack.go`, `cmd/cli/shard/unpack.go` | shard files | write, record segments, unpack with and without the database | three formats with three meanings of an offset | `Packing` |
| shard order | `sortShards`, `compareKeys` of `build.go` | none (pure) | sort by captured keys | numbers against texts, ties | `ShardOrder` |
| arcset commands | `internal/arcsetops`, `internal/builddata/build.go`, `internal/makeec/makeec.go`, `internal/validate/validate.go`, `internal/arcset/store_pg*.go` | rows of `t_arcset`, `r_arcset_dataset_ref`, `t_shard`; DATA, PAD and EC files; the mode of the dataset SQLite | create, append, expand, build-data, make-ec, validate | a command is a sequence of autocommitted SQL statements and renames; it may die between any two and is called again; stripe workers run in parallel | `Arcset`; several arcsets and overlapping clients in `Catalog` |
| shard placement | `placementState` of `build.go` | derived from `t_shard` | place: a PAD, else a hole, else a new stripe | capacity boundary, refills, rotation of raid5, repeatable choice | `Placement` |
| pipeline driver | `examples/astro/full-pipeline.sh`, the router of the design documents | position in the script | append, build-data, make-ec, validate for one dataset after another, retries | faults anywhere | `Pipeline` |
| recover | `internal/recoverec/recover.go`, `ec.ReconstructStripeStreaming` | files, `health`, `parity_degraded` | rebuild the missing files of a stripe | files of two generations, renames before the checksum, several losses | `Recover` |
| Reed-Solomon streaming | `internal/ec` | temporaries, EC files | encode, verify, reconstruct | partial renames, padding | what it does to files in `Arcset` and `Recover` |
| export | `internal/export` | `arcset.json` | export of a completed arcset | three reads without a transaction, file written in place | `Catalog` |
| mounts, FUSE | `cmd/cli/fs/fs.go`, `internal/fuse`, `store_pg_mount.go` | `t_fs_mount`, kernel mounts, the index in memory | mount, umount, read | failures half way, stale index, records against mounts | `Mounts`; reads in `Packing` |
| API, command line | `internal/api`, `cmd` | – | defaults and checks around the packages above | requests and processes overlap | clients of `Catalog` and `Dataset`; partly |
| web UI, simulate, legacy SQLite stores | `webui`, `internal/simulate`, `store_sqlite.go`, `make_ec.go` | – | – | – | not modelled |

**How the components interact.**  Commands do not call each other; they meet in
the tables and in the directories.  A dataset is created, its shards are made by
one build or by many `shard make` processes, and it is marked built.  `append`
registers it with an arcset, freezes its SQLite and makes the arcset
building/data; `build-data` takes its shards in their logical order, moves them
into partition directories and writes DATA rows; `make-ec` reads DATA rows,
writes EC and PAD files and rows, and completes the arcset; `validate` reads
everything and may complete it as well; `recover` rewrites files; `export`,
mounts and the API read.  The documents (`storage-architecture.md:144`,
`packaging.md:60`, `commands-db.md:325`) make the scalebox router serialise
append, build-data, make-ec, expand, recover and export of one arcset; validate
is not in that list.  packfs itself takes no lock, except that `AppendDataset` is
one transaction with the arcset row `FOR UPDATE`.

**What makes them correct.**  Of shard making: every byte of every file is in one
shard and comes back; the numbers by which PG knows shards are contiguous and
never change.  Of the commands: no shard is lost or stored under two names; a
row says where the file is; no unique index is ever hit; parity that is visible
in PG agrees with the data; `completed` means recoverable; partitions keep their
capacity; a shard keeps its place; every retry gets further.  Of recover: what a
completed arcset holds survives every loss it is made for.  Of the catalogue:
orders, configurations and group counts survive overlap and crashes; a manifest
fits.  Of mounts: records belong to somebody, an index is complete.
`PROJECT.json` lists the hazards at their lines, with the properties that would
notice, or why none does; those left to a sentence are in section 4 and 8.

## 2. Plan

Done: 1. `Placement`, `Arcset`, `Pipeline`; 2. `ArcsetSpec` and the refinement;
3. `Recover`; 4. `Packing`, `ShardOrder` and `Dataset`; 5. `Catalog` with export;
6. `Mounts`; 7. the theorems of section 6 about the commands, the refinement, the
order of stripes, the capacity and what is shown of them; 8. those about `Catalog` and
`Mounts`; 9. `Dataset`: its numbers and the order of its shards; 10. `Recover`; 11. `Pipeline`;
12. `Packing` and with it the rest of `Dataset`: its definitions, and that it gives its files
back.  Every invariant and every action property of the passing runs is a theorem.

Beyond that: files of a dataset that are split (no property to prove while no writer
uses the offset, section 7), and a composition of `Dataset` with the pipeline.

## 3. The modules

| module | role |
|---|---|
| `Placement` | partition arithmetic and the choice of a slot, as operators over the set of rows |
| `Arcset` | the state machine of the arcset commands; type invariant, safety and liveness properties |
| `ArcsetSpec`, `ArcsetRefines` | the abstract arcset and the mapping under which `Arcset` implements it |
| `ArcsetReports` | the stripe counts of `arcset show` and the plan of the API, over the rows of `Arcset` |
| `ArcsetClaims` | sentences of the design documents that the code does not keep |
| `Pipeline` | the commands in the script's order with retries; EXTENDS `Arcset` |
| `Recover` | media losses and the recover command; EXTENDS `Arcset` |
| `Packing` | shard definitions, shard files, unpacking and FUSE reads, as operators |
| `ShardOrder` | compareKeys and the stable sort of build-data, as operators |
| `Order` | what ORDER BY and sort.Slice yield for a finite set, as an operator |
| `Dataset` | the life of a dataset SQLite; EXTENDS `Packing`, `ShardOrder` and `Order` |
| `Catalog` | create, append, expand, export and the effects of the others on several arcsets, by overlapping clients |
| `Mounts` | mounts beside the catalogue; EXTENDS `Catalog` |
| `MCArcset`, `MCPipeline`, `MCRecover`, `MCDataset`, `MCCatalog` | instances for TLC |
| `OrderProofs` | lemmas for all proofs: least elements, sorted sets, folds |
| `ArcsetInv`, `ArcsetSafety` | the inductive invariants of `Arcset`; lemmas on the arithmetic and on sums, and the proofs |
| `ArcsetRefinement` | proofs of what others rely on: the refinement, the counts and the plan that are shown |
| `CatalogInv`, `CatalogProofs` | the inductive invariants of `Catalog` and `Mounts`, the proofs |
| `PackingProofs` | what the operators of `Packing` compute: the definitions hold every byte, whole files come back |
| `DatasetInv`, `DatasetProofs` | the inductive invariants of `Dataset`: numbers and names, what the scan has read, what the shards contain; the proofs |
| `RecoverInv`, `RecoverProofs` | the inductive invariant of `Recover`, the proofs |
| `PipelineInv`, `PipelineProofs` | the inductive invariant of `Pipeline`, the proofs |

### Arcset

| variable | code |
|---|---|
| `arcset` | the `t_arcset` row: status, build_phase, parity_degraded, `metadata.group_count`, and the inherited format/compress/shard_max_bytes as one value `config`, or None (`Catalog` has the keys one by one) |
| `rels` | `r_arcset_dataset_ref` in `append_order` |
| `rows` | `t_shard`: group, stripe_seq, pos, partition, type, shard, file_size, and `metadata.padded_size` |
| `frozen` | datasets whose SQLite was made read-only |
| `source`, `target`, `pads`, `parity` | files: shards still in the dataset, DATA files in the arcset, PAD files, EC files |
| `op`, `cur`, `work` | the running command and its program point, the placement `place` is carrying out, the stripe workers of make-ec |
| `val` | a running validate with the rows and relations it has read |

A path is its slot: the partition and the number in a file name are functions
of (group, stripe, pos), and DATA, PAD and EC files have different names.  A
DATA file is the shard it holds, so "exists with the right checksum" is "the
pair (shard, slot) is in `target`".  A parity file is the set of (pos, shard)
pairs it was computed from: it is right exactly when that set is the DATA rows
of the stripe.

Every SQL statement or transaction, and every rename, copy or unlink whose
effect another command can see, is an action: `MoveRename` / `MoveCopy`,
`MoveUnlink`, `BuildInvalidate` (DeleteECShards), `BuildRecord` (InsertShard or
UpdateShardData), `BuildFinish` (SetParityDegraded), `StripeEncode` (one rename
of a parity file each), `StripePad`, `StripeVerify` with DeleteECAndPADShards,
`StripeMetadata` and `StripeInsert` per row, `MakeECFinish` (CompleteBuild).
Reads are joined to the step that uses them while the router keeps writers
away; validate keeps its reads in `val`.

`Crash` ends the running command anywhere; it also stands for an SQL or I/O
error that makes a command return.  `StripeFail` is the same for one worker:
the others go on, as the goroutines of `buildStripes` do.  A worker holds a place in
the semaphore (`Holding`) from its start to its end, whichever that is.  With Parallel = 1
the workers take the stripes in order and none starts after an error, which is
the serial branch of the code.

build-data recomputes its in-memory `placementState` from `t_shard`; because
nobody else writes rows meanwhile and `commit` repeats what is written, the
placement is computed from `rows`.

`ArcsetSpec` is what a user of the arcset sees: a status that is open or
completed, the place of every shard that has one, and the stripes whose
redundancy is intact.  It can reopen, settle a shard in a free place, change the
shield of one stripe and complete when every stripe with data is shielded.
`ArcsetRefines` reads these off the rows and files of `Arcset`.

**ArcsetReports.**  `ECComplete` is the count that `arcset show` prints, `Plan` the
answer from which the web UI draws the stripes and offers shards to recover.  Both
read the rows while `build-data` and `make-ec` replace them one by one; the order of
their statements (EC rows away first, EC rows last) is what keeps both from showing
a stripe as complete too early.

### Recover

A DATA path holds its shard (`target`), other bytes (`wrong`) or nothing.  What
files say of the codeword of their stripe is a set of pairs (pos, shard), with
`None` for bytes that are no shard's; `Said` reads it off the DATA files, the
`cover` of an EC file is the word it was encoded from, and `Cut` limits either to
the padded size that the rows know of (`Reaches`), which is how far recover reads.
`Decodings` is what `Reconstruct` may yield from the first k files it can open
(`Inputs`).  If they `Agree`, it is their word.  If they are of two generations,
any k symbols still determine a codeword, and the positions that were not read
come out as bytes of no shard.  If bytes of no shard are among the inputs
(`Unsure`), they may also lead back to a word they were computed from, and each
possibility is a step.

`rec` is the running recover, with the word it has decoded.  `RecoverRename` gives
one temporary its final name; `RecoverCheck` is the single checksum and, for
`--target=all`, the verification of the stripe, which parity of a wrong word passes
as long as everything is on one codeword.  `EncodeWrong`, `VerifyWrong` and
`ValidateWrong` are the steps of make-ec and of `validate --stage=ec` on a stripe
one of whose DATA files has other bytes: neither compares a checksum, so they go
through, and `spoiled` remembers the stripes make-ec has accepted so.  `Lose`
removes a file of a stripe between two commands, never so many at a time that more
than m are missing.  Damage that leaves a file readable is not modelled, because
recover takes a file that opens for good; validate is what finds it.

### Packing, ShardOrder, Dataset

A byte is a pair (file, position), so that a lost, doubled or misplaced byte
shows.  `GenerateShardDefs` is the loop of the code as a fold.  An image is a
format with its entries; `SegmentOffset` is what each writer records and
`Flat` what the file contains, which is how the three meanings of an offset
meet in `UnpackSegments` and `ReadAt`.  Compression is left out: every reader
undoes it under the flag that applied it.  The iso library renames entries; that
is left out as well.

`Dataset` has processes with a program point and a list of jobs.  A job writes
its file (bin creates it before the first source is read, tar and iso write a
buffer at the end), chooses its number, upserts its row and replaces its
segments, each a step; `Die` falls between any two.  `SourceChanges` removes one
source file after the scan.  `Archive` is what the readers see.

`config` is what t_dataset.metadata says of format and limit; dataset create writes it
after the scan.  A build, a shard make and a mark-built read the row once, when they start
(`meta`), and go by that: the names and the format of the shards of a build, the limit of
its definitions.  A build and a mark-built end with two statements: `WriteCount`
writes the whole metadata object they have read back, with shard_count in it, and
`SetBuilt` the status.  So a mark-built that has read the row before dataset create wrote
the configuration takes the configuration away.  The other keys (shard_root, the
sort keys, shard_count) are not modelled; the metadata write of `dataset.CreateFromDir`
(`create.go:101` of `internal/dataset`), before that of dataset create and by the same
process, is part of the last scan step.

### Catalog and Mounts

One action per SQL statement that another client can observe, with the row locks
of the append transaction; `client` holds program points and the values a
command has read.  `router` is chosen initially: with it the commands of one
arcset are serialised, without it they overlap.  `config` gives every dataset a value or
None for each key that append compares: a dataset whose create died in the scan has none
of them and can still be built, marked and appended.  `meta` is the same of an arcset, where
create may have set shard_max_bytes (`Presets`).  append compares key by key, passing over
what either side lacks (`Agrees`), and takes over what the arcset lacks (`Merged`).  A dataset is
taken to keep its keys from the beginning of its append: append makes its SQLite
read-only, and nobody works on a dataset that is being appended.  build-data, make-ec and validate
appear with their effect on the catalogue only; `Arcset` has the rest.

A mount writes its record, reads its index, mounts and serves; the kernel keeps a
stack per mount point.  `Pop` is fusermount or a signal, after which the server
comes back from Wait and deletes its record.  `MountDies` leaves record and
mount behind.

### Pipeline

`Pipeline` drives the actions of `Arcset` in the order of
`full-pipeline.sh:125-145` for one dataset after another.  A command that ended
early is called again (`commands-db.md:121,324`: retries are the router's);
the first command of another dataset starts when the pass of the previous one
has finished.

## 4. Checking

| run | instance | properties | what it shows |
|---|---|---|---|
| raid3 | k = m = 2, 2 + 1 shards of 1 and 2 units, builds of both datasets or of the second, make-ec with and without filters, 2 workers | TypeOK, UniqueRows, EveryShardStored, ParityRowsCurrent, CompletedProtected, DataRowsStable, CompletedContentStable, ImplementsArcsetSpec, StripesFilledInOrder, ShownStripesProtected | tables and files stay consistent under crashes, retries, refills, partial builds and partial parity runs, all of it implements the abstract arcset, and what `arcset show` counts as complete is protected |
| raid5 | k = m = 2, 2 + 1 shards of 2, 1 and 2 units, whole builds, expand to a second group, 1 worker | UniqueRows, ParityRowsCurrent, CompletedProtected, PlanComplete | the same with rotating partitions and the serial branch of make-ec: a rotated second stripe, and a shard that spills into the added group where parity has filled the first; the plan of the web UI lists a complete stripe whole |
| plain | m = 0, 2 + 1 shards of 2 units, builds of any scope, expand | EveryShardStored, DataWithinCapacity, CompletedContentStable | the path without parity, at the limit of a partition |
| pipeline | raid5, two groups, 3 + 2 shards of 1 to 3 units in three stripes, 2 workers at a time, two faults | NoStrayFiles, RetryFindsShard, CommandTerminates, PipelineCompletes | every command returns, though a worker fails and another waits for a place in the semaphore; whatever is interrupted, retries lead to the intended end, and a retry finds what its predecessor moved |
| recover | raid3, one stripe, a shard and a larger one that refills its PAD | CompletedSurvivesLosses, RecoveredProtected | losses, failed and partial recoveries, refills and parity runs in any order never cost a completed arcset a byte, except of a stripe that make-ec has encoded over wrong bytes |
| dataset | two processes, two files of one or two bytes in bin or tar, one file split over bin shards, one whole in iso | SeqsContiguous, SeqStable, DefsExact, BuiltRestores, BuildOrderExact | numbers, definitions, restored bytes and logical order after any mixture of builds, makes, crashes and retries |
| catalog | two clients, two arcsets, two datasets of equal or different configuration or one of them without, an arcset with a preset key, one mount point | RelationsExact, ConfigAgrees, PartitionsNamed, GroupsKept, ManifestAttributed, RecordsOwned, MountHoldsPlaced | the catalogue, manifests and mounts under overlap and crashes |
| claim_* | small | one each | see section 7 |

**Bounds and why they are enough.**  *Arcset.*  A partition holds 3 units.  Three
shards over k = 2 give an incomplete stripe with a PAD, its refill by the other
dataset, a full stripe and a second stripe; sizes 1 and 2 against capacity 3
give partitions that are exactly full and partitions too full for a large shard
only; with sizes of 2 throughout (plain) a second shard in a partition would overflow it,
so placement is refused until expand has added a group; with 2, 1, 2 under raid5
the parity of the first stripe, padded to 2, does the same.  Two stripes are what it
takes for two workers, for a filter that misses one, and for a failure beside a
success; a worker that waits for the semaphore takes three (pipeline), and there two
leave no place for it if they do not give theirs back.  m = 2 lets a crash fall between two parity renames.  raid3 leaves out the
builds of the first dataset alone (`LateBuilds`); plain has them.  The number of
crashes, commands and retries is not bounded.  `MaxPartitions`
(10^partition_width − 1) bounds expand; `MaxFaults` = 2 bounds the faults of the
pipeline, so that a fault can hit the retry of an interrupted command.

*Recover.*  Everything recover looks at is in one stripe; a second stripe is what
the other runs have.  Losses, recoveries and crashes are not bounded.  A behaviour
ends when make-ec has encoded the stripe over wrong bytes (`NotSpoiled`): the properties
except that stripe, and it stays what it is.

*Dataset.*  Two processes are what a race needs; two files give two definitions
or one, a split file gives two of the same file, and one alone is restored from an iso; crashes and retries are not
bounded.  At most one build runs at a time (two would write the same files at the
same time, which the command does not claim to survive), one shard make per
definition runs at a time, as the orchestrator arranges, mark-built waits until
no shard is being made, and one source is removed, of a dataset of bin shards only
(`BinLoses`): a writer of tar or iso that misses a source ends without a trace.
Datasets of one file are also built, made and marked before the configuration is
written, one of them split; of two files no command begins before (`OneFileEarly`).

*Catalog.*  Two keys and two values give datasets that agree, that differ in one key,
and one without any (`SomeCases`); a third key would behave as the second.  Without a
router the datasets have one configuration (`CasesRouted`), since `ConfigAgrees` says
nothing there.  `Focus` names the arcset that is preset, expanded and exported, `MaxStack` =
2 the mounts on top of each other, `ApiDeletes` whether records are deleted
through the API.  `MountsApart` separates mounts from expand, export and a
second arcset, which they share no state with but the relations, and from datasets that
differ; `ExpandsApart`
separates the export of an arcset from its expansion, which the manifest does not show.
`MaxPartitions` = 9 with k + m = 4 makes two groups the most.

Deadlock is checked in raid3, raid5, plain and recover; scripts and datasets
end, and clients without work have nothing left to do, in the others.

**Fairness.**  `PipelineSpec` adds weak fairness of `Drive`: the command that runs goes
on, the script goes on, and the router calls a failed command again.  The Go scheduler
runs a runnable goroutine eventually, and every step is a bounded computation, a system
call or an SQL statement that returns; the router's retries are what the documents ask of
it.  No fault is fair, and `MaxFaults` is needed because a command that is killed for
ever never finishes.  The other modules claim safety only: nothing in the code makes a client come back.

**What the properties leave out, because the code does.**  `BuiltRestores` is
stated for datasets that are covered, unchanged and at rest, with all shards in the
format the metadata show and no file above the limit that dataset create was given.  Each
condition stands for something the code does and nothing in it prevents:
* *covered*: `mark-built` compares rows with files, not with the definitions, so
  a file that is in no shard goes unnoticed;
* *in the format the metadata show*: the scan commits the files in batches and the
  configuration after the last one, so a build that starts in between sees some
  of the files, no limit and the format bin; and the end of a mark-built or a build
  writes older metadata back (section 7), after which tar and iso shards
  are read as bin;
* *no file above the limit that was asked for*: such a file is split, and no split file comes
  back (section 7).  The limit in the metadata is not enough to tell: by the write
  just named it can be gone while the split shards are there;
* *unchanged*: a source that changed after the scan is packed with a warning, and
  its size in `t_file` stays;
* *in one shard only*, for mounts: a file that is in a shard of a build and in one of a shard
  make is mounted with the bytes of both.

Other steps that are in the modules and that no document judges: `recover` writes
the health `ok` after one stripe, though no command makes it anything else; a repeated
append finds its relation and does not make the arcset building (`AppendKnown`);
`make-ec` refuses a filter without a stripe after it has set the phase to `ec`
(`MakeECStart`); the PAD file of a refilled slot stays beside the DATA file
(`pads`); a mount that is killed, or whose record the API deletes, leaves record
and mount apart (`MountDies`, `DeleteMount`); `shard unpack` gives an iso to the
tar reader, which finds nothing (`ShardUnpack`); keys of `ShardOrder` that are
numbers for one shard and texts for another have no transitive order
(`KeyBefore`; `BuildOrderExact` is about numbers).

`ConfigAgrees` says that the arcset shows every key that any of its datasets has; that
each of its datasets has every key the arcset shows would be more than append compares
(section 7).  `ConfigAgrees`, `GroupsKept` and
`ManifestAttributed` need the router: without it they fail, as the documents
expect.  `RelationsExact`, `PartitionsNamed`, `RecordsOwned` and
`MountHoldsPlaced` do not.

**Mutants.**  Next to the definitions stand variants with a plausible bug each
(`AfterMoveKeepsParity`, `ErrorsDropped`, `NoLock`, ...); `PROJECT.json` pairs
every property of every passing run with one that violates it.

## 5. Refinement

`ImplementsArcsetSpec` is `Abstract!Spec` with `home` read off the DATA rows and
`shielded` the stripes all of whose k + m rows and files are there.  The
interesting steps are those that map to nothing: moves and renames before a
row, the deletion of EC rows that were not complete, a second parity run.  A crash
maps to a stutter, since nothing of a command's memory is visible.  The refined
promise is stronger than the invariants in one way: no step changes two stripes,
or a stripe and the status, at once.

TLC checks it on the run raid3, and `Implements` (`ArcsetRefinement`) proves it.  The
first state maps to the first state, having no rows.  A step between two states that
satisfy `SafeInv` is one of three kinds:

- it leaves rows and parity files alone (`ContentKept`): then homes and shields
  are what they were, because by `StoreInv` files follow their rows, and only the
  status can have changed; where it becomes completed, `CompletedProtected` after
  the step says that every stripe is shielded;
- it writes rows or parity files of one stripe and no DATA row (`EncodeImplements`,
  used for `BuildInvalidate` and for every step of a worker): homes stay, other
  stripes keep their shields, and the status is open, since the arcset is building;
- it is `BuildRecord` (`RecordImplements`): one shard gets a home in a slot that was free of DATA,
  and its stripe, whose parity rows are gone, has no shield before or after, unless m = 0.

## 6. Proofs

All for every instance that satisfies the assumptions of the modules:
`PlacementAssumption` (k ≥ 1, m ≥ 0, one of the two layouts, a positive capacity);
`ArcsetAssumption` (datasets have at least one shard, as append demands; sizes are
bounded natural numbers; None, which stands for a NULL, is not a shard); `WholeBuildsAssumption` of the pipeline (its script calls build-data
without --dataset-uid, `full-pipeline.sh:139`); `CatalogAssumption` (k + m ≥ 1, the expanded arcsets are among the
arcsets, configurations and presets give each key a value or None, None is not a value or a row); `MountsAssumption` (None and Stale are not
processes); `DatasetAssumption` (sizes, by file, and the limit are natural numbers, the format
is one of the three, None is neither a number nor a status).  The number of groups, stripes,
datasets, shards, clients, processes, crashes and retries is not bounded; where a
module bounds TLC by a constant (`MaxPartitions`, `MaxStack`, `Focus`,
`ApiDeletes`), the theorems hold for every value of it.

| theorem | statement |
|---|---|
| `TypeCorrect` (`ArcsetSafety`, as all up to the next module) | Spec ⇒ □TypeOK |
| `Safe` | Spec ⇒ □SafeInv, the inductive invariant |
| `ShardsAreStored` | Spec ⇒ □EveryShardStored |
| `ParityIsCurrent` | Spec ⇒ □ParityRowsCurrent |
| `CompletedIsProtected` | Spec ⇒ □CompletedProtected |
| `RowsAreUnique` | Spec ⇒ □UniqueRows |
| `DataRowsAreStable` | Spec ⇒ DataRowsStable |
| `CompletedIsStable` | Spec ⇒ CompletedContentStable |
| `StripesStayInOrder` | Spec ⇒ □StripesFilledInOrder, in both layouts |
| `PartitionsKeepWithin` | with Layout = "raid3" or m = 0: Spec ⇒ □DataWithinCapacity |
| `PartitionInjective` | equal partitions of equally numbered stripes are equal positions of equal groups |
| `SizeSum`, `SumWithout`, `SumMonotone` | what a sum of sizes over a finite set of rows is, and how it changes with a row |
| `Implements` (`ArcsetRefinement`) | Spec ⇒ ImplementsArcsetSpec |
| `ShownAreProtected` | Spec ⇒ □ShownStripesProtected |
| `PlanIsComplete` | Spec ⇒ □PlanComplete |
| `PipelineRunsArcset` (`PipelineProofs`) | PipelineSpec ⇒ Spec |
| `RetryFinds`, `NoFileStrays` | PipelineSpec ⇒ □ of RetryFindsShard, NoStrayFiles |
| `RecoveryStaysSafe` (`RecoverProofs`) | RecoverSpec ⇒ □RecoverSafe, the inductive invariant |
| `CompletedStaysReadable` | RecoverSpec ⇒ □CompletedSurvivesLosses |
| `RecoveredStaysProtected` | RecoverSpec ⇒ □RecoveredProtected |
| `CatalogStaysSafe` (`CatalogProofs`) | Spec ⇒ □CatalogSafe, the inductive invariant |
| `RelationsStayExact`, `ConfigStaysAgreed`, `PartitionsStayNamed`, `ManifestStaysAttributed` | Spec ⇒ □ of RelationsExact, ConfigAgrees, PartitionsNamed, ManifestAttributed |
| `GroupsStayKept` | Spec ⇒ GroupsKept |
| `RecordsStayOwned`, `MountsHoldPlaced` | Spec ⇒ □RecordsOwned, Spec ⇒ □MountHoldsPlaced |
| `SeqsStayContiguous`, `SeqsStayStable` (`DatasetProofs`) | the numbers of a dataset's shards are 0, 1, 2, ... without a gap, and a row keeps its number |
| `BuildOrderStaysExact` | Spec ⇒ □BuildOrderExact |
| `DefinitionsStayExact` | Spec ⇒ □DefsExact |
| `BuiltStaysRestorable` | Spec ⇒ □BuiltRestores |
| `DefsAreRight` (`PackingProofs`) | GenerateShardDefs, for every list of files and every limit: every byte once and in order, no shard empty or too large |
| `Unpacks`, `UnpacksAlone`, `ReadsRight` | an archive whose entries are whole files is unpacked to those files, and a file in one place is read as it is |
| `SortsRight` | SortShards, under any linear comparison, returns its shards each once and in order |
| `SortedRight`, `FoldExists` (`OrderProofs`) | a set in order has each element once; the function behind a fold exists |

`Spec` is that of the module the theorem is about; that of `Catalog` and `Mounts`
is the one of `Mounts`.

**The commands.**  None of the properties is inductive by itself: they say
nothing of what a command has in memory between two statements.  `SafeInv`
(`ArcsetInv`) adds that:

- `RecordInv`: while build-data is between the move and the row, the file is
  at its target, nothing but a PAD row is in the row's way, the shard has no
  row, and just before the row is written the stripe has no parity rows.
- `WorkInv` / `WorkerInv`: what a worker has achieved at each program point:
  parity files encoded so far, all of them from "pad" on, the PAD files, which
  DATA rows have their padded size, which positions have rows.
- `StoreInv`: the facts about rows and files that hold between all steps.
- `CommandInv`: build-data and make-ec run only while the arcset is building,
  and a validation that has passed still holds when it writes.  This is where
  the serialisation of validate enters.

The worker lemmas (`StripeEncodeSafe` ... `StripeInsertSafe`) show what a step
does to its own stripe; `WorkerStep` and `OtherWorkers` show once that it does
not disturb another worker, which is the comment "stripes are independent" of
`buildStripes`.  `DataKept` says that covers and padded sizes depend on the
data of the rows only, so rewriting PAD and EC rows, or padded sizes, changes
neither.  `RowsAreUnique` needs `PartitionInjective`, the raid5 modulus.

**Stripe order and what is shown.**  Both need to know in addition which rows there
can be (`RowKinds`: parity rows at parity positions, PAD rows at data positions and
only with m > 0, no row in a stripe without data, workers for stripes with data
only).  `OrderInv` says that all data positions of the earlier stripes of a row's
group hold DATA, the same of the slot build-data is about to record, and that
position 0 of a stripe is the first to be taken (`Opened`).  A PAD or a hole lies in a
stripe that is there, whose earlier stripes are filled; so what has to be excluded is that a
new stripe is opened behind one with a PAD or a hole at a position p, which is not 0.
The partition of that slot is one of a data position of the new stripe, p − 1
under raid5, p under raid3, and there the shard was found to fit.  It would
have fitted the PAD or the hole, which come first.
`ShownAreProtected` turns the counts of `arcset show` into
positions: the rows of a stripe have different positions (`PosCount`), so k DATA
and PAD rows are all data positions and m EC rows all parity positions, and the EC
rows vouch for their files (`ParityRowsCurrent`).  `PlanIsComplete` takes them through
the lists of the plan: `ByPosRight` says that a list by position has every row of its
set, which is finite (`RowsStayFinite`).

**Capacity.**  `DataWithinCapacity` is a sum over the rows of a partition, and placement
and recording are steps apart.  `CapacityInv` carries across that the shard still
fits.  The one thing that changes sizes meanwhile is make-ec, which gives EC
rows their padded size; with dedicated parity partitions it touches no partition with
DATA, and with m = 0 it writes none (`DataParityApart`).  Under raid5 with parity
the property is false: `findNewSlot` does not look at the partitions its stripe's
parity will go to (`build.go:345`, a hazard).  The lemmas about sums are proved from
the definition of the fold of the community modules (`MapThenSumSet`): its recursive
function is shown to exist, and to be determined, by the subset of a finite set
that is a minimal counterexample (`MinimalSubset` of `OrderProofs`), so that no induction theorem with
an operator parameter is needed.

**The pipeline.**  `RetryFindsShard` and `NoStrayFiles` are not theorems of `Spec`:
a make-ec between the crash and the retry can add parity, under raid5 to the partition
that was chosen, and the retry then chooses another (section 7).  The script calls the
command that failed again.  `RetryInv` (`PipelineInv`) says that a file without a row
is the one that a build-data would choose now, whether the previous one is running
or dead.  It survives because only build-data writes in that stage, what
it deletes are parity rows, and the shard that is chosen is the first that is
not placed (`FirstUnplaced`), of which there is one.  Deleting the EC rows of the
stripe could give an earlier slot room and so change the choice.  It does not
(`ChoiceSurvivesInvalidate`): a stripe with EC rows has a row at every data position
(`ParityLast`), so the slot is one of its PADs; the PADs of a group are all in one stripe,
by the order of the stripes, hence in other partitions than its parity.
`PipelineRunsArcset` makes the
theorems about `Arcset` theorems about the pipeline.

**Recover.**  With losses, `StoreInv` and `ParityRowsCurrent` do not hold: rows may
have no file.  `RecoverSafe` (`RecoverInv`) says instead, of every stripe that has a
parity row and that make-ec has not encoded over wrong bytes (`EncodedInv`, `Right`): no DATA
file has other bytes, every parity file encodes the data of the rows, and at most m
files are missing.  So any k files determine the rows, which is
`CompletedSurvivesLosses` once a completed arcset has parity rows everywhere
(`CompletedEncoded`).  It is the parity *row* that carries the invariant, not the
file: build-data deletes the EC rows before it records a refill, the files stay
behind with the old word, and whatever recover makes of them is undone by the next
make-ec or remembered in `spoiled`.  `RowsKnow` is why a decoded file is not
cut short: with a parity row, some row knows a padded size that is large enough.
`EncoderInv` carries `Right` from the verification of make-ec to its first EC row,
`RecoveryInv` the decoded word through the renames of a recover: what it has still
to rename is missing, so that it replaces no file another step relies on.

**Catalogue and mounts.**  `CatalogSafe` (`CatalogInv`) adds to the properties what an
unfinished command relies on, and who is kept away meanwhile.  `LockInv`: no two transactions
hold the same arcset row or the same dataset row.  `InsertInv`: so the order that append
has computed is still the number of relations when it inserts, which is why
`RelationsExact` needs no router.  `RouterInv`, with a router only: one serialised
command per arcset, hence what it has read still holds (`Fresh`): what append is about to
write is what the arcset shows, merged with a dataset that agrees, and shows what all of
its datasets have (`MergedShows`).  From these `ConfigAgrees`, `ManifestAttributed` and `GroupsKept` follow.  `WidthInv`: the
group count about to be written fits the width.  `MountsSafe` does the same for mounts: what a
process is preparing, and that an index belongs to a process that serves.

**The numbers of a dataset.**  `SeqInv` (`DatasetInv`) says of a process between its
choice of a number and its insert that the number is the next free one or less
(`Chosen`), is the one of the row where the path has a row, and for a build is the
position of its job; `Apart` keeps two processes off the same path, and a build's
n-th row is named n (`RowsNamed`).  Two makers may hold the same number: the
insert of the second one fails on the unique index, which is a step of the module, and the
numbers stay contiguous.

**The order of the shards.**  `ORDER BY seq` is `InOrder`: the i-th row is the one with
i − 1 rows before it.  There is one for every i, since the number of rows below is an
injection into 0 .. n − 1 (`Ranks`).  `SortShards` then inserts one row after the other.
Its fold is unfolded to a list per prefix (`SortUnfolds`), and the first prefix whose
list would not have its shards each once and in order is a contradiction (`SortsRight`).
What this needs of the comparison is that it is linear: true of captured numbers,
because numbers differ or the seq decides and no two rows share one
(`SeqsContiguous`), and because what is captured from a name in the dataset is a number
(`NamesKnown`).  It is false for captures that mix numbers with other texts (section 4),
which is why the theorem is about numbers.  `Insert` is what sort.SliceStable does with up to
twenty elements; under a linear comparison only one result is sorted, so a longer
list ends the same way.

**The definitions.**  `DefsExact` is about a function of `t_file` and the configuration:
`FilesKnown` (`DatasetInv`) says that these are sizes of the input, and `DefsAreRight`
does the rest for any files.  A fold of the community modules is the recursion of a
CHOOSE over sets of indices; `ConcatRun`, `TotalRun` and their like replace it by a
sequence of intermediate results, one per element, whose existence is shown with the
witness that follows the loop.  The loop of `GenerateShardDefs` keeps `Within` (no shard
is empty or above the limit, nor is the current one) and `Adds`: what a file adds to the
segments said so far (`Text`) is exactly its bytes.  For a file that is split the inner
loop has a statement of its own (`SplitSoFar`): the segments so far are its first
`offset` bytes, and each round gets further, so that a file of n bytes is through
after n rounds, which is what bounds the loop of the model.

**What a built dataset gives back.**  `ContentKnown` (`DatasetInv`) says that a segment of
a file that fits the limit names all of it, and a piece of an image is then all of its
bytes, at every program point between reading a source and `t_segment`; that the
sources have not changed before they are read is `FilesKnown` (they are there or gone).  The
limit is the one of the input: whatever limit a process has read, it is that one or none
(`LimitKnown`), so the invariant holds while processes see different configurations and
write them back.  In a settled
dataset the shards by seq are then `Restorable` (`ArchiveRestorable`): their pieces are
whole recorded files, their segments are those of the image, and every file is in
one.  From there it is arithmetic: a bin segment's offset is where its piece is
(`BinFound`, with `Holds`: the bytes of a concatenation behind the parts before), so cutting
out and writing segments by offset, in any order of equal ones, writes
whole files (`SegmentsUnpack`); tar entries do in the order of the file
(`EntriesUnpack`), iso entries by name (`ISOUnpacks`); and unpacking shard after shard,
each step of which only adds whole files, ends with all of them (`LoopAdds`).  A FUSE
read of a file that is in one place (`IndexedOnce`) is a window of that piece (`ReadsRight`),
with the two cases at the end of the file.

**The inductive invariants were model-checked before they were proved**: the MC
modules extend them, so each is checked by naming it in a configuration.  On
Raid3.cfg `SafeInv`, `RowKinds`, `OrderInv` and `CapacityInv` hold in all 412,374 states
(`RowKinds` and `OrderInv` also on Raid5.cfg and Plain.cfg, `CapacityInv` on
Plain.cfg); `PipelineInvariant` on Pipeline.cfg and on instances
with either layout, k from 1 to 3 and three faults; `CatalogSafe` and `MountsSafe` on
Catalog.cfg in 435,767; `SeqInv`, `NamesKnown`, `FilesKnown` and `ContentKnown` on
Dataset.cfg in 505,009; `RecoverSafe` on
Recover.cfg in 482,340, and with m = 1 on ClaimComplete.cfg in 148,248.

**Only model-checked.**

- `CommandTerminates` and `PipelineCompletes`: liveness under fairness and ENABLED are
  out of the prover's reach.

A lemma about a list that the code sorts needs a sort the prover can expand: `SortSeq` of the
standard modules is not one, so every ORDER BY of the models is an `InOrder`.

## 7. Where documents and code differ

Each of these is a run with one property that TLC violates; the quotes are in
`PROJECT.json`.

| run | the document | the code |
|---|---|---|
| claim_split | a file larger than `shard_max_bytes` is split into segments, each a byte range of it | no writer uses the offset: every segment holds the beginning of the file, and unpack replaces the output segment by segment |
| claim_recover | a rebuilt DATA shard must have its recorded checksum | only the shard that was asked for is compared, after all rebuilt files were renamed into place |
| claim_complete | completed means that the present content has passed the full validation | make-ec with m > 0 encodes whatever the DATA files hold, compares no checksum and completes; over a file that a recover left wrong it replaces the last parity that could have restored the shard |
| claim_allData | make-ec requires the DATA rows of all registered datasets | it does not look; after `build-data --dataset-uid` it completes without the others |
| claim_retry | on a retry the target path is determined | a build of another dataset in between takes the slot; the moved file is not found again |

Others, met while modelling, without a run:

- `design/README.md:75`: append requires that `format`, `compress` and `shard_max_bytes` of
  dataset and arcset are equal, all three.  `inheritConfig` passes over a key that either side
  lacks (`append.go:106`).  A dataset whose create died in the scan has none of the three
  (they are written after it, `datasetops.go:115`), can still be built, marked and appended,
  and its arcset takes those of the next dataset.  `Catalog` has such datasets (`Nothing` in
  `MCCatalog`), and `ConfigAgrees` is what append does keep.
- `commands-db.md:226`: mark-built writes `metadata.shard_count` and the status.  It writes
  all the metadata it read at its start (`datasetops.go:194`, and buildShards at 329), so a
  configuration that dataset create wrote meanwhile is lost (`WriteCount` in `Dataset`); the
  dataset then reads as bin without limit.  Dataset.cfg has the case of shards that were
  split before their limit was lost.
- `arcset-lifecycle.md:169`: a new stripe is placed after its EC partitions were
  checked.  `findNewSlot` checks data partitions only.
- `commands-db.md:121`, without another build-data: with raid5 and shards of one size,
  the make-ec of another user between crash and retry is enough for the target to
  change, because new parity fills the partition that was chosen.  The router's
  retry follows at once (`full-pipeline.sh:125-145`, `PipelineSpec`), where it cannot happen.
- `arcset-lifecycle.md:65`: one file per stripe in a partition.  The PAD file
  stays beside the DATA file that replaced its row.
- `arcset-lifecycle.md:181`: a shard that does not fit the earliest PAD is an
  error.  The code tries the next PAD.
- `arcset-lifecycle.md:284`: validate is not allowed on a defined arcset.  It
  completes an empty, defined one.
- `arcset-lifecycle.md:294`: completed means the present content was validated.
  A validate that overlaps append and build-data completes what it never read.
- `arcset-lifecycle.md:143`: a name that does not match `shard_sort_regex` is an
  error of append.  It is one of build-data.
- `commands-db.md:119`: filling a PAD sets parity_degraded.  The flag is written
  at the end of a build-data without errors; an interruption loses it.
- `cmd/cli/README.md:166`: `shard unpack` unpacks tar and iso by themselves.  Both
  go to the tar reader, which finds no entry in an iso and reports success;
  `unpackIsoShard` is never called.
- `fs.go:74,106`: `err` is shadowed in both branches, so the check at `:117` never
  sees a failed mount; the command goes on with a nil server and panics in Wait.
  The record is removed by the deferred call, which is why RecordsOwned holds.
- `fuse.md:68`: the record is inserted at the mount and deleted at the umount.  Umount
  deletes by mount point (`fs.go:178`) after the kernel has let go; in between
  another mount can have taken the point, and its record is the one that goes.
- `fuse.md:37,57`: a dataset mount checks its shards and a missing one is ENOENT at
  open.  It does not check, and the error comes at read.

## 8. Not modelled

File contents below the level of bytes as pairs, checksums as computations,
compression, formatting of names and widths, `last_check`, `used_capacity`,
the directory nodes of FUSE, most handlers of the API, which decode a request and
call the packages above, and the web pages.  The legacy SQLite stores and what
only they serve (`shard make` without dataset_db, `--arcset-id` of shard unpack
and validate, `make_ec.go`) are to be removed according to the documents.
`simulate` writes random test files and nothing else of the system knows of it.  Keys of different kinds under one
`shard_sort_regex`, for which `compareKeys` is not transitive, are described in
`ShardOrder` and not checked, since no order is defined for them.  A failed
single SQL statement is a crash before or after it.  A build-data of a dataset
that is already complete returns an error after changing nothing; return values
are not part of the state.
