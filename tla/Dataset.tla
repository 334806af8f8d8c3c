-------------------------------- MODULE Dataset --------------------------------
(***************************************************************************)
(* The life of one dataset SQLite: dataset create (with or without         *)
(* --gen-only), building its shards, shard make for one definition,        *)
(* mark-built (internal/datasetops, internal/dataset, internal/shard).     *)
(*                                                                         *)
(* Several processes work on one dataset; every SQL statement or           *)
(* transaction and every file that appears is a step of its own, and a     *)
(* process can die between any two.                                        *)
(***************************************************************************)
EXTENDS Packing, ShardOrder, Order

CONSTANTS Procs,      \* concurrent packfs processes
          Inputs,     \* the cases: [sizes, max, format], sizes a sequence
          None        \* no configuration yet, or no row

ASSUME DatasetAssumption ==
    /\ None \notin Nat /\ None \notin {"building", "built"}
    /\ \A i \in Inputs : /\ i.sizes \in Seq(Nat)
                        /\ i.max \in Nat
                        /\ i.format \in {"bin", "tar", "iso"}

VARIABLES
    input,     \* what the user asks for; never changes
    disk,      \* the source files: their sizes now
    status,    \* t_dataset.status, None before the row exists
    config,    \* format and shard_max_bytes in t_dataset.metadata
    recorded,  \* t_file: the sizes seen by the scan
    shards,    \* t_shard: [name, seq, image], the image standing for the sha256
    segments,  \* t_segment, by shard name
    out,       \* the shard files: name -> image, or Torn
    proc       \* the processes

db    == <<status, config, recorded, shards, segments>>
dvars == <<input, disk, db, out, proc>>

Torn == [format |-> "torn", entries |-> <<>>]

\* jobs[at] is the one a process works on; meta is the configuration it has read,
\* unknown the files of the job that t_file did not have then.
Gone == [pc |-> "idle", cmd |-> "none", meta |-> None, jobs |-> <<>>, at |-> 0,
         left |-> {}, unknown |-> {}, image |-> None, seq |-> 0]

Init ==
    /\ input \in Inputs
    /\ disk = input.sizes
    /\ status = None
    /\ config = None
    /\ recorded = [f \in {} |-> 0]
    /\ shards = {}
    /\ segments = [n \in {} |-> <<>>]
    /\ out = [n \in {} |-> Torn]
    /\ proc = [p \in Procs |-> Gone]

At(p, pc)  == proc[p].pc = pc
Go(p, pc)  == proc' = [proc EXCEPT ![p].pc = pc]
Quit(p)    == proc' = [proc EXCEPT ![p] = Gone]
Quiet      == \A p \in Procs : At(p, "idle")

(***************************************************************************)
(* dataset create: the row, the files in batches, the configuration        *)
(***************************************************************************)

CreateRow(p) ==
    /\ At(p, "idle") /\ status = None
    /\ status' = "building"
    /\ proc' = [proc EXCEPT ![p] = [Gone EXCEPT !.pc = "scan", !.left = DOMAIN disk]]
    /\ UNCHANGED <<input, disk, config, recorded, shards, segments, out>>

\* One batch of BatchAddFileRecords, which commits by itself, in the order of the
\* walk.  A file that cannot be read is passed over, as if it were not there.
ScanBatch(p) ==
    /\ At(p, "scan") /\ proc[p].left # {}
    /\ LET f == Min(proc[p].left)
       IN  /\ recorded' = [g \in DOMAIN recorded \cup {f} |-> disk[g]]
           /\ proc' = [proc EXCEPT ![p].left = @ \ {f}]
    /\ UNCHANGED <<input, disk, status, config, shards, segments, out>>

Asked == [format |-> input.format, max |-> input.max]

\* UpdateMetadata; with --gen-only the command ends here.
CreateConfig(p) ==
    /\ At(p, "scan") /\ proc[p].left = {}
    /\ config' = Asked
    /\ \/ proc' = [proc EXCEPT ![p].pc = "plan", ![p].meta = Asked]
       \/ Quit(p)
    /\ UNCHANGED <<input, disk, status, recorded, shards, segments, out>>

(***************************************************************************)
(* Jobs: a definition, the name of its shard, and the seq it asks for      *)
(***************************************************************************)

\* Metadata without a configuration reads as bin and no limit.
FormatIn(meta)   == IF meta = None THEN "bin" ELSE meta.format
MaxBytesIn(meta) == IF meta = None THEN 0 ELSE meta.max

Format   == FormatIn(config)
MaxBytes == MaxBytesIn(config)

\* ListFiles orders by path.
Listed ==
    LET files == InOrder(DOMAIN recorded, <)
    IN  [i \in DOMAIN files |-> [file |-> files[i], size |-> recorded[files[i]]]]

BuildJobs(meta) ==
    LET defs == GenerateShardDefs(Listed, MaxBytesIn(meta))
    IN  [i \in DOMAIN defs |-> [name |-> <<"build", i - 1, FormatIn(meta)>>,
                                def |-> defs[i], seq |-> i - 1]]

\* What an external generator writes: one definition per file, whole files.  Its name
\* is that of the shard, in any format.
ExternalJob(f) ==
    [name |-> <<"make", f>>, def |-> <<[file |-> f, offset |-> 0, size |-> 0]>>, seq |-> None]

\* The command goes on as a build that has read meta.
Builds(p, meta) ==
    LET started == [Gone EXCEPT !.cmd = "build", !.meta = meta]
    IN  proc' = [proc EXCEPT ![p] =
                   IF 1 \in DOMAIN BuildJobs(meta)
                   THEN [started EXCEPT !.pc = "read", !.jobs = BuildJobs(meta), !.at = 1]
                   ELSE [started EXCEPT !.pc = "count"]]

\* dataset create goes on with buildShards; BuildShards starts it for a dataset
\* that is not built.  Two builds of one dataset at a time are not considered.
Plan(p) ==
    /\ \A q \in Procs : proc[q].cmd # "build"
    /\ \/ At(p, "plan") /\ Builds(p, proc[p].meta)
       \/ At(p, "idle") /\ status = "building" /\ Builds(p, config)
    /\ UNCHANGED <<input, disk, db, out>>

Job(p) == proc[p].jobs[proc[p].at]

Working(name) == \E q \in Procs : proc[q].at > 0 /\ Job(q).name = name

\* The orchestrator runs one shard make per definition at a time, and none for
\* a dataset that is built.
ShardMake(p, f) ==
    /\ At(p, "idle") /\ status = "building"
    /\ ~Working(ExternalJob(f).name)
    /\ proc' = [proc EXCEPT ![p] = [Gone EXCEPT !.cmd = "make", !.meta = config, !.pc = "read",
                                               !.at = 1, !.jobs = <<ExternalJob(f)>>]]
    /\ UNCHANGED <<input, disk, db, out>>

(***************************************************************************)
(* MakeShardWithWriter of one job                                          *)
(***************************************************************************)

Put(n, x)  == [m \in DOMAIN out \cup {n} |-> IF m = n THEN x ELSE out[m]]

Sources(p) == \A i \in DOMAIN Job(p).def : Readable(disk, Job(p).def[i])

\* bin creates its file before it reads the first source; tar and iso are put
\* together in memory.
ReadFails(p) ==
    /\ At(p, "read") /\ ~Sources(p)
    /\ out' = IF FormatIn(proc[p].meta) = "bin" THEN Put(Job(p).name, Torn) ELSE out
    /\ Quit(p)
    /\ UNCHANGED <<input, disk, db>>

\* The ids of the files are looked up as they are read.
ReadSources(p) ==
    LET def == Job(p).def
    IN  /\ At(p, "read") /\ Sources(p)
        /\ out' = Put(Job(p).name, Torn)
        /\ proc' = [proc EXCEPT ![p].pc = "write",
                      ![p].unknown = {def[i].file : i \in DOMAIN def} \ DOMAIN recorded,
                      ![p].image = MakeImage(disk, def, FormatIn(proc[p].meta))]
        /\ UNCHANGED <<input, disk, db>>

\* COALESCE(MAX(seq), -1) + 1
NextSeqNo == {s \in {0} \cup {r.seq + 1 : r \in shards} : \A r \in shards : r.seq < s}

RowOf(name) == {r \in shards : r.name = name}

\* Mutant of ChosenSeq: a re-run takes a new number.
AlwaysNextSeq(job) == NextSeqNo

\* An explicit seq, the one of the row of an earlier run, or the next one.
ChosenSeq(job) ==
    IF job.seq # None THEN {job.seq}
    ELSE IF RowOf(job.name) # {} THEN {r.seq : r \in RowOf(job.name)}
    ELSE NextSeqNo

\* The file is complete; then the record is begun by reading the seq, outside the
\* transaction of the insert.
WriteImage(p) ==
    /\ At(p, "write")
    /\ out' = Put(Job(p).name, proc[p].image)
    /\ \E s \in ChosenSeq(Job(p)) :
           proc' = [proc EXCEPT ![p].pc = "row", ![p].seq = s]
    /\ UNCHANGED <<input, disk, db>>

\* Mutant of Taken: another path may keep the number.
NeverTaken(name, seq) == FALSE

\* UNIQUE (dataset, seq); the upsert resolves conflicts of the path only.
Taken(name, seq) == \E r \in shards : r.seq = seq /\ r.name # name

UpsertRow(p) ==
    LET name == Job(p).name
    IN  /\ At(p, "row") /\ ~Taken(name, proc[p].seq)
        /\ shards' = (shards \ RowOf(name))
                        \cup {[name |-> name, seq |-> proc[p].seq, image |-> proc[p].image]}
        /\ Go(p, "segments")
        /\ UNCHANGED <<input, disk, status, config, recorded, segments, out>>

UpsertConflict(p) ==
    /\ At(p, "row") /\ Taken(Job(p).name, proc[p].seq)
    /\ Quit(p)
    /\ UNCHANGED <<input, disk, db, out>>

\* Every segment refers to a row of t_file, or the transaction fails.
KnownFiles(p) == proc[p].unknown = {}

\* ReplaceSegments, one transaction; then the next job, or the end.
ReplaceSegments(p) ==
    LET next == proc[p].at + 1
        name == Job(p).name
    IN  /\ At(p, "segments") /\ KnownFiles(p)
        /\ segments' = [n \in DOMAIN segments \cup {name} |->
                          IF n = name THEN Segments(proc[p].image) ELSE segments[n]]
        /\ IF next \in DOMAIN proc[p].jobs THEN
                proc' = [proc EXCEPT ![p].pc = "read", ![p].at = next]
           ELSE IF proc[p].cmd = "build" THEN
                proc' = [proc EXCEPT ![p] = [Gone EXCEPT !.cmd = "build", !.pc = "count",
                                                        !.meta = proc[p].meta]]
           ELSE Quit(p)
        /\ UNCHANGED <<input, disk, status, config, recorded, shards, out>>

SegmentsFail(p) ==
    /\ At(p, "segments") /\ ~KnownFiles(p)
    /\ Quit(p)
    /\ UNCHANGED <<input, disk, db, out>>

(***************************************************************************)
(* Built                                                                   *)
(***************************************************************************)

Intact(r) == r.name \in DOMAIN out /\ out[r.name] = r.image

\* dataset mark-built, whatever the status is; the row of the dataset is read first.
MarkRead(p) ==
    /\ At(p, "idle") /\ status # None
    /\ proc' = [proc EXCEPT ![p] = [Gone EXCEPT !.cmd = "mark", !.pc = "check", !.meta = config]]
    /\ UNCHANGED <<input, disk, db, out>>

\* There is a shard, and every row finds its file with its checksum.  The definitions
\* are not looked at.
MarkCheck(p) ==
    /\ At(p, "check")
    /\ \A q \in Procs : proc[q].at = 0
    /\ shards # {}
    /\ \A r \in shards : Intact(r)
    /\ Go(p, "count")
    /\ UNCHANGED <<input, disk, db, out>>

\* metadata.shard_count, by writing the whole object that was read at the start.
WriteCount(p) ==
    /\ At(p, "count")
    /\ config' = proc[p].meta
    /\ proc' = [proc EXCEPT ![p] = [Gone EXCEPT !.cmd = proc[p].cmd, !.pc = "status"]]
    /\ UNCHANGED <<input, disk, status, recorded, shards, segments, out>>

SetBuilt(p) ==
    /\ At(p, "status")
    /\ status' = "built"
    /\ Quit(p)
    /\ UNCHANGED <<input, disk, config, recorded, shards, segments, out>>

(***************************************************************************)
(* Reading a dataset                                                       *)
(***************************************************************************)

\* ORDER BY seq
FindByDataset == InOrder(shards, LAMBDA r, q : r.seq < q.seq)

\* The shards with their segments.
Archive ==
    [i \in DOMAIN FindByDataset |-> [image |-> FindByDataset[i].image,
                                    segs  |-> segments[FindByDataset[i].name]]]

\* build numbers its files with leading zeros; the ones of shard make are 9, 10, ...
Digits(name) ==
    LET n == name[2]
    IN  IF name[1] = "build" THEN <<0, 0, 0, n>>
        ELSE IF n = 1 THEN <<9>> ELSE <<1, n - 2>>

NumberIn(name) == IF name[1] = "build" THEN name[2] ELSE name[2] + 8

\* What the group (\d+) captures.
Key(name) == [numeric |-> TRUE, num |-> NumberIn(name), text |-> Digits(name)]

\* build-data: by shard_sort_regex and shard_sort_index, or by seq alone.
BuildOrder(regex) ==
    SortShards([i \in DOMAIN FindByDataset |->
        [name |-> FindByDataset[i].name, seq |-> FindByDataset[i].seq,
         keys |-> IF regex THEN <<Key(FindByDataset[i].name)>> ELSE <<>>]])

(***************************************************************************)
(* Faults and the specification                                            *)
(***************************************************************************)

Die(p) ==
    /\ ~At(p, "idle")
    /\ Quit(p)
    /\ UNCHANGED <<input, disk, db, out>>

Unchanged == \A f \in DOMAIN recorded : f \in DOMAIN disk /\ disk[f] = recorded[f]

\* After the scan a source file is removed; one is enough.
SourceChanges(f) ==
    /\ Unchanged /\ f \in DOMAIN recorded
    /\ \A p \in Procs : ~At(p, "scan")
    /\ disk' = [g \in DOMAIN disk \ {f} |-> disk[g]]
    /\ UNCHANGED <<input, db, out, proc>>

Step(p) ==
    \/ CreateRow(p) \/ ScanBatch(p) \/ CreateConfig(p) \/ Plan(p)
    \/ \E f \in DOMAIN input.sizes : ShardMake(p, f)
    \/ ReadFails(p) \/ ReadSources(p) \/ WriteImage(p)
    \/ UpsertRow(p) \/ UpsertConflict(p) \/ ReplaceSegments(p) \/ SegmentsFail(p)
    \/ MarkRead(p) \/ MarkCheck(p) \/ WriteCount(p) \/ SetBuilt(p)

Next ==
    \/ \E p \in Procs : Step(p) \/ Die(p)
    \/ \E f \in DOMAIN input.sizes : SourceChanges(f)

Spec == Init /\ [][Next]_dvars

(***************************************************************************)
(* Properties                                                              *)
(***************************************************************************)

\* PostgreSQL and FUSE know a shard as (dataset, seq).  Whatever builds, makes,
\* retries and races happen, the numbers are 0 .. n-1, each given once ...
SeqsContiguous ==
    /\ {r.seq : r \in shards} = {s \in 0 .. Cardinality(shards) : s < Cardinality(shards)}
    /\ \A r, q \in shards : r.seq = q.seq => r = q

\* ... and a shard never gets another number.
SeqStable ==
    [][\A r \in shards : \E q \in shards' : q.name = r.name /\ q.seq = r.seq]_dvars

\* The definitions cover the recorded files byte for byte, each once and in
\* order, and no shard is larger than the limit.  (Quiet only saves time here and
\* in BuildOrderExact: Die takes every state to a quiet one of the same database.)
DefsExact ==
    Quiet =>
    LET defs == GenerateShardDefs(Listed, MaxBytes)
        said == Concat(defs)
    IN  /\ Concat([i \in DOMAIN said |->
                      Bytes(said[i].file, said[i].offset + 1, said[i].offset + said[i].size)])
            = Concat([i \in DOMAIN Listed |-> Bytes(Listed[i].file, 1, Listed[i].size)])
        /\ {said[i].file : i \in DOMAIN said} = DOMAIN recorded
        /\ \A i \in DOMAIN defs : defs[i] # <<>> /\ (MaxBytes > 0 => Total(defs[i]) <= MaxBytes)

Original == [f \in DOMAIN recorded |-> Bytes(f, 1, recorded[f])]

Finished(r) == r.name \in DOMAIN segments /\ segments[r.name] = Segments(r.image)

Covered == \A f \in DOMAIN recorded : \E r \in shards :
             r.name \in DOMAIN segments
             /\ \E i \in DOMAIN segments[r.name] : segments[r.name][i].file = f

\* Nobody is at work, no source has changed, every row has its file and its
\* segments, every file is in some shard, and the shards have the format that the
\* metadata show: none was made before dataset create had written the configuration,
\* and no command that had read the metadata before has written them back.
Settled == /\ status = "built" /\ Quiet /\ Unchanged /\ Covered
           /\ \A r \in shards : Intact(r) /\ Finished(r) /\ r.image.format = Format

\* By the limit that dataset create was given, whatever limit the metadata show now.
Unsplit == \A f \in DOMAIN recorded : input.max = 0 \/ recorded[f] <= input.max

\* A file that is in two shards, one of a build and one of a shard make, would
\* be mounted with the bytes of both.
Once(f) == Len(IndexOf(Archive, f)) = 1

\* A built dataset gives its files back: from every format by unpacking, from tar
\* also shard by shard without the database, from bin also by FUSE reads of every
\* offset and length, with the size that stat shows.
BuiltRestores ==
    Settled /\ Unsplit =>
        /\ Unpack(Archive, Format) = Original
        /\ Format = "tar" =>
             FoldLeft(LAMBDA t, s : ShardUnpack(t, s.image), NoFiles, Archive) = Original
        /\ Format = "bin" => \A f \in {g \in DOMAIN recorded : Once(g)} :
             /\ FileSize(IndexOf(Archive, f)) = recorded[f]
             /\ \A off \in 0 .. recorded[f], length \in 1 .. recorded[f] + 1 :
                ReadAt(IndexOf(Archive, f), off, length)
                    = SubSeq(Original[f], off + 1, Min({off + length, recorded[f]}))

\* build-data takes the shards of a built dataset by number where a regular
\* expression captures one, ties and the rest by seq, each shard once.
BuildOrderExact ==
    status = "built" /\ Quiet => \A regex \in BOOLEAN :
        LET order == BuildOrder(regex)
        IN  /\ {order[i].name : i \in DOMAIN order} = {r.name : r \in shards}
            /\ Len(order) = Cardinality(shards)
            /\ \A i, j \in DOMAIN order : i < j =>
                  LET m == IF regex THEN NumberIn(order[i].name) ELSE 0
                      n == IF regex THEN NumberIn(order[j].name) ELSE 0
                  IN  m < n \/ (m = n /\ order[i].seq < order[j].seq)

\* gen_def.go: a file larger than the limit is split into several segments,
\* which together are the file.
SplitFilesRestored == Settled => Unpack(Archive, Format) = Original
==============================================================================
