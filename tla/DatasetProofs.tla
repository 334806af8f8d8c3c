----------------------------- MODULE DatasetProofs -----------------------------
(***************************************************************************)
(* The numbers of the shards of a dataset: 0 .. n-1, each given once, and  *)
(* never another one to a shard that has one, for any number of processes, *)
(* definitions and files.                                                  *)
(***************************************************************************)
EXTENDS DatasetInv, PackingProofs

\* A step of process p that leaves the rows alone.
LEMMA ProcStep ==
    ASSUME SeqInv, UNCHANGED <<shards, input>>, NEW p \in Procs, NEW how,
           proc' = [proc EXCEPT ![p] = how], Fits(how),
           \A q \in Procs \ {p} : Apart(how, proc[q])
    PROVE  SeqInv'
<1>1. proc'[p] = how /\ DOMAIN proc' = Procs /\ \A q \in Procs \ {p} : proc'[q] = proc[q]
  BY DEF SeqInv
<1>2. \A q \in Procs : Fits(proc'[q])
  BY <1>1 DEF SeqInv
<1>3. \A q \in Procs : Fits(proc[q])'
  BY <1>2 DEF Fits, Typed, Numbered, Follows, Chosen, RowOf, Busy, Current, Fields, ExternalJob
<1>4. ASSUME NEW q \in Procs, NEW o \in Procs, q # o PROVE Apart(proc'[q], proc'[o])
  <2>1. Apart(proc[q], proc[o])  BY <1>4 DEF SeqInv
  <2>2. CASE q = p  BY <1>1, <1>4, <2>2
  <2>3. CASE o = p  BY <1>1, <1>4, <2>3 DEF Apart
  <2>4. CASE q # p /\ o # p  BY <1>1, <2>1, <2>4
  <2> QED  BY <2>2, <2>3, <2>4
<1>5. RowsNamed' /\ SeqsContiguous'
  BY DEF SeqInv, RowsNamed, SeqsContiguous
<1> QED  BY <1>1, <1>3, <1>4, <1>5 DEF SeqInv, Apart, Busy, Current

\* A process that ends, or is at no job and builds nothing, is in nobody's way.
LEMMA GoneFits == Fits(Gone) /\ \A v : Apart(Gone, v)
BY DEF Gone, Fits, Typed, Numbered, Follows, Chosen, Apart, Busy, Current, Fields

\* A process that ends leaves the numbers as they are.
LEMMA QuitSafe ==
    ASSUME SeqInv, UNCHANGED <<shards, input>>, NEW p \in Procs, Quit(p)
    PROVE  SeqInv'
BY GoneFits, ProcStep DEF Quit

\* The fields of a row that goes on to pc; the job and the command stay.
LEMMA Goes ==
    ASSUME NEW w, Typed(w), NEW pc
    PROVE  LET how == [w EXCEPT !.pc = pc]
           IN  /\ DOMAIN how = Fields /\ how.pc = pc
               /\ how.cmd = w.cmd /\ how.meta = w.meta
               /\ how.jobs = w.jobs /\ how.at = w.at /\ how.seq = w.seq
BY DEF Typed, Fields

\* The command and the job of p are those of another record.
LEMMA ApartSame ==
    ASSUME NEW w, NEW v, NEW u, Apart(w, v), u.cmd = w.cmd, u.jobs = w.jobs, u.at = w.at
    PROVE  Apart(u, v)
BY DEF Apart, Busy, Current

\* No shard has a number.
LEMMA InitSafe == ASSUME Init PROVE SeqInv
<1>1. DOMAIN proc = Procs /\ \A p \in Procs : proc[p] = Gone  BY DEF Init
<1>2. shards = {} /\ IsFiniteSet(shards) /\ Cardinality(shards) = 0  BY FS_EmptySet DEF Init
<1>3. RowsNamed  BY <1>2 DEF RowsNamed
<1>4. SeqsContiguous  BY <1>2 DEF SeqsContiguous
<1> QED  BY <1>1, <1>3, <1>4, GoneFits DEF SeqInv

\* The number of rows is a number, and the next free number.
LEMMA NextFree ==
    ASSUME SeqInv
    PROVE  /\ Cardinality(shards) \in Nat
           /\ \A r \in shards : r.seq \in Nat /\ r.seq < Cardinality(shards)
           /\ \A s \in Nat : s < Cardinality(shards) => \E r \in shards : r.seq = s
           /\ \A s \in NextSeqNo : s = Cardinality(shards)
<1>1. Cardinality(shards) \in Nat  BY FS_CardinalityType DEF SeqInv, RowsNamed
<1>2. \A r \in shards : r.seq \in Nat /\ r.seq < Cardinality(shards)
  <2> TAKE r \in shards
  <2>1. r.seq \in {s \in 0 .. Cardinality(shards) : s < Cardinality(shards)}
    BY DEF SeqInv, SeqsContiguous
  <2> QED  BY <1>1, <2>1
<1>3. \A s \in Nat : s < Cardinality(shards) => \E r \in shards : r.seq = s
  <2> TAKE s \in Nat
  <2> HAVE s < Cardinality(shards)
  <2>1. s \in {n \in 0 .. Cardinality(shards) : n < Cardinality(shards)}  BY <1>1
  <2>2. s \in {r.seq : r \in shards}  BY <2>1 DEF SeqInv, SeqsContiguous
  <2> QED  BY <2>2
<1>4. ASSUME NEW s \in NextSeqNo PROVE s = Cardinality(shards)
  <2>1. s \in {0} \cup {r.seq + 1 : r \in shards} /\ \A r \in shards : r.seq < s
    BY DEF NextSeqNo
  <2>2. s \in Nat /\ s <= Cardinality(shards)  BY <1>1, <1>2, <2>1
  <2>3. ~ s < Cardinality(shards)
    <3> SUFFICES ASSUME s < Cardinality(shards) PROVE FALSE  OBVIOUS
    <3>1. PICK r \in shards : r.seq = s  BY <1>3, <2>2
    <3> QED  BY <2>1, <2>2, <3>1
  <2> QED  BY <1>1, <2>2, <2>3
<1> QED  BY <1>1, <1>2, <1>3, <1>4

-----------------------------------------------------------------------------
\* Steps of dataset create before it builds.
LEMMA CreateSafe ==
    ASSUME SeqInv, NEW p \in Procs, CreateRow(p) \/ ScanBatch(p) \/ CreateConfig(p)
    PROVE  SeqInv'
<1> DEFINE w == proc[p]
<1>1. Fits(w) /\ \A q \in Procs \ {p} : Apart(w, proc[q])  BY DEF SeqInv
<1>2. CASE CreateRow(p)
  <2> DEFINE how == [Gone EXCEPT !.pc = "scan", !.left = DOMAIN disk]
  <2>1. Fits(how) /\ \A v : Apart(how, v)
    BY DEF Gone, Fits, Typed, Numbered, Follows, Chosen, Apart, Busy, Current, Fields
  <2>2. proc' = [proc EXCEPT ![p] = how] /\ UNCHANGED <<shards, input>>  BY <1>2 DEF CreateRow
  <2> HIDE DEF how
  <2> QED  BY <2>1, <2>2, ProcStep
<1>3. CASE ScanBatch(p)
  <2>1. PICK left : proc' = [proc EXCEPT ![p].left = left]
    <3>1. proc' = [proc EXCEPT ![p].left = @ \ {Min(proc[p].left)}]  BY <1>3 DEF ScanBatch
    <3> QED  BY <3>1
  <2> DEFINE how == [w EXCEPT !.left = left]
  <2>2. /\ DOMAIN how = Fields /\ how.pc = w.pc /\ how.cmd = w.cmd
        /\ how.meta = w.meta /\ how.jobs = w.jobs /\ how.at = w.at
    BY <1>1 DEF Fits, Typed, Fields
  <2>3. proc' = [proc EXCEPT ![p] = how] /\ UNCHANGED <<shards, input>> /\ w.pc = "scan"
    BY <1>3, <2>1 DEF ScanBatch, At
  <2> HIDE DEF how
  <2>4. Fits(how)
    BY <1>1, <2>2, <2>3 DEF Fits, Typed, Numbered, Follows, Chosen, Busy, Current
  <2> QED  BY <1>1, <2>2, <2>3, <2>4, ApartSame, ProcStep
<1>4. CASE CreateConfig(p)
  <2>1. UNCHANGED <<shards, input>> /\ w.pc = "scan"  BY <1>4 DEF CreateConfig, At
  <2>2. CASE Quit(p)  BY <2>1, <2>2, QuitSafe
  <2>3. CASE proc' = [proc EXCEPT ![p].pc = "plan", ![p].meta = Asked]
    <3> DEFINE how == [w EXCEPT !.pc = "plan", !.meta = Asked]
    <3>1. /\ DOMAIN how = Fields /\ how.pc = "plan"
          /\ how.cmd = w.cmd /\ how.jobs = w.jobs /\ how.at = w.at
      BY <1>1 DEF Fits, Typed, Fields
    <3>2. proc' = [proc EXCEPT ![p] = how]  BY <2>3 DEF SeqInv
    <3> HIDE DEF how
    <3>3. w.cmd = "none"  BY <1>1, <2>1 DEF Fits, Typed
    <3>4. Fits(how)
      BY <1>1, <2>1, <3>1, <3>3 DEF Fits, Typed, Numbered, Follows, Chosen, Busy, Current
    <3> QED  BY <1>1, <2>1, <3>1, <3>2, <3>4, ApartSame, ProcStep
  <2> QED  BY <1>4, <2>2, <2>3 DEF CreateConfig
<1> QED  BY <1>2, <1>3, <1>4

\* A build begins with the first number.
LEMMA BuildsSafe ==
    ASSUME SeqInv, NEW p \in Procs, NEW meta, Builds(p, meta), UNCHANGED <<shards, input>>,
           \A q \in Procs : proc[q].cmd # "build"
    PROVE  SeqInv'
<1> DEFINE jobs == BuildJobs(meta)
<1>1. \A i \in DOMAIN jobs : jobs[i].name = <<"build", i - 1, FormatIn(meta)>> /\ jobs[i].seq = i - 1
  BY DEF BuildJobs
<1>2. CASE 1 \notin DOMAIN jobs
  <2> DEFINE how == [[Gone EXCEPT !.cmd = "build", !.meta = meta] EXCEPT !.pc = "count"]
  <2>1. Fits(how) /\ how.cmd = "build" /\ ~Busy(how)
    BY DEF Gone, Fits, Typed, Numbered, Follows, Chosen, Busy, Current, Fields
  <2>2. proc' = [proc EXCEPT ![p] = how]  BY <1>2 DEF Builds
  <2> HIDE DEF how
  <2>3. \A q \in Procs \ {p} : Apart(how, proc[q])  BY <2>1 DEF Apart
  <2> QED  BY <2>1, <2>2, <2>3, ProcStep
<1>3. CASE 1 \in DOMAIN jobs
  <2> DEFINE how == [[Gone EXCEPT !.cmd = "build", !.meta = meta]
                       EXCEPT !.pc = "read", !.jobs = jobs, !.at = 1]
  <2>2. proc' = [proc EXCEPT ![p] = how]  BY <1>3 DEF Builds
  <2>3. 1 \in DOMAIN jobs  BY <1>3
  <2> HIDE DEF jobs
  <2>4. /\ DOMAIN how = Fields /\ how.cmd = "build" /\ how.meta = meta
        /\ how.pc = "read" /\ how.jobs = jobs /\ how.at = 1
    BY DEF Gone, Fields
  <2> HIDE DEF how
  <2>5. Cardinality(shards) \in Nat  BY NextFree
  <2>6. Fits(how)
    BY <1>1, <2>3, <2>4, <2>5 DEF Fits, Typed, Numbered, Follows, Chosen, Busy, Current
  <2>7. ASSUME NEW q \in Procs \ {p} PROVE Apart(how, proc[q])
    <3>1. Fits(proc[q]) /\ proc[q].cmd # "build"  BY DEF SeqInv
    <3>2. Current(how).name = <<"build", 1 - 1, FormatIn(meta)>>
      BY <1>1, <2>3, <2>4 DEF Current
    <3>3. ASSUME Busy(proc[q]) PROVE \E f : Current(proc[q]).name = <<"make", f>>
      <4>1. PICK f \in DOMAIN input.sizes : Current(proc[q]) = ExternalJob(f)
        BY <3>1, <3>3 DEF Fits, Typed, Numbered
      <4> QED  BY <4>1 DEF ExternalJob
    <3>4. ASSUME NEW f PROVE <<"make", f>> # <<"build", 1 - 1, FormatIn(meta)>>  OBVIOUS
    <3> QED  BY <3>1, <3>2, <3>3, <3>4 DEF Apart
  <2> QED  BY <2>2, <2>6, <2>7, ProcStep
<1> QED  BY <1>2, <1>3

LEMMA PlanSafe == ASSUME SeqInv, NEW p \in Procs, Plan(p) PROVE SeqInv'
<1>1. /\ UNCHANGED <<shards, input>> /\ \A q \in Procs : proc[q].cmd # "build"
      /\ Builds(p, proc[p].meta) \/ Builds(p, config)
  BY DEF Plan, db
<1> QED  BY <1>1, BuildsSafe

\* A shard make begins on a name nobody works on.
LEMMA ShardMakeSafe ==
    ASSUME SeqInv, NEW p \in Procs, NEW f \in DOMAIN input.sizes, ShardMake(p, f)
    PROVE  SeqInv'
<1> DEFINE job == ExternalJob(f)
           how == [Gone EXCEPT !.cmd = "make", !.meta = config, !.pc = "read",
                               !.at = 1, !.jobs = <<job>>]
<1>1. /\ UNCHANGED <<shards, input>> /\ proc' = [proc EXCEPT ![p] = how]
      /\ \A q \in Procs : Busy(proc[q]) => Current(proc[q]).name # job.name
  BY DEF ShardMake, db, Working, Job, Busy, Current
<1> HIDE DEF job
<1>2. /\ DOMAIN how = Fields /\ how.cmd = "make" /\ how.pc = "read"
      /\ how.jobs = <<job>> /\ how.at = 1
  BY DEF Gone, Fields
<1>3. Current(how) = job /\ 1 \in DOMAIN <<job>> /\ 1 + 1 \notin DOMAIN <<job>>
  BY <1>2 DEF Current
<1> HIDE DEF how
<1>4. Fits(how)
  <2>1. Typed(how)  BY <1>2, <1>3 DEF Typed, Busy
  <2>2. Numbered(how)  BY <1>2, <1>3 DEF Numbered, Busy, job
  <2> QED  BY <1>2, <2>1, <2>2 DEF Fits, Follows, Chosen
<1>5. \A q \in Procs \ {p} : Apart(how, proc[q])
  BY <1>1, <1>2, <1>3 DEF Apart
<1> QED  BY <1>1, <1>4, <1>5, ProcStep

-----------------------------------------------------------------------------
\* A process that works, on a job it has.
LEMMA Works ==
    ASSUME SeqInv, NEW p \in Procs, proc[p].pc \in {"read", "write", "row", "segments"}
    PROVE  /\ Fits(proc[p]) /\ Busy(proc[p]) /\ Job(p) = Current(proc[p])
           /\ \A q \in Procs \ {p} : Apart(proc[p], proc[q])
BY DEF SeqInv, Fits, Typed, Job, Current

\* Reading the sources changes no number.
LEMMA ReadSafe == ASSUME SeqInv, NEW p \in Procs, ReadSources(p) PROVE SeqInv'
<1> DEFINE w == proc[p]
<1>1. UNCHANGED <<shards, input>> /\ w.pc = "read"  BY DEF ReadSources, db, At
<1>2. Fits(w) /\ Busy(w) /\ \A q \in Procs \ {p} : Apart(w, proc[q])  BY <1>1, Works
<1>3. PICK unknown, image :
        proc' = [proc EXCEPT ![p].pc = "write", ![p].unknown = unknown, ![p].image = image]
  BY DEF ReadSources
<1> DEFINE how == [w EXCEPT !.pc = "write", !.unknown = unknown, !.image = image]
<1>4. /\ DOMAIN how = Fields /\ how.pc = "write"
      /\ how.cmd = w.cmd /\ how.meta = w.meta /\ how.jobs = w.jobs /\ how.at = w.at
  BY <1>2 DEF Fits, Typed, Fields
<1>5. proc' = [proc EXCEPT ![p] = how]  BY <1>3 DEF SeqInv
<1> HIDE DEF how
<1>6. Fits(how)
  BY <1>1, <1>2, <1>4 DEF Fits, Typed, Numbered, Follows, Chosen, Busy, Current
<1> QED  BY <1>1, <1>2, <1>4, <1>5, <1>6, ApartSame, ProcStep

\* The number a process chooses when it has written the file.
LEMMA ChoosesRight ==
    ASSUME SeqInv, NEW p \in Procs, At(p, "write"), NEW s \in ChosenSeq(Job(p))
    PROVE  /\ s \in Nat /\ s <= Cardinality(shards)
           /\ proc[p].cmd = "build" => s = proc[p].at - 1
           /\ \A r \in RowOf(Job(p).name) : r.seq = s
<1> DEFINE w == proc[p]
<1>1. Fits(w) /\ Busy(w) /\ Job(p) = Current(w)  BY Works DEF At
<1>2. Cardinality(shards) \in Nat /\ \A r \in shards : r.seq \in Nat /\ r.seq < Cardinality(shards)
  BY NextFree
<1>3. CASE w.cmd = "build"
  <2>1. /\ w.at \in Nat /\ w.at > 0 /\ Job(p).seq = w.at - 1
        /\ Job(p).name = <<"build", w.at - 1, FormatIn(w.meta)>>
    BY <1>1, <1>3 DEF Fits, Typed, Numbered, Busy, Current
  <2>2. w.at - 1 \in Nat /\ w.at - 1 # None  BY <2>1, DatasetAssumption
  <2>3. s = w.at - 1  BY <2>1, <2>2 DEF ChosenSeq
  <2>4. s <= Cardinality(shards)  BY <1>1, <1>3, <2>3 DEF Fits, Follows
  <2>5. ASSUME NEW r \in RowOf(Job(p).name) PROVE r.seq = s
    <3>1. r \in shards /\ r.name[1] = "build" /\ r.name[2] = s  BY <2>1, <2>3 DEF RowOf
    <3>2. r.name[2] = r.seq  BY <3>1 DEF SeqInv, RowsNamed
    <3> QED  BY <3>1, <3>2
  <2> QED  BY <2>2, <2>3, <2>4, <2>5
<1>4. CASE w.cmd = "make"
  <2>1. Job(p).seq = None
    <3>1. PICK f \in DOMAIN input.sizes : Job(p) = ExternalJob(f)  BY <1>1, <1>4 DEF Fits, Numbered
    <3> QED  BY <3>1 DEF ExternalJob
  <2>2. CASE RowOf(Job(p).name) = {}
    <3>1. s = Cardinality(shards)  BY <2>1, <2>2, NextFree DEF ChosenSeq
    <3> QED  BY <1>2, <1>4, <2>2, <3>1
  <2>3. CASE RowOf(Job(p).name) # {}
    <3>1. PICK r \in RowOf(Job(p).name) : s = r.seq  BY <2>1, <2>3 DEF ChosenSeq
    <3>2. \A q \in RowOf(Job(p).name) : q = r  BY <3>1 DEF RowOf, SeqInv, RowsNamed
    <3>3. r \in shards  BY <3>1 DEF RowOf
    <3> QED  BY <1>2, <1>4, <3>1, <3>2, <3>3
  <2> QED  BY <2>2, <2>3
<1> QED  BY <1>1, <1>3, <1>4 DEF Fits, Typed

\* The number is chosen when the file is written.
LEMMA WriteSafe == ASSUME SeqInv, NEW p \in Procs, WriteImage(p) PROVE SeqInv'
<1> DEFINE w == proc[p]
<1>1. UNCHANGED <<shards, input>> /\ w.pc = "write"  BY DEF WriteImage, db, At
<1>2. Fits(w) /\ Busy(w) /\ Job(p) = Current(w) /\ \A q \in Procs \ {p} : Apart(w, proc[q])
  BY <1>1, Works
<1>3. PICK s \in ChosenSeq(Job(p)) : proc' = [proc EXCEPT ![p].pc = "row", ![p].seq = s]
  BY DEF WriteImage
<1> DEFINE how == [w EXCEPT !.pc = "row", !.seq = s]
<1>4. /\ DOMAIN how = Fields /\ how.pc = "row" /\ how.seq = s
      /\ how.cmd = w.cmd /\ how.meta = w.meta /\ how.jobs = w.jobs /\ how.at = w.at
  BY <1>2 DEF Fits, Typed, Fields
<1>5. proc' = [proc EXCEPT ![p] = how]  BY <1>3 DEF SeqInv
<1> HIDE DEF how
<1>6. /\ s \in Nat /\ s <= Cardinality(shards) /\ (w.cmd = "build" => s = w.at - 1)
      /\ \A r \in RowOf(Job(p).name) : r.seq = s
  BY <1>1, ChoosesRight DEF At
<1>7. Chosen(how)  BY <1>2, <1>4, <1>6 DEF Chosen, Current
<1>8. Fits(how)
  BY <1>1, <1>2, <1>4, <1>7 DEF Fits, Typed, Numbered, Follows, Busy, Current
<1> QED  BY <1>1, <1>2, <1>4, <1>5, <1>8, ApartSame, ProcStep

\* The next job of a build, or the end.
LEMMA ReplaceSafe == ASSUME SeqInv, NEW p \in Procs, ReplaceSegments(p) PROVE SeqInv'
<1> DEFINE w == proc[p]
           next == w.at + 1
<1>1. UNCHANGED <<shards, input>> /\ w.pc = "segments"  BY DEF ReplaceSegments, At
<1>2. Fits(w) /\ Busy(w) /\ \A q \in Procs \ {p} : Apart(w, proc[q])  BY <1>1, Works
<1>3. CASE next \in DOMAIN w.jobs
  <2> DEFINE how == [w EXCEPT !.pc = "read", !.at = next]
  <2>1. /\ DOMAIN how = Fields /\ how.pc = "read" /\ how.cmd = w.cmd /\ how.meta = w.meta
        /\ how.jobs = w.jobs /\ how.at = next
    BY <1>2 DEF Fits, Typed, Fields
  <2>2. proc' = [proc EXCEPT ![p] = how]  BY <1>3 DEF ReplaceSegments, SeqInv
  <2>3. w.cmd = "build" /\ w.at \in Nat  BY <1>2, <1>3 DEF Fits, Typed, Numbered
  <2> HIDE DEF how
  <2>4. Cardinality(shards) \in Nat  BY NextFree
  <2>5. Fits(how)
    <3>1. Typed(how)  BY <1>3, <2>1, <2>3 DEF Typed, Busy
    <3>2. Numbered(how)  BY <1>2, <2>1, <2>3 DEF Fits, Numbered
    <3>3. Follows(how)  BY <1>1, <1>2, <2>1, <2>3, <2>4 DEF Fits, Follows
    <3> QED  BY <2>1, <3>1, <3>2, <3>3 DEF Fits, Chosen
  <2>6. ASSUME NEW q \in Procs \ {p} PROVE Apart(how, proc[q])
    <3>1. Fits(proc[q]) /\ proc[q].cmd # "build"  BY <1>2, <2>3 DEF SeqInv, Apart
    <3>2. Current(how).name = <<"build", next - 1, FormatIn(w.meta)>>
      BY <1>2, <1>3, <2>1, <2>3 DEF Current, Fits, Numbered
    <3>3. ASSUME Busy(proc[q]) PROVE \E f : Current(proc[q]).name = <<"make", f>>
      <4>1. PICK f \in DOMAIN input.sizes : Current(proc[q]) = ExternalJob(f)
        BY <3>1, <3>3 DEF Fits, Typed, Numbered
      <4> QED  BY <4>1 DEF ExternalJob
    <3>4. ASSUME NEW f PROVE <<"make", f>> # <<"build", next - 1, FormatIn(w.meta)>>  OBVIOUS
    <3> QED  BY <3>1, <3>2, <3>3, <3>4 DEF Apart
  <2> QED  BY <1>1, <2>2, <2>5, <2>6, ProcStep
<1>4. CASE next \notin DOMAIN w.jobs /\ w.cmd = "build"
  <2> DEFINE how == [Gone EXCEPT !.cmd = "build", !.pc = "count", !.meta = w.meta]
  <2>1. Fits(how) /\ how.cmd = "build" /\ ~Busy(how)
    BY DEF Gone, Fits, Typed, Numbered, Follows, Chosen, Busy, Current, Fields
  <2>2. proc' = [proc EXCEPT ![p] = how]  BY <1>4 DEF ReplaceSegments
  <2> HIDE DEF how
  <2>3. \A q \in Procs \ {p} : Apart(how, proc[q])  BY <1>2, <1>4, <2>1 DEF Apart
  <2> QED  BY <1>1, <2>1, <2>2, <2>3, ProcStep
<1>5. CASE next \notin DOMAIN w.jobs /\ w.cmd # "build"
  <2>1. Quit(p)  BY <1>5 DEF ReplaceSegments
  <2> QED  BY <1>1, <2>1, QuitSafe
<1> QED  BY <1>3, <1>4, <1>5

\* mark-built, and the write of the number of shards, work on no shard.
LEMMA MarkSafe ==
    ASSUME SeqInv, NEW p \in Procs, MarkRead(p) \/ MarkCheck(p) \/ WriteCount(p)
    PROVE  SeqInv'
<1> DEFINE w == proc[p]
<1>1. Fits(w) /\ \A q \in Procs \ {p} : Apart(w, proc[q])  BY DEF SeqInv
<1>2. UNCHANGED <<shards, input>>  BY DEF MarkRead, MarkCheck, WriteCount, db
<1>3. CASE MarkRead(p)
  <2> DEFINE how == [Gone EXCEPT !.cmd = "mark", !.pc = "check", !.meta = config]
  <2>1. Fits(how) /\ \A v : Apart(how, v)
    BY DEF Gone, Fits, Typed, Numbered, Follows, Chosen, Apart, Busy, Current, Fields
  <2>2. proc' = [proc EXCEPT ![p] = how]  BY <1>3 DEF MarkRead
  <2> HIDE DEF how
  <2> QED  BY <1>2, <2>1, <2>2, ProcStep
<1>4. CASE MarkCheck(p)
  <2> DEFINE how == [w EXCEPT !.pc = "count"]
  <2>1. /\ DOMAIN how = Fields /\ how.pc = "count" /\ how.cmd = w.cmd
        /\ how.meta = w.meta /\ how.jobs = w.jobs /\ how.at = w.at
    BY <1>1, Goes DEF Fits
  <2>2. proc' = [proc EXCEPT ![p] = how] /\ w.pc = "check"  BY <1>4 DEF MarkCheck, Go, At
  <2> HIDE DEF how
  <2>3. Fits(how)
    BY <1>1, <2>1, <2>2 DEF Fits, Typed, Numbered, Follows, Chosen, Busy, Current
  <2> QED  BY <1>1, <1>2, <2>1, <2>2, <2>3, ApartSame, ProcStep
<1>5. CASE WriteCount(p)
  <2> DEFINE how == [Gone EXCEPT !.cmd = w.cmd, !.pc = "status"]
  <2>1. Fits(how) /\ how.cmd = w.cmd /\ ~Busy(how)
    BY DEF Gone, Fits, Typed, Numbered, Follows, Chosen, Busy, Current, Fields
  <2>2. proc' = [proc EXCEPT ![p] = how]  BY <1>5 DEF WriteCount
  <2> HIDE DEF how
  <2>3. \A q \in Procs \ {p} : Apart(how, proc[q])  BY <1>1, <2>1 DEF Apart
  <2> QED  BY <1>2, <2>1, <2>2, <2>3, ProcStep
<1> QED  BY <1>3, <1>4, <1>5

-----------------------------------------------------------------------------
\* The rows after the upsert: the path of p has its number, the others keep theirs,
\* and the numbers are still those below the count.
LEMMA Upserted ==
    ASSUME SeqInv, NEW p \in Procs, UpsertRow(p)
    PROVE  LET name == Job(p).name
               s    == proc[p].seq
           IN  /\ \A r \in shards' : r.name = name => r.seq = s
               /\ \E r \in shards' : r.name = name /\ r.seq = s
               /\ \A r \in shards : r.name = name => r.seq = s
               /\ \A r : r.name # name => (r \in shards' <=> r \in shards)
               /\ \A r, q \in shards' : r.name = q.name => r = q
               /\ IsFiniteSet(shards') /\ SeqsContiguous'
               /\ Cardinality(shards') \in Nat /\ Cardinality(shards) <= Cardinality(shards')
               /\ s < Cardinality(shards')
<1> DEFINE name == Job(p).name
           s    == proc[p].seq
           new  == [name |-> name, seq |-> s, image |-> proc[p].image]
           n    == Cardinality(shards)
<1>1. /\ s \in Nat /\ s <= n
      /\ \A r \in shards : r.name = name => r.seq = s
  BY Works DEF UpsertRow, At, Fits, Chosen, RowOf
<1>2. /\ n \in Nat
      /\ \A r \in shards : r.seq \in Nat /\ r.seq < n
      /\ \A i \in Nat : i < n => \E r \in shards : r.seq = i
  BY NextFree
<1>3. \A r \in shards : r.seq = s => r.name = name  BY DEF UpsertRow, Taken
<1>4. shards' = (shards \ RowOf(name)) \cup {new}  BY DEF UpsertRow
<1>5. new.name = name /\ new.seq = s  OBVIOUS
<1>6. /\ IsFiniteSet(shards) /\ \A r, q \in shards : r.name = q.name => r = q
      /\ \A r, q \in shards : r.seq = q.seq => r = q
  BY DEF SeqInv, RowsNamed, SeqsContiguous
<1> HIDE DEF name, s, new, n
<1>7. /\ IsFiniteSet(shards') /\ Cardinality(shards') \in Nat
      /\ \/ Cardinality(shards') = n /\ s < n
         \/ Cardinality(shards') = n + 1 /\ s = n
  <2>1. CASE RowOf(name) = {}
    <3>1. s = n
      <4>1. ~ s < n  BY <1>1, <1>2, <1>3, <2>1 DEF RowOf
      <4> QED  BY <1>1, <1>2, <4>1
    <3>2. shards' = shards \cup {new} /\ new \notin shards  BY <1>4, <1>5, <2>1 DEF RowOf
    <3>3. IsFiniteSet(shards') /\ Cardinality(shards') = n + 1
      BY <1>6, <3>2, FS_AddElement DEF n
    <3> QED  BY <1>2, <3>1, <3>3
  <2>2. CASE RowOf(name) # {}
    <3>1. PICK r0 \in shards : r0.name = name  BY <2>2 DEF RowOf
    <3>2. RowOf(name) = {r0}  BY <1>6, <3>1 DEF RowOf
    <3>3. IsFiniteSet(shards \ {r0}) /\ Cardinality(shards \ {r0}) = n - 1
      BY <1>6, <3>1, FS_RemoveElement DEF n
    <3>4. new \notin shards \ {r0}  BY <1>5, <3>2 DEF RowOf
    <3>5. IsFiniteSet(shards') /\ Cardinality(shards') = n - 1 + 1
      BY <1>4, <3>2, <3>3, <3>4, FS_AddElement
    <3>6. s < n  BY <1>1, <1>2, <3>1
    <3> QED  BY <1>2, <3>5, <3>6
  <2> QED  BY <2>1, <2>2
<1>8. \A r : r.name # name => (r \in shards' <=> r \in shards)  BY <1>4, <1>5 DEF RowOf
<1>9. \A r \in shards' : r.name = name => r = new  BY <1>4, <1>5 DEF RowOf
<1>10. new \in shards'  BY <1>4
<1>11. \A r \in shards' : r.name # name => r.seq # s  BY <1>3, <1>8
<1>12. SeqsContiguous'
  <2>1. \A r \in shards' : r.seq \in Nat /\ r.seq < Cardinality(shards')
    BY <1>1, <1>2, <1>5, <1>7, <1>8, <1>9
  <2>2. ASSUME NEW i \in Nat, i < Cardinality(shards') PROVE \E r \in shards' : r.seq = i
    <3>1. CASE i = s  BY <1>5, <1>10, <3>1
    <3>2. CASE i # s
      <4>1. i < n  BY <1>2, <1>7, <2>2, <3>2
      <4>2. PICK r \in shards : r.seq = i  BY <1>2, <4>1
      <4>3. r.name # name  BY <1>1, <3>2, <4>2
      <4> QED  BY <1>8, <4>2, <4>3
    <3> QED  BY <3>1, <3>2
  <2>3. {r.seq : r \in shards'} = {i \in 0 .. Cardinality(shards') : i < Cardinality(shards')}
    BY <1>7, <2>1, <2>2
  <2>4. ASSUME NEW r \in shards', NEW q \in shards', r.seq = q.seq PROVE r = q
    BY <1>5, <1>6, <1>8, <1>9, <1>11, <2>4
  <2> QED  BY <2>3, <2>4 DEF SeqsContiguous
<1>13. \A r, q \in shards' : r.name = q.name => r = q  BY <1>6, <1>8, <1>9
<1>14. n <= Cardinality(shards') /\ s < Cardinality(shards')  BY <1>2, <1>7
<1> QED  BY <1>1, <1>5, <1>7, <1>8, <1>9, <1>10, <1>12, <1>13, <1>14 DEF name, s, n

\* The row is inserted under the number.
LEMMA UpsertSafe == ASSUME SeqInv, NEW p \in Procs, UpsertRow(p) PROVE SeqInv'
<1> DEFINE w    == proc[p]
           how  == [w EXCEPT !.pc = "segments"]
           n    == Cardinality(shards)
           m    == Cardinality(shards')
<1>1. input' = input /\ w.pc = "row" /\ proc' = [proc EXCEPT ![p] = how]
  BY DEF UpsertRow, At, Go
<1>2. Fits(w) /\ Busy(w) /\ Job(p) = Current(w) /\ \A q \in Procs \ {p} : Apart(w, proc[q])
  BY <1>1, Works
<1>3. /\ DOMAIN how = Fields /\ how.pc = "segments"
      /\ how.cmd = w.cmd /\ how.meta = w.meta /\ how.jobs = w.jobs /\ how.at = w.at
  BY <1>2, Goes DEF Fits
<1>4. /\ \E r \in shards' : r.name = Current(w).name /\ r.seq = w.seq
      /\ \A r \in shards' : r.name = Current(w).name => r.seq = w.seq
      /\ \A r : r.name # Current(w).name => (r \in shards' <=> r \in shards)
      /\ \A r, q \in shards' : r.name = q.name => r = q
      /\ IsFiniteSet(shards') /\ SeqsContiguous'
      /\ m \in Nat /\ n <= m /\ w.seq < m
  BY <1>2, Upserted
<1>5. n \in Nat  BY NextFree
<1>6. /\ proc'[p] = how /\ DOMAIN proc' = Procs
      /\ \A q \in Procs \ {p} : proc'[q] = proc[q]
  BY <1>1 DEF SeqInv
<1> HIDE DEF how, n, m
<1>7. Fits(proc[p])'
  <2>1. Typed(how) /\ Numbered(how)  BY <1>1, <1>2, <1>3 DEF Fits, Typed, Numbered, Busy, Current
  <2>2. ASSUME how.cmd = "build" PROVE how.at <= m
    <3>1. w.at \in Nat /\ w.seq = w.at - 1  BY <1>1, <1>2, <1>3, <2>2 DEF Fits, Typed, Chosen
    <3> QED  BY <1>3, <1>4, <3>1
  <2>3. Follows(proc[p])'
    BY <1>2, <1>3, <1>6, <2>2, <1>4 DEF Follows, Fits, Typed, m
  <2>4. Chosen(proc[p])'  BY <1>3, <1>6 DEF Chosen
  <2> QED  BY <1>1, <1>6, <2>1, <2>3, <2>4 DEF Fits, Typed, Numbered, Busy, Current
<1>8. ASSUME NEW q \in Procs \ {p} PROVE Fits(proc[q])'
  <2> DEFINE v == proc[q]
  <2>1. Fits(v) /\ Apart(w, v) /\ proc'[q] = v  BY <1>2, <1>6 DEF SeqInv
  <2>2. Typed(proc[q])' /\ Numbered(proc[q])'
    BY <1>1, <2>1 DEF Fits, Typed, Numbered, Busy, Current
  <2>3. Follows(proc[q])'
    BY <1>4, <1>5, <2>1 DEF Follows, Fits, Typed, Busy, n, m
  <2>4. ASSUME v.pc = "row"
        PROVE  /\ v.seq \in Nat /\ v.seq <= m /\ (v.cmd = "build" => v.seq = v.at - 1)
               /\ \A r \in shards' : r.name = Current(v).name => r.seq = v.seq
    <3>1. v.seq \in Nat /\ v.seq <= n /\ (v.cmd = "build" => v.seq = v.at - 1)
      BY <2>1, <2>4 DEF Fits, Chosen, n
    <3>2. Busy(v)  BY <2>1, <2>4 DEF Fits, Typed
    <3>3. Current(v).name # Current(w).name  BY <1>2, <2>1, <3>2 DEF Apart
    <3>4. \A r \in shards : r.name = Current(v).name => r.seq = v.seq
      BY <2>1, <2>4 DEF Fits, Chosen, RowOf
    <3>5. \A r \in shards' : r.name = Current(v).name => r.seq = v.seq
      BY <1>4, <3>3, <3>4
    <3> QED  BY <1>4, <1>5, <3>1, <3>5
  <2>5. Chosen(proc[q])'  BY <2>1, <2>4 DEF Chosen, RowOf, Current, m
  <2> QED  BY <2>2, <2>3, <2>5 DEF Fits
<1>9. ASSUME NEW q \in Procs, NEW o \in Procs, q # o PROVE Apart(proc'[q], proc'[o])
  <2>1. Apart(proc[q], proc[o])  BY <1>9 DEF SeqInv
  <2>2. \A v \in Procs : /\ proc'[v].cmd = proc[v].cmd
                        /\ proc'[v].jobs = proc[v].jobs /\ proc'[v].at = proc[v].at
    BY <1>3, <1>6
  <2> QED  BY <2>1, <2>2 DEF Apart, Busy, Current
<1>10. ASSUME NEW r \in shards', r.name[1] = "build" PROVE r.name[2] = r.seq
  <2>1. CASE r.name # Current(w).name  BY <1>4, <1>10, <2>1 DEF SeqInv, RowsNamed
  <2>2. CASE r.name = Current(w).name
    <3>1. r.seq = w.seq  BY <1>4, <2>2
    <3>2. CASE w.cmd = "build"
      BY <1>1, <1>2, <2>2, <3>1, <3>2 DEF Fits, Typed, Numbered, Chosen, Current
    <3>3. CASE w.cmd = "make"
      <4>1. PICK f \in DOMAIN input.sizes : Current(w) = ExternalJob(f)
        BY <1>2, <3>3 DEF Fits, Numbered
      <4>2. Current(w).name = <<"make", f>>  BY <4>1 DEF ExternalJob
      <4> QED  BY <1>10, <2>2, <4>2
    <3> QED  BY <1>2, <3>2, <3>3 DEF Fits, Typed
  <2> QED  BY <2>1, <2>2
<1>11. RowsNamed'  BY <1>4, <1>10 DEF RowsNamed
<1>12. \A q \in Procs : Fits(proc[q])'  BY <1>7, <1>8
<1> QED  BY <1>4, <1>6, <1>9, <1>11, <1>12 DEF SeqInv, Apart, Busy, Current

-----------------------------------------------------------------------------
\* Every step keeps the numbers.
LEMMA NextSafe == ASSUME SeqInv, [Next]_dvars PROVE SeqInv'
<1>1. ASSUME NEW p \in Procs, Step(p) PROVE SeqInv'
  <2>1. CASE CreateRow(p) \/ ScanBatch(p) \/ CreateConfig(p)  BY <2>1, CreateSafe
  <2>2. CASE Plan(p)  BY <2>2, PlanSafe
  <2>3. CASE \E f \in DOMAIN input.sizes : ShardMake(p, f)  BY <2>3, ShardMakeSafe
  <2>4. CASE ReadFails(p) \/ UpsertConflict(p) \/ SegmentsFail(p) \/ SetBuilt(p)
    BY <2>4, QuitSafe DEF ReadFails, UpsertConflict, SegmentsFail, SetBuilt, db
  <2>5. CASE ReadSources(p)  BY <2>5, ReadSafe
  <2>6. CASE WriteImage(p)  BY <2>6, WriteSafe
  <2>7. CASE UpsertRow(p)  BY <2>7, UpsertSafe
  <2>8. CASE ReplaceSegments(p)  BY <2>8, ReplaceSafe
  <2>9. CASE MarkRead(p) \/ MarkCheck(p) \/ WriteCount(p)  BY <2>9, MarkSafe
  <2> QED  BY <1>1, <2>1, <2>2, <2>3, <2>4, <2>5, <2>6, <2>7, <2>8, <2>9 DEF Step
<1>2. ASSUME NEW p \in Procs, Die(p) PROVE SeqInv'
  BY <1>2, QuitSafe DEF Die, db
<1>3. ASSUME UNCHANGED <<input, shards, proc>> PROVE SeqInv'
  <2>1. \A p \in Procs : Fits(proc[p])'
    BY <1>3 DEF SeqInv, Fits, Typed, Numbered, Follows, Chosen, RowOf, Busy, Current, Fields
  <2>2. RowsNamed' /\ SeqsContiguous'  BY <1>3 DEF SeqInv, RowsNamed, SeqsContiguous
  <2>3. \A p, q \in Procs : p # q => Apart(proc[p], proc[q])'
    BY <1>3 DEF SeqInv, Apart, Busy, Current
  <2> QED  BY <1>3, <2>1, <2>2, <2>3 DEF SeqInv
<1>4. ASSUME NEW f \in DOMAIN input.sizes, SourceChanges(f) PROVE SeqInv'
  BY <1>3, <1>4 DEF SourceChanges, db
<1>5. CASE UNCHANGED dvars  BY <1>3, <1>5 DEF dvars, db
<1> QED  BY <1>1, <1>2, <1>4, <1>5 DEF Next

\* What a process holds about the numbers is so in every state.
THEOREM SeqsStaySafe == Spec => []SeqInv
<1>1. Init => SeqInv  BY InitSafe
<1>2. SeqInv /\ [Next]_dvars => SeqInv'  BY NextSafe
<1> QED  BY <1>1, <1>2, PTL DEF Spec

\* Whatever builds, makes, retries, crashes and races happen, the shards of a
\* dataset are numbered 0 .. n-1, each number given once.
THEOREM SeqsStayContiguous == Spec => []SeqsContiguous
<1>1. SeqInv => SeqsContiguous  BY DEF SeqInv
<1> QED  BY <1>1, SeqsStaySafe, PTL

\* A path keeps its row and its number.
LEMMA StepKeepsSeqs ==
    ASSUME SeqInv, [Next]_dvars
    PROVE  [\A r \in shards : \E q \in shards' : q.name = r.name /\ q.seq = r.seq]_dvars
<1> SUFFICES \A r \in shards : \E q \in shards' : q.name = r.name /\ q.seq = r.seq  OBVIOUS
<1>1. CASE UNCHANGED shards  BY <1>1
<1>2. ASSUME NEW p \in Procs, UpsertRow(p)
      PROVE  \A r \in shards : \E q \in shards' : q.name = r.name /\ q.seq = r.seq
  <2> TAKE r \in shards
  <2>1. CASE r.name = Job(p).name  BY <1>2, <2>1, Upserted
  <2>2. CASE r.name # Job(p).name  BY <1>2, <2>2, Upserted
  <2> QED  BY <2>1, <2>2
<1>3. UNCHANGED shards \/ \E p \in Procs : UpsertRow(p)
  BY DEF Next, Step, Die, SourceChanges, CreateRow, ScanBatch, CreateConfig, Plan, ShardMake,
         ReadFails, ReadSources, WriteImage, UpsertConflict, ReplaceSegments, SegmentsFail,
         MarkRead, MarkCheck, WriteCount, SetBuilt, dvars, db
<1> QED  BY <1>1, <1>2, <1>3

\* A shard never gets another number, in any behaviour.
THEOREM SeqsStayStable == Spec => SeqStable
<1>1. SeqInv /\ [Next]_dvars
        => [\A r \in shards : \E q \in shards' : q.name = r.name /\ q.seq = r.seq]_dvars
  BY StepKeepsSeqs
<1> QED  BY <1>1, SeqsStaySafe, PTL DEF Spec, SeqStable

(***************************************************************************)
(* The order of the shards in build-data                                   *)
(***************************************************************************)

\* Where the elements of a concatenation are.
LEMMA Joined ==
    ASSUME NEW E, NEW s \in Seq(E), NEW t \in Seq(E)
    PROVE  /\ s \o t \in Seq(E) /\ Len(s \o t) = Len(s) + Len(t)
           /\ \A j \in 1 .. Len(s) : (s \o t)[j] = s[j]
           /\ \A j \in Len(s) + 1 .. Len(s) + Len(t) : (s \o t)[j] = t[j - Len(s)]
OBVIOUS

\* The list new is acc with x at the place at, where x is before all that follow.
CutAt(acc, x, new, at) ==
    /\ \A j \in at .. Len(acc) : Before(x, acc[j])
    /\ at = 1 \/ ~Before(x, acc[at - 1])
    /\ Len(new) = Len(acc) + 1
    /\ new[at] = x
    /\ \A j \in 1 .. at - 1 : new[j] = acc[j]
    /\ \A j \in at + 1 .. Len(acc) + 1 : new[j] = acc[j - 1]

\* Insert finds such a place, whatever the order is.
LEMMA InsertRight ==
    ASSUME NEW E, NEW acc \in Seq(E), NEW x \in E
    PROVE  /\ Insert(acc, x) \in Seq(E)
           /\ \E at \in 1 .. Len(acc) + 1 : CutAt(acc, x, Insert(acc, x), at)
<1> DEFINE n == Len(acc)
           P(i) == /\ \A j \in i .. n : Before(x, acc[j])
                   /\ i = 1 \/ ~Before(x, acc[i - 1])
           U == {i \in 1 .. n + 1 : \A j \in i .. n : Before(x, acc[j])}
<1>1. n \in Nat /\ DOMAIN acc = 1 .. n  OBVIOUS
<1>2. \E i \in 1 .. n + 1 : P(i)
  <2>1. U \in SUBSET Nat /\ n + 1 \in U  BY <1>1
  <2>2. PICK i \in U : \A m \in U : i <= m
    <3> HIDE DEF U
    <3> QED  BY <2>1, LeastNat
  <2>3. i \in 1 .. n + 1 /\ \A j \in i .. n : Before(x, acc[j])  OBVIOUS
  <2>4. CASE i = 1  BY <2>3, <2>4
  <2>5. CASE i # 1
    <3>1. i - 1 \in 1 .. n + 1 /\ i - 1 \notin U  BY <1>1, <2>2, <2>3, <2>5
    <3>2. PICK j \in i - 1 .. n : ~Before(x, acc[j])  BY <3>1
    <3>3. j = i - 1  BY <1>1, <2>3, <3>2
    <3> QED  BY <2>3, <3>2, <3>3
  <2> QED  BY <2>4, <2>5
<1> DEFINE at == CHOOSE i \in 1 .. n + 1 : P(i)
<1>3. at \in 1 .. n + 1 /\ P(at)
  <2> HIDE DEF P, n
  <2> QED  BY <1>2
<1>4. Insert(acc, x) = SubSeq(acc, 1, at - 1) \o <<x>> \o SubSeq(acc, at, n)
  BY Zenon DEF Insert, InsertAt
<1> HIDE DEF at, P, U
<1> DEFINE a == SubSeq(acc, 1, at - 1)
           c == SubSeq(acc, at, n)
<1>5. /\ a \in Seq(E) /\ Len(a) = at - 1 /\ \A j \in 1 .. at - 1 : a[j] = acc[j]
      /\ c \in Seq(E) /\ Len(c) = n - at + 1 /\ \A j \in 1 .. n - at + 1 : c[j] = acc[at + j - 1]
  BY <1>1, <1>3
<1> HIDE DEF n, a, c
<1> DEFINE ax == a \o <<x>>
<1>0. <<x>> \in Seq(E) /\ Len(<<x>>) = 1 /\ <<x>>[1] = x  OBVIOUS
<1> DEFINE one == <<x>>
<1> HIDE DEF one
<1>6. ax \in Seq(E) /\ Len(ax) = at /\ ax[at] = x /\ \A j \in 1 .. at - 1 : ax[j] = acc[j]
  <2>1. one \in Seq(E) /\ Len(one) = 1 /\ one[1] = x /\ ax = a \o one  BY <1>0 DEF one
  <2> HIDE DEF ax
  <2>2. /\ a \o one \in Seq(E) /\ Len(a \o one) = Len(a) + Len(one)
        /\ \A j \in 1 .. Len(a) : (a \o one)[j] = a[j]
        /\ \A j \in Len(a) + 1 .. Len(a) + Len(one) : (a \o one)[j] = one[j - Len(a)]
    BY <1>5, <2>1, Joined, Zenon
  <2>3. at \in Nat /\ Len(a) = at - 1 /\ at - (at - 1) = 1  BY <1>1, <1>3, <1>5
  <2>4. at \in (at - 1) + 1 .. (at - 1) + 1  BY <2>3
  <2> QED  BY <1>5, <2>1, <2>2, <2>3, <2>4
<1> HIDE DEF ax
<1>7. /\ ax \o c \in Seq(E) /\ Len(ax \o c) = n + 1
      /\ \A j \in 1 .. at : (ax \o c)[j] = ax[j]
      /\ \A j \in at + 1 .. n + 1 : (ax \o c)[j] = c[j - at]
  <2>1. at \in Nat /\ Len(ax) + Len(c) = n + 1  BY <1>1, <1>3, <1>5, <1>6
  <2>2. /\ ax \o c \in Seq(E) /\ Len(ax \o c) = Len(ax) + Len(c)
        /\ \A j \in 1 .. Len(ax) : (ax \o c)[j] = ax[j]
        /\ \A j \in Len(ax) + 1 .. Len(ax) + Len(c) : (ax \o c)[j] = c[j - Len(ax)]
    <3>1. ax \in Seq(E) /\ c \in Seq(E)  BY <1>5, <1>6
    <3> QED  BY <3>1, Joined, Zenon
  <2>3. Len(ax) = at  BY <1>6
  <2> QED  BY <2>1, <2>2, <2>3
<1>8. \A j \in at + 1 .. n + 1 : c[j - at] = acc[j - 1]
  <2> TAKE j \in at + 1 .. n + 1
  <2>1. j - at \in 1 .. n - at + 1 /\ at + (j - at) - 1 = j - 1  BY <1>1, <1>3
  <2>2. c[j - at] = acc[at + (j - at) - 1]  BY <1>5, <2>1
  <2> QED  BY <2>1, <2>2
<1>9. Insert(acc, x) = ax \o c  BY <1>4 DEF ax, a, c
<1>10. /\ Insert(acc, x)[at] = x
       /\ \A j \in 1 .. at - 1 : Insert(acc, x)[j] = acc[j]
       /\ \A j \in at + 1 .. n + 1 : Insert(acc, x)[j] = acc[j - 1]
  BY <1>1, <1>3, <1>6, <1>7, <1>8, <1>9
<1>11. CutAt(acc, x, Insert(acc, x), at)  BY <1>3, <1>7, <1>9, <1>10 DEF P, n, CutAt
<1> QED  BY <1>3, <1>7, <1>9, <1>11 DEF n

Linear(E) ==
    /\ \A x, y \in E : x = y \/ Before(x, y) \/ Before(y, x)
    /\ \A x, y, z \in E : Before(x, y) /\ Before(y, z) => Before(x, z)

Increasing(s) == \A i, j \in DOMAIN s : i < j => Before(s[i], s[j])

\* The list new has the elements of acc and x, in order.
Grown(acc, x, new) ==
    /\ Len(new) = Len(acc) + 1 /\ Increasing(new)
    /\ \E j \in 1 .. Len(acc) + 1 : new[j] = x
    /\ \A i \in 1 .. Len(acc) : \E j \in 1 .. Len(acc) + 1 : new[j] = acc[i]
    /\ \A j \in 1 .. Len(acc) + 1 : new[j] = x \/ \E i \in 1 .. Len(acc) : new[j] = acc[i]

\* A new element keeps the list in order.
LEMMA InsertKeepsOrder ==
    ASSUME NEW E, Linear(E), NEW acc \in Seq(E), Increasing(acc), NEW x \in E,
           \A j \in DOMAIN acc : acc[j] # x
    PROVE  Insert(acc, x) \in Seq(E) /\ Grown(acc, x, Insert(acc, x))
<1> DEFINE n == Len(acc)
           new == Insert(acc, x)
<1>1. n \in Nat /\ DOMAIN acc = 1 .. n /\ \A j \in 1 .. n : acc[j] \in E  OBVIOUS
<1>2. new \in Seq(E) /\ \E at \in 1 .. n + 1 : CutAt(acc, x, new, at)
  BY InsertRight
<1>c. PICK at \in 1 .. n + 1 : CutAt(acc, x, new, at)  BY <1>2
<1>d. /\ \A j \in at .. n : Before(x, acc[j])
      /\ at = 1 \/ ~Before(x, acc[at - 1])
      /\ new \in Seq(E) /\ Len(new) = n + 1
      /\ new[at] = x
      /\ \A j \in 1 .. at - 1 : new[j] = acc[j]
      /\ \A j \in at + 1 .. n + 1 : new[j] = acc[j - 1]
  BY <1>2, <1>c DEF CutAt
<1> HIDE DEF n, new
<1>3. \A i, j \in 1 .. n : i < j => Before(acc[i], acc[j])  BY <1>1 DEF Increasing
\* Everything in front of x is before it.
<1>4. ASSUME NEW j \in 1 .. at - 1 PROVE j \in 1 .. n /\ Before(acc[j], x)
  <2>1. j \in 1 .. n /\ at - 1 \in 1 .. n /\ at # 1  BY <1>1, <1>d, <1>4
  <2>2. Before(acc[at - 1], x)  BY <1>1, <1>d, <2>1 DEF Linear
  <2>3. CASE j = at - 1  BY <2>1, <2>2, <2>3
  <2>4. CASE j # at - 1
    <3>1. Before(acc[j], acc[at - 1])  BY <1>1, <1>d, <1>3, <2>1, <2>4
    <3> QED  BY <1>1, <2>1, <2>2, <3>1 DEF Linear
  <2> QED  BY <2>3, <2>4
<1>5. ASSUME NEW i \in 1 .. n + 1, NEW j \in 1 .. n + 1, i < j
      PROVE  Before(new[i], new[j])
  <2>1. CASE j < at
    <3>1. i \in 1 .. at - 1 /\ j \in 1 .. at - 1 /\ i \in 1 .. n /\ j \in 1 .. n
      BY <1>1, <1>d, <1>5, <2>1
    <3> QED  BY <1>d, <1>3, <1>5, <3>1
  <2>2. CASE j = at
    <3>1. i \in 1 .. at - 1  BY <1>1, <1>d, <1>5, <2>2
    <3> QED  BY <1>d, <1>4, <2>2, <3>1
  <2>3. CASE j > at
    <3>1. j \in at + 1 .. n + 1 /\ j - 1 \in at .. n /\ j - 1 \in 1 .. n /\ new[j] = acc[j - 1]
      BY <1>1, <1>d, <1>5, <2>3
    <3>2. CASE i < at
      <4>1. i \in 1 .. at - 1 /\ i \in 1 .. n /\ i < j - 1  BY <1>1, <1>d, <1>5, <2>3, <3>2
      <4> QED  BY <1>d, <1>3, <3>1, <4>1
    <3>3. CASE i = at  BY <1>d, <3>1, <3>3
    <3>4. CASE i > at
      <4>1. i \in at + 1 .. n + 1 /\ i - 1 \in 1 .. n /\ i - 1 < j - 1  BY <1>1, <1>d, <1>5, <3>4
      <4> QED  BY <1>d, <1>3, <3>1, <4>1
    <3> QED  BY <1>d, <3>2, <3>3, <3>4
  <2> QED  BY <1>d, <2>1, <2>2, <2>3
<1>6. Increasing(new)
  <2>1. DOMAIN new = 1 .. n + 1  BY <1>1, <1>d
  <2> QED  BY <1>5, <2>1 DEF Increasing
<1>7. ASSUME NEW i \in 1 .. n PROVE \E j \in 1 .. n + 1 : new[j] = acc[i]
  <2>1. CASE i < at
    <3>1. i \in 1 .. at - 1 /\ i \in 1 .. n + 1  BY <1>1, <1>d, <2>1
    <3> QED  BY <1>d, <3>1
  <2>2. CASE i >= at
    <3>1. i + 1 \in at + 1 .. n + 1 /\ i + 1 \in 1 .. n + 1 /\ (i + 1) - 1 = i
      BY <1>1, <1>d, <2>2
    <3>2. new[i + 1] = acc[i]  BY <1>d, <3>1
    <3> QED  BY <3>1, <3>2
  <2> QED  BY <1>d, <2>1, <2>2
<1>8. ASSUME NEW j \in 1 .. n + 1 PROVE new[j] = x \/ \E i \in 1 .. n : new[j] = acc[i]
  <2>1. CASE j < at
    <3>1. j \in 1 .. at - 1 /\ j \in 1 .. n  BY <1>1, <1>d, <2>1
    <3> QED  BY <1>d, <3>1
  <2>2. CASE j > at
    <3>1. j \in at + 1 .. n + 1 /\ j - 1 \in 1 .. n  BY <1>1, <1>d, <2>2
    <3> QED  BY <1>d, <3>1
  <2> QED  BY <1>d, <2>1, <2>2
<1> QED  BY <1>d, <1>6, <1>7, <1>8 DEF n, new, Grown

\* One step of the fold behind SortShards, over a function that has the others.
InsertStep(g, s, T) == IF T = {} THEN <<>> ELSE Insert(g[T \ {Max(T)}], s[Max(T)])

IsInserts(g, s) == g = [T \in SUBSET DOMAIN s |-> InsertStep(g, s, T)]

\* The recursive function behind the fold exists.
LEMMA InsertsExist ==
    ASSUME NEW E, NEW s \in Seq(E)
    PROVE  \E g : IsInserts(g, s)
<1> DEFINE D == DOMAIN s
           X == Seq(E)
           F == [ss \in X \X D |-> Insert(ss[1], s[ss[2]])]
           C == [T \in SUBSET D |-> Max(T)]
           none == <<>>
<1>1. D = 1 .. Len(s) /\ Len(s) \in Nat /\ IsFiniteSet(D)
  <2>1. D = 1 .. Len(s) /\ Len(s) \in Nat  OBVIOUS
  <2>2. 1 \in Int /\ Len(s) \in Int  BY <2>1
  <2>3. IsFiniteSet(1 .. Len(s))  BY <2>2, FS_Interval
  <2> QED  BY <2>1, <2>3
<1>2. \A a \in X, i \in D : F[<<a, i>>] = Insert(a, s[i])  OBVIOUS
<1>3. \A a \in X, i \in D : F[<<a, i>>] \in X
  <2> TAKE a \in X, i \in D
  <2>1. s[i] \in E  OBVIOUS
  <2> QED  BY <1>2, <2>1, InsertRight
<1>4. \A T \in SUBSET D : C[T] = Max(T)  OBVIOUS
<1>5. \A T \in SUBSET D : T # {} => C[T] \in T
  <2> SUFFICES ASSUME NEW T \in SUBSET D, T # {} PROVE C[T] \in T  OBVIOUS
  <2>1. T \in SUBSET (0 .. Len(s))  BY <1>1
  <2>2. Max(T) \in T  BY <1>1, <2>1, MaxOfBounded
  <2> QED  BY <1>4, <2>2
<1>6. none \in X  OBVIOUS
<1> HIDE DEF D, X, F, C, none
<1>7. \E g : (\A T \in SUBSET D : g[T] \in X) /\ IsFold(g, F, C, none, D)
  BY <1>1, <1>3, <1>5, <1>6, FoldTyped
<1>8. PICK g : (\A T \in SUBSET D : g[T] \in X) /\ IsFold(g, F, C, none, D)
  BY <1>7
<1>9. \A T \in SUBSET D : FoldStep(F, C, none, g, T) = InsertStep(g, s, T)
  BY <1>2, <1>4, <1>5, <1>8 DEF FoldStep, InsertStep, none
<1>10. g = [T \in SUBSET D |-> InsertStep(g, s, T)]  BY <1>8, <1>9 DEF IsFold
<1> QED  BY <1>10 DEF IsInserts, D

\* SortShards puts one shard after the other into the list.
LEMMA SortUnfolds ==
    ASSUME NEW E, NEW s \in Seq(E)
    PROVE  \E h : /\ h[0] = <<>>
                  /\ \A k \in 1 .. Len(s) : h[k] = Insert(h[k - 1], s[k])
                  /\ h[Len(s)] = SortShards(s)
<1> DEFINE g == CHOOSE f : IsInserts(f, s)
           n == Len(s)
           h == [k \in 0 .. n |-> g[1 .. k]]
<1>1. SortShards(s) = g[DOMAIN s]
  BY Zenon DEF SortShards, FoldLeft, MapThenFoldSet, IsInserts, InsertStep
<1>2. IsInserts(g, s)  BY InsertsExist
<1>3. DOMAIN s = 1 .. n /\ n \in Nat  OBVIOUS
<1> HIDE DEF g, n
<1>4. \A k \in 0 .. n : 1 .. k \in SUBSET DOMAIN s /\ g[1 .. k] = InsertStep(g, s, 1 .. k)
  BY <1>2, <1>3 DEF IsInserts
<1>5. h[0] = <<>>
  <2>1. 1 .. 0 = {} /\ 0 \in 0 .. n  BY <1>3
  <2> QED  BY <1>4, <2>1 DEF InsertStep
<1>6. ASSUME NEW k \in 1 .. n PROVE h[k] = Insert(h[k - 1], s[k])
  <2>1. 1 .. k \in SUBSET (0 .. n) /\ 1 .. k # {} /\ k \in 1 .. k  BY <1>3
  <2>2. Max(1 .. k) \in 1 .. k /\ \A y \in 1 .. k : Max(1 .. k) >= y
    BY <1>3, <2>1, MaxOfBounded
  <2>3. Max(1 .. k) = k  BY <2>1, <2>2
  <2>4. (1 .. k) \ {k} = 1 .. k - 1  BY <1>3
  <2>5. k \in 0 .. n /\ k - 1 \in 0 .. n  BY <1>3
  <2>6. g[1 .. k] = Insert(g[1 .. k - 1], s[k])  BY <1>4, <2>1, <2>3, <2>4, <2>5 DEF InsertStep
  <2> QED  BY <2>5, <2>6
<1>7. h[n] = SortShards(s)
  <2>1. n \in 0 .. n  BY <1>3
  <2> QED  BY <1>1, <1>3, <2>1
<1> HIDE DEF h
<1> QED  BY <1>5, <1>6, <1>7 DEF n

\* What is in the list after the first k shards.
FirstSorted(h, E, s, k) ==
    /\ h[k] \in Seq(E) /\ Len(h[k]) = k /\ Increasing(h[k])
    /\ \A i \in 1 .. k : \E j \in 1 .. k : h[k][j] = s[i]
    /\ \A j \in 1 .. k : \E i \in 1 .. k : h[k][j] = s[i]

\* SortShards returns the shards it is given, each once, in increasing order.
LEMMA SortsRight ==
    ASSUME NEW E, Linear(E), NEW s \in Seq(E),
           \A i, j \in 1 .. Len(s) : s[i] = s[j] => i = j
    PROVE  /\ SortShards(s) \in Seq(E) /\ Len(SortShards(s)) = Len(s)
           /\ Increasing(SortShards(s))
           /\ \A i \in 1 .. Len(s) : \E j \in 1 .. Len(s) : SortShards(s)[j] = s[i]
           /\ \A j \in 1 .. Len(s) : \E i \in 1 .. Len(s) : SortShards(s)[j] = s[i]
<1> DEFINE n == Len(s)
<1>1. n \in Nat /\ \A i \in 1 .. n : s[i] \in E  OBVIOUS
<1>2. PICK h : /\ h[0] = <<>>
               /\ \A k \in 1 .. n : h[k] = Insert(h[k - 1], s[k])
               /\ h[n] = SortShards(s)
  BY SortUnfolds
<1> HIDE DEF n
<1>3. FirstSorted(h, E, s, 0)
  <2>1. h[0] \in Seq(E) /\ Len(h[0]) = 0 /\ DOMAIN h[0] = {}  BY <1>2
  <2> QED  BY <2>1 DEF FirstSorted, Increasing
<1>4. ASSUME NEW k \in 1 .. n, FirstSorted(h, E, s, k - 1) PROVE FirstSorted(h, E, s, k)
  <2> DEFINE acc == h[k - 1]
             new == Insert(acc, s[k])
  <2>1. /\ acc \in Seq(E) /\ Len(acc) = k - 1 /\ Increasing(acc) /\ DOMAIN acc = 1 .. k - 1
        /\ \A i \in 1 .. k - 1 : \E j \in 1 .. k - 1 : acc[j] = s[i]
        /\ \A j \in 1 .. k - 1 : \E i \in 1 .. k - 1 : acc[j] = s[i]
    BY <1>4 DEF FirstSorted
  <2>2. \A j \in DOMAIN acc : acc[j] # s[k]
    <3> SUFFICES ASSUME NEW j \in 1 .. k - 1, acc[j] = s[k] PROVE FALSE  BY <2>1
    <3>1. PICK i \in 1 .. k - 1 : acc[j] = s[i]  BY <2>1
    <3>2. i \in 1 .. n /\ i # k  BY <1>1
    <3> QED  BY <3>1, <3>2 DEF n
  <2>3. s[k] \in E /\ (k - 1) + 1 = k  BY <1>1
  <2>4. h[k] = new  BY <1>2
  <2> HIDE DEF acc, new
  <2>5. Insert(acc, s[k]) \in Seq(E) /\ Grown(acc, s[k], Insert(acc, s[k]))
    BY <2>1, <2>2, <2>3, InsertKeepsOrder
  <2>6. /\ new \in Seq(E) /\ Len(new) = k /\ Increasing(new)
        /\ \E j \in 1 .. k : new[j] = s[k]
        /\ \A i \in 1 .. k - 1 : \E j \in 1 .. k : new[j] = acc[i]
        /\ \A j \in 1 .. k : new[j] = s[k] \/ \E i \in 1 .. k - 1 : new[j] = acc[i]
    BY <2>1, <2>3, <2>5 DEF new, Grown
  <2>7. ASSUME NEW i \in 1 .. k PROVE \E j \in 1 .. k : new[j] = s[i]
    <3>1. CASE i = k  BY <2>6, <3>1
    <3>2. CASE i # k
      <4>1. i \in 1 .. k - 1  BY <3>2
      <4> QED  BY <2>1, <2>6, <4>1
    <3> QED  BY <3>1, <3>2
  <2>8. ASSUME NEW j \in 1 .. k PROVE \E i \in 1 .. k : new[j] = s[i]
    <3>1. CASE new[j] = s[k]
      <4>1. k \in 1 .. k  OBVIOUS
      <4> QED  BY <3>1, <4>1
    <3>2. CASE new[j] # s[k]
      <4>1. PICK i \in 1 .. k - 1 : new[j] = acc[i]  BY <2>6, <3>2
      <4>2. PICK m \in 1 .. k - 1 : acc[i] = s[m]  BY <2>1
      <4>3. m \in 1 .. k  OBVIOUS
      <4> QED  BY <4>1, <4>2, <4>3
    <3> QED  BY <3>1, <3>2
  <2> QED  BY <2>4, <2>6, <2>7, <2>8 DEF FirstSorted
<1>5. FirstSorted(h, E, s, n)
  <2> DEFINE U == {k \in 0 .. n : ~FirstSorted(h, E, s, k)}
  <2>1. U = {}
    <3> SUFFICES ASSUME U # {} PROVE FALSE  OBVIOUS
    <3>1. U \in SUBSET Nat  BY <1>1
    <3>2. PICK k \in U : \A m \in U : k <= m
      <4> HIDE DEF U
      <4> QED  BY <3>1, LeastNat
    <3>3. k # 0  BY <1>3
    <3>4. k \in 1 .. n /\ k - 1 \in 0 .. n /\ k - 1 \notin U  BY <1>1, <3>2, <3>3
    <3> QED  BY <1>4, <3>4
  <2>2. n \in 0 .. n  BY <1>1
  <2> QED  BY <2>1, <2>2
<1> QED  BY <1>2, <1>5 DEF FirstSorted, n

\* Every step keeps the names.
LEMMA NamesStayKnown ==
    ASSUME SeqInv, NamesKnown, [Next]_dvars
    PROVE  NamesKnown'
<1>1. UNCHANGED input
  BY DEF Next, Step, Die, SourceChanges, CreateRow, ScanBatch, CreateConfig, Plan, ShardMake,
         ReadFails, ReadSources, WriteImage, UpsertRow, UpsertConflict, ReplaceSegments,
         SegmentsFail, MarkRead, MarkCheck, WriteCount, SetBuilt, dvars, db
<1>2. CASE UNCHANGED shards  BY <1>1, <1>2 DEF NamesKnown
<1>3. ASSUME NEW p \in Procs, UpsertRow(p) PROVE NamesKnown'
  <2> DEFINE name == Job(p).name
  <2>1. \A r \in shards' : r \in shards \/ r.name = name
    BY <1>3 DEF UpsertRow
  <2>2. name[1] = "build" \/ \E f \in DOMAIN input.sizes : name = <<"make", f>>
    <3>1. Fits(proc[p]) /\ proc[p].pc = "row"  BY <1>3 DEF SeqInv, UpsertRow, At
    <3>2. CASE proc[p].cmd = "build"
      <4>1. name = <<"build", proc[p].at - 1, FormatIn(proc[p].meta)>>
        BY <3>1, <3>2 DEF Fits, Typed, Numbered, Busy, Job
      <4> QED  BY <4>1
    <3>3. CASE proc[p].cmd = "make"
      <4>1. PICK f \in DOMAIN input.sizes : Current(proc[p]) = ExternalJob(f)
        BY <3>1, <3>3 DEF Fits, Typed, Numbered
      <4>2. Job(p) = ExternalJob(f)  BY <4>1 DEF Current, Job
      <4>3. ExternalJob(f).name = <<"make", f>>  BY DEF ExternalJob
      <4> QED  BY <4>2, <4>3
    <3> QED  BY <3>1, <3>2, <3>3 DEF Fits, Typed, Busy
  <2> HIDE DEF name
  <2> QED  BY <1>1, <2>1, <2>2 DEF NamesKnown
<1>4. UNCHANGED shards \/ \E p \in Procs : UpsertRow(p)
  BY DEF Next, Step, Die, SourceChanges, CreateRow, ScanBatch, CreateConfig, Plan, ShardMake,
         ReadFails, ReadSources, WriteImage, UpsertConflict, ReplaceSegments, SegmentsFail,
         MarkRead, MarkCheck, WriteCount, SetBuilt, dvars, db
<1> QED  BY <1>2, <1>3, <1>4

\* The numbers that the regular expression captures are numbers.
LEMMA NumbersCaptured ==
    ASSUME SeqInv, NamesKnown, NEW r \in shards
    PROVE  NumberIn(r.name) \in Nat
<1>1. r.seq \in Nat  BY NextFree
<1>2. CASE r.name[1] = "build"
  <2>1. r.name[2] = r.seq  BY <1>2 DEF SeqInv, RowsNamed
  <2> QED  BY <1>1, <1>2, <2>1 DEF NumberIn
<1>3. CASE r.name[1] # "build"
  <2>1. PICK f \in DOMAIN input.sizes : r.name = <<"make", f>>  BY <1>3 DEF NamesKnown
  <2>2. input.sizes \in Seq(Nat)  BY DatasetAssumption DEF NamesKnown
  <2>3. f \in Nat  BY <2>2
  <2> QED  BY <2>1, <2>3 DEF NumberIn
<1> QED  BY <1>2, <1>3

\* ORDER BY seq yields every row once, by its number.
LEMMA FoundRight ==
    ASSUME SeqInv
    PROVE  /\ Cardinality(shards) \in Nat
           /\ FindByDataset \in [1 .. Cardinality(shards) -> shards]
           /\ \A r \in shards : \E i \in 1 .. Cardinality(shards) : FindByDataset[i] = r
           /\ \A i, j \in 1 .. Cardinality(shards) : i < j => FindByDataset[i].seq < FindByDataset[j].seq
<1> DEFINE R == {ss \in shards \X shards : ss[1].seq < ss[2].seq}
<1>1. \A r, q \in shards : <<r, q>> \in R <=> r.seq < q.seq  OBVIOUS
<1>2. \A r \in shards : Below(R, shards, r) = {q \in shards : q.seq < r.seq}
  BY DEF Below
<1>3. \A r \in shards : r.seq \in Nat  BY NextFree
<1>4. IsFiniteSet(shards) /\ \A r, q \in shards : r.seq = q.seq => r = q
  BY DEF SeqInv, RowsNamed, SeqsContiguous
<1> HIDE DEF R
<1>5. Orders(R, shards)  BY <1>1, <1>3, <1>4 DEF Orders
<1>6. FindByDataset = [i \in 1 .. Cardinality(shards) |->
         CHOOSE r \in shards : Cardinality({q \in shards : q.seq < r.seq}) = i - 1]
  BY Zenon DEF FindByDataset, InOrder
<1>7. \A i : (CHOOSE r \in shards : Cardinality({q \in shards : q.seq < r.seq}) = i - 1)
             = CHOOSE r \in shards : Cardinality(Below(R, shards, r)) = i - 1
  BY <1>2
<1>8. FindByDataset = Sorted(R, shards)
  <2> DEFINE at(i) == CHOOSE r \in shards : Cardinality({q \in shards : q.seq < r.seq}) = i - 1
             to(i) == CHOOSE r \in shards : Cardinality(Below(R, shards, r)) = i - 1
  <2>1. FindByDataset = [i \in 1 .. Cardinality(shards) |-> at(i)]  BY <1>6
  <2>2. Sorted(R, shards) = [i \in 1 .. Cardinality(shards) |-> to(i)]  BY DEF Sorted
  <2>3. \A i : at(i) = to(i)  BY <1>7
  <2> HIDE DEF at, to
  <2> QED  BY <2>1, <2>2, <2>3
<1>9. /\ Cardinality(shards) \in Nat
      /\ FindByDataset \in [1 .. Cardinality(shards) -> shards]
      /\ \A r \in shards : \E i \in 1 .. Cardinality(shards) : FindByDataset[i] = r
      /\ \A i, j \in 1 .. Cardinality(shards) : i < j => <<FindByDataset[i], FindByDataset[j]>> \in R
  BY <1>4, <1>5, <1>8, SortedRight
<1> QED  BY <1>1, <1>9

\* What build-data sorts: a row with the number its name gives it.
Entry(r, regex) ==
    [name |-> r.name, seq |-> r.seq, keys |-> IF regex THEN <<Key(r.name)>> ELSE <<>>]

NumOf(e, regex) == IF regex THEN NumberIn(e.name) ELSE 0

\* It compares the numbers first and the seq after.
LEMMA ComparesNumbers ==
    ASSUME SeqInv, NamesKnown, NEW regex \in BOOLEAN, NEW r \in shards, NEW q \in shards
    PROVE  Before(Entry(r, regex), Entry(q, regex)) <=>
             \/ NumOf(r, regex) < NumOf(q, regex)
             \/ NumOf(r, regex) = NumOf(q, regex) /\ r.seq < q.seq
<1> DEFINE s == Entry(r, regex)
           t == Entry(q, regex)
<1>1. CASE regex = TRUE
  <2> DEFINE x == Key(r.name)
             y == Key(q.name)
  <2>1. /\ s.keys = <<x>> /\ t.keys = <<y>> /\ s.seq = r.seq /\ t.seq = q.seq
        /\ DOMAIN s.keys = {1} /\ s.keys[1] = x /\ t.keys[1] = y
    BY <1>1 DEF Entry
  <2>2. NumberIn(r.name) \in Nat /\ NumberIn(q.name) \in Nat  BY NumbersCaptured
  <2>3. /\ KeyBefore(x, y) <=> NumberIn(r.name) < NumberIn(q.name)
        /\ KeyBefore(y, x) <=> NumberIn(q.name) < NumberIn(r.name)
    BY DEF Key, KeyBefore
  <2>4. Tie(x, y) <=> NumberIn(r.name) = NumberIn(q.name)  BY <2>2, <2>3 DEF Tie
  <2> HIDE DEF s, t, x, y
  <2>5. Before(s, t) <=> KeyBefore(x, y) \/ (Tie(x, y) /\ r.seq < q.seq)
    <3>1. \A j : j \notin 1 .. 1 - 1  OBVIOUS
    <3> QED  BY <2>1, <3>1 DEF Before
  <2> QED  BY <1>1, <2>3, <2>4, <2>5 DEF NumOf, s, t
<1>2. CASE regex = FALSE
  <2>1. /\ s.keys = <<>> /\ s.seq = r.seq /\ t.seq = q.seq /\ DOMAIN s.keys = {}
    BY <1>2 DEF Entry
  <2> HIDE DEF s, t
  <2>2. Before(s, t) <=> r.seq < q.seq  BY <2>1 DEF Before
  <2> QED  BY <1>2, <2>2 DEF NumOf, s, t
<1> QED  BY <1>1, <1>2

\* So the comparison is a strict order of the rows.
LEMMA EntriesLinear ==
    ASSUME SeqInv, NamesKnown, NEW regex \in BOOLEAN
    PROVE  Linear({Entry(r, regex) : r \in shards})
<1> DEFINE E == {Entry(r, regex) : r \in shards}
           b(r, q) == \/ NumOf(r, regex) < NumOf(q, regex)
                      \/ NumOf(r, regex) = NumOf(q, regex) /\ r.seq < q.seq
<1>1. \A r, q \in shards : Before(Entry(r, regex), Entry(q, regex)) <=> b(r, q)
  BY ComparesNumbers
<1>2. \A r \in shards : NumOf(r, regex) \in Nat /\ r.seq \in Nat
  BY NextFree, NumbersCaptured DEF NumOf
<1>3. \A r, q \in shards : r.seq = q.seq => r = q  BY DEF SeqInv, SeqsContiguous
<1>4. \A r, q \in shards : r = q \/ b(r, q) \/ b(q, r)  BY <1>2, <1>3
<1>5. \A r, q, o \in shards : b(r, q) /\ b(q, o) => b(r, o)  BY <1>2
<1> HIDE DEF b
<1>6. ASSUME NEW x \in E, NEW y \in E PROVE x = y \/ Before(x, y) \/ Before(y, x)
  <2>1. PICK r \in shards : x = Entry(r, regex)  OBVIOUS
  <2>2. PICK q \in shards : y = Entry(q, regex)  OBVIOUS
  <2> QED  BY <1>1, <1>4, <2>1, <2>2
<1>7. ASSUME NEW x \in E, NEW y \in E, NEW z \in E, Before(x, y), Before(y, z)
      PROVE  Before(x, z)
  <2>1. PICK r \in shards : x = Entry(r, regex)  OBVIOUS
  <2>2. PICK q \in shards : y = Entry(q, regex)  OBVIOUS
  <2>3. PICK o \in shards : z = Entry(o, regex)  OBVIOUS
  <2> QED  BY <1>1, <1>5, <1>7, <2>1, <2>2, <2>3
<1> HIDE DEF E
<1>8. Linear(E)  BY <1>6, <1>7 DEF Linear
<1> QED  BY <1>8 DEF E

\* build-data takes every shard of a dataset once, by the number in its name if a
\* regular expression captures one, and by seq otherwise.
LEMMA OrderRight ==
    ASSUME SeqInv, NamesKnown, NEW regex \in BOOLEAN
    PROVE  LET order == BuildOrder(regex)
           IN  /\ {order[i].name : i \in DOMAIN order} = {r.name : r \in shards}
               /\ Len(order) = Cardinality(shards)
               /\ \A i, j \in DOMAIN order : i < j =>
                     LET m == IF regex THEN NumberIn(order[i].name) ELSE 0
                         n == IF regex THEN NumberIn(order[j].name) ELSE 0
                     IN  m < n \/ (m = n /\ order[i].seq < order[j].seq)
<1> DEFINE n == Cardinality(shards)
           E == {Entry(r, regex) : r \in shards}
           f == FindByDataset
           s == [i \in DOMAIN f |-> [name |-> f[i].name, seq |-> f[i].seq,
                                     keys |-> IF regex THEN <<Key(f[i].name)>> ELSE <<>>]]
           order == BuildOrder(regex)
<1>1. order = SortShards(s)  BY Zenon DEF BuildOrder
<1>2. /\ n \in Nat /\ f \in [1 .. n -> shards]
      /\ \A r \in shards : \E i \in 1 .. n : f[i] = r
      /\ \A i, j \in 1 .. n : i < j => f[i].seq < f[j].seq
  BY FoundRight
<1> HIDE DEF n, f
<1>3. DOMAIN s = 1 .. n /\ \A i \in 1 .. n : s[i] = Entry(f[i], regex)
  BY <1>2 DEF Entry
<1> HIDE DEF s, order, E
<1>4. \A i \in 1 .. n : s[i] \in E  BY <1>2, <1>3 DEF E
<1>5. s \in Seq(E) /\ Len(s) = n
  <2>1. s = [i \in 1 .. n |-> s[i]]  BY <1>3, Zenon DEF s
  <2>2. s \in [1 .. n -> E]  BY <1>4, <2>1
  <2> QED  BY <1>2, <1>3, <2>2
<1>6. \A i, j \in 1 .. Len(s) : s[i] = s[j] => i = j
  <2> SUFFICES ASSUME NEW i \in 1 .. n, NEW j \in 1 .. n, s[i] = s[j], i # j PROVE FALSE
    BY <1>5
  <2>1. f[i].seq = f[j].seq /\ f[i] \in shards /\ f[j] \in shards
    BY <1>2, <1>3 DEF Entry
  <2>2. f[i].seq < f[j].seq \/ f[j].seq < f[i].seq  BY <1>2
  <2>3. f[i].seq \in Nat  BY <2>1, NextFree
  <2> QED  BY <2>1, <2>2, <2>3
<1>7. Linear(E)  BY EntriesLinear DEF E
<1>8. /\ order \in Seq(E) /\ Len(order) = n /\ Increasing(order)
      /\ \A i \in 1 .. n : \E j \in 1 .. n : order[j] = s[i]
  <2>1. /\ SortShards(s) \in Seq(E) /\ Len(SortShards(s)) = Len(s)
        /\ Increasing(SortShards(s))
        /\ \A i \in 1 .. Len(s) : \E j \in 1 .. Len(s) : SortShards(s)[j] = s[i]
    BY <1>5, <1>6, <1>7, SortsRight
  <2> QED  BY <1>1, <1>5, <2>1
<1>9. DOMAIN order = 1 .. n /\ \A j \in 1 .. n : \E r \in shards : order[j] = Entry(r, regex)
  <2>1. DOMAIN order = 1 .. n /\ \A j \in 1 .. n : order[j] \in E  BY <1>8
  <2> QED  BY <2>1 DEF E
<1>10. {order[i].name : i \in DOMAIN order} = {r.name : r \in shards}
  <2>1. ASSUME NEW i \in DOMAIN order PROVE order[i].name \in {r.name : r \in shards}
    BY <1>9 DEF Entry
  <2>2. ASSUME NEW r \in shards PROVE \E j \in DOMAIN order : order[j].name = r.name
    <3>1. PICK i \in 1 .. n : f[i] = r  BY <1>2
    <3>2. PICK j \in 1 .. n : order[j] = s[i]  BY <1>8
    <3> QED  BY <1>3, <1>9, <3>1, <3>2 DEF Entry
  <2> QED  BY <2>1, <2>2
<1>11. ASSUME NEW i \in DOMAIN order, NEW j \in DOMAIN order, i < j
       PROVE  \/ NumOf(order[i], regex) < NumOf(order[j], regex)
              \/ NumOf(order[i], regex) = NumOf(order[j], regex) /\ order[i].seq < order[j].seq
  <2>1. PICK r \in shards : order[i] = Entry(r, regex)  BY <1>9
  <2>2. PICK q \in shards : order[j] = Entry(q, regex)  BY <1>9
  <2>3. Before(order[i], order[j])  BY <1>8, <1>11 DEF Increasing
  <2>4. /\ order[i].name = r.name /\ order[i].seq = r.seq
        /\ order[j].name = q.name /\ order[j].seq = q.seq
    BY <2>1, <2>2 DEF Entry
  <2> QED  BY <2>1, <2>2, <2>3, <2>4, ComparesNumbers DEF NumOf
<1> QED  BY <1>8, <1>10, <1>11 DEF NumOf, n, order

\* build-data takes the shards of every built dataset in that order, however its
\* rows came to be.
THEOREM BuildOrderStaysExact == Spec => []BuildOrderExact
<1>1. Init => NamesKnown  BY DEF Init, NamesKnown
<1>2. SeqInv /\ NamesKnown /\ [Next]_dvars => NamesKnown'  BY NamesStayKnown
<1>3. SeqInv /\ NamesKnown => BuildOrderExact  BY OrderRight DEF BuildOrderExact
<1> QED  BY <1>1, <1>2, <1>3, SeqsStaySafe, PTL DEF Spec

(***************************************************************************)
(* The definitions cover the recorded files                                *)
(***************************************************************************)

\* Nobody begins to scan, the files stay as they are, and every configuration read
\* or written is the one that is asked for, or none.
LEMMA FilesStay ==
    ASSUME FilesKnown, UNCHANGED <<input, disk, recorded>>, status' = status \/ status' = "built",
           config' \in {None, Asked}, \A p \in Procs : proc'[p].meta \in {None, Asked},
           \A p \in Procs : proc'[p].pc = "scan" => proc'[p] = proc[p]
    PROVE  FilesKnown'
<1>1. \A p \in Procs : At(p, "scan")' => At(p, "scan") /\ proc'[p].left = proc[p].left
  BY DEF At
<1>2. status' = None => status = None  BY DatasetAssumption
<1>3. Asked' = Asked  BY DEF Asked
<1> QED  BY <1>1, <1>2, <1>3 DEF FilesKnown, At

\* Processes at work on shards leave what the scan has found alone.
LEMMA WorkKeepsFiles ==
    ASSUME SeqInv, FilesKnown, NEW p \in Procs,
           \/ Plan(p) \/ \E f \in DOMAIN input.sizes : ShardMake(p, f)
           \/ ReadFails(p) \/ ReadSources(p) \/ WriteImage(p)
           \/ UpsertRow(p) \/ UpsertConflict(p) \/ ReplaceSegments(p) \/ SegmentsFail(p)
           \/ MarkRead(p) \/ MarkCheck(p) \/ WriteCount(p) \/ SetBuilt(p) \/ Die(p)
    PROVE  FilesKnown'
<1>1. DOMAIN proc = Procs /\ DOMAIN proc[p] = Fields  BY DEF SeqInv, Fits, Typed
<1>2. /\ UNCHANGED <<input, disk, recorded>> /\ (status' = status \/ status' = "built")
      /\ config' = config \/ config' = proc[p].meta
  BY DEF Plan, ShardMake, ReadFails, ReadSources, WriteImage, UpsertRow, UpsertConflict,
         ReplaceSegments, SegmentsFail, MarkRead, MarkCheck, WriteCount, SetBuilt, Die, db
<1>3. config \in {None, Asked} /\ \A q \in Procs : proc[q].meta \in {None, Asked}
  BY DEF FilesKnown
<1>4. \E how : proc' = [proc EXCEPT ![p] = how] /\ how.pc # "scan" /\ how.meta \in {None, Asked}
  <2>1. CASE \/ ReadFails(p) \/ UpsertConflict(p) \/ SegmentsFail(p) \/ SetBuilt(p) \/ Die(p)
    <3>1. proc' = [proc EXCEPT ![p] = Gone]
      BY <2>1 DEF ReadFails, UpsertConflict, SegmentsFail, SetBuilt, Die, Quit
    <3>2. Gone.pc # "scan" /\ Gone.meta = None  BY DEF Gone
    <3> QED  BY <3>1, <3>2
  <2>2. CASE Plan(p)
    <3>1. PICK meta \in {None, Asked} : Builds(p, meta)  BY <1>3, <2>2 DEF Plan
    <3> DEFINE start == [Gone EXCEPT !.cmd = "build", !.meta = meta]
               go    == [start EXCEPT !.pc = "read", !.jobs = BuildJobs(meta), !.at = 1]
               end   == [start EXCEPT !.pc = "count"]
    <3>2. go.pc = "read" /\ end.pc = "count" /\ go.meta = meta /\ end.meta = meta  BY DEF Gone
    <3>3. proc' = [proc EXCEPT ![p] = IF 1 \in DOMAIN BuildJobs(meta) THEN go ELSE end]
      BY <3>1 DEF Builds
    <3> HIDE DEF go, end
    <3> QED  BY <3>2, <3>3
  <2>3. ASSUME NEW f \in DOMAIN input.sizes, ShardMake(p, f)
        PROVE  \E how : proc' = [proc EXCEPT ![p] = how] /\ how.pc # "scan" /\ how.meta \in {None, Asked}
    <3> DEFINE how == [Gone EXCEPT !.cmd = "make", !.meta = config, !.pc = "read",
                                   !.at = 1, !.jobs = <<ExternalJob(f)>>]
    <3>1. how.pc = "read" /\ how.meta = config  BY DEF Gone
    <3>2. proc' = [proc EXCEPT ![p] = how]  BY <2>3 DEF ShardMake
    <3> HIDE DEF how
    <3> QED  BY <1>3, <3>1, <3>2
  <2>4. CASE ReadSources(p)
    <3>1. PICK unknown, image :
            proc' = [proc EXCEPT ![p].pc = "write", ![p].unknown = unknown, ![p].image = image]
      BY <2>4 DEF ReadSources
    <3> DEFINE how == [proc[p] EXCEPT !.pc = "write", !.unknown = unknown, !.image = image]
    <3>2. how.pc = "write" /\ how.meta = proc[p].meta  BY <1>1 DEF Fields
    <3>3. proc' = [proc EXCEPT ![p] = how]  BY <3>1
    <3> HIDE DEF how
    <3> QED  BY <1>3, <3>2, <3>3
  <2>5. CASE WriteImage(p)
    <3>1. PICK s : proc' = [proc EXCEPT ![p].pc = "row", ![p].seq = s]  BY <2>5 DEF WriteImage
    <3> DEFINE how == [proc[p] EXCEPT !.pc = "row", !.seq = s]
    <3>2. how.pc = "row" /\ how.meta = proc[p].meta  BY <1>1 DEF Fields
    <3>3. proc' = [proc EXCEPT ![p] = how]  BY <3>1
    <3> HIDE DEF how
    <3> QED  BY <1>3, <3>2, <3>3
  <2>6. CASE UpsertRow(p)
    <3> DEFINE how == [proc[p] EXCEPT !.pc = "segments"]
    <3>1. how.pc = "segments" /\ how.meta = proc[p].meta  BY <1>1 DEF Fields
    <3>2. proc' = [proc EXCEPT ![p] = how]  BY <2>6 DEF UpsertRow, Go
    <3> HIDE DEF how
    <3> QED  BY <1>3, <3>1, <3>2
  <2>7. CASE ReplaceSegments(p)
    <3> DEFINE next == [proc[p] EXCEPT !.pc = "read", !.at = proc[p].at + 1]
               end  == [Gone EXCEPT !.cmd = "build", !.pc = "count", !.meta = proc[p].meta]
    <3>1. /\ next.pc = "read" /\ end.pc = "count" /\ Gone.pc = "idle"
          /\ next.meta = proc[p].meta /\ end.meta = proc[p].meta /\ Gone.meta = None
      BY <1>1 DEF Fields, Gone
    <3>2. \/ proc' = [proc EXCEPT ![p] = next] \/ proc' = [proc EXCEPT ![p] = end]
          \/ proc' = [proc EXCEPT ![p] = Gone]
      BY <2>7 DEF ReplaceSegments, Quit
    <3> HIDE DEF next, end
    <3> QED  BY <1>3, <3>1, <3>2
  <2>8. CASE MarkRead(p)
    <3> DEFINE how == [Gone EXCEPT !.cmd = "mark", !.pc = "check", !.meta = config]
    <3>1. how.pc = "check" /\ how.meta = config  BY DEF Gone
    <3>2. proc' = [proc EXCEPT ![p] = how]  BY <2>8 DEF MarkRead
    <3> HIDE DEF how
    <3> QED  BY <1>3, <3>1, <3>2
  <2>9. CASE MarkCheck(p)
    <3> DEFINE how == [proc[p] EXCEPT !.pc = "count"]
    <3>1. how.pc = "count" /\ how.meta = proc[p].meta  BY <1>1 DEF Fields
    <3>2. proc' = [proc EXCEPT ![p] = how]  BY <2>9 DEF MarkCheck, Go
    <3> HIDE DEF how
    <3> QED  BY <1>3, <3>1, <3>2
  <2>10. CASE WriteCount(p)
    <3> DEFINE how == [Gone EXCEPT !.cmd = proc[p].cmd, !.pc = "status"]
    <3>1. how.pc = "status" /\ how.meta = None  BY DEF Gone
    <3>2. proc' = [proc EXCEPT ![p] = how]  BY <2>10 DEF WriteCount
    <3> HIDE DEF how
    <3> QED  BY <3>1, <3>2
  <2> QED  BY <2>1, <2>2, <2>3, <2>4, <2>5, <2>6, <2>7, <2>8, <2>9, <2>10
<1>5. /\ \A q \in Procs : proc'[q].pc = "scan" => proc'[q] = proc[q]
      /\ \A q \in Procs : proc'[q].meta \in {None, Asked}
  BY <1>1, <1>4, <1>3
<1> QED  BY <1>2, <1>5, <1>3, FilesStay

\* The scan reads what is there.
LEMMA CreateKeepsFiles ==
    ASSUME SeqInv, FilesKnown, NEW p \in Procs, CreateRow(p) \/ ScanBatch(p) \/ CreateConfig(p)
    PROVE  FilesKnown'
<1>1. DOMAIN proc = Procs /\ DOMAIN proc[p] = Fields  BY DEF SeqInv, Fits, Typed
<1>2. CASE CreateRow(p)
  <2> DEFINE how == [Gone EXCEPT !.pc = "scan", !.left = DOMAIN disk]
  <2>1. how.pc = "scan" /\ how.left = DOMAIN disk /\ how.meta = None  BY DEF Gone
  <2>2. /\ proc' = [proc EXCEPT ![p] = how] /\ status = None /\ status' = "building"
        /\ UNCHANGED <<input, disk, config, recorded>>
    BY <1>2 DEF CreateRow
  <2> HIDE DEF how
  <2>3. proc'[p] = how /\ \A q \in Procs : q # p => proc'[q] = proc[q]  BY <1>1, <2>2
  <2>4. status' # None  BY <2>2, DatasetAssumption
  <2> QED  BY <2>1, <2>2, <2>3, <2>4 DEF FilesKnown, Asked, At
<1>3. CASE ScanBatch(p)
  <2> DEFINE f == Min(proc[p].left)
             left == proc[p].left \ {f}
             how == [proc[p] EXCEPT !.left = left]
  <2>1. /\ proc[p].pc = "scan" /\ proc[p].left # {}
        /\ recorded' = [g \in DOMAIN recorded \cup {f} |-> disk[g]]
        /\ proc' = [proc EXCEPT ![p] = how]
        /\ UNCHANGED <<input, disk, status, config>>
    BY <1>3 DEF ScanBatch, At
  <2>2. how.pc = "scan" /\ how.left = left /\ how.meta = proc[p].meta  BY <1>1, <2>1 DEF Fields
  <2>3. /\ status # None /\ DOMAIN disk = DOMAIN input.sizes
        /\ proc[p].left \subseteq DOMAIN input.sizes
    BY <2>1 DEF FilesKnown, At
  <2>4. f \in proc[p].left
    <3>1. input.sizes \in Seq(Nat)  BY DatasetAssumption DEF FilesKnown
    <3>2. DOMAIN input.sizes \in SUBSET Nat  BY <3>1
    <3>3. proc[p].left \in SUBSET Nat /\ proc[p].left # {}  BY <2>1, <2>3, <3>2
    <3>4. \E n \in proc[p].left : \A m \in proc[p].left : n <= m  BY <3>3, LeastNat
    <3> QED  BY <3>4 DEF Min
  <2> HIDE DEF f, left, how
  <2>5. proc'[p] = how /\ \A q \in Procs : q # p => proc'[q] = proc[q]  BY <1>1, <2>1
  <2>6. left \subseteq DOMAIN input.sizes  BY <2>3 DEF left
  <2>7. /\ DOMAIN recorded' \subseteq DOMAIN input.sizes
        /\ \A g \in DOMAIN recorded' : recorded'[g] = input.sizes[g]
    <3>1. DOMAIN recorded' = DOMAIN recorded \cup {f}  BY <2>1
    <3>2. \A g \in DOMAIN recorded' : recorded'[g] = disk[g]  BY <2>1
    <3> QED  BY <2>3, <2>4, <3>1, <3>2 DEF FilesKnown
  <2> QED  BY <2>1, <2>2, <2>3, <2>5, <2>6, <2>7 DEF FilesKnown, Asked, At
<1>4. CASE CreateConfig(p)
  <2>1. UNCHANGED <<input, disk, status, recorded>> /\ config' = Asked
    BY <1>4 DEF CreateConfig
  <2>2. \E how : /\ proc' = [proc EXCEPT ![p] = how] /\ how.pc # "scan"
                  /\ how.meta \in {None, Asked}
    <3> DEFINE how == [proc[p] EXCEPT !.pc = "plan", !.meta = Asked]
    <3>1. how.pc = "plan" /\ how.meta = Asked /\ Gone.pc = "idle" /\ Gone.meta = None
      BY <1>1 DEF Fields, Gone
    <3>2. proc' = [proc EXCEPT ![p] = how] \/ proc' = [proc EXCEPT ![p] = Gone]
      BY <1>4 DEF CreateConfig, Quit
    <3> HIDE DEF how
    <3> QED  BY <3>1, <3>2
  <2>3. /\ \A q \in Procs : proc'[q].pc = "scan" => proc'[q] = proc[q]
        /\ \A q \in Procs : proc'[q].meta \in {None, Asked}
    BY <1>1, <2>2 DEF FilesKnown
  <2> QED  BY <2>1, <2>3, FilesStay
<1> QED  BY <1>2, <1>3, <1>4

\* Every step keeps what is known of the files.
LEMMA FilesStayKnown ==
    ASSUME SeqInv, FilesKnown, [Next]_dvars
    PROVE  FilesKnown'
<1>1. CASE UNCHANGED dvars
  <2>1. UNCHANGED <<input, disk, config, recorded, status, proc>>  BY <1>1 DEF dvars, db
  <2> QED  BY <2>1, FilesStay DEF FilesKnown
<1>2. ASSUME NEW f \in DOMAIN input.sizes, SourceChanges(f) PROVE FilesKnown'
  <2>1. /\ f \in DOMAIN recorded /\ \A p \in Procs : ~At(p, "scan")
        /\ disk' = [g \in DOMAIN disk \ {f} |-> disk[g]]
        /\ UNCHANGED <<input, status, config, recorded, proc>>
    BY <1>2 DEF SourceChanges, db
  <2>2. DOMAIN disk' \subseteq DOMAIN disk /\ \A g \in DOMAIN disk' : disk'[g] = disk[g]
    BY <2>1
  <2>3. status' # None /\ \A p \in Procs : ~At(p, "scan")'  BY <2>1 DEF FilesKnown, At
  <2> QED  BY <2>1, <2>2, <2>3 DEF FilesKnown, Asked
<1>3. ASSUME NEW p \in Procs, Step(p) \/ Die(p) PROVE FilesKnown'
  <2>1. CASE CreateRow(p) \/ ScanBatch(p) \/ CreateConfig(p)  BY <2>1, CreateKeepsFiles
  <2>2. CASE ~(CreateRow(p) \/ ScanBatch(p) \/ CreateConfig(p))
    BY <1>3, <2>2, WorkKeepsFiles DEF Step
  <2> QED  BY <2>1, <2>2
<1> QED  BY <1>1, <1>2, <1>3 DEF Next

\* ListFiles returns each recorded file once, with its size.
LEMMA ListedRight ==
    ASSUME FilesKnown
    PROVE  /\ Listed \in Seq(File) /\ FilesOf(Listed) = DOMAIN recorded
           /\ \A i \in DOMAIN Listed : Listed[i].size = recorded[Listed[i].file]
<1> DEFINE D == DOMAIN recorded
           R == {ss \in D \X D : ss[1] < ss[2]}
           files == InOrder(D, <)
           m == Cardinality(D)
<1>1. input.sizes \in Seq(Nat)  BY DatasetAssumption DEF FilesKnown
<1>2. /\ D \in SUBSET (1 .. Len(input.sizes)) /\ Len(input.sizes) \in Nat
      /\ \A f \in D : f \in Nat /\ recorded[f] \in Nat
  BY <1>1 DEF FilesKnown
<1>3. IsFiniteSet(D)
  <2>1. 1 \in Int /\ Len(input.sizes) \in Int  BY <1>2
  <2>2. IsFiniteSet(1 .. Len(input.sizes))  BY <2>1, FS_Interval
  <2> QED  BY <1>2, <2>2, FS_Subset
<1>4. \A x, y \in D : <<x, y>> \in R <=> x < y  OBVIOUS
<1>5. \A x \in D : Below(R, D, x) = {y \in D : y < x}  BY DEF Below
<1>6. files = [i \in 1 .. m |-> CHOOSE x \in D : Cardinality({y \in D : y < x}) = i - 1]
  BY Zenon DEF InOrder
<1>7. \A i : (CHOOSE x \in D : Cardinality({y \in D : y < x}) = i - 1)
             = CHOOSE x \in D : Cardinality(Below(R, D, x)) = i - 1
  BY <1>5
<1> HIDE DEF R, files
<1>8. files = Sorted(R, D)
  <2> DEFINE at(i) == CHOOSE x \in D : Cardinality({y \in D : y < x}) = i - 1
             to(i) == CHOOSE x \in D : Cardinality(Below(R, D, x)) = i - 1
  <2>1. files = [i \in 1 .. m |-> at(i)]  BY <1>6
  <2>2. Sorted(R, D) = [i \in 1 .. m |-> to(i)]  BY DEF Sorted
  <2>3. \A i : at(i) = to(i)  BY <1>7
  <2> HIDE DEF at, to
  <2> QED  BY <2>1, <2>2, <2>3
<1>9. Orders(R, D)  BY <1>2, <1>4 DEF Orders
<1>10. /\ m \in Nat /\ files \in [1 .. m -> D]
       /\ \A x \in D : \E i \in 1 .. m : files[i] = x
  BY <1>3, <1>8, <1>9, SortedRight
<1>11. Listed = [i \in DOMAIN files |-> [file |-> files[i], size |-> recorded[files[i]]]]
  BY Zenon DEF Listed, files
<1> HIDE DEF D, m
<1>12. Listed = [i \in 1 .. m |-> [file |-> files[i], size |-> recorded[files[i]]]]
  BY <1>10, <1>11
<1>13. ASSUME NEW i \in 1 .. m
       PROVE  Listed[i] \in File /\ Listed[i].file = files[i] /\ files[i] \in D
  <2>1. files[i] \in D  BY <1>10
  <2>2. files[i] \in Nat /\ recorded[files[i]] \in Nat  BY <1>2, <2>1
  <2> QED  BY <1>12, <2>1, <2>2 DEF File
<1>14. Listed \in [1 .. m -> File]  BY <1>12, <1>13
<1>15. FilesOf(Listed) = D
  <2>1. FilesOf(Listed) = {Listed[i].file : i \in 1 .. m}  BY <1>12 DEF FilesOf
  <2> QED  BY <1>10, <1>13, <2>1
<1>16. \A i \in DOMAIN Listed : Listed[i].size = recorded[Listed[i].file]  BY <1>12
<1> QED  BY <1>10, <1>14, <1>15, <1>16 DEF D

\* A limit that was read is none, or the one that is asked for.
LEMMA LimitKnown ==
    ASSUME FilesKnown, NEW meta \in {None, Asked}
    PROVE  /\ input.max \in Nat /\ MaxBytesIn(meta) \in Nat
           /\ MaxBytesIn(meta) > 0 => MaxBytesIn(meta) = input.max
<1>1. input.max \in Nat  BY DatasetAssumption DEF FilesKnown
<1>2. meta # None => meta.max = input.max  BY DEF Asked
<1> QED  BY <1>1, <1>2 DEF MaxBytesIn

\* The definitions of the recorded files are as they should be, in every state.
LEMMA DefsStayExact == ASSUME FilesKnown PROVE DefsExact
<1> DEFINE defs == GenerateShardDefs(Listed, MaxBytes)
           said == Concat(defs)
<1>1. MaxBytes \in Nat  BY LimitKnown DEF FilesKnown, MaxBytes
<1>2. Listed \in Seq(File) /\ FilesOf(Listed) = DOMAIN recorded  BY ListedRight
<1>3. DefsRight(Listed, MaxBytes, defs)  BY <1>1, <1>2, DefsAreRight
<1>4. /\ Said(said) = Concat(Whole(Listed)) /\ FilesOf(said) = DOMAIN recorded
      /\ \A i \in DOMAIN defs : defs[i] # <<>> /\ (MaxBytes > 0 => Total(defs[i]) <= MaxBytes)
  BY <1>2, <1>3 DEF DefsRight
<1> HIDE DEF defs
<1>5. /\ Concat([i \in DOMAIN said |->
             Bytes(said[i].file, said[i].offset + 1, said[i].offset + said[i].size)])
         = Concat([i \in DOMAIN Listed |-> Bytes(Listed[i].file, 1, Listed[i].size)])
      /\ {said[i].file : i \in DOMAIN said} = DOMAIN recorded
  BY <1>4, Zenon DEF Said, SegBytes, Whole, FilesOf
<1> QED  BY <1>4, <1>5, Zenon DEF DefsExact, defs

\* The scan has read nothing.
LEMMA InitKnown == ASSUME Init PROVE FilesKnown
<1>1. \A p \in Procs : ~At(p, "scan") /\ proc[p].meta = None  BY DEF Init, At, Gone
<1>2. DOMAIN recorded = {} /\ disk = input.sizes /\ input \in Inputs /\ config = None
  BY DEF Init
<1> QED  BY <1>1, <1>2 DEF FilesKnown

\* The shard definitions hold every byte of the recorded files once and in order,
\* none of them is empty, and none is larger than the limit: whatever the sizes and
\* the limit are, and whatever the scan has read.
THEOREM DefinitionsStayExact == Spec => []DefsExact
<1>1. Init => SeqInv /\ FilesKnown  BY InitSafe, InitKnown
<1>2. SeqInv /\ FilesKnown /\ [Next]_dvars => (SeqInv /\ FilesKnown)'
  BY NextSafe, FilesStayKnown
<1>3. FilesKnown => DefsExact  BY DefsStayExact
<1> QED  BY <1>1, <1>2, <1>3, PTL DEF Spec
(***************************************************************************)
(* What the shards contain                                                 *)
(***************************************************************************)

\* What the scan has recorded stays recorded.
LEMMA ContentStep ==
    ASSUME FilesKnown, input' = input, DOMAIN recorded \subseteq DOMAIN recorded',
           \A q \in Procs : KnownWork(proc'[q]), \A r \in shards' : KnownImage(r.image),
           \A n \in DOMAIN segments' :
               \A i \in DOMAIN segments'[n] : segments'[n][i].file \in DOMAIN recorded'
    PROVE  ContentKnown'
<1>1. \A f : Large(f) <=> Large(f)'  BY DEF Large
<1>2. \A x : KnownSeg(x) => KnownSeg(x)'  BY <1>1 DEF KnownSeg
<1>3. \A e : KnownPiece(e) => KnownPiece(e)'  BY <1>1 DEF KnownPiece
<1>4. \A image : KnownImage(image) => KnownImage(image)'  BY <1>3 DEF KnownImage
<1>5. \A d : KnownDef(d) => KnownDef(d)'  BY <1>2 DEF KnownDef
<1>6. ASSUME NEW w, KnownWork(w) PROVE KnownWork(w)'
  BY <1>4, <1>5, <1>6 DEF KnownWork, Busy, Current
<1>7. \A q \in Procs : KnownWork(proc[q])'  BY <1>6
<1>8. \A r \in shards' : KnownImage(r.image)'  BY <1>4
<1> QED  BY <1>7, <1>8 DEF ContentKnown

\* A step of one process leaves the work of the others alone.
LEMMA WorkStep ==
    ASSUME SeqInv, ContentKnown, NEW p \in Procs, NEW how,
           proc' = [proc EXCEPT ![p] = how], KnownWork(how)
    PROVE  \A q \in Procs : KnownWork(proc'[q])
BY DEF SeqInv, ContentKnown

\* A process without a job holds nothing of the files.
LEMMA RestsKnown ==
    ASSUME NEW w, ~Busy(w), w.pc \notin {"write", "row", "segments"}
    PROVE  KnownWork(w)
BY DEF KnownWork
\* The commands that make no shard.
LEMMA CreateKeepsContent ==
    ASSUME SeqInv, FilesKnown, ContentKnown, NEW p \in Procs,
           CreateRow(p) \/ ScanBatch(p) \/ CreateConfig(p)
    PROVE  ContentKnown'
<1> DEFINE w == proc[p]
<1>1. DOMAIN w = Fields /\ KnownWork(w) /\ (Busy(w) <=> w.pc \in {"read", "write", "row", "segments"})
  BY DEF SeqInv, Fits, Typed, ContentKnown
<1>2. KnownWork(Gone)  BY RestsKnown DEF Gone, Busy
<1>3. CASE CreateRow(p)
  <2> DEFINE how == [Gone EXCEPT !.pc = "scan", !.left = DOMAIN disk]
  <2>1. how.at = 0 /\ how.pc = "scan"  BY DEF Gone
  <2>2. proc' = [proc EXCEPT ![p] = how] /\ UNCHANGED <<input, recorded, shards, segments>>
    BY <1>3 DEF CreateRow
  <2> HIDE DEF how
  <2>3. KnownWork(how)  BY <2>1, RestsKnown DEF Busy
  <2>4. \A q \in Procs : KnownWork(proc'[q])  BY <2>2, <2>3, WorkStep
  <2> QED  BY <2>2, <2>4, ContentStep DEF ContentKnown
<1>4. CASE ScanBatch(p)
  <2> DEFINE f == Min(w.left)
             how == [w EXCEPT !.left = @ \ {f}]
  <2>1. /\ w.pc = "scan" /\ proc' = [proc EXCEPT ![p] = how]
        /\ UNCHANGED <<input, shards, segments>>
        /\ recorded' = [g \in DOMAIN recorded \cup {f} |-> disk[g]]
    BY <1>4 DEF ScanBatch, At
  <2>2. how.at = w.at /\ how.pc = w.pc  BY <1>1 DEF Fields
  <2> HIDE DEF how, f
  <2>3. KnownWork(how)  BY <1>1, <2>1, <2>2, RestsKnown DEF Busy
  <2>4. \A q \in Procs : KnownWork(proc'[q])  BY <2>1, <2>3, WorkStep
  <2>5. DOMAIN recorded \subseteq DOMAIN recorded'  BY <2>1
  <2> QED  BY <2>1, <2>4, <2>5, ContentStep DEF ContentKnown
<1>5. CASE CreateConfig(p)
  <2> DEFINE how == [w EXCEPT !.pc = "plan", !.meta = Asked]
  <2>1. /\ w.pc = "scan" /\ UNCHANGED <<input, recorded, shards, segments>>
        /\ proc' = [proc EXCEPT ![p] = how] \/ proc' = [proc EXCEPT ![p] = Gone]
    BY <1>5 DEF CreateConfig, At, Quit
  <2>2. how.at = w.at /\ how.pc = "plan"  BY <1>1 DEF Fields
  <2> HIDE DEF how
  <2>3. KnownWork(how)  BY <1>1, <2>1, <2>2, RestsKnown DEF Busy
  <2>4. \A q \in Procs : KnownWork(proc'[q])
    <3>1. CASE proc' = [proc EXCEPT ![p] = how]  BY <2>3, <3>1, WorkStep
    <3>2. CASE proc' = [proc EXCEPT ![p] = Gone]  BY <1>2, <3>2, WorkStep
    <3> QED  BY <2>1, <3>1, <3>2
  <2> QED  BY <2>1, <2>4, ContentStep DEF ContentKnown
<1> QED  BY <1>3, <1>4, <1>5

\* A definition that GenerateShardDefs makes of the recorded files.
LEMMA DefsKnown ==
    ASSUME FilesKnown, NEW meta \in {None, Asked}
    PROVE  \A i \in DOMAIN BuildJobs(meta) : KnownDef(BuildJobs(meta)[i].def)
<1> DEFINE max == MaxBytesIn(meta)
           defs == GenerateShardDefs(Listed, max)
<1>1. input.max \in Nat /\ max \in Nat /\ (max > 0 => max = input.max)  BY LimitKnown
<1>2. BuildJobs(meta) = [i \in DOMAIN defs |-> [name |-> <<"build", i - 1, FormatIn(meta)>>,
                                                def |-> defs[i], seq |-> i - 1]]
  BY Zenon DEF BuildJobs
<1> HIDE DEF max
<1>3. /\ Listed \in Seq(File) /\ FilesOf(Listed) = DOMAIN recorded
      /\ \A k \in DOMAIN Listed : Listed[k].size = recorded[Listed[k].file]
  BY ListedRight
<1>4. DefsRight(Listed, max, defs)  BY <1>1, <1>3, DefsAreRight
<1> HIDE DEF defs
<1>5. /\ defs \in Seq(Seq(Seg))
      /\ ToSet(Concat(defs)) \subseteq UNION {SegsOf(Listed[k], max) : k \in DOMAIN Listed}
  BY <1>4 DEF DefsRight
<1>6. SUFFICES ASSUME NEW i \in DOMAIN defs PROVE KnownDef(defs[i])  BY <1>2
<1>7. /\ Concat(defs) \in Seq(Seg) /\ defs[i] \in Seq(Seg)
      /\ Holds(Concat(defs), defs[i], Len(Concat(PartsBefore(defs, i))))
  BY <1>5, PartFound
<1>8. ASSUME NEW j \in DOMAIN defs[i] PROVE KnownSeg(defs[i][j])
  <2> DEFINE o == Len(Concat(PartsBefore(defs, i)))
             said == Concat(defs)
             d == defs[i]
             x == d[j]
  <2>1. said \in Seq(Seg) /\ d \in Seq(Seg) /\ Holds(said, d, o)  BY <1>7
  <2> HIDE DEF o, said, d
  <2>2. j \in 1 .. Len(d) /\ o \in Nat /\ o + j \in 1 .. Len(said) /\ said[o + j] = x
    BY <1>8, <2>1 DEF Holds, d
  <2>3. x \in ToSet(said)  BY <2>1, <2>2 DEF ToSet
  <2>4. PICK k \in DOMAIN Listed : x \in SegsOf(Listed[k], max)
    BY <1>5, <2>3 DEF said
  <2>5. /\ x \in Seg /\ x.file = Listed[k].file
        /\ x.size = Listed[k].size \/ (max > 0 /\ max < Listed[k].size)
    BY <2>4 DEF SegsOf
  <2>6. x.file \in DOMAIN recorded  BY <1>3, <2>5 DEF FilesOf
  <2>7. x.file \in DOMAIN input.sizes /\ Listed[k].size = input.sizes[x.file]
    BY <1>3, <2>5, <2>6 DEF FilesKnown
  <2>8. Listed[k].size \in Nat
    <3>1. Listed[k] \in File  BY <1>3, <2>4
    <3> QED  BY <3>1 DEF File
  <2>9. Large(x.file) \/ x.size = input.sizes[x.file]
    BY <1>1, <2>5, <2>7, <2>8 DEF Large
  <2>10. KnownSeg(x)  BY <2>5, <2>7, <2>9 DEF KnownSeg
  <2> QED  BY <2>10 DEF d
<1> QED  BY <1>7, <1>8 DEF KnownDef

\* A process takes up definitions, of a build or of an external generator.
LEMMA PlanKeepsContent ==
    ASSUME SeqInv, FilesKnown, ContentKnown, NEW p \in Procs,
           Plan(p) \/ \E f \in DOMAIN input.sizes : ShardMake(p, f)
    PROVE  ContentKnown'
<1>1. UNCHANGED <<input, recorded, shards, segments>>  BY DEF Plan, ShardMake, db
<1>2. \E how : proc' = [proc EXCEPT ![p] = how] /\ KnownWork(how)
  <2>1. ASSUME NEW meta \in {None, Asked}, Builds(p, meta)
        PROVE  \E how : proc' = [proc EXCEPT ![p] = how] /\ KnownWork(how)
    <3> DEFINE jobs == BuildJobs(meta)
               start == [Gone EXCEPT !.cmd = "build", !.meta = meta]
               go    == [start EXCEPT !.pc = "read", !.jobs = jobs, !.at = 1]
               end   == [start EXCEPT !.pc = "count"]
    <3>1. \A i \in DOMAIN jobs : KnownDef(jobs[i].def)  BY DefsKnown
    <3>2. proc' = [proc EXCEPT ![p] = IF 1 \in DOMAIN jobs THEN go ELSE end]
      BY <2>1 DEF Builds
    <3> HIDE DEF jobs
    <3>3. go.pc = "read" /\ go.jobs = jobs /\ end.pc = "count" /\ end.at = 0  BY DEF Gone
    <3> HIDE DEF go, end
    <3>4. KnownWork(go)  BY <3>1, <3>3 DEF KnownWork
    <3>5. KnownWork(end)  BY <3>3, RestsKnown DEF Busy
    <3> QED  BY <3>2, <3>4, <3>5
  <2>2. ASSUME Plan(p) PROVE \E meta \in {None, Asked} : Builds(p, meta)
    BY <2>2 DEF Plan, FilesKnown
  <2>3. ASSUME NEW f \in DOMAIN input.sizes, ShardMake(p, f)
        PROVE  \E how : proc' = [proc EXCEPT ![p] = how] /\ KnownWork(how)
    <3> DEFINE job == ExternalJob(f)
               how == [Gone EXCEPT !.cmd = "make", !.meta = config, !.pc = "read",
                                   !.at = 1, !.jobs = <<job>>]
    <3>1. KnownDef(job.def)
      <4> DEFINE seg == [file |-> f, offset |-> 0, size |-> 0]
      <4>1. input.sizes \in Seq(Nat)  BY DatasetAssumption DEF FilesKnown
      <4>2. seg \in Seg  BY <4>1 DEF Seg
      <4>3. KnownSeg(seg)  BY <4>2 DEF KnownSeg
      <4>4. job.def = <<seg>>  BY DEF ExternalJob
      <4> HIDE DEF seg, job
      <4>5. <<seg>> \in Seq(Seg) /\ \A i \in DOMAIN <<seg>> : <<seg>>[i] = seg  BY <4>2
      <4> QED  BY <4>3, <4>4, <4>5 DEF KnownDef
    <3>2. proc' = [proc EXCEPT ![p] = how]  BY <2>3 DEF ShardMake
    <3> HIDE DEF job
    <3>3. how.pc = "read" /\ how.jobs = <<job>>  BY DEF Gone
    <3>4. \A i \in DOMAIN <<job>> : <<job>>[i] = job  OBVIOUS
    <3> HIDE DEF how
    <3>5. KnownWork(how)  BY <3>1, <3>3, <3>4 DEF KnownWork
    <3> QED  BY <3>2, <3>5
  <2> QED  BY <2>1, <2>2, <2>3
<1>3. \A q \in Procs : KnownWork(proc'[q])  BY <1>2, WorkStep
<1> QED  BY <1>1, <1>3, ContentStep DEF ContentKnown

\* A process that ends takes nothing with it.
LEMMA QuitKeepsContent ==
    ASSUME SeqInv, FilesKnown, ContentKnown, NEW p \in Procs, Quit(p),
           UNCHANGED <<input, recorded, shards, segments>>
    PROVE  ContentKnown'
<1>1. KnownWork(Gone)  BY RestsKnown DEF Gone, Busy
<1>2. \A q \in Procs : KnownWork(proc'[q])  BY <1>1, WorkStep DEF Quit
<1> QED  BY <1>2, ContentStep DEF ContentKnown
\* A process that has a job has its definition.
LEMMA WorksOn ==
    ASSUME SeqInv, ContentKnown, NEW p \in Procs,
           proc[p].pc \in {"read", "write", "row", "segments"}
    PROVE  /\ KnownWork(proc[p]) /\ DOMAIN proc[p] = Fields
           /\ proc[p].at \in DOMAIN proc[p].jobs /\ proc[p].at \in Nat
           /\ Job(p) = Current(proc[p]) /\ KnownDef(Job(p).def)
BY DEF SeqInv, Fits, Typed, ContentKnown, KnownWork, Job, Current, Busy

\* Reading the sources of a definition.
LEMMA MadeRight ==
    ASSUME FilesKnown, NEW def, KnownDef(def), \A i \in DOMAIN def : Readable(disk, def[i]), NEW format
    PROVE  LET image == MakeImage(disk, def, format)
           IN  /\ KnownImage(image) /\ DOMAIN image.entries = DOMAIN def
               /\ \A i \in DOMAIN image.entries : image.entries[i].file = def[i].file
<1> DEFINE image == MakeImage(disk, def, format)
           n == Len(def)
           es == image.entries
<1>1. def \in Seq(Seg) /\ n \in Nat /\ DOMAIN def = 1 .. n  BY DEF KnownDef
<1>2. es = [i \in 1 .. n |-> [file |-> def[i].file, data |-> ReadSource(disk, def[i])]]
  BY DEF MakeImage
<1> HIDE DEF image, n
<1>3. ASSUME NEW i \in 1 .. n PROVE KnownPiece(es[i]) /\ es[i].file = def[i].file
  <2> DEFINE x == def[i]
             e == es[i]
             m == IF x.size = 0 THEN disk[x.file] ELSE x.size
  <2>1. e = [file |-> x.file, data |-> ReadSource(disk, x)]  BY <1>2
  <2>2. KnownSeg(x) /\ Readable(disk, x)  BY <1>1, <1>3 DEF KnownDef
  <2>3. ReadSource(disk, x) = Bytes(x.file, 1, m)  BY DEF ReadSource
  <2>4. x \in Seg /\ x.file \in DOMAIN disk /\ x.file \in DOMAIN input.sizes
        /\ (Large(x.file) \/ x.size \in {0, input.sizes[x.file]})
    BY <2>2 DEF KnownSeg, Readable
  <2>5. x.file \in Nat /\ x.size \in Nat  BY <2>4 DEF Seg
  <2>6. disk[x.file] = input.sizes[x.file] /\ disk[x.file] \in Nat
    <3>1. input.sizes \in Seq(Nat)  BY DatasetAssumption DEF FilesKnown
    <3>2. input.sizes[x.file] \in Nat  BY <2>4, <3>1
    <3> QED  BY <2>4, <3>2 DEF FilesKnown
  <2> HIDE DEF x, es
  <2>7. m \in Nat /\ (Large(x.file) \/ m = input.sizes[x.file])  BY <2>4, <2>5, <2>6
  <2> HIDE DEF m
  <2>8. Bytes(x.file, 1, m) \in Seq(Byte)
    <3>1. Bytes(x.file, 1, m) = [k \in 1 .. m - 1 + 1 |-> <<x.file, 1 + k - 1>>]  BY DEF Bytes
    <3>2. m - 1 + 1 = m  BY <2>7
    <3>3. \A k \in 1 .. m : <<x.file, 1 + k - 1>> \in Byte  BY <2>5, <2>7 DEF Byte
    <3> HIDE DEF x
    <3>4. Bytes(x.file, 1, m) \in [1 .. m -> Byte]  BY <3>1, <3>2, <3>3
    <3> QED  BY <2>7, <3>4
  <2>9. e \in Piece  BY <2>1, <2>3, <2>5, <2>8 DEF Piece
  <2>10. e.file = x.file /\ e.data = Bytes(x.file, 1, m)  BY <2>1, <2>3
  <2>11. KnownPiece(e)  BY <2>4, <2>7, <2>9, <2>10 DEF KnownPiece
  <2> QED  BY <2>10, <2>11 DEF x
<1>4. es \in Seq(Piece) /\ DOMAIN es = 1 .. n
  <2>1. \A i \in 1 .. n : es[i] \in Piece  BY <1>3 DEF KnownPiece
  <2>2. es \in [1 .. n -> Piece]  BY <1>2, <2>1
  <2> HIDE DEF es
  <2> QED  BY <1>1, <2>2
<1>5. KnownImage(image)  BY <1>3, <1>4 DEF KnownImage
<1> QED  BY <1>1, <1>3, <1>4, <1>5 DEF image

\* A process reads its sources and writes its file.
LEMMA MakeKeepsContent ==
    ASSUME SeqInv, FilesKnown, ContentKnown, NEW p \in Procs, ReadSources(p) \/ WriteImage(p)
    PROVE  ContentKnown'
<1> DEFINE w == proc[p]
<1>1. /\ UNCHANGED <<input, recorded, shards, segments>>
      /\ w.pc \in {"read", "write", "row", "segments"}
  BY DEF ReadSources, WriteImage, db, At
<1>2. /\ KnownWork(w) /\ DOMAIN w = Fields /\ Job(p) = Current(w) /\ KnownDef(Job(p).def)
  BY <1>1, WorksOn
<1>3. \E how : proc' = [proc EXCEPT ![p] = how] /\ KnownWork(how)
  <2>1. CASE ReadSources(p)
    <3> DEFINE def == Job(p).def
               unknown == {def[i].file : i \in DOMAIN def} \ DOMAIN recorded
               image == MakeImage(disk, def, FormatIn(w.meta))
               how == [w EXCEPT !.pc = "write", !.unknown = unknown, !.image = image]
    <3>1. proc' = [proc EXCEPT ![p] = how]  BY <2>1 DEF ReadSources, SeqInv
    <3>2. /\ KnownImage(image) /\ DOMAIN image.entries = DOMAIN Job(p).def
          /\ \A i \in DOMAIN image.entries : image.entries[i].file = Job(p).def[i].file
      BY <1>2, <2>1, MadeRight DEF ReadSources, Sources
    <3>3. unknown = {} => \A i \in DOMAIN def : def[i].file \in DOMAIN recorded  OBVIOUS
    <3> HIDE DEF unknown, image, def
    <3>4. /\ how.jobs = w.jobs /\ how.at = w.at /\ how.image = image
          /\ how.unknown = unknown
      BY <1>2 DEF Fields
    <3>5. Busy(w) /\ Current(w).def = def  BY <1>1, <1>2 DEF SeqInv, Fits, Typed, def
    <3> HIDE DEF how
    <3>6. KnownWork(how)
      BY <1>2, <3>2, <3>3, <3>4, <3>5 DEF KnownWork, Current, Busy, def
    <3> QED  BY <3>1, <3>6
  <2>2. CASE WriteImage(p)
    <3>1. PICK s : proc' = [proc EXCEPT ![p].pc = "row", ![p].seq = s]  BY <2>2 DEF WriteImage
    <3> DEFINE how == [w EXCEPT !.pc = "row", !.seq = s]
    <3>2. proc' = [proc EXCEPT ![p] = how]  BY <3>1 DEF SeqInv
    <3>3. /\ how.jobs = w.jobs /\ how.at = w.at /\ how.image = w.image
          /\ how.unknown = w.unknown
      BY <1>2 DEF Fields
    <3>4. w.pc = "write"  BY <2>2 DEF WriteImage, At
    <3> HIDE DEF how
    <3>5. KnownWork(how)  BY <1>2, <3>3, <3>4 DEF KnownWork, Current, Busy
    <3> QED  BY <3>2, <3>5
  <2> QED  BY <2>1, <2>2
<1>4. \A q \in Procs : KnownWork(proc'[q])  BY <1>3, WorkStep
<1> QED  BY <1>1, <1>4, ContentStep DEF ContentKnown

\* A process inserts its row, or its segments.
LEMMA RecordKeepsContent ==
    ASSUME SeqInv, FilesKnown, ContentKnown, NEW p \in Procs, UpsertRow(p) \/ ReplaceSegments(p)
    PROVE  ContentKnown'
<1> DEFINE w == proc[p]
<1>1. /\ UNCHANGED <<input, recorded>>
      /\ w.pc \in {"row", "segments"} /\ w.pc \in {"read", "write", "row", "segments"}
  BY DEF UpsertRow, ReplaceSegments, At
<1>2. /\ KnownWork(w) /\ DOMAIN w = Fields /\ Job(p) = Current(w)
      /\ w.at \in DOMAIN w.jobs /\ w.at \in Nat
  BY <1>1, WorksOn
<1>3. /\ KnownImage(w.image) /\ DOMAIN w.image.entries = DOMAIN Job(p).def
      /\ \A i \in DOMAIN w.image.entries : w.image.entries[i].file = Job(p).def[i].file
      /\ w.unknown = {} => \A i \in DOMAIN Job(p).def : Job(p).def[i].file \in DOMAIN recorded
  BY <1>1, <1>2 DEF KnownWork
<1>4. KnownWork(Gone)  BY RestsKnown DEF Gone, Busy
<1>5. CASE UpsertRow(p)
  <2> DEFINE how == [w EXCEPT !.pc = "segments"]
             new == [name |-> Job(p).name, seq |-> w.seq, image |-> w.image]
  <2>1. /\ w.pc = "row" /\ proc' = [proc EXCEPT ![p] = how] /\ segments' = segments
        /\ shards' = (shards \ RowOf(Job(p).name)) \cup {new}
    BY <1>5 DEF UpsertRow, At, Go
  <2>2. /\ how.jobs = w.jobs /\ how.at = w.at /\ how.image = w.image
        /\ how.unknown = w.unknown
    BY <1>2 DEF Fields
  <2>3. new.image = w.image  OBVIOUS
  <2> HIDE DEF how, new
  <2>4. KnownWork(how)  BY <1>2, <2>1, <2>2 DEF KnownWork, Current, Busy
  <2>5. \A q \in Procs : KnownWork(proc'[q])  BY <2>1, <2>4, WorkStep
  <2>6. \A r \in shards' : KnownImage(r.image)  BY <1>3, <2>1, <2>3 DEF ContentKnown
  <2> QED  BY <1>1, <2>1, <2>5, <2>6, ContentStep DEF ContentKnown
<1>6. CASE ReplaceSegments(p)
  <2> DEFINE next == w.at + 1
             name == Job(p).name
             go  == [w EXCEPT !.pc = "read", !.at = next]
             end == [Gone EXCEPT !.cmd = "build", !.pc = "count", !.meta = w.meta]
  <2>1. /\ shards' = shards /\ KnownFiles(p)
        /\ segments' = [n \in DOMAIN segments \cup {name} |->
                          IF n = name THEN Segments(w.image) ELSE segments[n]]
        /\ \/ next \in DOMAIN w.jobs /\ proc' = [proc EXCEPT ![p] = go]
           \/ proc' = [proc EXCEPT ![p] = end]
           \/ proc' = [proc EXCEPT ![p] = Gone]
    BY <1>6 DEF ReplaceSegments, Quit, SeqInv
  <2>2. go.pc = "read" /\ go.jobs = w.jobs /\ end.pc = "count" /\ end.at = 0
    BY <1>2 DEF Fields, Gone
  <2>3. Busy(w)  BY <1>1 DEF SeqInv, Fits, Typed
  <2> HIDE DEF go, end, name
  <2>4. KnownWork(go) /\ KnownWork(end)
    <3>1. KnownWork(end)  BY <2>2, RestsKnown DEF Busy
    <3> QED  BY <1>2, <2>2, <2>3, <3>1 DEF KnownWork
  <2>5. \A q \in Procs : KnownWork(proc'[q])
    <3>1. PICK how : proc' = [proc EXCEPT ![p] = how] /\ KnownWork(how)  BY <1>4, <2>1, <2>4
    <3> QED  BY <3>1, WorkStep
  <2>6. ASSUME NEW n \in DOMAIN segments', NEW i \in DOMAIN segments'[n]
        PROVE  segments'[n][i].file \in DOMAIN recorded'
    <3>1. CASE n = name
      <4> DEFINE es == w.image.entries
      <4>1. segments'[n] = Segments(w.image)  BY <2>1, <3>1
      <4>2. es \in Seq(Piece)  BY <1>3 DEF KnownImage
      <4>3. i \in DOMAIN es /\ segments'[n][i].file = es[i].file
        BY <2>6, <4>1, <4>2 DEF Segments
      <4>4. es[i].file \in DOMAIN recorded  BY <1>3, <2>1, <4>3 DEF KnownFiles
      <4> QED  BY <1>1, <4>3, <4>4
    <3>2. CASE n # name
      <4>1. n \in DOMAIN segments /\ segments'[n] = segments[n]  BY <2>1, <2>6, <3>2
      <4> QED  BY <1>1, <2>6, <4>1 DEF ContentKnown
    <3> QED  BY <3>1, <3>2
  <2>7. \A r \in shards' : KnownImage(r.image)  BY <2>1 DEF ContentKnown
  <2> QED  BY <1>1, <2>5, <2>6, <2>7, ContentStep
<1> QED  BY <1>5, <1>6

\* mark-built and the end of a build touch no shard.
LEMMA MarkKeepsContent ==
    ASSUME SeqInv, FilesKnown, ContentKnown, NEW p \in Procs,
           MarkRead(p) \/ MarkCheck(p) \/ WriteCount(p)
    PROVE  ContentKnown'
<1> DEFINE w == proc[p]
<1>1. DOMAIN w = Fields /\ (Busy(w) <=> w.pc \in {"read", "write", "row", "segments"})
  BY DEF SeqInv, Fits, Typed
<1>2. UNCHANGED <<input, recorded, shards, segments>>  BY DEF MarkRead, MarkCheck, WriteCount, db
<1>3. \E how : /\ proc' = [proc EXCEPT ![p] = how]
               /\ ~Busy(how) /\ how.pc \notin {"write", "row", "segments"}
  <2>1. CASE MarkRead(p)
    <3> DEFINE how == [Gone EXCEPT !.cmd = "mark", !.pc = "check", !.meta = config]
    <3>1. how.pc = "check" /\ ~Busy(how)  BY DEF Gone, Busy
    <3>2. proc' = [proc EXCEPT ![p] = how]  BY <2>1 DEF MarkRead
    <3> HIDE DEF how
    <3> QED  BY <3>1, <3>2
  <2>2. CASE MarkCheck(p)
    <3> DEFINE how == [w EXCEPT !.pc = "count"]
    <3>1. how.pc = "count" /\ how.at = w.at /\ w.pc = "check"
      BY <1>1, <2>2 DEF Fields, MarkCheck, At
    <3>2. proc' = [proc EXCEPT ![p] = how]  BY <2>2 DEF MarkCheck, Go
    <3> HIDE DEF how
    <3> QED  BY <1>1, <3>1, <3>2 DEF Busy
  <2>3. CASE WriteCount(p)
    <3> DEFINE how == [Gone EXCEPT !.cmd = w.cmd, !.pc = "status"]
    <3>1. how.pc = "status" /\ ~Busy(how)  BY DEF Gone, Busy
    <3>2. proc' = [proc EXCEPT ![p] = how]  BY <2>3 DEF WriteCount
    <3> HIDE DEF how
    <3> QED  BY <3>1, <3>2
  <2> QED  BY <2>1, <2>2, <2>3
<1>4. \A q \in Procs : KnownWork(proc'[q])  BY <1>3, RestsKnown, WorkStep
<1> QED  BY <1>2, <1>4, ContentStep DEF ContentKnown

\* Every step keeps what is known of the contents.
LEMMA ContentStaysKnown ==
    ASSUME SeqInv, FilesKnown, ContentKnown, [Next]_dvars
    PROVE  ContentKnown'
<1>1. ASSUME UNCHANGED <<input, recorded, shards, segments, proc>> PROVE ContentKnown'
  <2>1. \A q \in Procs : KnownWork(proc'[q])  BY <1>1 DEF ContentKnown
  <2> QED  BY <1>1, <2>1, ContentStep DEF ContentKnown
<1>2. CASE UNCHANGED dvars  BY <1>1, <1>2 DEF dvars, db
<1>3. ASSUME NEW f \in DOMAIN input.sizes, SourceChanges(f) PROVE ContentKnown'
  BY <1>1, <1>3 DEF SourceChanges, db
<1>4. ASSUME NEW p \in Procs, Step(p) \/ Die(p) PROVE ContentKnown'
  <2>1. CASE CreateRow(p) \/ ScanBatch(p) \/ CreateConfig(p)  BY <2>1, CreateKeepsContent
  <2>2. CASE Plan(p) \/ \E f \in DOMAIN input.sizes : ShardMake(p, f)  BY <2>2, PlanKeepsContent
  <2>3. CASE ReadSources(p) \/ WriteImage(p)  BY <2>3, MakeKeepsContent
  <2>4. CASE UpsertRow(p) \/ ReplaceSegments(p)  BY <2>4, RecordKeepsContent
  <2>5. CASE \/ ReadFails(p) \/ UpsertConflict(p) \/ SegmentsFail(p) \/ SetBuilt(p) \/ Die(p)
    BY <2>5, QuitKeepsContent DEF ReadFails, UpsertConflict, SegmentsFail, SetBuilt, Die, db
  <2>6. CASE MarkRead(p) \/ MarkCheck(p) \/ WriteCount(p)  BY <2>6, MarkKeepsContent
  <2> QED  BY <1>4, <2>1, <2>2, <2>3, <2>4, <2>5, <2>6 DEF Step
<1> QED  BY <1>2, <1>3, <1>4 DEF Next
(***************************************************************************)
(* A built dataset gives its files back                                    *)
(***************************************************************************)

\* The sizes and the bytes of the files that the scan has read.
LEMMA OriginalKnown ==
    ASSUME FilesKnown, NEW f \in DOMAIN recorded
    PROVE  /\ recorded[f] \in Nat /\ f \in DOMAIN input.sizes /\ recorded[f] = input.sizes[f]
           /\ Original[f] = Bytes(f, 1, recorded[f]) /\ Len(Original[f]) = recorded[f]
<1> DEFINE m == recorded[f]
           data == Bytes(f, 1, m)
<1>1. f \in DOMAIN input.sizes /\ m = input.sizes[f] /\ input.sizes \in Seq(Nat)
  BY DatasetAssumption DEF FilesKnown
<1>2. m \in Nat  BY <1>1
<1>3. Original[f] = data  BY DEF Original
<1>4. data = [k \in 1 .. m - 1 + 1 |-> <<f, 1 + k - 1>>]  BY DEF Bytes
<1> HIDE DEF m, data
<1>5. m - 1 + 1 = m  BY <1>2
<1>6. data = [k \in 1 .. m |-> <<f, 1 + k - 1>>]  BY <1>4, <1>5
<1>7. Len(data) = m  BY <1>2, <1>6
<1> QED  BY <1>1, <1>2, <1>3, <1>7 DEF m, data

\* The pieces of a shard of a settled dataset are whole recorded files.
LEMMA ShardFaithful ==
    ASSUME FilesKnown, ContentKnown, Settled, Unsplit, NEW r \in shards
    PROVE  /\ Faithful(r.image, Original) /\ FilesOf(r.image.entries) \subseteq DOMAIN recorded
           /\ r.name \in DOMAIN segments /\ segments[r.name] = Segments(r.image)
           /\ FilesOf(segments[r.name]) = FilesOf(r.image.entries)
<1> DEFINE es == r.image.entries
           segs == segments[r.name]
<1>1. r.name \in DOMAIN segments /\ segs = Segments(r.image)  BY DEF Settled, Finished
<1>2. es \in Seq(Piece) /\ \A i \in DOMAIN es : KnownPiece(es[i])
  BY DEF ContentKnown, KnownImage
<1>3. DOMAIN segs = DOMAIN es /\ \A i \in DOMAIN es : segs[i].file = es[i].file
  BY <1>1, <1>2 DEF Segments
<1>4. \A i \in DOMAIN segs : segs[i].file \in DOMAIN recorded  BY <1>1 DEF ContentKnown
<1> HIDE DEF es, segs
<1>5. ASSUME NEW i \in DOMAIN es
      PROVE  es[i].file \in DOMAIN recorded /\ es[i].data = Original[es[i].file]
  <2> DEFINE f == es[i].file
  <2>1. f \in DOMAIN recorded  BY <1>3, <1>4
  <2>2. /\ recorded[f] \in Nat /\ recorded[f] = input.sizes[f]
        /\ Original[f] = Bytes(f, 1, recorded[f])
    BY <2>1, OriginalKnown
  <2>3. input.max = 0 \/ recorded[f] <= input.max  BY <2>1 DEF Unsplit
  <2>4. input.max \in Nat  BY LimitKnown DEF FilesKnown
  <2>5. ~Large(f)  BY <2>2, <2>3, <2>4 DEF Large
  <2>6. es[i].data = Bytes(f, 1, input.sizes[f])  BY <1>2, <2>5 DEF KnownPiece
  <2> QED  BY <2>1, <2>2, <2>6
<1>6. Faithful(r.image, Original)  BY <1>2, <1>5 DEF Faithful, es
<1>7. FilesOf(es) \subseteq DOMAIN recorded  BY <1>5 DEF FilesOf
<1>8. FilesOf(segs) = FilesOf(es)  BY <1>3 DEF FilesOf
<1> QED  BY <1>1, <1>6, <1>7, <1>8 DEF es, segs

\* The format is one of the three.
LEMMA FormatKnown == ASSUME FilesKnown PROVE Format \in {"bin", "tar", "iso"}
<1>1. input.format \in {"bin", "tar", "iso"}  BY DatasetAssumption DEF FilesKnown
<1>2. config # None => config.format = input.format  BY DEF FilesKnown, Asked
<1> QED  BY <1>1, <1>2 DEF Format, FormatIn

\* Its shards, by seq, are such that reading them restores the recorded files.
LEMMA ArchiveRestorable ==
    ASSUME SeqInv, FilesKnown, ContentKnown, Settled, Unsplit
    PROVE  /\ Restorable(Archive, Cardinality(shards), Format, Original)
           /\ FilesIn(Archive, Cardinality(shards)) = DOMAIN recorded
<1> DEFINE n == Cardinality(shards)
           found == FindByDataset
<1>1. /\ n \in Nat /\ found \in [1 .. n -> shards]
      /\ \A r \in shards : \E i \in 1 .. n : found[i] = r
  BY FoundRight
<1>2. Archive = [i \in DOMAIN found |-> [image |-> found[i].image, segs |-> segments[found[i].name]]]
  BY Zenon DEF Archive
<1> HIDE DEF n, found
<1>3. /\ DOMAIN Archive = 1 .. n
      /\ \A i \in 1 .. n : /\ found[i] \in shards
                          /\ Archive[i].image = found[i].image
                          /\ Archive[i].segs = segments[found[i].name]
  BY <1>1, <1>2
<1>4. ASSUME NEW i \in 1 .. n
      PROVE  /\ Archive[i].image.format = Format /\ Faithful(Archive[i].image, Original)
             /\ Archive[i].segs = Segments(Archive[i].image)
             /\ FilesOf(Archive[i].image.entries) \subseteq DOMAIN recorded
  <2>1. found[i] \in shards  BY <1>3
  <2>2. found[i].image.format = Format  BY <2>1 DEF Settled
  <2>3. /\ Faithful(found[i].image, Original)
        /\ FilesOf(found[i].image.entries) \subseteq DOMAIN recorded
        /\ segments[found[i].name] = Segments(found[i].image)
    BY <2>1, ShardFaithful
  <2> QED  BY <1>3, <2>2, <2>3
<1>5. Restorable(Archive, n, Format, Original)
  BY <1>1, <1>3, <1>4, FormatKnown DEF Restorable
<1>6. ASSUME NEW f \in DOMAIN recorded
      PROVE  \E i \in 1 .. n : f \in FilesOf(Archive[i].image.entries)
  <2>1. PICK r \in shards : /\ r.name \in DOMAIN segments
                            /\ \E k \in DOMAIN segments[r.name] : segments[r.name][k].file = f
    BY DEF Settled, Covered
  <2>2. f \in FilesOf(segments[r.name])  BY <2>1 DEF FilesOf
  <2>3. f \in FilesOf(r.image.entries)  BY <2>2, ShardFaithful
  <2>4. PICK i \in 1 .. n : found[i] = r  BY <1>1
  <2> QED  BY <1>3, <2>3, <2>4
<1>7. FilesIn(Archive, n) = DOMAIN recorded  BY <1>4, <1>6 DEF FilesIn
<1> QED  BY <1>5, <1>7 DEF n

\* What FUSE reads of a file that is in one shard.
LEMMA ReadsOriginal ==
    ASSUME FilesKnown, NEW n, Restorable(Archive, n, "bin", Original),
           NEW f \in DOMAIN recorded, Once(f)
    PROVE  /\ FileSize(IndexOf(Archive, f)) = recorded[f]
           /\ \A off \in 0 .. recorded[f], length \in 1 .. recorded[f] + 1 :
                ReadAt(IndexOf(Archive, f), off, length)
                    = SubSeq(Original[f], off + 1, Min({off + length, recorded[f]}))
<1> DEFINE locs == IndexOf(Archive, f)
           data == Original[f]
<1>1. PICK loc : locs = <<loc>> /\ Located(loc, data)  BY IndexedOnce DEF Once
<1>2. recorded[f] \in Nat /\ Len(data) = recorded[f]  BY OriginalKnown
<1> HIDE DEF locs, data
<1>3. FileSize(locs) = recorded[f]  BY <1>1, <1>2, SizeShown
<1>4. ASSUME NEW off \in 0 .. recorded[f], NEW length \in 1 .. recorded[f] + 1
      PROVE  ReadAt(locs, off, length) = SubSeq(data, off + 1, Min({off + length, recorded[f]}))
  <2>1. off \in 0 .. Len(data) /\ length \in Nat /\ length > 0  BY <1>2
  <2>2. ReadAt(locs, off, length) = Window(data, off, length)  BY <1>1, <2>1, ReadsRight
  <2> QED  BY <1>2, <2>2 DEF Window
<1> QED  BY <1>3, <1>4 DEF locs, data

\* What is known of the numbers, the files and the contents is enough.
LEMMA Restores == ASSUME SeqInv, FilesKnown, ContentKnown PROVE BuiltRestores
<1> DEFINE n == Cardinality(shards)
           alone == FoldLeft(LAMBDA t, s : ShardUnpack(t, s.image), NoFiles, Archive)
<1>1. SUFFICES ASSUME Settled, Unsplit
               PROVE  /\ Unpack(Archive, Format) = Original
                      /\ Format = "tar" => alone = Original
                      /\ Format = "bin" => \A f \in {g \in DOMAIN recorded : Once(g)} :
                           /\ FileSize(IndexOf(Archive, f)) = recorded[f]
                           /\ \A off \in 0 .. recorded[f], length \in 1 .. recorded[f] + 1 :
                              ReadAt(IndexOf(Archive, f), off, length)
                                = SubSeq(Original[f], off + 1, Min({off + length, recorded[f]}))
  BY Zenon DEF BuiltRestores
<1>2. Restorable(Archive, n, Format, Original) /\ FilesIn(Archive, n) = DOMAIN recorded
  BY <1>1, ArchiveRestorable
<1>3. Part(Original, DOMAIN recorded) = Original  BY DEF Part, Original
<1> HIDE DEF n
<1>4. Unpack(Archive, Format) = Original
  <2>1. Unpack(Archive, Format) = Part(Original, FilesIn(Archive, n))  BY <1>2, Unpacks
  <2> QED  BY <1>2, <1>3, <2>1
<1>5. ASSUME Format = "tar" PROVE alone = Original
  <2>1. Restorable(Archive, n, "tar", Original)  BY <1>2, <1>5
  <2>2. alone = Part(Original, FilesIn(Archive, n))  BY <2>1, UnpacksAlone
  <2> HIDE DEF alone
  <2> QED  BY <1>2, <1>3, <2>2
<1>6. ASSUME Format = "bin", NEW f \in DOMAIN recorded, Once(f)
      PROVE  /\ FileSize(IndexOf(Archive, f)) = recorded[f]
             /\ \A off \in 0 .. recorded[f], length \in 1 .. recorded[f] + 1 :
                  ReadAt(IndexOf(Archive, f), off, length)
                    = SubSeq(Original[f], off + 1, Min({off + length, recorded[f]}))
  <2>1. Restorable(Archive, n, "bin", Original)  BY <1>2, <1>6
  <2> QED  BY <1>6, <2>1, ReadsOriginal
<1> HIDE DEF alone
<1> QED  BY <1>4, <1>5, <1>6

\* There are no shards.
LEMMA InitContent == ASSUME Init PROVE ContentKnown
<1>1. \A p \in Procs : proc[p] = Gone  BY DEF Init
<1>2. KnownWork(Gone)  BY RestsKnown DEF Gone, Busy
<1>3. shards = {} /\ DOMAIN segments = {}  BY DEF Init
<1> QED  BY <1>1, <1>2, <1>3 DEF ContentKnown

\* A built dataset whose files fit into shards gives every one of them back, byte
\* for byte: unpacked from every format, tar shards also by themselves, and read
\* through FUSE at every offset and length where one bin shard has the file;
\* whatever builds, makes, crashes and races led there.
THEOREM BuiltStaysRestorable == Spec => []BuiltRestores
<1>1. Init => SeqInv /\ FilesKnown /\ ContentKnown  BY InitSafe, InitKnown, InitContent
<1>2. SeqInv /\ FilesKnown /\ ContentKnown /\ [Next]_dvars => (SeqInv /\ FilesKnown /\ ContentKnown)'
  BY NextSafe, FilesStayKnown, ContentStaysKnown
<1>3. SeqInv /\ FilesKnown /\ ContentKnown => BuiltRestores  BY Restores
<1> QED  BY <1>1, <1>2, <1>3, PTL DEF Spec
===============================================================================
