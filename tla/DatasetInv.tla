------------------------------ MODULE DatasetInv ------------------------------
(***************************************************************************)
(* The inductive invariant behind SeqsContiguous and SeqStable: what a     *)
(* process w knows between choosing a number and inserting the row.  And   *)
(* what the other properties need: what the shards are called, what the    *)
(* scan has read, what the shards contain.                                 *)
(***************************************************************************)
EXTENDS Dataset

Fields == {"pc", "cmd", "meta", "jobs", "at", "left", "unknown", "image", "seq"}

Busy(w)    == w.at > 0
Current(w) == w.jobs[w.at]

\* A process works on a job exactly between "read" and "segments".
Typed(w) ==
    /\ DOMAIN w = Fields
    /\ w.at \in Nat
    /\ Busy(w) <=> w.pc \in {"read", "write", "row", "segments"}
    /\ Busy(w) => w.at \in DOMAIN w.jobs /\ w.cmd \in {"build", "make"}
    /\ w.pc = "scan" => w.cmd = "none"

\* The n-th definition of a build becomes the shard called n, in the format the build
\* has read, and asks for n; a
\* shard make has one job, with a name no build gives.
Numbered(w) ==
    /\ w.cmd = "build" => \A i \in DOMAIN w.jobs :
          w.jobs[i].name = <<"build", i - 1, FormatIn(w.meta)>> /\ w.jobs[i].seq = i - 1
    /\ w.cmd = "make" /\ Busy(w) =>
          /\ \E f \in DOMAIN input.sizes : Current(w) = ExternalJob(f)
          /\ (w.at + 1) \notin DOMAIN w.jobs

\* A build has inserted the rows of the jobs behind it.
Follows(w) ==
    w.cmd = "build" /\ Busy(w) =>
        /\ w.at - 1 <= Cardinality(shards)
        /\ w.pc = "segments" => w.at <= Cardinality(shards)

\* The number that was read before the insert: a build's own, another's at most
\* the next free one, and the one of the row of the path where there is a row.
Chosen(w) ==
    w.pc = "row" =>
        /\ w.seq \in Nat /\ w.seq <= Cardinality(shards)
        /\ w.cmd = "build" => w.seq = w.at - 1
        /\ \A r \in RowOf(Current(w).name) : r.seq = w.seq

Fits(w) == Typed(w) /\ Numbered(w) /\ Follows(w) /\ Chosen(w)

\* At most one of two processes builds, and they never work on the same shard.
Apart(w, v) ==
    /\ ~(w.cmd = "build" /\ v.cmd = "build")
    /\ ~(Busy(w) /\ Busy(v) /\ Current(w).name = Current(v).name)

\* t_shard: a path has one row, and the n-th shard of a build has the number n.
RowsNamed ==
    /\ IsFiniteSet(shards)
    /\ \A r, q \in shards : r.name = q.name => r = q
    /\ \A r \in shards : r.name[1] = "build" => r.name[2] = r.seq

SeqInv == /\ DOMAIN proc = Procs
          /\ \A p \in Procs : Fits(proc[p])
          /\ \A p, q \in Procs : p # q => Apart(proc[p], proc[q])
          /\ RowsNamed /\ SeqsContiguous

\* A shard that no build has made is named after a file of the dataset.
NamesKnown ==
    /\ input \in Inputs
    /\ \A r \in shards : r.name[1] = "build" \/ \E f \in DOMAIN input.sizes : r.name = <<"make", f>>

\* The source files are the ones of the input, or gone.  The scan has all of them
\* before it: none is gone before a scan has ended.
FilesKnown ==
    /\ input \in Inputs
    /\ DOMAIN disk \subseteq DOMAIN input.sizes
    /\ \A f \in DOMAIN disk : disk[f] = input.sizes[f]
    /\ DOMAIN recorded \subseteq DOMAIN input.sizes
    /\ \A f \in DOMAIN recorded : recorded[f] = input.sizes[f]
    /\ status = None => DOMAIN recorded = {} /\ DOMAIN disk = DOMAIN input.sizes
    /\ \A p \in Procs : At(p, "scan") =>
          /\ status # None /\ DOMAIN disk = DOMAIN input.sizes
          /\ proc[p].left \subseteq DOMAIN input.sizes
    /\ config \in {None, Asked}
    /\ \A p \in Procs : proc[p].meta \in {None, Asked}

\* To be split by the limit that dataset create is given.
Large(f) == input.max > 0 /\ input.sizes[f] > input.max

\* A segment of a file that fits names all of it, by its size or by none.
KnownSeg(x) ==
    /\ x \in Seg /\ x.file \in DOMAIN input.sizes
    /\ Large(x.file) \/ x.size \in {0, input.sizes[x.file]}

KnownDef(def) == def \in Seq(Seg) /\ \A i \in DOMAIN def : KnownSeg(def[i])

\* What was read of a file that fits are its bytes.
KnownPiece(e) ==
    /\ e \in Piece /\ e.file \in DOMAIN input.sizes
    /\ Large(e.file) \/ e.data = Bytes(e.file, 1, input.sizes[e.file])

KnownImage(image) ==
    /\ image.entries \in Seq(Piece)
    /\ \A i \in DOMAIN image.entries : KnownPiece(image.entries[i])

\* A process has read what its definition says, and t_file has the files it found there.
KnownWork(w) ==
    /\ Busy(w) => \A i \in DOMAIN w.jobs : KnownDef(w.jobs[i].def)
    /\ w.pc \in {"write", "row", "segments"} =>
          /\ KnownImage(w.image) /\ DOMAIN w.image.entries = DOMAIN Current(w).def
          /\ \A i \in DOMAIN w.image.entries : w.image.entries[i].file = Current(w).def[i].file
          /\ w.unknown = {} => \A i \in DOMAIN Current(w).def : Current(w).def[i].file \in DOMAIN recorded

\* t_segment has segments of recorded files only.
ContentKnown ==
    /\ \A p \in Procs : KnownWork(proc[p])
    /\ \A r \in shards : KnownImage(r.image)
    /\ \A n \in DOMAIN segments : \A i \in DOMAIN segments[n] : segments[n][i].file \in DOMAIN recorded
===============================================================================
