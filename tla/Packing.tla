-------------------------------- MODULE Packing --------------------------------
(***************************************************************************)
(* How the files of a dataset become DATA shards and come back: the        *)
(* definitions (dataset.GenerateShardDefs), the shard files and their      *)
(* segments (shard.makeBin, makeTar, makeIso), unpacking                   *)
(* (shard.UnpackShardFile) and reading through FUSE (fuse.BuildIndex,      *)
(* fileHandle.Read).                                                       *)
(*                                                                         *)
(* A byte is the pair <<file, position>>; a header of a tar or iso entry   *)
(* is one Header.  Compression is left out: it is undone by the same flag  *)
(* that applied it.  Files are numbered in the order of their paths.       *)
(***************************************************************************)
EXTENDS Naturals, FiniteSets, SequencesExt, Order

Byte   == Nat \X Nat
Header == <<0, 0>>

Bytes(file, first, last) == [i \in 1 .. last - first + 1 |-> <<file, first + i - 1>>]

Concat(parts) == FoldLeft(LAMBDA acc, part : acc \o part, <<>>, parts)

(***************************************************************************)
(* Shard definitions: sequences of segments of files                       *)
(***************************************************************************)

File == [file : Nat, size : Nat]
Seg  == [file : Nat, offset : Nat, size : Nat]

Total(segs) == FoldLeft(LAMBDA acc, seg : acc + seg.size, 0, segs)

\* Close the current shard, unless it has no segment.
Emit(acc) ==
    IF acc.cur = <<>> THEN acc ELSE [acc EXCEPT !.done = Append(@, acc.cur), !.cur = <<>>]

EmitIf(full, acc) == IF full THEN Emit(acc) ELSE acc

\* Mutant of NoRoom: the shard may outgrow the limit by its last file.
NoRoomWhenFull(cur, size, max) == max > 0 /\ Total(cur) >= max

NoRoom(cur, size, max) == max > 0 /\ Total(cur) + size > max /\ Total(cur) > 0

AddWhole(acc, f, max) ==
    LET room == EmitIf(NoRoom(acc.cur, f.size, max), acc)
    IN  [room EXCEPT !.cur = Append(@, [file |-> f.file, offset |-> 0, size |-> f.size])]

\* Of a file larger than max: as much as the current shard still takes.
AddChunk(acc, f, max) ==
    LET room  == EmitIf(Total(acc.cur) >= max, acc)
        left  == f.size - acc.offset
        space == max - Total(room.cur)
        chunk == IF left < space THEN left ELSE space
        seg   == [file |-> f.file, offset |-> acc.offset, size |-> chunk]
        grown == [room EXCEPT !.cur = Append(@, seg), !.offset = acc.offset + chunk]
    IN  EmitIf(Total(grown.cur) >= max, grown)

AddSplit(acc, f, max) ==
    FoldLeft(LAMBDA a, i : IF a.offset < f.size THEN AddChunk(a, f, max) ELSE a,
             [acc EXCEPT !.offset = 0], [i \in 1 .. f.size |-> i])

AddFile(acc, f, max) ==
    IF max = 0 \/ f.size <= max THEN AddWhole(acc, f, max) ELSE AddSplit(acc, f, max)

GenerateShardDefs(files, max) ==
    Emit(FoldLeft(LAMBDA acc, f : AddFile(acc, f, max),
                  [done |-> <<>>, cur |-> <<>>, offset |-> 0], files)).done

(***************************************************************************)
(* Shard files.  An image is [format, entries], the entries are pieces.    *)
(***************************************************************************)

Piece == [file : Nat, data : Seq(Byte)]

\* ReadFull fails on a file that is gone or has become too short; a segment
\* without a size is read to the end.
Readable(disk, seg) == seg.file \in DOMAIN disk /\ seg.size <= disk[seg.file]

\* The file is opened and read from its start: the offset of the segment is
\* not used.
ReadSource(disk, seg) ==
    Bytes(seg.file, 1, IF seg.size = 0 THEN disk[seg.file] ELSE seg.size)

\* Mutant of MakeImage: the segments are written in reverse.
MakeImageReversed(disk, def, format) ==
    [format |-> format,
     entries |-> [i \in 1 .. Len(def) |->
                    [file |-> def[i].file, data |-> ReadSource(disk, def[Len(def) + 1 - i])]]]

MakeImage(disk, def, format) ==
    [format |-> format,
     entries |-> [i \in 1 .. Len(def) |->
                    [file |-> def[i].file, data |-> ReadSource(disk, def[i])]]]

\* What precedes entry i: bin concatenates, tar puts a header before each.
BinOffset(entries, i) == Len(Concat([j \in 1 .. i - 1 |-> entries[j].data]))
TarOffset(entries, i) == BinOffset(entries, i) + i - 1

\* The offset that is recorded: iso leaves it at zero, tar points at the header.
SegmentOffset(image, i) ==
    CASE image.format = "bin" -> BinOffset(image.entries, i)
      [] image.format = "tar" -> TarOffset(image.entries, i)
      [] image.format = "iso" -> 0

Segments(image) ==
    [i \in 1 .. Len(image.entries) |->
        [file |-> image.entries[i].file, offset |-> SegmentOffset(image, i),
         size |-> Len(image.entries[i].data)]]

\* The bytes of the shard file; an iso starts with its directory.
Flat(image) ==
    LET data    == [i \in DOMAIN image.entries |-> image.entries[i].data]
        headers == [i \in DOMAIN image.entries |-> Header]
    IN  CASE image.format = "bin" -> Concat(data)
          [] image.format = "tar" -> Concat([i \in DOMAIN data |-> <<Header>> \o data[i]])
          [] image.format = "iso" -> headers \o Concat(data)

(***************************************************************************)
(* Unpacking.  A tree is a function from files to their bytes.             *)
(***************************************************************************)

NoFiles == [f \in {} |-> <<>>]

\* os.WriteFile replaces what an earlier segment of the file left.
WriteFile(tree, file, data) ==
    [f \in DOMAIN tree \cup {file} |-> IF f = file THEN data ELSE tree[f]]

UnpackEntries(tree, image) ==
    FoldLeft(LAMBDA t, e : WriteFile(t, e.file, e.data), tree, image.entries)

\* extractISO: the directory of the image has one file of a name, the last one.
UnpackISO(tree, image) ==
    LET Newest(f) == Max({i \in DOMAIN image.entries : image.entries[i].file = f})
        files    == {image.entries[i].file : i \in DOMAIN image.entries}
    IN  [f \in DOMAIN tree \cup files |->
            IF f \in files THEN image.entries[Newest(f)].data ELSE tree[f]]

\* ListUnpackInfo orders by offset.
ByOffset(segs) ==
    LET order == InOrder(DOMAIN segs, LAMBDA i, j :
                            \/ segs[i].offset < segs[j].offset
                            \/ segs[i].offset = segs[j].offset /\ i < j)
    IN  [k \in DOMAIN order |-> segs[order[k]]]

UnpackSegments(tree, image, segs) ==
    FoldLeft(LAMBDA t, s : WriteFile(t, s.file,
                              SubSeq(Flat(image), s.offset + 1, s.offset + s.size)),
             tree, ByOffset(segs))

\* Read as the format of the dataset: only bin needs the segments, tar and iso
\* name their entries, and their readers stop at a file of another format.
UnpackShardFile(tree, image, segs, format) ==
    CASE format = "bin" -> UnpackSegments(tree, image, segs)
      [] format = "tar" /\ image.format = "tar" -> UnpackEntries(tree, image)
      [] format = "iso" /\ image.format = "iso" -> UnpackISO(tree, image)
      [] OTHER -> tree

\* dataset unpack: the shards in the order of their seq.
Unpack(shards, format) ==
    FoldLeft(LAMBDA t, s : UnpackShardFile(t, s.image, s.segs, format), NoFiles, shards)

\* What unpackTarShard finds by itself: the zeros at the start of an iso are the
\* end of a tar.
UnpackTarShard(tree, image) ==
    IF image.format = "iso" THEN tree ELSE UnpackEntries(tree, image)

\* shard unpack of a file without a database: bin is refused, tar and iso go to
\* the tar reader.
ShardUnpack(tree, image) ==
    IF image.format \in {"tar", "iso"} THEN UnpackTarShard(tree, image) ELSE tree

(***************************************************************************)
(* FUSE                                                                    *)
(***************************************************************************)

\* BuildIndex: the segments of a file in all shards, by their offset there.
IndexOf(shards, file) ==
    LET Found(at) == shards[at[1]].segs[at[2]]
        mine    == {at \in UNION {{i} \X DOMAIN shards[i].segs : i \in DOMAIN shards} :
                      Found(at).file = file}
        order   == InOrder(mine, LAMBDA a, b :
                      \/ Found(a).offset < Found(b).offset
                      \/ Found(a).offset = Found(b).offset /\ a[1] < b[1]
                      \/ Found(a).offset = Found(b).offset /\ a[1] = b[1] /\ a[2] < b[2])
    IN  [k \in DOMAIN order |-> [image  |-> shards[order[k][1]].image,
                                offset |-> Found(order[k]).offset,
                                size   |-> Found(order[k]).size]]

\* The size that stat shows.
FileSize(locs) == Total(locs)

ReadSegment(loc, start, length) ==
    LET flat == Flat(loc.image)
        last == loc.offset + start + length
    IN  SubSeq(flat, loc.offset + start + 1, IF last < Len(flat) THEN last ELSE Len(flat))

\* fileHandle.Read of length bytes at off.
ReadAt(locs, off, length) ==
    FoldLeft(LAMBDA acc, loc :
                LET end   == acc.skipped + loc.size
                    start == IF off > acc.skipped THEN off - acc.skipped ELSE 0
                    want  == length - Len(acc.buf)
                    take  == IF start + want > loc.size THEN loc.size - start ELSE want
                IN  IF off >= end \/ want = 0 THEN [acc EXCEPT !.skipped = end]
                    ELSE [skipped |-> end, buf |-> acc.buf \o ReadSegment(loc, start, take)],
             [skipped |-> 0, buf |-> <<>>], locs).buf
==============================================================================
