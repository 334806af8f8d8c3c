------------------------------ MODULE ShardOrder ------------------------------
(***************************************************************************)
(* The logical order of a dataset's shards in build-data                   *)
(* (builddata.sortShards, compareKeys): by seq, or by keys that a regular  *)
(* expression captures from the file name.                                 *)
(*                                                                         *)
(* A key is [numeric, num, text], text a sequence of character codes.      *)
(***************************************************************************)
EXTENDS Naturals, SequencesExt

\* strings.Compare < 0
TextBefore(s, t) ==
    \E i \in DOMAIN t :
        /\ \A j \in 1 .. i - 1 : j \in DOMAIN s /\ s[j] = t[j]
        /\ i = Len(s) + 1 \/ (i \in DOMAIN s /\ s[i] < t[i])

\* Mutant of KeyBefore: numbers are compared as text.
KeyBeforeAsText(x, y) == TextBefore(x.text, y.text)

\* compareKeys < 0: as numbers only if both are.  With numbers and other texts
\* mixed this is not transitive: 2 < 10 < 1a < 2.
KeyBefore(x, y) ==
    IF x.numeric /\ y.numeric THEN x.num < y.num ELSE TextBefore(x.text, y.text)

Tie(x, y) == ~KeyBefore(x, y) /\ ~KeyBefore(y, x)

\* A shard is [keys, seq]; without a regular expression it has no keys.
Before(s, t) ==
    \/ \E k \in DOMAIN s.keys : /\ \A j \in 1 .. k - 1 : Tie(s.keys[j], t.keys[j])
                                /\ KeyBefore(s.keys[k], t.keys[k])
    \/ (\A k \in DOMAIN s.keys : Tie(s.keys[k], t.keys[k])) /\ s.seq < t.seq

\* sort.SliceStable inserts from the right, as long as there are at most twenty.
Insert(sorted, s) ==
    LET at == CHOOSE i \in 1 .. Len(sorted) + 1 :
                 /\ \A j \in i .. Len(sorted) : Before(s, sorted[j])
                 /\ i = 1 \/ ~Before(s, sorted[i - 1])
    IN  InsertAt(sorted, at, s)

SortShards(shards) == FoldLeft(Insert, <<>>, shards)
===============================================================================
