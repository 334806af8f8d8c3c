---------------------------- MODULE ArcsetSafety -----------------------------
(***************************************************************************)
(* Arcset is type correct, one lemma per command; SafeInv is inductive,    *)
(* one lemma per command and per step of a stripe worker; and the safety   *)
(* properties of Arcset follow from it.  First the placement arithmetic    *)
(* they rest on, for every k, m and layout.                                *)
(***************************************************************************)
EXTENDS ArcsetInv, OrderProofs

(***************************************************************************)
(* Partition numbers, and the bytes of a partition                         *)
(***************************************************************************)

\* partition() is a natural number.
LEMMA PartitionType ==
    ASSUME NEW g \in Nat, NEW p \in Nat, NEW s \in Nat
    PROVE  Partition(g, p, s) \in Nat
<1>1. K + M \in Nat \ {0}  BY PlacementAssumption
<1>2. (p + s) % (K + M) \in Nat  BY <1>1
<1>3. \A a, b \in Nat : a * b \in Nat OBVIOUS
<1>4. g * (K + M) \in Nat  BY <1>1, <1>3
<1> QED BY <1>2, <1>4 DEF Partition

\* Data and parity positions split the positions of a stripe at K.
LEMMA PosTypes == /\ DataPos \subseteq StripePos /\ ParityPos \subseteq StripePos
                  /\ StripePos \subseteq Nat
                  /\ StripePos = DataPos \cup ParityPos
                  /\ DataPos \cap ParityPos = {}
                  /\ \A p \in StripePos : p \in DataPos <=> p < K
BY PlacementAssumption DEF DataPos, ParityPos, StripePos

\* Groups of n partitions do not overlap.
LEMMA GroupsApart ==
    ASSUME NEW n \in Nat, NEW g \in Nat, NEW h \in Nat, NEW x \in 0 .. n - 1, NEW y \in 0 .. n - 1,
           g * n + x = h * n + y
    PROVE  g = h /\ x = y
<1>1. ASSUME NEW c \in Nat, NEW d \in Nat, c < d
      PROVE  c * n + n <= d * n
  <2>1. PICK e \in Nat : d = c + 1 + e  BY <1>1
  <2>2. d * n = c * n + n + e * n  BY <2>1
  <2>3. e * n >= 0  OBVIOUS
  <2>4. c * n \in Nat /\ d * n \in Nat /\ e * n \in Nat  OBVIOUS
  <2> QED  BY <2>2, <2>3, <2>4
<1>2. g * n \in Nat /\ h * n \in Nat  OBVIOUS
<1>3. ~(g < h)  BY <1>1, <1>2
<1>4. ~(h < g)  BY <1>1, <1>2
<1>5. g = h  BY <1>3, <1>4
<1> QED  BY <1>2, <1>5

\* A rotation by s positions is injective.
LEMMA RotationInjective ==
    ASSUME NEW n \in Nat \ {0}, NEW p \in 0 .. n - 1, NEW q \in 0 .. n - 1, NEW s \in Nat,
           (p + s) % n = (q + s) % n
    PROVE  p = q
<1> DEFINE a == (p + s) \div n
           b == (q + s) \div n
           r == (p + s) % n
<1>1. p + s = n * a + r /\ q + s = n * b + r /\ a \in Int /\ b \in Int /\ r \in Int
  OBVIOUS
<1> HIDE DEF a, b, r
<1>2. p - q = n * (a - b)  BY <1>1
<1>3. ~(a - b >= 1)
  <2> SUFFICES ASSUME a - b >= 1 PROVE FALSE  OBVIOUS
  <2>1. n * (a - b) >= n  BY <1>1
  <2> QED  BY <1>2, <2>1
<1>4. ~(a - b <= -1)
  <2> SUFFICES ASSUME a - b <= -1 PROVE FALSE  OBVIOUS
  <2>1. n * (a - b) <= -n  BY <1>1
  <2> QED  BY <1>2, <2>1
<1>5. a = b  BY <1>1, <1>3, <1>4
<1> QED  BY <1>1, <1>5

\* partition() gives the positions of a stripe different partitions, and those
\* of stripes of the same number in different groups as well.
LEMMA PartitionInjective ==
    ASSUME NEW g \in Nat, NEW h \in Nat, NEW p \in StripePos, NEW q \in StripePos, NEW s \in Nat,
           Partition(g, p, s) = Partition(h, q, s)
    PROVE  g = h /\ p = q
<1> DEFINE n == K + M
           x == IF Layout = "raid5" THEN (p + s) % n ELSE p
           y == IF Layout = "raid5" THEN (q + s) % n ELSE q
<1>1. n \in Nat \ {0} /\ p \in 0 .. n - 1 /\ q \in 0 .. n - 1
  BY PlacementAssumption DEF StripePos
<1>2. g * n + x = h * n + y  BY DEF Partition
<1>3. (p + s) % n \in 0 .. n - 1 /\ (q + s) % n \in 0 .. n - 1  BY <1>1
<1>4. x \in 0 .. n - 1 /\ y \in 0 .. n - 1  BY <1>1, <1>3
<1> HIDE DEF n
<1>5. g = h /\ x = y
  <2> HIDE DEF x, y
  <2> QED  BY <1>1, <1>2, <1>4, GroupsApart
<1>6. p = q  BY <1>1, <1>5, RotationInjective
<1> QED  BY <1>5, <1>6
\* The partitions of two groups are disjoint, whatever the stripe.
LEMMA PartitionsOfGroups ==
    ASSUME NEW g \in Nat, NEW h \in Nat, NEW p \in StripePos, NEW q \in StripePos,
           NEW s \in Nat, NEW t \in Nat, Partition(g, p, s) = Partition(h, q, t)
    PROVE  g = h
<1> DEFINE n == K + M
           x == IF Layout = "raid5" THEN (p + s) % n ELSE p
           y == IF Layout = "raid5" THEN (q + t) % n ELSE q
<1>1. n \in Nat \ {0} /\ p \in 0 .. n - 1 /\ q \in 0 .. n - 1
  BY PlacementAssumption DEF StripePos
<1>2. g * n + x = h * n + y  BY DEF Partition
<1>3. (p + s) % n \in 0 .. n - 1 /\ (q + t) % n \in 0 .. n - 1  BY <1>1
<1>4. x \in 0 .. n - 1 /\ y \in 0 .. n - 1  BY <1>1, <1>3
<1> HIDE DEF n, x, y
<1> QED  BY <1>1, <1>2, <1>4, GroupsApart

(***************************************************************************)
(* Sums of sizes                                                           *)
(***************************************************************************)

SizeSum(S) == MapThenSumSet(LAMBDA r : r.size, S)

Some(s) == CHOOSE x \in s : TRUE

\* One step of the fold, over a function that has the smaller sums.
SumStep(g, s) == IF s = {} THEN 0 ELSE Some(s).size + g[s \ {Some(s)}]

IsSum(g, S) == g = [s \in SUBSET S |-> SumStep(g, s)]

\* The recursive function behind the fold exists, and its values are numbers.
LEMMA SumExists ==
    ASSUME NEW S, IsFiniteSet(S), \A r \in S : r.size \in Nat
    PROVE  \E g : IsSum(g, S)
<1> DEFINE N == Nat
           F == [ss \in N \X S |-> ss[2].size + ss[1]]
           C == [s \in SUBSET S |-> Some(s)]
           zero == 0
<1>1. \A a \in N, r \in S : F[<<a, r>>] \in N  OBVIOUS
<1>2. \A a \in Nat, r \in S : F[<<a, r>>] = r.size + a  OBVIOUS
<1>3. \A s \in SUBSET S : C[s] = Some(s)  OBVIOUS
<1>4. \A s \in SUBSET S : s # {} => C[s] \in s  BY DEF Some
<1>5. zero \in N  OBVIOUS
<1> HIDE DEF N, F, C, zero
<1>6. \E g : (\A s \in SUBSET S : g[s] \in N) /\ IsFold(g, F, C, zero, S)
  BY <1>1, <1>4, <1>5, FoldTyped
<1>7. PICK g : (\A s \in SUBSET S : g[s] \in N) /\ IsFold(g, F, C, zero, S)
  BY <1>6
<1>8. \A s \in SUBSET S : FoldStep(F, C, zero, g, s) = SumStep(g, s)
  BY <1>2, <1>3, <1>4, <1>7 DEF FoldStep, SumStep, N, zero
<1>9. g = [s \in SUBSET S |-> SumStep(g, s)]  BY <1>7, <1>8 DEF IsFold
<1> QED  BY <1>9 DEF IsSum

\* ... and does not depend on the set it is defined for.
LEMMA SumLocal ==
    ASSUME NEW S, IsFiniteSet(S), NEW T, NEW g, NEW h, IsSum(g, S), IsSum(h, T),
           S \subseteq T
    PROVE  g[S] = h[S]
<1> DEFINE Bad == {s \in SUBSET S : g[s] # h[s]}
<1> SUFFICES ASSUME Bad # {} PROVE FALSE  OBVIOUS
<1>1. PICK s \in Bad : \A x \in s : s \ {x} \notin Bad  BY MinimalSubset
<1>2. s \in SUBSET S /\ s \in SUBSET T  OBVIOUS
<1>3. g[s] = SumStep(g, s) /\ h[s] = SumStep(h, s)  BY <1>2 DEF IsSum
<1>4. s # {}  BY <1>1, <1>3 DEF SumStep
<1>5. Some(s) \in s  BY <1>4 DEF Some
<1>6. g[s \ {Some(s)}] = h[s \ {Some(s)}]  BY <1>1, <1>2, <1>5
<1> QED  BY <1>1, <1>3, <1>6 DEF SumStep

\* The fold of a sum, one element less.
LEMMA SumUnfolds ==
    ASSUME NEW S, IsFiniteSet(S), \A r \in S : r.size \in Nat
    PROVE  /\ S = {} => SizeSum(S) = 0
           /\ S # {} => SizeSum(S) = Some(S).size + SizeSum(S \ {Some(S)})
<1> DEFINE Sum(T) == CHOOSE g : IsSum(g, T)
<1>1. \A T : SizeSum(T) = Sum(T)[T]
  BY Zenon DEF SizeSum, MapThenSumSet, MapThenFoldSet, IsSum, SumStep, Some
<1>2. \A T \in SUBSET S : IsSum(Sum(T), T)
  <2> TAKE T \in SUBSET S
  <2>1. IsFiniteSet(T) /\ \A r \in T : r.size \in Nat  BY FS_Subset
  <2> QED  BY <2>1, SumExists
<1> HIDE DEF Sum
<1>3. Sum(S)[S] = SumStep(Sum(S), S)  BY <1>2 DEF IsSum
<1>4. CASE S = {}  BY <1>1, <1>3, <1>4 DEF SumStep
<1>5. CASE S # {}
  <2> DEFINE T == S \ {Some(S)}
  <2>1. IsFiniteSet(T) /\ T \subseteq S  BY FS_Subset
  <2>2. Sum(T)[T] = Sum(S)[T]  BY <1>2, <2>1, SumLocal
  <2> QED  BY <1>1, <1>3, <1>5, <2>2 DEF SumStep
<1> QED  BY <1>4, <1>5

\* A sum of sizes is a natural number.
LEMMA SumType ==
    ASSUME NEW S, IsFiniteSet(S), \A r \in S : r.size \in Nat
    PROVE  SizeSum(S) \in Nat
<1> DEFINE Bad == {s \in SUBSET S : SizeSum(s) \notin Nat}
<1> SUFFICES ASSUME Bad # {} PROVE FALSE  OBVIOUS
<1>1. PICK s \in Bad : \A x \in s : s \ {x} \notin Bad  BY MinimalSubset
<1>2. IsFiniteSet(s) /\ s \subseteq S  BY FS_Subset
<1>3. s # {}
  <2>1. s = {} => SizeSum(s) = 0  BY <1>2, SumUnfolds
  <2> QED  BY <1>1, <2>1
<1>4. Some(s) \in s  BY <1>3 DEF Some
<1>5. s \ {Some(s)} \in SUBSET S /\ SizeSum(s \ {Some(s)}) \in Nat  BY <1>1, <1>2, <1>4
<1>6. SizeSum(s) = Some(s).size + SizeSum(s \ {Some(s)})  BY <1>2, <1>3, SumUnfolds
<1> QED  BY <1>1, <1>2, <1>4, <1>5, <1>6

\* It can be taken in any order.
LEMMA SumWithout ==
    ASSUME NEW S, IsFiniteSet(S), \A r \in S : r.size \in Nat, NEW x \in S
    PROVE  SizeSum(S) = x.size + SizeSum(S \ {x})
<1> DEFINE Bad == {s \in SUBSET S : \E y \in s : SizeSum(s) # y.size + SizeSum(s \ {y})}
<1> SUFFICES ASSUME Bad # {} PROVE FALSE  OBVIOUS
<1>1. PICK s \in Bad : \A y \in s : s \ {y} \notin Bad  BY MinimalSubset
<1>2. PICK y \in s : SizeSum(s) # y.size + SizeSum(s \ {y})  BY <1>1
<1>3. IsFiniteSet(s) /\ s \subseteq S  BY FS_Subset
<1> DEFINE c == Some(s)
<1>4. c \in s  BY <1>2 DEF Some
<1>5. SizeSum(s) = c.size + SizeSum(s \ {c})  BY <1>2, <1>3, SumUnfolds
<1> HIDE DEF c
<1>6. c # y  BY <1>2, <1>5
<1>7. SizeSum(s \ {c}) = y.size + SizeSum((s \ {c}) \ {y})
  <2>1. y \in s \ {c} /\ s \ {c} \in SUBSET S  BY <1>2, <1>3, <1>6
  <2> QED  BY <1>1, <1>4, <2>1
<1>8. SizeSum(s \ {y}) = c.size + SizeSum((s \ {y}) \ {c})
  <2>1. c \in s \ {y} /\ s \ {y} \in SUBSET S  BY <1>3, <1>4, <1>6
  <2> QED  BY <1>1, <1>2, <2>1
<1>9. (s \ {c}) \ {y} = (s \ {y}) \ {c}  OBVIOUS
<1>10. SizeSum((s \ {y}) \ {c}) \in Nat
  <2>1. IsFiniteSet((s \ {y}) \ {c}) /\ (s \ {y}) \ {c} \subseteq S
    BY <1>3, FS_Subset
  <2> QED  BY <2>1, SumType
<1>11. y.size \in Nat /\ c.size \in Nat  BY <1>3, <1>4
<1>12. PICK rest \in Nat : rest = SizeSum((s \ {y}) \ {c})  BY <1>10
<1>13. /\ SizeSum(s) = c.size + (y.size + rest)
       /\ SizeSum(s \ {y}) = c.size + rest
  BY <1>5, <1>7, <1>8, <1>9, <1>12
<1>14. c.size + (y.size + rest) = y.size + (c.size + rest)  BY <1>11
<1> QED  BY <1>2, <1>13, <1>14

\* A set of rows has at least the bytes of its subsets.
LEMMA SumMonotone ==
    ASSUME NEW S, IsFiniteSet(S), \A r \in S : r.size \in Nat, NEW T \in SUBSET S
    PROVE  SizeSum(T) <= SizeSum(S)
<1> DEFINE Bad == {s \in SUBSET S : \E t \in SUBSET s : ~(SizeSum(t) <= SizeSum(s))}
<1> SUFFICES ASSUME Bad # {} PROVE FALSE  OBVIOUS
<1>1. PICK s \in Bad : \A y \in s : s \ {y} \notin Bad
  <2>1. Bad \in SUBSET (SUBSET S)  OBVIOUS
  <2> HIDE DEF Bad
  <2> QED  BY <2>1, MinimalSubset
<1>2. PICK t \in SUBSET s : ~(SizeSum(t) <= SizeSum(s))  BY <1>1
<1>3. \A u \in SUBSET S : IsFiniteSet(u) /\ SizeSum(u) \in Nat
  <2> TAKE u \in SUBSET S
  <2>1. IsFiniteSet(u)  BY FS_Subset
  <2> QED  BY <2>1, SumType
<1>4. PICK y \in s : y \notin t  BY <1>2, <1>3
<1>5. SizeSum(s) = y.size + SizeSum(s \ {y}) /\ y.size \in Nat
  BY <1>3, SumWithout
<1>6. SizeSum(t) <= SizeSum(s \ {y})
  <2>1. t \in SUBSET (s \ {y})  BY <1>4
  <2>2. s \ {y} \in SUBSET S /\ s \ {y} \notin Bad  BY <1>1
  <2> QED  BY <2>1, <2>2
<1>7. t \in SUBSET S /\ s \ {y} \in SUBSET S /\ s \in SUBSET S  OBVIOUS
<1>8. SizeSum(t) \in Nat /\ SizeSum(s) \in Nat /\ SizeSum(s \ {y}) \in Nat  BY <1>3, <1>7
<1> HIDE DEF Bad
<1> QED  BY <1>2, <1>5, <1>6, <1>8

(***************************************************************************)
(* Bytes of a partition                                                    *)
(***************************************************************************)

\* What a partition holds is the sum of the sizes of its rows.
LEMMA UsedIsSum ==
    ASSUME NEW rs, NEW p
    PROVE  Used(rs, p) = SizeSum({r \in rs : r.partition = p})
BY Zenon DEF Used, SizeSum

\* The bytes of a partition are those of its rows (PartitionUsage).
LEMMA UsedByRows ==
    ASSUME NEW rs, NEW qs, NEW p,
           {r \in rs : r.partition = p} = {r \in qs : r.partition = p}
    PROVE  Used(rs, p) = Used(qs, p)
BY UsedIsSum

\* One more row adds its bytes to its partition, and to no other.
LEMMA UsedGrows ==
    ASSUME NEW rs, IsFiniteSet(rs), \A r \in rs : r.size \in Nat,
           NEW n, n.size \in Nat, NEW qs \in SUBSET (rs \cup {n}), NEW p
    PROVE  /\ Used(rs, p) \in Nat /\ Used(qs, p) \in Nat
           /\ Used(qs, p) <= Used(rs, p) + (IF n.partition = p THEN n.size ELSE 0)
<1> DEFINE S == {r \in rs : r.partition = p}
           T == {r \in qs : r.partition = p}
<1>1. IsFiniteSet(rs \cup {n})  BY FS_AddElement
<1>2. /\ S \subseteq rs \cup {n} /\ T \subseteq rs \cup {n} /\ T \subseteq S \cup {n}
      /\ n \in T => n.partition = p
      /\ \A r \in rs \cup {n} : r.size \in Nat
  OBVIOUS
<1>3. IsFiniteSet(S) /\ IsFiniteSet(T) /\ IsFiniteSet(T \ {n})  BY <1>1, <1>2, FS_Subset
<1>4. Used(rs, p) = SizeSum(S) /\ Used(qs, p) = SizeSum(T)  BY UsedIsSum
<1> HIDE DEF S, T
<1>5. SizeSum(S) \in Nat /\ SizeSum(T) \in Nat /\ SizeSum(T \ {n}) \in Nat
  <2>1. \A r \in S : r.size \in Nat  BY <1>2
  <2>2. \A r \in T : r.size \in Nat  BY <1>2
  <2> QED  BY <1>3, <2>1, <2>2, SumType
<1>6. SizeSum(T \ {n}) <= SizeSum(S)
  <2>1. T \ {n} \in SUBSET S /\ \A r \in S : r.size \in Nat  BY <1>2
  <2> QED  BY <1>3, <2>1, SumMonotone
<1>7. CASE n \in T
  <2>1. SizeSum(T) = n.size + SizeSum(T \ {n})
    <3>1. \A r \in T : r.size \in Nat  BY <1>2
    <3> QED  BY <1>3, <1>7, <3>1, SumWithout
  <2> QED  BY <1>2, <1>4, <1>5, <1>6, <1>7, <2>1
<1>8. CASE n \notin T
  <2>1. T \ {n} = T  BY <1>8
  <2> QED  BY <1>4, <1>5, <1>6, <2>1
<1> QED  BY <1>7, <1>8

\* A row that is replaced by one of the same size in the same partition.
LEMMA UsedReplaced ==
    ASSUME NEW rs, IsFiniteSet(rs), \A r \in rs : r.size \in Nat,
           NEW x \in rs, NEW y, y.size = x.size, y.partition = x.partition,
           NEW qs \in SUBSET ((rs \ {x}) \cup {y}), NEW p
    PROVE  Used(rs, p) \in Nat /\ Used(qs, p) \in Nat /\ Used(qs, p) <= Used(rs, p)
<1> DEFINE rest == rs \ {x}
           S == {r \in rs : r.partition = p}
<1>1. IsFiniteSet(rest) /\ (\A r \in rest : r.size \in Nat) /\ x.size \in Nat
  BY FS_Subset
<1>2. /\ Used(rest, p) \in Nat /\ Used(qs, p) \in Nat
      /\ Used(qs, p) <= Used(rest, p) + (IF x.partition = p THEN x.size ELSE 0)
  BY <1>1, UsedGrows
<1>3. Used(rs, p) = Used(rest, p) + (IF x.partition = p THEN x.size ELSE 0)
  <2>1. CASE x.partition = p
    <3>1. IsFiniteSet(S) /\ x \in S /\ \A r \in S : r.size \in Nat  BY <2>1, FS_Subset
    <3>2. S \ {x} = {r \in rest : r.partition = p}  OBVIOUS
    <3>3. Used(rs, p) = SizeSum(S) /\ Used(rest, p) = SizeSum(S \ {x})  BY <3>2, UsedIsSum
    <3> HIDE DEF S, rest
    <3>4. SizeSum(S) = x.size + SizeSum(S \ {x})  BY <3>1, SumWithout
    <3> QED  BY <1>1, <1>2, <2>1, <3>3, <3>4
  <2>2. CASE x.partition # p
    <3>1. S = {r \in rest : r.partition = p}  BY <2>2
    <3>2. Used(rs, p) = Used(rest, p)  BY <3>1, UsedIsSum
    <3> QED  BY <1>2, <2>2, <3>2
  <2> QED  BY <2>1, <2>2
<1> QED  BY <1>1, <1>2, <1>3

(***************************************************************************)
(* The commands keep the types                                             *)
(***************************************************************************)

\* place() and findNewSlot choose data positions only.
LEMMA CandidatesType ==
    ASSUME NEW rs \in SUBSET Row, NEW groups \in Nat, NEW size
    PROVE  Candidates(rs, groups, size) \subseteq DataSlot
<1>0. \A r \in rs : r.group \in Nat /\ r.stripe \in Nat /\ r.pos \in StripePos
  BY DEF Row
<1>1. PadSlots(rs, size) \subseteq DataSlot
  <2> SUFFICES ASSUME NEW r \in rs, r.pos < K PROVE SlotOf(r) \in DataSlot
    BY DEF PadSlots
  <2> QED  BY <1>0, PosTypes DEF DataSlot, SlotOf
<1>2. HoleSlots(rs, groups, size) \subseteq DataSlot
  <2> SUFFICES ASSUME NEW r \in rs, NEW sl \in [group : {r.group}, stripe : 0 .. r.stripe, pos : DataPos]
      PROVE sl \in DataSlot
    BY DEF HoleSlots
  <2> QED BY <1>0 DEF DataSlot
<1>3. FreshSlots(rs, groups, size) \subseteq DataSlot
  <2> SUFFICES ASSUME NEW g \in 0 .. groups - 1, NEW sl \in [group : {g}, stripe : NextSeq(rs, g), pos : {0}]
      PROVE sl \in DataSlot
    BY DEF FreshSlots
  <2>1. NextSeq(rs, g) \subseteq Nat BY <1>0 DEF NextSeq
  <2>2. 0 \in DataPos BY PlacementAssumption DEF DataPos
  <2> QED BY <2>1, <2>2 DEF DataSlot
<1> QED BY <1>1, <1>2, <1>3 DEF Candidates

\* The padded size of a stripe is the largest size of its DATA rows, a natural
\* number (EncodeStripeStreaming).
LEMMA PaddedType ==
    ASSUME NEW rs, \A r \in DataRows(rs) : r.size \in 0 .. MaxSize,
           NEW st
    PROVE  PaddedSize(rs, st) \in Nat
<1> DEFINE S == {r.size : r \in StripeData(rs, st)} \cup {0}
<1>1. S \in SUBSET (0 .. MaxSize) /\ S # {} /\ MaxSize \in Nat
  BY ArcsetAssumption DEF StripeData, DataRows, StripeRows
<1>2. Max(S) \in S BY <1>1, MaxOfBounded
<1> QED BY <1>1, <1>2 DEF PaddedSize

(***************************************************************************)
(* Types                                                                   *)
(***************************************************************************)

\* PGStore.Create makes a well-typed arcset.
LEMMA InitTypes == Init => TypeInv
<1> SUFFICES ASSUME Init PROVE TypeInv  OBVIOUS
<1>1. Idle \in Command /\ NotValidating.rels \in Seq(Datasets)
  BY DEF Idle, Command, NotValidating
<1> QED
  BY <1>1, ArcsetAssumption DEF Init, TypeInv, TypeOK, CurTyped, Recording, DataRowsTyped, DataRows,
     ArcsetRow, NoWork, NotValidating, Idle

\* append keeps the types: the arcset row, the relations, the frozen datasets.
LEMMA AppendTypes == TypeInv /\ AppendStep => TypeInv'
<1> SUFFICES ASSUME TypeInv, AppendStep PROVE TypeInv'  OBVIOUS
<1> USE DEF TypeInv, TypeOK, CurTyped, Recording, DataRowsTyped, DataRows, tables, files, Running
<1>1. ASSUME NEW d \in Datasets, AppendInherit(d) PROVE TypeInv'
  <2>1. op' \in Command /\ op'.cmd = "append"  BY <1>1 DEF AppendInherit, Idle, Command
  <2>2. arcset' \in ArcsetRow  BY <1>1 DEF AppendInherit, ArcsetRow
  <2> QED  BY <1>1, <2>1, <2>2 DEF AppendInherit
<1>2. ASSUME NEW d \in Datasets, AppendRegister(d) PROVE TypeInv'
  <2>1. op' \in Command /\ op'.cmd = "append"  BY <1>2 DEF AppendRegister, Command
  <2>2. arcset' \in ArcsetRow  BY <1>2 DEF AppendRegister, ArcsetRow
  <2>3. rels' \in Seq(Datasets)  BY <1>2 DEF AppendRegister
  <2> QED  BY <1>2, <2>1, <2>2, <2>3 DEF AppendRegister
<1>3. ASSUME NEW d \in Datasets, AppendKnown(d) PROVE TypeInv'
  <2>1. op' \in Command /\ op'.cmd = "append"  BY <1>3 DEF AppendKnown, Command
  <2> QED  BY <1>3, <2>1 DEF AppendKnown
<1>4. CASE AppendBusy
  <2>1. op' \in Command /\ op'.cmd = "none"  BY <1>4 DEF AppendBusy, Idle, Command
  <2> QED  BY <1>4, <2>1 DEF AppendBusy
<1>5. CASE AppendFreeze
  <2>1. op' \in Command /\ op'.cmd = "none"  BY <1>5 DEF AppendFreeze, Idle, Command
  <2>2. frozen' \subseteq Datasets  BY <1>5 DEF AppendFreeze, Command
  <2> QED  BY <1>5, <2>1, <2>2 DEF AppendFreeze
<1> QED  BY <1>1, <1>2, <1>3, <1>4, <1>5 DEF AppendStep

\* expand keeps the types: it adds groups.
LEMMA ExpandTypes ==
    ASSUME TypeInv, NEW add \in 1 .. MaxPartitions, Expand(add)
    PROVE  TypeInv'
<1> USE DEF TypeInv, TypeOK, CurTyped, Recording, DataRowsTyped, DataRows, tables, files
<1>1. arcset.groups + add \in Nat \ {0}  BY ArcsetAssumption DEF ArcsetRow
<1>2. arcset' = [arcset EXCEPT !.groups = arcset.groups + add]  BY DEF Expand
<1>3. arcset' \in ArcsetRow  BY <1>1, <1>2 DEF ArcsetRow
<1> QED  BY <1>3 DEF Expand

\* build-data keeps the types: its placement is remembered between the move and
\* the row, and the row describes the shard.
LEMMA BuildTypes == TypeInv /\ BuildStep => TypeInv'
<1> SUFFICES ASSUME TypeInv, BuildStep PROVE TypeInv'  OBVIOUS
<1> USE DEF TypeInv, TypeOK, CurTyped, Recording, DataRowsTyped, DataRows, tables, files, Running
<1>1. ASSUME NEW only \in BuildScopes, BuildStart(only) PROVE TypeInv'
  <2>1. op' \in Command /\ op'.pc = "place"
    BY <1>1, ArcsetAssumption DEF BuildStart, Idle, Command
  <2> QED  BY <1>1, <2>1 DEF BuildStart
<1>2. ASSUME NEW sh \in Shards, BuildRefused(sh) PROVE TypeInv'
  <2>1. op' \in Command /\ op'.cmd = "none"  BY <1>2 DEF BuildRefused, Idle, Command
  <2> QED  BY <1>2, <2>1 DEF BuildRefused
<1>3. ASSUME NEW sh \in Shards, NEW sl \in Candidates(rows, arcset.groups, Size[sh]),
             \/ MoveVerified(sh, sl) \/ MoveRename(sh, sl)
             \/ MoveCopy(sh, sl) \/ MoveFails(sh, sl)
      PROVE  TypeInv'
  <2>1. sl \in DataSlot
    BY CandidatesType DEF ArcsetRow
  <2>2. sl \in Slot  BY <2>1, PosTypes DEF DataSlot, Slot
  <2>3. FileAt(sh, sl) \in [shard : Shards, group : Nat, stripe : Nat, pos : DataPos]
    BY <2>1 DEF FileAt, DataSlot
  <2>4. AfterMove(sl) \in {"invalidate", "record"}  BY DEF AfterMove
  <2>5. [shard |-> sh, slot |-> sl] \in Placement \cap [shard : Shards, slot : Slot]
    BY <2>1, <2>2 DEF Placement
  <2>6. CASE MoveVerified(sh, sl)
    <3>1. op' \in Command  BY <2>6, <2>4 DEF MoveVerified, Placing, Command
    <3> QED  BY <2>6, <2>5, <3>1 DEF MoveVerified
  <2>7. CASE MoveRename(sh, sl)
    <3>1. op' \in Command  BY <2>7, <2>4 DEF MoveRename, Placing, Command
    <3> QED  BY <2>7, <2>3, <2>5, <3>1 DEF MoveRename
  <2>8. CASE MoveCopy(sh, sl)
    <3>1. op' \in Command  BY <2>8 DEF MoveCopy, Placing, Command
    <3> QED  BY <2>8, <2>3, <2>5, <3>1 DEF MoveCopy
  <2>9. CASE MoveFails(sh, sl)
    <3>1. op' \in Command /\ op'.cmd = "none"  BY <2>9 DEF MoveFails, Idle, Command
    <3> QED  BY <2>9, <3>1 DEF MoveFails
  <2> QED  BY <1>3, <2>6, <2>7, <2>8, <2>9
<1>4. CASE MoveUnlink
  <2>1. op' \in Command /\ op'.cmd = op.cmd  BY <1>4 DEF MoveUnlink, AfterMove, Command
  <2> QED  BY <1>4, <2>1 DEF MoveUnlink
<1>5. CASE BuildInvalidate
  <2>1. op' \in Command /\ op'.cmd = op.cmd  BY <1>5 DEF BuildInvalidate, Command
  <2>2. rows' \subseteq rows  BY <1>5 DEF BuildInvalidate, DeleteECShards
  <2> QED  BY <1>5, <2>1, <2>2 DEF BuildInvalidate
<1>6. CASE BuildRecord
  <2>1. op' \in Command /\ op'.pc = "place"  BY <1>6 DEF BuildRecord, Command
  <2>2. cur \in Placement  BY <1>6 DEF BuildRecord
  <2> DEFINE new == DataRow(cur.shard, cur.slot)
  <2>3. rows' \subseteq rows \cup {new}  BY <1>6 DEF BuildRecord
  <2>4. SlotPartition(cur.slot) \in Nat
    BY <2>2, PartitionType, PosTypes DEF Placement, DataSlot, SlotPartition
  <2>5. new \in Row /\ new.size = Size[new.shard] /\ new.pos \in DataPos
    BY <2>2, <2>4, PosTypes, ArcsetAssumption DEF Placement, DataSlot, DataRow, Row
  <2>6. new.shard \in Shards BY <2>2 DEF Placement, DataRow
  <2> HIDE DEF new
  <2> QED  BY <1>6, <2>1, <2>3, <2>5, <2>6 DEF BuildRecord
<1>7. CASE BuildFinish
  <2>1. op' \in Command /\ op'.cmd = "none"  BY <1>7 DEF BuildFinish, Idle, Command
  <2>2. arcset' \in ArcsetRow  BY <1>7 DEF BuildFinish, ArcsetRow, Command
  <2> QED  BY <1>7, <2>1, <2>2 DEF BuildFinish
<1> QED  BY <1>1, <1>2, <1>3, <1>4, <1>5, <1>6, <1>7 DEF BuildStep

\* make-ec keeps the types of its workers, of the rows and of the parity files.
LEMMA MakeECTypes == TypeInv /\ MakeECStep => TypeInv'
<1> SUFFICES ASSUME TypeInv, MakeECStep PROVE TypeInv'  OBVIOUS
<1> USE DEF TypeInv, TypeOK, CurTyped, Recording, DataRowsTyped, tables, files, Running
<1>1. CASE MakeECWithoutParity
  <2>1. arcset' \in ArcsetRow  BY <1>1 DEF MakeECWithoutParity, ArcsetRow, CompleteBuild
  <2> QED  BY <1>1, <2>1 DEF MakeECWithoutParity, DataRows
<1>2. ASSUME NEW filter \in Filters, MakeECStart(filter) PROVE TypeInv'
  <2>1. op' \in Command /\ op'.cmd \in {"none", "make-ec"}
    BY <1>2 DEF MakeECStart, Idle, Command
  <2>2. arcset' \in ArcsetRow  BY <1>2 DEF MakeECStart, ArcsetRow
  <2>3. DataStripes(rows) \subseteq Stripe
    BY DEF DataStripes, DataRows, StripeKey, Stripe, Row
  <2>4. DOMAIN work' \subseteq Stripe /\ work' \in [DOMAIN work' -> Worker]
    BY <1>2, <2>3 DEF MakeECStart, Worker
  <2> QED  BY <1>2, <2>1, <2>2, <2>4 DEF MakeECStart, DataRows
<1>3. ASSUME NEW st \in DOMAIN work, StripeStart(st) PROVE TypeInv'
  <2>1. work' \in [DOMAIN work -> Worker]  BY <1>3 DEF StripeStart, Worker
  <2> QED  BY <1>3, <2>1 DEF StripeStart, DataRows
<1>4. ASSUME NEW st \in DOMAIN work, StripePad(st) PROVE TypeInv'
  <2>1. work' \in [DOMAIN work -> Worker]  BY <1>4 DEF StripePad, Worker, At
  <2>2. \A p \in DataPos : ParitySlot(st, p) \in Slot
    BY PosTypes DEF ParitySlot, Slot, Stripe
  <2> QED  BY <1>4, <2>1, <2>2 DEF StripePad, DataRows
<1>5. ASSUME NEW st \in DOMAIN work, StripeVerify(st) PROVE TypeInv'
  <2>1. work' \in [DOMAIN work -> Worker]  BY <1>5 DEF StripeVerify, Worker, At
  <2> QED  BY <1>5, <2>1 DEF StripeVerify, DataRows, DeleteECAndPADShards
<1>6. ASSUME NEW st \in DOMAIN work, NEW p \in StripePos, NEW P, NEW then,
             then \in {"pad", "insert", "done"}
      PROVE  Advance(st, P, p, then) \in [DOMAIN work -> Worker]
  <2>1. work[st].done \cup {p} \subseteq StripePos  BY DEF Worker
  <2>2. [pc |-> work[st].pc, done |-> work[st].done \cup {p}] \in Worker  BY <2>1 DEF Worker
  <2>3. [pc |-> then, done |-> {}] \in Worker  BY <1>6 DEF Worker
  <2> QED  BY <2>2, <2>3 DEF Advance
<1>7. ASSUME NEW st \in DOMAIN work, NEW p \in StripePos, StripeEncode(st, p)
      PROVE  TypeInv'
  <2>1. work' \in [DOMAIN work -> Worker]  BY <1>7, <1>6 DEF StripeEncode
  <2>2. Cover(rows, st) \in SUBSET (DataPos \X (Shards \cup {None}))
    BY DEF Cover, StripeData, StripeRows, DataRows
  <2>3. ParityFile(rows, st, p)
          \in [group : Nat, stripe : Nat, pos : StripePos,
               cover : SUBSET (DataPos \X (Shards \cup {None}))]
    BY <2>2 DEF Stripe, ParityFile
  <2> QED  BY <1>7, <2>1, <2>3 DEF StripeEncode, DataRows
<1>8. \A st : PaddedSize(rows, st) \in Nat
  BY PaddedType, ArcsetAssumption
<1>9. ASSUME NEW st \in DOMAIN work, NEW p \in StripePos, StripeMetadata(st, p)
      PROVE  TypeInv'
  <2>1. work' \in [DOMAIN work -> Worker]  BY <1>9, <1>6 DEF StripeMetadata
  <2>2. \A r \in rows : [r EXCEPT !.padded = PaddedSize(rows, st)] \in Row
    BY <1>8 DEF Row
  <2>3. rows' \subseteq Row  BY <1>9, <2>2 DEF StripeMetadata
  <2>4. \A q \in rows' : \E r \in rows :
            q.type = r.type /\ q.shard = r.shard /\ q.size = r.size /\ q.pos = r.pos
    <3> SUFFICES ASSUME NEW q \in rows'
                 PROVE  \E r \in rows : q.type = r.type /\ q.shard = r.shard
                                        /\ q.size = r.size /\ q.pos = r.pos
      OBVIOUS
    <3>1. PICK r \in rows : q \in {r, [r EXCEPT !.padded = PaddedSize(rows, st)]}
      BY <1>9 DEF StripeMetadata
    <3> QED  BY <3>1 DEF Row
  <2>5. DataRowsTyped'  BY <2>4 DEF DataRows
  <2> QED  BY <1>9, <2>1, <2>3, <2>5 DEF StripeMetadata
<1>10. ASSUME NEW st \in DOMAIN work, NEW p \in StripePos, StripeInsert(st, p)
       PROVE  TypeInv'
  <2>1. work' \in [DOMAIN work -> Worker]  BY <1>10, <1>6 DEF StripeInsert
  <2>2. Partition(st.group, p, st.stripe) \in Nat
    BY PartitionType, PosTypes DEF Stripe
  <2>3. NewRow(st, p) \in Row /\ NewRow(st, p).type # "DATA"
    BY <1>8, <2>2 DEF NewRow, Row, Stripe
  <2> QED  BY <1>10, <2>1, <2>3 DEF StripeInsert, DataRows
<1>11. CASE MakeECFinish
  <2>1. arcset' \in ArcsetRow  BY <1>11 DEF MakeECFinish, ArcsetRow, CompleteBuild
  <2>2. op' \in Command /\ op'.cmd = "none"  BY <1>11 DEF MakeECFinish, Idle, Command
  <2> QED  BY <1>11, <2>1, <2>2 DEF MakeECFinish, NoWork, DataRows
<1> QED
  BY <1>1, <1>2, <1>3, <1>4, <1>5, <1>7, <1>9, <1>10, <1>11 DEF MakeECStep, StripeStep

\* validate keeps the types: it writes the arcset row only.
LEMMA ValidateTypes == TypeInv /\ ValidateStep => TypeInv'
<1> SUFFICES ASSUME TypeInv, ValidateStep PROVE TypeInv'  OBVIOUS
<1> USE DEF TypeInv, TypeOK, CurTyped, Recording, DataRowsTyped, DataRows, tables, files
<1>1. ASSUME NEW stage \in {"data", "ec", "all"}, ValidateRead(stage) PROVE TypeInv'
  BY <1>1 DEF ValidateRead
<1>2. CASE ValidatePasses  BY <1>2 DEF ValidatePasses
<1>3. CASE ValidateFails
  BY <1>3 DEF ValidateFails, NotValidating
<1>4. CASE ValidateWrite
  <2>1. arcset' \in ArcsetRow  BY <1>4 DEF ValidateWrite, ArcsetRow, CompleteBuild
  <2> QED  BY <1>4, <2>1 DEF ValidateWrite, NotValidating
<1> QED  BY <1>1, <1>2, <1>3, <1>4 DEF ValidateStep

\* A crash or a failed worker keeps the types.
LEMMA FaultTypes == TypeInv /\ Fault => TypeInv'
<1> SUFFICES ASSUME TypeInv, Fault PROVE TypeInv'  OBVIOUS
<1> USE DEF TypeInv, TypeOK, CurTyped, Recording, DataRowsTyped, DataRows, tables, files
<1>1. CASE Crash
  <2>1. op' \in Command /\ op'.cmd = "none"  BY <1>1 DEF Crash, Idle, Command
  <2> QED  BY <1>1, <2>1 DEF Crash, NoWork
<1>2. ASSUME NEW st \in DOMAIN work, StripeFail(st) PROVE TypeInv'
  <2>1. work' \in [DOMAIN work -> Worker]  BY <1>2 DEF StripeFail, Worker
  <2> QED  BY <1>2, <2>1 DEF StripeFail
<1> QED  BY <1>1, <1>2 DEF Fault

\* A step that changes nothing keeps the types.
LEMMA StutterTypes == TypeInv /\ UNCHANGED vars => TypeInv'
BY DEF TypeInv, TypeOK, CurTyped, Recording, DataRowsTyped, DataRows, vars

\* The type invariant TypeOK, for every instance.
THEOREM TypeCorrect == Spec => []TypeOK
<1>1. Init => TypeInv  BY InitTypes
<1>2. TypeInv /\ [Next]_vars => TypeInv'
  <2>1. TypeInv /\ ControlStep => TypeInv'
    BY AppendTypes, ExpandTypes, BuildTypes, MakeECTypes, FaultTypes DEF ControlStep
  <2> QED  BY <2>1, ValidateTypes, StutterTypes DEF Next
<1>3. TypeInv => TypeOK  BY DEF TypeInv
<1> QED  BY <1>1, <1>2, <1>3, PTL DEF Spec

(***************************************************************************)
(* Safety                                                                  *)
(***************************************************************************)

\* Two rows describe the same data.
SameData(r, q) ==
    /\ r.group = q.group /\ r.stripe = q.stripe /\ r.pos = q.pos
    /\ r.shard = q.shard /\ r.size = q.size

\* Covers, padded sizes and stripes depend on the data of the rows only.
LEMMA DataKept ==
    ASSUME NEW rs, NEW qs,
           \A r \in DataRows(rs) : \E q \in DataRows(qs) : SameData(r, q),
           \A q \in DataRows(qs) : \E r \in DataRows(rs) : SameData(r, q)
    PROVE  /\ DataStripes(rs) = DataStripes(qs)
           /\ \A st : /\ Cover(rs, st) = Cover(qs, st)
                      /\ PaddedSize(rs, st) = PaddedSize(qs, st)
                      /\ {r.pos : r \in StripeData(rs, st)} = {r.pos : r \in StripeData(qs, st)}
<1>1. DataStripes(rs) = DataStripes(qs)
  BY DEF DataStripes, SameData, StripeKey
<1>2. ASSUME NEW st
      PROVE  /\ \A r \in StripeData(rs, st) : \E q \in StripeData(qs, st) : SameData(r, q)
             /\ \A q \in StripeData(qs, st) : \E r \in StripeData(rs, st) : SameData(r, q)
  <2>1. \A r : r \in StripeData(rs, st) <=> r \in DataRows(rs) /\ r.group = st.group /\ r.stripe = st.stripe
    BY DEF StripeData, StripeRows, DataRows
  <2>2. \A r : r \in StripeData(qs, st) <=> r \in DataRows(qs) /\ r.group = st.group /\ r.stripe = st.stripe
    BY DEF StripeData, StripeRows, DataRows
  <2> QED  BY <2>1, <2>2 DEF SameData
<1>3. ASSUME NEW st
      PROVE  Cover(rs, st) = Cover(qs, st)
  BY <1>2 DEF Cover, SameData
<1>4. ASSUME NEW st
      PROVE  {r.pos : r \in StripeData(rs, st)} = {r.pos : r \in StripeData(qs, st)}
  BY <1>2 DEF SameData
<1>5. ASSUME NEW st
      PROVE  PaddedSize(rs, st) = PaddedSize(qs, st)
  <2>1. {r.size : r \in StripeData(rs, st)} = {r.size : r \in StripeData(qs, st)}
    BY <1>2 DEF SameData
  <2> QED  BY <2>1 DEF PaddedSize
<1> QED  BY <1>1, <1>3, <1>4, <1>5

\* An arcset just created, without rows and files, satisfies the invariant.
LEMMA InitSafe == Init => SafeInv
<1> SUFFICES ASSUME Init PROVE SafeInv  OBVIOUS
<1>1. TypeInv  BY InitTypes
<1>2. /\ rows = {} /\ DOMAIN work = {} /\ op.cmd = "none" /\ val.pc = "idle"
      /\ arcset.status = "defined" /\ source = Shards
  BY DEF Init, Idle, NoWork, NotValidating
<1> QED
  BY <1>1, <1>2 DEF SafeInv, CommandInv, StoreInv, RecordInv, Recording, WorkInv,
     ParityRowsCurrent, CompletedProtected, DataOnDisk, DataRows

\* What a step that leaves tables and files alone preserves.
LEMMA StoreKept ==
    ASSUME SafeInv, UNCHANGED <<rows, source, target, pads, parity>>
    PROVE  /\ StoreInv' /\ ParityRowsCurrent'
           /\ \A st : Protected(st)' <=> Protected(st)
<1>1. StoreInv'  BY DEF SafeInv, StoreInv, DataOnDisk
<1>2. ParityRowsCurrent'  BY DEF SafeInv, ParityRowsCurrent
<1>3. \A st : Protected(st)' <=> Protected(st)
  <2> TAKE st
  <2>1. ParityOnDisk(rows, st)' <=> ParityOnDisk(rows, st)  BY DEF ParityOnDisk
  <2>2. DataOnDisk(StripeRows(rows, st.group, st.stripe))' <=> DataOnDisk(StripeRows(rows, st.group, st.stripe))
    BY DEF DataOnDisk
  <2> QED  BY <2>1, <2>2 DEF Protected
<1> QED  BY <1>1, <1>2, <1>3

\* append writes no row and no file of the arcset, and makes it building.
LEMMA AppendSafe == SafeInv /\ val.pc = "idle" /\ AppendStep => SafeInv'
<1> SUFFICES ASSUME SafeInv, val.pc = "idle", AppendStep PROVE SafeInv'  OBVIOUS
<1>1. TypeInv'  BY AppendTypes DEF SafeInv
<1>2. /\ UNCHANGED <<rows, source, target, pads, parity, work, val>>
      /\ op.cmd \in {"none", "append"} /\ op'.cmd \in {"none", "append"}
      /\ arcset'.status \in {arcset.status, "building"}
  <2>1. arcset \in ArcsetRow /\ op \in Command  BY DEF SafeInv, TypeInv, TypeOK
  <2> USE <2>1 DEF tables, files, Running, Idle, ArcsetRow, Command
  <2>2. ASSUME NEW d \in Datasets, AppendInherit(d) PROVE <1>2!:  BY <2>2 DEF AppendInherit
  <2>3. ASSUME NEW d \in Datasets, AppendRegister(d) PROVE <1>2!:  BY <2>3 DEF AppendRegister
  <2>4. ASSUME NEW d \in Datasets, AppendKnown(d) PROVE <1>2!:  BY <2>4 DEF AppendKnown
  <2>5. CASE AppendBusy  BY <2>5 DEF AppendBusy
  <2>6. CASE AppendFreeze  BY <2>6 DEF AppendFreeze
  <2> QED  BY <2>2, <2>3, <2>4, <2>5, <2>6 DEF AppendStep
<1>3. CommandInv'  BY <1>2 DEF SafeInv, CommandInv
<1>4. RecordInv'  BY <1>2 DEF RecordInv, Recording
<1>5. WorkInv'  BY <1>2 DEF SafeInv, CommandInv, WorkInv
<1>6. CompletedProtected'  BY <1>2, StoreKept DEF SafeInv, CompletedProtected
<1> QED  BY <1>1, <1>2, <1>3, <1>4, <1>5, <1>6, StoreKept DEF SafeInv

\* expand changes the number of groups alone.
LEMMA ExpandSafe ==
    ASSUME SafeInv, val.pc = "idle", NEW add \in 1 .. MaxPartitions, Expand(add)
    PROVE  SafeInv'
<1>1. TypeInv'  BY ExpandTypes DEF SafeInv
<1>2. /\ UNCHANGED <<rows, source, target, pads, parity, work, val, op, cur>>
      /\ arcset'.status = arcset.status
  BY DEF Expand, tables, files, SafeInv, TypeInv, TypeOK, ArcsetRow
<1>3. CommandInv'  BY <1>2 DEF SafeInv, CommandInv
<1>4. RecordInv'  BY <1>2 DEF SafeInv, RecordInv, Recording, Placed
<1>5. WorkInv'
  BY <1>2 DEF SafeInv, WorkInv, WorkerInv, ParityOnDisk, DataPosOf
<1>6. CompletedProtected'  BY <1>2, StoreKept DEF SafeInv, CompletedProtected
<1> QED  BY <1>1, <1>2, <1>3, <1>4, <1>5, <1>6, StoreKept DEF SafeInv

\* A crash forgets the command; a failed worker knows nothing any more.
LEMMA FaultSafe == SafeInv /\ val.pc = "idle" /\ Fault => SafeInv'
<1> SUFFICES ASSUME SafeInv, val.pc = "idle", Fault PROVE SafeInv'  OBVIOUS
<1>1. TypeInv'  BY FaultTypes DEF SafeInv
<1>2. UNCHANGED <<arcset, rows, source, target, pads, parity, val>>
  BY DEF Fault, Crash, StripeFail, tables, files
<1>3. CompletedProtected'  BY <1>2, StoreKept DEF SafeInv, CompletedProtected
<1>4. CASE Crash
  <2>1. op'.cmd = "none" /\ DOMAIN work' = {}  BY <1>4 DEF Crash, Idle, NoWork
  <2>2. CommandInv'  BY <1>2, <2>1 DEF SafeInv, CommandInv
  <2>3. RecordInv'  BY <2>1 DEF RecordInv, Recording
  <2>4. WorkInv'  BY <2>1 DEF WorkInv
  <2> QED  BY <1>1, <1>2, <1>3, <2>2, <2>3, <2>4, StoreKept DEF SafeInv
<1>5. ASSUME NEW st \in DOMAIN work, StripeFail(st) PROVE SafeInv'
  <2>1. UNCHANGED <<op, cur>> /\ op.cmd = "make-ec"
    BY <1>5 DEF StripeFail, Running
  <2>2. DOMAIN work' = DOMAIN work  BY <1>5 DEF StripeFail
  <2>3. work'[st].pc = "failed" /\ \A other \in DOMAIN work : other # st => work'[other] = work[other]
    BY <1>5 DEF StripeFail, SafeInv, TypeInv, TypeOK, Worker
  <2>4. CommandInv'  BY <1>2, <2>1, <2>2 DEF SafeInv, CommandInv
  <2>5. RecordInv'  BY <2>1 DEF RecordInv, Recording
  <2>6. WorkInv'
    <3>1. WorkerInv(st)'  BY <2>3 DEF WorkerInv
    <3>2. ASSUME NEW other \in DOMAIN work, other # st PROVE WorkerInv(other)'
      BY <1>2, <2>3, <3>2 DEF SafeInv, WorkInv, WorkerInv, ParityOnDisk, DataPosOf
    <3> QED  BY <1>2, <2>1, <2>2, <3>1, <3>2 DEF SafeInv, WorkInv
  <2> QED  BY <1>1, <1>2, <1>3, <2>4, <2>5, <2>6, StoreKept DEF SafeInv
<1> QED  BY <1>4, <1>5 DEF Fault

\* validate completes an arcset it has found protected, under the router's
\* serialisation still on the rows it read.
LEMMA ValidateSafe == SafeInv /\ op = Idle /\ ValidateStep => SafeInv'
<1> SUFFICES ASSUME SafeInv, op = Idle, ValidateStep PROVE SafeInv'  OBVIOUS
<1>1. TypeInv'  BY ValidateTypes DEF SafeInv
<1>2. UNCHANGED <<rows, source, target, pads, parity, work, op, cur>>
  BY DEF ValidateStep, ValidateRead, ValidatePasses, ValidateFails, ValidateWrite, tables, files
<1>3. op.cmd = "none" /\ DOMAIN work = {}  BY DEF Idle, SafeInv, CommandInv
<1>4. RecordInv' /\ WorkInv'  BY <1>2, <1>3 DEF RecordInv, Recording, WorkInv
<1>5. CommandInv' /\ CompletedProtected'
  <2>1. ASSUME NEW stage \in {"data", "ec", "all"}, ValidateRead(stage)
        PROVE  CommandInv' /\ CompletedProtected'
    BY <1>2, <1>3, <2>1, StoreKept
       DEF ValidateRead, tables, SafeInv, CommandInv, CompletedProtected
  <2>2. CASE ValidatePasses
    <3>1. val'.pc = "write" /\ val'.rows = val.rows /\ val'.rels = val.rels /\ val'.stage = val.stage
      BY <2>2 DEF ValidatePasses, SafeInv, TypeInv, TypeOK
    <3>2. ChecksPass'
      BY <1>2, <2>2, <3>1 DEF ValidatePasses, ChecksPass, StripeValid, DataOnDisk, ParityOnDisk
    <3> QED
      BY <1>2, <1>3, <2>2, <3>1, <3>2, StoreKept
         DEF ValidatePasses, tables, SafeInv, CommandInv, CompletedProtected
  <2>3. CASE ValidateFails
    BY <1>2, <1>3, <2>3, StoreKept
       DEF ValidateFails, NotValidating, tables, SafeInv, CommandInv, CompletedProtected
  <2>4. CASE ValidateWrite
    <3>1. CommandInv'
      BY <1>2, <1>3, <2>4 DEF ValidateWrite, NotValidating, SafeInv, CommandInv
    <3>2. CASE val.stage = "all"
      <4>1. ChecksPass /\ val.rows = rows  BY <2>4 DEF ValidateWrite, SafeInv, CommandInv
      <4>2. ASSUME NEW st \in DataStripes(rows) PROVE Protected(st)
        <5>1. /\ DataOnDisk(StripeRows(rows, st.group, st.stripe))
              /\ \A r \in StripeRows(rows, st.group, st.stripe) : r.type = "PAD" => SlotOf(r) \in pads
          BY DEF SafeInv, StoreInv, DataOnDisk, StripeRows, DataRows
        <5>2. CASE M = 0
          <6>1. ParityPos = {}  BY <5>2, PlacementAssumption DEF ParityPos
          <6> QED  BY <5>1, <5>2, <6>1 DEF Protected, ParityOnDisk
        <5>3. CASE M > 0
          <6>1. st \in {StripeKey(r) : r \in val.rows}
            BY <4>1 DEF DataStripes, DataRows
          <6>2. StripeValid(rows, st)  BY <3>2, <4>1, <5>3, <6>1 DEF ChecksPass
          <6> QED  BY <5>1, <6>2 DEF StripeValid, Protected
        <5> QED  BY <5>2, <5>3, PlacementAssumption
      <4> QED  BY <1>2, <3>1, <4>2, StoreKept DEF CompletedProtected
    <3>3. CASE val.stage # "all"
      <4>1. arcset'.status = arcset.status
        BY <2>4, <3>3 DEF ValidateWrite, SafeInv, TypeInv, TypeOK, ArcsetRow
      <4> QED  BY <1>2, <3>1, <4>1, StoreKept DEF SafeInv, CompletedProtected
    <3> QED  BY <3>1, <3>2, <3>3
  <2> QED  BY <2>1, <2>2, <2>3, <2>4 DEF ValidateStep
<1> QED  BY <1>1, <1>2, <1>4, <1>5, StoreKept DEF SafeInv

\* A slot that placement chooses holds at most a PAD row.
LEMMA CandidateFree ==
    ASSUME TypeInv, StoreInv, NEW groups \in Nat, NEW size,
           NEW sl \in Candidates(rows, groups, size),
           NEW r \in rows, SlotOf(r) = sl
    PROVE  r.type = "PAD"
<1>1. r.group \in Nat /\ r.stripe \in Nat  BY DEF TypeInv, TypeOK, Row
<1>2. CASE sl \in PadSlots(rows, size)
  BY <1>2 DEF PadSlots, StoreInv
<1>3. CASE sl \in HoleSlots(rows, groups, size)
  BY <1>3 DEF HoleSlots
<1>4. CASE sl \in FreshSlots(rows, groups, size)
  <2>1. sl.stripe \in NextSeq(rows, sl.group)  BY <1>4 DEF FreshSlots
  <2>2. ~Started(rows, sl.group, sl.stripe)  BY <2>1 DEF NextSeq
  <2> QED  BY <1>1, <2>2 DEF Started, SlotOf
<1> QED  BY <1>2, <1>3, <1>4 DEF Candidates

\* When build-data goes straight to the row, the stripe has no parity rows.
LEMMA RecordWithoutParity ==
    ASSUME TypeInv, NEW sl, AfterMove(sl) = "record"
    PROVE  ParityRows(rows, sl.group, sl.stripe) = {}
<1>1. ~Invalidates(sl)  BY DEF AfterMove
<1>2. \A r \in rows : r.stripe \in Nat  BY DEF TypeInv, TypeOK, Row
<1> QED  BY <1>1, <1>2 DEF Invalidates, Started, ParityRows, StripeRows

\* build-data puts the file before the row, drops the parity rows of a refilled
\* stripe before the new row, and runs while the arcset is building.
LEMMA BuildSafe == SafeInv /\ val.pc = "idle" /\ BuildStep => SafeInv'
<1> SUFFICES ASSUME SafeInv, val.pc = "idle", BuildStep PROVE SafeInv'  OBVIOUS
<1>1. TypeInv'  BY BuildTypes DEF SafeInv
<1>2. /\ TypeInv /\ arcset \in ArcsetRow /\ op \in Command
      /\ StoreInv /\ RecordInv /\ ParityRowsCurrent
  BY DEF SafeInv, TypeInv, TypeOK

<1>3. /\ UNCHANGED <<pads, parity, work, val>>
      /\ DOMAIN work = {}
      /\ arcset.status = "building" /\ arcset'.status = "building"
      /\ op'.cmd \in {"none", "build-data"}
  <2> USE <1>2 DEF SafeInv, CommandInv, tables, files, Running, Idle, ArcsetRow, Command
  <2>1. ASSUME NEW only \in BuildScopes, BuildStart(only) PROVE <1>3!:
    BY <2>1 DEF BuildStart, BuildAllowed
  <2>2. ASSUME NEW sh \in Shards, BuildRefused(sh) PROVE <1>3!:
    BY <2>2 DEF BuildRefused
  <2>3. ASSUME NEW sh \in Shards, NEW sl,
               \/ MoveVerified(sh, sl) \/ MoveRename(sh, sl)
               \/ MoveCopy(sh, sl) \/ MoveFails(sh, sl)
        PROVE  <1>3!:
    BY <2>3 DEF MoveVerified, MoveRename, MoveCopy, MoveFails, Placing
  <2>4. CASE MoveUnlink  BY <2>4 DEF MoveUnlink
  <2>5. CASE BuildInvalidate  BY <2>5 DEF BuildInvalidate
  <2>6. CASE BuildRecord  BY <2>6 DEF BuildRecord
  <2>7. CASE BuildFinish  BY <2>7 DEF BuildFinish
  <2> QED  BY <2>1, <2>2, <2>3, <2>4, <2>5, <2>6, <2>7 DEF BuildStep
<1>4. CommandInv' /\ WorkInv' /\ CompletedProtected'
  BY <1>3 DEF CommandInv, WorkInv, CompletedProtected, SafeInv
<1>5. StoreInv' /\ RecordInv' /\ ParityRowsCurrent'
  <2>1. ASSUME UNCHANGED <<rows, source, target>>, op'.cmd = "none" \/ op'.pc = "place"
        PROVE  <1>5!:
    BY <1>3, <2>1, StoreKept DEF RecordInv, Recording
  <2>2. ASSUME NEW only \in BuildScopes, BuildStart(only) PROVE <1>5!:
    BY <2>1, <2>2 DEF BuildStart, tables, files, Idle
  <2>3. ASSUME NEW sh \in Shards, BuildRefused(sh) PROVE <1>5!:
    BY <2>1, <2>3 DEF BuildRefused, tables, files, Idle
  <2>4. ASSUME NEW sh \in Shards, NEW sl \in Candidates(rows, arcset.groups, Size[sh]),
               MoveFails(sh, sl)
        PROVE  <1>5!:
    BY <2>1, <2>4 DEF MoveFails, tables, files, Idle
  <2>5. CASE BuildFinish
    BY <2>1, <2>5 DEF BuildFinish, files, Idle
  <2>6. ASSUME NEW sh \in Shards, NEW sl \in Candidates(rows, arcset.groups, Size[sh]),
               MoveVerified(sh, sl) \/ MoveRename(sh, sl) \/ MoveCopy(sh, sl)
        PROVE  <1>5!:
    <3>1. /\ Placing(sh, sl) /\ rows' = rows /\ cur' = [shard |-> sh, slot |-> sl]
          /\ target \subseteq target' /\ FileAt(sh, sl) \in target'
          /\ source \ {sh} \subseteq source'
          /\ op'.pc \in {"unlink", AfterMove(sl)}
      BY <1>2, <2>6 DEF MoveVerified, MoveRename, MoveCopy, AlreadyMoved, tables, Command
    <3>2. FileAt(sh, sl).shard = sh  BY DEF FileAt
    <3>3. StoreInv'  BY <1>2, <1>3, <3>1, <3>2 DEF StoreInv, DataOnDisk
    <3>4. ParityRowsCurrent'  BY <1>2, <1>3, <3>1 DEF ParityRowsCurrent
    <3>5. \A r \in rows : SlotOf(r) = sl => r.type = "PAD"
      BY <1>2, CandidateFree DEF ArcsetRow
    <3>6. ~Placed(sh)  BY <3>1 DEF Placing, IsNext, Pending
    <3>7. op'.pc = "record" => ParityRows(rows, sl.group, sl.stripe) = {}
      BY <1>2, <3>1, RecordWithoutParity
    <3>8. RecordInv'  BY <3>1, <3>5, <3>6, <3>7 DEF RecordInv, Placed
    <3> QED  BY <3>3, <3>4, <3>8
  <2>7. CASE MoveUnlink
    <3>1. /\ UNCHANGED <<rows, target, cur>> /\ source' = source \ {cur.shard}
          /\ Recording /\ op'.pc = AfterMove(cur.slot)
      BY <1>2, <2>7 DEF MoveUnlink, Recording, Running, tables, Command
    <3>2. FileAt(cur.shard, cur.slot) \in target /\ FileAt(cur.shard, cur.slot).shard = cur.shard
      BY <1>2, <3>1 DEF RecordInv, FileAt
    <3>3. StoreInv'  BY <1>2, <1>3, <3>1, <3>2 DEF StoreInv, DataOnDisk
    <3>4. ParityRowsCurrent'  BY <1>2, <1>3, <3>1 DEF ParityRowsCurrent
    <3>5. op'.pc = "record" => ParityRows(rows, cur.slot.group, cur.slot.stripe) = {}
      BY <1>2, <3>1, RecordWithoutParity
    <3>6. RecordInv'  BY <1>2, <3>1, <3>5 DEF RecordInv, Placed
    <3> QED  BY <3>3, <3>4, <3>6
  <2>8. CASE BuildInvalidate
    <3>1. /\ UNCHANGED <<source, target, cur>> /\ Recording
          /\ rows' = {r \in rows : StripeKey(r) = StripeKey(cur.slot) => r.type # "EC"}
      BY <1>2, <2>8 DEF BuildInvalidate, Recording, Running, files, DeleteECShards
    <3>2. rows' \subseteq rows /\ DataRows(rows') = DataRows(rows)  BY <3>1 DEF DataRows
    <3>3. StoreInv'  BY <1>2, <1>3, <3>1, <3>2 DEF StoreInv, DataOnDisk
    <3>4. \A st : Cover(rows', st) = Cover(rows, st) /\ PaddedSize(rows', st) = PaddedSize(rows, st)
      BY <3>2, DataKept DEF SameData
    <3>5. ParityRowsCurrent'
      BY <1>2, <1>3, <3>2, <3>4 DEF ParityRowsCurrent, StripeRows, ParityFile
    <3>6. ParityRows(rows', cur.slot.group, cur.slot.stripe) = {}
      BY <3>1 DEF ParityRows, StripeRows, StripeKey
    <3>7. RecordInv'  BY <1>2, <3>1, <3>2, <3>6 DEF RecordInv, Placed
    <3> QED  BY <3>3, <3>5, <3>7
  <2>9. CASE BuildRecord
    <3> DEFINE new == DataRow(cur.shard, cur.slot)
    <3>1. /\ UNCHANGED <<source, target>> /\ op'.pc = "place"
          /\ op.pc = "record" /\ Recording
          /\ rows' = (rows \ {r \in rows : r.type = "PAD" /\ SlotOf(r) = cur.slot}) \cup {new}
      BY <1>2, <2>9 DEF BuildRecord, Recording, Running, files, Command
    <3>2. /\ cur \in Placement
          /\ FileAt(cur.shard, cur.slot) \in target
          /\ \A r \in rows : SlotOf(r) = cur.slot => r.type = "PAD"
          /\ ~Placed(cur.shard)
          /\ ParityRows(rows, cur.slot.group, cur.slot.stripe) = {}
      BY <1>2, <3>1 DEF RecordInv, TypeInv, CurTyped
    <3>3. /\ new.type = "DATA" /\ new.shard = cur.shard /\ SlotOf(new) = cur.slot
          /\ new.partition = SlotPartition(cur.slot)
          /\ new.group = cur.slot.group /\ new.stripe = cur.slot.stripe
      BY <3>2 DEF DataRow, SlotOf, Placement, DataSlot
    <3>4. \A r \in rows' : r = new \/ (r \in rows /\ SlotOf(r) # cur.slot)
      BY <3>1, <3>2
    <3> HIDE DEF new
    <3>5. StoreInv'
      <4>1. \A r \in DataRows(rows') : FileAt(r.shard, SlotOf(r)) \in target
        BY <1>2, <3>2, <3>3, <3>4 DEF StoreInv, DataOnDisk, DataRows
      <4>2. \A r \in DataRows(rows) : r.shard # cur.shard
        BY <3>2 DEF Placed, DataRows
      <4>3. \A r, q \in DataRows(rows') : r.shard = q.shard => r = q
        BY <1>2, <3>3, <3>4, <4>2 DEF StoreInv, DataRows
      <4>4. \A r, q \in rows' : SlotOf(r) = SlotOf(q) => r = q
        BY <1>2, <3>3, <3>4 DEF StoreInv
      <4>5. \A r \in rows' : r.partition = SlotPartition(SlotOf(r))
        BY <1>2, <3>3, <3>4 DEF StoreInv
      <4>6. \A r \in rows' : r.type = "PAD" => SlotOf(r) \in pads
        BY <1>2, <3>3, <3>4 DEF StoreInv
      <4> QED
        BY <1>2, <1>3, <3>1, <4>1, <4>3, <4>4, <4>5, <4>6 DEF StoreInv, DataOnDisk
    <3>6. ParityRowsCurrent'
      <4>1. SUFFICES ASSUME NEW e \in rows', e.type = "EC"
                     PROVE  /\ ParityFile(rows', StripeKey(e), e.pos) \in parity
                            /\ e.size = PaddedSize(rows', StripeKey(e))
                            /\ \A r \in StripeRows(rows', e.group, e.stripe) : r.padded = e.size
        BY <1>3 DEF ParityRowsCurrent
      <4>2. e \in rows /\ ~(e.group = cur.slot.group /\ e.stripe = cur.slot.stripe)
        BY <3>2, <3>3, <3>4, <4>1 DEF ParityRows, StripeRows
      <4>3. StripeRows(rows', e.group, e.stripe) = StripeRows(rows, e.group, e.stripe)
        BY <3>1, <3>3, <4>2 DEF StripeRows, SlotOf
      <4>4. /\ StripeData(rows', StripeKey(e)) = StripeData(rows, StripeKey(e))
        BY <4>3 DEF StripeData, StripeKey
      <4> QED
        BY <1>2, <4>1, <4>2, <4>3, <4>4
           DEF ParityRowsCurrent, ParityFile, Cover, PaddedSize
    <3>7. RecordInv'  BY <3>1 DEF RecordInv, Recording
    <3> QED  BY <3>5, <3>6, <3>7
  <2> QED  BY <2>2, <2>3, <2>4, <2>5, <2>6, <2>7, <2>8, <2>9 DEF BuildStep
<1> QED  BY <1>1, <1>4, <1>5 DEF SafeInv

\* A worker's knowledge does not depend on what is done to another stripe.
LEMMA OtherWorkers ==
    ASSUME SafeInv, NEW st \in DOMAIN work, NEW other \in DOMAIN work, other # st,
           work'[other] = work[other],
           \A g \in Nat, s \in Nat : g # st.group \/ s # st.stripe =>
               StripeRows(rows', g, s) = StripeRows(rows, g, s),
           \A f \in parity : f.group # st.group \/ f.stripe # st.stripe => f \in parity',
           pads \subseteq pads'
    PROVE  WorkerInv(other)'
<1>1. st \in Stripe /\ other \in Stripe  BY DEF SafeInv, TypeInv, TypeOK
<1>2. other.group # st.group \/ other.stripe # st.stripe  BY <1>1 DEF Stripe
<1>3. StripeRows(rows', other.group, other.stripe) = StripeRows(rows, other.group, other.stripe)
  BY <1>1, <1>2 DEF Stripe
<1>4. StripeData(rows', other) = StripeData(rows, other)  BY <1>3 DEF StripeData
<1>5. /\ Cover(rows', other) = Cover(rows, other)
      /\ PaddedSize(rows', other) = PaddedSize(rows, other)
      /\ DataPosOf(other)' = DataPosOf(other)
  BY <1>4 DEF Cover, PaddedSize, DataPosOf
<1>6. \A p : ParityFile(rows, other, p) \in parity => ParityFile(rows', other, p) \in parity'
  BY <1>2, <1>5 DEF ParityFile
<1>7. ParityOnDisk(rows, other) => ParityOnDisk(rows, other)'
  BY <1>6 DEF ParityOnDisk
<1>8. WorkerInv(other)  BY DEF SafeInv, WorkInv
<1> QED  BY <1>3, <1>5, <1>6, <1>7, <1>8 DEF WorkerInv

\* Steps of one worker, up to what they do to its own stripe.
LEMMA WorkerStep ==
    ASSUME SafeInv, val.pc = "idle", NEW st \in DOMAIN work, op.cmd = "make-ec",
           TypeInv', UNCHANGED <<arcset, op, val, source, target>>,
           DOMAIN work' = DOMAIN work,
           \A other \in DOMAIN work : other # st => work'[other] = work[other],
           DataStripes(rows') = DataStripes(rows),
           \A g \in Nat, s \in Nat : g # st.group \/ s # st.stripe =>
               StripeRows(rows', g, s) = StripeRows(rows, g, s),
           \A f \in parity : f.group # st.group \/ f.stripe # st.stripe => f \in parity',
           pads \subseteq pads',
           StoreInv', WorkerInv(st)', ParityRowsCurrent'
    PROVE  SafeInv'
<1>1. CommandInv'  BY DEF SafeInv, CommandInv
<1>2. RecordInv'  BY DEF RecordInv, Recording
<1>3. WorkInv'
  <2>1. \A other \in DOMAIN work : other # st => WorkerInv(other)'  BY OtherWorkers
  <2> QED  BY <2>1 DEF SafeInv, WorkInv
<1>4. CompletedProtected'  BY DEF SafeInv, CommandInv, CompletedProtected
<1> QED  BY <1>1, <1>2, <1>3, <1>4 DEF SafeInv

\* A worker that gets the semaphore knows nothing of its stripe yet.
LEMMA StripeStartSafe ==
    ASSUME SafeInv, val.pc = "idle", TypeInv', NEW st \in DOMAIN work, StripeStart(st)
    PROVE  SafeInv'
<1>1. /\ UNCHANGED <<arcset, op, val, rows, source, target, pads, parity>>
      /\ op.cmd = "make-ec" /\ DOMAIN work' = DOMAIN work
      /\ work'[st] = [pc |-> "encode", done |-> {}]
      /\ \A other \in DOMAIN work : other # st => work'[other] = work[other]
  BY DEF StripeStart, At, Running, tables, files
<1>2. WorkerInv(st)'  BY <1>1 DEF WorkerInv
<1> QED  BY <1>1, <1>2, StoreKept, WorkerStep

\* The zero-byte PAD files add to the files and disturb no row.
LEMMA StripePadSafe ==
    ASSUME SafeInv, val.pc = "idle", TypeInv', NEW st \in DOMAIN work, StripePad(st)
    PROVE  SafeInv'
<1>1. /\ UNCHANGED <<arcset, op, val, rows, source, target, parity>>
      /\ op.cmd = "make-ec" /\ DOMAIN work' = DOMAIN work
      /\ work[st].pc = "pad" /\ work'[st].pc = "verify" /\ work'[st].done = work[st].done
      /\ \A other \in DOMAIN work : other # st => work'[other] = work[other]
      /\ pads' = pads \cup {ParitySlot(st, p) : p \in DataPos \ DataPosOf(st)}
  BY DEF StripePad, At, Running, tables, SafeInv, TypeInv, TypeOK, Worker
<1>2. StoreInv' /\ ParityRowsCurrent'
  BY <1>1 DEF SafeInv, StoreInv, DataOnDisk, ParityRowsCurrent
<1>3. WorkerInv(st)'
  BY <1>1 DEF SafeInv, WorkInv, WorkerInv, ParityOnDisk, DataPosOf
<1> QED  BY <1>1, <1>2, <1>3, WorkerStep

\* Renaming a new parity file over the old one replaces the file of that slot
\* only, and one that agrees with the rows is replaced by an equal one.
LEMMA StripeEncodeSafe ==
    ASSUME SafeInv, val.pc = "idle", TypeInv', NEW st \in DOMAIN work, NEW p \in StripePos,
           StripeEncode(st, p)
    PROVE  SafeInv'
<1>1. /\ UNCHANGED <<arcset, op, val, rows, source, target, pads>>
      /\ op.cmd = "make-ec" /\ DOMAIN work' = DOMAIN work
      /\ \A other \in DOMAIN work : other # st => work'[other] = work[other]
      /\ work[st].pc = "encode" /\ p \in Left(st, ParityPos)
      /\ parity' = {f \in parity : SlotOf(f) # ParitySlot(st, p)} \cup {ParityFile(rows, st, p)}
  BY DEF StripeEncode, At, Running, IsFirst, Advance, tables
<1>2. work'[st] = IF Left(st, ParityPos) = {p} THEN [pc |-> "pad", done |-> {}]
                  ELSE [pc |-> "encode", done |-> work[st].done \cup {p}]
  BY <1>1 DEF StripeEncode, Advance
<1>3. \A key, q : ParityFile(rows, key, q) \in parity => ParityFile(rows, key, q) \in parity'
  <2> SUFFICES ASSUME NEW key, NEW q, ParityFile(rows, key, q) \in parity
               PROVE  ParityFile(rows, key, q) \in parity'
    OBVIOUS
  <2>1. CASE key.group = st.group /\ key.stripe = st.stripe /\ q = p
    <3>1. Cover(rows, key) = Cover(rows, st)  BY <2>1 DEF Cover, StripeData
    <3> QED  BY <1>1, <2>1, <3>1 DEF ParityFile
  <2>2. CASE ~(key.group = st.group /\ key.stripe = st.stripe /\ q = p)
    <3>1. SlotOf(ParityFile(rows, key, q)) # ParitySlot(st, p)
      BY <2>2 DEF SlotOf, ParityFile, ParitySlot
    <3> QED  BY <1>1, <3>1
  <2> QED  BY <2>1, <2>2
<1>4. StoreInv' /\ ParityRowsCurrent'
  BY <1>1, <1>3 DEF SafeInv, StoreInv, DataOnDisk, ParityRowsCurrent
<1>5. WorkerInv(st)'
  <2>1. \A q \in work[st].done \cup {p} : ParityFile(rows, st, q) \in parity'
    BY <1>1, <1>3 DEF SafeInv, WorkInv, WorkerInv
  <2>2. CASE Left(st, ParityPos) = {p}
    <3>1. ParityOnDisk(rows, st)'  BY <1>1, <2>1, <2>2 DEF ParityOnDisk, Left
    <3> QED  BY <1>2, <2>2, <3>1 DEF WorkerInv
  <2>3. CASE Left(st, ParityPos) # {p}
    BY <1>1, <1>2, <2>1, <2>3 DEF WorkerInv
  <2> QED  BY <2>2, <2>3
<1>6. \A f \in parity : f.group # st.group \/ f.stripe # st.stripe => f \in parity'
  BY <1>1 DEF SlotOf, ParitySlot
<1> QED  BY <1>1, <1>4, <1>5, <1>6, WorkerStep

\* DeleteECAndPADShards leaves the data of every stripe alone, the rows of the
\* stripe are its DATA rows, and no other row goes.
LEMMA StripeVerifySafe ==
    ASSUME SafeInv, val.pc = "idle", TypeInv', NEW st \in DOMAIN work, StripeVerify(st)
    PROVE  SafeInv'
<1>1. /\ UNCHANGED <<arcset, op, val, source, target, pads, parity>>
      /\ op.cmd = "make-ec" /\ DOMAIN work' = DOMAIN work
      /\ work[st].pc = "verify" /\ work'[st].pc = "metadata" /\ work'[st].done = work[st].done
      /\ \A other \in DOMAIN work : other # st => work'[other] = work[other]
      /\ rows' = {r \in rows : StripeKey(r) = st => r.type = "DATA"}
  BY DEF StripeVerify, At, Running, files, SafeInv, TypeInv, TypeOK, Worker, DeleteECAndPADShards
<1>2. \A r : StripeKey(r) = st <=> r.group = st.group /\ r.stripe = st.stripe
  BY DEF SafeInv, TypeInv, TypeOK, Stripe, StripeKey
<1>3. rows' \subseteq rows /\ DataRows(rows') = DataRows(rows)
  BY <1>1 DEF DataRows
<1>4. /\ DataStripes(rows') = DataStripes(rows)
      /\ \A key : /\ Cover(rows', key) = Cover(rows, key)
                  /\ PaddedSize(rows', key) = PaddedSize(rows, key)
                  /\ {r.pos : r \in StripeData(rows', key)} = {r.pos : r \in StripeData(rows, key)}
  BY <1>3, DataKept DEF SameData
<1>5. StoreInv'
  BY <1>1, <1>3 DEF SafeInv, StoreInv, DataOnDisk
<1>6. ParityRowsCurrent'
  BY <1>1, <1>3, <1>4 DEF SafeInv, ParityRowsCurrent, ParityFile, StripeRows
<1>7. \A g \in Nat, s \in Nat : g # st.group \/ s # st.stripe =>
          StripeRows(rows', g, s) = StripeRows(rows, g, s)
  BY <1>1, <1>2 DEF StripeRows
<1>8. WorkerInv(st)'
  <2>1. DataPosOf(st)' = DataPosOf(st)  BY <1>4 DEF DataPosOf
  <2>2. ParityOnDisk(rows, st)'  BY <1>1, <1>4 DEF ParityOnDisk, ParityFile, StripeVerify, FilesAgree
  <2>3. \A p \in DataPos \ DataPosOf(st) : ParitySlot(st, p) \in pads
    BY <1>1 DEF SafeInv, WorkInv, WorkerInv
  <2>4. work'[st].done = {}  BY <1>1 DEF SafeInv, WorkInv, WorkerInv
  <2>5. \A r \in StripeRows(rows', st.group, st.stripe) : r.type = "DATA"
    BY <1>1, <1>2 DEF StripeRows
  <2> QED  BY <1>1, <2>1, <2>2, <2>3, <2>4, <2>5 DEF WorkerInv
<1> QED  BY <1>1, <1>4, <1>5, <1>6, <1>7, <1>8, WorkerStep

\* The rows of another stripe, or of another position, are not touched; the
\* row at p gets the padded size of the stripe.
LEMMA StripeMetadataSafe ==
    ASSUME SafeInv, val.pc = "idle", TypeInv', NEW st \in DOMAIN work, NEW p \in StripePos,
           StripeMetadata(st, p)
    PROVE  SafeInv'
<1> DEFINE padded == PaddedSize(rows, st)
           upd(r) == IF SlotOf(r) = ParitySlot(st, p) THEN [r EXCEPT !.padded = padded] ELSE r
<1>1. /\ UNCHANGED <<arcset, op, val, source, target, pads, parity>>
      /\ op.cmd = "make-ec" /\ DOMAIN work' = DOMAIN work
      /\ work[st].pc = "metadata" /\ p \in Left(st, DataPosOf(st))
      /\ \A other \in DOMAIN work : other # st => work'[other] = work[other]
      /\ rows' = {upd(r) : r \in rows}
  BY DEF StripeMetadata, At, Running, files, Advance
<1>2. work'[st] = IF Left(st, DataPosOf(st)) = {p} THEN [pc |-> "insert", done |-> {}]
                  ELSE [pc |-> "metadata", done |-> work[st].done \cup {p}]
  BY <1>1 DEF StripeMetadata, Advance
<1>3. ASSUME NEW r \in rows
      PROVE  /\ upd(r).group = r.group /\ upd(r).stripe = r.stripe /\ upd(r).pos = r.pos
             /\ upd(r).partition = r.partition /\ upd(r).type = r.type
             /\ upd(r).shard = r.shard /\ upd(r).size = r.size
             /\ SlotOf(upd(r)) = SlotOf(r)
             /\ r.group # st.group \/ r.stripe # st.stripe => upd(r) = r
             /\ r.group = st.group /\ r.stripe = st.stripe /\ r.pos = p => upd(r).padded = padded
             /\ r.pos # p => upd(r) = r
  BY DEF SafeInv, TypeInv, TypeOK, Row, SlotOf, ParitySlot
<1>4. /\ \A q \in rows' : \E r \in rows : q = upd(r)
      /\ \A r \in rows : upd(r) \in rows'
  BY <1>1
<1> HIDE DEF padded, upd
<1>5. /\ \A r \in DataRows(rows) : \E q \in DataRows(rows') : SameData(r, q)
      /\ \A q \in DataRows(rows') : \E r \in DataRows(rows) : SameData(r, q)
  BY <1>3, <1>4 DEF DataRows, SameData
<1>6. /\ DataStripes(rows') = DataStripes(rows)
      /\ \A key : /\ Cover(rows', key) = Cover(rows, key)
                  /\ PaddedSize(rows', key) = PaddedSize(rows, key)
                  /\ {r.pos : r \in StripeData(rows', key)} = {r.pos : r \in StripeData(rows, key)}
  BY <1>5, DataKept
<1>7. \A g \in Nat, s \in Nat : g # st.group \/ s # st.stripe =>
          StripeRows(rows', g, s) = StripeRows(rows, g, s)
  <2> SUFFICES ASSUME NEW g \in Nat, NEW s \in Nat, g # st.group \/ s # st.stripe
               PROVE  StripeRows(rows', g, s) = StripeRows(rows, g, s)
    OBVIOUS
  <2>1. \A r \in rows : r.group = g /\ r.stripe = s => r \in rows'  BY <1>3, <1>4
  <2>2. \A q \in rows' : q.group = g /\ q.stripe = s => q \in rows  BY <1>3, <1>4
  <2> QED  BY <2>1, <2>2 DEF StripeRows
<1>8. StoreInv'
  <2>1. /\ \A r \in DataRows(rows) : FileAt(r.shard, SlotOf(r)) \in target
        /\ \A r \in rows : r.type = "PAD" => SlotOf(r) \in pads
        /\ \A r, q \in rows : SlotOf(r) = SlotOf(q) => r = q
        /\ \A r, q \in DataRows(rows) : r.shard = q.shard => r = q
        /\ \A r \in rows : r.partition = SlotPartition(SlotOf(r))
        /\ \A sh \in Shards : sh \in source \/ \E f \in target : f.shard = sh
    BY DEF SafeInv, StoreInv, DataOnDisk
  <2>2. \A r \in DataRows(rows') : FileAt(r.shard, SlotOf(r)) \in target
    BY <1>3, <1>4, <2>1 DEF DataRows
  <2>3. \A r \in rows' : r.type = "PAD" => SlotOf(r) \in pads  BY <1>3, <1>4, <2>1
  <2>4. \A r, q \in rows' : SlotOf(r) = SlotOf(q) => r = q  BY <1>3, <1>4, <2>1
  <2>5. \A r, q \in DataRows(rows') : r.shard = q.shard => r = q
    BY <1>3, <1>4, <2>1 DEF DataRows
  <2>6. \A r \in rows' : r.partition = SlotPartition(SlotOf(r))  BY <1>3, <1>4, <2>1
  <2> QED  BY <1>1, <2>1, <2>2, <2>3, <2>4, <2>5, <2>6 DEF StoreInv, DataOnDisk
<1>9. \A r \in StripeRows(rows, st.group, st.stripe) :
          r.type = "DATA" /\ (r.pos \in work[st].done => r.padded = padded)
  BY <1>1 DEF SafeInv, WorkInv, WorkerInv, padded
<1>10. ParityRowsCurrent'
  <2> SUFFICES ASSUME NEW e \in rows', e.type = "EC"
               PROVE  /\ ParityFile(rows', StripeKey(e), e.pos) \in parity'
                      /\ e.size = PaddedSize(rows', StripeKey(e))
                      /\ \A r \in StripeRows(rows', e.group, e.stripe) : r.padded = e.size
    BY DEF ParityRowsCurrent
  <2>1. PICK r \in rows : e = upd(r)  BY <1>4
  <2>2. r.group # st.group \/ r.stripe # st.stripe
    BY <1>3, <1>9, <2>1 DEF StripeRows
  <2>3. e \in rows /\ e.group \in Nat /\ e.stripe \in Nat /\ e = r
    BY <1>3, <2>1, <2>2 DEF SafeInv, TypeInv, TypeOK, Row
  <2>4. StripeRows(rows', e.group, e.stripe) = StripeRows(rows, e.group, e.stripe)
    BY <1>7, <2>2, <2>3
  <2> QED  BY <1>1, <1>6, <2>3, <2>4 DEF SafeInv, ParityRowsCurrent, ParityFile
<1>11. WorkerInv(st)'
  <2>1. DataPosOf(st)' = DataPosOf(st)  BY <1>6 DEF DataPosOf
  <2>2. ParityOnDisk(rows, st)'
    BY <1>1, <1>6 DEF SafeInv, WorkInv, WorkerInv, ParityOnDisk, ParityFile
  <2>3. \A q \in DataPos \ DataPosOf(st) : ParitySlot(st, q) \in pads
    BY <1>1 DEF SafeInv, WorkInv, WorkerInv
  <2>4. \A r \in StripeRows(rows', st.group, st.stripe) :
            r.type = "DATA" /\ (r.pos \in work[st].done \cup {p} => r.padded = padded)
    <3> SUFFICES ASSUME NEW q \in rows', q.group = st.group, q.stripe = st.stripe
                 PROVE  q.type = "DATA" /\ (q.pos \in work[st].done \cup {p} => q.padded = padded)
      BY DEF StripeRows
    <3>1. PICK r \in rows : q = upd(r)  BY <1>4
    <3>2. r \in StripeRows(rows, st.group, st.stripe) /\ r.pos = q.pos /\ r.type = q.type
      BY <1>3, <3>1 DEF StripeRows
    <3>3. CASE q.pos = p  BY <1>3, <1>9, <3>1, <3>2, <3>3 DEF StripeRows
    <3>4. CASE q.pos # p  BY <1>3, <1>9, <3>1, <3>2, <3>4
    <3> QED  BY <3>3, <3>4
  <2>5. PaddedSize(rows', st) = padded  BY <1>6 DEF padded
  <2>6. CASE Left(st, DataPosOf(st)) = {p}
    <3>1. work'[st].pc = "insert" /\ work'[st].done = {}  BY <1>2, <2>6
    <3>2. {r.pos : r \in StripeRows(rows', st.group, st.stripe)} = DataPosOf(st)
      BY <2>1, <2>4 DEF DataPosOf, StripeData, DataRows
    <3>3. \A r \in StripeRows(rows', st.group, st.stripe) : r.padded = padded
      BY <2>4, <2>6, <3>2 DEF Left
    <3> QED  BY <1>1, <2>1, <2>2, <2>3, <2>5, <3>1, <3>2, <3>3 DEF WorkerInv
  <2>7. CASE Left(st, DataPosOf(st)) # {p}
    <3>1. work'[st].pc = "metadata" /\ work'[st].done = work[st].done \cup {p}  BY <1>2, <2>7
    <3> QED  BY <1>1, <2>1, <2>2, <2>3, <2>4, <2>5, <3>1 DEF WorkerInv
  <2> QED  BY <2>6, <2>7
<1> QED  BY <1>1, <1>6, <1>7, <1>8, <1>10, <1>11, WorkerStep

\* A row of the stripe that make-ec inserts: a zero-byte PAD, or an EC row whose
\* file the worker has written, into a position without a row.
LEMMA StripeInsertSafe ==
    ASSUME SafeInv, val.pc = "idle", TypeInv', NEW st \in DOMAIN work, NEW p \in StripePos,
           StripeInsert(st, p)
    PROVE  SafeInv'
<1> DEFINE new    == NewRow(st, p)
           padded == PaddedSize(rows, st)
           stripe == StripeRows(rows, st.group, st.stripe)
           todo   == StripePos \ DataPosOf(st)
<1>1. /\ UNCHANGED <<arcset, op, val, source, target, pads, parity>>
      /\ op.cmd = "make-ec" /\ DOMAIN work' = DOMAIN work
      /\ work[st].pc = "insert" /\ p \in Left(st, todo)
      /\ \A other \in DOMAIN work : other # st => work'[other] = work[other]
      /\ rows' = rows \cup {new}
  BY DEF StripeInsert, Inserts, IsFirst, At, Running, files, Advance
<1>2. work'[st] = IF Left(st, todo) = {p} THEN [pc |-> "done", done |-> {}]
                  ELSE [pc |-> "insert", done |-> work[st].done \cup {p}]
  BY <1>1 DEF StripeInsert, Advance
<1>3. /\ ParityOnDisk(rows, st)
      /\ \A q \in DataPos \ DataPosOf(st) : ParitySlot(st, q) \in pads
      /\ {r.pos : r \in stripe} = DataPosOf(st) \cup work[st].done
      /\ \A r \in stripe : r.padded = padded
  BY <1>1 DEF SafeInv, WorkInv, WorkerInv
<1>4. /\ new.group = st.group /\ new.stripe = st.stripe /\ new.pos = p
      /\ new.type = (IF p < K THEN "PAD" ELSE "EC") /\ new.padded = padded
      /\ new.partition = Partition(st.group, p, st.stripe)
      /\ new.size = (IF p < K THEN 0 ELSE padded)
      /\ SlotOf(new) = ParitySlot(st, p)
  BY DEF NewRow, SlotOf, ParitySlot
<1>5. /\ p \notin DataPosOf(st) /\ p \notin work[st].done
      /\ p < K => p \in DataPos
      /\ ~(p < K) => p \in ParityPos
  BY <1>1, PlacementAssumption DEF Left, StripePos, DataPos, ParityPos
<1>6. \A r \in rows : r.group # st.group \/ r.stripe # st.stripe \/ r.pos # p
  BY <1>3, <1>5 DEF StripeRows
<1>7. \A r \in rows : SlotOf(r) # SlotOf(new)
  BY <1>4, <1>6 DEF SlotOf, ParitySlot
<1> HIDE DEF new, padded, stripe, todo
<1>8. DataRows(rows') = DataRows(rows)
  BY <1>1, <1>4 DEF DataRows
<1>9. /\ DataStripes(rows') = DataStripes(rows)
      /\ \A key : /\ Cover(rows', key) = Cover(rows, key)
                  /\ PaddedSize(rows', key) = PaddedSize(rows, key)
                  /\ {r.pos : r \in StripeData(rows', key)} = {r.pos : r \in StripeData(rows, key)}
  BY <1>8, DataKept DEF SameData
<1>10. \A g, s : g # st.group \/ s # st.stripe =>
           StripeRows(rows', g, s) = StripeRows(rows, g, s)
  BY <1>1, <1>4 DEF StripeRows
<1>11. StripeRows(rows', st.group, st.stripe) = stripe \cup {new}
  BY <1>1, <1>4 DEF StripeRows, stripe
<1>12. StoreInv'
  <2>1. \A r, q \in rows' : SlotOf(r) = SlotOf(q) => r = q
    BY <1>1, <1>7 DEF SafeInv, StoreInv
  <2>2. \A r \in rows' : r.type = "PAD" => SlotOf(r) \in pads
    BY <1>1, <1>3, <1>4, <1>5 DEF SafeInv, StoreInv
  <2>3. new.partition = SlotPartition(SlotOf(new))
    BY <1>4 DEF SlotPartition, ParitySlot
  <2>4. \A r \in rows' : r.partition = SlotPartition(SlotOf(r))
    BY <1>1, <2>3 DEF SafeInv, StoreInv
  <2> QED  BY <1>1, <1>8, <2>1, <2>2, <2>4 DEF SafeInv, StoreInv, DataOnDisk
<1>13. ParityRowsCurrent'
  <2> SUFFICES ASSUME NEW e \in rows', e.type = "EC"
               PROVE  /\ ParityFile(rows', StripeKey(e), e.pos) \in parity'
                      /\ e.size = PaddedSize(rows', StripeKey(e))
                      /\ \A r \in StripeRows(rows', e.group, e.stripe) : r.padded = e.size
    BY DEF ParityRowsCurrent
  <2>1. CASE e = new
    <3>1. StripeKey(e) = st
      BY <1>4, <2>1 DEF StripeKey, SafeInv, TypeInv, TypeOK, Stripe
    <3>2. ~(p < K)  BY <1>4, <2>1
    <3>3. ParityFile(rows, st, p) \in parity  BY <1>3, <1>5, <3>2 DEF ParityOnDisk
    <3>4. e.size = padded /\ e.pos = p  BY <1>4, <2>1, <3>2
    <3>5. \A r \in StripeRows(rows', e.group, e.stripe) : r.padded = e.size
      BY <1>3, <1>4, <1>11, <2>1, <3>4
    <3> QED  BY <1>1, <1>9, <3>1, <3>3, <3>4, <3>5 DEF ParityFile, padded
  <2>2. CASE e \in rows
    <3>1. /\ ParityFile(rows, StripeKey(e), e.pos) \in parity
          /\ e.size = PaddedSize(rows, StripeKey(e))
          /\ \A r \in StripeRows(rows, e.group, e.stripe) : r.padded = e.size
      BY <2>2 DEF SafeInv, ParityRowsCurrent
    <3>2. CASE e.group = st.group /\ e.stripe = st.stripe
      <4>1. e \in stripe  BY <2>2, <3>2 DEF stripe, StripeRows
      <4>2. \A r \in StripeRows(rows', e.group, e.stripe) : r.padded = e.size
        <5>1. e.padded = e.size  BY <2>2, <3>1 DEF StripeRows
        <5>2. e.padded = padded  BY <1>3, <4>1
        <5>3. \A r \in stripe \cup {new} : r.padded = padded  BY <1>3, <1>4
        <5> QED  BY <1>11, <3>2, <5>1, <5>2, <5>3
      <4> QED  BY <1>1, <1>9, <3>1, <4>2 DEF ParityFile
    <3>3. CASE e.group # st.group \/ e.stripe # st.stripe
      BY <1>1, <1>9, <1>10, <3>1, <3>3 DEF ParityFile
    <3> QED  BY <3>2, <3>3
  <2> QED  BY <1>1, <2>1, <2>2
<1>14. WorkerInv(st)'
  <2>1. DataPosOf(st)' = DataPosOf(st)  BY <1>9 DEF DataPosOf
  <2>2. ParityOnDisk(rows, st)'  BY <1>1, <1>3, <1>9 DEF ParityOnDisk, ParityFile
  <2>3. {r.pos : r \in StripeRows(rows', st.group, st.stripe)} = DataPosOf(st) \cup work[st].done \cup {p}
    BY <1>3, <1>4, <1>11
  <2>4. \A r \in StripeRows(rows', st.group, st.stripe) : r.padded = padded
    BY <1>3, <1>4, <1>11
  <2>5. PaddedSize(rows', st) = padded  BY <1>9 DEF padded
  <2>6. CASE Left(st, todo) = {p}
    <3>1. work'[st].pc = "done"  BY <1>2, <2>6
    <3>2. DataPosOf(st) \cup work[st].done \subseteq StripePos
      <4>1. \A r \in rows : r.pos \in StripePos  BY DEF SafeInv, TypeInv, TypeOK, Row
      <4> QED  BY <1>3, <4>1 DEF stripe, StripeRows
    <3>3. DataPosOf(st) \cup work[st].done \cup {p} = StripePos
      BY <2>6, <3>2 DEF Left, todo
    <3> QED  BY <1>1, <1>3, <2>1, <2>2, <2>3, <3>1, <3>3 DEF WorkerInv
  <2>7. CASE Left(st, todo) # {p}
    <3>1. work'[st].pc = "insert" /\ work'[st].done = work[st].done \cup {p}  BY <1>2, <2>7
    <3> QED  BY <1>1, <1>3, <2>1, <2>2, <2>3, <2>4, <2>5, <3>1 DEF WorkerInv
  <2> QED  BY <2>6, <2>7
<1> QED  BY <1>1, <1>9, <1>10, <1>12, <1>13, <1>14, WorkerStep

\* Without parity every DATA row has its file, which is all there is to protect.
LEMMA MakeECWithoutParitySafe ==
    ASSUME SafeInv, val.pc = "idle", TypeInv', MakeECWithoutParity
    PROVE  SafeInv'
<1>1. /\ UNCHANGED <<op, cur, work, val, rows, source, target, pads, parity>>
      /\ op.cmd = "none" /\ DOMAIN work = {} /\ M = 0
  BY DEF MakeECWithoutParity, MakeECAllowed, files, Idle, SafeInv, CommandInv
<1>2. \A st : Protected(st)
  <2>1. ParityPos = {}  BY <1>1, PlacementAssumption DEF ParityPos
  <2> QED
    BY <1>1, <2>1 DEF Protected, ParityOnDisk, SafeInv, StoreInv, DataOnDisk, StripeRows, DataRows
<1>3. CompletedProtected'  BY <1>1, <1>2, StoreKept DEF CompletedProtected
<1>4. CommandInv'  BY <1>1 DEF SafeInv, CommandInv
<1>5. RecordInv' /\ WorkInv'  BY <1>1 DEF RecordInv, Recording, WorkInv
<1> QED  BY <1>1, <1>3, <1>4, <1>5, StoreKept DEF SafeInv

\* Without a filter, every stripe with data gets a worker.
LEMMA MakeECStartSafe ==
    ASSUME SafeInv, val.pc = "idle", TypeInv', NEW filter \in Filters, MakeECStart(filter)
    PROVE  SafeInv'
<1> DEFINE todo == {st \in DataStripes(rows) : Matches(filter, st)}
<1>1. /\ UNCHANGED <<val, rows, source, target, pads, parity>>
      /\ arcset'.status = "building"
      /\ DOMAIN work' = todo /\ \A st \in todo : work'[st].pc = "wait"
      /\ op' = IF todo = {} THEN Idle
               ELSE [Idle EXCEPT !.cmd = "make-ec", !.pc = "stripes",
                                 !.full = (filter = [group |-> None, stripe |-> None])]
  BY DEF MakeECStart, files, SafeInv, TypeInv, TypeOK, ArcsetRow
<1>2. /\ op'.cmd \in {"none", "make-ec"}
      /\ op'.cmd # "make-ec" => todo = {}
      /\ op'.cmd = "make-ec" /\ op'.full => filter = [group |-> None, stripe |-> None]
  BY <1>1 DEF Idle
<1>3. CommandInv'  BY <1>1, <1>2 DEF CommandInv
<1>4. RecordInv'  BY <1>2 DEF RecordInv, Recording
<1>5. WorkInv'
  <2>1. \A st \in todo : WorkerInv(st)'  BY <1>1 DEF WorkerInv
  <2>2. filter = [group |-> None, stripe |-> None] => todo = DataStripes(rows)
    BY DEF Matches
  <2> QED  BY <1>1, <1>2, <2>1, <2>2 DEF WorkInv
<1>6. CompletedProtected'  BY <1>1 DEF CompletedProtected
<1> QED  BY <1>1, <1>3, <1>4, <1>5, <1>6, StoreKept DEF SafeInv

\* make-ec completes the arcset only when every worker is done, and then every
\* stripe with data has had a worker.
LEMMA MakeECFinishSafe ==
    ASSUME SafeInv, val.pc = "idle", TypeInv', MakeECFinish
    PROVE  SafeInv'
<1>1. /\ UNCHANGED <<val, rows, source, target, pads, parity>>
      /\ op'.cmd = "none" /\ DOMAIN work' = {}
      /\ op.cmd = "make-ec" /\ arcset.status = "building"
      /\ arcset' = IF Failed = {} /\ op.full THEN CompleteBuild(arcset) ELSE arcset
  BY DEF MakeECFinish, files, Running, Idle, NoWork, SafeInv, CommandInv
<1>2. CommandInv'  BY <1>1 DEF SafeInv, CommandInv
<1>3. RecordInv' /\ WorkInv'  BY <1>1 DEF RecordInv, Recording, WorkInv
<1>4. CompletedProtected'
  <2>1. CASE Failed = {} /\ op.full
    <3>1. \A st \in DOMAIN work : work[st].pc = "done"
      BY <2>1 DEF MakeECFinish, Active, Failed
    <3>2. ASSUME NEW st \in DataStripes(rows) PROVE Protected(st)
      <4>1. WorkerInv(st) /\ work[st].pc = "done"
        BY <1>1, <2>1, <3>1 DEF SafeInv, WorkInv
      <4>2. /\ {r.pos : r \in StripeRows(rows, st.group, st.stripe)} = StripePos
            /\ ParityOnDisk(rows, st)
        BY <4>1 DEF WorkerInv
      <4> QED
        BY <4>2 DEF Protected, SafeInv, StoreInv, DataOnDisk, StripeRows, DataRows
    <3> QED  BY <1>1, <3>2, StoreKept DEF CompletedProtected
  <2>2. CASE ~(Failed = {} /\ op.full)
    BY <1>1, <2>2 DEF CompletedProtected
  <2> QED  BY <2>1, <2>2
<1> QED  BY <1>1, <1>2, <1>3, <1>4, StoreKept DEF SafeInv

\* Every step of make-ec keeps the invariant.
LEMMA MakeECSafe == SafeInv /\ val.pc = "idle" /\ MakeECStep => SafeInv'
<1> SUFFICES ASSUME SafeInv, val.pc = "idle", MakeECStep PROVE SafeInv'  OBVIOUS
<1>1. TypeInv'  BY MakeECTypes DEF SafeInv
<1>2. CASE MakeECWithoutParity  BY <1>1, <1>2, MakeECWithoutParitySafe
<1>3. ASSUME NEW filter \in Filters, MakeECStart(filter) PROVE SafeInv'
  BY <1>1, <1>3, MakeECStartSafe
<1>4. ASSUME NEW st \in DOMAIN work, StripeStart(st) PROVE SafeInv'
  BY <1>1, <1>4, StripeStartSafe
<1>5. ASSUME NEW st \in DOMAIN work, StripePad(st) PROVE SafeInv'
  BY <1>1, <1>5, StripePadSafe
<1>6. ASSUME NEW st \in DOMAIN work, StripeVerify(st) PROVE SafeInv'
  BY <1>1, <1>6, StripeVerifySafe
<1>7. ASSUME NEW st \in DOMAIN work, NEW p \in StripePos,
             StripeEncode(st, p) \/ StripeMetadata(st, p) \/ StripeInsert(st, p)
      PROVE  SafeInv'
  BY <1>1, <1>7, StripeEncodeSafe, StripeMetadataSafe, StripeInsertSafe
<1>8. CASE MakeECFinish  BY <1>1, <1>8, MakeECFinishSafe
<1> QED  BY <1>2, <1>3, <1>4, <1>5, <1>6, <1>7, <1>8 DEF MakeECStep, StripeStep

\* A step that changes nothing keeps the invariant.
LEMMA StutterSafe == SafeInv /\ UNCHANGED vars => SafeInv'
<1> SUFFICES ASSUME SafeInv, UNCHANGED vars PROVE SafeInv'  OBVIOUS
<1>1. TypeInv'  BY StutterTypes DEF SafeInv
<1>2. UNCHANGED <<arcset, rels, rows, source, target, pads, parity, op, cur, work, val>>
  BY DEF vars
<1>3. CommandInv'
  BY <1>2 DEF SafeInv, CommandInv, ChecksPass, StripeValid, DataOnDisk, ParityOnDisk
<1>4. RecordInv'  BY <1>2 DEF SafeInv, RecordInv, Recording, Placed
<1>5. WorkInv'
  BY <1>2 DEF SafeInv, WorkInv, WorkerInv, ParityOnDisk, DataPosOf
<1>6. CompletedProtected'  BY <1>2, StoreKept DEF SafeInv, CompletedProtected
<1> QED  BY <1>1, <1>2, <1>3, <1>4, <1>5, <1>6, StoreKept DEF SafeInv

\* The invariant is inductive.
LEMMA NextSafe == SafeInv /\ [Next]_vars => SafeInv'
<1> SUFFICES ASSUME SafeInv, [Next]_vars PROVE SafeInv'  OBVIOUS
<1>1. ASSUME val.pc = "idle", NEW add \in 1 .. MaxPartitions, Expand(add) PROVE SafeInv'
  BY <1>1, ExpandSafe
<1> QED
  BY <1>1, AppendSafe, BuildSafe, MakeECSafe, FaultSafe, ValidateSafe, StutterSafe
     DEF Next, ControlStep

\* SafeInv is an invariant of the specification.
THEOREM Safe == Spec => []SafeInv
BY InitSafe, NextSafe, PTL DEF Spec

\* Moving a shard never loses it (moveFile, place): its bytes are in the
\* dataset's directory or in the arcset, and a DATA row names a path with them.
THEOREM ShardsAreStored == Spec => []EveryShardStored
<1>1. SafeInv => EveryShardStored  BY DEF SafeInv, StoreInv, EveryShardStored
<1> QED  BY <1>1, Safe, PTL

\* No statement of build-data and make-ec leaves a stale parity row behind.
THEOREM ParityIsCurrent == Spec => []ParityRowsCurrent
<1>1. SafeInv => ParityRowsCurrent  BY DEF SafeInv
<1> QED  BY <1>1, Safe, PTL

\* completed means that every stripe with data has its k + m rows and files.
THEOREM CompletedIsProtected == Spec => []CompletedProtected
<1>1. SafeInv => CompletedProtected  BY DEF SafeInv
<1> QED  BY <1>1, Safe, PTL

\* No INSERT or UPDATE of build-data or make-ec meets a unique index of t_shard.
THEOREM RowsAreUnique == Spec => []UniqueRows
<1>1. ASSUME SafeInv PROVE UniqueRows
  <2>1. ASSUME NEW r \in rows, NEW q \in rows, r # q
        PROVE  /\ SlotOf(r) # SlotOf(q)
               /\ ~(r.partition = q.partition /\ r.stripe = q.stripe)
               /\ ~(r.type = "DATA" /\ q.type = "DATA" /\ r.shard = q.shard)
    <3>1. SlotOf(r) # SlotOf(q)  BY <1>1, <2>1 DEF SafeInv, StoreInv
    <3>2. ~(r.type = "DATA" /\ q.type = "DATA" /\ r.shard = q.shard)
      BY <1>1, <2>1 DEF SafeInv, StoreInv, DataRows
    <3>3. ASSUME r.partition = q.partition, r.stripe = q.stripe PROVE FALSE
      <4>1. /\ r.partition = Partition(r.group, r.pos, r.stripe)
            /\ q.partition = Partition(q.group, q.pos, q.stripe)
        BY <1>1 DEF SafeInv, StoreInv, SlotPartition, SlotOf
      <4>2. /\ r.group \in Nat /\ r.stripe \in Nat /\ r.pos \in StripePos
            /\ q.group \in Nat /\ q.pos \in StripePos
        BY <1>1 DEF SafeInv, TypeInv, TypeOK, Row
      <4>3. Partition(r.group, r.pos, r.stripe) = Partition(q.group, q.pos, r.stripe)
        BY <3>3, <4>1
      <4>4. r.group = q.group /\ r.pos = q.pos
        BY <4>2, <4>3, PartitionInjective
      <4> QED  BY <3>1, <3>3, <4>4 DEF SlotOf
    <3> QED  BY <3>1, <3>2, <3>3
  <2>2. ASSUME NEW st \in DOMAIN work, NEW p \in StripePos, Inserts(st, p), NEW r \in rows
        PROVE  SlotOf(r) # ParitySlot(st, p)
    <3>1. /\ {x.pos : x \in StripeRows(rows, st.group, st.stripe)} = DataPosOf(st) \cup work[st].done
      BY <1>1, <2>2 DEF SafeInv, WorkInv, WorkerInv, Inserts, At
    <3>2. p \notin DataPosOf(st) \cup work[st].done  BY <2>2 DEF Inserts, IsFirst, Left
    <3>3. ~(r.group = st.group /\ r.stripe = st.stripe /\ r.pos = p)
      BY <3>1, <3>2 DEF StripeRows
    <3> QED  BY <3>3 DEF SlotOf, ParitySlot
  <2> QED  BY <2>1, <2>2 DEF UniqueRows
<1> QED  BY <1>1, Safe, PTL

\* The only steps that write t_shard.
LEMMA RowsWritten ==
    Next => \/ rows' = rows
            \/ BuildInvalidate \/ BuildRecord
            \/ \E st \in DOMAIN work : StripeVerify(st)
            \/ \E st \in DOMAIN work, p \in StripePos : StripeMetadata(st, p) \/ StripeInsert(st, p)
<1> USE DEF tables, files
<1>1. AppendStep => rows' = rows
  BY DEF AppendStep, AppendInherit, AppendRegister, AppendKnown, AppendBusy, AppendFreeze
<1>2. \A add : Expand(add) => rows' = rows  BY DEF Expand
<1>3. Fault => rows' = rows  BY DEF Fault, Crash, StripeFail
<1>4. ValidateStep => rows' = rows
  BY DEF ValidateStep, ValidateRead, ValidatePasses, ValidateFails, ValidateWrite
<1>5. BuildStep => rows' = rows \/ BuildInvalidate \/ BuildRecord
  BY DEF BuildStep, BuildStart, BuildRefused, MoveVerified, MoveRename, MoveCopy, MoveFails,
         MoveUnlink, BuildFinish
<1>6. MakeECStep => \/ rows' = rows
                    \/ \E st \in DOMAIN work : StripeVerify(st)
                    \/ \E st \in DOMAIN work, p \in StripePos : StripeMetadata(st, p) \/ StripeInsert(st, p)
  BY DEF MakeECStep, StripeStep, MakeECWithoutParity, MakeECStart, MakeECFinish,
         StripeStart, StripePad, StripeEncode
<1> QED  BY <1>1, <1>2, <1>3, <1>4, <1>5, <1>6 DEF Next, ControlStep

\* No step takes a shard from its slot.
LEMMA SlotsKept ==
    ASSUME SafeInv, [Next]_vars
    PROVE  \A r \in DataRows(rows) : \E q \in DataRows(rows') :
               q.shard = r.shard /\ SlotOf(q) = SlotOf(r)
<1> DEFINE Stable == \A r \in DataRows(rows) : \E q \in DataRows(rows') :
                        q.shard = r.shard /\ SlotOf(q) = SlotOf(r)
<1>1. ASSUME DataRows(rows) \subseteq rows' PROVE Stable  BY <1>1 DEF DataRows
<1>2. CASE rows' = rows  BY <1>1, <1>2 DEF DataRows
<1>3. CASE BuildInvalidate
  BY <1>1, <1>3 DEF BuildInvalidate, DeleteECShards, DataRows
<1>4. CASE BuildRecord
  BY <1>1, <1>4 DEF BuildRecord, DataRows
<1>5. ASSUME NEW st \in DOMAIN work, StripeVerify(st) PROVE Stable
  BY <1>1, <1>5 DEF StripeVerify, DeleteECAndPADShards, DataRows
<1>6. ASSUME NEW st \in DOMAIN work, NEW p \in StripePos, StripeInsert(st, p) PROVE Stable
  BY <1>1, <1>6 DEF StripeInsert, DataRows
<1>7. ASSUME NEW st \in DOMAIN work, NEW p \in StripePos, StripeMetadata(st, p) PROVE Stable
  <2> SUFFICES ASSUME NEW r \in DataRows(rows)
               PROVE  \E q \in DataRows(rows') : q.shard = r.shard /\ SlotOf(q) = SlotOf(r)
    OBVIOUS
  <2> DEFINE q == IF SlotOf(r) = ParitySlot(st, p)
                  THEN [r EXCEPT !.padded = PaddedSize(rows, st)] ELSE r
  <2>1. r \in rows /\ r.type = "DATA" /\ r \in Row
    BY DEF DataRows, SafeInv, TypeInv, TypeOK
  <2>2. q.type = "DATA" /\ q.shard = r.shard /\ SlotOf(q) = SlotOf(r)
    BY <2>1 DEF Row, SlotOf
  <2>3. q \in rows'  BY <1>7, <2>1 DEF StripeMetadata
  <2> HIDE DEF q
  <2> QED  BY <2>2, <2>3 DEF DataRows
<1> QED
  BY <1>2, <1>3, <1>4, <1>5, <1>6, <1>7, RowsWritten DEF vars

\* A shard keeps the slot of its DATA row for ever.
THEOREM DataRowsAreStable == Spec => DataRowsStable
<1>1. SafeInv /\ [Next]_vars =>
        \A r \in DataRows(rows) : \E q \in DataRows(rows') : q.shard = r.shard /\ SlotOf(q) = SlotOf(r)
  BY SlotsKept
<1> QED  BY <1>1, Safe, PTL DEF Spec, DataRowsStable

\* While the arcset stays completed, no row, no DATA file and no parity file of
\* it changes: build-data and make-ec write only while it is building.
THEOREM CompletedIsStable == Spec => CompletedContentStable
<1> DEFINE Kept   == rows' = rows /\ target' = target /\ parity' = parity
           Stable == arcset.status = "completed" /\ arcset'.status = "completed" => Kept
<1>1. ASSUME SafeInv, [Next]_vars PROVE Stable
  <2> USE DEF tables, files
  <2>1. op.cmd \in {"build-data", "make-ec"} => Stable
    BY <1>1 DEF SafeInv, CommandInv
  <2>2. AppendStep => Kept
    BY DEF AppendStep, AppendInherit, AppendRegister, AppendKnown, AppendBusy, AppendFreeze
  <2>3. \A add : Expand(add) => Kept  BY DEF Expand
  <2>4. Fault => Kept  BY DEF Fault, Crash, StripeFail
  <2>5. ValidateStep => Kept
    BY DEF ValidateStep, ValidateRead, ValidatePasses, ValidateFails, ValidateWrite
  <2>6. BuildStep => Kept \/ op.cmd = "build-data"
    BY DEF BuildStep, BuildStart, BuildRefused, MoveVerified, MoveRename, MoveCopy, MoveFails,
           Placing, MoveUnlink, BuildInvalidate, BuildRecord, BuildFinish, Running
  <2>7. MakeECStep => Kept \/ op.cmd = "make-ec"
    BY DEF MakeECStep, StripeStep, MakeECWithoutParity, MakeECStart, MakeECFinish, StripeStart,
           StripePad, StripeEncode, StripeVerify, StripeMetadata, StripeInsert, Inserts, At, Running
  <2>8. CASE UNCHANGED vars  BY <2>8 DEF vars
  <2> QED  BY <1>1, <2>1, <2>2, <2>3, <2>4, <2>5, <2>6, <2>7, <2>8 DEF Next, ControlStep
<1> QED  BY <1>1, Safe, PTL DEF Spec, CompletedContentStable

(***************************************************************************)
(* Stripes are filled in order                                             *)
(***************************************************************************)

\* DATA of a stripe is at data positions, and none leaves its stripe.
LEMMA FilledKept ==
    ASSUME TypeInv', \A r \in DataRows(rows) : \E q \in DataRows(rows') : SlotOf(q) = SlotOf(r)
    PROVE  /\ \A st : DataPosOf(st) \subseteq DataPosOf(st)'
           /\ \A g, s : FilledBefore(g, s) => FilledBefore(g, s)'
<1>1. \A rs, r, st : r \in StripeData(rs, st) <=>
          r \in DataRows(rs) /\ r.group = st.group /\ r.stripe = st.stripe
  BY DEF StripeData, StripeRows, DataRows
<1>2. \A st : DataPosOf(st)' \subseteq DataPos
  BY <1>1 DEF DataPosOf, TypeInv, DataRowsTyped
<1>3. ASSUME NEW st, NEW p \in DataPosOf(st) PROVE p \in DataPosOf(st)'
  <2>1. PICK r \in StripeData(rows, st) : r.pos = p  BY DEF DataPosOf
  <2>2. PICK q \in DataRows(rows') : SlotOf(q) = SlotOf(r)  BY <1>1, <2>1
  <2>3. q.group = st.group /\ q.stripe = st.stripe /\ q.pos = p
    BY <1>1, <2>1, <2>2 DEF SlotOf
  <2>4. q \in StripeData(rows', st)  BY <1>1, <2>2, <2>3
  <2> QED  BY <2>3, <2>4 DEF DataPosOf
<1>4. \A g, s : FilledBefore(g, s) => FilledBefore(g, s)'
  BY <1>2, <1>3 DEF FilledBefore
<1> QED  BY <1>3, <1>4

\* The place of position p > 0 of a stripe is, under raid5, the one of position
\* p - 1 of the next stripe; under raid3 it is the same position's.
LEMMA NextStripePartition ==
    ASSUME NEW g \in Nat, NEW t \in Nat, NEW p \in DataPos, p # 0
    PROVE  \E q \in DataPos : Partition(g, q, t + 1) = Partition(g, p, t)
<1>1. K \in Nat \ {0} /\ p \in 0 .. K - 1  BY PlacementAssumption DEF DataPos
<1>2. CASE Layout = "raid5"
  <2>1. p - 1 \in DataPos /\ (p - 1) + (t + 1) = p + t  BY <1>1 DEF DataPos
  <2> QED  BY <1>2, <2>1 DEF Partition
<1>3. CASE Layout # "raid5"  BY <1>3 DEF Partition
<1> QED  BY <1>2, <1>3

\* findNewSlot opens a stripe only when the shard fits every data partition of
\* it.  These are the partitions of what is left of the stripe before, so a shard
\* that could not fill a PAD or hole of that one opens no stripe.
LEMMA PlacedInOrder ==
    ASSUME TypeInv, RowKinds, OrderInv, NEW groups \in Nat, NEW size,
           NEW sl \in Candidates(rows, groups, size)
    PROVE  /\ FilledBefore(sl.group, sl.stripe)
           /\ sl.pos = 0 \/ Opened(sl)
<1>1. \A r \in rows : /\ r.group \in Nat /\ r.stripe \in Nat /\ r.pos \in StripePos
                      /\ r.type \in {"DATA", "PAD", "EC"}
  BY DEF TypeInv, TypeOK, Row
<1>2. CASE sl \in PadSlots(rows, size)
  <2>1. PICK r \in rows : sl = SlotOf(r)  BY <1>2 DEF PadSlots
  <2>2. sl.group = r.group /\ sl.stripe = r.stripe  BY <2>1 DEF SlotOf
  <2> QED  BY <2>2 DEF OrderInv, Opened, StripeKey
<1>3. CASE sl \in HoleSlots(rows, groups, size)
  <2>1. PICK r \in rows : sl \in [group : {r.group}, stripe : 0 .. r.stripe, pos : DataPos]
    BY <1>3 DEF HoleSlots
  <2>2. sl.group = r.group /\ sl.stripe \in 0 .. r.stripe  BY <2>1
  <2>3. FilledBefore(r.group, r.stripe) /\ Opened(r)  BY DEF OrderInv
  <2>4. 0 .. sl.stripe - 1 \subseteq 0 .. r.stripe - 1  BY <1>1, <2>2
  <2>5. FilledBefore(sl.group, sl.stripe)  BY <2>2, <2>3, <2>4 DEF FilledBefore
  <2>6. CASE sl.stripe = r.stripe  BY <2>2, <2>3, <2>5, <2>6 DEF Opened, StripeKey
  <2>7. CASE sl.stripe # r.stripe
    <3>1. sl.stripe \in 0 .. r.stripe - 1  BY <1>1, <2>2, <2>7
    <3>2. DataPosOf(StripeKey(sl)) = DataPos
      BY <2>2, <2>3, <3>1 DEF FilledBefore, StripeKey
    <3>3. 0 \in DataPos  BY PlacementAssumption DEF DataPos
    <3> QED  BY <2>5, <3>2, <3>3 DEF Opened
  <2> QED  BY <2>6, <2>7
<1>4. CASE /\ sl \in FreshSlots(rows, groups, size)
           /\ PadSlots(rows, size) = {} /\ HoleSlots(rows, groups, size) = {}
  <2>1. PICK g \in 0 .. groups - 1 : sl \in [group : {g}, stripe : NextSeq(rows, g), pos : {0}]
    BY <1>4 DEF FreshSlots
  <2>2. /\ sl.group = g /\ sl.stripe \in NextSeq(rows, g) /\ sl.pos = 0
        /\ g \in Nat /\ g < groups
    BY <2>1
  <2>3. \A p \in DataPos : Fits(rows, [sl EXCEPT !.pos = p], size)  BY <1>4 DEF FreshSlots
  <2> SUFFICES ASSUME NEW t \in 0 .. sl.stripe - 1
               PROVE  DataPosOf([group |-> g, stripe |-> t]) = DataPos
    BY <2>2 DEF FilledBefore
  <2>4. PICK r \in rows : r.group = g /\ sl.stripe = r.stripe + 1
    BY <2>2 DEF NextSeq
  <2>5. FilledBefore(g, r.stripe) /\ Opened(r)  BY <2>4 DEF OrderInv
  <2>6. CASE t < r.stripe
    BY <1>1, <2>5, <2>6 DEF FilledBefore
  <2>7. CASE t = r.stripe
    <3> DEFINE st == [group |-> g, stripe |-> t]
    <3>1. \A x : x \in StripeData(rows, st) <=> x \in rows /\ x.type = "DATA" /\ x.group = g /\ x.stripe = t
      BY DEF StripeData, StripeRows, DataRows
    <3>2. DataPosOf(st) \subseteq DataPos
      BY <3>1 DEF DataPosOf, TypeInv, DataRowsTyped, DataRows
    <3>3. ASSUME NEW p \in DataPos, p \notin DataPosOf(st) PROVE FALSE
      <4> DEFINE hole == [group |-> g, stripe |-> t, pos |-> p]
      <4>1. Fits(rows, hole, size)
        <5>1. st = StripeKey(r)  BY <2>4, <2>7 DEF StripeKey
        <5>2. p # 0  BY <2>5, <3>3, <5>1 DEF Opened
        <5>3. PICK q \in DataPos : Partition(g, q, t + 1) = Partition(g, p, t)
          BY <1>1, <2>2, <2>7, <5>2, NextStripePartition
        <5>4. /\ [sl EXCEPT !.pos = q].group = g /\ [sl EXCEPT !.pos = q].pos = q
              /\ [sl EXCEPT !.pos = q].stripe = t + 1
          BY <2>1, <2>4, <2>7
        <5>5. SlotPartition([sl EXCEPT !.pos = q]) = SlotPartition(hole)
          BY <5>3, <5>4 DEF SlotPartition
        <5> QED  BY <2>3, <5>5 DEF Fits
      <4>2. CASE \E q \in rows : SlotOf(q) = hole
        <5>1. PICK q \in rows : SlotOf(q) = hole  BY <4>2
        <5>2. q.group = g /\ q.stripe = t /\ q.pos = p  BY <5>1 DEF SlotOf
        <5>3. q.type # "DATA"  BY <3>1, <3>3, <5>2 DEF DataPosOf
        <5>4. q.pos \notin ParityPos  BY <3>3, <5>2, PosTypes
        <5>5. q.type = "PAD" /\ M > 0  BY <1>1, <5>3, <5>4 DEF RowKinds
        <5>6. q.pos < K  BY <5>2, <3>3, PosTypes
        <5>7. SlotOf(q) \in PadSlots(rows, size)  BY <4>1, <5>1, <5>5, <5>6 DEF PadSlots
        <5> QED  BY <1>4, <5>7
      <4>3. CASE \A q \in rows : SlotOf(q) # hole
        <5>1. hole \in [group : {r.group}, stripe : 0 .. r.stripe, pos : DataPos]
          BY <1>1, <2>4, <2>7, <3>3
        <5>2. r.group < groups  BY <2>2, <2>4
        <5>3. hole \in HoleSlots(rows, groups, size)
          BY <4>1, <4>3, <5>1, <5>2 DEF HoleSlots
        <5> QED  BY <1>4, <5>3
      <4> QED  BY <4>2, <4>3
    <3> QED  BY <3>2, <3>3
  <2> QED  BY <1>1, <2>4, <2>6, <2>7
<1> QED  BY <1>2, <1>3, <1>4 DEF Candidates

\* A row that a step leaves or writes is of the kind of its position, and in a
\* stripe with data before which all are full.
LEMMA RowsInOrder ==
    ASSUME SafeInv, RowKinds, [Next]_vars
    PROVE  \A r \in rows' :
              /\ r.type = "EC" => r.pos \in ParityPos
              /\ r.type = "PAD" => r.pos \in DataPos /\ M > 0
              /\ r.type = "DATA" \/ StripeKey(r) \in DataStripes(rows)
              /\ OrderInv => /\ FilledBefore(r.group, r.stripe)
                             /\ (r.type = "DATA" /\ r.pos = 0) \/ Opened(r)
<1> DEFINE Fine(r) == /\ r.type = "EC" => r.pos \in ParityPos
                      /\ r.type = "PAD" => r.pos \in DataPos /\ M > 0
                      /\ r.type = "DATA" \/ StripeKey(r) \in DataStripes(rows)
                      /\ OrderInv => /\ FilledBefore(r.group, r.stripe)
                                     /\ (r.type = "DATA" /\ r.pos = 0) \/ Opened(r)
<1>1. \A r \in rows : Fine(r)  BY DEF RowKinds, OrderInv
<1>2. CASE rows' \subseteq rows  BY <1>1, <1>2
<1>3. CASE BuildInvalidate  BY <1>2, <1>3 DEF BuildInvalidate, DeleteECShards
<1>4. CASE BuildRecord
  <2> DEFINE new == DataRow(cur.shard, cur.slot)
  <2>1. /\ new.group = cur.slot.group /\ new.stripe = cur.slot.stripe
        /\ new.pos = cur.slot.pos /\ new.type = "DATA"
    BY DEF DataRow
  <2>2. Recording  BY <1>4 DEF BuildRecord, Running, Recording
  <2>3. Fine(new)  BY <2>1, <2>2 DEF OrderInv, Opened, StripeKey
  <2>4. \A r \in rows' : r \in rows \/ r = new  BY <1>4 DEF BuildRecord
  <2> HIDE DEF new, Fine
  <2> QED  BY <1>1, <2>3, <2>4 DEF Fine
<1>5. ASSUME NEW st \in DOMAIN work, StripeVerify(st) PROVE \A r \in rows' : Fine(r)
  BY <1>2, <1>5 DEF StripeVerify, DeleteECAndPADShards
<1>6. ASSUME NEW st \in DOMAIN work, NEW p \in StripePos, StripeMetadata(st, p)
      PROVE  \A r \in rows' : Fine(r)
  <2> TAKE q \in rows'
  <2>1. PICK r \in rows : q = IF SlotOf(r) = ParitySlot(st, p)
                             THEN [r EXCEPT !.padded = PaddedSize(rows, st)] ELSE r
    BY <1>6 DEF StripeMetadata
  <2>2. r \in Row  BY DEF SafeInv, TypeInv, TypeOK
  <2>3. q.group = r.group /\ q.stripe = r.stripe /\ q.type = r.type /\ q.pos = r.pos
    BY <2>1, <2>2 DEF Row
  <2> QED  BY <1>1, <2>3 DEF StripeKey, Opened
<1>7. ASSUME NEW st \in DOMAIN work, NEW p \in StripePos, StripeInsert(st, p)
      PROVE  \A r \in rows' : Fine(r)
  <2> DEFINE new == NewRow(st, p)
  <2>1. /\ new.group = st.group /\ new.stripe = st.stripe /\ new.pos = p
        /\ new.type = IF p < K THEN "PAD" ELSE "EC"
    BY DEF NewRow
  <2>2. PICK d \in DataRows(rows) : StripeKey(d) = st  BY DEF RowKinds, DataStripes
  <2>3. d \in rows /\ d.group = st.group /\ d.stripe = st.stripe
    BY <2>2 DEF DataRows, StripeKey
  <2>4. OrderInv => FilledBefore(st.group, st.stripe) /\ 0 \in DataPosOf(st)
    BY <2>2, <2>3 DEF OrderInv, Opened
  <2>5. M > 0  BY <1>7 DEF StripeInsert, Inserts, At, Running, RowKinds
  <2>6. (p < K => p \in DataPos) /\ (~(p < K) => p \in ParityPos)  BY PosTypes
  <2>7. StripeKey(new) = StripeKey(d)  BY <2>1, <2>3 DEF StripeKey
  <2>8. StripeKey(new) \in DataStripes(rows)  BY <2>7 DEF DataStripes
  <2> HIDE DEF new
  <2>9. Fine(new)  BY <2>1, <2>2, <2>4, <2>5, <2>6, <2>7, <2>8 DEF Opened
  <2>10. \A r \in rows' : r \in rows \/ r = new  BY <1>7 DEF StripeInsert, new
  <2> HIDE DEF Fine
  <2> QED  BY <1>1, <2>9, <2>10
<1>8. CASE rows' = rows  BY <1>2, <1>8
<1> QED  BY <1>3, <1>4, <1>5, <1>6, <1>7, <1>8, RowsWritten DEF vars

\* append and build-data have no workers, and append places nothing.
LEMMA AppendCommand ==
    ASSUME op \in Command, AppendStep
    PROVE  op'.cmd \in {"none", "append"} /\ UNCHANGED work
<1> DEFINE Goal == op'.cmd \in {"none", "append"} /\ UNCHANGED work
<1> USE DEF tables, files, Running, Idle, Command
<1>1. ASSUME NEW d \in Datasets, AppendInherit(d) PROVE Goal  BY <1>1 DEF AppendInherit
<1>2. ASSUME NEW d \in Datasets, AppendRegister(d) PROVE Goal  BY <1>2 DEF AppendRegister
<1>3. ASSUME NEW d \in Datasets, AppendKnown(d) PROVE Goal  BY <1>3 DEF AppendKnown
<1>4. CASE AppendBusy  BY <1>4 DEF AppendBusy
<1>5. CASE AppendFreeze  BY <1>5 DEF AppendFreeze
<1> QED  BY <1>1, <1>2, <1>3, <1>4, <1>5 DEF AppendStep

\* A step of build-data leaves the command build-data, or ends it.
LEMMA BuildCommand ==
    ASSUME op \in Command, BuildStep
    PROVE  op'.cmd \in {"none", "build-data"} /\ UNCHANGED work
<1> DEFINE Goal == op'.cmd \in {"none", "build-data"} /\ UNCHANGED work
<1> USE DEF tables, files, Running, Idle, Command
<1>1. ASSUME NEW only, BuildStart(only) PROVE Goal  BY <1>1 DEF BuildStart
<1>2. ASSUME NEW sh \in Shards, BuildRefused(sh) PROVE Goal  BY <1>2 DEF BuildRefused
<1>3. ASSUME NEW sh, NEW sl,
             MoveVerified(sh, sl) \/ MoveRename(sh, sl) \/ MoveCopy(sh, sl) \/ MoveFails(sh, sl)
      PROVE  Goal
  BY <1>3 DEF MoveVerified, MoveRename, MoveCopy, MoveFails, Placing
<1>4. CASE MoveUnlink  BY <1>4 DEF MoveUnlink
<1>5. CASE BuildInvalidate  BY <1>5 DEF BuildInvalidate
<1>6. CASE BuildRecord  BY <1>6 DEF BuildRecord
<1>7. CASE BuildFinish  BY <1>7 DEF BuildFinish
<1> QED  BY <1>1, <1>2, <1>3, <1>4, <1>5, <1>6, <1>7 DEF BuildStep

\* A step of make-ec leaves the command make-ec, or ends it.
LEMMA MakeECCommand ==
    ASSUME op \in Command, MakeECStep
    PROVE  op'.cmd \in {"none", "make-ec"}
<1> DEFINE Goal == op'.cmd \in {"none", "make-ec"}
<1> USE DEF files, Running, Idle, Command
<1>1. CASE MakeECWithoutParity  BY <1>1 DEF MakeECWithoutParity, MakeECAllowed
<1>2. ASSUME NEW filter, MakeECStart(filter) PROVE Goal  BY <1>2 DEF MakeECStart
<1>3. CASE StripeStep
  BY <1>3 DEF StripeStep, StripeStart, StripePad, StripeVerify, StripeEncode, StripeMetadata,
              StripeInsert, Inserts, At
<1>4. CASE MakeECFinish  BY <1>4 DEF MakeECFinish
<1> QED  BY <1>1, <1>2, <1>3, <1>4 DEF MakeECStep

\* How a command and its workers come about: only make-ec with m > 0 has workers,
\* for stripes with data.
LEMMA WorkersStarted ==
    ASSUME SafeInv, RowKinds, [Next]_vars
    PROVE  /\ op'.cmd = "make-ec" => M > 0
           /\ DOMAIN work' \subseteq DataStripes(rows)
<1> DEFINE Kept == /\ op'.cmd = "make-ec" => op.cmd = "make-ec"
                   /\ DOMAIN work' \subseteq DOMAIN work
<1> USE DEF tables, files, Running, Idle
<1>0. op \in Command  BY DEF SafeInv, TypeInv, TypeOK
<1>1. AppendStep => Kept  BY <1>0, AppendCommand
<1>2. \A add : Expand(add) => Kept  BY DEF Expand
<1>3. Fault => Kept  BY DEF Fault, Crash, StripeFail, NoWork
<1>4. ValidateStep => Kept
  BY DEF ValidateStep, ValidateRead, ValidatePasses, ValidateFails, ValidateWrite
<1>5. BuildStep => Kept  BY <1>0, BuildCommand
<1>6. ASSUME NEW filter, MakeECStart(filter)
      PROVE  M > 0 /\ DOMAIN work' \subseteq DataStripes(rows)
  BY <1>6 DEF MakeECStart
<1>7. StripeStep => Kept
  BY DEF StripeStep, StripeStart, StripePad, StripeVerify, StripeEncode, StripeMetadata,
         StripeInsert, Advance
<1>8. MakeECWithoutParity \/ MakeECFinish => Kept
  BY DEF MakeECWithoutParity, MakeECFinish, NoWork
<1>9. UNCHANGED vars => Kept  BY DEF vars
<1>10. Kept => /\ op'.cmd = "make-ec" => M > 0
               /\ DOMAIN work' \subseteq DataStripes(rows)
  BY DEF RowKinds
<1> QED
  BY <1>1, <1>2, <1>3, <1>4, <1>5, <1>6, <1>7, <1>8, <1>9, <1>10 DEF Next, ControlStep, MakeECStep

\* What build-data is about to record, it has placed now or before.
LEMMA PlacementKept ==
    ASSUME SafeInv, [Next]_vars, Recording'
    PROVE  \/ Recording /\ cur' = cur
           \/ \E sh \in Shards : \E sl \in Candidates(rows, arcset.groups, Size[sh]) :
                  cur' = [shard |-> sh, slot |-> sl]
<1> DEFINE Goal == \/ Recording /\ cur' = cur
                   \/ \E sh \in Shards : \E sl \in Candidates(rows, arcset.groups, Size[sh]) :
                          cur' = [shard |-> sh, slot |-> sl]
<1> USE DEF tables, files, Running, Idle, Recording
<1>0. op \in Command  BY DEF SafeInv, TypeInv, TypeOK
<1>1. AppendStep => Goal  BY <1>0, AppendCommand
<1>2. \A add : Expand(add) => Goal  BY DEF Expand
<1>3. Fault => Goal  BY DEF Fault, Crash, StripeFail
<1>4. ValidateStep => Goal
  BY DEF ValidateStep, ValidateRead, ValidatePasses, ValidateFails, ValidateWrite
<1>5. BuildStep => Goal
  <2>1. ASSUME NEW only, BuildStart(only) PROVE Goal  BY <2>1 DEF BuildStart
  <2>2. ASSUME NEW sh \in Shards, BuildRefused(sh) PROVE Goal  BY <2>2 DEF BuildRefused
  <2>3. ASSUME NEW sh \in Shards, NEW sl \in Candidates(rows, arcset.groups, Size[sh]),
               MoveVerified(sh, sl) \/ MoveRename(sh, sl) \/ MoveCopy(sh, sl) \/ MoveFails(sh, sl)
        PROVE  Goal
    BY <2>3 DEF MoveVerified, MoveRename, MoveCopy, MoveFails
  <2>4. MoveUnlink \/ BuildInvalidate => Goal  BY DEF MoveUnlink, BuildInvalidate
  <2>5. BuildRecord \/ BuildFinish => Goal  BY <1>0 DEF BuildRecord, BuildFinish, Command
  <2> QED  BY <2>1, <2>2, <2>3, <2>4, <2>5 DEF BuildStep
<1>6. MakeECStep => Goal  BY <1>0, MakeECCommand
<1>7. UNCHANGED vars => Goal  BY DEF vars
<1> QED  BY <1>1, <1>2, <1>3, <1>4, <1>5, <1>6, <1>7 DEF Next, ControlStep

\* The kinds of the rows are inductive beside SafeInv, for both layouts.
LEMMA KindsSafe == SafeInv /\ RowKinds /\ [Next]_vars => RowKinds'
<1> SUFFICES ASSUME SafeInv, RowKinds, [Next]_vars PROVE RowKinds'  OBVIOUS
<1>1. DataStripes(rows) \subseteq DataStripes(rows')
  BY SlotsKept DEF DataStripes, StripeKey, SlotOf
<1>2. \A r \in rows' : r.type = "DATA" => StripeKey(r) \in DataStripes(rows')
  BY DEF DataStripes, DataRows
<1> QED  BY <1>1, <1>2, RowsInOrder, WorkersStarted DEF RowKinds

\* The rows keep to their kinds.
LEMMA KindsKept == Spec => []RowKinds
<1>1. Init => RowKinds
  <2> SUFFICES ASSUME Init PROVE RowKinds  OBVIOUS
  <2>1. rows = {} /\ DOMAIN work = {} /\ op.cmd = "none"  BY DEF Init, Idle, NoWork
  <2> QED  BY <2>1 DEF RowKinds
<1> QED  BY <1>1, KindsSafe, Safe, PTL DEF Spec

\* OrderInv is inductive beside both.
LEMMA OrderSafe == SafeInv /\ SafeInv' /\ RowKinds /\ OrderInv /\ [Next]_vars => OrderInv'
<1> SUFFICES ASSUME SafeInv, SafeInv', RowKinds, OrderInv, [Next]_vars PROVE OrderInv'  OBVIOUS
<1>1. TypeInv /\ TypeInv'  BY DEF SafeInv
<1>2. \A r \in DataRows(rows) : \E q \in DataRows(rows') : SlotOf(q) = SlotOf(r)
  BY SlotsKept
<1>3. /\ \A st : DataPosOf(st) \subseteq DataPosOf(st)'
      /\ \A g, s : FilledBefore(g, s) => FilledBefore(g, s)'
  BY <1>1, <1>2, FilledKept
<1>4. ASSUME NEW r \in rows' PROVE FilledBefore(r.group, r.stripe)' /\ Opened(r)'
  <2>1. FilledBefore(r.group, r.stripe) /\ ((r.type = "DATA" /\ r.pos = 0) \/ Opened(r))
    BY RowsInOrder
  <2>2. r.type = "DATA" /\ r.pos = 0 => Opened(r)'
    <3> SUFFICES ASSUME r.type = "DATA", r.pos = 0 PROVE Opened(r)'  OBVIOUS
    <3>1. r \in StripeData(rows', StripeKey(r))  BY DEF StripeData, StripeRows, DataRows, StripeKey
    <3> QED  BY <3>1 DEF Opened, DataPosOf
  <2> QED  BY <1>3, <2>1, <2>2 DEF Opened
<1>5. ASSUME Recording'
      PROVE  (/\ FilledBefore(cur.slot.group, cur.slot.stripe)
              /\ cur.slot.pos = 0 \/ Opened(cur.slot))'
  <2>1. PICK sl : sl = cur'.slot  OBVIOUS
  <2>2. FilledBefore(sl.group, sl.stripe) /\ (sl.pos = 0 \/ Opened(sl))
    <3>1. CASE Recording /\ cur' = cur  BY <2>1, <3>1 DEF OrderInv
    <3>2. ASSUME NEW sh \in Shards, NEW x \in Candidates(rows, arcset.groups, Size[sh]),
                 cur' = [shard |-> sh, slot |-> x]
          PROVE  FilledBefore(sl.group, sl.stripe) /\ (sl.pos = 0 \/ Opened(sl))
      <4>1. arcset.groups \in Nat  BY <1>1 DEF TypeInv, TypeOK, ArcsetRow
      <4>2. FilledBefore(x.group, x.stripe) /\ (x.pos = 0 \/ Opened(x))
        BY <1>1, <4>1, PlacedInOrder
      <4> QED  BY <2>1, <3>2, <4>2
    <3> QED  BY <1>5, <3>1, <3>2, PlacementKept
  <2>3. FilledBefore(sl.group, sl.stripe)' /\ (sl.pos = 0 \/ Opened(sl)')
    BY <1>3, <2>2 DEF Opened
  <2> QED  BY <2>1, <2>3 DEF Opened
<1> QED  BY <1>4, <1>5 DEF OrderInv

\* OrderInv holds in every state.
LEMMA OrderKept == Spec => []OrderInv
<1>1. Init => OrderInv
  <2> SUFFICES ASSUME Init PROVE OrderInv  OBVIOUS
  <2>1. rows = {} /\ op.cmd = "none"  BY DEF Init, Idle
  <2> QED  BY <2>1 DEF OrderInv, Recording
<1> QED  BY <1>1, OrderSafe, Safe, KindsKept, PTL DEF Spec

\* A group has at most one open stripe, its last (newPlacementState, findNewSlot).
THEOREM StripesStayInOrder == Spec => []StripesFilledInOrder
<1>1. SafeInv /\ OrderInv => StripesFilledInOrder
  <2> SUFFICES ASSUME SafeInv, OrderInv, NEW st \in DataStripes(rows),
                      Started(rows, st.group, st.stripe + 1)
               PROVE  DataPosOf(st) = DataPos
    BY DEF StripesFilledInOrder
  <2>1. PICK r \in rows : r.group = st.group /\ r.stripe >= st.stripe + 1  BY DEF Started
  <2>2. PICK d \in rows : st = StripeKey(d)  BY DEF DataStripes, DataRows
  <2>3. r.stripe \in Nat /\ d.stripe \in Nat  BY DEF SafeInv, TypeInv, TypeOK, Row
  <2>4. st = [group |-> st.group, stripe |-> st.stripe] /\ st.stripe \in Nat
    BY <2>2, <2>3 DEF StripeKey
  <2>5. st.stripe \in 0 .. r.stripe - 1  BY <2>1, <2>3, <2>4
  <2>6. FilledBefore(st.group, r.stripe)  BY <2>1 DEF OrderInv
  <2> QED  BY <2>4, <2>5, <2>6 DEF FilledBefore
<1> QED  BY <1>1, Safe, OrderKept, PTL

(***************************************************************************)
(* Capacity                                                                *)
(***************************************************************************)

\* place() and findNewSlot choose a slot with room for the shard.
LEMMA CandidateFits ==
    ASSUME NEW rs \in SUBSET Row, NEW groups \in Nat, NEW size,
           NEW sl \in Candidates(rs, groups, size)
    PROVE  Fits(rs, sl, size)
<1>1. sl \in DataSlot  BY CandidatesType
<1>2. sl \in PadSlots(rs, size) => Fits(rs, sl, size)  BY DEF PadSlots
<1>3. sl \in HoleSlots(rs, groups, size) => Fits(rs, sl, size)  BY DEF HoleSlots
<1>4. sl \in FreshSlots(rs, groups, size) => Fits(rs, sl, size)
  <2> SUFFICES ASSUME sl \in FreshSlots(rs, groups, size) PROVE Fits(rs, sl, size)  OBVIOUS
  <2>1. sl.pos = 0 /\ Fits(rs, [sl EXCEPT !.pos = 0], size)
    BY PlacementAssumption DEF FreshSlots, DataPos
  <2>2. [sl EXCEPT !.pos = 0] = sl  BY <1>1, <2>1 DEF DataSlot
  <2> QED  BY <2>1, <2>2
<1> QED  BY <1>2, <1>3, <1>4 DEF Candidates

\* Without rotation, or without parity, no partition holds both data and parity.
LEMMA DataParityApart ==
    ASSUME Layout = "raid3" \/ M = 0,
           NEW g \in Nat, NEW h \in Nat, NEW s \in Nat, NEW t \in Nat,
           NEW p \in DataPos, NEW q \in ParityPos
    PROVE  Partition(g, p, s) # Partition(h, q, t)
<1> DEFINE n == K + M
<1>1. /\ n \in Nat \ {0} /\ p \in 0 .. n - 1 /\ q \in 0 .. n - 1 /\ p # q
      /\ M # 0
  BY PlacementAssumption DEF DataPos, ParityPos
<1>2. Partition(g, p, s) = g * n + p /\ Partition(h, q, t) = h * n + q
  BY <1>1 DEF Partition
<1> HIDE DEF n
<1> QED  BY <1>1, <1>2, GroupsApart

\* When the partitions that hold DATA afterwards are no fuller than before, or as
\* the new DATA row found them with room for it, none is overfilled.
LEMMA CapacitySafe ==
    ASSUME Layout = "raid3" \/ M = 0, SafeInv, SafeInv', RowKinds, CapacityInv, [Next]_vars
    PROVE  CapacityInv'
<1> USE DEF tables, files
<1>1. /\ rows \in SUBSET Row /\ rows' \in SUBSET Row /\ IsFiniteSet(rows)
      /\ \A r \in rows \cup rows' : r.size \in Nat
      /\ \A r \in rows \cup rows' : r.partition = SlotPartition(SlotOf(r))
      /\ arcset.groups \in Nat /\ op \in Command
  BY DEF SafeInv, TypeInv, TypeOK, StoreInv, CapacityInv, Row, ArcsetRow
<1>c. Capacity \in Nat  BY PlacementAssumption
<1>2. Recording' => Fits(rows, cur'.slot, Size[cur'.shard]) /\ Size[cur'.shard] \in Nat
  <2> SUFFICES ASSUME Recording'
               PROVE  Fits(rows, cur'.slot, Size[cur'.shard]) /\ Size[cur'.shard] \in Nat
    OBVIOUS
  <2>1. cur'.shard \in Shards  BY DEF SafeInv, TypeInv, CurTyped, Placement
  <2>2. Size[cur'.shard] \in Nat  BY <2>1, ArcsetAssumption
  <2>3. CASE Recording /\ cur' = cur  BY <2>2, <2>3 DEF CapacityInv
  <2>4. ASSUME NEW sh \in Shards, NEW sl \in Candidates(rows, arcset.groups, Size[sh]),
               cur' = [shard |-> sh, slot |-> sl]
        PROVE  Fits(rows, cur'.slot, Size[cur'.shard])
    BY <1>1, <2>4, CandidateFits
  <2> QED  BY <2>2, <2>3, <2>4, PlacementKept
<1>3. ASSUME IsFiniteSet(rows'),
             \A q \in DataRows(rows') : Used(rows', q.partition) <= Capacity,
             Recording' => \A p : Used(rows', p) \in Nat /\ Used(rows, p) \in Nat
                                   /\ Used(rows', p) <= Used(rows, p)
      PROVE  CapacityInv'
  <2>1. Recording' => Fits(rows', cur'.slot, Size[cur'.shard])
    <3> SUFFICES ASSUME Recording' PROVE Fits(rows', cur'.slot, Size[cur'.shard])  OBVIOUS
    <3> DEFINE p == SlotPartition(cur'.slot)
    <3>1. Used(rows, p) + Size[cur'.shard] <= Capacity /\ Size[cur'.shard] \in Nat
      BY <1>2 DEF Fits
    <3>2. Used(rows', p) \in Nat /\ Used(rows, p) \in Nat /\ Used(rows', p) <= Used(rows, p)
      BY <1>3
    <3> HIDE DEF p
    <3>3. Used(rows', p) + Size[cur'.shard] <= Capacity  BY <1>c, <3>1, <3>2
    <3> QED  BY <3>3 DEF Fits, p
  <2> QED  BY <1>3, <2>1 DEF CapacityInv, DataWithinCapacity
<1>4. ASSUME rows' \subseteq rows PROVE CapacityInv'
  <2>1. IsFiniteSet(rows')  BY <1>1, <1>4, FS_Subset
  <2>2. \A p : Used(rows', p) \in Nat /\ Used(rows, p) \in Nat /\ Used(rows', p) <= Used(rows, p)
    <3> TAKE p
    <3> DEFINE S == {r \in rows : r.partition = p}
               T == {r \in rows' : r.partition = p}
    <3>1. IsFiniteSet(S) /\ T \in SUBSET S /\ (\A r \in S : r.size \in Nat) /\ IsFiniteSet(T)
      BY <1>1, <1>4, <2>1, FS_Subset
    <3>2. Used(rows, p) = SizeSum(S) /\ Used(rows', p) = SizeSum(T)  BY UsedIsSum
    <3> HIDE DEF S, T
    <3>3. SizeSum(S) \in Nat /\ SizeSum(T) \in Nat /\ SizeSum(T) <= SizeSum(S)
      BY <3>1, SumType, SumMonotone
    <3> QED  BY <3>2, <3>3
  <2>3. \A q \in DataRows(rows') : Used(rows', q.partition) <= Capacity
    <3> TAKE q \in DataRows(rows')
    <3>1. q \in DataRows(rows)  BY <1>4 DEF DataRows
    <3>2. Used(rows, q.partition) <= Capacity  BY <3>1 DEF CapacityInv, DataWithinCapacity
    <3> QED  BY <1>c, <2>2, <3>2
  <2> QED  BY <1>3, <2>1, <2>2, <2>3
<1>5. CASE BuildInvalidate  BY <1>4, <1>5 DEF BuildInvalidate, DeleteECShards
<1>6. ASSUME NEW st \in DOMAIN work, StripeVerify(st) PROVE CapacityInv'
  BY <1>4, <1>6 DEF StripeVerify, DeleteECAndPADShards
<1>7. CASE BuildRecord
  <2> DEFINE d == DataRow(cur.shard, cur.slot)
  <2>1. /\ Recording /\ rows' \subseteq rows \cup {d} /\ ~Recording'
    BY <1>1, <1>7 DEF BuildRecord, Recording, Running, Command
  <2>2. /\ d.partition = SlotPartition(cur.slot) /\ d.size = Size[cur.shard]
        /\ cur.shard \in Shards
    BY <2>1 DEF DataRow, SafeInv, TypeInv, CurTyped, Placement
  <2>3. d.size \in Nat /\ Used(rows, d.partition) + d.size <= Capacity
    BY <2>1, <2>2, ArcsetAssumption DEF CapacityInv, Fits
  <2> HIDE DEF d
  <2>4. \A p : /\ Used(rows, p) \in Nat /\ Used(rows', p) \in Nat
               /\ Used(rows', p) <= Used(rows, p) + (IF d.partition = p THEN d.size ELSE 0)
    BY <1>1, <2>1, <2>3, UsedGrows
  <2>5. ASSUME NEW q \in DataRows(rows') PROVE Used(rows', q.partition) <= Capacity
    <3>1. CASE q.partition = d.partition  BY <1>c, <2>3, <2>4, <3>1
    <3>2. CASE q.partition # d.partition
      <4>1. q \in DataRows(rows)  BY <2>1, <3>2 DEF DataRows
      <4>2. Used(rows, q.partition) <= Capacity  BY <4>1 DEF CapacityInv, DataWithinCapacity
      <4> QED  BY <1>c, <2>4, <3>2, <4>2
    <3> QED  BY <3>1, <3>2
  <2>6. IsFiniteSet(rows')  BY <1>1, <2>1, FS_AddElement, FS_Subset
  <2> QED  BY <1>3, <2>1, <2>5, <2>6
<1>8. ASSUME NEW st \in DOMAIN work, NEW p \in StripePos, StripeInsert(st, p) PROVE CapacityInv'
  <2> DEFINE n == NewRow(st, p)
  <2>1. rows' = rows \cup {n} /\ op.cmd = "make-ec" /\ op' = op
    BY <1>8 DEF StripeInsert, Inserts, At, Running
  <2>2. n.type \in {"PAD", "EC"} /\ (n.type = "PAD" => n.size = 0) /\ n \in rows'
    BY <2>1 DEF NewRow
  <2>3. n.size \in Nat  BY <1>1, <2>1
  <2>4. n.type = "EC" => n.pos \in ParityPos
    BY PosTypes DEF NewRow
  <2> HIDE DEF n
  <2>5. \A q : /\ Used(rows, q) \in Nat /\ Used(rows', q) \in Nat
               /\ Used(rows', q) <= Used(rows, q) + (IF n.partition = q THEN n.size ELSE 0)
    BY <1>1, <2>1, <2>3, UsedGrows
  <2>6. ASSUME NEW q \in DataRows(rows') PROVE Used(rows', q.partition) <= Capacity
    <3>1. q \in DataRows(rows)  BY <2>1, <2>2, <2>6 DEF DataRows
    <3>2. Used(rows, q.partition) <= Capacity  BY <3>1 DEF CapacityInv, DataWithinCapacity
    <3>3. n.partition = q.partition => n.type = "PAD"
      <4> SUFFICES ASSUME n.type = "EC" PROVE n.partition # q.partition  BY <2>2
      <4>1. q \in rows /\ q.pos \in DataPos
        BY <3>1 DEF DataRows, SafeInv, TypeInv, DataRowsTyped
      <4>2. /\ n.group \in Nat /\ n.stripe \in Nat /\ q.group \in Nat /\ q.stripe \in Nat
            /\ n.partition = Partition(n.group, n.pos, n.stripe)
            /\ q.partition = Partition(q.group, q.pos, q.stripe)
        BY <1>1, <2>2, <4>1 DEF Row, SlotPartition, SlotOf
      <4> QED  BY <2>4, <4>1, <4>2, DataParityApart
    <3> QED  BY <1>c, <2>2, <2>5, <3>2, <3>3
  <2>7. IsFiniteSet(rows')  BY <1>1, <2>1, FS_AddElement
  <2> QED  BY <1>3, <2>1, <2>6, <2>7 DEF Recording
<1>9. ASSUME NEW st \in DOMAIN work, NEW p \in StripePos, StripeMetadata(st, p) PROVE CapacityInv'
  <2> DEFINE New(r) == IF SlotOf(r) = ParitySlot(st, p)
                       THEN [r EXCEPT !.padded = PaddedSize(rows, st)] ELSE r
  <2>1. rows' = {New(r) : r \in rows} /\ op.cmd = "make-ec" /\ op' = op
    BY <1>9 DEF StripeMetadata, At, Running
  <2>2. \A r \in rows : /\ New(r).size = r.size /\ New(r).partition = r.partition
                        /\ New(r).type = r.type
                        /\ SlotOf(r) # ParitySlot(st, p) => New(r) = r
    BY <1>1 DEF Row
  <2> HIDE DEF New
  <2>3. CASE \A r \in rows : SlotOf(r) # ParitySlot(st, p)
    <3>1. rows' \subseteq rows  BY <2>1, <2>2, <2>3
    <3> QED  BY <1>4, <3>1
  <2>4. ASSUME NEW x \in rows, SlotOf(x) = ParitySlot(st, p) PROVE CapacityInv'
    <3>1. \A r \in rows : r # x => New(r) = r
      BY <2>2, <2>4 DEF SafeInv, StoreInv
    <3>2. rows' \subseteq (rows \ {x}) \cup {New(x)}  BY <2>1, <3>1
    <3>3. \A q : /\ Used(rows, q) \in Nat /\ Used(rows', q) \in Nat /\ Used(rows', q) <= Used(rows, q)
      BY <1>1, <2>2, <3>2, UsedReplaced
    <3>4. ASSUME NEW q \in DataRows(rows') PROVE Used(rows', q.partition) <= Capacity
      <4>1. PICK r \in rows : q = New(r)  BY <2>1, <3>4 DEF DataRows
      <4>2. r \in DataRows(rows) /\ r.partition = q.partition
        BY <2>2, <3>4, <4>1 DEF DataRows
      <4>3. Used(rows, q.partition) <= Capacity  BY <4>2 DEF CapacityInv, DataWithinCapacity
      <4> QED  BY <1>c, <3>3, <4>3
    <3>5. IsFiniteSet(rows')  BY <1>1, <3>2, FS_AddElement, FS_Subset
    <3> QED  BY <1>3, <3>3, <3>4, <3>5
  <2> QED  BY <2>3, <2>4
<1>10. CASE rows' = rows  BY <1>4, <1>10
<1> QED
  BY <1>5, <1>6, <1>7, <1>8, <1>9, <1>10, RowsWritten DEF vars

\* place() never fills a partition that holds DATA beyond its capacity, provided
\* that no parity is written there as well: its size is not known when the stripe
\* is opened (findNewSlot looks at the data partitions only).
THEOREM PartitionsKeepWithin ==
    ASSUME Layout = "raid3" \/ M = 0
    PROVE  Spec => []DataWithinCapacity
<1>1. Init => CapacityInv
  <2> SUFFICES ASSUME Init PROVE CapacityInv  OBVIOUS
  <2>1. rows = {} /\ op.cmd = "none"  BY DEF Init, Idle
  <2> QED  BY <2>1, FS_EmptySet DEF CapacityInv, DataWithinCapacity, DataRows, Recording
<1>2. CapacityInv => DataWithinCapacity  BY DEF CapacityInv
<1> QED  BY <1>1, <1>2, CapacitySafe, Safe, KindsKept, PTL DEF Spec
==============================================================================
