---------------------------- MODULE PackingProofs ----------------------------
(***************************************************************************)
(* The shard definitions of dataset.GenerateShardDefs hold every byte of   *)
(* the files once and in order, within the limit.  Shards that hold whole  *)
(* files give them back: unpacked in every format, tar shards also without *)
(* the database, and read through FUSE.  Both say what the folds of        *)
(* Packing compute, one element after the other.                           *)
(***************************************************************************)
EXTENDS Packing, OrderProofs, SequenceTheorems

(***************************************************************************)
(* Concat: what its fold is, and that it grows with the list               *)
(***************************************************************************)

\* The function whose value the fold of Concat is: g, at a set of indices.
ConcatStep(g, s, T) == IF T = {} THEN <<>> ELSE g[T \ {Max(T)}] \o s[Max(T)]

IsConcat(g, s) == g = [T \in SUBSET DOMAIN s |-> ConcatStep(g, s, T)]

\* h[k] is what the first k parts are together.
ConcatRun(h, s) == h[0] = <<>> /\ \A k \in 1 .. Len(s) : h[k] = h[k - 1] \o s[k]

\* The fold runs through the list: there is a run, and it ends with Concat.
LEMMA ConcatUnfolds ==
    ASSUME NEW X, NEW s \in Seq(Seq(X))
    PROVE  \E h : /\ ConcatRun(h, s) /\ h[Len(s)] = Concat(s)
                  /\ \A k \in 0 .. Len(s) : h[k] \in Seq(X)
<1> DEFINE n == Len(s)
           Y == Seq(X)
           none == <<>>
           F == [ss \in Y \X (1 .. n) |-> ss[1] \o s[ss[2]]]
           g == CHOOSE f : IsConcat(f, s)
           h == [k \in 0 .. n |-> g[1 .. k]]
<1>0. n \in Nat  OBVIOUS
<1>1. DOMAIN s = 1 .. n /\ n \in Nat /\ \A i \in 1 .. n : s[i] \in Y  OBVIOUS
<1>2. \A x \in Y, i \in 1 .. n : F[<<x, i>>] = x \o s[i]  OBVIOUS
<1>3. \A x \in Y, i \in 1 .. n : F[<<x, i>>] \in Y
  <2> TAKE x \in Y, i \in 1 .. n
  <2>1. s[i] \in Seq(X)  BY <1>1
  <2> DEFINE si == s[i]
  <2> HIDE DEF si
  <2>2. x \o si \in Seq(X)  BY <2>1 DEF si
  <2> QED  BY <1>2, <2>2 DEF si
<1>4. none \in Y  OBVIOUS
<1>5. Concat(s) = g[DOMAIN s]
  BY Zenon DEF Concat, FoldLeft, MapThenFoldSet, IsConcat, ConcatStep
<1> HIDE DEF F, n, Y, none, g
<1>6. \E f : IsConcat(f, s)
  <2>0. PICK f : (\A T \in SUBSET (1 .. n) : f[T] \in Y) /\ FoldsOver(f, F, none, n)
    BY <1>0, <1>3, <1>4, FoldOver
  <2>1. f = [T \in SUBSET (1 .. n) |-> IF T = {} THEN none ELSE F[<<f[T \ {Max(T)}], Max(T)>>]]
    BY <2>0 DEF FoldsOver
  <2>2. \A T \in SUBSET (1 .. n) :
            (IF T = {} THEN none ELSE F[<<f[T \ {Max(T)}], Max(T)>>]) = ConcatStep(f, s, T)
    <3> TAKE T \in SUBSET (1 .. n)
    <3>1. CASE T = {}  BY <3>1 DEF ConcatStep, none
    <3>2. CASE T # {}
      <4>1. T \in SUBSET (0 .. n)  OBVIOUS
      <4>2. Max(T) \in 1 .. n  BY <1>1, <3>2, <4>1, MaxOfBounded
      <4> QED  BY <1>2, <2>0, <3>2, <4>2 DEF ConcatStep
    <3> QED  BY <3>1, <3>2
  <2>3. f = [T \in SUBSET (1 .. n) |-> ConcatStep(f, s, T)]  BY <2>1, <2>2
  <2> QED  BY <1>1, <2>3 DEF IsConcat
<1>7. g = [T \in SUBSET (1 .. n) |-> ConcatStep(g, s, T)]  BY <1>1, <1>6 DEF g, IsConcat
<1>8. g[1 .. 0] = <<>>
  <2>1. 1 .. 0 = {} /\ 1 .. 0 \in SUBSET (1 .. n)  OBVIOUS
  <2> QED  BY <1>7, <2>1 DEF ConcatStep
<1>9. ASSUME NEW k \in 1 .. n PROVE g[1 .. k] = g[1 .. k - 1] \o s[k]
  <2>1. /\ 1 .. k \in SUBSET (1 .. n) /\ 1 .. k # {} /\ Max(1 .. k) = k
        /\ (1 .. k) \ {k} = 1 .. k - 1
    BY <1>0, UpToEach
  <2>2. g[1 .. k] = ConcatStep(g, s, 1 .. k)  BY <1>7, <2>1
  <2> QED  BY <2>1, <2>2 DEF ConcatStep
<1>10. ConcatRun(h, s)
  <2>1. h[0] = <<>>  BY <1>1, <1>8
  <2>2. ASSUME NEW k \in 1 .. n PROVE h[k] = h[k - 1] \o s[k]
    <3>1. k \in 0 .. n /\ k - 1 \in 0 .. n  BY <1>1
    <3> QED  BY <1>9, <3>1
  <2> QED  BY <2>1, <2>2 DEF ConcatRun, n
<1>11. h[n] = Concat(s)  BY <1>1, <1>5
<1> HIDE DEF h
<1> DEFINE U == {k \in 0 .. n : h[k] \notin Y}
<1>12. U = {}
  <2> SUFFICES ASSUME U # {} PROVE FALSE  OBVIOUS
  <2>1. PICK k \in U : \A m \in U : k <= m
    <3>1. U \in SUBSET Nat  OBVIOUS
    <3> HIDE DEF U
    <3> QED  BY <3>1, LeastNat
  <2>2. k # 0  BY <1>4, <1>10, <2>1 DEF ConcatRun, none
  <2>3. k \in 1 .. n /\ k - 1 \in 0 .. n /\ k - 1 \notin U  BY <1>1, <2>1, <2>2
  <2>4. h[k - 1] \in Seq(X) /\ s[k] \in Seq(X)  BY <1>1, <2>3 DEF Y
  <2>5. h[k] = h[k - 1] \o s[k]  BY <1>10, <2>3 DEF ConcatRun, n
  <2> DEFINE a == h[k - 1]
             b == s[k]
  <2> HIDE DEF a, b
  <2>6. a \o b \in Seq(X)  BY <2>4 DEF a, b
  <2> QED  BY <2>1, <2>5, <2>6 DEF Y, a, b
<1> QED  BY <1>10, <1>11, <1>12 DEF n, Y

\* Any run of it ends in the same.
LEMMA ConcatIs ==
    ASSUME NEW X, NEW s \in Seq(Seq(X)), NEW h, ConcatRun(h, s)
    PROVE  Concat(s) = h[Len(s)]
<1>1. PICK f : ConcatRun(f, s) /\ f[Len(s)] = Concat(s)  BY ConcatUnfolds
<1> DEFINE U == {k \in 0 .. Len(s) : h[k] # f[k]}
<1>2. Len(s) \in Nat  OBVIOUS
<1>3. U = {}
  <2> SUFFICES ASSUME U # {} PROVE FALSE  OBVIOUS
  <2>1. PICK k \in U : \A m \in U : k <= m
    <3>1. U \in SUBSET Nat  OBVIOUS
    <3> HIDE DEF U
    <3> QED  BY <3>1, LeastNat
  <2>2. k # 0  BY <1>1, <2>1 DEF ConcatRun
  <2>3. k \in 1 .. Len(s) /\ k - 1 \in 0 .. Len(s) /\ k - 1 \notin U  BY <1>2, <2>1, <2>2
  <2>4. h[k] = h[k - 1] \o s[k] /\ f[k] = f[k - 1] \o s[k]  BY <1>1, <2>3 DEF ConcatRun
  <2> QED  BY <2>1, <2>3, <2>4
<1> QED  BY <1>1, <1>2, <1>3

\* Nothing is joined to nothing.
LEMMA ConcatEmpty == Concat(<<>>) = <<>>
<1> DEFINE h == [k \in {0} |-> <<>>]
           s == <<>>
<1>1. s \in Seq(Seq(Nat)) /\ Len(s) = 0  OBVIOUS
<1>2. ConcatRun(h, s)  BY DEF ConcatRun
<1>3. h[0] = <<>>  OBVIOUS
<1> HIDE DEF h, s
<1>4. Concat(s) = h[Len(s)]  BY <1>1, <1>2, ConcatIs
<1> QED  BY <1>1, <1>3, <1>4 DEF s

\* One more part is appended to what the others are together.
LEMMA ConcatSnoc ==
    ASSUME NEW X, NEW s \in Seq(Seq(X)), NEW p \in Seq(X)
    PROVE  Concat(s) \in Seq(X) /\ Concat(Append(s, p)) = Concat(s) \o p
<1> DEFINE n == Len(s)
           t == Append(s, p)
<1>0. n \in Nat  OBVIOUS
<1>1. PICK h : /\ ConcatRun(h, s) /\ h[n] = Concat(s)
               /\ \A k \in 0 .. n : h[k] \in Seq(X)
  BY ConcatUnfolds
<1>2. t \in Seq(Seq(X)) /\ Len(t) = n + 1 /\ t[n + 1] = p /\ \A k \in 1 .. n : t[k] = s[k]
  OBVIOUS
<1> DEFINE f == [k \in 0 .. n + 1 |-> IF k = n + 1 THEN h[n] \o p ELSE h[k]]
<1>3. /\ f[n + 1] = h[n] \o p
      /\ \A k \in 0 .. n : f[k] = h[k]
  BY <1>0
<1> HIDE DEF f, t, n
<1>4. ConcatRun(f, t)
  <2>1. f[0] = <<>>  BY <1>0, <1>1, <1>3 DEF ConcatRun
  <2>2. ASSUME NEW k \in 1 .. n + 1 PROVE f[k] = f[k - 1] \o t[k]
    <3>1. CASE k = n + 1
      <4>1. k - 1 = n /\ n \in 0 .. n  BY <1>0, <3>1
      <4> QED  BY <1>2, <1>3, <3>1, <4>1
    <3>2. CASE k # n + 1
      <4>1. k \in 1 .. n /\ k \in 0 .. n /\ k - 1 \in 0 .. n  BY <1>0, <3>2
      <4>2. h[k] = h[k - 1] \o s[k]  BY <1>1, <4>1 DEF ConcatRun, n
      <4> QED  BY <1>2, <1>3, <4>1, <4>2
    <3> QED  BY <3>1, <3>2
  <2> QED  BY <1>2, <2>1, <2>2 DEF ConcatRun
<1>5. Concat(t) = f[n + 1]  BY <1>2, <1>4, ConcatIs
<1>6. Concat(s) \in Seq(X)  BY <1>0, <1>1
<1> QED  BY <1>1, <1>3, <1>5, <1>6 DEF t

\* The parts of two lists, one list behind the other.
LEMMA ConcatJoined ==
    ASSUME NEW X, NEW s \in Seq(Seq(X)), NEW p \in Seq(X), NEW x \in X
    PROVE  /\ Concat(s) \o Append(p, x) = Append(Concat(s) \o p, x)
           /\ Concat(Append(s, p)) \o <<>> = Concat(s) \o p
           /\ Concat(s) \o p \in Seq(X)
<1> DEFINE c == Concat(s)
<1>1. c \in Seq(X) /\ Concat(Append(s, p)) = c \o p  BY ConcatSnoc
<1> HIDE DEF c
<1>2. c \o Append(p, x) = Append(c \o p, x)  BY <1>1
<1>3. c \o p \in Seq(X)  BY <1>1
<1> DEFINE cp == c \o p
<1> HIDE DEF cp
<1>4. cp \o <<>> = cp  BY <1>3 DEF cp
<1> QED  BY <1>1, <1>2, <1>3, <1>4 DEF c, cp

(***************************************************************************)
(* Total: the bytes of a list of segments                                  *)
(***************************************************************************)

\* The same of Total.
TotalStep(g, s, T) == IF T = {} THEN 0 ELSE g[T \ {Max(T)}] + s[Max(T)].size

IsTotal(g, s) == g = [T \in SUBSET DOMAIN s |-> TotalStep(g, s, T)]

\* The totals of the first k segments.
TotalRun(h, s) == h[0] = 0 /\ \A k \in 1 .. Len(s) : h[k] = h[k - 1] + s[k].size

\* The fold of Total runs through the list.
LEMMA TotalUnfolds ==
    ASSUME NEW R, NEW s \in Seq(R), \A i \in 1 .. Len(s) : s[i].size \in Nat
    PROVE  \E h : TotalRun(h, s) /\ h[Len(s)] = Total(s) /\ \A k \in 0 .. Len(s) : h[k] \in Nat
<1> DEFINE n == Len(s)
           F == [ss \in Nat \X (1 .. n) |-> ss[1] + s[ss[2]].size]
           g == CHOOSE f : IsTotal(f, s)
           h == [k \in 0 .. n |-> g[1 .. k]]
<1>0. n \in Nat  OBVIOUS
<1>1. DOMAIN s = 1 .. n /\ \A i \in 1 .. n : s[i].size \in Nat  OBVIOUS
<1>2. \A x \in Nat, i \in 1 .. n : F[<<x, i>>] = x + s[i].size  OBVIOUS
<1>3. \A x \in Nat, i \in 1 .. n : F[<<x, i>>] \in Nat
  <2> TAKE x \in Nat, i \in 1 .. n
  <2>1. s[i].size \in Nat  BY <1>1
  <2>2. x + s[i].size \in Nat  BY <2>1
  <2> QED  BY <1>2, <2>2
<1>4. Total(s) = g[DOMAIN s]
  BY Zenon DEF Total, FoldLeft, MapThenFoldSet, IsTotal, TotalStep
<1> HIDE DEF F, n, g
<1>5. \E f : IsTotal(f, s)
  <2>0. 0 \in Nat  OBVIOUS
  <2>1. PICK f : (\A T \in SUBSET (1 .. n) : f[T] \in Nat) /\ FoldsOver(f, F, 0, n)
    BY <1>0, <1>3, <2>0, FoldOver
  <2>2. f = [T \in SUBSET (1 .. n) |-> IF T = {} THEN 0 ELSE F[<<f[T \ {Max(T)}], Max(T)>>]]
    BY <2>1 DEF FoldsOver
  <2>3. \A T \in SUBSET (1 .. n) :
            (IF T = {} THEN 0 ELSE F[<<f[T \ {Max(T)}], Max(T)>>]) = TotalStep(f, s, T)
    <3> TAKE T \in SUBSET (1 .. n)
    <3>1. CASE T = {}  BY <3>1 DEF TotalStep
    <3>2. CASE T # {}
      <4>1. T \in SUBSET (0 .. n)  OBVIOUS
      <4>2. Max(T) \in 1 .. n  BY <1>0, <3>2, <4>1, MaxOfBounded
      <4> QED  BY <1>2, <2>1, <3>2, <4>2 DEF TotalStep
    <3> QED  BY <3>1, <3>2
  <2>4. f = [T \in SUBSET (1 .. n) |-> TotalStep(f, s, T)]  BY <2>2, <2>3
  <2> QED  BY <1>1, <2>4 DEF IsTotal
<1>6. g = [T \in SUBSET (1 .. n) |-> TotalStep(g, s, T)]  BY <1>1, <1>5 DEF g, IsTotal
<1>7. g[1 .. 0] = 0
  <2>1. 1 .. 0 = {} /\ 1 .. 0 \in SUBSET (1 .. n)  OBVIOUS
  <2> QED  BY <1>6, <2>1 DEF TotalStep
<1>8. ASSUME NEW k \in 1 .. n PROVE g[1 .. k] = g[1 .. k - 1] + s[k].size
  <2>1. /\ 1 .. k \in SUBSET (1 .. n) /\ 1 .. k # {} /\ Max(1 .. k) = k
        /\ (1 .. k) \ {k} = 1 .. k - 1
    BY <1>0, UpToEach
  <2>2. g[1 .. k] = TotalStep(g, s, 1 .. k)  BY <1>6, <2>1
  <2> QED  BY <2>1, <2>2 DEF TotalStep
<1>9. TotalRun(h, s)
  <2>1. h[0] = 0  BY <1>0, <1>7
  <2>2. ASSUME NEW k \in 1 .. n PROVE h[k] = h[k - 1] + s[k].size
    <3>1. k \in 0 .. n /\ k - 1 \in 0 .. n  BY <1>0
    <3> QED  BY <1>8, <3>1
  <2> QED  BY <2>1, <2>2 DEF TotalRun, n
<1>10. h[n] = Total(s)  BY <1>0, <1>1, <1>4
<1> HIDE DEF h
<1> DEFINE U == {k \in 0 .. n : h[k] \notin Nat}
<1>11. U = {}
  <2> SUFFICES ASSUME U # {} PROVE FALSE  OBVIOUS
  <2>1. PICK k \in U : \A m \in U : k <= m
    <3>1. U \in SUBSET Nat  OBVIOUS
    <3> HIDE DEF U
    <3> QED  BY <3>1, LeastNat
  <2>2. k # 0  BY <1>9, <2>1 DEF TotalRun
  <2>3. k \in 1 .. n /\ k - 1 \in 0 .. n /\ k - 1 \notin U  BY <1>0, <2>1, <2>2
  <2>4. h[k] = h[k - 1] + s[k].size  BY <1>9, <2>3 DEF TotalRun, n
  <2> QED  BY <1>1, <2>1, <2>3, <2>4
<1> QED  BY <1>9, <1>10, <1>11 DEF n

\* There is only one such run.
LEMMA TotalIs ==
    ASSUME NEW R, NEW s \in Seq(R), \A i \in 1 .. Len(s) : s[i].size \in Nat,
           NEW h, TotalRun(h, s)
    PROVE  Total(s) = h[Len(s)]
<1>1. PICK f : TotalRun(f, s) /\ f[Len(s)] = Total(s)  BY TotalUnfolds
<1> DEFINE U == {k \in 0 .. Len(s) : h[k] # f[k]}
<1>2. Len(s) \in Nat  OBVIOUS
<1>3. U = {}
  <2> SUFFICES ASSUME U # {} PROVE FALSE  OBVIOUS
  <2>1. PICK k \in U : \A m \in U : k <= m
    <3>1. U \in SUBSET Nat  OBVIOUS
    <3> HIDE DEF U
    <3> QED  BY <3>1, LeastNat
  <2>2. k # 0  BY <1>1, <2>1 DEF TotalRun
  <2>3. k \in 1 .. Len(s) /\ k - 1 \in 0 .. Len(s) /\ k - 1 \notin U  BY <1>2, <2>1, <2>2
  <2>4. h[k] = h[k - 1] + s[k].size /\ f[k] = f[k - 1] + s[k].size
    BY <1>1, <2>3 DEF TotalRun
  <2> QED  BY <2>1, <2>3, <2>4
<1> QED  BY <1>1, <1>2, <1>3

\* Nothing has no size.
LEMMA TotalEmpty == Total(<<>>) = 0
<1> DEFINE h == [k \in {0} |-> 0]
           s == <<>>
<1>1. s \in Seq(Seg) /\ Len(s) = 0 /\ \A i \in 1 .. Len(s) : s[i].size \in Nat  OBVIOUS
<1>2. TotalRun(h, s)  BY DEF TotalRun
<1>3. h[0] = 0  OBVIOUS
<1> HIDE DEF h, s
<1>4. Total(s) = h[Len(s)]  BY <1>1, <1>2, TotalIs
<1> QED  BY <1>1, <1>3, <1>4 DEF s

\* One more segment adds its size.
LEMMA TotalSnoc ==
    ASSUME NEW s \in Seq(Seg), NEW x \in Seg
    PROVE  Total(s) \in Nat /\ Total(Append(s, x)) = Total(s) + x.size
<1> DEFINE n == Len(s)
           t == Append(s, x)
<1>0. n \in Nat /\ \A x1 \in Seg : x1.size \in Nat  BY DEF Seg
<1>a. \A i \in 1 .. n : s[i].size \in Nat
  <2>1. \A i \in 1 .. n : s[i] \in Seg  OBVIOUS
  <2> QED  BY <1>0, <2>1
<1>1. PICK h : TotalRun(h, s) /\ h[n] = Total(s) /\ \A k \in 0 .. n : h[k] \in Nat
  BY <1>a, TotalUnfolds
<1>2. /\ t \in Seq(Seg) /\ Len(t) = n + 1 /\ t[n + 1] = x
      /\ (\A k \in 1 .. n : t[k] = s[k]) /\ (\A k \in 1 .. n + 1 : t[k] \in Seg)
  OBVIOUS
<1> DEFINE f == [k \in 0 .. n + 1 |-> IF k = n + 1 THEN h[n] + x.size ELSE h[k]]
<1>3. f[n + 1] = h[n] + x.size /\ \A k \in 0 .. n : f[k] = h[k]  BY <1>0
<1> HIDE DEF f, t, n
<1>4. TotalRun(f, t)
  <2>1. f[0] = 0  BY <1>0, <1>1, <1>3 DEF TotalRun
  <2>2. ASSUME NEW k \in 1 .. n + 1 PROVE f[k] = f[k - 1] + t[k].size
    <3>1. CASE k = n + 1
      <4>1. k - 1 = n /\ n \in 0 .. n  BY <1>0, <3>1
      <4> QED  BY <1>2, <1>3, <3>1, <4>1
    <3>2. CASE k # n + 1
      <4>1. k \in 1 .. n /\ k \in 0 .. n /\ k - 1 \in 0 .. n  BY <1>0, <3>2
      <4>2. h[k] = h[k - 1] + s[k].size  BY <1>1, <4>1 DEF TotalRun, n
      <4> QED  BY <1>2, <1>3, <4>1, <4>2
    <3> QED  BY <3>1, <3>2
  <2> QED  BY <1>2, <2>1, <2>2 DEF TotalRun
<1>5. Total(t) = f[n + 1]  BY <1>0, <1>2, <1>4, TotalIs
<1>6. Total(s) \in Nat  BY <1>0, <1>1
<1> QED  BY <1>1, <1>3, <1>5, <1>6 DEF t

(***************************************************************************)
(* What the current state of GenerateShardDefs holds                       *)
(***************************************************************************)

\* What GenerateShardDefs carries from file to file.
Acc == [done : Seq(Seq(Seg)), cur : Seq(Seg), offset : Nat]

\* Every segment so far, in order.
Text(acc) == Concat(acc.done) \o acc.cur

\* No shard is empty, none is larger than the limit.
Within(acc, max) ==
    /\ \A i \in DOMAIN acc.done : acc.done[i] # <<>> /\ (max > 0 => Total(acc.done[i]) <= max)
    /\ max > 0 => Total(acc.cur) <= max

\* Closing the current shard changes neither.
LEMMA EmitKeeps ==
    ASSUME NEW acc \in Acc, NEW max \in Nat, Within(acc, max)
    PROVE  /\ Emit(acc) \in Acc /\ Emit(acc).cur = <<>> /\ Emit(acc).offset = acc.offset
           /\ Text(Emit(acc)) = Text(acc) /\ Within(Emit(acc), max)
<1>1. acc.done \in Seq(Seq(Seg)) /\ acc.cur \in Seq(Seg) /\ acc.offset \in Nat  BY DEF Acc
<1>2. CASE acc.cur = <<>>
  <2>1. Emit(acc) = acc  BY <1>2 DEF Emit
  <2> QED  BY <1>2, <2>1
<1>3. CASE acc.cur # <<>>
  <2> DEFINE new == Emit(acc)
             t == Append(acc.done, acc.cur)
  <2>1. new = [acc EXCEPT !.done = t, !.cur = <<>>]  BY <1>3 DEF Emit
  <2>2. t \in Seq(Seq(Seg)) /\ <<>> \in Seq(Seg)  BY <1>1
  <2>3. /\ DOMAIN t = 1 .. Len(acc.done) + 1 /\ t[Len(acc.done) + 1] = acc.cur
        /\ DOMAIN acc.done = 1 .. Len(acc.done) /\ Len(acc.done) \in Nat
        /\ \A i \in 1 .. Len(acc.done) : t[i] = acc.done[i]
    BY <1>1
  <2> HIDE DEF new, t
  <2>4. new \in Acc /\ new.cur = <<>> /\ new.done = t /\ new.offset = acc.offset
    BY <2>1, <2>2 DEF Acc
  <2>5. Concat(t) \o <<>> = Text(acc)
    <3>1. PICK x \in Seg : TRUE
      <4>1. [file |-> 0, offset |-> 0, size |-> 0] \in Seg  BY DEF Seg
      <4> QED  BY <4>1
    <3>2. /\ Concat(acc.done) \o Append(acc.cur, x) = Append(Concat(acc.done) \o acc.cur, x)
          /\ Concat(Append(acc.done, acc.cur)) \o <<>> = Concat(acc.done) \o acc.cur
          /\ Concat(acc.done) \o acc.cur \in Seq(Seg)
      BY <1>1, ConcatJoined, Zenon
    <3> QED  BY <3>2 DEF t, Text
  <2>6. Text(new) = Text(acc)  BY <2>4, <2>5 DEF Text
  <2>7. Within(new, max)
    <3>1. \A i \in DOMAIN t : t[i] # <<>> /\ (max > 0 => Total(t[i]) <= max)
      BY <1>3, <2>3 DEF Within
    <3>2. max > 0 => Total(<<>>) <= max  BY TotalEmpty
    <3> QED  BY <2>4, <3>1, <3>2 DEF Within
  <2> QED  BY <2>4, <2>6, <2>7 DEF new
<1> QED  BY <1>2, <1>3

\* A segment for which there is room is the next one.
LEMMA TakesSegment ==
    ASSUME NEW acc \in Acc, NEW max \in Nat, Within(acc, max), NEW x \in Seg,
           max > 0 => Total(acc.cur) + x.size <= max, NEW o \in Nat
    PROVE  LET new == [acc EXCEPT !.cur = Append(@, x), !.offset = o]
           IN  /\ new \in Acc /\ new.cur = Append(acc.cur, x) /\ new.offset = o
               /\ Text(new) = Append(Text(acc), x) /\ Text(acc) \in Seq(Seg)
               /\ Within(new, max)
<1> DEFINE new == [acc EXCEPT !.cur = Append(@, x), !.offset = o]
           c == Append(acc.cur, x)
<1>1. acc.done \in Seq(Seq(Seg)) /\ acc.cur \in Seq(Seg) /\ acc.offset \in Nat  BY DEF Acc
<1>2. c \in Seq(Seg)  BY <1>1
<1>3. Total(c) = Total(acc.cur) + x.size  BY <1>1, TotalSnoc
<1>4. new = [acc EXCEPT !.cur = c, !.offset = o]  OBVIOUS
<1>5. Concat(acc.done) \o c = Append(Text(acc), x) /\ Text(acc) \in Seq(Seg)
  <2>1. /\ Concat(acc.done) \o Append(acc.cur, x) = Append(Concat(acc.done) \o acc.cur, x)
        /\ Concat(Append(acc.done, acc.cur)) \o <<>> = Concat(acc.done) \o acc.cur
        /\ Concat(acc.done) \o acc.cur \in Seq(Seg)
    BY <1>1, ConcatJoined, Zenon
  <2> QED  BY <2>1 DEF Text
<1> HIDE DEF c, new
<1>6. new \in Acc /\ new.cur = c /\ new.done = acc.done /\ new.offset = o
  BY <1>2, <1>4 DEF Acc
<1>7. Text(new) = Append(Text(acc), x)  BY <1>5, <1>6 DEF Text
<1>8. Within(new, max)  BY <1>3, <1>6 DEF Within
<1> QED  BY <1>5, <1>6, <1>7, <1>8 DEF c, new

(***************************************************************************)
(* One file                                                                *)
(***************************************************************************)

\* A file that fits is one segment.
LEMMA WholeAdds ==
    ASSUME NEW acc \in Acc, NEW max \in Nat, Within(acc, max), NEW f \in File,
           max = 0 \/ f.size <= max
    PROVE  LET new == AddWhole(acc, f, max)
               x   == [file |-> f.file, offset |-> 0, size |-> f.size]
           IN  /\ new \in Acc /\ Within(new, max) /\ x \in Seg
               /\ Text(acc) \in Seq(Seg) /\ Text(new) = Append(Text(acc), x)
<1> DEFINE x    == [file |-> f.file, offset |-> 0, size |-> f.size]
           full == NoRoom(acc.cur, f.size, max)
           room == EmitIf(full, acc)
           new  == [room EXCEPT !.cur = Append(@, x), !.offset = room.offset]
<1>1. f.file \in Nat /\ f.size \in Nat  BY DEF File
<1>2. x \in Seg /\ x.size = f.size  BY <1>1 DEF Seg
<1>3. acc.cur \in Seq(Seg)  BY DEF Acc
<1>4. Total(acc.cur) \in Nat  BY <1>2, <1>3, TotalSnoc
<1> HIDE DEF x
<1>5. /\ room \in Acc /\ Within(room, max) /\ Text(room) = Text(acc)
      /\ max > 0 => Total(room.cur) + x.size <= max
  <2>1. CASE full
    <3>1. room = Emit(acc)  BY <2>1 DEF EmitIf
    <3>2. /\ Emit(acc) \in Acc /\ Emit(acc).cur = <<>>
          /\ Text(Emit(acc)) = Text(acc) /\ Within(Emit(acc), max)
      BY EmitKeeps
    <3>3. max > 0 => Total(<<>>) + x.size <= max  BY <1>1, <1>2, TotalEmpty
    <3> QED  BY <3>1, <3>2, <3>3
  <2>2. CASE ~full
    <3>1. room = acc  BY <2>2 DEF EmitIf
    <3>2. max > 0 => Total(acc.cur) + f.size <= max
      BY <1>1, <1>4, <2>2 DEF NoRoom
    <3> QED  BY <1>2, <3>1, <3>2
  <2> QED  BY <2>1, <2>2
<1> HIDE DEF room, full
<1>6. room.offset \in Nat  BY <1>5 DEF Acc
<1>7. /\ new \in Acc /\ new.cur = Append(room.cur, x) /\ new.offset = room.offset
      /\ Text(new) = Append(Text(room), x) /\ Text(room) \in Seq(Seg)
      /\ Within(new, max)
  BY <1>2, <1>5, <1>6, TakesSegment, Zenon
<1>8. AddWhole(acc, f, max) = [room EXCEPT !.cur = Append(@, x)]
  BY DEF AddWhole, room, full, x
<1>9. [room EXCEPT !.cur = Append(@, x)] = new  BY <1>5 DEF Acc
<1> HIDE DEF new
<1> QED  BY <1>2, <1>5, <1>7, <1>8, <1>9 DEF x

(***************************************************************************)
(* The bytes of a list of segments                                         *)
(***************************************************************************)

\* The bytes that a segment, and a list of segments, says.
SegBytes(x) == Bytes(x.file, x.offset + 1, x.offset + x.size)

Said(t) == Concat([i \in DOMAIN t |-> SegBytes(t[i])])

FilesOf(t) == {t[i].file : i \in DOMAIN t}

\* A file is any beginning of it with the rest.
LEMMA BytesJoin ==
    ASSUME NEW f \in Nat, NEW a \in Nat, NEW n \in Nat
    PROVE  /\ Bytes(f, a + 1, a + n) \in Seq(Byte)
           /\ Bytes(f, 1, a) \o Bytes(f, a + 1, a + n) = Bytes(f, 1, a + n)
<1> DEFINE s == Bytes(f, 1, a)
           t == Bytes(f, a + 1, a + n)
           u == Bytes(f, 1, a + n)
<1>1. /\ (a + n) - (a + 1) + 1 = n /\ a - 1 + 1 = a /\ (a + n) - 1 + 1 = a + n
      /\ \A i \in 1 .. n : (a + 1) + i - 1 = a + i
      /\ \A i \in Nat : 1 + i - 1 = i
  OBVIOUS
<1>2. /\ s = [i \in 1 .. a |-> <<f, i>>]
      /\ t = [i \in 1 .. n |-> <<f, a + i>>]
      /\ u = [i \in 1 .. a + n |-> <<f, i>>]
  BY <1>1 DEF Bytes
<1> HIDE DEF s, t, u
<1>3. /\ \A i \in 1 .. a : <<f, i>> \in Byte
      /\ \A i \in 1 .. n : <<f, a + i>> \in Byte
      /\ \A i \in 1 .. a + n : <<f, i>> \in Byte
  BY DEF Byte
<1>4. s \in Seq(Byte) /\ t \in Seq(Byte) /\ u \in Seq(Byte)
  <2>1. s \in [1 .. a -> Byte] /\ t \in [1 .. n -> Byte] /\ u \in [1 .. a + n -> Byte]
    BY <1>2, <1>3
  <2>2. a + n \in Nat  OBVIOUS
  <2> QED  BY <2>1, <2>2
<1>5. Len(s) = a /\ Len(t) = n /\ Len(u) = a + n  BY <1>2, <1>4
<1>6. /\ s \o t \in Seq(Byte) /\ Len(s \o t) = a + n
      /\ \A j \in 1 .. a : (s \o t)[j] = s[j]
      /\ \A j \in a + 1 .. a + n : (s \o t)[j] = t[j - a]
  BY <1>4, <1>5
<1>7. \A j \in 1 .. a + n : (s \o t)[j] = u[j]
  <2> TAKE j \in 1 .. a + n
  <2>1. CASE j <= a
    <3>1. j \in 1 .. a  BY <2>1
    <3> QED  BY <1>2, <1>6, <3>1
  <2>2. CASE j > a
    <3>1. j \in a + 1 .. a + n /\ j - a \in 1 .. n /\ a + (j - a) = j  BY <2>2
    <3> QED  BY <1>2, <1>6, <3>1
  <2>3. j <= a \/ j > a  OBVIOUS
  <2> QED  BY <2>1, <2>2, <2>3, Zenon
<1> DEFINE st == s \o t
<1> HIDE DEF st
<1>8. st = u
  <2>1. st \in Seq(Byte) /\ Len(st) = Len(u) /\ \A j \in 1 .. Len(u) : st[j] = u[j]
    BY <1>5, <1>6, <1>7 DEF st
  <2> QED  BY <1>4, <2>1
<1> QED  BY <1>4, <1>8 DEF st, s, t, u

\* What a segment says are bytes.
LEMMA SegBytesTyped == ASSUME NEW x \in Seg PROVE SegBytes(x) \in Seq(Byte)
<1>1. x.file \in Nat /\ x.offset \in Nat /\ x.size \in Nat  BY DEF Seg
<1> QED  BY <1>1, BytesJoin DEF SegBytes

\* One more segment adds its bytes and its file.
LEMMA SaidSnoc ==
    ASSUME NEW t \in Seq(Seg), NEW x \in Seg
    PROVE  /\ Said(t) \in Seq(Byte) /\ Said(Append(t, x)) = Said(t) \o SegBytes(x)
           /\ FilesOf(Append(t, x)) = FilesOf(t) \cup {x.file}
           /\ ToSet(Append(t, x)) = ToSet(t) \cup {x}
<1> DEFINE n == Len(t)
           u == Append(t, x)
           parts == [i \in DOMAIN t |-> SegBytes(t[i])]
           more  == [i \in DOMAIN u |-> SegBytes(u[i])]
           b == SegBytes(x)
<1>1. /\ n \in Nat /\ DOMAIN t = 1 .. n /\ \A i \in 1 .. n : t[i] \in Seg
      /\ DOMAIN u = 1 .. n + 1 /\ u[n + 1] = x /\ \A i \in 1 .. n : u[i] = t[i]
  OBVIOUS
<1>2. b \in Seq(Byte) /\ \A i \in 1 .. n : SegBytes(t[i]) \in Seq(Byte)
  BY <1>1, SegBytesTyped
<1>3. parts \in Seq(Seq(Byte))
  <2>1. parts \in [1 .. n -> Seq(Byte)]  BY <1>1, <1>2
  <2> HIDE DEF parts, n
  <2> QED  BY <1>1, <2>1
<1> HIDE DEF u, n
<1>4. more = [i \in 1 .. n + 1 |-> SegBytes(u[i])]  BY <1>1
<1>5. parts = [i \in 1 .. n |-> SegBytes(t[i])]  BY <1>1
<1> HIDE DEF parts, more, b
<1>6. more = Append(parts, b)
  <2>1. Append(parts, b) = [i \in 1 .. n + 1 |-> IF i = n + 1 THEN b ELSE parts[i]]
    BY <1>1, <1>3, <1>5
  <2>2. \A i \in 1 .. n + 1 : SegBytes(u[i]) = IF i = n + 1 THEN b ELSE parts[i]
    <3> TAKE i \in 1 .. n + 1
    <3>1. CASE i = n + 1  BY <1>1, <3>1 DEF b
    <3>2. CASE i # n + 1
      <4>1. i \in 1 .. n  BY <1>1, <3>2
      <4> QED  BY <1>1, <1>5, <3>2, <4>1
    <3> QED  BY <3>1, <3>2
  <2> QED  BY <1>4, <2>1, <2>2
<1>7. Concat(parts) \in Seq(Byte) /\ Concat(Append(parts, b)) = Concat(parts) \o b
  BY <1>2, <1>3, ConcatSnoc
<1>8. FilesOf(u) = FilesOf(t) \cup {x.file}
  <2>1. FilesOf(u) = {u[i].file : i \in 1 .. n + 1}  BY <1>1 DEF FilesOf
  <2>2. FilesOf(t) = {t[i].file : i \in 1 .. n}  BY <1>1 DEF FilesOf
  <2>3. 1 .. n + 1 = (1 .. n) \cup {n + 1} /\ n + 1 \in 1 .. n + 1  BY <1>1
  <2>4. ASSUME NEW y \in FilesOf(u) PROVE y \in FilesOf(t) \cup {x.file}
    <3>1. PICK i \in 1 .. n + 1 : y = u[i].file  BY <2>1, <2>4
    <3>2. CASE i = n + 1  BY <1>1, <3>1, <3>2
    <3>3. CASE i \in 1 .. n  BY <1>1, <2>2, <3>1, <3>3
    <3> QED  BY <2>3, <3>2, <3>3
  <2>5. ASSUME NEW y \in FilesOf(t) PROVE y \in FilesOf(u)
    <3>1. PICK i \in 1 .. n : y = t[i].file  BY <2>2, <2>5
    <3>2. i \in 1 .. n + 1 /\ u[i] = t[i]  BY <1>1, <2>3
    <3> QED  BY <2>1, <3>1, <3>2
  <2>6. x.file \in FilesOf(u)  BY <1>1, <2>1, <2>3
  <2> QED  BY <2>4, <2>5, <2>6
<1>9. ToSet(u) = ToSet(t) \cup {x}
  <2>1. ToSet(u) = {u[i] : i \in 1 .. n + 1}  BY <1>1 DEF ToSet
  <2>2. ToSet(t) = {t[i] : i \in 1 .. n}  BY <1>1 DEF ToSet
  <2>3. 1 .. n + 1 = (1 .. n) \cup {n + 1}  BY <1>1
  <2> QED  BY <1>1, <2>1, <2>2, <2>3
<1> QED  BY <1>6, <1>7, <1>8, <1>9 DEF Said, parts, more, b, u

\* The segments that can come from a file: the whole of it, or a part of one that
\* is larger than the limit.
SegsOf(f, max) ==
    {x \in Seg : x.file = f.file /\ (x.size = f.size \/ (max > 0 /\ max < f.size))}

(***************************************************************************)
(* A file that is larger than the limit                                    *)
(***************************************************************************)

\* What the loops keep.
Kept(max) == {a \in Acc : Within(a, max)}

\* The next segment of such a file has at least one byte.
LEMMA ChunkAdds ==
    ASSUME NEW max \in Nat, max > 0, NEW acc \in Kept(max), NEW f \in File, acc.offset < f.size
    PROVE  LET new == AddChunk(acc, f, max)
           IN  /\ new \in Kept(max) /\ Text(acc) \in Seq(Seg)
               /\ \E c \in 1 .. f.size - acc.offset :
                     LET x == [file |-> f.file, offset |-> acc.offset, size |-> c]
                     IN  x \in Seg /\ new.offset = acc.offset + c /\ Text(new) = Append(Text(acc), x)
<1> DEFINE full  == Total(acc.cur) >= max
           room  == EmitIf(full, acc)
           left  == f.size - acc.offset
           space == max - Total(room.cur)
           c     == IF left < space THEN left ELSE space
           x     == [file |-> f.file, offset |-> acc.offset, size |-> c]
           grown == [room EXCEPT !.cur = Append(@, x), !.offset = acc.offset + c]
           new   == EmitIf(Total(grown.cur) >= max, grown)
<1>0. new = AddChunk(acc, f, max)  BY Zenon DEF AddChunk
<1>1. f.file \in Nat /\ f.size \in Nat  BY DEF File
<1>2. acc \in Acc /\ Within(acc, max)  BY DEF Kept
<1>3. acc.cur \in Seq(Seg) /\ acc.offset \in Nat  BY <1>2 DEF Acc
<1>a. PICK z \in Seg : TRUE
  <2>1. [file |-> 0, offset |-> 0, size |-> 0] \in Seg  BY DEF Seg
  <2> QED  BY <2>1
<1>4. Total(acc.cur) \in Nat  BY <1>3, <1>a, TotalSnoc
<1>5. /\ room \in Acc /\ Within(room, max) /\ Text(room) = Text(acc)
      /\ Total(room.cur) \in Nat /\ Total(room.cur) < max
  <2>1. CASE full
    <3>1. room = Emit(acc)  BY <2>1 DEF EmitIf
    <3>2. /\ Emit(acc) \in Acc /\ Emit(acc).cur = <<>>
          /\ Text(Emit(acc)) = Text(acc) /\ Within(Emit(acc), max)
      BY <1>2, EmitKeeps
    <3>3. Total(<<>>) \in Nat /\ Total(<<>>) < max  BY TotalEmpty
    <3> QED  BY <3>1, <3>2, <3>3
  <2>2. CASE ~full
    <3>1. room = acc  BY <2>2 DEF EmitIf
    <3> QED  BY <1>2, <1>4, <2>2, <3>1
  <2> QED  BY <2>1, <2>2
<1> HIDE DEF full, room
<1>6. c \in 1 .. f.size - acc.offset /\ Total(room.cur) + c <= max /\ acc.offset + c \in Nat
  BY <1>1, <1>3, <1>5
<1> HIDE DEF left, space, c
<1>7. x \in Seg /\ x.size = c
  <2>1. c \in Nat  BY <1>1, <1>3, <1>6
  <2> QED  BY <1>1, <1>3, <2>1 DEF Seg
<1> HIDE DEF x
<1>8. max > 0 => Total(room.cur) + x.size <= max  BY <1>6, <1>7
<1>9. /\ grown \in Acc /\ grown.cur = Append(room.cur, x) /\ grown.offset = acc.offset + c
      /\ Text(grown) = Append(Text(room), x) /\ Text(room) \in Seq(Seg)
      /\ Within(grown, max)
  BY <1>5, <1>6, <1>7, <1>8, TakesSegment, Zenon
<1> HIDE DEF grown
<1>10. /\ new \in Acc /\ Within(new, max) /\ new.offset = acc.offset + c
       /\ Text(new) = Text(grown)
  <2>1. CASE Total(grown.cur) >= max
    <3>1. new = Emit(grown)  BY <2>1 DEF EmitIf
    <3>2. /\ Emit(grown) \in Acc /\ Emit(grown).offset = grown.offset
          /\ Text(Emit(grown)) = Text(grown) /\ Within(Emit(grown), max)
      BY <1>9, EmitKeeps
    <3> QED  BY <1>9, <3>1, <3>2
  <2>2. CASE ~(Total(grown.cur) >= max)
    <3>1. new = grown  BY <2>2 DEF EmitIf
    <3> QED  BY <1>9, <3>1
  <2> QED  BY <2>1, <2>2
<1> HIDE DEF new
<1>11. new \in Kept(max)  BY <1>10 DEF Kept
<1> QED  BY <1>0, <1>5, <1>6, <1>7, <1>9, <1>10, <1>11 DEF x

\* A round of the loop over a file that is split, and the function of its fold.
SplitNext(a, f, max) == IF a.offset < f.size THEN AddChunk(a, f, max) ELSE a

SplitStep(g, acc, f, max, T) ==
    IF T = {} THEN [acc EXCEPT !.offset = 0] ELSE SplitNext(g[T \ {Max(T)}], f, max)

IsSplit(g, acc, f, max) == g = [T \in SUBSET (1 .. f.size) |-> SplitStep(g, acc, f, max, T)]

\* AddSplit goes on until the file is used up; f.size rounds are enough for it.
LEMMA SplitUnfolds ==
    ASSUME NEW max \in Nat, max > 0, NEW acc \in Kept(max), NEW f \in File
    PROVE  \E h : /\ h[0] = [acc EXCEPT !.offset = 0]
                  /\ \A k \in 1 .. f.size : h[k] = SplitNext(h[k - 1], f, max)
                  /\ h[f.size] = AddSplit(acc, f, max)
<1> DEFINE n == f.size
           Y == Kept(max)
           base == [acc EXCEPT !.offset = 0]
           F == [ss \in Y \X (1 .. n) |-> SplitNext(ss[1], f, max)]
           one == [i \in 1 .. f.size |-> i]
           g == CHOOSE e : IsSplit(e, acc, f, max)
           h == [k \in 0 .. n |-> g[1 .. k]]
<1>0. n \in Nat  BY DEF File
<1>1. \A x \in Y, i \in 1 .. n : F[<<x, i>>] = SplitNext(x, f, max)  OBVIOUS
<1>2. \A x \in Y, i \in 1 .. n : F[<<x, i>>] \in Y
  <2> TAKE x \in Y, i \in 1 .. n
  <2>1. x.offset < f.size => AddChunk(x, f, max) \in Y  BY ChunkAdds, Zenon
  <2>2. SplitNext(x, f, max) \in Y  BY <2>1 DEF SplitNext
  <2> QED  BY <1>1, <2>2
<1>3. base \in Y
  <2>1. acc \in Acc /\ Within(acc, max)  BY DEF Kept
  <2>2. base \in Acc /\ base.done = acc.done /\ base.cur = acc.cur  BY <2>1 DEF Acc
  <2> HIDE DEF base
  <2> QED  BY <2>1, <2>2 DEF Kept, Within
<1>4. DOMAIN one = 1 .. n  OBVIOUS
<1>5. AddSplit(acc, f, max) = g[1 .. n]
  BY Zenon DEF AddSplit, FoldLeft, MapThenFoldSet, IsSplit, SplitStep, SplitNext
<1> HIDE DEF F, n, Y, base, g
<1>6. \E e : IsSplit(e, acc, f, max)
  <2>0. PICK e : (\A T \in SUBSET (1 .. n) : e[T] \in Y) /\ FoldsOver(e, F, base, n)
    BY <1>0, <1>2, <1>3, FoldOver
  <2>1. e = [T \in SUBSET (1 .. n) |-> IF T = {} THEN base ELSE F[<<e[T \ {Max(T)}], Max(T)>>]]
    BY <2>0 DEF FoldsOver
  <2>2. \A T \in SUBSET (1 .. n) :
            (IF T = {} THEN base ELSE F[<<e[T \ {Max(T)}], Max(T)>>]) = SplitStep(e, acc, f, max, T)
    <3> TAKE T \in SUBSET (1 .. n)
    <3>1. CASE T = {}  BY <3>1 DEF SplitStep, base
    <3>2. CASE T # {}
      <4>1. T \in SUBSET (0 .. n)  OBVIOUS
      <4>2. Max(T) \in 1 .. n  BY <1>0, <3>2, <4>1, MaxOfBounded
      <4> QED  BY <1>1, <2>0, <3>2, <4>2 DEF SplitStep
    <3> QED  BY <3>1, <3>2
  <2>3. e = [T \in SUBSET (1 .. n) |-> SplitStep(e, acc, f, max, T)]  BY <2>1, <2>2
  <2> QED  BY <2>3 DEF IsSplit, n
<1>7. g = [T \in SUBSET (1 .. n) |-> SplitStep(g, acc, f, max, T)]
  BY <1>6 DEF g, IsSplit, n
<1>8. g[1 .. 0] = base
  <2>1. 1 .. 0 = {} /\ 1 .. 0 \in SUBSET (1 .. n)  OBVIOUS
  <2> QED  BY <1>7, <2>1 DEF SplitStep, base
<1>9. ASSUME NEW k \in 1 .. n PROVE g[1 .. k] = SplitNext(g[1 .. k - 1], f, max)
  <2>1. /\ 1 .. k \in SUBSET (1 .. n) /\ 1 .. k # {} /\ Max(1 .. k) = k
        /\ (1 .. k) \ {k} = 1 .. k - 1
    BY <1>0, UpToEach
  <2>2. g[1 .. k] = SplitStep(g, acc, f, max, 1 .. k)  BY <1>7, <2>1
  <2> QED  BY <2>1, <2>2 DEF SplitStep
<1>10. ASSUME NEW k \in 1 .. n PROVE h[k] = SplitNext(h[k - 1], f, max)
  <2>1. k \in 0 .. n /\ k - 1 \in 0 .. n  BY <1>0
  <2> QED  BY <1>9, <2>1
<1>11. h[0] = base /\ h[n] = AddSplit(acc, f, max)  BY <1>0, <1>5, <1>8
<1> HIDE DEF h
<1> QED  BY <1>10, <1>11 DEF n, base

\* After k rounds: at least k bytes, and what there was before.
SplitSoFar(acc, f, max, k, a) ==
    /\ a \in Kept(max) /\ Text(a) \in Seq(Seg)
    /\ k <= a.offset /\ a.offset <= f.size
    /\ Said(Text(a)) = Said(Text(acc)) \o Bytes(f.file, 1, a.offset)
    /\ FilesOf(Text(a)) = FilesOf(Text(acc)) \cup IF a.offset > 0 THEN {f.file} ELSE {}
    /\ ToSet(Text(a)) \subseteq ToSet(Text(acc)) \cup SegsOf(f, max)

\* The segments so far are segments.
LEMMA TextTyped == ASSUME NEW acc \in Acc PROVE Text(acc) \in Seq(Seg)
<1>1. acc.done \in Seq(Seq(Seg)) /\ acc.cur \in Seq(Seg)  BY DEF Acc
<1> DEFINE z == [file |-> 0, offset |-> 0, size |-> 0]
<1>2. z \in Seg  BY DEF Seg
<1> HIDE DEF z
<1>3. /\ Concat(acc.done) \o Append(acc.cur, z) = Append(Concat(acc.done) \o acc.cur, z)
      /\ Concat(Append(acc.done, acc.cur)) \o <<>> = Concat(acc.done) \o acc.cur
      /\ Concat(acc.done) \o acc.cur \in Seq(Seg)
  BY <1>1, <1>2, ConcatJoined, Zenon
<1> QED  BY <1>3 DEF Text

\* What a list of segments says are bytes.
LEMMA SaidTyped == ASSUME NEW t \in Seq(Seg) PROVE Said(t) \in Seq(Byte)
<1> DEFINE z == [file |-> 0, offset |-> 0, size |-> 0]
<1>1. z \in Seg  BY DEF Seg
<1> HIDE DEF z
<1> QED  BY <1>1, SaidSnoc

\* A round gets at least one byte further, or the file is through.
LEMMA SplitGoesOn ==
    ASSUME NEW max \in Nat, max > 0, NEW acc \in Kept(max), NEW f \in File, max < f.size,
           NEW k \in Nat, NEW a, SplitSoFar(acc, f, max, k, a)
    PROVE  SplitSoFar(acc, f, max, k + 1, SplitNext(a, f, max)) \/ a.offset = f.size
<1>1. f.file \in Nat /\ f.size \in Nat  BY DEF File
<1>2. /\ a \in Kept(max) /\ Text(a) \in Seq(Seg) /\ k <= a.offset /\ a.offset <= f.size
      /\ Said(Text(a)) = Said(Text(acc)) \o Bytes(f.file, 1, a.offset)
      /\ FilesOf(Text(a)) = FilesOf(Text(acc)) \cup IF a.offset > 0 THEN {f.file} ELSE {}
      /\ ToSet(Text(a)) \subseteq ToSet(Text(acc)) \cup SegsOf(f, max)
  BY DEF SplitSoFar
<1>3. a.offset \in Nat /\ Text(acc) \in Seq(Seg)
  <2>1. a \in Acc /\ acc \in Acc  BY <1>2 DEF Kept
  <2> QED  BY <2>1, TextTyped DEF Acc
<1>4. SUFFICES ASSUME a.offset < f.size
               PROVE  SplitSoFar(acc, f, max, k + 1, SplitNext(a, f, max))
  BY <1>1, <1>2, <1>3
<1> DEFINE new == AddChunk(a, f, max)
<1>5. SplitNext(a, f, max) = new  BY <1>4 DEF SplitNext
<1>6. /\ new \in Kept(max)
      /\ \E c \in 1 .. f.size - a.offset :
            LET x == [file |-> f.file, offset |-> a.offset, size |-> c]
            IN  x \in Seg /\ new.offset = a.offset + c /\ Text(new) = Append(Text(a), x)
  BY <1>2, <1>4, ChunkAdds
<1> HIDE DEF new
<1>7. PICK c \in 1 .. f.size - a.offset :
            LET x == [file |-> f.file, offset |-> a.offset, size |-> c]
            IN  x \in Seg /\ new.offset = a.offset + c /\ Text(new) = Append(Text(a), x)
  BY <1>6
<1> DEFINE x == [file |-> f.file, offset |-> a.offset, size |-> c]
<1>8. x.file = f.file /\ x.offset = a.offset /\ x.size = c  OBVIOUS
<1>9. x \in Seg /\ new.offset = a.offset + c /\ Text(new) = Append(Text(a), x)  BY <1>7
<1> HIDE DEF x
<1>10. /\ Said(Text(a)) \in Seq(Byte)
       /\ Said(Text(new)) = Said(Text(a)) \o SegBytes(x)
       /\ FilesOf(Text(new)) = FilesOf(Text(a)) \cup {x.file}
       /\ ToSet(Text(new)) = ToSet(Text(a)) \cup {x}
  BY <1>2, <1>9, SaidSnoc
<1>11. c \in Nat /\ c > 0 /\ a.offset + c <= f.size /\ k + 1 <= a.offset + c
       /\ a.offset + c \in Nat
  BY <1>1, <1>2, <1>3
<1> DEFINE p == Said(Text(acc))
           q == Bytes(f.file, 1, a.offset)
           r == Bytes(f.file, a.offset + 1, a.offset + c)
           e == Bytes(f.file, 1, a.offset + c)
<1>12. r \in Seq(Byte) /\ q \o r = e  BY <1>1, <1>3, <1>11, BytesJoin
<1>13. q \in Seq(Byte)
  <2>1. Bytes(f.file, 0 + 1, 0 + a.offset) \in Seq(Byte)  BY <1>1, <1>3, BytesJoin
  <2>2. 0 + 1 = 1 /\ 0 + a.offset = a.offset  BY <1>3
  <2> QED  BY <2>1, <2>2
<1>14. p \in Seq(Byte)  BY <1>3, SaidTyped
<1>15. SegBytes(x) = r  BY <1>8 DEF SegBytes
<1> HIDE DEF p, q, r, e
<1>16. (p \o q) \o r = p \o (q \o r)
  <2>1. r \in Seq(Byte)  BY <1>12
  <2> QED  BY <1>13, <1>14, <2>1, ConcatAssociative
<1>17. Said(Text(new)) = p \o e  BY <1>2, <1>10, <1>12, <1>15, <1>16 DEF p, q
<1>18. FilesOf(Text(new)) = FilesOf(Text(acc)) \cup IF new.offset > 0 THEN {f.file} ELSE {}
  BY <1>2, <1>3, <1>8, <1>9, <1>10, <1>11
<1>19. Text(new) \in Seq(Seg)
  <2>1. new \in Acc  BY <1>6 DEF Kept
  <2> QED  BY <2>1, TextTyped
<1>20. ToSet(Text(new)) \subseteq ToSet(Text(acc)) \cup SegsOf(f, max)
  <2>1. x \in SegsOf(f, max)  BY <1>8, <1>9 DEF SegsOf
  <2> QED  BY <1>2, <1>10, <2>1
<1> QED  BY <1>5, <1>6, <1>9, <1>11, <1>17, <1>18, <1>19, <1>20 DEF SplitSoFar, p, e

\* What a file adds: its bytes, all of them, behind the others.
Adds(acc, f, max, new) ==
    /\ new \in Kept(max) /\ Text(new) \in Seq(Seg)
    /\ Said(Text(new)) = Said(Text(acc)) \o Bytes(f.file, 1, f.size)
    /\ FilesOf(Text(new)) = FilesOf(Text(acc)) \cup {f.file}
    /\ ToSet(Text(new)) \subseteq ToSet(Text(acc)) \cup SegsOf(f, max)

\* The rounds add the file.
LEMMA SplitAdds ==
    ASSUME NEW max \in Nat, max > 0, NEW acc \in Kept(max), NEW f \in File, max < f.size
    PROVE  Adds(acc, f, max, AddSplit(acc, f, max))
<1> DEFINE n == f.size
           base == [acc EXCEPT !.offset = 0]
<1>0. n \in Nat /\ f.file \in Nat  BY DEF File
<1>1. PICK h : /\ h[0] = base
               /\ \A k \in 1 .. n : h[k] = SplitNext(h[k - 1], f, max)
               /\ h[n] = AddSplit(acc, f, max)
  BY SplitUnfolds
<1>2. SplitSoFar(acc, f, max, 0, base)
  <2>1. acc \in Acc /\ Within(acc, max)  BY DEF Kept
  <2>2. base \in Acc /\ base.done = acc.done /\ base.cur = acc.cur /\ base.offset = 0
    BY <2>1 DEF Acc
  <2> HIDE DEF base
  <2>3. base \in Kept(max) /\ Text(base) = Text(acc)  BY <2>1, <2>2 DEF Kept, Within, Text
  <2>4. Text(acc) \in Seq(Seg)  BY <2>1, TextTyped
  <2>5. Said(Text(acc)) \in Seq(Byte)  BY <2>4, SaidTyped
  <2>6. Bytes(f.file, 1, 0) = <<>>  BY DEF Bytes
  <2> DEFINE p == Said(Text(acc))
  <2> HIDE DEF p
  <2>7. p \o <<>> = p  BY <2>5 DEF p
  <2>8. Said(Text(base)) = Said(Text(acc)) \o Bytes(f.file, 1, base.offset)
    BY <2>2, <2>3, <2>6, <2>7 DEF p
  <2> QED  BY <1>0, <2>2, <2>3, <2>4, <2>8 DEF SplitSoFar
<1> HIDE DEF base
<1> DEFINE P(k) == \E m \in k .. n : SplitSoFar(acc, f, max, m, h[k])
           U == {k \in 0 .. n : ~P(k)}
<1>3. U = {}
  <2> SUFFICES ASSUME U # {} PROVE FALSE  OBVIOUS
  <2>1. PICK k \in U : \A m \in U : k <= m
    <3>1. U \in SUBSET Nat  OBVIOUS
    <3> HIDE DEF U
    <3> QED  BY <3>1, LeastNat
  <2>2. k \in 0 .. n /\ ~P(k)  BY <2>1
  <2>3. k # 0
    <3>1. 0 \in 0 .. n  BY <1>0
    <3> QED  BY <1>1, <1>2, <2>2, <3>1
  <2>4. k \in 1 .. n /\ k - 1 \in 0 .. n /\ k - 1 \notin U  BY <1>0, <2>1, <2>2, <2>3
  <2>5. PICK m \in k - 1 .. n : SplitSoFar(acc, f, max, m, h[k - 1])  BY <2>4
  <2>6. h[k] = SplitNext(h[k - 1], f, max)  BY <1>1, <2>4
  <2>7. m \in Nat  BY <1>0, <2>4, <2>5
  <2> DEFINE a == h[k - 1]
             new == SplitNext(a, f, max)
  <2>8. SplitSoFar(acc, f, max, m, a)  BY <2>5
  <2>9. SplitSoFar(acc, f, max, m + 1, new) \/ a.offset = n
    <3> HIDE DEF a, P, U
    <3> QED  BY <2>7, <2>8, SplitGoesOn
  <2> HIDE DEF a, new
  <2>10. CASE SplitSoFar(acc, f, max, m + 1, new)
    <3>1. m + 1 <= new.offset /\ new.offset <= n  BY <2>10 DEF SplitSoFar
    <3>2. new.offset \in Nat
      <4>1. new \in Acc  BY <2>10 DEF SplitSoFar, Kept
      <4> QED  BY <4>1 DEF Acc
    <3>3. m + 1 \in k .. n  BY <1>0, <2>2, <2>5, <2>7, <3>1, <3>2
    <3> QED  BY <2>2, <2>6, <2>10, <3>3 DEF new, a
  <2>11. CASE a.offset = n
    <3>1. new = a  BY <1>0, <2>11 DEF new, SplitNext
    <3>2. SplitSoFar(acc, f, max, n, a)  BY <1>0, <2>8, <2>11 DEF SplitSoFar
    <3>3. n \in k .. n  BY <1>0, <2>2
    <3>4. h[k] = a  BY <2>6, <3>1 DEF new, a
    <3> QED  BY <2>2, <3>2, <3>3, <3>4
  <2> QED  BY <2>9, <2>10, <2>11
<1>4. P(n)
  <2>1. n \in 0 .. n /\ n \notin U  BY <1>0, <1>3
  <2> QED  BY <2>1
<1> DEFINE new == h[n]
<1>5. SplitSoFar(acc, f, max, n, new)
  <2>1. PICK m \in n .. n : SplitSoFar(acc, f, max, m, h[n])  BY <1>4
  <2>2. m = n  BY <1>0, <2>1
  <2> QED  BY <2>1, <2>2
<1> HIDE DEF new
<1>6. new.offset = n /\ n > 0
  <2>1. new \in Acc  BY <1>5 DEF SplitSoFar, Kept
  <2>2. new.offset \in Nat  BY <2>1 DEF Acc
  <2> QED  BY <1>0, <1>5, <2>2 DEF SplitSoFar
<1>7. Adds(acc, f, max, new)  BY <1>5, <1>6 DEF SplitSoFar, Adds
<1> QED  BY <1>1, <1>7 DEF new

\* Whatever its size.
LEMMA FileAdds ==
    ASSUME NEW max \in Nat, NEW acc \in Kept(max), NEW f \in File
    PROVE  Adds(acc, f, max, AddFile(acc, f, max))
<1>1. f.file \in Nat /\ f.size \in Nat  BY DEF File
<1>2. CASE max = 0 \/ f.size <= max
  <2> DEFINE new == AddWhole(acc, f, max)
             x   == [file |-> f.file, offset |-> 0, size |-> f.size]
  <2>1. acc \in Acc /\ Within(acc, max)  BY DEF Kept
  <2>2. /\ new \in Acc /\ Within(new, max) /\ x \in Seg
        /\ Text(acc) \in Seq(Seg) /\ Text(new) = Append(Text(acc), x)
    BY <1>2, <2>1, WholeAdds
  <2>3. AddFile(acc, f, max) = new  BY <1>2 DEF AddFile
  <2>4. x.file = f.file /\ x.offset + 1 = 1 /\ x.offset + x.size = f.size /\ x.size = f.size
    BY <1>1
  <2> HIDE DEF new, x
  <2>5. /\ Said(Append(Text(acc), x)) = Said(Text(acc)) \o SegBytes(x)
        /\ FilesOf(Append(Text(acc), x)) = FilesOf(Text(acc)) \cup {x.file}
        /\ ToSet(Append(Text(acc), x)) = ToSet(Text(acc)) \cup {x}
    BY <2>2, SaidSnoc
  <2>6. SegBytes(x) = Bytes(f.file, 1, f.size)  BY <2>4 DEF SegBytes
  <2>7. Text(new) \in Seq(Seg)  BY <2>2, TextTyped
  <2>8. ToSet(Text(new)) \subseteq ToSet(Text(acc)) \cup SegsOf(f, max)
    <3>1. x \in SegsOf(f, max)  BY <2>2, <2>4 DEF SegsOf
    <3> QED  BY <2>2, <2>5, <3>1
  <2>9. new \in Kept(max)  BY <2>2 DEF Kept
  <2> QED  BY <2>2, <2>3, <2>4, <2>5, <2>6, <2>7, <2>8, <2>9 DEF Adds
<1>3. CASE ~(max = 0 \/ f.size <= max)
  <2>1. max > 0 /\ max < f.size  BY <1>1, <1>3
  <2>2. AddFile(acc, f, max) = AddSplit(acc, f, max)  BY <1>3 DEF AddFile
  <2> QED  BY <2>1, <2>2, SplitAdds
<1> QED  BY <1>2, <1>3

(***************************************************************************)
(* All files                                                               *)
(***************************************************************************)

\* Where GenerateShardDefs begins, and the function of its fold.
Fresh == [done |-> <<>>, cur |-> <<>>, offset |-> 0]

GenStep(g, files, max, T) ==
    IF T = {} THEN Fresh ELSE AddFile(g[T \ {Max(T)}], files[Max(T)], max)

IsGen(g, files, max) == g = [T \in SUBSET DOMAIN files |-> GenStep(g, files, max, T)]

\* The beginning has nothing.
LEMMA FreshKept == ASSUME NEW max \in Nat PROVE Fresh \in Kept(max) /\ Text(Fresh) = <<>>
<1>1. <<>> \in Seq(Seq(Seg)) /\ <<>> \in Seq(Seg) /\ DOMAIN <<>> = {}  OBVIOUS
<1>2. Fresh \in Acc /\ Fresh.done = <<>> /\ Fresh.cur = <<>>  BY <1>1 DEF Fresh, Acc
<1>3. Within(Fresh, max)  BY <1>1, <1>2, TotalEmpty DEF Within
<1>4. Text(Fresh) = <<>>
  <2>1. <<>> \o <<>> = <<>>  OBVIOUS
  <2> QED  BY <1>2, <2>1, ConcatEmpty DEF Text
<1> QED  BY <1>2, <1>3, <1>4 DEF Kept

\* The fold of GenerateShardDefs runs through the files.
LEMMA GenUnfolds ==
    ASSUME NEW max \in Nat, NEW files \in Seq(File)
    PROVE  \E h : /\ h[0] = Fresh
                  /\ \A k \in 1 .. Len(files) : h[k] = AddFile(h[k - 1], files[k], max)
                  /\ Emit(h[Len(files)]).done = GenerateShardDefs(files, max)
<1> DEFINE n == Len(files)
           Y == Kept(max)
           F == [ss \in Y \X (1 .. n) |-> AddFile(ss[1], files[ss[2]], max)]
           g == CHOOSE e : IsGen(e, files, max)
           h == [k \in 0 .. n |-> g[1 .. k]]
<1>0. n \in Nat  OBVIOUS
<1>1. DOMAIN files = 1 .. n /\ \A i \in 1 .. n : files[i] \in File  OBVIOUS
<1>2. \A x \in Y, i \in 1 .. n : F[<<x, i>>] = AddFile(x, files[i], max)  OBVIOUS
<1>3. \A x \in Y, i \in 1 .. n : F[<<x, i>>] \in Y
  <2> TAKE x \in Y, i \in 1 .. n
  <2>1. Adds(x, files[i], max, AddFile(x, files[i], max))  BY <1>1, FileAdds
  <2> QED  BY <1>2, <2>1 DEF Adds
<1>4. Fresh \in Y  BY FreshKept
<1>5. GenerateShardDefs(files, max) = Emit(g[DOMAIN files]).done
  BY Zenon DEF GenerateShardDefs, FoldLeft, MapThenFoldSet, IsGen, GenStep, Fresh
<1> HIDE DEF F, n, Y, g
<1>6. \E e : IsGen(e, files, max)
  <2>0. PICK e : (\A T \in SUBSET (1 .. n) : e[T] \in Y) /\ FoldsOver(e, F, Fresh, n)
    BY <1>0, <1>3, <1>4, FoldOver
  <2>1. e = [T \in SUBSET (1 .. n) |-> IF T = {} THEN Fresh ELSE F[<<e[T \ {Max(T)}], Max(T)>>]]
    BY <2>0 DEF FoldsOver
  <2>2. \A T \in SUBSET (1 .. n) :
            (IF T = {} THEN Fresh ELSE F[<<e[T \ {Max(T)}], Max(T)>>]) = GenStep(e, files, max, T)
    <3> TAKE T \in SUBSET (1 .. n)
    <3>1. CASE T = {}  BY <3>1 DEF GenStep
    <3>2. CASE T # {}
      <4>1. T \in SUBSET (0 .. n)  OBVIOUS
      <4>2. Max(T) \in 1 .. n  BY <1>0, <3>2, <4>1, MaxOfBounded
      <4> QED  BY <1>2, <2>0, <3>2, <4>2 DEF GenStep
    <3> QED  BY <3>1, <3>2
  <2>3. e = [T \in SUBSET (1 .. n) |-> GenStep(e, files, max, T)]  BY <2>1, <2>2
  <2> QED  BY <1>1, <2>3 DEF IsGen
<1>7. g = [T \in SUBSET (1 .. n) |-> GenStep(g, files, max, T)]  BY <1>1, <1>6 DEF g, IsGen
<1>8. g[1 .. 0] = Fresh
  <2>1. 1 .. 0 = {} /\ 1 .. 0 \in SUBSET (1 .. n)  OBVIOUS
  <2> QED  BY <1>7, <2>1 DEF GenStep
<1>9. ASSUME NEW k \in 1 .. n PROVE g[1 .. k] = AddFile(g[1 .. k - 1], files[k], max)
  <2>1. /\ 1 .. k \in SUBSET (1 .. n) /\ 1 .. k # {} /\ Max(1 .. k) = k
        /\ (1 .. k) \ {k} = 1 .. k - 1
    BY <1>0, UpToEach
  <2>2. g[1 .. k] = GenStep(g, files, max, 1 .. k)  BY <1>7, <2>1
  <2> QED  BY <2>1, <2>2 DEF GenStep
<1>10. ASSUME NEW k \in 1 .. n PROVE h[k] = AddFile(h[k - 1], files[k], max)
  <2>1. k \in 0 .. n /\ k - 1 \in 0 .. n  BY <1>0
  <2> QED  BY <1>9, <2>1
<1>11. h[0] = Fresh /\ Emit(h[n]).done = GenerateShardDefs(files, max)
  BY <1>0, <1>1, <1>5, <1>8
<1> HIDE DEF h
<1> QED  BY <1>10, <1>11 DEF n

\* What the files are.
Whole(files) == [i \in DOMAIN files |-> Bytes(files[i].file, 1, files[i].size)]

\* Files are bytes.
LEMMA WholeTyped == ASSUME NEW files \in Seq(File) PROVE Whole(files) \in Seq(Seq(Byte))
<1>1. /\ Len(files) \in Nat /\ DOMAIN files = 1 .. Len(files)
      /\ \A i \in 1 .. Len(files) : files[i] \in File
  OBVIOUS
<1>2. ASSUME NEW f \in File PROVE Bytes(f.file, 1, f.size) \in Seq(Byte)
  <2>1. f.file \in Nat /\ f.size \in Nat  BY DEF File
  <2>2. Bytes(f.file, 0 + 1, 0 + f.size) \in Seq(Byte)  BY <2>1, BytesJoin
  <2>3. 0 + 1 = 1 /\ 0 + f.size = f.size  BY <2>1
  <2> QED  BY <2>2, <2>3
<1>3. Whole(files) \in [1 .. Len(files) -> Seq(Byte)]  BY <1>1, <1>2 DEF Whole
<1> QED  BY <1>1, <1>3

\* The definitions say the bytes of the files, of each file some, a file that fits
\* as a whole, and every one of them is within the limit and not empty.
DefsRight(files, max, defs) ==
    /\ defs \in Seq(Seq(Seg))
    /\ Said(Concat(defs)) = Concat(Whole(files))
    /\ FilesOf(Concat(defs)) = FilesOf(files)
    /\ ToSet(Concat(defs)) \subseteq UNION {SegsOf(files[i], max) : i \in DOMAIN files}
    /\ \A i \in DOMAIN defs : defs[i] # <<>> /\ (max > 0 => Total(defs[i]) <= max)

\* So GenerateShardDefs does, for every list of files and every limit.
LEMMA DefsAreRight ==
    ASSUME NEW max \in Nat, NEW files \in Seq(File)
    PROVE  DefsRight(files, max, GenerateShardDefs(files, max))
<1> DEFINE n == Len(files)
           parts == Whole(files)
<1>n. n \in Nat  OBVIOUS
<1>0. n \in Nat /\ DOMAIN files = 1 .. n /\ \A i \in 1 .. n : files[i] \in File  OBVIOUS
<1>1. PICK h : /\ h[0] = Fresh
               /\ \A k \in 1 .. n : h[k] = AddFile(h[k - 1], files[k], max)
               /\ Emit(h[n]).done = GenerateShardDefs(files, max)
  BY GenUnfolds
<1>2. parts \in Seq(Seq(Byte))  BY WholeTyped
<1>3. Len(parts) = n /\ \A k \in 1 .. n : parts[k] = Bytes(files[k].file, 1, files[k].size)
  BY <1>0 DEF Whole
<1> HIDE DEF parts
<1>4. PICK c : ConcatRun(c, parts) /\ c[n] = Concat(parts)
  BY <1>2, <1>3, ConcatUnfolds
<1> HIDE DEF n
<1> DEFINE P(k) == /\ h[k] \in Kept(max) /\ Text(h[k]) \in Seq(Seg)
                   /\ Said(Text(h[k])) = c[k]
                   /\ FilesOf(Text(h[k])) = {files[i].file : i \in 1 .. k}
                   /\ ToSet(Text(h[k])) \subseteq UNION {SegsOf(files[i], max) : i \in 1 .. k}
           U == {k \in 0 .. n : ~P(k)}
<1>5. P(0)
  <2>1. h[0] \in Kept(max) /\ Text(h[0]) = <<>>  BY <1>1, FreshKept
  <2>2. Said(<<>>) = <<>> /\ FilesOf(<<>>) = {} /\ ToSet(<<>>) = {}
    <3>1. DOMAIN <<>> = {} /\ [i \in {} |-> SegBytes(<<>>[i])] = <<>>  OBVIOUS
    <3> QED  BY <3>1, ConcatEmpty DEF Said, FilesOf, ToSet
  <2>3. c[0] = <<>>  BY <1>4 DEF ConcatRun
  <2>4. <<>> \in Seq(Seg) /\ {files[i].file : i \in 1 .. 0} = {}  OBVIOUS
  <2> QED  BY <2>1, <2>2, <2>3, <2>4
<1>6. U = {}
  <2> SUFFICES ASSUME U # {} PROVE FALSE  OBVIOUS
  <2>1. PICK k \in U : \A m \in U : k <= m
    <3>1. U \in SUBSET Nat  OBVIOUS
    <3> HIDE DEF U
    <3> QED  BY <3>1, LeastNat
  <2>2. k \in 0 .. n /\ ~P(k)  BY <2>1
  <2>3. k # 0  BY <1>5, <2>2
  <2>4. k \in 1 .. n /\ k - 1 \in 0 .. n /\ k - 1 \notin U
    <3>1. k \in 0 .. n  BY <2>2
    <3>2. k \in 1 .. n /\ k - 1 \in 0 .. n /\ ~(k <= k - 1)  BY <1>n, <2>3, <3>1
    <3> HIDE DEF U
    <3> QED  BY <2>1, <3>2
  <2>5. P(k - 1)  BY <2>4
  <2> DEFINE a == h[k - 1]
             f == files[k]
  <2>6. /\ a \in Kept(max) /\ Text(a) \in Seq(Seg) /\ Said(Text(a)) = c[k - 1]
        /\ FilesOf(Text(a)) = {files[i].file : i \in 1 .. k - 1}
        /\ ToSet(Text(a)) \subseteq UNION {SegsOf(files[i], max) : i \in 1 .. k - 1}
    BY <2>5
  <2>7. h[k] = AddFile(a, f, max) /\ f \in File  BY <1>0, <1>1, <2>4
  <2>8. c[k] = c[k - 1] \o Bytes(f.file, 1, f.size)  BY <1>3, <1>4, <2>4 DEF ConcatRun
  <2> HIDE DEF a, P, U
  <2>9. Adds(a, f, max, AddFile(a, f, max))  BY <2>6, <2>7, FileAdds
  <2>10. {files[i].file : i \in 1 .. k} = {files[i].file : i \in 1 .. k - 1} \cup {f.file}
    <3>1. 1 .. k = (1 .. k - 1) \cup {k}  BY <2>4
    <3> QED  BY <3>1
  <2>11. UNION {SegsOf(files[i], max) : i \in 1 .. k}
           = (UNION {SegsOf(files[i], max) : i \in 1 .. k - 1}) \cup SegsOf(f, max)
    <3>1. 1 .. k = (1 .. k - 1) \cup {k}  BY <2>4
    <3> QED  BY <3>1
  <2> HIDE DEF f
  <2> DEFINE new == AddFile(a, f, max)
  <2> HIDE DEF new
  <2>12. /\ new \in Kept(max) /\ Text(new) \in Seq(Seg) /\ h[k] = new
         /\ Said(Text(new)) = c[k]
         /\ FilesOf(Text(new)) = {files[i].file : i \in 1 .. k}
         /\ ToSet(Text(new)) \subseteq UNION {SegsOf(files[i], max) : i \in 1 .. k}
    <3>1. /\ new \in Kept(max) /\ Text(new) \in Seq(Seg)
          /\ Said(Text(new)) = Said(Text(a)) \o Bytes(f.file, 1, f.size)
          /\ FilesOf(Text(new)) = FilesOf(Text(a)) \cup {f.file}
          /\ ToSet(Text(new)) \subseteq ToSet(Text(a)) \cup SegsOf(f, max)
      BY <2>9 DEF Adds, new
    <3>2. ToSet(Text(new)) \subseteq UNION {SegsOf(files[i], max) : i \in 1 .. k}
      BY <2>6, <2>11, <3>1
    <3> QED  BY <2>6, <2>7, <2>8, <2>10, <3>1, <3>2 DEF new
  <2>13. P(k)  BY <2>12 DEF P
  <2> QED  BY <2>2, <2>13
<1>7. P(n)
  <2>1. n \in 0 .. n  BY <1>n
  <2>2. \A k \in 0 .. n : P(k)
    <3> HIDE DEF P
    <3> QED  BY <1>6
  <2> QED  BY <2>1, <2>2
<1> DEFINE last == h[n]
           defs == Emit(last).done
<1>8. /\ last \in Kept(max) /\ Said(Text(last)) = c[n]
      /\ FilesOf(Text(last)) = {files[i].file : i \in 1 .. n}
      /\ ToSet(Text(last)) \subseteq UNION {SegsOf(files[i], max) : i \in 1 .. n}
  BY <1>7
<1> HIDE DEF P, last
<1>9. /\ Emit(last) \in Acc /\ Emit(last).cur = <<>> /\ Text(Emit(last)) = Text(last)
      /\ Within(Emit(last), max)
  BY <1>8, EmitKeeps DEF Kept
<1>10. defs \in Seq(Seq(Seg))  BY <1>9 DEF Acc
<1>11. Text(Emit(last)) = Concat(defs)
  <2>1. <<>> \in Seq(Seg)  OBVIOUS
  <2>2. Concat(defs) \in Seq(Seg)
    BY <1>10, <2>1, ConcatSnoc
  <2>3. Text(Emit(last)) = Concat(defs) \o <<>>  BY <1>9 DEF Text
  <2> QED  BY <2>2, <2>3
<1>12. \A i \in DOMAIN defs : defs[i] # <<>> /\ (max > 0 => Total(defs[i]) <= max)
  BY <1>9 DEF Within
<1>13. /\ FilesOf(files) = {files[i].file : i \in 1 .. n}
       /\ UNION {SegsOf(files[i], max) : i \in DOMAIN files} = UNION {SegsOf(files[i], max) : i \in 1 .. n}
  BY <1>0 DEF FilesOf
<1>14. GenerateShardDefs(files, max) = defs  BY <1>1 DEF last
<1> HIDE DEF defs
<1> QED  BY <1>4, <1>8, <1>9, <1>10, <1>11, <1>12, <1>13, <1>14 DEF DefsRight, parts

(***************************************************************************)
(* Where the bytes of an entry are in a shard file                         *)
(***************************************************************************)

\* What the run has at i it has at every k up to n.
Keeps(h, i, n) ==
    \A k \in i .. n : Len(h[i]) <= Len(h[k]) /\ \A x \in 1 .. Len(h[i]) : h[k][x] = h[i][x]

\* What a run has at some length it keeps at every greater one.
LEMMA RunKeeps ==
    ASSUME NEW X, NEW s \in Seq(Seq(X)), NEW h, ConcatRun(h, s),
           \A k \in 0 .. Len(s) : h[k] \in Seq(X), NEW i \in 0 .. Len(s)
    PROVE  Keeps(h, i, Len(s))
<1> DEFINE n == Len(s)
           P(k) == Len(h[i]) <= Len(h[k]) /\ \A x \in 1 .. Len(h[i]) : h[k][x] = h[i][x]
           U == {k \in i .. n : ~P(k)}
<1>0. n \in Nat /\ i \in Nat /\ i <= n  OBVIOUS
<1>1. ASSUME NEW k \in 1 .. n
      PROVE  /\ h[k - 1] \in Seq(X) /\ Len(h[k - 1]) <= Len(h[k])
             /\ \A x \in 1 .. Len(h[k - 1]) : h[k][x] = h[k - 1][x]
  <2> DEFINE a == h[k - 1]
             b == s[k]
  <2>1. k - 1 \in 0 .. n  BY <1>0
  <2>2. a \in Seq(X) /\ b \in Seq(X)  BY <2>1
  <2>3. h[k] = a \o b  BY DEF ConcatRun
  <2> HIDE DEF a, b
  <2>4. Len(a \o b) = Len(a) + Len(b) /\ \A x \in 1 .. Len(a) : (a \o b)[x] = a[x]
    BY <2>2
  <2>5. Len(a) \in Nat /\ Len(b) \in Nat  BY <2>2
  <2> QED  BY <2>2, <2>3, <2>4, <2>5 DEF a
<1>2. h[i] \in Seq(X)  OBVIOUS
<1>3. Len(h[i]) \in Nat  BY <1>2
<1>4. U = {}
  <2> SUFFICES ASSUME U # {} PROVE FALSE  OBVIOUS
  <2>1. PICK k \in U : \A m \in U : k <= m
    <3>1. U \in SUBSET Nat  BY <1>0
    <3> HIDE DEF U
    <3> QED  BY <3>1, LeastNat
  <2>2. k \in i .. n /\ ~P(k)  BY <2>1
  <2>3. k # i  BY <1>3, <2>2
  <2>4. k \in 1 .. n /\ k - 1 \in i .. n /\ ~(k <= k - 1)  BY <1>0, <2>2, <2>3
  <2>5. P(k - 1)
    <3> HIDE DEF P
    <3> QED  BY <2>1, <2>4
  <2>6. /\ h[k - 1] \in Seq(X) /\ Len(h[k - 1]) <= Len(h[k])
        /\ \A x \in 1 .. Len(h[k - 1]) : h[k][x] = h[k - 1][x]
    BY <1>1, <2>4
  <2>7. Len(h[k - 1]) \in Nat /\ Len(h[k]) \in Nat
    <3>1. h[k - 1] \in Seq(X) /\ h[k] \in Seq(X)
      <4>1. k \in 0 .. n  BY <2>4
      <4> QED  BY <2>6, <4>1
    <3> QED  BY <3>1
  <2>8. P(k)  BY <1>3, <2>5, <2>6, <2>7
  <2> QED  BY <2>2, <2>8
<1> HIDE DEF P
<1>5. \A k \in i .. n : P(k)  BY <1>4
<1> QED  BY <1>5 DEF P, Keeps

\* What is in front of part i.
PartsBefore(s, i) == [j \in 1 .. i - 1 |-> s[j]]

\* c holds d from behind the first o elements on.
Holds(c, d, o) ==
    o \in Nat /\ o + Len(d) <= Len(c) /\ \A x \in 1 .. Len(d) : c[o + x] = d[x]

\* Behind the parts before it, a concatenation has the elements of part i.
LEMMA PartFound ==
    ASSUME NEW X, NEW s \in Seq(Seq(X)), NEW i \in 1 .. Len(s)
    PROVE  /\ Concat(s) \in Seq(X) /\ s[i] \in Seq(X)
           /\ Holds(Concat(s), s[i], Len(Concat(PartsBefore(s, i))))
<1> DEFINE n == Len(s)
           t == PartsBefore(s, i)
           b == s[i]
<1>0. n \in Nat /\ i \in 1 .. n  OBVIOUS
<1> HIDE DEF n, t, b
<1>a. i - 1 \in 0 .. n /\ i \in 0 .. n /\ i \in Nat /\ i - 1 \in Nat  BY <1>0
<1>1. PICK h : /\ ConcatRun(h, s) /\ h[n] = Concat(s)
               /\ \A k \in 0 .. n : h[k] \in Seq(X)
  BY ConcatUnfolds DEF n
<1>2. t \in Seq(Seq(X)) /\ Len(t) = i - 1 /\ \A k \in 1 .. i - 1 : t[k] = s[k]
  <2>1. \A k \in 1 .. i - 1 : k \in 1 .. n  BY <1>0
  <2>2. \A k \in 1 .. n : s[k] \in Seq(X)  BY DEF n
  <2>3. t \in [1 .. i - 1 -> Seq(X)]  BY <2>1, <2>2 DEF t, PartsBefore
  <2>4. t \in Seq(Seq(X)) /\ Len(t) = i - 1  BY <1>a, <2>3
  <2>5. \A k \in 1 .. i - 1 : t[k] = s[k]  BY DEF t, PartsBefore
  <2> QED  BY <2>4, <2>5
<1>3. ConcatRun(h, t)
  <2>1. \A k \in 1 .. n : h[k] = h[k - 1] \o s[k]  BY <1>1 DEF ConcatRun, n
  <2>2. \A k \in 1 .. i - 1 : k \in 1 .. n  BY <1>0
  <2>3. \A k \in 1 .. i - 1 : h[k] = h[k - 1] \o t[k]  BY <1>2, <2>1, <2>2
  <2> QED  BY <1>1, <1>2, <2>3 DEF ConcatRun
<1>4. Concat(t) = h[i - 1]  BY <1>2, <1>3, ConcatIs
<1> DEFINE a == h[i - 1]
           c == h[n]
           d == h[i]
<1>5. a \in Seq(X) /\ d \in Seq(X) /\ c \in Seq(X)
  <2>1. n \in 0 .. n  BY <1>0
  <2> QED  BY <1>1, <1>a, <2>1
<1>6. b \in Seq(X)  BY <1>0 DEF n, b
<1>7. d = a \o b  BY <1>0, <1>1 DEF ConcatRun, b, n
<1>8. Len(d) <= Len(c) /\ \A x \in 1 .. Len(d) : c[x] = d[x]
  <2>1. \A k \in i .. n : Len(h[i]) <= Len(h[k]) /\ \A x \in 1 .. Len(h[i]) : h[k][x] = h[i][x]
    <3>1. ConcatRun(h, s) /\ \A k \in 0 .. Len(s) : h[k] \in Seq(X)  BY <1>1 DEF n
    <3>2. i \in 0 .. Len(s)  BY <1>a DEF n
    <3>3. Keeps(h, i, Len(s))  BY <3>1, <3>2, RunKeeps
    <3> QED  BY <3>3 DEF n, Keeps
  <2>2. n \in i .. n  BY <1>0
  <2> QED  BY <2>1, <2>2
<1> HIDE DEF a, c, d
<1>9. Len(a \o b) = Len(a) + Len(b) /\ \A x \in 1 .. Len(b) : (a \o b)[Len(a) + x] = b[x]
  BY <1>5, <1>6
<1>10. Len(a) \in Nat /\ Len(b) \in Nat /\ Len(c) \in Nat  BY <1>5, <1>6
<1>11. \A x \in 1 .. Len(b) : c[Len(a) + x] = b[x]
  <2> TAKE x \in 1 .. Len(b)
  <2>1. Len(a) + x \in 1 .. Len(a) + Len(b)  BY <1>10
  <2>2. Len(a) + x \in 1 .. Len(d) /\ d[Len(a) + x] = b[x]  BY <1>7, <1>9, <2>1
  <2> QED  BY <1>8, <2>2
<1>12. Len(a) + Len(b) <= Len(c)  BY <1>7, <1>8, <1>9
<1>13. Holds(c, b, Len(a))  BY <1>10, <1>11, <1>12 DEF Holds
<1> QED  BY <1>1, <1>4, <1>5, <1>6, <1>13 DEF a, b, c, t

\* From a to b, c has behind o what d has.
SamePiece(c, d, o, a, b) == SubSeq(c, o + a + 1, o + b) = SubSeq(d, a + 1, b)

\* A piece of what is held is the same piece of what holds it.
LEMMA PieceOf ==
    ASSUME NEW X, NEW c \in Seq(X), NEW d \in Seq(X), NEW o, Holds(c, d, o),
           NEW a \in Nat, NEW b \in Nat, a <= Len(d), b <= Len(d)
    PROVE  SamePiece(c, d, o, a, b)
<1>1. o \in Nat /\ Len(d) \in Nat /\ Len(c) \in Nat /\ o + Len(d) <= Len(c)  BY DEF Holds
<1>2. \A x \in 1 .. Len(d) : c[o + x] = d[x]  BY DEF Holds
<1>3. a \in Nat /\ b \in Nat /\ a <= Len(d) /\ b <= Len(d)  OBVIOUS
<1> DEFINE m == o + a + 1
           n == o + b
           u == SubSeq(c, m, n)
           v == SubSeq(d, a + 1, b)
<1>4. m \in Int /\ n \in Int /\ a + 1 \in Int /\ b \in Int  BY <1>1, <1>3
<1>5. (m <= n <=> a + 1 <= b) /\ n - m + 1 = b - (a + 1) + 1  BY <1>1, <1>3
<1>6. \A i \in m .. n : c[i] \in X
  <2>1. \A i \in m .. n : i \in 1 .. Len(c)  BY <1>1, <1>3
  <2> QED  BY <2>1
<1>7. \A i \in a + 1 .. b : d[i] \in X
  <2>1. \A i \in a + 1 .. b : i \in 1 .. Len(d)  BY <1>1, <1>3
  <2> QED  BY <2>1
<1>8. \A i \in 1 .. n - m + 1 : c[m + i - 1] = d[a + 1 + i - 1]
  <2> TAKE i \in 1 .. n - m + 1
  <2>1. a + i \in 1 .. Len(d)  BY <1>1, <1>3, <1>5
  <2>2. m + i - 1 = o + (a + i) /\ a + 1 + i - 1 = a + i  BY <1>1, <1>3
  <2> QED  BY <1>2, <2>1, <2>2
<1> HIDE DEF m, n
<1>9. /\ u \in Seq(X) /\ Len(u) = IF m <= n THEN n - m + 1 ELSE 0
      /\ \A i \in 1 .. n - m + 1 : u[i] = c[m + i - 1]
  BY <1>4, <1>6, SubSeqProperties
<1>10. /\ v \in Seq(X) /\ Len(v) = IF a + 1 <= b THEN b - (a + 1) + 1 ELSE 0
       /\ \A i \in 1 .. b - (a + 1) + 1 : v[i] = d[a + 1 + i - 1]
  BY <1>4, <1>7, SubSeqProperties
<1> HIDE DEF u, v
<1>11. Len(u) = Len(v)  BY <1>5, <1>9, <1>10
<1>12. \A i \in 1 .. Len(v) : u[i] = v[i]
  <2> TAKE i \in 1 .. Len(v)
  <2>1. i \in 1 .. n - m + 1 /\ i \in 1 .. b - (a + 1) + 1  BY <1>4, <1>5, <1>10
  <2> QED  BY <1>8, <1>9, <1>10, <2>1
<1>13. u = v  BY <1>9, <1>10, <1>11, <1>12
<1> QED  BY <1>13 DEF u, v, m, n, SamePiece

\* The whole of it.
LEMMA WholeOf ==
    ASSUME NEW X, NEW c \in Seq(X), NEW d \in Seq(X), NEW o, Holds(c, d, o)
    PROVE  SubSeq(c, o + 1, o + Len(d)) = d
<1>1. o \in Nat /\ Len(d) \in Nat  BY DEF Holds
<1> DEFINE n == Len(d)
           z == 0
<1>2. z \in Nat /\ n \in Nat /\ z <= Len(d) /\ n <= Len(d)  BY <1>1
<1>3. SubSeq(c, o + z + 1, o + n) = SubSeq(d, z + 1, n)
  <2> HIDE DEF n, z
  <2>1. SamePiece(c, d, o, z, n)  BY <1>2, PieceOf
  <2> QED  BY <2>1 DEF SamePiece
<1>4. o + 0 + 1 = o + 1 /\ 0 + 1 = 1  BY <1>1
<1>5. SubSeq(d, 1, Len(d)) = d  OBVIOUS
<1> QED  BY <1>3, <1>4, <1>5

(***************************************************************************)
(* A tree that holds some of the files of G, and loops that add to it      *)
(***************************************************************************)

\* The tree of the files D of G.
Part(G, D) == [f \in D |-> G[f]]

\* Writing a file of G adds it.
LEMMA WriteAdds ==
    ASSUME NEW G, NEW D, NEW f
    PROVE  WriteFile(Part(G, D), f, G[f]) = Part(G, D \cup {f})
BY DEF WriteFile, Part

\* What there is after the rounds T of a loop whose round i adds A[i].
Reached(D, A, T) == D \cup (UNION {A[i] : i \in T})

\* The last index and the ones before it.
LEMMA ReachedNext ==
    ASSUME NEW n \in Nat, NEW D, NEW A, NEW T \in SUBSET (1 .. n), T # {}
    PROVE  /\ Max(T) \in 1 .. n /\ T \ {Max(T)} \in SUBSET (1 .. n) /\ Max(T) \in T
           /\ Reached(D, A, T) = Reached(D, A, T \ {Max(T)}) \cup A[Max(T)]
<1>1. T \in SUBSET (0 .. n)  OBVIOUS
<1>2. Max(T) \in T  BY <1>1, MaxOfBounded
<1> DEFINE m == Max(T)
           R == T \ {m}
<1>3. m \in T /\ R = T \ {m}  BY <1>2
<1> HIDE DEF m, R
<1>4. T = R \cup {m}  BY <1>3
<1>5. Reached(D, A, T) = Reached(D, A, R) \cup A[m]  BY <1>4 DEF Reached
<1> QED  BY <1>2, <1>5 DEF m, R

\* g adds the files A[i], one i after the other.
Loops(g, G, A, n) ==
    \A T \in SUBSET (1 .. n) : T # {} =>
        \A E : g[T \ {Max(T)}] = Part(G, E) => g[T] = Part(G, E \cup A[Max(T)])

\* Such a loop ends with what all its rounds add.
LEMMA LoopAdds ==
    ASSUME NEW n \in Nat, NEW G, NEW D, NEW A, NEW g, g[{}] = Part(G, D), Loops(g, G, A, n)
    PROVE  g[1 .. n] = Part(G, Reached(D, A, 1 .. n))
<1> DEFINE S == 1 .. n
           Bad == {T \in SUBSET S : g[T] # Part(G, Reached(D, A, T))}
<1>1. IsFiniteSet(S)
  <2>1. 1 \in Int /\ n \in Int  OBVIOUS
  <2> QED  BY <2>1, FS_Interval
<1>2. Bad = {}
  <2> SUFFICES ASSUME Bad # {} PROVE FALSE  OBVIOUS
  <2>1. PICK T \in Bad : \A x \in T : T \ {x} \notin Bad  BY <1>1, MinimalSubset
  <2>2. T \in SUBSET (1 .. n) /\ g[T] # Part(G, Reached(D, A, T))  BY <2>1
  <2>3. T # {}
    <3>1. Reached(D, A, {}) = D  BY DEF Reached
    <3> QED  BY <2>2, <3>1
  <2>4. /\ T \ {Max(T)} \in SUBSET (1 .. n) /\ Max(T) \in T
        /\ Reached(D, A, T) = Reached(D, A, T \ {Max(T)}) \cup A[Max(T)]
    <3> HIDE DEF S, Bad
    <3> QED  BY <2>2, <2>3, ReachedNext
  <2>5. g[T \ {Max(T)}] = Part(G, Reached(D, A, T \ {Max(T)}))  BY <2>1, <2>4
  <2>6. g[T] = Part(G, Reached(D, A, T \ {Max(T)}) \cup A[Max(T)])
    BY <2>2, <2>3, <2>5 DEF Loops
  <2> QED  BY <2>2, <2>4, <2>6
<1> QED  BY <1>2

\* Entry after entry.
UnpackStep(g, tree, es, T) ==
    IF T = {} THEN tree ELSE WriteFile(g[T \ {Max(T)}], es[Max(T)].file, es[Max(T)].data)

IsUnpack(g, tree, es) == g = [T \in SUBSET DOMAIN es |-> UnpackStep(g, tree, es, T)]

\* Entries of tar, which name their files.
LEMMA EntriesUnpack ==
    ASSUME NEW image, NEW n \in Nat, DOMAIN image.entries = 1 .. n, NEW G, NEW D,
           \A i \in 1 .. n : image.entries[i].data = G[image.entries[i].file]
    PROVE  UnpackEntries(Part(G, D), image) = Part(G, D \cup FilesOf(image.entries))
<1> DEFINE es == image.entries
           tree == Part(G, D)
           g == CHOOSE e : IsUnpack(e, tree, es)
           A == [i \in 1 .. n |-> {es[i].file}]
           all == [T \in SUBSET (1 .. n) |-> Part(G, Reached(D, A, T))]
<1>1. UnpackEntries(tree, image) = g[DOMAIN es]
  BY Zenon DEF UnpackEntries, FoldLeft, MapThenFoldSet, IsUnpack, UnpackStep
<1>2. \A i \in 1 .. n : es[i].data = G[es[i].file] /\ A[i] = {es[i].file}  OBVIOUS
<1>3. DOMAIN es = 1 .. n /\ FilesOf(es) = UNION {A[i] : i \in 1 .. n}
  <2>1. FilesOf(es) = {es[i].file : i \in 1 .. n}  BY DEF FilesOf
  <2> QED  BY <2>1
<1> HIDE DEF es, A, g
<1>4. IsUnpack(all, tree, es)
  <2>1. ASSUME NEW T \in SUBSET (1 .. n)
        PROVE  Part(G, Reached(D, A, T)) = UnpackStep(all, tree, es, T)
    <3>1. CASE T = {}
      <4>1. Reached(D, A, {}) = D  BY DEF Reached
      <4> QED  BY <3>1, <4>1 DEF UnpackStep
    <3>2. CASE T # {}
      <4> DEFINE m == Max(T)
                 R == T \ {m}
      <4>1. /\ m \in 1 .. n /\ R \in SUBSET (1 .. n)
            /\ Reached(D, A, T) = Reached(D, A, R) \cup A[m]
        BY <3>2, ReachedNext
      <4>2. UnpackStep(all, tree, es, T) = WriteFile(all[R], es[m].file, es[m].data)
        BY <3>2 DEF UnpackStep
      <4> HIDE DEF m, R
      <4>3. all[R] = Part(G, Reached(D, A, R))  BY <4>1
      <4>4. WriteFile(Part(G, Reached(D, A, R)), es[m].file, G[es[m].file])
              = Part(G, Reached(D, A, R) \cup {es[m].file})
        BY WriteAdds
      <4> QED  BY <1>2, <4>1, <4>2, <4>3, <4>4
    <3> QED  BY <3>1, <3>2
  <2> QED  BY <1>3, <2>1 DEF IsUnpack
<1>5. g = [T \in SUBSET (1 .. n) |-> UnpackStep(g, tree, es, T)]
  BY <1>3, <1>4 DEF g, IsUnpack
<1>6. g[{}] = Part(G, D)
  <2>1. {} \in SUBSET (1 .. n)  OBVIOUS
  <2> QED  BY <1>5, <2>1 DEF UnpackStep
<1>7. ASSUME NEW T \in SUBSET (1 .. n), T # {}, NEW E, g[T \ {Max(T)}] = Part(G, E)
      PROVE  g[T] = Part(G, E \cup A[Max(T)])
  <2> DEFINE m == Max(T)
  <2>1. m \in 1 .. n  BY <1>7, ReachedNext
  <2>2. g[T] = WriteFile(Part(G, E), es[m].file, es[m].data)  BY <1>5, <1>7 DEF UnpackStep
  <2> HIDE DEF m
  <2>3. WriteFile(Part(G, E), es[m].file, G[es[m].file]) = Part(G, E \cup {es[m].file})
    BY WriteAdds
  <2>4. g[T] = Part(G, E \cup A[m])  BY <1>2, <2>1, <2>2, <2>3
  <2> QED  BY <2>4 DEF m
<1> HIDE DEF tree, all
<1>8. Loops(g, G, A, n)  BY <1>7 DEF Loops
<1>9. g[1 .. n] = Part(G, Reached(D, A, 1 .. n))  BY <1>6, <1>8, LoopAdds
<1> QED  BY <1>1, <1>3, <1>9 DEF Reached, tree, es

\* The order of ListUnpackInfo.
Earlier(segs, i, j) ==
    \/ segs[i].offset < segs[j].offset
    \/ segs[i].offset = segs[j].offset /\ i < j

\* ListUnpackInfo returns every segment once.
LEMMA ByOffsetRight ==
    ASSUME NEW segs, NEW n \in Nat, DOMAIN segs = 1 .. n, \A i \in 1 .. n : segs[i].offset \in Nat
    PROVE  /\ DOMAIN ByOffset(segs) = 1 .. n
           /\ \A k \in 1 .. n : \E i \in 1 .. n : ByOffset(segs)[k] = segs[i]
           /\ \A i \in 1 .. n : \E k \in 1 .. n : ByOffset(segs)[k] = segs[i]
<1> DEFINE D == DOMAIN segs
           R == {ss \in D \X D : Earlier(segs, ss[1], ss[2])}
           order == Sorted(R, D)
<1>1. IsFiniteSet(D) /\ Cardinality(D) = n
  <2>1. 1 \in Int /\ n \in Int  OBVIOUS
  <2>2. IsFiniteSet(1 .. n) /\ Cardinality(1 .. n) = IF 1 > n THEN 0 ELSE n - 1 + 1
    BY <2>1, FS_Interval
  <2> QED  BY <2>2
<1>2. \A x, y \in D : <<x, y>> \in R <=> Earlier(segs, x, y)  OBVIOUS
<1>3. \A x \in D : Below(R, D, x) = {y \in D : Earlier(segs, y, x)}  BY DEF Below
<1>4. \A x \in D : x \in Nat /\ segs[x].offset \in Nat  OBVIOUS
<1> HIDE DEF R
<1> DEFINE at(i) == CHOOSE x \in D : Cardinality({y \in D : Earlier(segs, y, x)}) = i - 1
           to(i) == CHOOSE x \in D : Cardinality(Below(R, D, x)) = i - 1
<1>5. \A i : at(i) = to(i)  BY <1>3
<1>6. order = [i \in 1 .. Cardinality(D) |-> to(i)]  BY DEF Sorted
<1>7. ByOffset(segs) = [k \in DOMAIN [i \in 1 .. Cardinality(D) |-> at(i)] |->
                          segs[[i \in 1 .. Cardinality(D) |-> at(i)][k]]]
  BY Zenon DEF ByOffset, InOrder, Earlier
<1>8. Orders(R, D)
  <2> HIDE DEF D
  <2> QED  BY <1>2, <1>4 DEF Orders, Earlier
<1> HIDE DEF at, to, D
<1>9. [i \in 1 .. Cardinality(D) |-> at(i)] = order  BY <1>5, <1>6
<1> HIDE DEF order
<1>10. /\ order \in [1 .. n -> D]
       /\ \A x \in D : \E i \in 1 .. n : order[i] = x
  <2>1. /\ order \in [1 .. Cardinality(D) -> D]
        /\ \A x \in D : \E i \in 1 .. Cardinality(D) : order[i] = x
    BY <1>1, <1>8, SortedRight DEF order
  <2> QED  BY <1>1, <2>1
<1>11. ByOffset(segs) = [k \in 1 .. n |-> segs[order[k]]]  BY <1>7, <1>9, <1>10
<1> DEFINE es == ByOffset(segs)
<1>12. DOMAIN es = 1 .. n /\ \A k \in 1 .. n : es[k] = segs[order[k]]  BY <1>11
<1>13. /\ \A k \in 1 .. n : order[k] \in 1 .. n
       /\ \A i \in 1 .. n : \E k \in 1 .. n : order[k] = i
  BY <1>10 DEF D
<1> HIDE DEF es
<1>14. ASSUME NEW i \in 1 .. n PROVE \E k \in 1 .. n : es[k] = segs[i]
  <2>1. PICK k \in 1 .. n : order[k] = i  BY <1>13
  <2> QED  BY <1>12, <2>1
<1>15. ASSUME NEW k \in 1 .. n PROVE \E i \in 1 .. n : es[k] = segs[i]
  <2>1. order[k] \in 1 .. n /\ es[k] = segs[order[k]]  BY <1>12, <1>13
  <2> QED  BY <2>1
<1> QED  BY <1>12, <1>14, <1>15 DEF es

\* What a segment cuts out of a shard file.
Cut(flat, s) == SubSeq(flat, s.offset + 1, s.offset + s.size)

\* The function of the fold of UnpackSegments.
SegmentStep(g, tree, flat, es, T) ==
    IF T = {} THEN tree
    ELSE WriteFile(g[T \ {Max(T)}], es[Max(T)].file, Cut(flat, es[Max(T)]))

IsSegments(g, tree, flat, es) ==
    g = [T \in SUBSET DOMAIN es |-> SegmentStep(g, tree, flat, es, T)]

\* Every segment says where the bytes of its file are.
CutsRight(image, segs, n, G) ==
    /\ DOMAIN segs = 1 .. n
    /\ \A i \in 1 .. n : segs[i].offset \in Nat /\ Cut(Flat(image), segs[i]) = G[segs[i].file]

\* Segments of bin, which name files and places.
LEMMA SegmentsUnpack ==
    ASSUME NEW image, NEW segs, NEW n \in Nat, NEW G, NEW D, CutsRight(image, segs, n, G)
    PROVE  UnpackSegments(Part(G, D), image, segs) = Part(G, D \cup FilesOf(segs))
<1> DEFINE es == ByOffset(segs)
           flat == Flat(image)
           tree == Part(G, D)
           other == [entries |-> [k \in 1 .. n |-> [file |-> es[k].file, data |-> Cut(flat, es[k])]]]
           fs == other.entries
<1>0. /\ DOMAIN segs = 1 .. n
      /\ \A i \in 1 .. n : segs[i].offset \in Nat /\ Cut(flat, segs[i]) = G[segs[i].file]
  BY DEF CutsRight
<1>1. UnpackSegments(tree, image, segs) = (CHOOSE g : IsSegments(g, tree, flat, es))[DOMAIN es]
  BY Zenon DEF UnpackSegments, FoldLeft, MapThenFoldSet, IsSegments, SegmentStep, Cut
<1>2. UnpackEntries(tree, other) = (CHOOSE g : IsUnpack(g, tree, fs))[DOMAIN fs]
  BY Zenon DEF UnpackEntries, FoldLeft, MapThenFoldSet, IsUnpack, UnpackStep
<1>3. /\ DOMAIN es = 1 .. n
      /\ \A k \in 1 .. n : \E i \in 1 .. n : es[k] = segs[i]
      /\ \A i \in 1 .. n : \E k \in 1 .. n : es[k] = segs[i]
  BY <1>0, ByOffsetRight
<1>4. \A i \in 1 .. n : Cut(flat, segs[i]) = G[segs[i].file]  BY <1>0
<1> HIDE DEF es, flat, tree
<1>5. /\ DOMAIN fs = 1 .. n
      /\ \A k \in 1 .. n : fs[k].file = es[k].file /\ fs[k].data = Cut(flat, es[k])
  OBVIOUS
<1>a. fs = other.entries  OBVIOUS
<1> HIDE DEF other, fs
<1>6. \A g : \A T \in SUBSET (1 .. n) : SegmentStep(g, tree, flat, es, T) = UnpackStep(g, tree, fs, T)
  <2> TAKE g
  <2> TAKE T \in SUBSET (1 .. n)
  <2>1. CASE T = {}  BY <2>1 DEF SegmentStep, UnpackStep
  <2>2. CASE T # {}
    <3>1. Max(T) \in 1 .. n
      <4>1. T \in SUBSET (0 .. n)  OBVIOUS
      <4> QED  BY <2>2, <4>1, MaxOfBounded
    <3> QED  BY <1>5, <2>2, <3>1 DEF SegmentStep, UnpackStep
  <2> QED  BY <2>1, <2>2
<1>7. \A g : IsSegments(g, tree, flat, es) <=> IsUnpack(g, tree, fs)
  BY <1>3, <1>5, <1>6 DEF IsSegments, IsUnpack
<1>8. UnpackSegments(tree, image, segs) = UnpackEntries(tree, other)
  <2>1. (CHOOSE g : IsSegments(g, tree, flat, es)) = CHOOSE g : IsUnpack(g, tree, fs)
    BY <1>7
  <2> QED  BY <1>1, <1>2, <1>3, <1>5, <2>1
<1>9. ASSUME NEW k \in 1 .. n PROVE fs[k].data = G[fs[k].file]
  <2>1. PICK i \in 1 .. n : es[k] = segs[i]  BY <1>3
  <2>2. Cut(flat, segs[i]) = G[segs[i].file]  BY <1>4
  <2> QED  BY <1>5, <2>1, <2>2
<1>10. UnpackEntries(tree, other) = Part(G, D \cup FilesOf(fs))
  <2>1. /\ DOMAIN other.entries = 1 .. n
        /\ \A k \in 1 .. n : other.entries[k].data = G[other.entries[k].file]
    BY <1>5, <1>9, <1>a
  <2> QED  BY <1>a, <2>1, EntriesUnpack DEF tree
<1>11. FilesOf(fs) = FilesOf(segs)
  <2>1. FilesOf(fs) = {es[k].file : k \in 1 .. n}  BY <1>5 DEF FilesOf
  <2>2. FilesOf(segs) = {segs[i].file : i \in 1 .. n}  BY <1>0 DEF FilesOf
  <2>3. ASSUME NEW k \in 1 .. n PROVE es[k].file \in FilesOf(segs)
    <3>1. PICK i \in 1 .. n : es[k] = segs[i]  BY <1>3
    <3> QED  BY <2>2, <3>1
  <2>4. ASSUME NEW i \in 1 .. n PROVE segs[i].file \in FilesOf(fs)
    <3>1. PICK k \in 1 .. n : es[k] = segs[i]  BY <1>3
    <3> QED  BY <2>1, <3>1
  <2> QED  BY <2>1, <2>2, <2>3, <2>4
<1> QED  BY <1>8, <1>10, <1>11 DEF tree

\* A directory of iso.
LEMMA ISOUnpacks ==
    ASSUME NEW image, NEW n \in Nat, DOMAIN image.entries = 1 .. n, NEW G, NEW D,
           \A i \in 1 .. n : image.entries[i].data = G[image.entries[i].file]
    PROVE  UnpackISO(Part(G, D), image) = Part(G, D \cup FilesOf(image.entries))
<1> DEFINE es == image.entries
           Named(f) == {i \in DOMAIN es : es[i].file = f}
           files == FilesOf(es)
<1>1. UnpackISO(Part(G, D), image) =
        [f \in DOMAIN Part(G, D) \cup files |->
            IF f \in files THEN es[Max(Named(f))].data ELSE Part(G, D)[f]]
  BY Zenon DEF UnpackISO, FilesOf
<1>2. ASSUME NEW f \in files PROVE es[Max(Named(f))].data = G[f]
  <2>1. Named(f) \in SUBSET (0 .. n) /\ Named(f) # {}  BY DEF FilesOf
  <2>2. Max(Named(f)) \in Named(f)
    <3> HIDE DEF Named
    <3> QED  BY <2>1, MaxOfBounded
  <2> QED  BY <2>2
<1>3. DOMAIN Part(G, D) = D /\ \A f \in D : Part(G, D)[f] = G[f]  BY DEF Part
<1> HIDE DEF es, Named, files
<1>4. UnpackISO(Part(G, D), image) = [f \in D \cup files |-> G[f]]  BY <1>1, <1>2, <1>3
<1> QED  BY <1>4 DEF Part, files, es

(***************************************************************************)
(* Shards whose entries are files of G                                     *)
(***************************************************************************)

\* The entries of an image are whole files of G.
Faithful(image, G) ==
    /\ image.entries \in Seq(Piece)
    /\ \A i \in DOMAIN image.entries : image.entries[i].data = G[image.entries[i].file]

\* The segment of an entry of a bin shard says where its bytes are.
LEMMA BinFound ==
    ASSUME NEW image, image.entries \in Seq(Piece), image.format = "bin",
           NEW i \in DOMAIN image.entries
    PROVE  /\ Flat(image) \in Seq(Byte) /\ image.entries[i].data \in Seq(Byte)
           /\ Segments(image)[i].size = Len(image.entries[i].data)
           /\ Holds(Flat(image), image.entries[i].data, Segments(image)[i].offset)
<1> DEFINE es == image.entries
           n == Len(es)
           s == [j \in DOMAIN es |-> es[j].data]
           b == PartsBefore(s, i)
<1>1. n \in Nat /\ DOMAIN es = 1 .. n /\ \A j \in 1 .. n : es[j] \in Piece  OBVIOUS
<1>2. \A j \in 1 .. n : es[j].data \in Seq(Byte)  BY <1>1 DEF Piece
<1>3. s \in Seq(Seq(Byte)) /\ Len(s) = n /\ \A j \in 1 .. n : s[j] = es[j].data
  <2>1. s \in [1 .. n -> Seq(Byte)]  BY <1>1, <1>2
  <2>2. \A j \in 1 .. n : s[j] = es[j].data  BY <1>1
  <2> HIDE DEF s, n
  <2> QED  BY <1>1, <2>1, <2>2
<1>4. i \in 1 .. Len(s)  BY <1>1, <1>3
<1> HIDE DEF es, n, s
<1>5. /\ Concat(s) \in Seq(Byte) /\ s[i] \in Seq(Byte)
      /\ Holds(Concat(s), s[i], Len(Concat(PartsBefore(s, i))))
  BY <1>3, <1>4, PartFound
<1>6. Flat(image) = Concat(s)
  BY DEF Flat, es, s
<1>7. [j \in 1 .. i - 1 |-> es[j].data] = b
  <2>1. \A j \in 1 .. i - 1 : j \in 1 .. n  BY <1>1, <1>3, <1>4
  <2> QED  BY <1>3, <2>1 DEF PartsBefore
<1>8. SegmentOffset(image, i) = Len(Concat(b))
  BY <1>7 DEF SegmentOffset, BinOffset, es
<1>9. /\ Segments(image)[i].offset = SegmentOffset(image, i)
      /\ Segments(image)[i].size = Len(es[i].data)
  BY <1>1, <1>3, <1>4 DEF Segments, n, es
<1> QED  BY <1>3, <1>4, <1>5, <1>6, <1>8, <1>9 DEF es

\* A shard adds the files of its entries, whatever its format is.
LEMMA ShardUnpacks ==
    ASSUME NEW format \in {"bin", "tar", "iso"}, NEW image, image.format = format, NEW G,
           Faithful(image, G), NEW D
    PROVE  UnpackShardFile(Part(G, D), image, Segments(image), format)
             = Part(G, D \cup FilesOf(image.entries))
<1> DEFINE es == image.entries
           n == Len(es)
           segs == Segments(image)
<1>1. /\ es \in Seq(Piece) /\ n \in Nat /\ DOMAIN es = 1 .. n
      /\ \A i \in 1 .. n : es[i].data = G[es[i].file]
  BY DEF Faithful
<1>2. DOMAIN segs = 1 .. n /\ \A i \in 1 .. n : segs[i].file = es[i].file
  BY <1>1 DEF Segments
<1> HIDE DEF es, n, segs
<1>3. CASE format = "bin"
  <2>1. ASSUME NEW i \in 1 .. n
        PROVE  segs[i].offset \in Nat /\ Cut(Flat(image), segs[i]) = G[segs[i].file]
    <3>1. /\ Flat(image) \in Seq(Byte) /\ es[i].data \in Seq(Byte)
          /\ segs[i].size = Len(es[i].data)
          /\ Holds(Flat(image), es[i].data, segs[i].offset)
      BY <1>1, <1>3, BinFound DEF es, segs
    <3>2. SubSeq(Flat(image), segs[i].offset + 1, segs[i].offset + Len(es[i].data)) = es[i].data
      BY <3>1, WholeOf
    <3> QED  BY <1>1, <1>2, <3>1, <3>2 DEF Cut, Holds
  <2>2. UnpackSegments(Part(G, D), image, segs) = Part(G, D \cup FilesOf(segs))
    <3>1. CutsRight(image, segs, n, G)  BY <1>2, <2>1 DEF CutsRight
    <3> QED  BY <1>1, <3>1, SegmentsUnpack
  <2>3. FilesOf(segs) = FilesOf(es)  BY <1>1, <1>2 DEF FilesOf
  <2> QED  BY <1>3, <2>2, <2>3 DEF UnpackShardFile, segs, es
<1>4. CASE format = "tar"
  <2>1. UnpackEntries(Part(G, D), image) = Part(G, D \cup FilesOf(es))
    BY <1>1, EntriesUnpack DEF es
  <2> QED  BY <1>4, <2>1 DEF UnpackShardFile, es
<1>5. CASE format = "iso"
  <2>1. UnpackISO(Part(G, D), image) = Part(G, D \cup FilesOf(es))
    BY <1>1, ISOUnpacks DEF es
  <2> QED  BY <1>5, <2>1 DEF UnpackShardFile, es
<1> QED  BY <1>3, <1>4, <1>5

\* The function of the fold of Unpack.
ShardsStep(g, format, shards, T) ==
    IF T = {} THEN NoFiles
    ELSE UnpackShardFile(g[T \ {Max(T)}], shards[Max(T)].image, shards[Max(T)].segs, format)

IsShards(g, format, shards) ==
    g = [T \in SUBSET DOMAIN shards |-> ShardsStep(g, format, shards, T)]

\* What the archive of a dataset should be.
Restorable(archive, n, format, G) ==
    /\ n \in Nat /\ DOMAIN archive = 1 .. n
    /\ format \in {"bin", "tar", "iso"}
    /\ \A i \in 1 .. n : /\ archive[i].image.format = format
                        /\ Faithful(archive[i].image, G)
                        /\ archive[i].segs = Segments(archive[i].image)

\* The files that the shards of an archive have.
FilesIn(archive, n) == UNION {FilesOf(archive[i].image.entries) : i \in 1 .. n}

\* Shard after shard, all files.
LEMMA Unpacks ==
    ASSUME NEW archive, NEW n, NEW format, NEW G, Restorable(archive, n, format, G)
    PROVE  Unpack(archive, format) = Part(G, FilesIn(archive, n))
<1> DEFINE g == CHOOSE e : IsShards(e, format, archive)
           A == [i \in 1 .. n |-> FilesOf(archive[i].image.entries)]
           all == [T \in SUBSET (1 .. n) |-> Part(G, Reached({}, A, T))]
<1>0. n \in Nat /\ DOMAIN archive = 1 .. n  BY DEF Restorable
<1>1. Unpack(archive, format) = g[DOMAIN archive]
  BY Zenon DEF Unpack, FoldLeft, MapThenFoldSet, IsShards, ShardsStep
<1>2. ASSUME NEW i \in 1 .. n, NEW E
      PROVE  UnpackShardFile(Part(G, E), archive[i].image, archive[i].segs, format)
               = Part(G, E \cup A[i])
  <2>1. /\ archive[i].image.format = format /\ Faithful(archive[i].image, G)
        /\ archive[i].segs = Segments(archive[i].image)
        /\ format \in {"bin", "tar", "iso"}
    BY DEF Restorable
  <2> DEFINE image == archive[i].image
  <2>2. A[i] = FilesOf(image.entries)  OBVIOUS
  <2> HIDE DEF image, A
  <2>3. UnpackShardFile(Part(G, E), image, Segments(image), format)
          = Part(G, E \cup FilesOf(image.entries))
    BY <2>1, ShardUnpacks DEF image
  <2> QED  BY <2>1, <2>2, <2>3 DEF image
<1>3. FilesIn(archive, n) = UNION {A[i] : i \in 1 .. n}  BY DEF FilesIn
<1>4. NoFiles = Part(G, {})  BY DEF NoFiles, Part
<1> HIDE DEF A, g
<1>5. IsShards(all, format, archive)
  <2>1. ASSUME NEW T \in SUBSET (1 .. n)
        PROVE  Part(G, Reached({}, A, T)) = ShardsStep(all, format, archive, T)
    <3>1. CASE T = {}
      <4>1. Reached({}, A, {}) = {}  BY DEF Reached
      <4> QED  BY <1>4, <3>1, <4>1 DEF ShardsStep
    <3>2. CASE T # {}
      <4> DEFINE m == Max(T)
                 R == T \ {m}
      <4>1. /\ m \in 1 .. n /\ R \in SUBSET (1 .. n)
            /\ Reached({}, A, T) = Reached({}, A, R) \cup A[m]
        <5> DEFINE N == {}
        <5> HIDE DEF N, all
        <5>1. /\ Max(T) \in 1 .. n /\ T \ {Max(T)} \in SUBSET (1 .. n)
              /\ Reached(N, A, T) = Reached(N, A, T \ {Max(T)}) \cup A[Max(T)]
          BY <1>0, <3>2, ReachedNext
        <5> QED  BY <5>1 DEF N
      <4>2. ShardsStep(all, format, archive, T)
              = UnpackShardFile(all[R], archive[m].image, archive[m].segs, format)
        BY <3>2 DEF ShardsStep
      <4> HIDE DEF m, R
      <4>3. all[R] = Part(G, Reached({}, A, R))  BY <4>1
      <4> HIDE DEF all
      <4> QED  BY <1>2, <4>1, <4>2, <4>3
    <3> QED  BY <3>1, <3>2
  <2> QED  BY <1>0, <2>1 DEF IsShards
<1>6. g = [T \in SUBSET (1 .. n) |-> ShardsStep(g, format, archive, T)]
  BY <1>0, <1>5 DEF g, IsShards
<1>7. g[{}] = Part(G, {})
  <2>1. {} \in SUBSET (1 .. n)  OBVIOUS
  <2> QED  BY <1>4, <1>6, <2>1 DEF ShardsStep
<1>8. ASSUME NEW T \in SUBSET (1 .. n), T # {}, NEW E, g[T \ {Max(T)}] = Part(G, E)
      PROVE  g[T] = Part(G, E \cup A[Max(T)])
  <2>1. Max(T) \in 1 .. n  BY <1>0, <1>8, ReachedNext
  <2>2. g[T] = UnpackShardFile(Part(G, E), archive[Max(T)].image, archive[Max(T)].segs, format)
    BY <1>6, <1>8 DEF ShardsStep
  <2> QED  BY <1>2, <2>1, <2>2
<1>9. Loops(g, G, A, n)  BY <1>8 DEF Loops
<1>10. g[1 .. n] = Part(G, Reached({}, A, 1 .. n))  BY <1>0, <1>7, <1>9, LoopAdds
<1>11. Reached({}, A, 1 .. n) = FilesIn(archive, n)  BY <1>3 DEF Reached
<1> QED  BY <1>0, <1>1, <1>10, <1>11

\* The function of the fold over tar shards without their segments.
AloneStep(g, shards, T) ==
    IF T = {} THEN NoFiles ELSE ShardUnpack(g[T \ {Max(T)}], shards[Max(T)].image)

IsAlone(g, shards) == g = [T \in SUBSET DOMAIN shards |-> AloneStep(g, shards, T)]

\* Without the database tar shards yield the same.
LEMMA UnpacksAlone ==
    ASSUME NEW archive, NEW n, NEW G, Restorable(archive, n, "tar", G)
    PROVE  FoldLeft(LAMBDA t, s : ShardUnpack(t, s.image), NoFiles, archive)
             = Part(G, FilesIn(archive, n))
<1>0. n \in Nat /\ DOMAIN archive = 1 .. n  BY DEF Restorable
<1>1. FoldLeft(LAMBDA t, s : ShardUnpack(t, s.image), NoFiles, archive)
        = (CHOOSE g : IsAlone(g, archive))[DOMAIN archive]
  BY Zenon DEF FoldLeft, MapThenFoldSet, IsAlone, AloneStep
<1>2. Unpack(archive, "tar") = (CHOOSE g : IsShards(g, "tar", archive))[DOMAIN archive]
  BY Zenon DEF Unpack, FoldLeft, MapThenFoldSet, IsShards, ShardsStep
<1>3. \A t : \A i \in 1 .. n : ShardUnpack(t, archive[i].image)
               = UnpackShardFile(t, archive[i].image, archive[i].segs, "tar")
  <2>1. \A i \in 1 .. n : archive[i].image.format = "tar"  BY DEF Restorable
  <2> QED  BY <2>1 DEF ShardUnpack, UnpackTarShard, UnpackShardFile
<1>4. \A g : \A T \in SUBSET (1 .. n) : AloneStep(g, archive, T) = ShardsStep(g, "tar", archive, T)
  <2> TAKE g
  <2> TAKE T \in SUBSET (1 .. n)
  <2>1. CASE T = {}  BY <2>1 DEF AloneStep, ShardsStep
  <2>2. CASE T # {}
    <3>1. Max(T) \in 1 .. n  BY <1>0, <2>2, ReachedNext
    <3> QED  BY <1>3, <2>2, <3>1 DEF AloneStep, ShardsStep
  <2> QED  BY <2>1, <2>2
<1>5. \A g : IsAlone(g, archive) <=> IsShards(g, "tar", archive)
  BY <1>0, <1>4 DEF IsAlone, IsShards
<1>6. (CHOOSE g : IsAlone(g, archive)) = CHOOSE g : IsShards(g, "tar", archive)  BY <1>5
<1>7. Unpack(archive, "tar") = Part(G, FilesIn(archive, n))  BY Unpacks
<1> QED  BY <1>1, <1>2, <1>6, <1>7

(***************************************************************************)
(* Reading a file that is in one place                                     *)
(***************************************************************************)

\* The least of two numbers.
LEMMA MinOfTwo ==
    ASSUME NEW a \in Nat, NEW b \in Nat
    PROVE  Min({a, b}) = IF a <= b THEN a ELSE b
<1> DEFINE m == IF a <= b THEN a ELSE b
<1>1. m \in {a, b} /\ \A y \in {a, b} : m <= y  OBVIOUS
<1>2. \A x \in {a, b} : (\A y \in {a, b} : x <= y) => x = m  OBVIOUS
<1>3. Min({a, b}) = CHOOSE x \in {a, b} : \A y \in {a, b} : x <= y  BY DEF Min
<1> HIDE DEF m
<1> QED  BY <1>1, <1>2, <1>3 DEF m

\* loc is where the bytes data are.
Located(loc, data) ==
    /\ Flat(loc.image) \in Seq(Byte) /\ data \in Seq(Byte)
    /\ loc.size = Len(data) /\ Holds(Flat(loc.image), data, loc.offset)

\* stat shows the length of what a file has in its one place.
LEMMA SizeShown ==
    ASSUME NEW loc, NEW data, Located(loc, data), NEW locs, locs = <<loc>>
    PROVE  FileSize(locs) = Len(data)
<1> DEFINE h == [k \in {0, 1} |-> IF k = 0 THEN 0 ELSE Len(data)]
<1>1. loc.size = Len(data) /\ Len(data) \in Nat  BY DEF Located
<1>2. locs \in Seq({loc}) /\ Len(locs) = 1 /\ locs[1] = loc  OBVIOUS
<1>3. \A i \in 1 .. Len(locs) : locs[i].size \in Nat  BY <1>1, <1>2
<1>4. TotalRun(h, locs)
  <2>1. h[0] = 0 /\ h[1] = Len(data)  OBVIOUS
  <2>2. \A k \in 1 .. Len(locs) : k = 1 /\ k - 1 = 0  BY <1>2
  <2> HIDE DEF h
  <2> QED  BY <1>1, <1>2, <2>1, <2>2 DEF TotalRun
<1>5. h[1] = Len(data)  OBVIOUS
<1> HIDE DEF h
<1>6. Total(locs) = h[Len(locs)]  BY <1>2, <1>3, <1>4, TotalIs
<1> QED  BY <1>2, <1>5, <1>6 DEF FileSize

\* One round of the loop of fileHandle.Read, and the function of its fold.
ReadNext(acc, loc, off, length) ==
    LET end   == acc.skipped + loc.size
        start == IF off > acc.skipped THEN off - acc.skipped ELSE 0
        want  == length - Len(acc.buf)
        take  == IF start + want > loc.size THEN loc.size - start ELSE want
    IN  IF off >= end \/ want = 0 THEN [acc EXCEPT !.skipped = end]
        ELSE [skipped |-> end, buf |-> acc.buf \o ReadSegment(loc, start, take)]

Nothing == [skipped |-> 0, buf |-> <<>>]

ReadStep(g, locs, off, length, T) ==
    IF T = {} THEN Nothing ELSE ReadNext(g[T \ {Max(T)}], locs[Max(T)], off, length)

IsRead(g, locs, off, length) ==
    g = [T \in SUBSET DOMAIN locs |-> ReadStep(g, locs, off, length, T)]

\* One place is one round.
LEMMA ReadsOnce ==
    ASSUME NEW loc, NEW locs, locs = <<loc>>, NEW off, NEW length
    PROVE  ReadAt(locs, off, length) = ReadNext(Nothing, loc, off, length).buf
<1> DEFINE one == ReadNext(Nothing, loc, off, length)
           g == CHOOSE e : IsRead(e, locs, off, length)
           all == [T \in SUBSET {1} |-> IF T = {} THEN Nothing ELSE one]
<1>1. ReadAt(locs, off, length) = g[DOMAIN locs].buf
  BY Zenon DEF ReadAt, FoldLeft, MapThenFoldSet, IsRead, ReadStep, ReadNext, Nothing
<1>2. DOMAIN locs = {1} /\ locs[1] = loc  OBVIOUS
<1>3. Max({1}) = 1 /\ {1} \ {1} = {}
  <2>1. {1} \in SUBSET (0 .. 1) /\ {1} # {} /\ 1 \in Nat  OBVIOUS
  <2>2. Max({1}) \in {1}  BY <2>1, MaxOfBounded
  <2> QED  BY <2>2
<1> HIDE DEF one, g
<1>4. \A T \in SUBSET {1} : T = {} \/ T = {1}  OBVIOUS
<1>5. IsRead(all, locs, off, length)
  <2>1. \A T \in SUBSET {1} : (IF T = {} THEN Nothing ELSE one) = ReadStep(all, locs, off, length, T)
    BY <1>2, <1>3, <1>4 DEF ReadStep, one
  <2> QED  BY <1>2, <2>1 DEF IsRead
<1>6. g = [T \in SUBSET {1} |-> ReadStep(g, locs, off, length, T)]
  BY <1>2, <1>5 DEF g, IsRead
<1>7. g[{}] = Nothing  BY <1>6 DEF ReadStep
<1>8. g[{1}] = one  BY <1>2, <1>3, <1>6, <1>7 DEF ReadStep, one
<1> QED  BY <1>1, <1>2, <1>8 DEF one

\* What data has at off, at most length bytes.
Window(data, off, length) == SubSeq(data, off + 1, Min({off + length, Len(data)}))

\* A read returns what the file has there.
LEMMA ReadsRight ==
    ASSUME NEW loc, NEW data, Located(loc, data), NEW locs, locs = <<loc>>,
           NEW off \in 0 .. Len(data), NEW length \in Nat, length > 0
    PROVE  ReadAt(locs, off, length) = Window(data, off, length)
<1> DEFINE n == Len(data)
           flat == Flat(loc.image)
           last == IF off + length <= n THEN off + length ELSE n
           take == IF off + length > n THEN n - off ELSE length
           piece == ReadSegment(loc, off, take)
<1>1. /\ flat \in Seq(Byte) /\ data \in Seq(Byte) /\ loc.size = n
      /\ Holds(flat, data, loc.offset)
  BY DEF Located
<1>2. n \in Nat /\ off \in Nat /\ off <= n  BY <1>1
<1>3. loc.offset \in Nat /\ loc.offset + n <= Len(flat) /\ Len(flat) \in Nat
  BY <1>1 DEF Holds
<1>4. Min({off + length, n}) = last
  <2>1. off + length \in Nat  BY <1>2
  <2> QED  BY <1>2, <2>1, MinOfTwo
<1>w. Window(data, off, length) = SubSeq(data, off + 1, last)
  <2>1. Window(data, off, length) = SubSeq(data, off + 1, Min({off + length, n}))
    BY DEF Window
  <2> HIDE DEF n, last
  <2> QED  BY <1>4, <2>1
<1> HIDE DEF n, flat
<1>5. /\ take \in Nat /\ off + take = last /\ last \in Nat /\ last <= n
      /\ loc.offset + off + take = loc.offset + last
      /\ loc.offset + last <= Len(flat)
  BY <1>2, <1>3
<1>6. piece = SubSeq(data, off + 1, last)
  <2>1. piece = SubSeq(flat, loc.offset + off + 1,
                       IF loc.offset + off + take < Len(flat) THEN loc.offset + off + take ELSE Len(flat))
    BY DEF ReadSegment, flat
  <2> HIDE DEF last, take, piece
  <2>2. (IF loc.offset + off + take < Len(flat) THEN loc.offset + off + take ELSE Len(flat))
          = loc.offset + last
    BY <1>3, <1>5
  <2>3. SamePiece(flat, data, loc.offset, off, last)
    BY <1>1, <1>2, <1>5, PieceOf DEF n
  <2> QED  BY <2>1, <2>2, <2>3 DEF SamePiece
<1>7. piece \in Seq(Byte)
  <2>1. \A i \in off + 1 .. last : data[i] \in Byte
    <3>1. \A i \in off + 1 .. last : i \in 1 .. n  BY <1>2, <1>5
    <3> QED  BY <1>1, <3>1 DEF n
  <2>2. off + 1 \in Int /\ last \in Int  BY <1>2, <1>5
  <2> HIDE DEF last, piece
  <2> QED  BY <1>6, <2>1, <2>2, SubSeqProperties
<1>8. ReadAt(locs, off, length) = ReadNext(Nothing, loc, off, length).buf  BY ReadsOnce
<1>9. CASE off >= n
  <2>1. off >= 0 + loc.size  BY <1>1, <1>2, <1>9
  <2>2. ReadNext(Nothing, loc, off, length) = [Nothing EXCEPT !.skipped = 0 + loc.size]
    BY <2>1 DEF ReadNext, Nothing
  <2>3. ReadNext(Nothing, loc, off, length).buf = <<>>  BY <2>2 DEF Nothing
  <2>4. last < off + 1 /\ last \in Int /\ off + 1 \in Int  BY <1>2, <1>9
  <2> HIDE DEF last
  <2>5. SubSeq(data, off + 1, last) = <<>>  BY <2>4, SubSeqEmpty
  <2> QED  BY <1>w, <1>8, <2>3, <2>5
<1>10. CASE off < n
  <2>1. ReadNext(Nothing, loc, off, length).buf = <<>> \o piece
    <3>1. /\ Nothing.skipped = 0 /\ Nothing.buf = <<>> /\ Len(<<>>) = 0
      BY DEF Nothing
    <3>2. /\ 0 + loc.size = n /\ (IF off > 0 THEN off - 0 ELSE 0) = off /\ length - 0 = length
          /\ ~(off >= n \/ length = 0)
      BY <1>1, <1>2, <1>10
    <3> QED  BY <1>1, <3>1, <3>2 DEF ReadNext
  <2> HIDE DEF piece
  <2>2. <<>> \o piece = piece  BY <1>7
  <2> QED  BY <1>w, <1>6, <1>8, <2>1, <2>2
<1>11. off >= n \/ off < n  BY <1>2
<1> QED  BY <1>9, <1>10, <1>11, Zenon

(***************************************************************************)
(* The index of a file                                                     *)
(***************************************************************************)

\* The places of segments, [shard, segment], in an archive; those of a file, and the
\* order in which BuildIndex takes them.
Places(archive) == UNION {{i} \X DOMAIN archive[i].segs : i \in DOMAIN archive}

SegAt(archive, at) == archive[at[1]].segs[at[2]]

PlacesOf(archive, f) == {at \in Places(archive) : SegAt(archive, at).file = f}

Sooner(archive, a, b) ==
    \/ SegAt(archive, a).offset < SegAt(archive, b).offset
    \/ SegAt(archive, a).offset = SegAt(archive, b).offset /\ a[1] < b[1]
    \/ SegAt(archive, a).offset = SegAt(archive, b).offset /\ a[1] = b[1] /\ a[2] < b[2]

\* What BuildIndex notes of a place.
LocAt(archive, at) ==
    [image |-> archive[at[1]].image, offset |-> SegAt(archive, at).offset,
     size |-> SegAt(archive, at).size]

\* There are finitely many.
LEMMA PlacesFinite ==
    ASSUME NEW archive, NEW n, NEW format, NEW G, Restorable(archive, n, format, G)
    PROVE  IsFiniteSet(Places(archive))
<1> DEFINE f == [i \in 1 .. n |-> {i} \X DOMAIN archive[i].segs]
           T == {{i} \X DOMAIN archive[i].segs : i \in DOMAIN archive}
<1>0. n \in Nat /\ DOMAIN archive = 1 .. n  BY DEF Restorable
<1>1. IsFiniteSet(1 .. n)
  <2>1. 1 \in Int /\ n \in Int  BY <1>0
  <2> QED  BY <2>1, FS_Interval
<1>2. T = {f[i] : i \in 1 .. n}  BY <1>0
<1>3. ASSUME NEW i \in 1 .. n PROVE IsFiniteSet(f[i])
  <2> DEFINE es == archive[i].image.entries
             D == DOMAIN archive[i].segs
  <2>1. es \in Seq(Piece) /\ archive[i].segs = Segments(archive[i].image)
    BY DEF Restorable, Faithful
  <2>2. Len(es) \in Nat /\ D = 1 .. Len(es)  BY <2>1 DEF Segments
  <2>3. IsFiniteSet(D)
    <3>1. 1 \in Int /\ Len(es) \in Int  BY <2>2
    <3> HIDE DEF D, es
    <3> QED  BY <2>2, <3>1, FS_Interval
  <2> DEFINE S == {i}
  <2>4. f[i] = S \X D  OBVIOUS
  <2>5. IsFiniteSet(S)  BY FS_Singleton
  <2> HIDE DEF D, f, S
  <2>6. IsFiniteSet(S \X D)  BY <2>3, <2>5, FS_Product
  <2> QED  BY <2>4, <2>6
<1> HIDE DEF f
<1>4. \A U \in T : IsFiniteSet(U)
  <2> HIDE DEF T
  <2> QED  BY <1>2, <1>3
<1>5. IsFiniteSet(T)
  <2> DEFINE h == [i \in 1 .. n |-> f[i]]
  <2>1. h \in Surjection(1 .. n, T)
    <3>1. h \in [1 .. n -> T]
      <4> HIDE DEF T
      <4> QED  BY <1>2
    <3>2. \A t \in T : \E i \in 1 .. n : h[i] = t
      <4> HIDE DEF T
      <4> QED  BY <1>2
    <3> HIDE DEF T, h
    <3> QED  BY <3>1, <3>2 DEF Surjection
  <2> HIDE DEF h, T
  <2> QED  BY <1>1, <2>1, FS_Surjection
<1> HIDE DEF T
<1>6. IsFiniteSet(UNION T)  BY <1>4, <1>5, FS_UNION
<1> QED  BY <1>6 DEF T, Places

\* A file that has one place in the archive has its bytes there.
LEMMA IndexedOnce ==
    ASSUME NEW archive, NEW n, NEW G, Restorable(archive, n, "bin", G), NEW f,
           Len(IndexOf(archive, f)) = 1
    PROVE  \E loc : IndexOf(archive, f) = <<loc>> /\ Located(loc, G[f])
<1> DEFINE mine == PlacesOf(archive, f)
           c == Cardinality(mine)
           at(i) == CHOOSE x \in mine : Cardinality({y \in mine : Sooner(archive, y, x)}) = i - 1
           order == [i \in 1 .. c |-> at(i)]
           locs == IndexOf(archive, f)
<1>0. n \in Nat /\ DOMAIN archive = 1 .. n  BY DEF Restorable
<1>1. locs = [k \in DOMAIN order |-> LocAt(archive, order[k])]
  BY Zenon DEF IndexOf, InOrder, Places, SegAt, PlacesOf, Sooner, LocAt
<1>2. IsFiniteSet(mine) /\ c \in Nat
  <2>1. mine \in SUBSET Places(archive) /\ IsFiniteSet(Places(archive))
    BY PlacesFinite DEF PlacesOf
  <2>2. IsFiniteSet(mine)  BY <2>1, FS_Subset
  <2> QED  BY <2>2, FS_CardinalityType
<1> HIDE DEF mine, c
<1>3. c = 1
  <2> DEFINE X == {LocAt(archive, order[k]) : k \in 1 .. c}
  <2>1. locs \in [1 .. c -> X]  BY <1>1
  <2> HIDE DEF X, locs
  <2>2. Len(locs) = c  BY <1>2, <2>1
  <2> QED  BY <2>2 DEF locs
<1>4. PICK a : mine = {a}  BY <1>2, <1>3, FS_Singleton DEF c
<1>5. a \in Places(archive) /\ SegAt(archive, a).file = f  BY <1>4 DEF mine, PlacesOf
<1>6. PICK i \in 1 .. n : \E j \in DOMAIN archive[i].segs : a = <<i, j>>
  BY <1>0, <1>5 DEF Places
<1>7. PICK j \in DOMAIN archive[i].segs : a = <<i, j>>  BY <1>6
<1> DEFINE image == archive[i].image
           seg == archive[i].segs[j]
           data == image.entries[j].data
           loc == LocAt(archive, a)
<1>8. /\ image.format = "bin" /\ image.entries \in Seq(Piece)
      /\ \A k \in DOMAIN image.entries : image.entries[k].data = G[image.entries[k].file]
      /\ archive[i].segs = Segments(image)
  BY DEF Restorable, Faithful
<1>9. SegAt(archive, a) = seg /\ loc = [image |-> image, offset |-> seg.offset, size |-> seg.size]
  BY <1>7 DEF SegAt, LocAt
<1>10. j \in DOMAIN image.entries /\ j \in Nat /\ seg.file = image.entries[j].file
       /\ seg = Segments(image)[j]
  BY <1>8 DEF Segments
<1>11. data = G[f]  BY <1>5, <1>8, <1>9, <1>10
<1> HIDE DEF image, seg, data
<1>12. /\ Flat(image) \in Seq(Byte) /\ data \in Seq(Byte) /\ seg.size = Len(data)
       /\ Holds(Flat(image), data, seg.offset)
  BY <1>8, <1>10, BinFound DEF data
<1>13. Located(loc, data)  BY <1>9, <1>12 DEF Located
<1>14. seg.offset \in Nat  BY <1>12 DEF Holds
<1>15. ~Sooner(archive, a, a)
  <2>1. a[1] \in Nat /\ a[2] \in Nat  BY <1>0, <1>7, <1>10
  <2> QED  BY <1>9, <1>14, <2>1 DEF Sooner
<1>16. at(1) = a
  <2>1. {y \in mine : Sooner(archive, y, a)} = {}  BY <1>4, <1>15
  <2>2. Cardinality({y \in mine : Sooner(archive, y, a)}) = 1 - 1  BY <2>1, FS_EmptySet
  <2> QED  BY <1>4, <2>2
<1> HIDE DEF at, loc
<1>17. locs = <<loc>>
  <2>1. order = [k \in {1} |-> a]
    <3>1. 1 .. 1 = {1}  OBVIOUS
    <3> QED  BY <1>3, <1>16, <3>1
  <2>2. locs = [k \in {1} |-> loc]  BY <1>1, <2>1 DEF loc
  <2> HIDE DEF locs
  <2> QED  BY <2>2
<1> QED  BY <1>11, <1>13, <1>17
==============================================================================
