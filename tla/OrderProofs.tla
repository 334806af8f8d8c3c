----------------------------- MODULE OrderProofs -----------------------------
(***************************************************************************)
(* What the other proofs use in place of induction theorems, which have an *)
(* operator for a parameter: minimal counterexamples.  With them, the      *)
(* facts about sorting a finite set, and about folds over a sequence.      *)
(***************************************************************************)
EXTENDS Order, Folds, FiniteSetsExt, FiniteSetTheorems, WellFoundedInduction, TLAPS

\* A non-empty set of natural numbers has a least element.
LEMMA LeastNat ==
    ASSUME NEW U \in SUBSET Nat, U # {}
    PROVE  \E n \in U : \A m \in U : n <= m
<1> DEFINE R == OpToRel(<, Nat)
<1>1. R = {ss \in Nat \X Nat : ss[1] < ss[2]}
  BY Zenon DEF OpToRel
<1>2. IsWellFoundedOn(R, Nat)
  BY NatLessThanWellFounded, Zenon
<1> HIDE DEF R
<1>3. PICK n \in U : \A x \in U : <<x, n>> \notin R
  BY <1>2, WFMin, Zenon
<1>4. \A x \in U : ~(x < n)
  BY <1>1, <1>3
<1> QED  BY <1>3, <1>4

\* The largest element of a bounded set of natural numbers exists.
LEMMA MaxOfBounded ==
    ASSUME NEW B \in Nat, NEW S \in SUBSET (0 .. B), S # {}
    PROVE  Max(S) \in S /\ \A y \in S : Max(S) >= y
<1> DEFINE U == {n \in Nat : \A x \in S : x <= n}
<1>1. U \in SUBSET Nat /\ U # {}
  <2>1. B \in U  OBVIOUS
  <2> QED  BY <2>1
<1>2. PICK n \in U : \A m \in U : n <= m  BY <1>1, LeastNat
<1>3. n \in S
  <2>1. SUFFICES ASSUME n \notin S PROVE FALSE  OBVIOUS
  <2>2. PICK y \in S : TRUE  OBVIOUS
  <2>3. n \in Nat /\ y \in Nat /\ y <= n /\ y # n  BY <2>1, <2>2
  <2>4. n - 1 \in U  BY <2>1, <2>3
  <2> QED  BY <1>2, <2>3, <2>4
<1>4. \A y \in S : n >= y  BY <1>2
<1> QED  BY <1>3, <1>4 DEF Max

\* A non-empty set of subsets of a finite set has an element none of whose
\* predecessors is in it: the induction step of what follows.
LEMMA MinimalSubset ==
    ASSUME NEW S, IsFiniteSet(S), NEW Bad \in SUBSET (SUBSET S), Bad # {}
    PROVE  \E s \in Bad : \A x \in s : s \ {x} \notin Bad
<1>1. \A s \in SUBSET S : IsFiniteSet(s) /\ Cardinality(s) \in Nat
  BY FS_Subset, FS_CardinalityType
<1> DEFINE C == {Cardinality(s) : s \in Bad}
<1>2. C \in SUBSET Nat /\ C # {}  BY <1>1
<1>3. PICK s \in Bad : \A t \in Bad : Cardinality(s) <= Cardinality(t)
  <2> HIDE DEF C
  <2>1. PICK n \in C : \A m \in C : n <= m  BY <1>2, LeastNat
  <2> QED  BY <2>1 DEF C
<1>4. ASSUME NEW x \in s PROVE s \ {x} \notin Bad
  <2>1. Cardinality(s \ {x}) = Cardinality(s) - 1
    BY <1>1, FS_RemoveElement
  <2> QED  BY <1>1, <1>3, <2>1
<1> QED  BY <1>4


(***************************************************************************)
(* Sorting                                                                 *)
(***************************************************************************)

\* R orders S strictly, and any two elements.
Orders(R, S) ==
    /\ \A x \in S : <<x, x>> \notin R
    /\ \A x, y \in S : x = y \/ <<x, y>> \in R \/ <<y, x>> \in R
    /\ \A x, y, z \in S : <<x, y>> \in R /\ <<y, z>> \in R => <<x, z>> \in R

Below(R, S, x) == {y \in S : <<y, x>> \in R}

Sorted(R, S) ==
    [i \in 1 .. Cardinality(S) |-> CHOOSE x \in S : Cardinality(Below(R, S, x)) = i - 1]

\* The number of elements below grows along the order, so it is different for any
\* two, and there are as many numbers as elements: each is one's.
LEMMA Ranks ==
    ASSUME NEW S, IsFiniteSet(S), NEW R, Orders(R, S)
    PROVE  /\ \A x \in S : Cardinality(Below(R, S, x)) \in 0 .. Cardinality(S) - 1
           /\ \A x, y \in S : <<x, y>> \in R =>
                Cardinality(Below(R, S, x)) < Cardinality(Below(R, S, y))
           /\ \A i \in 1 .. Cardinality(S) : \E x \in S : Cardinality(Below(R, S, x)) = i - 1
<1> DEFINE n == Cardinality(S)
           f == [x \in S |-> Cardinality(Below(R, S, x))]
<1>0. n \in Nat  BY FS_CardinalityType
<1>1. ASSUME NEW x \in S
      PROVE  /\ IsFiniteSet(Below(R, S, x)) /\ Cardinality(Below(R, S, x)) \in Nat
             /\ Cardinality(Below(R, S, x)) < n
  <2>1. Below(R, S, x) \in SUBSET S /\ x \notin Below(R, S, x)  BY DEF Orders, Below
  <2>2. /\ IsFiniteSet(Below(R, S, x)) /\ Cardinality(Below(R, S, x)) <= n
        /\ n = Cardinality(Below(R, S, x)) => S = Below(R, S, x)
    BY <2>1, FS_Subset
  <2>3. Cardinality(Below(R, S, x)) \in Nat  BY <2>2, FS_CardinalityType
  <2>4. n # Cardinality(Below(R, S, x))  BY <2>1, <2>2
  <2> HIDE DEF n
  <2> QED  BY <1>0, <2>2, <2>3, <2>4
<1>2. ASSUME NEW x \in S, NEW y \in S, <<x, y>> \in R
      PROVE  Cardinality(Below(R, S, x)) < Cardinality(Below(R, S, y))
  <2>1. Below(R, S, x) \in SUBSET Below(R, S, y)
    BY <1>2 DEF Orders, Below
  <2>2. x \in Below(R, S, y) /\ x \notin Below(R, S, x)
    BY <1>2 DEF Orders, Below
  <2>3. /\ Cardinality(Below(R, S, x)) <= Cardinality(Below(R, S, y))
        /\ Cardinality(Below(R, S, y)) = Cardinality(Below(R, S, x)) =>
             Below(R, S, y) = Below(R, S, x)
    BY <1>1, <2>1, FS_Subset
  <2>4. Cardinality(Below(R, S, y)) # Cardinality(Below(R, S, x))  BY <2>2, <2>3
  <2> QED  BY <1>1, <2>3, <2>4
<1>3. /\ IsFiniteSet(0 .. n - 1) /\ Cardinality(0 .. n - 1) = n
  <2> HIDE DEF n
  <2>1. 0 \in Int /\ n - 1 \in Int  BY <1>0
  <2>2. IsFiniteSet(0 .. n - 1) /\ Cardinality(0 .. n - 1) = IF 0 > n - 1 THEN 0 ELSE n - 1 - 0 + 1
    BY <2>1, FS_Interval
  <2> QED  BY <1>0, <2>2
<1>4. f \in Injection(S, 0 .. n - 1)
  <2>1. f \in [S -> 0 .. n - 1]  BY <1>0, <1>1
  <2>2. ASSUME NEW x \in S, NEW y \in S, f[x] = f[y] PROVE x = y
    <3>1. ~(<<x, y>> \in R) /\ ~(<<y, x>> \in R)
      <4>1. /\ <<x, y>> \in R => f[x] < f[y]
            /\ <<y, x>> \in R => f[y] < f[x]
        BY <1>2
      <4>2. f[x] \in Nat /\ f[y] \in Nat  BY <1>1
      <4> QED  BY <2>2, <4>1, <4>2
    <3> QED  BY <3>1 DEF Orders
  <2> HIDE DEF f
  <2> QED  BY <2>1, <2>2 DEF Injection, IsInjective
<1>5. f \in Surjection(S, 0 .. n - 1)
  <2> HIDE DEF f, n
  <2>1. Cardinality(S) = Cardinality(0 .. n - 1)  BY <1>3 DEF n
  <2> QED  BY <1>3, <1>4, <2>1, FS_Injection
<1>6. ASSUME NEW i \in 1 .. n PROVE \E x \in S : f[x] = i - 1
  <2>1. i - 1 \in 0 .. n - 1  BY <1>0
  <2> HIDE DEF f, n
  <2> QED  BY <1>5, <2>1 DEF Surjection
<1>7. \A x \in S : Cardinality(Below(R, S, x)) \in 0 .. n - 1  BY <1>0, <1>1
<1> QED  BY <1>2, <1>6, <1>7

\* Sorting keeps the elements and puts them in order.
LEMMA SortedRight ==
    ASSUME NEW S, IsFiniteSet(S), NEW R, Orders(R, S)
    PROVE  /\ Cardinality(S) \in Nat
           /\ Sorted(R, S) \in [1 .. Cardinality(S) -> S]
           /\ \A x \in S : \E i \in 1 .. Cardinality(S) : Sorted(R, S)[i] = x
           /\ \A i, j \in 1 .. Cardinality(S) : i < j => <<Sorted(R, S)[i], Sorted(R, S)[j]>> \in R
<1> DEFINE n == Cardinality(S)
           rank(x) == Cardinality(Below(R, S, x))
<1>0. n \in Nat  BY FS_CardinalityType
<1>1. /\ \A x \in S : rank(x) \in 0 .. n - 1
      /\ \A x, y \in S : <<x, y>> \in R => rank(x) < rank(y)
      /\ \A i \in 1 .. n : \E x \in S : rank(x) = i - 1
  BY Ranks
<1>2. \A i \in 1 .. n : Sorted(R, S)[i] = CHOOSE x \in S : rank(x) = i - 1
  BY DEF Sorted
<1>3. Sorted(R, S) = [i \in 1 .. n |-> Sorted(R, S)[i]]  BY DEF Sorted
<1> HIDE DEF n, rank
<1>4. \A i \in 1 .. n : Sorted(R, S)[i] \in S /\ rank(Sorted(R, S)[i]) = i - 1
  BY <1>1, <1>2
<1>5. \A x, y \in S : rank(x) = rank(y) => x = y
  <2> SUFFICES ASSUME NEW x \in S, NEW y \in S, rank(x) = rank(y), x # y PROVE FALSE  OBVIOUS
  <2>1. <<x, y>> \in R \/ <<y, x>> \in R  BY DEF Orders
  <2>2. rank(x) < rank(y) \/ rank(y) < rank(x)  BY <1>1, <2>1
  <2> QED  BY <1>1, <2>2
<1>6. ASSUME NEW x \in S PROVE \E i \in 1 .. n : Sorted(R, S)[i] = x
  <2>1. rank(x) + 1 \in 1 .. n /\ (rank(x) + 1) - 1 = rank(x)  BY <1>0, <1>1
  <2> QED  BY <1>4, <1>5, <2>1
<1>7. ASSUME NEW i \in 1 .. n, NEW j \in 1 .. n, i < j
      PROVE  <<Sorted(R, S)[i], Sorted(R, S)[j]>> \in R
  <2> DEFINE x == Sorted(R, S)[i]
             y == Sorted(R, S)[j]
  <2>1. x \in S /\ y \in S /\ rank(x) = i - 1 /\ rank(y) = j - 1  BY <1>4
  <2> HIDE DEF x, y
  <2>2. x # y /\ ~(rank(y) < rank(x))  BY <1>0, <1>7, <2>1
  <2>3. <<x, y>> \in R  BY <1>1, <2>1, <2>2 DEF Orders
  <2> QED  BY <2>3 DEF x, y
<1>8. Sorted(R, S) \in [1 .. n -> S]  BY <1>3, <1>4
<1> QED  BY <1>0, <1>6, <1>7, <1>8 DEF n

(***************************************************************************)
(* Folds.  C picks the element of a subset that is folded last, F is the   *)
(* step.  What MapThenFoldSet defines by recursion over the subsets of S   *)
(* is a function that equals its own unfolding.                            *)
(***************************************************************************)

FoldStep(F, C, base, g, T) == IF T = {} THEN base ELSE F[<<g[T \ {C[T]}], C[T]>>]

IsFold(g, F, C, base, S) == g = [T \in SUBSET S |-> FoldStep(F, C, base, g, T)]

\* There is one: by induction over the size of the subsets it is defined on.
LEMMA FoldExists ==
    ASSUME NEW S, IsFiniteSet(S), NEW F, NEW base, NEW C,
           \A T \in SUBSET S : T # {} => C[T] \in T
    PROVE  \E g : IsFold(g, F, C, base, S)
<1> DEFINE Level(n) == {T \in SUBSET S : Cardinality(T) <= n}
           IsLevel(n, h) == h = [T \in Level(n) |-> FoldStep(F, C, base, h, T)]
           U == {n \in Nat : \A h : ~IsLevel(n, h)}
<1>0. \A T \in SUBSET S : IsFiniteSet(T) /\ Cardinality(T) \in Nat
  BY FS_Subset, FS_CardinalityType
<1>1. U = {}
  <2> SUFFICES ASSUME U # {} PROVE FALSE  OBVIOUS
  <2>1. PICK n \in U : \A m \in U : n <= m  BY LeastNat
  <2>2. CASE n = 0
    <3> DEFINE h == [T \in Level(0) |-> base]
    <3>1. \A T \in Level(0) : T = {}
      BY <1>0, FS_EmptySet
    <3>2. IsLevel(0, h)  BY <3>1 DEF FoldStep
    <3> QED  BY <2>1, <2>2, <3>2
  <2>3. CASE n # 0
    <3>1. n - 1 \in Nat /\ n - 1 \notin U  BY <2>1, <2>3
    <3>2. PICK h : IsLevel(n - 1, h)  BY <3>1
    <3> DEFINE k == [T \in Level(n) |-> FoldStep(F, C, base, h, T)]
    <3>3. ASSUME NEW T \in Level(n), T # {}
          PROVE  T \ {C[T]} \in Level(n - 1) /\ T \ {C[T]} \in Level(n)
      <4>1. Cardinality(T \ {C[T]}) = Cardinality(T) - 1
        BY <1>0, <3>3, FS_RemoveElement
      <4> QED  BY <1>0, <3>1, <4>1
    <3>4. ASSUME NEW T \in Level(n - 1), T \in Level(n) PROVE k[T] = h[T]
      BY <3>2, <3>4
    <3>5. \A T \in Level(n) : FoldStep(F, C, base, k, T) = FoldStep(F, C, base, h, T)
      BY <3>3, <3>4 DEF FoldStep
    <3>6. k = [T \in Level(n) |-> FoldStep(F, C, base, k, T)]  BY <3>5
    <3> QED  BY <2>1, <3>6
  <2> QED  BY <2>2, <2>3
<1>2. PICK h : IsLevel(Cardinality(S), h)
  <2>1. Cardinality(S) \in Nat  BY FS_CardinalityType
  <2> HIDE DEF IsLevel
  <2> QED  BY <1>1, <2>1
<1>3. Level(Cardinality(S)) = SUBSET S
  BY FS_Subset
<1> QED  BY <1>2, <1>3 DEF IsFold

\* It has its values where the step has them.
LEMMA FoldTyped ==
    ASSUME NEW S, IsFiniteSet(S), NEW F, NEW base, NEW C, NEW X,
           \A T \in SUBSET S : T # {} => C[T] \in T,
           base \in X,
           \A x \in X, y \in S : F[<<x, y>>] \in X
    PROVE  \E g : /\ \A T \in SUBSET S : g[T] \in X
                  /\ IsFold(g, F, C, base, S)
<1>1. PICK g : IsFold(g, F, C, base, S)  BY FoldExists
<1>2. \A T \in SUBSET S : g[T] = FoldStep(F, C, base, g, T)  BY <1>1 DEF IsFold
<1> DEFINE Bad == {T \in SUBSET S : g[T] \notin X}
<1>3. Bad = {}
  <2> SUFFICES ASSUME Bad # {} PROVE FALSE  OBVIOUS
  <2>1. PICK T \in Bad : \A x \in T : T \ {x} \notin Bad  BY MinimalSubset
  <2>2. T # {}  BY <1>2, <2>1 DEF FoldStep
  <2>3. C[T] \in T /\ g[T \ {C[T]}] \in X  BY <2>1, <2>2
  <2>4. g[T] = F[<<g[T \ {C[T]}], C[T]>>]  BY <1>2, <2>2 DEF FoldStep
  <2> QED  BY <2>1, <2>3, <2>4
<1> QED  BY <1>1, <1>3

\* The subsets that a fold over a sequence goes through, the last element picked
\* first.
LEMMA UpToEach ==
    ASSUME NEW n \in Nat, NEW k \in 1 .. n
    PROVE  /\ 1 .. k \in SUBSET (1 .. n) /\ 1 .. k # {} /\ Max(1 .. k) = k
           /\ (1 .. k) \ {k} = 1 .. k - 1
<1>1. 1 .. k \in SUBSET (0 .. n) /\ 1 .. k # {} /\ k \in 1 .. k  OBVIOUS
<1>2. Max(1 .. k) \in 1 .. k /\ \A y \in 1 .. k : Max(1 .. k) >= y
  BY <1>1, MaxOfBounded
<1>3. Max(1 .. k) = k  BY <1>1, <1>2
<1>4. (1 .. k) \ {k} = 1 .. k - 1  OBVIOUS
<1> QED  BY <1>1, <1>3, <1>4

FoldsOver(g, F, base, n) ==
    g = [T \in SUBSET (1 .. n) |-> IF T = {} THEN base ELSE F[<<g[T \ {Max(T)}], Max(T)>>]]

\* Such a fold exists and has its values where the step F has them.
LEMMA FoldOver ==
    ASSUME NEW n \in Nat, NEW X, NEW base \in X, NEW F,
           \A x \in X, i \in 1 .. n : F[<<x, i>>] \in X
    PROVE  \E g : (\A T \in SUBSET (1 .. n) : g[T] \in X) /\ FoldsOver(g, F, base, n)
<1> DEFINE S == 1 .. n
           C == [T \in SUBSET S |-> Max(T)]
<1>1. IsFiniteSet(S)
  <2>1. 1 \in Int /\ n \in Int  OBVIOUS
  <2> QED  BY <2>1, FS_Interval
<1>2. \A T \in SUBSET S : C[T] = Max(T)  OBVIOUS
<1>3. \A T \in SUBSET S : T # {} => C[T] \in T
  <2> SUFFICES ASSUME NEW T \in SUBSET S, T # {} PROVE C[T] \in T  OBVIOUS
  <2>1. T \in SUBSET (0 .. n)  OBVIOUS
  <2>2. Max(T) \in T  BY <2>1, MaxOfBounded
  <2> QED  BY <1>2, <2>2
<1>4. \A x \in X, y \in S : F[<<x, y>>] \in X  OBVIOUS
<1> HIDE DEF S, C
<1>5. \E g : (\A T \in SUBSET S : g[T] \in X) /\ IsFold(g, F, C, base, S)
  BY <1>1, <1>3, <1>4, FoldTyped
<1>6. PICK g : (\A T \in SUBSET S : g[T] \in X) /\ IsFold(g, F, C, base, S)  BY <1>5
<1>7. \A T \in SUBSET S :
          FoldStep(F, C, base, g, T) = IF T = {} THEN base ELSE F[<<g[T \ {Max(T)}], Max(T)>>]
  BY <1>2 DEF FoldStep
<1>8. g = [T \in SUBSET S |-> IF T = {} THEN base ELSE F[<<g[T \ {Max(T)}], Max(T)>>]]
  BY <1>6, <1>7 DEF IsFold
<1>9. FoldsOver(g, F, base, n)  BY <1>8 DEF FoldsOver, S
<1> QED  BY <1>6, <1>9 DEF S
==============================================================================
