--------------------------------- MODULE Order ---------------------------------
(***************************************************************************)
(* The elements of a finite set, none of which is equal to another in the  *)
(* order: what ORDER BY and sort.Slice yield for them.                     *)
(***************************************************************************)
EXTENDS Naturals, FiniteSets

\* The i-th element has i - 1 elements before it.
InOrder(S, before(_, _)) ==
    [i \in 1 .. Cardinality(S) |->
        CHOOSE x \in S : Cardinality({y \in S : before(y, x)}) = i - 1]
==============================================================================
