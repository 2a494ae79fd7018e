------------------------------ MODULE Sorting ------------------------------
(***************************************************************************)
(* sorted() and ORDER BY: a finite set as the sequence in which an order,  *)
(* given as a set of pairs, puts its elements.  (The community modules     *)
(* sort with an operator, which no proof can take as a parameter.)         *)
(***************************************************************************)
EXTENDS Integers, FiniteSets

\* The number of elements that come before s.
Rank(S, before, s) == Cardinality({t \in S : <<t, s>> \in before})

Ordered(S, before) ==
    [i \in 1 .. Cardinality(S) |-> CHOOSE s \in S : Rank(S, before, s) = i - 1]
=============================================================================
