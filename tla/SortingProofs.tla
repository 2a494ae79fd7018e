--------------------------- MODULE SortingProofs ---------------------------
(***************************************************************************)
(* Facts about Sorting: the sequence lists the set, and a finite set that  *)
(* is ordered has a first element.                                         *)
(***************************************************************************)
EXTENDS Sorting, FiniteSetTheorems, SequenceTheorems, TLAPS

\* A relation that puts any two elements of S in one order.
StrictOrder(S, before) ==
    /\ \A s \in S : <<s, s>> \notin before
    /\ \A s, t, u \in S : <<s, t>> \in before /\ <<t, u>> \in before => <<s, u>> \in before
    /\ \A s, t \in S : s = t \/ <<s, t>> \in before \/ <<t, s>> \in before

\* The elements of a sequence, each of S once.
Lists(seq, S) ==
    /\ seq \in Seq(S) /\ Len(seq) = Cardinality(S)
    /\ \A s \in S : \E i \in 1 .. Len(seq) : seq[i] = s
    /\ \A i, j \in 1 .. Len(seq) : seq[i] = seq[j] => i = j
-----------------------------------------------------------------------------
\* The rank of an element tells it from the others, and every rank is taken.
LEMMA RankProperties ==
    ASSUME NEW S, NEW before, IsFiniteSet(S), StrictOrder(S, before)
    PROVE  /\ \A s \in S : Rank(S, before, s) \in 0 .. Cardinality(S) - 1
           /\ \A s, t \in S : Rank(S, before, s) = Rank(S, before, t) => s = t
           /\ \A i \in 1 .. Cardinality(S) : \E s \in S : Rank(S, before, s) = i - 1
<1> DEFINE Before(s) == {t \in S : <<t, s>> \in before}
           n == Cardinality(S)
<1>1. n \in Nat
  BY FS_CardinalityType
<1>2. ASSUME NEW s \in S
      PROVE  /\ IsFiniteSet(Before(s)) /\ Cardinality(Before(s)) \in 0 .. n - 1
             /\ Rank(S, before, s) = Cardinality(Before(s))
  <2>1. Before(s) \in SUBSET (S \ {s})
    BY DEF StrictOrder
  <2>2. IsFiniteSet(S \ {s}) /\ Cardinality(S \ {s}) = n - 1
    BY FS_RemoveElement
  <2>3. Rank(S, before, s) = Cardinality(Before(s))
    BY DEF Rank
  <2> HIDE DEF Before
  <2>4. IsFiniteSet(Before(s)) /\ Cardinality(Before(s)) <= n - 1
    BY <2>1, <2>2, FS_Subset
  <2>5. Cardinality(Before(s)) \in Nat
    BY <2>4, FS_CardinalityType
  <2> QED BY <1>1, <2>3, <2>4, <2>5
<1>3. ASSUME NEW s \in S, NEW t \in S, <<s, t>> \in before
      PROVE  Cardinality(Before(s)) < Cardinality(Before(t))
  <2>1. Before(s) \in SUBSET Before(t) /\ Before(s) # Before(t)
    <3>1. Before(s) \subseteq Before(t)
      BY <1>3 DEF StrictOrder
    <3>2. s \in Before(t) /\ s \notin Before(s)
      BY <1>3 DEF StrictOrder
    <3> HIDE DEF Before
    <3> QED BY <3>1, <3>2
  <2> HIDE DEF Before, n
  <2>2. IsFiniteSet(Before(t)) /\ Cardinality(Before(t)) \in Int /\ Cardinality(Before(s)) \in Int
    BY <1>1, <1>2
  <2>3. Cardinality(Before(s)) <= Cardinality(Before(t))
        /\ Cardinality(Before(s)) # Cardinality(Before(t))
    BY <2>1, <2>2, FS_Subset
  <2> QED BY <2>2, <2>3
<1>4. ASSUME NEW s \in S, NEW t \in S, Cardinality(Before(s)) = Cardinality(Before(t))
      PROVE  s = t
  <2> HIDE DEF Before, n
  <2>1. Cardinality(Before(s)) \in Int /\ Cardinality(Before(t)) \in Int
    BY <1>1, <1>2
  <2>2. <<s, t>> \notin before
    BY <1>3, <1>4, <2>1
  <2>3. <<t, s>> \notin before
    BY <1>3, <1>4, <2>1
  <2> QED BY <2>2, <2>3 DEF StrictOrder
<1>5. \A i \in 1 .. n : \E s \in S : Cardinality(Before(s)) = i - 1
  <2> DEFINE f == [s \in S |-> Cardinality(Before(s))]
  <2>1. f \in Injection(S, 0 .. n - 1)
    BY <1>2, <1>4 DEF Injection, IsInjective
  <2>2. IsFiniteSet(0 .. n - 1) /\ Cardinality(0 .. n - 1) = n
    BY <1>1, FS_Interval
  <2>3. f \in Surjection(S, 0 .. n - 1)
    BY <2>1, <2>2, FS_Injection
  <2>4. \A i \in 1 .. n : \E s \in S : f[s] = i - 1
    <3>1. \A i \in 1 .. n : i - 1 \in 0 .. n - 1
      BY <1>1
    <3> HIDE DEF f, n
    <3> QED BY <2>3, <3>1 DEF Surjection
  <2>5. \A s \in S : f[s] = Cardinality(Before(s))
    OBVIOUS
  <2> HIDE DEF f
  <2> QED BY <2>4, <2>5
<1> QED BY <1>1, <1>2, <1>4, <1>5

\* Sorting: the sequence has every element of the set once.
LEMMA OrderedLists ==
    ASSUME NEW S, NEW before, IsFiniteSet(S), StrictOrder(S, before)
    PROVE  Lists(Ordered(S, before), S)
<1> DEFINE n == Cardinality(S)
           seq == Ordered(S, before)
<1>1. n \in Nat
  BY FS_CardinalityType
<1>2. seq = [i \in 1 .. n |-> CHOOSE s \in S : Rank(S, before, s) = i - 1]
  BY DEF Ordered
<1>3. \A i \in 1 .. n : seq[i] \in S /\ Rank(S, before, seq[i]) = i - 1
  BY <1>2, RankProperties
<1>4. seq \in Seq(S) /\ Len(seq) = n
  BY <1>1, <1>2, <1>3
<1>5. ASSUME NEW s \in S PROVE \E i \in 1 .. Len(seq) : seq[i] = s
  <2> DEFINE i == Rank(S, before, s) + 1
  <2>1. i \in 1 .. n /\ Rank(S, before, s) = i - 1
    BY <1>1, RankProperties
  <2>2. Rank(S, before, seq[i]) = Rank(S, before, s) /\ seq[i] \in S
    BY <1>3, <2>1
  <2>3. seq[i] = s
    BY <2>2, RankProperties
  <2> QED BY <1>4, <2>1, <2>3
<1>6. \A i, j \in 1 .. n : seq[i] = seq[j] => i = j
  BY <1>1, <1>3
<1> QED BY <1>4, <1>5, <1>6 DEF Lists

LEMMA FirstExists ==
    ASSUME NEW S, NEW before, IsFiniteSet(S), S # {}, StrictOrder(S, before)
    PROVE  \E n \in S : \A m \in S : m = n \/ <<n, m>> \in before
<1>1. Cardinality(S) \in Nat /\ Cardinality(S) # 0
  BY FS_CardinalityType, FS_EmptySet
<1>2. 1 \in 1 .. Cardinality(S) /\ 1 - 1 = 0
  BY <1>1
<1>3. \A i \in 1 .. Cardinality(S) : \E n \in S : Rank(S, before, n) = i - 1
  BY RankProperties
<1>4. PICK n \in S : Rank(S, before, n) = 0
  BY <1>2, <1>3
<1>5. {m \in S : <<m, n>> \in before} = {}
  <2>1. IsFiniteSet({m \in S : <<m, n>> \in before})
    BY FS_Subset
  <2> QED BY <1>4, <2>1, FS_EmptySet DEF Rank
<1> QED BY <1>5 DEF StrictOrder

LEMMA MaxExists ==
    ASSUME NEW S \in SUBSET Nat, IsFiniteSet(S), S # {}
    PROVE  \E n \in S : \A m \in S : m <= n
<1> DEFINE before == {p \in S \X S : p[1] > p[2]}
<1>1. StrictOrder(S, before)
  BY DEF StrictOrder
<1>2. \A m, n \in S : m = n \/ <<n, m>> \in before => m <= n
  OBVIOUS
<1> HIDE DEF before
<1>3. \E n \in S : \A m \in S : m = n \/ <<n, m>> \in before
  BY <1>1, FirstExists
<1> QED BY <1>2, <1>3
=============================================================================
