-------------------------- MODULE PlanStepsProofs --------------------------
(***************************************************************************)
(* Facts about the operators of PlanSteps for every plan: the orders of    *)
(* its steps and the batches cut from a frontier.                          *)
(***************************************************************************)
EXTENDS PlanSteps, SortingProofs
-----------------------------------------------------------------------------
LEMMA StepsFinite ==
    /\ IsFiniteSet(Steps) /\ Steps \subseteq Nat
    /\ \A S \in SUBSET Steps : IsFiniteSet(S) /\ Cardinality(S) \in Nat
<1>1. NumSteps \in Nat /\ Steps \subseteq Nat
  BY PlanAssumption DEF Steps
<1>2. IsFiniteSet(Steps)
  BY <1>1, FS_Interval DEF Steps
<1> QED BY <1>1, <1>2, FS_Subset, FS_CardinalityType

(***************************************************************************)
(* The two orders of the steps.                                            *)
(***************************************************************************)
LEMMA RoundType == \A s : Round(s) \in Nat
<1> TAKE s
<1>1. NumSteps \in Nat
  BY PlanAssumption
<1>2. IsFiniteSet(0 .. NumSteps)
  BY <1>1, FS_Interval
<1>3. IsFiniteSet({n \in 0 .. NumSteps : s \notin OrderedAfter[n]})
  BY <1>2, FS_Subset
<1> QED BY <1>3, FS_CardinalityType DEF Round

\* Both orders put the elements of a set of steps in a sequence.
LEMMA SortedSteps ==
    ASSUME NEW S \in SUBSET Steps
    PROVE  Lists(PlanOrder(S), S) /\ Lists(TopologicalOrder(S), S)
<1>1. IsFiniteSet(S) /\ S \subseteq Nat
  BY StepsFinite
<1>2. StrictOrder(S, PlanBefore)
  BY <1>1 DEF StrictOrder, PlanBefore
<1>3. StrictOrder(S, TopologicallyBefore)
  BY <1>1, RoundType DEF StrictOrder, TopologicallyBefore
<1> QED BY <1>1, <1>2, <1>3, OrderedLists DEF PlanOrder, TopologicalOrder

(***************************************************************************)
(* Batches.                                                                *)
(***************************************************************************)

\* A batch: steps without repetition, and more than one only if every one of
\* them may overlap with the others.
IsBatch(queue) ==
    /\ queue \in Seq(Steps) /\ Len(queue) > 0
    /\ \A i, j \in 1 .. Len(queue) : queue[i] = queue[j] => i = j
    /\ Len(queue) > 1 => \A i \in 1 .. Len(queue) : queue[i] \in ParallelSafe

\* What is cut from the front of a list of steps is a batch of these steps.
LEMMA ExecutionBatchIsBatch ==
    ASSUME NEW S \in SUBSET Steps, NEW ready, Lists(ready, S), Len(ready) > 0
    PROVE  /\ IsBatch(ExecutionBatch(ready))
           /\ \A i \in 1 .. Len(ExecutionBatch(ready)) : ExecutionBatch(ready)[i] \in S
<1> DEFINE fits == {n \in 2 .. Len(ready) :
                      n <= MaxParallel /\ \A i \in 1 .. n : ready[i] \in ParallelSafe}
           last == IF fits = {} THEN 1 ELSE CHOOSE n \in fits : \A m \in fits : m <= n
           batch == SubSeq(ready, 1, last)
<1>1. /\ ready \in Seq(S) /\ Len(ready) \in Nat \ {0}
      /\ \A i, j \in 1 .. Len(ready) : ready[i] = ready[j] => i = j
  BY LenProperties DEF Lists
<1>2. last \in 1 .. Len(ready) /\ (last > 1 => last \in fits)
  <2>1. CASE fits = {}
    BY <1>1, <2>1
  <2>2. CASE fits # {}
    <3>1. IsFiniteSet(fits) /\ fits \in SUBSET Nat
      <4>1. IsFiniteSet(2 .. Len(ready))
        BY <1>1, FS_Interval
      <4> QED BY <4>1, FS_Subset
    <3>2. \E n \in fits : \A m \in fits : m <= n
      <4> HIDE DEF fits
      <4> QED BY <2>2, <3>1, MaxExists
    <3>3. last \in fits
      BY <2>2, <3>2
    <3>4. fits \subseteq 2 .. Len(ready)
      OBVIOUS
    <3>5. last \in 2 .. Len(ready)
      <4> HIDE DEF last, fits
      <4> QED BY <3>3, <3>4
    <3> HIDE DEF last, fits
    <3> QED BY <1>1, <3>3, <3>5
  <2> QED BY <2>1, <2>2
<1>3. ExecutionBatch(ready) = batch
  BY DEF ExecutionBatch
<1> HIDE DEF last
<1>4. /\ batch \in Seq(S) /\ Len(batch) = last
      /\ \A i \in 1 .. last : batch[i] = ready[i]
  <2>1. \A i \in 1 .. last : ready[i] \in S
    BY <1>1, <1>2, ElementOfSeq
  <2> QED BY <1>1, <1>2, <2>1, SubSeqProperties
<1>5. batch \in Seq(Steps)
  BY <1>4, SeqMonotonic
<1>6. last > 1 => \A i \in 1 .. last : batch[i] \in ParallelSafe
  BY <1>2, <1>4
<1>7. \A i \in 1 .. last : batch[i] \in S
  BY <1>4, ElementOfSeq
<1>8. \A i, j \in 1 .. last : batch[i] = batch[j] => i = j
  <2>1. \A i \in 1 .. last : i \in 1 .. Len(ready)
    BY <1>1, <1>2
  <2> HIDE DEF batch
  <2> QED BY <1>1, <1>4, <2>1
<1> HIDE DEF batch
<1> QED BY <1>2, <1>3, <1>4, <1>5, <1>6, <1>7, <1>8 DEF IsBatch
=============================================================================
