------------------------- MODULE AgentSessionProofs -------------------------
(***************************************************************************)
(* Proofs about AgentSession for every number of requests and processes,   *)
(* every policy of the conversation and every set of provider replies.     *)
(***************************************************************************)
EXTENDS AgentSession, SortingProofs, FunctionTheorems
-----------------------------------------------------------------------------
(***************************************************************************)
(* The turns a compaction takes.                                           *)
(***************************************************************************)
Turn == [request : DOMAIN Cost, archived : BOOLEAN]

LEMMA LeastExists ==
    ASSUME NEW S \in SUBSET Nat, IsFiniteSet(S), S # {}
    PROVE  \E n \in S : \A m \in S : n <= m
  <1> DEFINE before == {p \in S \X S : p[1] < p[2]}
  <1>1. StrictOrder(S, before)
    BY DEF StrictOrder
  <1>2. \A m, n \in S : m = n \/ <<n, m>> \in before => n <= m
    OBVIOUS
  <1> HIDE DEF before
  <1>3. \E n \in S : \A m \in S : m = n \/ <<n, m>> \in before
    BY <1>1, FirstExists
  <1> QED
    BY <1>2, <1>3

LEMMA FiniteTurns ==
    ASSUME turns \in Seq(Turn), NEW S \in SUBSET (1 .. Len(turns))
    PROVE  IsFiniteSet(S) /\ S \in SUBSET Nat
  <1>1. Len(turns) \in Nat
    OBVIOUS
  <1>2. IsFiniteSet(1 .. Len(turns))
    BY <1>1, FS_Interval
  <1>3. IsFiniteSet(S)
    BY <1>2, FS_Subset
  <1>4. \A n \in 1 .. Len(turns) : n \in Nat
    BY <1>1
  <1> QED
    BY <1>3, <1>4

LEMMA PendingIsInterval ==
    ASSUME turns \in Seq(Turn), NEW through \in 0 .. Len(turns)
    PROVE  Pending(through) = through + 1 .. Len(turns)
  BY DEF Pending

\* Nothing costs nothing: an empty conversation is not compacted.
LEMMA NoTurnsNoCompaction == ~NeedsCompaction({})
  <1>1. Tokens({}) = 0
    BY DEF Tokens, MapThenSumSet, MapThenFoldSet
  <1>2. Cardinality({}) = 0
    BY FS_EmptySet
  <1> QED
    BY <1>1, <1>2, PolicyAssumption DEF NeedsCompaction, Threshold

\* What is kept of the latest turns is among them.
LEMMA RecentIsSelected ==
    ASSUME turns \in Seq(Turn), NEW sequences \in SUBSET (1 .. Len(turns)), NEW rounds \in Nat
    PROVE  SelectRecent(sequences, rounds) \in SUBSET sequences
  <1> DEFINE suffix(k) == {n \in sequences : n >= k}
             fits(s) == Cardinality(s) <= rounds /\ Tokens(s) <= MaxRecentTokens
             suffixes == {suffix(k) : k \in 1 .. Len(turns) + 1}
             fitting == {s \in suffixes : fits(s)}
             starts == {k \in 1 .. Len(turns) + 1 : fits(suffix(k))}
  <1>1. Len(turns) \in Nat
    OBVIOUS
  <1>2. Len(turns) + 1 \in starts
    <2>1. suffix(Len(turns) + 1) = {}
      <3>1. \A n \in sequences : n \in Nat /\ n <= Len(turns)
        BY <1>1
      <3>2. \A n \in sequences : ~(n >= Len(turns) + 1)
        BY <1>1, <3>1
      <3> QED
        BY <3>2
    <2>2. Cardinality({}) = 0 /\ Tokens({}) = 0
      BY FS_EmptySet DEF Tokens, MapThenSumSet, MapThenFoldSet
    <2>3. fits({})
      BY <2>2, PolicyAssumption
    <2>4. Len(turns) + 1 \in 1 .. Len(turns) + 1
      BY <1>1
    <2> HIDE DEF fits, suffix
    <2> QED
      BY <2>1, <2>3, <2>4
  <1>3. \E k \in starts : \A j \in starts : k <= j
    <2>1. starts \in SUBSET Nat /\ IsFiniteSet(starts)
      <3>1. IsFiniteSet(1 .. Len(turns) + 1) /\ 1 .. Len(turns) + 1 \in SUBSET Nat
        <4>1. 1 \in Int /\ Len(turns) + 1 \in Int
          BY <1>1
        <4> QED
          BY <4>1, FS_Interval
      <3>2. starts \in SUBSET (1 .. Len(turns) + 1)
        OBVIOUS
      <3> HIDE DEF starts
      <3> QED
        BY <3>1, <3>2, FS_Subset
    <2> HIDE DEF starts
    <2> QED
      BY <1>2, <2>1, LeastExists
  <1>4. \E s \in fitting : \A t \in fitting : t \subseteq s
    <2>1. PICK k \in starts : \A j \in starts : k <= j
      BY <1>3
    <2>2. ASSUME NEW t \in fitting PROVE t \subseteq suffix(k)
      <3>1. PICK j \in 1 .. Len(turns) + 1 : t = suffix(j) /\ fits(t)
        OBVIOUS
      <3>2. j \in starts
        BY <3>1
      <3>3. k <= j /\ k \in Nat /\ j \in Nat
        BY <2>1, <3>2
      <3>4. \A n \in sequences : n \in Nat
        BY <1>1
      <3>5. \A n \in sequences : n >= j => n >= k
        BY <3>3, <3>4
      <3> HIDE DEF starts, fits
      <3> QED
        BY <3>1, <3>5
    <2>3. suffix(k) \in fitting
      BY <2>1
    <2> QED
      BY <2>2, <2>3
  <1>5. SelectRecent(sequences, rounds) \in fitting
    <2>1. SelectRecent(sequences, rounds) = CHOOSE s \in fitting : \A t \in fitting : t \subseteq s
      BY DEF SelectRecent
    <2> HIDE DEF fitting
    <2> QED
      BY <1>4, <2>1
  <1> QED
    BY <1>5

\* Whatever is kept, the turns before it are the first ones after the last
\* summarised one: with them the summary covers a longer prefix.
LEMMA SourceIsPrefix ==
    ASSUME turns \in Seq(Turn), NEW through \in 0 .. Len(turns), Pending(through) # {}
    PROVE  /\ Newest(SourceTurns(Pending(through))) \in through + 1 .. Len(turns)
           /\ SourceTurns(Pending(through))
                 = through + 1 .. Newest(SourceTurns(Pending(through)))
  <1> DEFINE pending == Pending(through)
             source == SourceTurns(pending)
  <1>1. pending = through + 1 .. Len(turns) /\ Len(turns) \in Nat /\ through \in Nat
    BY PendingIsInterval
  <1>2. pending \in SUBSET (1 .. Len(turns)) /\ pending # {}
    BY <1>1
  <1>3. pending \in SUBSET Nat /\ IsFiniteSet(pending)
    <2> HIDE DEF pending
    <2> QED
      BY <1>2, FiniteTurns
  <1> DEFINE kept == SelectRecent(pending, TargetRounds)
             before == {n \in pending : \A k \in kept : n < k}
             oldest == {n \in pending : \A k \in pending : n <= k}
  <1>4. source = IF before # {} THEN before ELSE oldest
    BY DEF SourceTurns
  <1>5. kept \in SUBSET pending
    <2> HIDE DEF pending
    <2> QED
      BY <1>2, RecentIsSelected, PolicyAssumption
  <1>6. oldest # {}
    <2>1. \E n \in pending : \A k \in pending : n <= k
      <3> HIDE DEF pending
      <3> QED
        BY <1>2, <1>3, LeastExists
    <2> QED
      BY <2>1
  <1>7. /\ source # {} /\ source \in SUBSET pending
        /\ \A n \in source, m \in pending : m <= n => m \in source
    <2>1. \A n \in before, m \in pending : m <= n => m \in before
      <3>1. SUFFICES ASSUME NEW n \in before, NEW m \in pending, m <= n
                     PROVE  \A k \in kept : m < k
        OBVIOUS
      <3>2. ASSUME NEW k \in kept PROVE m < k
        <4>1. n < k /\ n \in Nat /\ m \in Nat /\ k \in Nat
          BY <1>3, <1>5
        <4> QED
          BY <3>1, <4>1
      <3> QED
        BY <3>2
    <2>2. \A n \in oldest, m \in pending : m <= n => m \in oldest
      <3>1. ASSUME NEW n \in oldest, NEW m \in pending, m <= n PROVE m = n
        BY <1>3, <3>1
      <3> QED
        BY <3>1
    <2> HIDE DEF before, oldest
    <2>3. before \in SUBSET pending /\ oldest \in SUBSET pending
      BY DEF before, oldest
    <2> QED
      BY <1>4, <1>6, <2>1, <2>2, <2>3
  <1> HIDE DEF source, before, oldest, kept
  <1>8. \E n \in source : \A k \in source : k <= n
    <2>1. source \in SUBSET Nat /\ IsFiniteSet(source)
      BY <1>3, <1>7, FS_Subset
    <2> QED
      BY <1>7, <2>1, MaxExists
  <1>9. Newest(source) \in source /\ \A k \in source : k <= Newest(source)
    BY <1>8 DEF Newest
  <1>10. Newest(source) \in through + 1 .. Len(turns)
    BY <1>1, <1>7, <1>9
  <1>11. ASSUME NEW n \in through + 1 .. Newest(source) PROVE n \in source
    <2>1. n \in pending /\ n <= Newest(source)
      BY <1>1, <1>10
    <2> QED
      BY <1>7, <1>9, <2>1
  <1>12. ASSUME NEW n \in source PROVE n \in through + 1 .. Newest(source)
    BY <1>1, <1>7, <1>9, <1>10
  <1>13. source = through + 1 .. Newest(source)
    BY <1>11, <1>12
  <1> QED
    BY <1>10, <1>13 DEF source
-----------------------------------------------------------------------------
(***************************************************************************)
(* Budgets.                                                                *)
(***************************************************************************)

\* The one kind of reply that may cost more than the total, and how much more.
Excess(u) ==
    /\ u.input # Unreported /\ u.output = Unreported /\ u.total = Unreported
    /\ u.input + u.out <= MaxInput + MaxOutput

\* What complete_with_budget lets through costs no more than the budget's total,
\* also where the provider leaves numbers out and the text is estimated, unless
\* the provider counts the input alone.
LEMMA AdmittedIsAffordable ==
    ASSUME NEW size \in Nat
    PROVE  \A u \in Overspends(size) : Excess(u)
  <1> SUFFICES ASSUME NEW u \in Replies, Sendable(size), WithinBudget(size, u),
                      Charge(size, u) > MaxTotal
               PROVE  Excess(u)
    BY DEF Overspends, Admitted
  <1>1. /\ u.input \in Nat \cup {Unreported} /\ u.output \in Nat \cup {Unreported}
        /\ u.total \in Nat \cup {Unreported} /\ u.out \in Nat
        /\ MaxInput \in Nat /\ MaxOutput \in Nat /\ MaxTotal \in Nat
    BY ReplyAssumption DEF Reply
  <1>2. OutputCap(size) <= MaxOutput /\ OutputCap(size) <= MaxTotal - size
        /\ OutputCap(size) \in Int
    BY <1>1 DEF OutputCap, Smaller
  <1>3. u.total = Unreported
    BY <1>1 DEF WithinBudget, TotalOf, Charge
  <1>4. u.output = Unreported
    <2>1. CASE u.input = Unreported
      BY <1>1, <1>2, <1>3, <2>1 DEF WithinBudget, Charge
    <2>2. CASE u.input # Unreported
      BY <1>1, <1>3, <2>2 DEF WithinBudget, TotalOf, Charge
    <2> QED
      BY <2>1, <2>2
  <1>5. u.out <= OutputCap(size) /\ u.input <= MaxInput
    BY <1>4 DEF WithinBudget
  <1>6. u.input # Unreported
    BY <1>1, <1>2, <1>3, <1>4, <1>5 DEF Charge
  <1> QED
    BY <1>1, <1>2, <1>3, <1>4, <1>5, <1>6 DEF Excess

\* No phase of a request overspends in another way.
LEMMA ResultsAreAffordable ==
    ASSUME NEW mode, NEW result \in RunOnce(mode)
    PROVE  /\ result.mode \in {"raised", "chat", "task", "clarify"}
           /\ \A u \in result.over : Excess(u)
           /\ result.mode = "raised" => result = Raised
  <1> USE DEF Result, Raised, Plain
  <1>1. /\ \A u \in Overspends(PromptSize["chat"]) : Excess(u)
        /\ \A u \in Overspends(PromptSize["response"]) : Excess(u)
    BY ReplyAssumption, AdmittedIsAffordable DEF Phases
  <1>2. \A n \in 0 .. MaxRepairs : \A u \in Overspends(PlanPrompt(n)) : Excess(u)
    <2>1. \A n \in 0 .. MaxRepairs : PlanPrompt(n) \in Nat
      BY ReplyAssumption DEF PlanPrompt, Phases
    <2> QED
      BY <2>1, AdmittedIsAffordable
  <1> DEFINE Fine(x) ==
        /\ x.mode \in {"raised", "chat", "task", "clarify"}
        /\ \A u \in x.over : Excess(u)
        /\ x.mode = "raised" => x = Raised
  <1>3. \A x \in Chat : Fine(x)
    BY <1>1 DEF Chat
  <1>4. \A x \in Task : Fine(x)
    <2>1. ASSUME NEW x \in RunResults PROVE Fine(Presented(x))
      <3> DEFINE plans == UNION {Overspends(PlanPrompt(n)) : n \in 0 .. MaxRepairs}
                 text == IF HasModel /\ Verified(x) THEN Overspends(PromptSize["response"])
                         ELSE {}
      <3>1. \A u \in plans : Excess(u)
        BY <1>2
      <3>2. \A u \in text : Excess(u)
        BY <1>1
      <3>3. Presented(x) = [mode |-> "task", over |-> plans \cup text]
        BY DEF Presented
      <3> HIDE DEF plans, text
      <3> QED
        BY <3>1, <3>2, <3>3
    <2> QED
      BY <2>1 DEF Task
  <1>5. \A x \in Routed : Fine(x)
    BY <1>3, <1>4 DEF Routed
  <1> QED
    BY <1>3, <1>4, <1>5 DEF RunOnce
-----------------------------------------------------------------------------
(***************************************************************************)
(* Where requests are.                                                     *)
(***************************************************************************)

\* A request at one of these stages goes on without an await.
Holding == {"preparing", "capturing", "counting", "archiving", "inserting", "appending",
            "compacting", "listing", "storing"}

FlowInv ==
    /\ goal \in [Requests -> [mode : {"auto", "chat", "task"},
                              fact : Facts \cup {NoFact, EmptyFact}]]
    /\ stage \in [Requests -> Stages]
    /\ DOMAIN local = Requests
    /\ recorded \in [Requests -> BOOLEAN]
    /\ lock \in [Processes -> Requests \cup {NoRequest}]
    /\ running \in [Processes -> Requests \cup {NoRequest}]
    /\ crashes \in 0 .. MaxCrashes /\ pins \in 0 .. MaxPins
    /\ \A r \in Requests :
        /\ stage[r] \in Holding => running[Process[r]] = r
        /\ stage[r] \in {"counting", "archiving", "inserting"} => goal[r].fact \in Facts

LEMMA ProcessOf == \A r \in Requests : Process[r] \in Processes
  BY DEF Processes

LEMMA FlowInit == Init => FlowInv
  <1> SUFFICES ASSUME Init PROVE FlowInv
    OBVIOUS
  <1>1. goal \in [Requests -> [mode : {"auto", "chat", "task"},
                               fact : Facts \cup {NoFact, EmptyFact}]]
    BY SessionAssumption DEF Init
  <1> QED
    BY <1>1, SessionAssumption DEF Init, FlowInv, Stages, Holding

\* A request moves nothing of another one.
Apart(r) ==
    \A q \in Requests \ {r} :
        /\ stage'[q] = stage[q] /\ local'[q] = local[q] /\ context'[q] = context[q]
        /\ answer'[q] = answer[q] /\ recorded'[q] = recorded[q]

CallSteps(r) ==
    \/ CaptureNothing(r) \/ CaptureAnswers(r) \/ CaptureIsNew(r) \/ CaptureCounts(r)
    \/ CaptureRaises(r)
    \/ ArchiveVictim(r) \/ ArchiveIsStale(r) \/ InsertFact(r) \/ Answer(r)

SessionSteps(r) ==
    \/ PrepareReadsSummary(r) \/ PrepareSelectsTurns(r) \/ PrepareFails(r)
    \/ AppendReadsSequence(r) \/ AppendInserts(r) \/ AppendFails(r)
    \/ CompactReadsSummary(r) \/ CompactSelectsSource(r)
    \/ SummaryArrives(r) \/ SummaryFails(r)
    \/ CompactionStored(r) \/ CompactionFails(r)

LEMMA TwoKinds == \A r \in Requests : Step(r) => CallSteps(r) \/ SessionSteps(r)
  BY DEF Step, CallSteps, SessionSteps

FlowTypes ==
    /\ DOMAIN stage = Requests /\ DOMAIN local = Requests /\ DOMAIN context = Requests
    /\ DOMAIN answer = Requests /\ DOMAIN recorded = Requests

LEMMA StepIsApart ==
    ASSUME FlowTypes, NEW r \in Requests, Step(r)
    PROVE  Apart(r)
  <1> USE DEF FlowTypes, Apart, Go, Answered, Raise, Finish
  <1>1. CASE CallSteps(r)
    BY <1>1 DEF CallSteps, CaptureNothing, CaptureAnswers, CaptureIsNew, CaptureCounts,
                  CaptureRaises,
                ArchiveVictim, ArchiveIsStale, InsertFact, Answer
  <1>2. CASE SessionSteps(r)
    BY <1>2 DEF SessionSteps, PrepareReadsSummary, PrepareSelectsTurns, PrepareFails,
                AppendReadsSequence, AppendInserts, AppendFails, CompactReadsSummary,
                CompactSelectsSource, SummaryArrives, SummaryFails, CompactionStored,
                CompactionFails
  <1> QED
    BY <1>1, <1>2, TwoKinds

\* While a request runs no other one of its process is between two awaits.
LEMMA OthersWait ==
    ASSUME FlowInv, NEW r \in Requests, running[Process[r]] \in {r, NoRequest}
    PROVE  \A q \in Requests \ {r} : Process[q] = Process[r] => stage[q] \notin Holding
  BY SessionAssumption DEF FlowInv

LEMMA FlowFrame ==
    ASSUME FlowInv, NEW r \in Requests, running[Process[r]] \in {r, NoRequest},
           goal' = goal, crashes' = crashes, pins' = pins, DOMAIN local' = Requests,
           NEW to \in Stages, stage' = [stage EXCEPT ![r] = to],
           recorded' \in [Requests -> BOOLEAN],
           lock' \in [Processes -> Requests \cup {NoRequest}],
           NEW runner \in {r, NoRequest, running[Process[r]]},
           running' = [running EXCEPT ![Process[r]] = runner],
           to \in Holding => runner = r,
           to \in {"counting", "archiving", "inserting"} => goal[r].fact \in Facts
    PROVE  FlowInv'
  <1>1. runner \in Requests \cup {NoRequest} /\ Process[r] \in Processes
    BY ProcessOf DEF FlowInv
  <1>2. stage' \in [Requests -> Stages] /\ running' \in [Processes -> Requests \cup {NoRequest}]
    BY <1>1 DEF FlowInv
  <1>3. ASSUME NEW q \in Requests
        PROVE  /\ stage'[q] \in Holding => running'[Process[q]] = q
               /\ stage'[q] \in {"counting", "archiving", "inserting"} => goal'[q].fact \in Facts
    <2>1. CASE q = r
      BY <1>1, <2>1 DEF FlowInv
    <2>2. CASE q # r
      <3>1. stage'[q] = stage[q]
        BY <2>2 DEF FlowInv
      <3>2. stage[q] \in Holding => Process[q] # Process[r]
        BY <2>2, OthersWait
      <3> QED
        BY <1>1, <3>1, <3>2, ProcessOf DEF FlowInv
    <2> QED
      BY <2>1, <2>2
  <1> QED
    BY <1>2, <1>3 DEF FlowInv

LEMMA FlowStep ==
    ASSUME FlowInv, [Next]_vars
    PROVE  FlowInv'
  <1>1. CASE UNCHANGED vars
    BY <1>1 DEF vars, requestVars, processVars, bounds, FlowInv
  <1>2. CASE PinReads \/ PinWrites
    BY <1>2, SessionAssumption DEF PinReads, PinWrites, requestVars, processVars, FlowInv
  <1>3. ASSUME NEW p \in Processes, Crash(p) PROVE FlowInv'
    BY <1>3, SessionAssumption, ProcessOf DEF Crash, FlowInv, Stages, Ended, Holding
  <1>4. ASSUME NEW r \in Requests, Step(r) PROVE FlowInv'
    <2>1. running[Process[r]] \in {r, NoRequest}
      BY <1>4 DEF Step, At, PrepareReadsSummary, PrepareSelectsTurns, PrepareFails,
                  CaptureNothing, CaptureAnswers, CaptureIsNew, CaptureCounts,
                  CaptureRaises, ArchiveVictim,
                  ArchiveIsStale, InsertFact, Answer, AppendReadsSequence, AppendInserts,
                  AppendFails, CompactReadsSummary, CompactSelectsSource, SummaryArrives,
                  SummaryFails, CompactionStored, CompactionFails
    <2> DEFINE Held == running' = [running EXCEPT ![Process[r]] = r]
               Free == running' = [running EXCEPT ![Process[r]] = NoRequest]
               Same == running' = running /\ running[Process[r]] = r
               Unmoved == /\ goal' = goal /\ crashes' = crashes /\ pins' = pins
                       /\ DOMAIN local' = Requests
                       /\ recorded' \in [Requests -> BOOLEAN]
                       /\ lock' \in [Processes -> Requests \cup {NoRequest}]
               To(to) == stage' = [stage EXCEPT ![r] = to]
    <2>2. running' = running => running' = [running EXCEPT ![Process[r]] = running[Process[r]]]
      BY ProcessOf DEF FlowInv
    <2>3. ASSUME Unmoved, NEW to \in Stages, To(to), Held,
                 to \in {"counting", "archiving", "inserting"} => goal[r].fact \in Facts
          PROVE  FlowInv'
      BY <2>1, <2>3, FlowFrame
    <2>4. ASSUME Unmoved, NEW to \in Stages \ Holding, To(to), Free \/ running' = running
          PROVE  FlowInv'
      BY <2>1, <2>2, <2>4, FlowFrame DEF Holding
    <2>5. ASSUME Unmoved, NEW to \in Stages, To(to), running' = running,
                 running[Process[r]] = r,
                 to \in {"counting", "archiving", "inserting"} => goal[r].fact \in Facts
          PROVE  FlowInv'
      BY <2>1, <2>2, <2>5, FlowFrame
    <2>6. stage[r] \in Holding => running[Process[r]] = r
      BY DEF FlowInv
    <2>7. /\ Process[r] \in Processes
          /\ \A x \in {r, NoRequest} : [lock EXCEPT ![Process[r]] = x]
                                            \in [Processes -> Requests \cup {NoRequest}]
          /\ lock \in [Processes -> Requests \cup {NoRequest}]
          /\ \A x \in BOOLEAN : [recorded EXCEPT ![r] = x] \in [Requests -> BOOLEAN]
          /\ recorded \in [Requests -> BOOLEAN] /\ DOMAIN local = Requests
      BY ProcessOf DEF FlowInv
    <2> HIDE DEF To
    <2>8. CASE CallSteps(r)
      <3> USE <2>6, <2>7 DEF Holding, Stages, Ended, At, Go, Hold, Yield, bounds, processVars,
                             Answered, Raise, To
      <3>1. CASE CaptureNothing(r) \/ CaptureAnswers(r) \/ CaptureRaises(r)
        BY <2>4, <3>1 DEF CaptureNothing, CaptureAnswers, CaptureRaises
      <3>2. CASE CaptureIsNew(r) \/ CaptureCounts(r)
        <4>1. goal[r].fact \in Facts
          BY <3>2 DEF CaptureIsNew, CaptureCounts, FlowInv
        <4> QED
          BY <2>5, <3>2, <4>1 DEF CaptureIsNew, CaptureCounts
      <3>3. CASE ArchiveVictim(r)
        <4>1. goal[r].fact \in Facts
          BY <3>3 DEF ArchiveVictim, FlowInv
        <4> QED
          BY <2>5, <3>3, <4>1 DEF ArchiveVictim
      <3>4. CASE ArchiveIsStale(r) \/ InsertFact(r)
        BY <2>4, <3>4 DEF ArchiveIsStale, InsertFact
      <3>5. CASE Answer(r)
        BY <2>4, <3>5 DEF Answer
      <3> QED
        BY <2>8, <3>1, <3>2, <3>3, <3>4, <3>5 DEF CallSteps
    <2>9. CASE SessionSteps(r)
      <3> USE <2>6, <2>7 DEF Holding, Stages, Ended, At, Go, Hold, Yield, Acquire, Release,
                             bounds, processVars, Finish, To
      <3>1. CASE PrepareReadsSummary(r) \/ AppendReadsSequence(r)
        BY <2>3, <3>1 DEF PrepareReadsSummary, AppendReadsSequence
      <3>2. CASE PrepareSelectsTurns(r) \/ PrepareFails(r)
        BY <2>5, <3>2 DEF PrepareSelectsTurns, PrepareFails
      <3>3. CASE AppendInserts(r) \/ CompactReadsSummary(r)
        BY <2>5, <3>3 DEF AppendInserts, CompactReadsSummary
      <3>4. CASE AppendFails(r)
        BY <2>4, <3>4 DEF AppendFails
      <3>5. CASE CompactSelectsSource(r)
        BY <2>4, <3>5 DEF CompactSelectsSource
      <3>6. CASE SummaryArrives(r)
        BY <2>3, <3>6 DEF SummaryArrives
      <3>7. CASE SummaryFails(r) \/ CompactionStored(r) \/ CompactionFails(r)
        BY <2>4, <3>7 DEF SummaryFails, CompactionStored, CompactionFails
      <3> QED
        BY <2>9, <3>1, <3>2, <3>3, <3>4, <3>5, <3>6, <3>7 DEF SessionSteps
    <2> QED
      BY <1>4, <2>8, <2>9, TwoKinds
  <1> QED
    BY <1>1, <1>2, <1>3, <1>4 DEF Next
-----------------------------------------------------------------------------
(***************************************************************************)
(* Answers.                                                                *)
(***************************************************************************)
AnswerOk(x) ==
    /\ \A u \in x.over : Excess(u)
    /\ (x = Raised \/ x.mode \in {"chat", "task", "clarify"})

AnswerInv == DOMAIN answer = Requests /\ \A r \in Requests : AnswerOk(answer[r])

LEMMA AnswerInit == Init => AnswerInv
  BY DEF Init, AnswerInv, AnswerOk, Raised, Result

LEMMA AnswerStep ==
    ASSUME AnswerInv, [Next]_vars
    PROVE  AnswerInv'
  <1> USE DEF AnswerInv
  <1>1. CASE UNCHANGED vars \/ PinReads \/ PinWrites
    BY <1>1 DEF vars, PinReads, PinWrites, requestVars
  <1>2. AnswerOk(Raised) /\ AnswerOk(Plain("chat")) /\ AnswerOk(Plain("clarify"))
    BY DEF AnswerOk, Raised, Plain, Result
  <1>3. ASSUME NEW p \in Processes, Crash(p) PROVE AnswerInv'
    BY <1>2, <1>3 DEF Crash
  <1>4. ASSUME NEW r \in Requests, Step(r) PROVE AnswerInv'
    <2>1. ASSUME NEW x, AnswerOk(x), answer' = [answer EXCEPT ![r] = x] PROVE AnswerInv'
      BY <2>1
    <2>2. ASSUME answer' = answer PROVE AnswerInv'
      BY <2>2
    <2>3. CASE Answer(r)
      <3>1. PICK result \in RunOnce(goal[r].mode) :
                IF result = Raised THEN Raise(r)
                ELSE Answered(r, result) /\ UNCHANGED <<recorded, processVars, bounds>>
        BY <2>3 DEF Answer
      <3>2. AnswerOk(result)
        BY ResultsAreAffordable DEF AnswerOk, Raised, Result
      <3> QED
        BY <2>1, <2>2, <3>1, <3>2 DEF Raise, Answered
    <2>4. CASE CallSteps(r) /\ ~Answer(r)
      BY <1>2, <2>1, <2>2, <2>4
         DEF CallSteps, CaptureNothing, CaptureAnswers, CaptureIsNew, CaptureCounts,
                  CaptureRaises,
             ArchiveVictim, ArchiveIsStale, InsertFact, Raise, Answered
    <2>5. CASE SessionSteps(r)
      BY <1>2, <2>1, <2>2, <2>5
         DEF SessionSteps, PrepareReadsSummary, PrepareSelectsTurns, PrepareFails,
             AppendReadsSequence, AppendInserts, AppendFails, CompactReadsSummary,
             CompactSelectsSource, SummaryArrives, SummaryFails, CompactionStored,
             CompactionFails, Finish
    <2> QED
      BY <1>4, <2>3, <2>4, <2>5, TwoKinds
  <1> QED
    BY <1>1, <1>3, <1>4 DEF Next

\* Whatever usage numbers a provider leaves out, no model reply that is let
\* through costs a phase more than its budget's total (complete_with_budget), for
\* every set of replies, every prompt and every budget; only one whose provider
\* counts the input alone may, up to the sum of the other two limits.
THEOREM SpendIsBounded == Spec => []SpendWithinBudget
  <1>1. Spec => []AnswerInv
    BY AnswerInit, AnswerStep, PTL DEF Spec
  <1>2. AnswerInv => SpendWithinBudget
    BY DEF AnswerInv, AnswerOk, Excess, SpendWithinBudget
  <1> QED
    BY <1>1, <1>2, PTL
-----------------------------------------------------------------------------
(***************************************************************************)
(* The conversation.                                                       *)
(***************************************************************************)

\* A summary is to be made of a prefix of the turns.
Covers(c) ==
    /\ c.through \in 0 .. Len(turns) /\ c.sources = 1 .. c.through
    /\ c = [through |-> c.through, sources |-> c.sources]

ReadOk(r) ==
    /\ stage[r] = "preparing" => /\ local[r].through \in 0 .. Len(turns)
                                 /\ local[r].before \in 0 .. Len(turns)
    /\ stage[r] = "listing" => Covers(local[r].latest)
    /\ stage[r] \in {"summarizing", "storing"} => Covers(local[r].compaction)

\* Every row, and every summary that is still under way, is of a prefix.
CoverInv ==
    /\ turns \in Seq(Turn)
    /\ \A c \in compactions : Covers(c)
    /\ \A r \in Requests : ReadOk(r)

LEMMA CoverInit == Init => CoverInv
  BY DEF Init, StoreInit, CoverInv, ReadOk

LEMMA LatestCovers ==
    ASSUME CoverInv
    PROVE  Covers(Latest)
  <1>1. CASE compactions = {}
    <2>1. Len(turns) \in Nat
      BY DEF CoverInv
    <2> QED
      BY <1>1, <2>1 DEF Latest, Covers
  <1>2. CASE compactions # {}
    <2> DEFINE ends == {n \in 0 .. Len(turns) : \E c \in compactions : n = c.through}
    <2>1. Len(turns) \in Nat /\ ends # {}
      BY <1>2 DEF CoverInv, Covers
    <2>2. IsFiniteSet(0 .. Len(turns)) /\ \A n \in 0 .. Len(turns) : n \in Nat
      BY <2>1, FS_Interval
    <2>3. ends \in SUBSET (0 .. Len(turns))
      OBVIOUS
    <2>4. \E n \in ends : \A m \in ends : m <= n
      <3> HIDE DEF ends
      <3>1. IsFiniteSet(ends) /\ ends \in SUBSET Nat
        BY <2>2, <2>3, FS_Subset
      <3> QED
        BY <2>1, <3>1, MaxExists
    <2>5. \E c \in compactions : \A d \in compactions : d.through <= c.through
      BY <2>4 DEF CoverInv, Covers
    <2>6. Latest \in compactions
      BY <1>2, <2>5 DEF Latest
    <2> QED
      BY <2>6 DEF CoverInv
  <1> QED
    BY <1>1, <1>2

\* Turns are only added.
Grown == turns' \in Seq(Turn) /\ Len(turns) <= Len(turns')

LEMMA CoversStay ==
    ASSUME turns \in Seq(Turn), Grown, NEW c, Covers(c)
    PROVE  /\ c.through \in 0 .. Len(turns') /\ c.sources = 1 .. c.through
           /\ c = [through |-> c.through, sources |-> c.sources]
  BY DEF Grown, Covers

\* A step that adds turns and rows, and moves one request.
LEMMA CoverFrame ==
    ASSUME CoverInv, Grown, NEW moved,
           \A r \in Requests \ moved : stage'[r] = stage[r] /\ local'[r] = local[r],
           \A r \in Requests \cap moved : ReadOk(r)',
           \A c \in compactions' : c \in compactions \/ Covers(c)'
    PROVE  CoverInv'
  <1>1. turns \in Seq(Turn)
    BY DEF CoverInv
  <1>2. ASSUME NEW c \in compactions' PROVE Covers(c)'
    BY <1>1, <1>2, CoversStay DEF CoverInv, Covers
  <1>3. ASSUME NEW r \in Requests \ moved PROVE ReadOk(r)'
    <2>1. ReadOk(r) /\ stage'[r] = stage[r] /\ local'[r] = local[r]
      BY <1>3 DEF CoverInv
    <2>2. Len(turns) \in Nat /\ Len(turns') \in Nat /\ Len(turns) <= Len(turns')
      BY <1>1 DEF Grown
    <2>3. stage[r] = "preparing" => /\ local[r].through \in 0 .. Len(turns')
                                   /\ local[r].before \in 0 .. Len(turns')
      BY <2>1, <2>2 DEF ReadOk
    <2>4. /\ stage[r] = "listing" => Covers(local[r].latest)'
          /\ stage[r] \in {"summarizing", "storing"} => Covers(local[r].compaction)'
      BY <1>1, <2>1, CoversStay DEF ReadOk, Covers
    <2> QED
      BY <2>1, <2>3, <2>4 DEF ReadOk
  <1> QED
    BY <1>2, <1>3 DEF CoverInv, Grown

\* AppendTurn adds one turn at the end; the others keep their requests.
LEMMA AppendGrows ==
    ASSUME turns \in Seq(Turn), NEW r \in Requests, NEW sequence, AppendTurn(r, sequence)
    PROVE  /\ Grown /\ Len(turns') = Len(turns) + 1
           /\ turns'[Len(turns) + 1].request = r
           /\ \A n \in 1 .. Len(turns) : turns'[n].request = turns[n].request
  <1>1. Len(turns) \in Nat /\ sequence = Len(turns) + 1
    BY DEF AppendTurn
  <1> DEFINE turn(n) == [request |-> IF n = sequence THEN r ELSE turns[n].request,
                         archived |-> n < sequence - RawRetention + 1]
  <1>2. turns' = [n \in 1 .. sequence |-> turn(n)]
    BY DEF AppendTurn
  <1>3. ASSUME NEW n \in 1 .. sequence PROVE turn(n) \in Turn
    <2>1. n = sequence \/ n \in 1 .. Len(turns)
      BY <1>1
    <2>2. r \in DOMAIN Cost
      BY SessionAssumption
    <2>3. \A m \in 1 .. Len(turns) : turns[m] \in Turn
      OBVIOUS
    <2>4. \A m \in 1 .. Len(turns) : turns[m].request \in DOMAIN Cost
      BY <2>3 DEF Turn
    <2>5. (IF n = sequence THEN r ELSE turns[n].request) \in DOMAIN Cost
      BY <2>1, <2>2, <2>4
    <2> QED
      BY <2>5 DEF Turn
  <1> HIDE DEF turn
  <1>4. turns' \in Seq(Turn) /\ Len(turns') = sequence
    BY <1>1, <1>2, <1>3
  <1>5. \A n \in 1 .. sequence : turns'[n] = turn(n)
    BY <1>2
  <1> QED
    BY <1>1, <1>4, <1>5 DEF Grown, turn

LEMMA StoresStay ==
    ASSUME turns \in Seq(Turn), UNCHANGED storeVars
    PROVE  Grown /\ compactions' = compactions
  BY DEF storeVars, Grown

LEMMA CoverStep ==
    ASSUME FlowInv, FlowTypes, CoverInv, [Next]_vars
    PROVE  CoverInv'
  <1>1. turns \in Seq(Turn) /\ Len(turns) \in Nat
    BY DEF CoverInv
  <1>2. CASE UNCHANGED vars \/ PinReads \/ PinWrites
    <2>1. UNCHANGED storeVars /\ UNCHANGED <<stage, local>>
      BY <1>2 DEF vars, PinReads, PinWrites, requestVars, StoresKept
    <2>2. Grown /\ compactions' = compactions
      BY <1>1, <2>1, StoresStay
    <2>3. /\ \A r \in Requests \ {} : stage'[r] = stage[r] /\ local'[r] = local[r]
          /\ \A r \in Requests \cap {} : ReadOk(r)'
          /\ \A c \in compactions' : c \in compactions \/ Covers(c)'
      BY <2>1, <2>2
    <2> QED
      BY <2>2, <2>3, CoverFrame
  <1>3. ASSUME NEW p \in Processes, Crash(p) PROVE CoverInv'
    <2> DEFINE lostNow == {r \in Requests : Process[r] = p /\ stage[r] \notin Ended \cup {"new"}}
    <2>1. Grown /\ compactions' = compactions
      BY <1>1, <1>3, StoresStay DEF Crash, StoresKept
    <2>2. /\ stage' = [r \in Requests |-> IF r \in lostNow THEN "lost" ELSE stage[r]]
          /\ local' = [r \in Requests |-> IF r \in lostNow THEN Nothing ELSE local[r]]
      BY <1>3 DEF Crash
    <2>3. \A r \in Requests \ lostNow : stage'[r] = stage[r] /\ local'[r] = local[r]
      BY <2>2
    <2>4. \A r \in Requests \cap lostNow : ReadOk(r)'
      BY <2>2 DEF ReadOk
    <2>5. \A c \in compactions' : c \in compactions \/ Covers(c)'
      BY <2>1
    <2> HIDE DEF lostNow
    <2> QED
      BY <2>1, <2>3, <2>4, <2>5, CoverFrame
  <1>4. ASSUME NEW r \in Requests, Step(r) PROVE CoverInv'
    <2>1. \A q \in Requests \ {r} : stage'[q] = stage[q] /\ local'[q] = local[q]
      BY <1>4, StepIsApart DEF Apart
    <2>0. ASSUME Grown, ReadOk(r)', \A c \in compactions' : c \in compactions \/ Covers(c)'
          PROVE  CoverInv'
      <3>1. \A q \in Requests \cap {r} : ReadOk(q)'
        BY <2>0
      <3> QED
        BY <2>0, <2>1, <3>1, CoverFrame
    <2>2. ASSUME Grown, compactions' = compactions, ReadOk(r)' PROVE CoverInv'
      BY <2>0, <2>2
    <2>3. UNCHANGED storeVars => Grown /\ compactions' = compactions
      BY <1>1, StoresStay
    <2>4. Covers(Latest)
      BY LatestCovers
    <2>5. ReadOk(r)
      BY DEF CoverInv
    <2> USE DEF FlowTypes
    <2>6. CASE CallSteps(r)
      <3>1. UNCHANGED storeVars
            /\ stage'[r] \notin {"preparing", "listing", "summarizing", "storing"}
        BY <2>6 DEF CallSteps, CaptureNothing, CaptureAnswers, CaptureIsNew, CaptureCounts,
                  CaptureRaises,
                ArchiveVictim, ArchiveIsStale, InsertFact, Answer, StoresKept, Go, Answered, Raise
      <3> QED
        BY <2>2, <2>3, <3>1 DEF ReadOk
    <2>7. CASE SessionSteps(r)
      <3>1. CASE PrepareReadsSummary(r)
        <4>1. UNCHANGED storeVars /\ stage'[r] = "preparing"
              /\ local'[r] = [kind |-> "prefix", through |-> Latest.through,
                              before |-> Len(turns)]
          BY <3>1 DEF PrepareReadsSummary, Go, StoresKept
        <4>2. turns' = turns
          BY <4>1 DEF storeVars
        <4>3. ReadOk(r)'
          BY <1>1, <2>4, <4>1, <4>2 DEF ReadOk, Covers
        <4> QED
          BY <2>2, <2>3, <4>1, <4>3
      <3>2. CASE PrepareSelectsTurns(r) \/ PrepareFails(r) \/ AppendReadsSequence(r)
                 \/ AppendFails(r) \/ SummaryFails(r) \/ CompactionFails(r)
        <4>1. UNCHANGED storeVars
              /\ stage'[r] \notin {"preparing", "listing", "summarizing", "storing"}
          BY <3>2 DEF PrepareSelectsTurns, PrepareFails, AppendReadsSequence, AppendFails,
                      SummaryFails, CompactionFails, StoresKept, Go, Finish
        <4> QED
          BY <2>2, <2>3, <4>1 DEF ReadOk
      <3>3. CASE AppendInserts(r)
        <4>1. AppendTurn(r, local[r].sequence) /\ stage'[r] = "compacting"
              /\ compactions' = compactions
          BY <3>3 DEF AppendInserts, AppendTurn, Go
        <4>2. Grown
          BY <1>1, <4>1, AppendGrows
        <4> QED
          BY <2>2, <4>1, <4>2 DEF ReadOk
      <3>4. CASE CompactReadsSummary(r)
        <4>1. UNCHANGED storeVars /\ stage'[r] = "listing" /\ local'[r].latest = Latest
          BY <3>4 DEF CompactReadsSummary, Go, StoresKept
        <4>2. Covers(local[r].latest)'
          BY <2>4, <4>1 DEF Covers, storeVars
        <4> QED
          BY <2>2, <2>3, <4>1, <4>2 DEF ReadOk
      <3>5. CASE CompactSelectsSource(r)
        <4> DEFINE latest == local[r].latest
                   source == SourceTurns(Pending(latest.through))
        <4>1. UNCHANGED storeVars /\ Covers(latest)
          BY <2>5, <3>5 DEF CompactSelectsSource, At, ReadOk, StoresKept
        <4>2. CASE Finish(r, TRUE)
          BY <2>2, <2>3, <4>1, <4>2 DEF Finish, Go, ReadOk
        <4>3. CASE /\ NeedsCompaction(Pending(latest.through))
                   /\ Go(r, "summarizing", [kind |-> "source",
                                            compaction |-> Compaction(latest, source)])
          <5>1. Pending(latest.through) # {}
            <6>1. ~NeedsCompaction({})
              BY NoTurnsNoCompaction
            <6> QED
              BY <4>3, <6>1
          <5>2. /\ Newest(source) \in latest.through + 1 .. Len(turns)
                /\ source = latest.through + 1 .. Newest(source)
            BY <1>1, <4>1, <5>1, SourceIsPrefix DEF Covers
          <5>3. stage'[r] = "summarizing"
                /\ local'[r].compaction = Compaction(latest, source)
            BY <4>3 DEF Go
          <5> HIDE DEF source, latest
          <5>4. latest.sources \cup source = 1 .. Newest(source)
                /\ Newest(source) \in 0 .. Len(turns)
            BY <1>1, <4>1, <5>2 DEF Covers
          <5>5. Covers(Compaction(latest, source))
            BY <4>1, <5>4 DEF Covers, Compaction
          <5>6. Covers(local[r].compaction)'
            BY <4>1, <5>3, <5>5 DEF Covers, storeVars
          <5> QED
            BY <2>2, <2>3, <4>1, <5>3, <5>6 DEF ReadOk
        <4> QED
          BY <3>5, <4>2, <4>3 DEF CompactSelectsSource
      <3>6. CASE SummaryArrives(r)
        <4>1. /\ UNCHANGED storeVars /\ stage'[r] = "storing" /\ local' = local
              /\ Covers(local[r].compaction)
          BY <2>5, <3>6 DEF SummaryArrives, At, ReadOk, StoresKept
        <4>2. Covers(local[r].compaction)'
          BY <4>1 DEF Covers, storeVars
        <4> QED
          BY <2>2, <2>3, <4>1, <4>2 DEF ReadOk
      <3>7. CASE CompactionStored(r)
        <4>1. /\ turns' = turns /\ stage'[r] = "done" /\ Covers(local[r].compaction)
              /\ compactions' = compactions \cup {local[r].compaction}
          BY <2>5, <3>7 DEF CompactionStored, AppendCompaction, At, ReadOk, Finish, Go
        <4>2. Grown /\ ReadOk(r)'
          BY <1>1, <4>1 DEF Grown, ReadOk
        <4>3. \A c \in compactions' : c \in compactions \/ Covers(c)'
          BY <4>1 DEF Covers
        <4> QED
          BY <2>0, <4>2, <4>3
      <3> QED
        BY <2>7, <3>1, <3>2, <3>3, <3>4, <3>5, <3>6, <3>7 DEF SessionSteps
    <2> QED
      BY <1>4, <2>6, <2>7, TwoKinds
  <1> QED
    BY <1>2, <1>3, <1>4 DEF Next

\* The context a request is answered with.
Context == [through : Nat, quoted : SUBSET (1 .. Len(turns)), omitted : Nat, before : Nat,
            loaded : BOOLEAN]

Accounts(x) ==
    x.loaded => /\ x.through + Cardinality(x.quoted) + x.omitted >= x.before
                /\ \A n \in x.quoted : n > x.through

ContextInv ==
    /\ context \in [Requests -> Context]
    /\ \A r \in Requests : Accounts(context[r])

LEMMA ContextInit == Init => ContextInv
  BY DEF Init, ContextInv, Context, Accounts, NoContext

\* prepare: what is not summarised and not quoted is counted.
LEMMA ContextOfAccounts ==
    ASSUME turns \in Seq(Turn), NEW through \in 0 .. Len(turns), NEW before \in 0 .. Len(turns)
    PROVE  /\ ContextOf(through, before, Pending(through)) \in Context
           /\ Accounts(ContextOf(through, before, Pending(through)))
  <1> DEFINE pending == Pending(through)
             quoted == SelectRecent(pending, Threshold)
  <1>1. Len(turns) \in Nat /\ through \in Nat /\ before \in Nat
        /\ through <= Len(turns) /\ before <= Len(turns)
    OBVIOUS
  <1>2. pending = through + 1 .. Len(turns)
    BY PendingIsInterval
  <1>3. Cardinality(pending) = Len(turns) - through /\ IsFiniteSet(pending)
    <2>1. through + 1 \in Int /\ Len(turns) \in Int
      BY <1>1
    <2>2. /\ IsFiniteSet(through + 1 .. Len(turns))
          /\ Cardinality(through + 1 .. Len(turns))
               = IF through + 1 > Len(turns) THEN 0 ELSE Len(turns) - (through + 1) + 1
      BY <2>1, FS_Interval
    <2> HIDE DEF pending
    <2> QED
      BY <1>1, <1>2, <2>2
  <1>4. pending \in SUBSET (1 .. Len(turns)) /\ Threshold \in Nat
    BY <1>1, <1>2, PolicyAssumption DEF Threshold
  <1>5. quoted \in SUBSET pending
    <2> HIDE DEF pending
    <2> QED
      BY <1>4, RecentIsSelected
  <1> HIDE DEF quoted, pending
  <1>6. Cardinality(quoted) \in Nat /\ Cardinality(quoted) <= Cardinality(pending)
    BY <1>3, <1>5, FS_Subset, FS_CardinalityType
  <1>7. ContextOf(through, before, pending)
            = [through |-> through, quoted |-> quoted, before |-> before, loaded |-> TRUE,
               omitted |-> Cardinality(pending) - Cardinality(quoted)]
    BY DEF ContextOf, quoted
  <1>8. Cardinality(pending) - Cardinality(quoted) \in Nat
    BY <1>1, <1>3, <1>6
  <1>9. ContextOf(through, before, pending) \in Context
    BY <1>1, <1>4, <1>5, <1>7, <1>8 DEF Context
  <1>10. \A n \in quoted : n > through
    BY <1>1, <1>2, <1>5
  <1>11. through + Cardinality(quoted) + (Cardinality(pending) - Cardinality(quoted)) >= before
    BY <1>1, <1>3, <1>6
  <1>12. Accounts(ContextOf(through, before, pending))
    BY <1>7, <1>10, <1>11 DEF Accounts
  <1> QED
    BY <1>9, <1>12 DEF pending

LEMMA ContextFrame ==
    ASSUME turns \in Seq(Turn), ContextInv, Grown, DOMAIN context' = Requests,
           context' = [r \in Requests |-> context'[r]],
           \A r \in Requests : \/ context'[r] = context[r] \/ context'[r] = NoContext
                               \/ context'[r] \in Context /\ Accounts(context'[r])
    PROVE  ContextInv'
  <1>1. Len(turns) \in Nat /\ Len(turns') \in Nat /\ Len(turns) <= Len(turns')
    BY DEF Grown
  <1>2. \A x \in Context : x \in Context'
    BY <1>1 DEF Context
  <1>3. NoContext \in Context' /\ Accounts(NoContext)
    BY DEF NoContext, Context, Accounts
  <1>4. \A r \in Requests : context'[r] \in Context' /\ Accounts(context'[r])
    BY <1>2, <1>3 DEF ContextInv
  <1> QED
    BY <1>4 DEF ContextInv, Accounts

\* Every step adds turns or leaves the conversation.
LEMMA StepGrows ==
    ASSUME turns \in Seq(Turn), [Next]_vars
    PROVE  Grown
  <1>1. CASE UNCHANGED turns
    BY <1>1 DEF Grown
  <1>2. ASSUME NEW r \in Requests, AppendInserts(r) PROVE Grown
    BY <1>2, AppendGrows DEF AppendInserts
  <1>3. ASSUME NEW r \in Requests, Step(r), ~AppendInserts(r) PROVE UNCHANGED turns
    <2>1. CASE CallSteps(r)
      BY <2>1 DEF CallSteps, CaptureNothing, CaptureAnswers, CaptureIsNew, CaptureCounts,
                  CaptureRaises,
                  ArchiveVictim, ArchiveIsStale, InsertFact, Answer, StoresKept, storeVars
    <2>2. CASE SessionSteps(r)
      BY <1>3, <2>2 DEF SessionSteps, PrepareReadsSummary, PrepareSelectsTurns, PrepareFails,
                AppendReadsSequence, AppendFails, CompactReadsSummary, CompactSelectsSource,
                SummaryArrives, SummaryFails, CompactionStored, CompactionFails, StoresKept,
                storeVars, AppendCompaction
    <2> QED
      BY <1>3, <2>1, <2>2, TwoKinds
  <1> QED
    BY <1>1, <1>2, <1>3
       DEF Next, vars, storeVars, PinReads, PinWrites, Crash, StoresKept

LEMMA ContextStep ==
    ASSUME FlowInv, FlowTypes, CoverInv, ContextInv, [Next]_vars
    PROVE  ContextInv'
  <1>1. turns \in Seq(Turn) /\ Grown
    BY StepGrows DEF CoverInv
  <1>2. context = [r \in Requests |-> context[r]]
    BY DEF ContextInv
  <1>3. CASE context' = context
    BY <1>1, <1>2, <1>3, ContextFrame
  <1>4. ASSUME NEW p \in Processes, Crash(p) PROVE ContextInv'
    <2>1. context' = [r \in Requests |-> context'[r]] /\ DOMAIN context' = Requests
          /\ \A r \in Requests : context'[r] = context[r] \/ context'[r] = NoContext
      BY <1>4 DEF Crash
    <2> QED
      BY <1>1, <2>1, ContextFrame
  <1>5. ASSUME NEW r \in Requests, NEW x, context' = [context EXCEPT ![r] = x],
               x = NoContext \/ (x \in Context /\ Accounts(x))
        PROVE  ContextInv'
    <2>1. context' = [q \in Requests |-> context'[q]] /\ DOMAIN context' = Requests
      BY <1>2, <1>5
    <2>2. \A q \in Requests : context'[q] = context[q] \/ context'[q] = x
      BY <1>2, <1>5
    <2>3. \A q \in Requests : \/ context'[q] = context[q] \/ context'[q] = NoContext
                              \/ context'[q] \in Context /\ Accounts(context'[q])
      BY <1>5, <2>2
    <2> QED
      BY <1>1, <2>1, <2>3, ContextFrame
  <1>6. ASSUME NEW r \in Requests, Step(r) PROVE ContextInv'
    <2>1. CASE PrepareSelectsTurns(r)
      <3> DEFINE x == ContextOf(local[r].through, local[r].before, Pending(local[r].through))
      <3>1. local[r].through \in 0 .. Len(turns) /\ local[r].before \in 0 .. Len(turns)
        BY <2>1 DEF PrepareSelectsTurns, At, CoverInv, ReadOk
      <3>2. x \in Context /\ Accounts(x)
        BY <1>1, <3>1, ContextOfAccounts
      <3>3. context' = [context EXCEPT ![r] = x]
        BY <2>1 DEF PrepareSelectsTurns
      <3> HIDE DEF x
      <3> QED
        BY <1>5, <3>2, <3>3
    <2>2. CASE CallSteps(r)
      <3>1. context' = context \/ context' = [context EXCEPT ![r] = NoContext]
        BY <2>2
           DEF CallSteps, CaptureNothing, CaptureAnswers, CaptureIsNew, CaptureCounts,
                  CaptureRaises,
               ArchiveVictim, ArchiveIsStale, InsertFact, Answer, Answered, Raise
      <3> QED
        BY <1>3, <1>5, <3>1
    <2>3. CASE SessionSteps(r) /\ ~PrepareSelectsTurns(r)
      BY <1>3, <2>3
         DEF SessionSteps, PrepareReadsSummary, PrepareFails, AppendReadsSequence, AppendInserts,
             AppendFails, CompactReadsSummary, CompactSelectsSource, SummaryArrives,
             SummaryFails, CompactionStored, CompactionFails, Finish
    <2> QED
      BY <1>6, <2>1, <2>2, <2>3, TwoKinds
  <1> QED
    BY <1>3, <1>4, <1>6 DEF Next, vars, PinReads, PinWrites, requestVars

-----------------------------------------------------------------------------
(***************************************************************************)
(* What is known of every state so far.                                    *)
(***************************************************************************)

SessionInv == FlowInv /\ AnswerInv /\ CoverInv /\ ContextInv

LEMMA SessionTypes == SessionInv => FlowTypes
  BY DEF SessionInv, FlowInv, AnswerInv, ContextInv, FlowTypes

LEMMA SessionInit == Init => SessionInv
  BY FlowInit, AnswerInit, CoverInit, ContextInit DEF SessionInv

LEMMA SessionStep == SessionInv /\ [Next]_vars => SessionInv'
  BY SessionTypes, FlowStep, AnswerStep, CoverStep, ContextStep DEF SessionInv

LEMMA SessionHolds == Spec => []SessionInv
  BY SessionInit, SessionStep, PTL DEF Spec

\* What a stored summary was to be made of, with what the summaries it was merged
\* into were made of, is every turn up to the one its row names: two processes may
\* read the same latest row, summarise different prefixes and store them in either
\* order (_maybe_compact, conversation/manager.py; append_compaction,
\* conversation/sqlite.py).  What the summarizer's prompt held of them is not said.
THEOREM CompactionsCover == Spec => []SummarySkipsNone
  <1>1. SessionInv => SummarySkipsNone
    BY DEF SessionInv, CoverInv, Covers, SummarySkipsNone
  <1> QED
    BY <1>1, SessionHolds, PTL

\* The context of a request accounts for every turn there was when it asked,
\* whatever is compacted or appended while it is prepared (prepare,
\* conversation/manager.py).
THEOREM ContextIsComplete == Spec => []ContextAccounts
  <1>1. SessionInv => ContextAccounts
    BY DEF SessionInv, ContextInv, Accounts, ContextAccounts
  <1> QED
    BY <1>1, SessionHolds, PTL

-----------------------------------------------------------------------------
(***************************************************************************)
(* The turns of a request.                                                 *)
(***************************************************************************)

Appended == {"compacting", "listing", "summarizing", "storing"}

Stored(r) == \E n \in 1 .. Len(turns) : turns[n].request = r

\* A request has one turn, from the append on.
StoredInv ==
    /\ \A m, n \in 1 .. Len(turns) : turns[m].request = turns[n].request => m = n
    /\ \A r \in Requests :
        /\ Stored(r) => stage[r] \in Appended \cup {"done", "lost"}
        /\ stage[r] \in Appended \/ recorded[r] => Stored(r)

LEMMA StoredInit == Init => StoredInv
  BY DEF Init, StoreInit, StoredInv, Stored, Appended

\* Only the append brings a request among those that are recorded.
LEMMA MovesOn ==
    ASSUME SessionInv, NEW r \in Requests, Step(r), ~AppendInserts(r)
    PROVE  /\ UNCHANGED turns
           /\ stage[r] \in Appended \cup {"done", "lost"}
                => stage'[r] \in Appended \cup {"done", "lost"}
           /\ stage'[r] \in Appended \/ recorded'[r] => stage[r] \in Appended \/ recorded[r]
  <1> USE DEF SessionInv, FlowInv, Appended, At, Go, StoresKept, storeVars
  <1>1. CASE CallSteps(r)
    <2>1. stage[r] \in {"capturing", "counting", "archiving", "inserting", "answering"}
          /\ stage'[r] \in {"counting", "answering", "answered", "archiving", "inserting",
                           "raised"}
      BY <1>1 DEF CallSteps, CaptureNothing, CaptureAnswers, CaptureIsNew, CaptureCounts,
                  CaptureRaises,
                  ArchiveVictim, ArchiveIsStale, InsertFact, Answer, Answered, Raise
    <2>2. recorded' = recorded /\ turns' = turns
      BY <1>1 DEF CallSteps, CaptureNothing, CaptureAnswers, CaptureIsNew, CaptureCounts,
                  CaptureRaises,
                  ArchiveVictim, ArchiveIsStale, InsertFact, Answer, Answered, Raise
    <2> QED
      BY <2>1, <2>2
  <1>2. CASE SessionSteps(r)
    BY <1>2 DEF SessionSteps, PrepareReadsSummary, PrepareSelectsTurns, PrepareFails,
                AppendReadsSequence, AppendFails, CompactReadsSummary, CompactSelectsSource,
                SummaryArrives, SummaryFails, CompactionStored, CompactionFails, Finish,
                AppendCompaction
  <1> QED
    BY <1>1, <1>2, TwoKinds

LEMMA StoredStep ==
    ASSUME SessionInv, StoredInv, [Next]_vars
    PROVE  StoredInv'
  <1>0. turns \in Seq(Turn) /\ FlowTypes
    BY SessionTypes DEF SessionInv, CoverInv
  <1>1. ASSUME UNCHANGED turns,
               \A r \in Requests :
                 /\ stage[r] \in Appended \cup {"done", "lost"}
                      => stage'[r] \in Appended \cup {"done", "lost"}
                 /\ stage'[r] \in Appended \/ recorded'[r] => stage[r] \in Appended \/ recorded[r]
        PROVE  StoredInv'
    BY <1>1 DEF StoredInv, Stored
  <1>2. CASE UNCHANGED vars \/ PinReads \/ PinWrites
    BY <1>1, <1>2 DEF vars, PinReads, PinWrites, requestVars, StoresKept, storeVars
  <1>3. ASSUME NEW p \in Processes, Crash(p) PROVE StoredInv'
    BY <1>1, <1>3 DEF Crash, StoresKept, storeVars, Ended, Appended, SessionInv, FlowInv
  <1>4. ASSUME NEW r \in Requests, Step(r), ~AppendInserts(r) PROVE StoredInv'
    <2>1. Apart(r)
      BY <1>0, <1>4, StepIsApart
    <2> QED
      BY <1>1, <1>4, <2>1, MovesOn DEF Apart
  <1>5. ASSUME NEW r \in Requests, AppendInserts(r) PROVE StoredInv'
    <2>1. /\ AppendTurn(r, local[r].sequence) /\ stage[r] = "appending"
          /\ stage' = [stage EXCEPT ![r] = "compacting"] /\ recorded' = recorded
      BY <1>5 DEF AppendInserts, At, Go
    <2>2. /\ Len(turns) \in Nat /\ Len(turns') = Len(turns) + 1
          /\ turns'[Len(turns) + 1].request = r
          /\ \A n \in 1 .. Len(turns) : turns'[n].request = turns[n].request
      BY <1>0, <2>1, AppendGrows
    <2>3. \A n \in 1 .. Len(turns') : n = Len(turns) + 1 \/ n \in 1 .. Len(turns)
      BY <2>2
    <2>4. ~Stored(r)
      BY <2>1 DEF StoredInv, Appended
    <2>5. \A m, n \in 1 .. Len(turns') : turns'[m].request = turns'[n].request => m = n
      BY <2>2, <2>3, <2>4 DEF StoredInv, Stored
    <2>6. Stored(r)'
      BY <2>2 DEF Stored
    <2>7. \A q \in Requests \ {r} : Stored(q)' <=> Stored(q)
      BY <2>2, <2>3 DEF Stored
    <2>8. stage'[r] = "compacting" /\ \A q \in Requests \ {r} : stage'[q] = stage[q]
      BY <1>0, <2>1 DEF FlowTypes
    <2>9. \A q \in Requests :
            /\ Stored(q)' => stage'[q] \in Appended \cup {"done", "lost"}
            /\ stage'[q] \in Appended \/ recorded'[q] => Stored(q)'
      BY <2>1, <2>6, <2>7, <2>8 DEF StoredInv, Appended
    <2> QED
      BY <2>5, <2>9 DEF StoredInv
  <1> QED
    BY <1>2, <1>3, <1>4, <1>5 DEF Next

\* A result that says its turn is recorded is right, and the session holds the
\* exchange once, however many processes number turns at the same time
\* (record_turn, conversation/manager.py; append_turn, conversation/sqlite.py).
THEOREM RecordedOnce == Spec => []RecordedIsStored
  <1>1. SessionInv /\ StoredInv => RecordedIsStored
    <2> SUFFICES ASSUME SessionInv, StoredInv, NEW r \in Requests
                 PROVE  LET stored == {n \in 1 .. Len(turns) : turns[n].request = r} IN
                        /\ Cardinality(stored) <= 1
                        /\ recorded[r] => stored # {}
      BY DEF RecordedIsStored
    <2> DEFINE stored == {n \in 1 .. Len(turns) : turns[n].request = r}
    <2>1. recorded[r] => stored # {}
      BY DEF StoredInv, Stored
    <2>2. Cardinality(stored) <= 1
      <3>1. CASE stored = {}
        BY <3>1, FS_EmptySet
      <3>2. CASE stored # {}
        <4>1. PICK n \in stored : stored = {n}
          BY <3>2 DEF StoredInv
        <4>2. Cardinality({n}) = 1
          BY FS_Singleton
        <4> HIDE DEF stored
        <4> QED
          BY <4>1, <4>2
      <3> QED
        BY <3>1, <3>2
    <2> QED
      BY <2>1, <2>2
  <1>2. Spec => []StoredInv
    <2>1. StoredInv /\ SessionInv /\ [Next]_vars => StoredInv'
      BY StoredStep
    <2> QED
      BY <2>1, StoredInit, SessionHolds, PTL DEF Spec
  <1> QED
    BY <1>1, <1>2, SessionHolds, PTL

-----------------------------------------------------------------------------
(***************************************************************************)
(* The memory.                                                             *)
(***************************************************************************)

Rows == Cardinality(DOMAIN memory)

MemInv ==
    /\ Rows \in 0 .. MaxIds /\ DOMAIN memory = 1 .. Rows
    /\ \A i \in DOMAIN memory : memory[i] \in Entry
    /\ updated \in [DOMAIN memory -> 1 .. Rows]
    /\ \A i, j \in DOMAIN memory : updated[i] = updated[j] => i = j

\* Rows are never deleted; each write of one takes the next version.
Newer ==
    /\ DOMAIN memory \subseteq DOMAIN memory'
    /\ \A i \in DOMAIN memory : \/ memory'[i] = memory[i]
                                \/ memory'[i].version = memory[i].version + 1

LEMMA FirstRow == Init => MemInv
  <1> SUFFICES ASSUME Init PROVE MemInv
    OBVIOUS
  <1>1. DOMAIN memory = {1} /\ {1} = 1 .. 1
    BY DEF Init
  <1>2. Rows = 1
    BY <1>1, FS_Singleton DEF Rows
  <1>3. memory[1] \in Entry /\ updated[1] = 1
    BY SessionAssumption DEF Init, Entry
  <1> QED
    BY <1>1, <1>2, <1>3, MemoryAssumption DEF Init, MemInv

\* A row that is written becomes the one updated last; the others keep their
\* order.
LEMMA ReplaceKeeps ==
    ASSUME MemInv, NEW i \in DOMAIN memory, NEW entry \in Entry,
           Replace(i, entry.version, entry)
    PROVE  /\ MemInv' /\ Newer
           /\ memory' = [memory EXCEPT ![i] = [entry EXCEPT !.version = entry.version + 1]]
  <1>1. memory' = [memory EXCEPT ![i] = [entry EXCEPT !.version = entry.version + 1]]
    BY DEF Replace
  <1>2. entry.version \in Nat /\ memory[i].version = entry.version
        /\ [entry EXCEPT !.version = entry.version + 1] \in Entry
    BY DEF Replace, Entry
  <1>3. DOMAIN memory' = DOMAIN memory /\ Rows' = Rows
    BY <1>1 DEF Rows
  <1>4. \A j \in DOMAIN memory' : memory'[j] \in Entry
    BY <1>1, <1>2, <1>3 DEF MemInv
  <1>5. Newer
    BY <1>1, <1>2, <1>3 DEF Newer, Entry
  <1>6. Rows \in Nat /\ \A j \in DOMAIN memory : updated[j] \in 1 .. Rows
    BY DEF MemInv
  <1>7. updated' = [j \in DOMAIN memory |->
                      IF j = i THEN Rows
                      ELSE IF updated[j] > updated[i] THEN updated[j] - 1 ELSE updated[j]]
    BY DEF Replace, Touch, Rows
  <1>8. \A j \in DOMAIN memory \ {i} : updated[j] # updated[i]
    BY DEF MemInv
  <1>9. \A j \in DOMAIN memory \ {i} : updated'[j] \in 1 .. Rows - 1
    BY <1>6, <1>7, <1>8
  <1>10. updated'[i] = Rows /\ Rows \in 1 .. Rows
    BY <1>6, <1>7
  <1>11. updated' \in [DOMAIN memory -> 1 .. Rows]
    BY <1>6, <1>7, <1>9, <1>10
  <1>12. ASSUME NEW j \in DOMAIN memory, NEW k \in DOMAIN memory, updated'[j] = updated'[k]
         PROVE  j = k
    <2>1. CASE j = i \/ k = i
      BY <1>6, <1>9, <1>10, <1>12, <2>1
    <2>2. CASE j # i /\ k # i
      <3>1. updated[j] = updated[k]
        BY <1>6, <1>7, <1>8, <1>12, <2>2
      <3> QED
        BY <3>1 DEF MemInv
    <2> QED
      BY <2>1, <2>2
  <1>13. MemInv'
    BY <1>3, <1>4, <1>11, <1>12 DEF MemInv
  <1> QED
    BY <1>1, <1>5, <1>13

\* A new row is the last one, and updated last.
LEMMA InsertKeeps ==
    ASSUME MemInv, NEW fact \in Facts, Insert(fact)
    PROVE  /\ MemInv' /\ Newer
           /\ Rows \in Nat /\ DOMAIN memory' = DOMAIN memory \cup {Rows + 1}
           /\ Rows + 1 \notin DOMAIN memory /\ ~memory'[Rows + 1].archived
           /\ \A i \in DOMAIN memory : memory'[i] = memory[i]
  <1> DEFINE n == Rows + 1
  <1>1. Rows \in Nat /\ n \in 0 .. MaxIds /\ n \notin DOMAIN memory
    BY MemoryAssumption DEF MemInv, Insert, Rows
  <1>2. DOMAIN memory = 1 .. Rows /\ DOMAIN memory' = 1 .. n
    BY DEF MemInv, Insert, Rows
  <1>3. 1 .. n = 1 .. Rows \cup {n}
    BY <1>1
  <1>4. Rows' = n
    <2>1. Cardinality(1 .. n) = n
      BY <1>1, FS_Interval
    <2> QED
      BY <1>2, <2>1 DEF Rows
  <1>5. \A i \in DOMAIN memory : memory'[i] = memory[i] /\ updated'[i] = updated[i]
    BY <1>1, <1>2 DEF Insert, Rows
  <1>6. memory'[n] = [fact |-> fact, pinned |-> FALSE, archived |-> FALSE, version |-> 1]
        /\ updated'[n] = n
    BY <1>1, <1>2 DEF Insert, Rows
  <1>7. memory'[n] \in Entry
    BY <1>6 DEF Entry
  <1>8. updated' = [i \in 1 .. n |-> updated'[i]]
    BY DEF Insert, Rows
  <1>9. \A i \in DOMAIN memory : updated[i] \in 1 .. Rows
    BY DEF MemInv
  <1> HIDE DEF n
  <1>10. n \in Nat /\ Rows = n - 1
    BY <1>1 DEF n
  <1>11. \A i \in 1 .. n : updated'[i] \in 1 .. n
    BY <1>2, <1>3, <1>5, <1>6, <1>9, <1>10
  <1>12. \A i, j \in 1 .. n : updated'[i] = updated'[j] => i = j
    <2> SUFFICES ASSUME NEW i \in 1 .. n, NEW j \in 1 .. n, updated'[i] = updated'[j]
                 PROVE  i = j
      OBVIOUS
    <2>1. CASE i = n \/ j = n
      BY <1>2, <1>3, <1>5, <1>6, <1>9, <1>10, <2>1
    <2>2. CASE i # n /\ j # n
      BY <1>2, <1>3, <1>5, <2>2 DEF MemInv
    <2> QED
      BY <2>1, <2>2
  <1>13. updated' \in [1 .. n -> 1 .. n]
    BY <1>8, <1>11
  <1>14. \A i \in 1 .. n : memory'[i] \in Entry
    BY <1>2, <1>3, <1>5, <1>7 DEF MemInv
  <1>15. MemInv'
    BY <1>1, <1>2, <1>4, <1>12, <1>13, <1>14 DEF MemInv
  <1>16. Newer
    BY <1>2, <1>3, <1>5 DEF Newer
  <1> QED
    BY <1>1, <1>2, <1>3, <1>5, <1>6, <1>15, <1>16 DEF n

\* An entry a request or an embedder has read and is about to write back: it is
\* the row, or the row has been written since.
Read(x) ==
    /\ x.id \in DOMAIN memory /\ x.entry \in Entry /\ ~x.entry.archived
    /\ x.entry.version <= memory[x.id].version
    /\ x.entry.version = memory[x.id].version => memory[x.id] = x.entry

ReadInv ==
    /\ MemInv
    /\ \A r \in Requests :
        stage[r] = "archiving" => Read(local[r]) /\ ~local[r].entry.pinned
    /\ pinner # Nothing => Read(pinner)

LEMMA ReadStays ==
    ASSUME MemInv, MemInv', Newer, NEW x, Read(x)
    PROVE  Read(x)'
  <1>1. x.id \in DOMAIN memory /\ x.id \in DOMAIN memory'
    BY DEF Read, Newer
  <1>2. memory[x.id].version \in Nat /\ x.entry.version \in Nat
    BY <1>1 DEF Read, MemInv, Entry
  <1>3. memory'[x.id] = memory[x.id] \/ memory'[x.id].version = memory[x.id].version + 1
    BY <1>1 DEF Newer
  <1>4. /\ x.entry.version <= memory'[x.id].version
        /\ x.entry.version = memory'[x.id].version => memory'[x.id] = x.entry
    BY <1>2, <1>3 DEF Read
  <1> QED
    BY <1>1, <1>4 DEF Read

LEMMA ReadRow ==
    ASSUME MemInv, NEW i \in Active, NEW x, x.id = i, x.entry = memory[i]
    PROVE  Read(x)
  BY DEF Read, Active, MemInv, Entry

LEMMA VictimIsActive ==
    ASSUME MemInv, Compactable # {}
    PROVE  Victim \in Active /\ ~memory[Victim].pinned
  <1> DEFINE places == {n \in 1 .. Rows : \E i \in Compactable : updated[i] = n}
  <1>1. Rows \in Nat /\ \A i \in Compactable : i \in DOMAIN memory
    BY DEF MemInv, Compactable, Active
  <1>2. \A i \in Compactable : updated[i] \in places
    BY <1>1 DEF MemInv
  <1>3. IsFiniteSet(1 .. Rows) /\ 1 .. Rows \in SUBSET Nat /\ places \in SUBSET (1 .. Rows)
    BY <1>1, FS_Interval
  <1>4. \E n \in places : \A m \in places : n <= m
    <2> HIDE DEF places
    <2> QED
      BY <1>2, <1>3, FS_Subset, LeastExists
  <1>5. \E i \in Compactable : \A j \in Compactable : updated[i] <= updated[j]
    BY <1>2, <1>4
  <1>6. Victim \in Compactable
    BY <1>5 DEF Victim
  <1> QED
    BY <1>6 DEF Compactable

\* What a step does to the memory.
LEMMA MemoryMoves ==
    ASSUME SessionInv, ReadInv, [Next]_vars
    PROVE  /\ MemInv' /\ Newer
           /\ \A i \in DOMAIN memory :
                memory[i].pinned /\ ~memory[i].archived => ~memory'[i].archived
  <1> USE DEF SessionInv, ReadInv
  <1>1. ASSUME UNCHANGED memoryVars
        PROVE  /\ MemInv' /\ Newer
               /\ \A i \in DOMAIN memory :
                    memory[i].pinned /\ ~memory[i].archived => ~memory'[i].archived
    BY <1>1 DEF memoryVars, MemInv, Rows, Newer
  <1>2. CASE UNCHANGED vars \/ PinReads
    BY <1>1, <1>2 DEF vars, PinReads, StoresKept
  <1>3. CASE PinWrites
    <2> DEFINE entry == [pinner.entry EXCEPT !.pinned = TRUE]
    <2>1. CASE UNCHANGED memoryVars
      BY <1>1, <2>1
    <2>2. CASE Replace(pinner.id, pinner.entry.version, entry)
      <3>1. pinner.id \in DOMAIN memory /\ pinner.entry \in Entry /\ ~pinner.entry.archived
        BY <1>3 DEF PinWrites, Read
      <3>2. entry \in Entry /\ entry.version = pinner.entry.version /\ ~entry.archived
        BY <3>1 DEF Entry
      <3> HIDE DEF entry
      <3>3. /\ MemInv' /\ Newer
            /\ memory' = [memory EXCEPT ![pinner.id] =
                             [entry EXCEPT !.version = entry.version + 1]]
        BY <2>2, <3>1, <3>2, ReplaceKeeps
      <3>4. ~[entry EXCEPT !.version = entry.version + 1].archived
        BY <3>2 DEF Entry
      <3> QED
        BY <3>1, <3>3, <3>4
    <2> QED
      BY <1>3, <2>1, <2>2 DEF PinWrites
  <1>4. ASSUME NEW p \in Processes, Crash(p) PROVE UNCHANGED memoryVars
    BY <1>4 DEF Crash, StoresKept
  <1>5. ASSUME NEW r \in Requests, ArchiveVictim(r)
        PROVE  /\ MemInv' /\ Newer
               /\ \A i \in DOMAIN memory :
                    memory[i].pinned /\ ~memory[i].archived => ~memory'[i].archived
    <2> DEFINE old == local[r].entry
               entry == [old EXCEPT !.archived = TRUE]
    <2>1. Read(local[r]) /\ ~old.pinned /\ Replace(local[r].id, old.version, entry)
      BY <1>5 DEF ArchiveVictim, At
    <2>2. local[r].id \in DOMAIN memory /\ old \in Entry /\ memory[local[r].id] = old
      BY <2>1 DEF Read, Replace
    <2>3. entry \in Entry /\ entry.version = old.version
      BY <2>2 DEF Entry
    <2> HIDE DEF entry
    <2>4. /\ MemInv' /\ Newer
          /\ memory' = [memory EXCEPT ![local[r].id] =
                           [entry EXCEPT !.version = entry.version + 1]]
      BY <2>1, <2>2, <2>3, ReplaceKeeps
    <2> QED
      BY <2>1, <2>2, <2>4
  <1>6. ASSUME NEW r \in Requests, InsertFact(r)
        PROVE  /\ MemInv' /\ Newer
               /\ \A i \in DOMAIN memory :
                    memory[i].pinned /\ ~memory[i].archived => ~memory'[i].archived
    <2>1. Insert(goal[r].fact) /\ goal[r].fact \in Facts
      BY <1>6 DEF InsertFact, At, FlowInv
    <2> QED
      BY <2>1, InsertKeeps
  <1>7. ASSUME NEW r \in Requests, Step(r), ~ArchiveVictim(r), ~InsertFact(r)
        PROVE  UNCHANGED memoryVars
    <2>1. CASE CallSteps(r)
      BY <1>7, <2>1 DEF CallSteps, CaptureNothing, CaptureAnswers, CaptureIsNew, CaptureCounts,
                CaptureRaises, ArchiveIsStale, Answer, StoresKept
    <2>2. CASE SessionSteps(r)
      BY <2>2 DEF SessionSteps, PrepareReadsSummary, PrepareSelectsTurns, PrepareFails,
                AppendReadsSequence, AppendInserts, AppendFails, CompactReadsSummary,
                CompactSelectsSource, SummaryArrives, SummaryFails, CompactionStored,
                CompactionFails, StoresKept
    <2> QED
      BY <1>7, <2>1, <2>2, TwoKinds
  <1> QED
    BY <1>1, <1>2, <1>3, <1>4, <1>5, <1>6, <1>7 DEF Next

LEMMA ReadInit == Init => ReadInv
  BY FirstRow DEF Init, ReadInv

LEMMA ReadStep ==
    ASSUME SessionInv, ReadInv, [Next]_vars
    PROVE  ReadInv'
  <1>1. MemInv /\ MemInv' /\ Newer /\ FlowTypes
    BY MemoryMoves, SessionTypes DEF ReadInv
  <1>2. ASSUME NEW r \in Requests, stage'[r] = "archiving"
        PROVE  Read(local[r])' /\ ~local'[r].entry.pinned
    <2>1. ASSUME stage'[r] = stage[r], local'[r] = local[r]
          PROVE  Read(local[r])' /\ ~local'[r].entry.pinned
      <3>1. Read(local[r]) /\ ~local[r].entry.pinned
        BY <1>2, <2>1 DEF ReadInv
      <3> QED
        BY <1>1, <2>1, <3>1, ReadStays DEF Read
    <2>2. CASE UNCHANGED vars \/ PinReads \/ PinWrites
      BY <2>1, <2>2 DEF vars, requestVars, PinReads, PinWrites
    <2>3. ASSUME NEW p \in Processes, Crash(p) PROVE stage'[r] = stage[r] /\ local'[r] = local[r]
      BY <1>2, <2>3 DEF Crash
    <2>4. ASSUME NEW q \in Requests, Step(q), q # r
          PROVE  stage'[r] = stage[r] /\ local'[r] = local[r]
      BY <1>1, <2>4, StepIsApart DEF Apart
    <2>5. CASE CallSteps(r)
      <3>1. CASE CaptureCounts(r)
        <4>1. Full /\ UNCHANGED memoryVars
              /\ local'[r] = [kind |-> "victim", id |-> Victim, entry |-> memory[Victim]]
          BY <1>1, <1>2, <3>1 DEF CaptureCounts, Go, StoresKept, FlowTypes
        <4>2. Victim \in Active /\ ~memory[Victim].pinned
          BY <1>1, <3>1, <4>1, VictimIsActive DEF CaptureCounts
        <4>3. Read([kind |-> "victim", id |-> Victim, entry |-> memory[Victim]])
          BY <1>1, <4>2, ReadRow
        <4> QED
          BY <4>1, <4>2, <4>3 DEF Read, memoryVars
      <3>2. CASE ~CaptureCounts(r)
        BY <1>1, <1>2, <2>5, <3>2
           DEF CallSteps, CaptureNothing, CaptureAnswers, CaptureIsNew, CaptureRaises,
               ArchiveVictim, ArchiveIsStale, InsertFact, Answer, Answered, Raise, Go,
               FlowTypes
      <3> QED
        BY <3>1, <3>2
    <2>6. CASE SessionSteps(r)
      BY <1>1, <1>2, <2>6
         DEF SessionSteps, PrepareReadsSummary, PrepareSelectsTurns, PrepareFails,
             AppendReadsSequence, AppendInserts, AppendFails, CompactReadsSummary,
             CompactSelectsSource, SummaryArrives, SummaryFails, CompactionStored,
             CompactionFails, Finish, Go, FlowTypes
    <2> QED
      BY <2>1, <2>2, <2>3, <2>4, <2>5, <2>6, TwoKinds DEF Next
  <1>3. ASSUME pinner' # Nothing PROVE Read(pinner)'
    <2>1. CASE pinner' = pinner
      <3>1. Read(pinner)
        BY <1>3, <2>1 DEF ReadInv
      <3> QED
        BY <1>1, <2>1, <3>1, ReadStays DEF Read
    <2>2. CASE PinReads
      <3>1. UNCHANGED memoryVars
        BY <2>2 DEF PinReads, StoresKept
      <3>2. PICK i \in Active : pinner' = [kind |-> "pin", id |-> i, entry |-> memory[i]]
        BY <2>2 DEF PinReads
      <3>3. Read([kind |-> "pin", id |-> i, entry |-> memory[i]])
        BY <1>1, ReadRow
      <3> QED
        BY <3>1, <3>2, <3>3 DEF Read, memoryVars
    <2>3. ASSUME NEW r \in Requests, Step(r) PROVE pinner' = pinner
      <3>1. CASE CallSteps(r)
        BY <3>1 DEF CallSteps, CaptureNothing, CaptureAnswers, CaptureIsNew, CaptureCounts,
                  CaptureRaises,
                    ArchiveVictim, ArchiveIsStale, InsertFact, Answer, Raise, bounds
      <3>2. CASE SessionSteps(r)
        BY <3>2 DEF SessionSteps, PrepareReadsSummary, PrepareSelectsTurns, PrepareFails,
             AppendReadsSequence, AppendInserts, AppendFails, CompactReadsSummary,
             CompactSelectsSource, SummaryArrives, SummaryFails, CompactionStored,
             CompactionFails, Finish, bounds
      <3> QED
        BY <2>3, <3>1, <3>2, TwoKinds
    <2> QED
      BY <1>3, <2>1, <2>2, <2>3 DEF Next, vars, bounds, PinWrites, Crash
  <1> QED
    BY <1>1, <1>2, <1>3 DEF ReadInv

\* Every constant, variable and value has its type (the conversation and the
\* memory include those of their stores).
THEOREM TypeCorrect == Spec => []TypeOK
  <1>1. SessionInv /\ ReadInv => TypeOK
    <2> SUFFICES ASSUME SessionInv, ReadInv PROVE TypeOK
      OBVIOUS
    <2> USE DEF SessionInv, ReadInv
    <2>1. StoreTypeOK
      <3>1. turns \in Seq(Turn) /\ Len(turns) \in Nat
        BY DEF CoverInv
      <3>2. ASSUME NEW c \in compactions
            PROVE  c \in [through : Nat, sources : SUBSET (1 .. Len(turns))]
        <4>1. Covers(c)
          BY DEF CoverInv
        <4>2. c.through \in Nat /\ 1 .. c.through \subseteq 1 .. Len(turns)
          BY <3>1, <4>1 DEF Covers
        <4> QED
          BY <4>1, <4>2 DEF Covers
      <3> QED
        BY <3>1, <3>2 DEF StoreTypeOK, Turn
    <2>2. MemoryTypeOK
      BY DEF MemInv, MemoryTypeOK, Rows
    <2> QED
      BY <2>1, <2>2 DEF TypeOK, FlowInv, ContextInv, Context, AnswerInv, AnswerOk
  <1>2. Spec => []ReadInv
    <2>1. ReadInv /\ SessionInv /\ [Next]_vars => ReadInv'
      BY ReadStep
    <2> QED
      BY <2>1, ReadInit, SessionHolds, PTL DEF Spec
  <1> QED
    BY <1>1, <1>2, SessionHolds, PTL

\* The processes that have made room and not yet inserted.
Inserting == {p \in Processes : \E r \in Requests : Process[r] = p /\ stage[r] = "inserting"}

\* Whoever saw room inserts one entry.
RoomInv == Cardinality(Active) + Cardinality(Inserting)
               <= MaxEntries + Cardinality(Processes) - 1

LEMMA FiniteProcesses == IsFiniteSet(Processes) /\ Processes # {}
  <1> DEFINE serves == [r \in Requests |-> Process[r]]
  <1>1. serves \in [Requests -> Processes] /\ \A p \in Processes : \E r \in Requests : serves[r] = p
    BY DEF Processes
  <1>2. serves \in Surjection(Requests, Processes)
    BY <1>1, Fun_IsSurj
  <1> QED
    BY <1>2, FS_Surjection, SessionAssumption DEF Processes

LEMMA FiniteRows ==
    ASSUME NEW n \in Nat, NEW S \in SUBSET (1 .. n)
    PROVE  IsFiniteSet(S) /\ Cardinality(S) \in Nat
  <1>1. IsFiniteSet(1 .. n)
    BY FS_Interval
  <1>2. IsFiniteSet(S)
    BY <1>1, FS_Subset
  <1> QED
    BY <1>2, FS_CardinalityType

LEMMA SomeProcesses ==
    ASSUME NEW S \in SUBSET Processes
    PROVE  /\ IsFiniteSet(S) /\ Cardinality(S) \in Nat
           /\ Cardinality(S) <= Cardinality(Processes) /\ Cardinality(Processes) \in Nat
  BY FiniteProcesses, FS_Subset, FS_CardinalityType

LEMMA RoomInit == Init => RoomInv
  <1> SUFFICES ASSUME Init PROVE RoomInv
    OBVIOUS
  <1>1. Active = {1} /\ Inserting = {}
    BY DEF Init, Active, Inserting
  <1>2. Cardinality(Active) = 1 /\ Cardinality(Inserting) = 0
    BY <1>1, FS_Singleton, FS_EmptySet
  <1>3. Cardinality(Processes) \in Nat /\ Cardinality(Processes) # 0
    BY FiniteProcesses, FS_EmptySet, FS_CardinalityType
  <1> QED
    BY <1>2, <1>3, MemoryAssumption DEF RoomInv

\* A process makes room or sees some for one request at a time.
LEMMA InsertingMoves ==
    ASSUME SessionInv, NEW r \in Requests, Step(r)
    PROVE  /\ Inserting' \subseteq Inserting \cup {Process[r]}
           /\ stage'[r] # "inserting" => Inserting' \subseteq Inserting
           /\ stage[r] = "inserting" /\ stage'[r] # "inserting"
                => Inserting' \subseteq Inserting \ {Process[r]} /\ Process[r] \in Inserting
  <1>1. \A q \in Requests \ {r} : stage'[q] = stage[q]
    BY SessionTypes, StepIsApart DEF Apart
  <1>2. ASSUME NEW q \in Requests \ {r}, stage[r] = "inserting", stage[q] = "inserting"
        PROVE  Process[q] # Process[r]
    BY <1>2, SessionAssumption DEF SessionInv, FlowInv, Holding
  <1> QED
    BY <1>1, <1>2, ProcessOf DEF Inserting

LEMMA RoomStep ==
    ASSUME SessionInv, ReadInv, RoomInv, [Next]_vars
    PROVE  RoomInv'
  <1>1. /\ Cardinality(Active) \in Nat /\ Cardinality(Active') \in Nat
        /\ IsFiniteSet(Active) /\ IsFiniteSet(Active')
    <2>1. MemInv /\ MemInv'
      BY MemoryMoves DEF ReadInv
    <2>2. Rows \in Nat /\ Rows' \in Nat
          /\ Active \in SUBSET (1 .. Rows) /\ Active' \in SUBSET (1 .. Rows')
      BY <2>1 DEF MemInv, Active
    <2> QED
      BY <2>2, FiniteRows
  <1>2. /\ Cardinality(Inserting) \in Nat /\ Cardinality(Inserting') \in Nat
        /\ IsFiniteSet(Inserting) /\ IsFiniteSet(Inserting')
        /\ Cardinality(Inserting') <= Cardinality(Processes)
        /\ Cardinality(Processes) \in Nat
    <2>1. Inserting \in SUBSET Processes /\ Inserting' \in SUBSET Processes
      BY DEF Inserting
    <2> QED
      BY <2>1, SomeProcesses
  <1>3. MaxEntries \in Nat \ {0}
    BY MemoryAssumption
  <1>4. ASSUME Active' = Active, Inserting' \subseteq Inserting PROVE RoomInv'
    <2>1. Cardinality(Inserting') <= Cardinality(Inserting)
      BY <1>2, <1>4, FS_Subset
    <2> QED
      BY <1>1, <1>2, <1>3, <1>4, <2>1 DEF RoomInv
  <1>5. ASSUME UNCHANGED memoryVars PROVE Active' = Active
    BY <1>5 DEF memoryVars, Active
  <1>6. CASE UNCHANGED vars \/ PinReads
    BY <1>4, <1>5, <1>6 DEF vars, requestVars, PinReads, StoresKept, Inserting
  <1>7. CASE PinWrites
    <2>1. Inserting' = Inserting
      BY <1>7 DEF PinWrites, requestVars, Inserting
    <2>2. CASE UNCHANGED memoryVars
      BY <1>4, <1>5, <2>1, <2>2
    <2>3. CASE Replace(pinner.id, pinner.entry.version, [pinner.entry EXCEPT !.pinned = TRUE])
      <3>1. /\ pinner.id \in DOMAIN memory /\ pinner.entry \in Entry /\ ~pinner.entry.archived
            /\ memory[pinner.id] = pinner.entry
        BY <1>7, <2>3 DEF PinWrites, ReadInv, Read, Replace
      <3>2. DOMAIN memory' = DOMAIN memory
            /\ \A i \in DOMAIN memory : memory'[i].archived = memory[i].archived
        BY <2>3, <3>1 DEF Replace, Entry
      <3>3. Active' = Active
        BY <3>2 DEF Active
      <3> QED
        BY <1>4, <2>1, <3>3
    <2> QED
      BY <1>7, <2>2, <2>3 DEF PinWrites
  <1>8. ASSUME NEW p \in Processes, Crash(p) PROVE RoomInv'
    BY <1>4, <1>5, <1>8 DEF Crash, StoresKept, Inserting
  <1>9. ASSUME NEW r \in Requests, CaptureCounts(r) PROVE RoomInv'
    <2>1. Active' = Active /\ (Full => stage'[r] = "archiving")
      BY <1>5, <1>9 DEF CaptureCounts, StoresKept, Go, SessionInv, FlowInv
    <2>2. CASE Full
      BY <1>4, <1>9, <2>1, <2>2, InsertingMoves DEF Step
    <2>3. CASE ~Full
      BY <1>1, <1>2, <1>3, <2>1, <2>3 DEF Full, RoomInv
    <2> QED
      BY <2>2, <2>3
  <1>10. ASSUME NEW r \in Requests, ArchiveVictim(r) PROVE RoomInv'
    <2>1. /\ local[r].id \in Active
          /\ memory' = [memory EXCEPT ![local[r].id] =
                [local[r].entry EXCEPT !.archived = TRUE,
                                       !.version = local[r].entry.version + 1]]
          /\ local[r].entry \in Entry
      BY <1>10 DEF ArchiveVictim, At, ReadInv, Read, Replace, Active, Entry
    <2>2. Active' = Active \ {local[r].id}
      BY <2>1 DEF Active, Entry
    <2>3. Cardinality(Active') = Cardinality(Active) - 1
      BY <1>1, <2>1, <2>2, FS_RemoveElement
    <2>4. Inserting' \subseteq Inserting \cup {Process[r]}
      BY <1>10, InsertingMoves DEF Step
    <2>5. Cardinality(Inserting') <= Cardinality(Inserting) + 1
      <3>1. /\ IsFiniteSet(Inserting \cup {Process[r]})
            /\ Cardinality(Inserting \cup {Process[r]}) <= Cardinality(Inserting) + 1
        BY <1>2, FS_AddElement
      <3>2. Cardinality(Inserting') <= Cardinality(Inserting \cup {Process[r]})
            /\ Cardinality(Inserting \cup {Process[r]}) \in Nat
        BY <2>4, <3>1, FS_Subset, FS_CardinalityType
      <3> QED
        BY <1>2, <3>1, <3>2
    <2> QED
      BY <1>1, <1>2, <1>3, <2>3, <2>5 DEF RoomInv
  <1>11. ASSUME NEW r \in Requests, InsertFact(r) PROVE RoomInv'
    <2>1. Insert(goal[r].fact) /\ goal[r].fact \in Facts
          /\ stage[r] = "inserting" /\ stage'[r] = "answered"
      BY <1>11 DEF InsertFact, At, Answered, Go, SessionInv, FlowInv
    <2>2. Active' = Active \cup {Rows + 1} /\ Rows + 1 \notin Active
      BY <2>1, InsertKeeps DEF ReadInv, Active
    <2>3. Cardinality(Active') = Cardinality(Active) + 1
      BY <1>1, <2>2, FS_AddElement
    <2>4. Inserting' \subseteq Inserting \ {Process[r]} /\ Process[r] \in Inserting
      BY <1>11, <2>1, InsertingMoves DEF Step
    <2>5. Cardinality(Inserting') <= Cardinality(Inserting) - 1
      <3>1. /\ IsFiniteSet(Inserting \ {Process[r]})
            /\ Cardinality(Inserting \ {Process[r]}) = Cardinality(Inserting) - 1
        BY <1>2, <2>4, FS_RemoveElement
      <3> QED
        BY <2>4, <3>1, FS_Subset
    <2> QED
      BY <1>1, <1>2, <1>3, <2>3, <2>5 DEF RoomInv
  <1>12. ASSUME NEW r \in Requests, Step(r), ~CaptureCounts(r), ~ArchiveVictim(r), ~InsertFact(r)
         PROVE  RoomInv'
    <2>1. UNCHANGED memoryVars /\ stage'[r] # "inserting"
      <3>1. CASE CallSteps(r)
        BY <1>12, <3>1 DEF CallSteps, CaptureNothing, CaptureAnswers, CaptureIsNew, CaptureRaises,
                  ArchiveIsStale, Answer, Answered, Raise, Go, StoresKept, SessionInv, FlowInv
      <3>2. CASE SessionSteps(r)
        BY <3>2 DEF SessionSteps, PrepareReadsSummary, PrepareSelectsTurns, PrepareFails,
                  AppendReadsSequence, AppendInserts, AppendFails, CompactReadsSummary,
                  CompactSelectsSource, SummaryArrives, SummaryFails, CompactionStored,
                  CompactionFails, Finish, Go, StoresKept, SessionInv, FlowInv
      <3> QED
        BY <1>12, <3>1, <3>2, TwoKinds
    <2> QED
      BY <1>4, <1>5, <1>12, <2>1, InsertingMoves
  <1> QED
    BY <1>6, <1>7, <1>8, <1>9, <1>10, <1>11, <1>12 DEF Next

\* Making room never archives an entry that is pinned, however late the pin came
\* (the version in _replace, memory/sqlite.py); and writers that each saw room
\* pass the limit by no more than one entry for each other process.
THEOREM MemoryIsKept == Spec => MemoryKept
  <1>1. Spec => []ReadInv
    <2>1. ReadInv /\ SessionInv /\ [Next]_vars => ReadInv'
      BY ReadStep
    <2> QED
      BY <2>1, ReadInit, SessionHolds, PTL DEF Spec
  <1>2. Spec => []RoomInv
    <2>1. RoomInv /\ SessionInv /\ ReadInv /\ [Next]_vars => RoomInv'
      BY RoomStep
    <2> QED
      BY <1>1, <2>1, RoomInit, SessionHolds, PTL DEF Spec
  <1>3. ReadInv /\ RoomInv
          => Cardinality(Active) <= MaxEntries + Cardinality(Processes) - 1
    <2> SUFFICES ASSUME ReadInv, RoomInv
                 PROVE  Cardinality(Active) <= MaxEntries + Cardinality(Processes) - 1
      OBVIOUS
    <2>1. Rows \in Nat /\ Active \in SUBSET (1 .. Rows) /\ Inserting \in SUBSET Processes
      BY DEF ReadInv, MemInv, Active, Inserting
    <2>2. Cardinality(Active) \in Nat /\ Cardinality(Inserting) \in Nat
          /\ Cardinality(Processes) \in Nat
      BY <2>1, FiniteRows, SomeProcesses
    <2> QED
      BY <2>2, MemoryAssumption DEF RoomInv
  <1>4. SessionInv /\ ReadInv /\ [Next]_vars =>
          [\A i \in DOMAIN memory :
               memory[i].pinned /\ ~memory[i].archived => ~memory'[i].archived]_vars
    BY MemoryMoves
  <1> QED
    BY <1>1, <1>2, <1>3, <1>4, SessionHolds, PTL DEF Spec, MemoryKept

-----------------------------------------------------------------------------
(***************************************************************************)
(* What reaches the model.                                                 *)
(***************************************************************************)

LEMMA UsedUnfolds ==
    ASSUME NEW size
    PROVE  /\ Used(size)[0] = 0
           /\ \A n \in 1 .. 5 :
                Used(size)[n] = Used(size)[n - 1]
                    + Least(Wanted(size, Sources[n]), MaxChars - Used(size)[n - 1])
  <1> DEFINE want(n) == Wanted(size, Sources[n])
             next(n, u) == u + Least(want(n), MaxChars - u)
             unfold(u) == [n \in 0 .. 5 |-> IF n = 0 THEN 0 ELSE next(n, u[n - 1])]
  <1>1. Used(size) = CHOOSE u : u = unfold(u)
    BY DEF Used
  <1> HIDE DEF next
  <1>2. \E u : u = unfold(u)
    <2> DEFINE u1 == next(1, 0)
               u2 == next(2, u1)
               u3 == next(3, u2)
               u4 == next(4, u3)
               u5 == next(5, u4)
               u == [n \in 0 .. 5 |-> IF n = 0 THEN 0 ELSE IF n = 1 THEN u1 ELSE IF n = 2 THEN u2
                                      ELSE IF n = 3 THEN u3 ELSE IF n = 4 THEN u4 ELSE u5]
    <2>1. \A n \in 0 .. 5 : n \in {0, 1, 2, 3, 4, 5}
      OBVIOUS
    <2>2. u[0] = 0 /\ u[1] = u1 /\ u[2] = u2 /\ u[3] = u3 /\ u[4] = u4 /\ u[5] = u5
      OBVIOUS
    <2>3. DOMAIN u = 0 .. 5 /\ u = [n \in 0 .. 5 |-> u[n]]
      OBVIOUS
    <2> HIDE DEF u
    <2>4. \A n \in 0 .. 5 : u[n] = IF n = 0 THEN 0 ELSE next(n, u[n - 1])
      BY <2>1, <2>2
    <2>5. u = unfold(u)
      BY <2>3, <2>4
    <2> HIDE DEF unfold
    <2> QED
      BY <2>5
  <1>3. Used(size) = unfold(Used(size))
    <2> HIDE DEF unfold
    <2> QED
      BY <1>1, <1>2
  <1>4. \A n \in 1 .. 5 : n \in 0 .. 5 /\ n # 0
    OBVIOUS
  <1>5. Used(size)[0] = 0 /\ \A n \in 1 .. 5 : Used(size)[n] = next(n, Used(size)[n - 1])
    BY <1>3, <1>4
  <1> QED
    BY <1>5 DEF next

\* With a conversation the host, the latest turns and the skills leave something
\* of more than 640 characters; with 640 they may take 256 + 256 + 128.
LEMMA LimitsLeaveRoom ==
    ASSUME MaxChars > 640, NEW skills \in BOOLEAN
    PROVE  LET limit == LimitsOf(TRUE, skills) IN
           /\ limit["recent"] > 0 /\ limit["summary"] > 0
           /\ limit["host"] + limit["recent"] + limit["skills"] < MaxChars
  <1> DEFINE limit == LimitsOf(TRUE, skills)
  <1>1. MaxChars \in Nat
    BY ManifestAssumption
  <1>2. ASSUME NEW n \in {12, 15, 20, 25, 40, 45}
        PROVE  /\ Percent(n) \in Nat /\ Percent(n) > 0
               /\ 100 * Percent(n) <= MaxChars * n
    BY <1>1, <1>2 DEF Percent
  <1>3. CASE skills
    <2>1. limit = Limits(AtLeast(256, Percent(20)), Percent(40), Percent(20), Percent(12))
      BY <1>3 DEF LimitsOf
    <2> HIDE DEF limit
    <2>2. /\ limit["host"] = AtLeast(256, Percent(20)) /\ limit["recent"] = Percent(40)
          /\ limit["skills"] = Percent(20) /\ limit["summary"] = Percent(12)
      BY <2>1 DEF Limits
    <2>3. Percent(12) > 0 /\ Percent(40) > 0
          /\ AtLeast(256, Percent(20)) + Percent(40) + Percent(20) < MaxChars
      BY <1>1, <1>2 DEF AtLeast
    <2>4. /\ limit["recent"] > 0 /\ limit["summary"] > 0
          /\ limit["host"] + limit["recent"] + limit["skills"] < MaxChars
      BY <2>2, <2>3
    <2> QED
      BY <2>4 DEF limit
  <1>4. CASE ~skills
    <2>1. limit = Limits(AtLeast(256, Percent(25)), Percent(45), 0, Percent(15))
      BY <1>4 DEF LimitsOf
    <2> HIDE DEF limit
    <2>2. /\ limit["host"] = AtLeast(256, Percent(25)) /\ limit["recent"] = Percent(45)
          /\ limit["skills"] = 0 /\ limit["summary"] = Percent(15)
      BY <2>1 DEF Limits
    <2>3. Percent(15) > 0 /\ Percent(45) > 0
          /\ AtLeast(256, Percent(25)) + Percent(45) + 0 < MaxChars
      BY <1>1, <1>2 DEF AtLeast
    <2>4. /\ limit["recent"] > 0 /\ limit["summary"] > 0
          /\ limit["host"] + limit["recent"] + limit["skills"] < MaxChars
      BY <2>2, <2>3
    <2> QED
      BY <2>4 DEF limit
  <1> QED
    BY <1>3, <1>4

LEMMA LimitsAreNat ==
    ASSUME NEW conversation \in BOOLEAN, NEW skills \in BOOLEAN
    PROVE  \A s \in {"host", "recent", "skills", "summary", "memory"} :
               LimitsOf(conversation, skills)[s] \in Nat
  <1> DEFINE Natural(l) ==
        \A s \in {"host", "recent", "skills", "summary", "memory"} : l[s] \in Nat
  <1>1. MaxChars \in Nat
    BY ManifestAssumption
  <1>2. \A n \in Nat : Percent(n) \in Nat
    BY <1>1 DEF Percent
  <1>3. MaxChars \div 2 \in Nat /\ (MaxChars * 2) \div 3 \in Nat
    BY <1>1
  <1>4. \A n \in Nat : AtLeast(256, n) \in Nat
    BY DEF AtLeast
  <1>5. ASSUME NEW host \in Nat, NEW recent \in Nat, NEW skill \in Nat, NEW summary \in Nat
        PROVE  Natural(Limits(host, recent, skill, summary))
    <2>1. Rest(host + recent + skill + summary) \in Nat
      BY <1>1 DEF Rest
    <2> QED
      BY <2>1 DEF Limits
  <1> HIDE DEF Natural
  <1>6. ASSUME conversation /\ skills PROVE Natural(LimitsOf(conversation, skills))
    <2>1. LimitsOf(conversation, skills)
            = Limits(AtLeast(256, Percent(20)), Percent(40), Percent(20), Percent(12))
      BY <1>6 DEF LimitsOf
    <2>2. AtLeast(256, Percent(20)) \in Nat /\ Percent(40) \in Nat /\ Percent(20) \in Nat
          /\ Percent(12) \in Nat
      BY <1>2, <1>4
    <2> QED
      BY <1>5, <2>1, <2>2
  <1>7. ASSUME conversation /\ ~skills PROVE Natural(LimitsOf(conversation, skills))
    <2>1. LimitsOf(conversation, skills)
            = Limits(AtLeast(256, Percent(25)), Percent(45), 0, Percent(15))
      BY <1>7 DEF LimitsOf
    <2>2. AtLeast(256, Percent(25)) \in Nat /\ Percent(45) \in Nat /\ Percent(15) \in Nat
      BY <1>2, <1>4
    <2> QED
      BY <1>5, <2>1, <2>2
  <1>8. ASSUME ~conversation /\ skills PROVE Natural(LimitsOf(conversation, skills))
    <2>1. LimitsOf(conversation, skills)
            = Limits(AtLeast(256, MaxChars \div 2), 0, Percent(35), 0)
      BY <1>8 DEF LimitsOf
    <2>2. AtLeast(256, MaxChars \div 2) \in Nat /\ Percent(35) \in Nat /\ 0 \in Nat
      BY <1>2, <1>3, <1>4
    <2> QED
      BY <1>5, <2>1, <2>2
  <1>9. ASSUME ~conversation /\ ~skills PROVE Natural(LimitsOf(conversation, skills))
    <2>1. LimitsOf(conversation, skills)
            = Limits(AtLeast(256, (MaxChars * 2) \div 3), 0, 0, 0)
      BY <1>9 DEF LimitsOf
    <2>2. AtLeast(256, (MaxChars * 2) \div 3) \in Nat /\ 0 \in Nat
      BY <1>3, <1>4
    <2> QED
      BY <1>5, <2>1, <2>2
  <1>10. Natural(LimitsOf(conversation, skills))
    BY <1>6, <1>7, <1>8, <1>9
  <1> QED
    BY <1>10 DEF Natural

LEMMA ShareIsDifference ==
    ASSUME NEW size, NEW n \in 1 .. 5
    PROVE  Manifest(size)[Sources[n]] = Used(size)[n] - Used(size)[n - 1]
  <1>1. \A k \in 1 .. 5 : Sources[k] = Sources[n] => k = n
    BY DEF Sources
  <1>2. (CHOOSE k \in 1 .. 5 : Sources[k] = Sources[n]) = n
    BY <1>1
  <1>3. Sources[n] \in {Sources[k] : k \in 1 .. 5}
    OBVIOUS
  <1> QED
    BY <1>2, <1>3 DEF Manifest

\* The sources fill the budget one after the other; those before the summary
\* leave something of it when their limits do.
LEMMA SharesFit ==
    ASSUME NEW size,
           \A s \in {"host", "recent", "skills", "summary", "memory"} : size[s] \in Nat,
           NEW limit,
           limit = LimitsOf(size["recent"] + size["summary"] > 0, size["skills"] > 0)
    PROVE  /\ /\ limit["host"] + limit["recent"] + limit["skills"] < MaxChars
              /\ limit["summary"] > 0
              => /\ size["recent"] <= limit["recent"] => Manifest(size)["recent"] = size["recent"]
                 /\ size["summary"] > 0 => Manifest(size)["summary"] > 0
           /\ Manifest(size)["host"] + Manifest(size)["recent"] + Manifest(size)["skills"]
                + Manifest(size)["summary"] + Manifest(size)["memory"] <= MaxChars
  <1> DEFINE w(s) == Wanted(size, s)
             u(n) == Used(size)[n]
  <1>1. \A s \in {"host", "recent", "skills", "summary", "memory"} : limit[s] \in Nat
    <2>1. (size["recent"] + size["summary"] > 0) \in BOOLEAN /\ (size["skills"] > 0) \in BOOLEAN
      OBVIOUS
    <2> QED
      BY <2>1, LimitsAreNat
  <1>2. \A s : w(s) = Least(size[s], limit[s])
    BY DEF Wanted
  <1>3. /\ Sources[1] = "host" /\ Sources[2] = "recent" /\ Sources[3] = "skills"
        /\ Sources[4] = "summary" /\ Sources[5] = "memory"
    BY DEF Sources
  <1>4. /\ u(0) = 0
        /\ \A n \in 1 .. 5 : u(n) = u(n - 1) + Least(w(Sources[n]), MaxChars - u(n - 1))
    BY UsedUnfolds
  <1>5. /\ Manifest(size)["host"] = u(1) - u(0) /\ Manifest(size)["recent"] = u(2) - u(1)
        /\ Manifest(size)["skills"] = u(3) - u(2) /\ Manifest(size)["summary"] = u(4) - u(3)
        /\ Manifest(size)["memory"] = u(5) - u(4)
    <2>1. \A n \in 1 .. 5 : Manifest(size)[Sources[n]] = u(n) - u(n - 1)
      BY ShareIsDifference
    <2> QED
      BY <1>3, <2>1
  <1> HIDE DEF w, u
  <1>6. /\ w("host") \in Nat /\ w("recent") \in Nat /\ w("skills") \in Nat
        /\ w("summary") \in Nat /\ w("memory") \in Nat
        /\ w("host") <= limit["host"] /\ w("recent") <= limit["recent"]
        /\ w("skills") <= limit["skills"]
        /\ size["recent"] <= limit["recent"] => w("recent") = size["recent"]
        /\ size["summary"] > 0 /\ limit["summary"] > 0 => w("summary") > 0
    BY <1>1, <1>2 DEF Least
  <1>7. /\ u(1) = Least(w("host"), MaxChars)
        /\ u(2) = u(1) + Least(w("recent"), MaxChars - u(1))
        /\ u(3) = u(2) + Least(w("skills"), MaxChars - u(2))
        /\ u(4) = u(3) + Least(w("summary"), MaxChars - u(3))
        /\ u(5) = u(4) + Least(w("memory"), MaxChars - u(4))
    BY <1>3, <1>4, <1>6, ManifestAssumption DEF Least
  <1>8. /\ u(1) \in Nat /\ u(1) <= w("host") /\ u(1) <= MaxChars
        /\ u(2) \in Nat /\ u(2) <= u(1) + w("recent") /\ u(2) <= MaxChars
        /\ u(3) \in Nat /\ u(3) <= u(2) + w("skills") /\ u(3) <= MaxChars
    BY <1>6, <1>7, ManifestAssumption DEF Least
  <1>9. u(4) \in Nat /\ u(4) <= MaxChars /\ u(5) \in Nat /\ u(5) <= MaxChars
    <2>1. ASSUME NEW taken \in Nat, taken <= MaxChars, NEW wanted \in Nat
          PROVE  /\ taken + Least(wanted, MaxChars - taken) \in Nat
                 /\ taken + Least(wanted, MaxChars - taken) <= MaxChars
      BY <2>1, ManifestAssumption DEF Least
    <2>2. u(4) \in Nat /\ u(4) <= MaxChars
      BY <1>6, <1>7, <1>8, <2>1
    <2> QED
      BY <1>6, <1>7, <2>1, <2>2
  <1>10. limit["host"] + limit["recent"] + limit["skills"] < MaxChars
            => u(2) - u(1) = w("recent")
    BY <1>1, <1>6, <1>7, <1>8, ManifestAssumption DEF Least
  <1>11. u(3) < MaxChars /\ w("summary") > 0 => u(4) - u(3) > 0
    BY <1>6, <1>7, <1>8, ManifestAssumption DEF Least
  <1>12. limit["host"] + limit["recent"] + limit["skills"] < MaxChars
            => u(3) < MaxChars
    BY <1>1, <1>6, <1>8, ManifestAssumption
  <1> QED
    BY <1>4, <1>5, <1>6, <1>8, <1>9, <1>10, <1>11, <1>12

\* Text that fits is whole.
LEMMA AllAreWhole ==
    ASSUME NEW r \in Requests, NEW n, IsFiniteSet(context[r].quoted),
           TurnChars * Cardinality(context[r].quoted) = n
    PROVE  Whole(r, n) = context[r].quoted
  <1> DEFINE quoted == context[r].quoted
             upTo(k) == {m \in quoted : m <= k}
  <1>1. TurnChars \in Nat /\ Cardinality(quoted) \in Nat
    BY SessionAssumption, FS_CardinalityType
  <1>2. ASSUME NEW k \in quoted PROVE TurnChars * Cardinality(upTo(k)) <= n
    <2>1. /\ Cardinality(upTo(k)) \in Nat
          /\ Cardinality(upTo(k)) <= Cardinality(quoted)
      BY FS_Subset, FS_CardinalityType
    <2>2. ASSUME NEW a \in Nat, NEW b \in Nat, a <= b, NEW t \in Nat PROVE t * a <= t * b
      BY <2>2
    <2> HIDE DEF quoted, upTo
    <2>3. TurnChars * Cardinality(upTo(k)) <= TurnChars * Cardinality(quoted)
      BY <1>1, <2>1, <2>2
    <2> QED
      BY <2>3 DEF quoted
  <1>3. n \in Nat
    BY <1>1
  <1> QED
    BY <1>2, <1>3 DEF Whole

\* However large the host's own context and the skills are, all the quoted turns
\* reach the model if they fit their share, the summary is not crowded out, and
\* all sources fit (_prepare_request, agent/general.py).  The first two need a
\* budget above 640 characters: of 640 the host's minimum of 256 and the shares of
\* the turns and the skills leave the summary nothing.
THEOREM ConversationReaches == Spec => []ConversationIsShown
  <1>1. SessionInv /\ ReadInv => ConversationIsShown
    <2> SUFFICES ASSUME SessionInv, ReadInv, NEW r \in Requests,
                        NEW host \in HostChars, NEW skills \in SkillChars
                 PROVE  LET size == Sizes(r, host, skills)
                            shown == Manifest(size)
                        IN /\ MaxChars > 640 =>
                                /\ size["recent"] <= LimitsOf(TRUE, skills > 0)["recent"] =>
                                        Whole(r, shown["recent"]) = context[r].quoted
                                /\ context[r].through > 0 => shown["summary"] > 0
                           /\ shown["host"] + shown["recent"] + shown["skills"]
                                + shown["summary"] + shown["memory"] <= MaxChars
      BY ZenonT(60) DEF ConversationIsShown
    <2> DEFINE size == Sizes(r, host, skills)
               quotes == Cardinality(context[r].quoted)
               entries == Cardinality(Active)
    <2>1. /\ context[r].through \in Nat /\ context[r].quoted \in SUBSET (1 .. Len(turns))
          /\ Len(turns) \in Nat
      BY DEF SessionInv, ContextInv, Context, CoverInv
    <2>2. IsFiniteSet(context[r].quoted) /\ quotes \in Nat
      BY <2>1, FiniteRows
    <2>3. entries \in Nat
      <3>1. Rows \in Nat /\ Active \in SUBSET (1 .. Rows)
        BY DEF ReadInv, MemInv, Active
      <3> QED
        BY <3>1, FiniteRows
    <2>4. /\ TurnChars \in Nat \ {0} /\ SummaryChars \in Nat \ {0} /\ EntryChars \in Nat \ {0}
          /\ host \in Nat /\ skills \in Nat
      BY SessionAssumption
    <2>5. /\ size["host"] = host /\ size["skills"] = skills
          /\ size["recent"] = TurnChars * quotes
          /\ size["summary"] = IF context[r].through > 0 THEN SummaryChars ELSE 0
          /\ size["memory"] = EntryChars * entries
      BY DEF Sizes
    <2> HIDE DEF size, quotes, entries
    <2>6. TurnChars * quotes \in Nat /\ EntryChars * entries \in Nat
      BY <2>2, <2>3, <2>4
    <2>7. \A s \in {"host", "recent", "skills", "summary", "memory"} : size[s] \in Nat
      BY <2>4, <2>5, <2>6
    <2> DEFINE limit == LimitsOf(size["recent"] + size["summary"] > 0, size["skills"] > 0)
    <2>8. /\ /\ limit["host"] + limit["recent"] + limit["skills"] < MaxChars
             /\ limit["summary"] > 0
             => /\ size["recent"] <= limit["recent"] => Manifest(size)["recent"] = size["recent"]
                /\ size["summary"] > 0 => Manifest(size)["summary"] > 0
          /\ Manifest(size)["host"] + Manifest(size)["recent"] + Manifest(size)["skills"]
               + Manifest(size)["summary"] + Manifest(size)["memory"] <= MaxChars
      BY <2>7, SharesFit
    <2>9. ASSUME size["recent"] > 0 \/ size["summary"] > 0, MaxChars > 640
          PROVE  /\ limit = LimitsOf(TRUE, skills > 0)
                 /\ limit["host"] + limit["recent"] + limit["skills"] < MaxChars
                 /\ limit["summary"] > 0
      <3>1. (size["recent"] + size["summary"] > 0) = TRUE /\ (size["skills"] > 0) \in BOOLEAN
        BY <2>7, <2>9
      <3> QED
        BY <2>5, <2>9, <3>1, LimitsLeaveRoom
    <2> HIDE DEF limit
    <2>10. ASSUME MaxChars > 640, size["recent"] <= LimitsOf(TRUE, skills > 0)["recent"]
           PROVE  Whole(r, Manifest(size)["recent"]) = context[r].quoted
      <3>1. CASE size["recent"] > 0
        <4>1. Manifest(size)["recent"] = TurnChars * quotes
          BY <2>5, <2>8, <2>9, <2>10, <3>1
        <4> QED
          BY <2>2, <4>1, AllAreWhole DEF quotes
      <3>2. CASE size["recent"] = 0
        <4>1. quotes = 0
          BY <2>2, <2>4, <2>5, <3>2
        <4>2. context[r].quoted = {}
          BY <2>2, <4>1, FS_EmptySet DEF quotes
        <4> QED
          BY <4>2 DEF Whole
      <3> QED
        BY <2>7, <3>1, <3>2
    <2>11. ASSUME MaxChars > 640, context[r].through > 0 PROVE Manifest(size)["summary"] > 0
      <3>1. size["summary"] > 0
        BY <2>4, <2>5, <2>11
      <3> QED
        BY <2>8, <2>9, <2>11, <3>1
    <2> QED
      BY ZenonT(60), <2>8, <2>10, <2>11 DEF size
  <1>2. Spec => []ReadInv
    <2>1. ReadInv /\ SessionInv /\ [Next]_vars => ReadInv'
      BY ReadStep
    <2> QED
      BY <2>1, ReadInit, SessionHolds, PTL DEF Spec
  <1> QED
    BY <1>1, <1>2, SessionHolds, PTL
=============================================================================
