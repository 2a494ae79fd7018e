------------------------ MODULE StatusHistoryProofs ------------------------
(***************************************************************************)
(* Proofs about StatusHistory for every number of executors and operators  *)
(* and both kinds of adapter.                                              *)
(*                                                                         *)
(* TypeOK is inductive.  SeqInv adds that no copy of the row is ahead of   *)
(* the events, LockInv that a locking adapter leaves no append half done   *)
(* and the row exact.  StopInv is what makes a cancellation final while    *)
(* there is one operator: no process is about to replace a status it read  *)
(* before the cancellation.                                                *)
(***************************************************************************)
EXTENDS StatusHistory, SequenceTheorems, TLAPS

SeqInv ==
    /\ run.event_seq <= last_seq
    /\ \A p \in Processes : proc[p].seen.event_seq <= last_seq

LockInv ==
    adapter = "locking" =>
        /\ run.event_seq = last_seq
        /\ \A p \in Processes : proc[p].phase \notin {"seq", "write"}

IInv == TypeOK /\ SeqInv /\ LockInv

\* What an operator may still have to do.
ControlWork ==
    {<<>>, <<"event">>, <<"set_status", "event">>, <<"event", "set_status", "event">>,
     <<"checkpoint", "event", "set_status", "event">>,
     <<"event", "checkpoint", "event", "set_status", "event">>}

\* It has yet to set the status.
Undecided == ControlWork \ {<<>>, <<"event">>}

StopInv ==
    adapter = "locking" =>
        /\ \A p \in Executors :
              /\ proc[p].target \in RuntimeTargets
              /\ proc[p].phase = "swap" => proc[p].expected \notin OperatorStop
        /\ \A o \in Operators :
              /\ proc[o].todo \in ControlWork
              /\ proc[o].todo \in Undecided => run.status # "cancelled"
-----------------------------------------------------------------------------
(***************************************************************************)
(* What a process may look like, and what its steps do to it.              *)
(***************************************************************************)
Phases == {"start", "seq", "write", "swap", "retry"}

Proc ==
    [todo : Seq(Calls), phase : Phases, target : TaskRunStatus, expected : TaskRunStatus,
     seen : Row, seq : Nat]

ProcOk(p, x) ==
    /\ x \in Proc
    /\ x.phase \in {"seq", "write"} => x.todo # <<>> /\ Head(x.todo) \in Appends
    /\ x.phase \in {"swap", "retry"} => x.todo # <<>> /\ Head(x.todo) = "set_status"
    /\ x.phase = "retry" => p \in Operators

\* The process of a step: its locals become x, and no other process moves.
Becomes(p, x) == ProcOk(p, x) /\ proc' = [proc EXCEPT ![p] = x]

StoredOk ==
    /\ adapter \in Adapters /\ run \in Row /\ last_seq \in Nat /\ checkpoint_seq \in Nat
    /\ work \in 0 .. MaxWork

LEMMA TypeParts ==
    TypeOK <=> /\ StoredOk /\ proc \in [Processes -> Proc]
               /\ \A p \in Processes : ProcOk(p, proc[p])
<1>1. ASSUME proc \in [Processes -> Proc], NEW p \in Processes
      PROVE  ProcOk(p, proc[p]) <=>
                 /\ proc[p].phase \in {"seq", "write"} => Calling(p, Appends, proc[p].phase)
                 /\ proc[p].phase \in {"swap", "retry"} =>
                        Calling(p, {"set_status"}, proc[p].phase)
                 /\ proc[p].phase = "retry" => p \in Operators
  BY <1>1 DEF ProcOk, Calling
<1> QED BY <1>1 DEF TypeOK, StoredOk, Proc, Phases, ProcOk

LEMMA ProcMove ==
    ASSUME TypeOK, NEW p \in Processes, NEW x, Becomes(p, x), StoredOk'
    PROVE  /\ TypeOK'
           /\ proc'[p] = x /\ \A q \in Processes \ {p} : proc'[q] = proc[q]
<1>1. proc \in [Processes -> Proc] /\ \A q \in Processes : ProcOk(q, proc[q])
  BY TypeParts
<1>2. x \in Proc /\ proc' = [proc EXCEPT ![p] = x] /\ ProcOk(p, x)
  BY DEF Becomes, ProcOk
<1>3. /\ proc' \in [Processes -> Proc]
      /\ proc'[p] = x /\ \A q \in Processes \ {p} : proc'[q] = proc[q]
  BY <1>1, <1>2
<1>4. (\A q \in Processes : ProcOk(q, proc[q]))'
  <2> SUFFICES ASSUME NEW q \in Processes PROVE ProcOk(q, proc'[q])
    OBVIOUS
  <2>1. CASE q = p
    BY <1>2, <1>3, <2>1
  <2>2. CASE q # p
    BY <1>1, <1>3, <2>2
  <2> QED BY <2>1, <2>2
<1>5. TypeOK'
  <2>1. ASSUME NEW q \in Processes
        PROVE  /\ proc'[q].phase \in {"seq", "write"} => Calling(q, Appends, proc[q].phase)'
               /\ proc'[q].phase \in {"swap", "retry"} =>
                      Calling(q, {"set_status"}, proc[q].phase)'
               /\ proc'[q].phase = "retry" => q \in Operators
    BY <1>4 DEF ProcOk, Calling
  <2> QED BY <1>3, <2>1 DEF TypeOK, StoredOk, Proc, Phases
<1> QED BY <1>3, <1>5

LEMMA IdleOk ==
    ASSUME NEW p
    PROVE  /\ ProcOk(p, Idle(NewRun)) /\ Idle(NewRun).todo = <<>>
           /\ Idle(NewRun).phase = "start" /\ Idle(NewRun).seen.event_seq = 0
           /\ Idle(NewRun).target = "running" /\ Idle(NewRun).expected = "running"
<1>1. <<>> \in Seq(Calls) /\ NewRun \in Row /\ "running" \in TaskRunStatus
  BY EmptySeq DEF NewRun, Row, TaskRunStatus
<1>2. Idle(NewRun) \in Proc
  BY <1>1 DEF Idle, Proc, Phases
<1> QED BY <1>2 DEF ProcOk, Idle, NewRun

\* The calls left after the first one.
LEMMA TailType ==
    ASSUME NEW s \in Seq(Calls), s # <<>>
    PROVE  Tail(s) \in Seq(Calls) /\ Head(s) \in Calls
  OBVIOUS

LEMMA ReturnedMoves ==
    ASSUME TypeOK, NEW p \in Processes, Returned(p), proc[p].todo # <<>>
    PROVE  LET x == [Idle(NewRun) EXCEPT !.todo = Tail(proc[p].todo), !.target = proc[p].target]
           IN  /\ Becomes(p, x) /\ x.seen.event_seq = 0 /\ x.phase = "start"
               /\ x.todo = Tail(proc[p].todo) /\ x.target = proc[p].target
<1> DEFINE x == [Idle(NewRun) EXCEPT !.todo = Tail(proc[p].todo), !.target = proc[p].target]
<1>1. proc[p] \in Proc /\ Idle(NewRun) \in Proc
  BY TypeParts, IdleOk DEF ProcOk
<1>2. Tail(proc[p].todo) \in Seq(Calls) /\ proc[p].target \in TaskRunStatus
  BY <1>1, TailType DEF Proc
<1>3. /\ x \in Proc /\ x.phase = Idle(NewRun).phase /\ x.seen = Idle(NewRun).seen
      /\ x.todo = Tail(proc[p].todo) /\ x.target = proc[p].target
  BY <1>1, <1>2 DEF Proc
<1>4. x.phase = "start" /\ x.seen.event_seq = 0
  BY <1>3, IdleOk
<1>5. ProcOk(p, x)
  BY <1>3, <1>4 DEF ProcOk
<1> QED BY <1>3, <1>4, <1>5 DEF Becomes, Returned

LEMMA AbandonMoves ==
    ASSUME NEW p \in Processes, Abandon(p)
    PROVE  Becomes(p, Idle(NewRun))
  BY IdleOk DEF Becomes, Abandon

LEMMA BeginMoves ==
    ASSUME TypeOK, NEW p \in Processes, NEW todo \in Seq(Calls), NEW target \in TaskRunStatus,
           BeginWork(p, todo, target)
    PROVE  \E x : /\ Becomes(p, x) /\ x.seen = proc[p].seen /\ x.phase = "start"
                  /\ x.todo = todo /\ x.target = target
<1> DEFINE x == [proc[p] EXCEPT !.todo = todo, !.target = target]
<1>1. proc \in [Processes -> Proc] /\ ProcOk(p, proc[p]) /\ proc[p] \in Proc
  BY TypeParts
<1>2. proc[p].phase = "start"
  BY <1>1 DEF BeginWork, ProcOk, Proc, Phases
<1>3. /\ x \in Proc /\ x.phase = proc[p].phase /\ x.seen = proc[p].seen
      /\ x.todo = todo /\ x.target = target
  BY <1>1 DEF Proc
<1>4. proc' = [proc EXCEPT ![p] = x]
  BY <1>1 DEF BeginWork
<1>5. ProcOk(p, x)
  BY <1>2, <1>3 DEF ProcOk
<1> QED BY <1>2, <1>3, <1>4, <1>5 DEF Becomes

\* What a call writes: the events are numbered one by one, and the row follows.
LEMMA WrittenRow ==
    ASSUME TypeOK, NEW p \in Processes, NEW seen \in Row, seen.event_seq <= last_seq,
           Head(proc[p].todo) \in Appends, Written(p, seen, NextSeq(p))
    PROVE  /\ run' \in Row /\ last_seq' \in Nat /\ checkpoint_seq' \in Nat
           /\ run'.status = seen.status
           /\ \/ last_seq' = last_seq /\ run'.event_seq = seen.event_seq
              \/ last_seq' = last_seq + 1 /\ run'.event_seq = last_seq'
<1>1. last_seq \in Nat /\ checkpoint_seq \in Nat /\ seen.event_seq \in Nat
  BY DEF TypeOK, Row
<1>2. CASE Head(proc[p].todo) = "checkpoint"
  BY <1>1, <1>2 DEF Written, NextSeq
<1>3. CASE Head(proc[p].todo) # "checkpoint"
  <2>1. NextSeq(p) = last_seq + 1 /\ last_seq + 1 \in Nat
    BY <1>1, <1>3 DEF NextSeq
  <2>2. run' = [seen EXCEPT !.event_seq = last_seq + 1]
    BY <1>1, <1>3, <2>1 DEF Written, Row
  <2>3. last_seq' = last_seq + 1 /\ checkpoint_seq' = checkpoint_seq
    BY <1>3, <2>1 DEF Written
  <2>4. run' \in Row /\ run'.status = seen.status /\ run'.event_seq = last_seq + 1
    BY <2>1, <2>2 DEF Row
  <2> QED BY <1>1, <2>1, <2>3, <2>4
<1> QED BY <1>2, <1>3
-----------------------------------------------------------------------------
(***************************************************************************)
(* The numbers.                                                            *)
(***************************************************************************)
Numbered ==
    \/ UNCHANGED last_seq /\ run'.event_seq <= last_seq
    \/ last_seq' = last_seq + 1 /\ run'.event_seq = last_seq'

LEMMA StepKeeps ==
    ASSUME IInv, NEW p \in Processes, NEW x, Becomes(p, x), StoredOk', adapter' = adapter,
           x.seen.event_seq <= last_seq', Numbered,
           adapter = "locking" => /\ run'.event_seq = last_seq'
                                  /\ x.phase \notin {"seq", "write"}
    PROVE  IInv'
<1>1. TypeOK' /\ proc'[p] = x /\ \A q \in Processes \ {p} : proc'[q] = proc[q]
  BY ProcMove DEF IInv
<1>2. last_seq \in Nat /\ last_seq' \in Nat /\ last_seq <= last_seq'
  BY DEF IInv, TypeOK, StoredOk, Numbered
<1>3. \A q \in Processes : proc[q].seen.event_seq \in Nat
  BY DEF IInv, TypeOK, Row
<1>4. SeqInv'
  <2>1. run'.event_seq <= last_seq'
    BY <1>2 DEF Numbered
  <2>2. \A q \in Processes : proc'[q].seen.event_seq <= last_seq'
    BY <1>1, <1>2, <1>3 DEF IInv, SeqInv
  <2> QED BY <2>1, <2>2 DEF SeqInv
<1>5. LockInv'
  BY <1>1 DEF IInv, LockInv
<1> QED BY <1>1, <1>4, <1>5 DEF IInv

\* A step that leaves the row and the numbers alone.
LEMMA LocalKeeps ==
    ASSUME IInv, NEW p \in Processes, NEW x, Becomes(p, x), UNCHANGED <<adapter, stored>>,
           work' \in 0 .. MaxWork, x.seen.event_seq <= last_seq,
           adapter = "locking" => x.phase \notin {"seq", "write"}
    PROVE  IInv' /\ Numbered
<1>1. run' = run /\ last_seq' = last_seq /\ checkpoint_seq' = checkpoint_seq /\ adapter' = adapter
  BY DEF stored
<1>2. StoredOk' /\ Numbered
  BY <1>1 DEF StoredOk, IInv, TypeOK, Numbered, SeqInv
<1>3. IInv'
  BY <1>1, <1>2, StepKeeps DEF IInv, LockInv
<1> QED BY <1>2, <1>3

LEMMA BeginKeeps ==
    ASSUME IInv, NEW p \in Processes, NEW todo \in Seq(Calls), NEW target \in TaskRunStatus,
           BeginWork(p, todo, target), adapter' = adapter
    PROVE  IInv' /\ Numbered
<1>1. PICK x : Becomes(p, x) /\ x.seen = proc[p].seen /\ x.phase = "start"
  BY BeginMoves DEF IInv
<1>2. proc[p].seen.event_seq <= last_seq
  BY DEF IInv, SeqInv
<1>3. work' \in 0 .. MaxWork /\ UNCHANGED <<adapter, stored>>
  BY HistoryAssumption DEF BeginWork, IInv, TypeOK
<1> QED BY <1>1, <1>2, <1>3, LocalKeeps

LEMMA AbandonKeeps ==
    ASSUME IInv, NEW p \in Processes, Abandon(p), UNCHANGED <<adapter, stored, work>>
    PROVE  IInv' /\ Numbered
<1>1. Becomes(p, Idle(NewRun))
  BY AbandonMoves
<1>2. /\ Idle(NewRun).phase = "start" /\ Idle(NewRun).seen.event_seq = 0
      /\ last_seq \in Nat /\ work' \in 0 .. MaxWork
  BY IdleOk DEF IInv, TypeOK
<1> QED BY <1>1, <1>2, LocalKeeps

\* A call that writes the row back with a number of its own.
LEMMA WriteKeeps ==
    ASSUME IInv, NEW p \in Processes, NEW seen \in Row, seen.event_seq <= last_seq,
           adapter = "locking" => seen = run,
           proc[p].todo # <<>>, Head(proc[p].todo) \in Appends,
           Written(p, seen, NextSeq(p)), Returned(p), UNCHANGED <<adapter, work>>
    PROVE  IInv' /\ Numbered /\ run'.status = seen.status
<1> DEFINE x == [Idle(NewRun) EXCEPT !.todo = Tail(proc[p].todo), !.target = proc[p].target]
<1>1. Becomes(p, x) /\ x.seen.event_seq = 0 /\ x.phase = "start"
  BY ReturnedMoves DEF IInv
<1>2. /\ run' \in Row /\ last_seq' \in Nat /\ checkpoint_seq' \in Nat
      /\ run'.status = seen.status
      /\ \/ last_seq' = last_seq /\ run'.event_seq = seen.event_seq
         \/ last_seq' = last_seq + 1 /\ run'.event_seq = last_seq'
  BY WrittenRow DEF IInv
<1>3. StoredOk' /\ Numbered
  BY <1>2 DEF StoredOk, IInv, TypeOK, Numbered
<1>4. adapter = "locking" => run'.event_seq = last_seq'
  BY <1>2 DEF IInv, LockInv
<1> HIDE DEF x
<1>5. IInv'
  BY <1>1, <1>2, <1>3, <1>4, StepKeeps
<1> QED BY <1>2, <1>3, <1>5

LEMMA AppendLockedKeeps ==
    ASSUME IInv, NEW p \in Processes, AppendLocked(p), adapter' = adapter
    PROVE  IInv' /\ Numbered /\ run'.status = run.status
<1>1. /\ run \in Row /\ run.event_seq <= last_seq
      /\ proc[p].todo # <<>> /\ Head(proc[p].todo) \in Appends
      /\ Written(p, run, NextSeq(p)) /\ Returned(p) /\ UNCHANGED <<adapter, work>>
  BY DEF IInv, TypeOK, SeqInv, AppendLocked, Calling
<1> QED BY <1>1, WriteKeeps

LEMMA AppendWriteKeeps ==
    ASSUME IInv, NEW p \in Processes, AppendWrite(p), adapter' = adapter
    PROVE  IInv' /\ Numbered
<1>1. /\ proc[p].seen \in Row /\ proc[p].seen.event_seq <= last_seq
      /\ proc[p].todo # <<>> /\ Head(proc[p].todo) \in Appends
      /\ Written(p, proc[p].seen, NextSeq(p)) /\ Returned(p) /\ UNCHANGED <<adapter, work>>
  BY DEF IInv, TypeOK, SeqInv, AppendWrite, Calling, Taken
<1>2. adapter # "locking"
  BY DEF IInv, LockInv, AppendWrite, Calling
<1> QED BY <1>1, <1>2, WriteKeeps

\* The steps of append_event that read.
LEMMA ReadKeeps ==
    ASSUME IInv, NEW p \in Processes, ReadRun(p) \/ ReadSeq(p), adapter' = adapter
    PROVE  IInv' /\ Numbered
<1>1. /\ proc \in [Processes -> Proc] /\ proc[p] \in Proc /\ run \in Row
      /\ last_seq \in Nat /\ checkpoint_seq \in Nat /\ work \in 0 .. MaxWork
      /\ run.event_seq <= last_seq /\ proc[p].seen.event_seq <= last_seq
  BY TypeParts DEF IInv, TypeOK, SeqInv
<1>2. CASE ReadRun(p)
  <2> DEFINE x == [proc[p] EXCEPT !.phase = "seq", !.seen = run]
  <2>1. x \in Proc /\ x.phase = "seq" /\ x.seen = run /\ x.todo = proc[p].todo
    BY <1>1 DEF Proc, Phases
  <2>2. proc' = [proc EXCEPT ![p] = x]
    BY <1>1, <1>2 DEF ReadRun
  <2> HIDE DEF x
  <2>3. Becomes(p, x)
    BY <1>2, <2>1, <2>2 DEF Becomes, ProcOk, ReadRun, Calling
  <2>4. adapter # "locking" /\ UNCHANGED <<adapter, stored>> /\ work' \in 0 .. MaxWork
    BY <1>1, <1>2 DEF ReadRun
  <2> QED BY <1>1, <2>1, <2>3, <2>4, LocalKeeps
<1>3. CASE ReadSeq(p)
  <2> DEFINE x == [proc[p] EXCEPT !.phase = "write", !.seq = NextSeq(p)]
  <2>1. NextSeq(p) \in Nat
    BY <1>1 DEF NextSeq
  <2>2. x \in Proc /\ x.phase = "write" /\ x.seen = proc[p].seen /\ x.todo = proc[p].todo
    BY <1>1, <2>1 DEF Proc, Phases
  <2>3. proc' = [proc EXCEPT ![p] = x]
    BY <1>1, <1>3 DEF ReadSeq
  <2> HIDE DEF x
  <2>4. Becomes(p, x)
    BY <1>3, <2>2, <2>3 DEF Becomes, ProcOk, ReadSeq, Calling
  <2>5. adapter # "locking" /\ UNCHANGED <<adapter, stored>> /\ work' \in 0 .. MaxWork
    BY <1>1, <1>3 DEF ReadSeq, IInv, LockInv, Calling
  <2> QED BY <1>1, <2>2, <2>4, <2>5, LocalKeeps
<1> QED BY <1>2, <1>3

\* The status is read, before the compare-and-set or after it was lost.
LEMMA ExpectMoves ==
    ASSUME TypeOK, NEW p \in Processes, NEW phase \in {"swap", "retry"},
           proc' = [proc EXCEPT ![p].phase = phase, ![p].expected = run.status],
           proc[p].todo # <<>>, Head(proc[p].todo) = "set_status",
           phase = "retry" => p \in Operators
    PROVE  LET x == [proc[p] EXCEPT !.phase = phase, !.expected = run.status]
           IN  /\ Becomes(p, x) /\ x.phase = phase /\ x.seen = proc[p].seen
               /\ x.todo = proc[p].todo /\ x.target = proc[p].target
               /\ x.expected = run.status
<1> DEFINE x == [proc[p] EXCEPT !.phase = phase, !.expected = run.status]
<1>1. proc \in [Processes -> Proc] /\ proc[p] \in Proc /\ run.status \in TaskRunStatus
  BY TypeParts DEF TypeOK, Row
<1>2. /\ x \in Proc /\ x.phase = phase /\ x.seen = proc[p].seen
      /\ x.todo = proc[p].todo /\ x.target = proc[p].target /\ x.expected = run.status
  BY <1>1 DEF Proc, Phases
<1>3. proc' = [proc EXCEPT ![p] = x]
  BY <1>1
<1> HIDE DEF x
<1>4. Becomes(p, x)
  BY <1>2, <1>3 DEF Becomes, ProcOk
<1> QED BY <1>2, <1>4 DEF x

LEMMA ExpectKeeps ==
    ASSUME IInv, NEW p \in Processes, NEW phase \in {"swap", "retry"},
           proc' = [proc EXCEPT ![p].phase = phase, ![p].expected = run.status],
           proc[p].todo # <<>>, Head(proc[p].todo) = "set_status",
           phase = "retry" => p \in Operators, UNCHANGED <<adapter, stored, work>>
    PROVE  IInv' /\ Numbered
<1> DEFINE x == [proc[p] EXCEPT !.phase = phase, !.expected = run.status]
<1>1. Becomes(p, x) /\ x.phase = phase /\ x.seen = proc[p].seen
  BY ExpectMoves DEF IInv
<1>2. /\ proc[p].seen.event_seq <= last_seq /\ work' \in 0 .. MaxWork
  BY DEF IInv, SeqInv, TypeOK
<1> HIDE DEF x
<1>3. x.phase \notin {"seq", "write"} /\ UNCHANGED <<adapter, stored>>
  BY <1>1
<1> QED BY <1>1, <1>2, <1>3, LocalKeeps

LEMMA StatusKeeps ==
    ASSUME IInv, NEW p \in Processes, ReadStatus(p) \/ SwapLost(p), adapter' = adapter
    PROVE  IInv' /\ Numbered
<1>1. proc[p].todo # <<>> /\ Head(proc[p].todo) = "set_status"
      /\ UNCHANGED <<adapter, stored, work>>
  BY DEF ReadStatus, SwapLost, Calling
<1>2. \/ Abandon(p)
      \/ proc' = [proc EXCEPT ![p].phase = "swap", ![p].expected = run.status]
      \/ /\ proc' = [proc EXCEPT ![p].phase = "retry", ![p].expected = run.status]
         /\ p \in Operators
  BY DEF ReadStatus, SwapLost
<1> QED BY <1>1, <1>2, AbandonKeeps, ExpectKeeps

LEMMA SwapKeeps ==
    ASSUME IInv, NEW p \in Processes, Swap(p), adapter' = adapter
    PROVE  IInv' /\ Numbered
<1> DEFINE x == [Idle(NewRun) EXCEPT !.todo = Tail(proc[p].todo), !.target = proc[p].target]
<1>1. proc[p].todo # <<>> /\ Returned(p)
  BY DEF Swap, Calling
<1>2. Becomes(p, x) /\ x.seen.event_seq = 0 /\ x.phase = "start"
  BY <1>1, ReturnedMoves DEF IInv
<1>3. proc[p].target \in TaskRunStatus /\ run \in Row /\ run.event_seq <= last_seq
  BY DEF IInv, TypeOK, SeqInv
<1>4. run' = [run EXCEPT !.status = proc[p].target]
  BY DEF Swap, CompareAndSet
<1>5. run' \in Row /\ run'.event_seq = run.event_seq
  BY <1>3, <1>4 DEF Row
<1>6. last_seq' = last_seq /\ checkpoint_seq' = checkpoint_seq /\ work' = work
  BY DEF Swap
<1>7. StoredOk' /\ Numbered
  BY <1>3, <1>5, <1>6 DEF StoredOk, IInv, TypeOK, Numbered
<1>8. last_seq' \in Nat /\ (adapter = "locking" => run'.event_seq = last_seq')
  BY <1>5, <1>6 DEF IInv, LockInv, TypeOK
<1> HIDE DEF x
<1>9. IInv'
  BY <1>2, <1>7, <1>8, StepKeeps
<1> QED BY <1>7, <1>9
LEMMA InitKeeps == Init => IInv
<1> SUFFICES ASSUME Init PROVE IInv
  OBVIOUS
<1>1. NewRun \in Row /\ NewRun.event_seq = 0
  BY DEF NewRun, Row, TaskRunStatus
<1>2. StoredOk
  BY <1>1, HistoryAssumption DEF Init, StoredOk
<1>3. \A p \in Processes : proc[p] = Idle(NewRun)
  BY DEF Init
<1>4. proc \in [Processes -> Proc] /\ \A p \in Processes : ProcOk(p, proc[p])
  <2>1. Idle(NewRun) \in Proc
    BY IdleOk DEF ProcOk
  <2> QED BY <1>3, <2>1, IdleOk DEF Init
<1>5. TypeOK
  BY <1>2, <1>4, TypeParts
<1> QED BY <1>1, <1>3, <1>5, IdleOk DEF IInv, SeqInv, LockInv, Init

\* Every step is one of these; the operators' and the runtime's operations all
\* begin some work.
LEMMA Actions ==
    ASSUME Next
    PROVE  /\ adapter' = adapter
           /\ \E p \in Processes :
                 \/ \E todo \in Seq(Calls), target \in TaskRunStatus : BeginWork(p, todo, target)
                 \/ StoreCall(p)
<1>1. adapter' = adapter
  BY DEF Next
<1>2. /\ <<"event">> \in Seq(Calls) /\ <<"checkpoint", "event">> \in Seq(Calls)
      /\ <<"set_status", "event">> \in Seq(Calls)
      /\ <<"event", "checkpoint", "event", "set_status", "event">> \in Seq(Calls)
      /\ RuntimeTargets \subseteq TaskRunStatus
      /\ {"paused", "running", "cancelled"} \subseteq TaskRunStatus
  BY DEF Calls, RuntimeTargets, TaskRunStatus
<1>3. ASSUME NEW p \in Executors, NEW target \in RuntimeTargets,
             \/ RuntimeEvent(p) \/ RuntimeCheckpoint(p)
             \/ RuntimeStatusChange(p, target)
      PROVE  \E todo \in Seq(Calls), t \in TaskRunStatus : BeginWork(p, todo, t)
  BY <1>2, <1>3 DEF RuntimeEvent, RuntimeCheckpoint, RuntimeStatusChange
<1>4. ASSUME NEW p \in Operators, NEW target \in {"paused", "running", "cancelled"},
             Control(p, target)
      PROVE  \E todo \in Seq(Calls), t \in TaskRunStatus : BeginWork(p, todo, t)
  BY <1>2, <1>4 DEF Control
<1>5. "running" \in RuntimeTargets
  BY DEF RuntimeTargets
<1> QED BY <1>1, <1>3, <1>4, <1>5 DEF Next, Processes

LEMMA NextKeeps == ASSUME IInv, Next PROVE IInv' /\ Numbered
<1>1. adapter' = adapter
  BY Actions
<1>2. ASSUME NEW p \in Processes, StoreCall(p) PROVE IInv' /\ Numbered
  <2>1. CASE AppendLocked(p) \/ AppendWrite(p)
    BY <1>1, <2>1, AppendLockedKeeps, AppendWriteKeeps
  <2>2. CASE ReadRun(p) \/ ReadSeq(p)
    BY <1>1, <2>2, ReadKeeps
  <2>3. CASE AppendRefused(p)
    BY <1>1, <2>3, AbandonKeeps DEF AppendRefused
  <2>4. CASE ReadStatus(p) \/ SwapLost(p)
    BY <1>1, <2>4, StatusKeeps
  <2>5. CASE Swap(p)
    BY <1>1, <2>5, SwapKeeps
  <2> QED BY <1>2, <2>1, <2>2, <2>3, <2>4, <2>5 DEF StoreCall
<1>3. ASSUME NEW p \in Processes, NEW todo \in Seq(Calls), NEW target \in TaskRunStatus,
             BeginWork(p, todo, target)
      PROVE  IInv' /\ Numbered
  BY <1>1, <1>3, BeginKeeps
<1> QED BY <1>2, <1>3, Actions

LEMMA StutterKeeps == ASSUME IInv, UNCHANGED vars PROVE IInv'
<1>1. /\ UNCHANGED <<adapter, run, last_seq, checkpoint_seq, proc, work>>
  BY DEF vars, stored
<1> QED BY <1>1 DEF IInv, TypeOK, SeqInv, LockInv, Calling

LEMMA Invariance == Spec => []IInv
<1>1. IInv /\ [Next]_vars => IInv'
  BY NextKeeps, StutterKeeps
<1> QED BY InitKeeps, <1>1, PTL DEF Spec

\* Every variable keeps its type, and a process is only ever in the middle of the
\* store call it has to make next.
THEOREM TypeCorrect == Spec => []TypeOK
<1>1. IInv => TypeOK
  BY DEF IInv
<1> QED BY <1>1, Invariance, PTL

\* With a locking adapter the row's event_seq is the number of the last event,
\* whoever appends and whoever writes the row back with a checkpoint.
THEOREM LockedRowIsExact == Spec => []EventSeqExact
<1>1. IInv => EventSeqExact
  BY DEF IInv, LockInv, EventSeqExact
<1> QED BY <1>1, Invariance, PTL

\* With either adapter the events are numbered one by one, and a row never gets
\* ahead of them.
THEOREM EventsAreNumbered == Spec => EventsNumbered
<1>1. ASSUME IInv, [Next]_vars
      PROVE  [\/ UNCHANGED last_seq /\ run'.event_seq <= last_seq
              \/ last_seq' = last_seq + 1 /\ run'.event_seq = last_seq']_vars
  BY <1>1, NextKeeps DEF Numbered
<1> QED BY <1>1, Invariance, PTL DEF Spec, EventsNumbered
-----------------------------------------------------------------------------
(***************************************************************************)
(* Cancelling, with at most one operator.                                  *)
(***************************************************************************)
OneOperator == \A o, q \in Operators : o = q

LEMMA WorkTails ==
    ASSUME NEW s \in ControlWork, s # <<>>
    PROVE  /\ Tail(s) \in ControlWork
           /\ Tail(s) \in Undecided => s \in Undecided
           /\ Head(s) = "set_status" => s \in Undecided /\ Tail(s) \notin Undecided
<1>1. CASE s = <<"event">>
  BY <1>1 DEF ControlWork, Undecided
<1>2. CASE s = <<"set_status", "event">>
  BY <1>2 DEF ControlWork, Undecided
<1>3. CASE s = <<"event", "set_status", "event">>
  BY <1>3 DEF ControlWork, Undecided
<1>4. CASE s = <<"checkpoint", "event", "set_status", "event">>
  BY <1>4 DEF ControlWork, Undecided
<1>5. CASE s = <<"event", "checkpoint", "event", "set_status", "event">>
  BY <1>5 DEF ControlWork, Undecided
<1> QED BY <1>1, <1>2, <1>3, <1>4, <1>5 DEF ControlWork
\* What a step of process p may do to the status: the runtime never cancels, an
\* operator that still has to decide faces a run that is not cancelled.
LEMMA StopMove ==
    ASSUME OneOperator, IInv, StopInv, adapter = "locking", adapter' = adapter,
           NEW p \in Processes, NEW x,
           proc'[p] = x, \A q \in Processes \ {p} : proc'[q] = proc[q],
           p \in Executors => /\ x.target \in RuntimeTargets
                              /\ x.phase = "swap" => x.expected \notin OperatorStop
                              /\ run'.status = "cancelled" => run.status = "cancelled",
           p \in Operators => /\ x.todo \in ControlWork
                              /\ x.todo \in Undecided => run'.status # "cancelled"
    PROVE  StopInv'
<1>1. ASSUME NEW e \in Executors
      PROVE  /\ proc'[e].target \in RuntimeTargets
             /\ proc'[e].phase = "swap" => proc'[e].expected \notin OperatorStop
  BY DEF StopInv, Processes
<1>2. ASSUME NEW o \in Operators
      PROVE  /\ proc'[o].todo \in ControlWork
             /\ proc'[o].todo \in Undecided => run'.status # "cancelled"
  <2>1. CASE o = p
    BY <2>1
  <2>2. CASE o # p
    <3>1. p \in Executors /\ proc'[o] = proc[o]
      BY <2>2 DEF OneOperator, Processes
    <3> QED BY <3>1 DEF StopInv
  <2> QED BY <2>1, <2>2
<1> QED BY <1>1, <1>2 DEF StopInv

\* The conditions of StopMove on the locals, and what the step does to a status
\* that was cancelled.
Stops(p, x) ==
    /\ p \in Executors => /\ x.target \in RuntimeTargets
                          /\ x.phase = "swap" => x.expected \notin OperatorStop
                          /\ run'.status = "cancelled" => run.status = "cancelled"
    /\ p \in Operators => /\ x.todo \in ControlWork
                          /\ x.todo \in Undecided => run'.status # "cancelled"
    /\ run.status = "cancelled" => run'.status = "cancelled"

LEMMA IdleStops ==
    ASSUME NEW p, run' = run PROVE Stops(p, Idle(NewRun))
  BY IdleOk DEF Stops, RuntimeTargets, ControlWork, Undecided

LEMMA BeginStops ==
    ASSUME IInv, StopInv, adapter = "locking", NEW p \in Processes,
           \/ p \in Executors /\ (RuntimeEvent(p) \/ RuntimeCheckpoint(p))
           \/ p \in Executors /\ \E target \in RuntimeTargets : RuntimeStatusChange(p, target)
           \/ /\ p \in Operators
              /\ \E target \in {"paused", "running", "cancelled"} : Control(p, target)
    PROVE  \E x : Becomes(p, x) /\ Stops(p, x)
<1>1. TypeOK
  BY DEF IInv
<1>2. ASSUME p \in Executors, NEW todo \in Seq(Calls), NEW target \in RuntimeTargets,
             BeginWork(p, todo, target)
      PROVE  \E x : Becomes(p, x) /\ Stops(p, x)
  <2>1. target \in TaskRunStatus
    BY DEF RuntimeTargets, TaskRunStatus
  <2>2. PICK x : Becomes(p, x) /\ x.phase = "start" /\ x.target = target
    BY <1>1, <1>2, <2>1, BeginMoves
  <2>3. run' = run /\ p \notin Operators
    BY <1>2, HistoryAssumption DEF BeginWork, stored
  <2> QED BY <2>2, <2>3 DEF Stops
<1>3. ASSUME p \in Operators, NEW target \in {"paused", "running", "cancelled"},
             Control(p, target)
      PROVE  \E x : Becomes(p, x) /\ Stops(p, x)
  <2> DEFINE todo == <<"event", "checkpoint", "event", "set_status", "event">>
  <2>1. todo \in Seq(Calls) /\ todo \in ControlWork /\ target \in TaskRunStatus
    BY DEF Calls, ControlWork, TaskRunStatus
  <2>2. run.status \in Allowed(target) /\ BeginWork(p, todo, target)
    BY <1>3 DEF Control
  <2> HIDE DEF todo
  <2>3. PICK x : Becomes(p, x) /\ x.todo = todo
    BY <1>1, <2>1, <2>2, BeginMoves
  <2>4. run' = run /\ p \notin Executors
    BY <1>3, <2>2, HistoryAssumption DEF BeginWork, stored
  <2>5. run.status # "cancelled"
    BY <2>2 DEF Allowed, Terminal, TaskRunStatus
  <2> QED BY <2>1, <2>3, <2>4, <2>5 DEF Stops
<1>4. /\ <<"event">> \in Seq(Calls) /\ <<"checkpoint", "event">> \in Seq(Calls)
      /\ <<"set_status", "event">> \in Seq(Calls) /\ "running" \in RuntimeTargets
  BY DEF Calls, RuntimeTargets
<1>5. CASE p \in Executors /\ (RuntimeEvent(p) \/ RuntimeCheckpoint(p))
  BY <1>2, <1>4, <1>5 DEF RuntimeEvent, RuntimeCheckpoint
<1>6. CASE p \in Executors /\ \E target \in RuntimeTargets : RuntimeStatusChange(p, target)
  BY <1>2, <1>4, <1>6 DEF RuntimeStatusChange
<1> QED BY <1>3, <1>5, <1>6

LEMMA AppendStops ==
    ASSUME IInv, StopInv, adapter = "locking", NEW p \in Processes, AppendLocked(p),
           adapter' = adapter
    PROVE  \E x : Becomes(p, x) /\ Stops(p, x)
<1> DEFINE x == [Idle(NewRun) EXCEPT !.todo = Tail(proc[p].todo), !.target = proc[p].target]
<1>1. TypeOK /\ proc[p].todo # <<>> /\ Returned(p)
  BY DEF IInv, AppendLocked, Calling
<1>2. /\ Becomes(p, x) /\ x.phase = "start" /\ x.todo = Tail(proc[p].todo)
      /\ x.target = proc[p].target
  BY <1>1, ReturnedMoves
<1>3. run'.status = run.status
  BY AppendLockedKeeps
<1> HIDE DEF x
<1>4. Stops(p, x)
  BY <1>1, <1>2, <1>3, WorkTails DEF Stops, StopInv
<1> QED BY <1>2, <1>4

LEMMA SwapStops ==
    ASSUME IInv, StopInv, adapter = "locking", NEW p \in Processes, Swap(p)
    PROVE  \E x : Becomes(p, x) /\ Stops(p, x)
<1> DEFINE x == [Idle(NewRun) EXCEPT !.todo = Tail(proc[p].todo), !.target = proc[p].target]
<1>1. /\ TypeOK /\ proc[p].todo # <<>> /\ Head(proc[p].todo) = "set_status" /\ Returned(p)
      /\ proc[p].phase \in {"swap", "retry"}
      /\ run.status = proc[p].expected /\ run' = [run EXCEPT !.status = proc[p].target]
  BY DEF IInv, Swap, Calling, CompareAndSet
<1>2. /\ Becomes(p, x) /\ x.phase = "start" /\ x.todo = Tail(proc[p].todo)
      /\ x.target = proc[p].target
  BY <1>1, ReturnedMoves
<1>3. run'.status = proc[p].target
  BY <1>1 DEF TypeOK, Row
<1> HIDE DEF x
<1>4. CASE p \in Executors
  <2>1. p \notin Operators /\ proc[p].phase = "swap"
    BY <1>1, <1>4, HistoryAssumption DEF TypeOK
  <2>2. proc[p].target \in RuntimeTargets /\ run.status \notin OperatorStop
    BY <1>1, <1>4, <2>1 DEF StopInv
  <2> QED BY <1>2, <1>3, <2>1, <2>2 DEF Stops, RuntimeTargets, OperatorStop
<1>5. CASE p \in Operators
  <2>1. p \notin Executors /\ proc[p].todo \in ControlWork
    BY <1>5, HistoryAssumption DEF StopInv
  <2>2. /\ proc[p].todo \in Undecided /\ Tail(proc[p].todo) \notin Undecided
        /\ Tail(proc[p].todo) \in ControlWork
    BY <1>1, <2>1, WorkTails
  <2>3. run.status # "cancelled"
    BY <1>5, <2>2 DEF StopInv
  <2> QED BY <1>2, <2>1, <2>2, <2>3 DEF Stops
<1> QED BY <1>4, <1>5 DEF Processes

LEMMA ExpectStops ==
    ASSUME IInv, StopInv, adapter = "locking", NEW p \in Processes,
           ReadStatus(p) \/ SwapLost(p)
    PROVE  \E x : Becomes(p, x) /\ Stops(p, x)
<1>1. /\ TypeOK /\ proc[p].todo # <<>> /\ Head(proc[p].todo) = "set_status" /\ run' = run
  BY DEF IInv, ReadStatus, SwapLost, Calling, stored
<1>2. CASE Abandon(p)
  BY <1>1, <1>2, AbandonMoves, IdleStops
<1>3. ASSUME NEW phase \in {"swap", "retry"},
             proc' = [proc EXCEPT ![p].phase = phase, ![p].expected = run.status],
             phase = "retry" => p \in Operators,
             p \in Operators \/ run.status \notin OperatorStop \/ run.status = proc[p].target
      PROVE  \E x : Becomes(p, x) /\ Stops(p, x)
  <2> DEFINE x == [proc[p] EXCEPT !.phase = phase, !.expected = run.status]
  <2>1. /\ Becomes(p, x) /\ x.phase = phase /\ x.todo = proc[p].todo
        /\ x.target = proc[p].target /\ x.expected = run.status
    BY <1>1, <1>3, ExpectMoves
  <2> HIDE DEF x
  <2>2. p \in Executors => run.status \notin OperatorStop
    <3>1. p \in Executors => p \notin Operators /\ proc[p].target \in RuntimeTargets
      BY HistoryAssumption DEF StopInv
    <3>2. RuntimeTargets \cap OperatorStop = {}
      BY DEF RuntimeTargets, OperatorStop
    <3> QED BY <1>3, <3>1, <3>2
  <2>3. Stops(p, x)
    BY <1>1, <2>1, <2>2 DEF Stops, StopInv
  <2> QED BY <2>1, <2>3
<1>4. \/ Abandon(p)
      \/ /\ proc' = [proc EXCEPT ![p].phase = "swap", ![p].expected = run.status]
         /\ p \in Operators \/ run.status \notin OperatorStop \/ run.status = proc[p].target
      \/ /\ proc' = [proc EXCEPT ![p].phase = "retry", ![p].expected = run.status]
         /\ p \in Operators
  BY DEF ReadStatus, SwapLost, MayReplace
<1> QED BY <1>2, <1>3, <1>4

\* A locking adapter makes none of the other store calls.
LEMMA NextStops ==
    ASSUME OneOperator, IInv, StopInv, Next
    PROVE  StopInv' /\ (adapter = "locking" /\ run.status = "cancelled"
                            => run'.status = "cancelled")
<1>1. adapter' = adapter /\ IInv'
  BY Actions, NextKeeps
<1> SUFFICES ASSUME adapter = "locking"
             PROVE  StopInv' /\ (run.status = "cancelled" => run'.status = "cancelled")
  BY <1>1 DEF StopInv
<1>2. PICK p \in Processes : \E x : Becomes(p, x) /\ Stops(p, x)
  <2>1. ASSUME NEW p \in Processes, StoreCall(p)
        PROVE  \E x : Becomes(p, x) /\ Stops(p, x)
    <3>1. ~ ReadRun(p) /\ ~ ReadSeq(p) /\ ~ AppendWrite(p) /\ ~ AppendRefused(p)
      BY DEF IInv, LockInv, ReadRun, ReadSeq, AppendWrite, AppendRefused, Calling
    <3> QED BY <1>1, <2>1, <3>1, AppendStops, SwapStops, ExpectStops DEF StoreCall
  <2>2. ASSUME NEW p \in Executors,
               \/ RuntimeEvent(p) \/ RuntimeCheckpoint(p)
               \/ \E target \in RuntimeTargets : RuntimeStatusChange(p, target)
        PROVE  \E x : Becomes(p, x) /\ Stops(p, x)
    BY <2>2, BeginStops DEF Processes
  <2>3. ASSUME NEW p \in Operators, NEW target \in {"paused", "running", "cancelled"},
               Control(p, target)
        PROVE  \E x : Becomes(p, x) /\ Stops(p, x)
    BY <2>3, BeginStops DEF Processes
  <2> QED BY <2>1, <2>2, <2>3 DEF Next, Processes
<1>3. PICK x : Becomes(p, x) /\ Stops(p, x)
  BY <1>2
<1>4. proc'[p] = x /\ \A q \in Processes \ {p} : proc'[q] = proc[q]
  <2>1. StoredOk' /\ TypeOK
    BY <1>1 DEF IInv, TypeOK, StoredOk
  <2> QED BY <1>3, <2>1, ProcMove
<1>5. StopInv'
  BY <1>1, <1>3, <1>4, StopMove DEF Stops
<1> QED BY <1>3, <1>5 DEF Stops

LEMMA InitStops == Init => StopInv
  BY IdleOk DEF Init, StopInv, Processes, RuntimeTargets, ControlWork, Undecided

\* With a locking adapter, and one operator at a time, a cancelled run stays
\* cancelled: no executor that read the status before the cancellation, and no
\* append that writes the row back, takes it out again.
THEOREM CancellationIsFinal ==
    ASSUME OneOperator
    PROVE  Spec => LockedCancelIsFinal
<1>1. Init => IInv /\ StopInv
  BY InitKeeps, InitStops
<1>2. ASSUME IInv, StopInv, [Next]_vars PROVE IInv' /\ StopInv'
  <2>1. CASE Next
    BY <1>2, <2>1, NextKeeps, NextStops
  <2>2. CASE UNCHANGED vars
    <3>1. UNCHANGED <<adapter, run, proc>>
      BY <2>2 DEF vars, stored
    <3> QED BY <1>2, <2>2, <3>1, StutterKeeps DEF StopInv
  <2> QED BY <1>2, <2>1, <2>2
<1>3. ASSUME IInv, StopInv, [Next]_vars
      PROVE  [adapter = "locking" /\ run.status = "cancelled"
              => run'.status = "cancelled"]_vars
  BY <1>3, NextStops
<1> QED BY <1>1, <1>2, <1>3, PTL DEF Spec, LockedCancelIsFinal
=============================================================================
