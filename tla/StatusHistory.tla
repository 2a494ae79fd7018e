--------------------------- MODULE StatusHistory ---------------------------
(***************************************************************************)
(* The row of one run in the TaskStore, written by the three store calls   *)
(* every process makes: append_event and create_checkpoint, which write    *)
(* the run back with the event and the checkpoint, and                     *)
(* compare_and_set_run_status.                                             *)
(*                                                                         *)
(* With a locking adapter (postgres.py; memory.py, where no await divides  *)
(* a call) each call is one step.  sqlite.py reads the run and the last    *)
(* sequence number before the transaction that inserts and writes the run  *)
(* back, so there append_event and create_checkpoint are three steps; its  *)
(* compare-and-set holds the write lock (begin immediate) and is one.      *)
(*                                                                         *)
(* The callers are _set_status of the runtime and of RunControlService,    *)
(* and any code that appends events and checkpoints.                       *)
(*                                                                         *)
(* Bound: MaxWork operations are begun in a behaviour.                     *)
(***************************************************************************)
EXTENDS TaskRun, Naturals, Sequences

CONSTANTS
    Executors,      \* processes running HarnessRuntime on the run
    Operators,      \* processes running RunControlService on it
    Adapters,       \* the adapters the store may be
    MaxWork

ASSUME HistoryAssumption ==
    /\ Executors \cap Operators = {}
    /\ Adapters \subseteq {"locking", "sqlite"}
    /\ MaxWork \in Nat

VARIABLES
    adapter,        \* the adapter every process uses
    run,            \* the row: status and event_seq
    last_seq,       \* sequence number of the last event
    checkpoint_seq, \* sequence number of the last checkpoint
    proc,           \* process -> the calls it has yet to make, and its locals
    work

stored == <<run, last_seq, checkpoint_seq>>
vars == <<adapter, stored, proc, work>>

Processes == Executors \cup Operators

(***************************************************************************)
(* todo lists the store calls an operation still makes; phase says how far *)
(* the first of them is.  expected is the status of the compare-and-set,   *)
(* seen and seq what append_event read.                                    *)
(***************************************************************************)
Calls == {"event", "checkpoint", "set_status"}

Idle(row) ==
    [todo |-> <<>>, phase |-> "start", target |-> "running",
     expected |-> "running", seen |-> row, seq |-> 0]

NewRun == [status |-> "created", event_seq |-> 0]

Init ==
    /\ adapter \in Adapters
    /\ run = NewRun
    /\ last_seq = 0
    /\ checkpoint_seq = 0
    /\ proc = [p \in Processes |-> Idle(NewRun)]
    /\ work = 0

Calling(p, calls, phase) ==
    /\ proc[p].todo # <<>>
    /\ Head(proc[p].todo) \in calls
    /\ proc[p].phase = phase

\* The first call has returned; locals that no later call reads are cleared.
Returned(p) ==
    proc' = [proc EXCEPT ![p] = [Idle(NewRun) EXCEPT !.todo = Tail(proc[p].todo),
                                                    !.target = proc[p].target]]

\* An early return, or an exception: the operation makes no further call.
Abandon(p) == proc' = [proc EXCEPT ![p] = Idle(NewRun)]
-----------------------------------------------------------------------------
(***************************************************************************)
(* The operations.                                                         *)
(***************************************************************************)
BeginWork(p, todo, target) ==
    /\ proc[p].todo = <<>>
    /\ work < MaxWork
    /\ work' = work + 1
    /\ proc' = [proc EXCEPT ![p].todo = todo, ![p].target = target]
    /\ UNCHANGED stored

RuntimeTargets ==
    {"running", "waiting_user", "recovering", "acceptance_failed",
     "completed", "failed"}

\* HarnessRuntime: a bare event, a checkpoint with its event, _set_status.
RuntimeEvent(p) == BeginWork(p, <<"event">>, "running")
RuntimeCheckpoint(p) == BeginWork(p, <<"checkpoint", "event">>, "running")

RuntimeStatusChange(p, target) ==
    BeginWork(p, <<"set_status", "event">>, target)

\* pause, resume, cancel: check, event, checkpoint with its event, _set_status.
Control(p, target) ==
    /\ run.status \in Allowed(target)
    /\ BeginWork(p, <<"event", "checkpoint", "event", "set_status", "event">>,
                 target)
-----------------------------------------------------------------------------
(***************************************************************************)
(* append_event and create_checkpoint.                                     *)
(***************************************************************************)
Appends == {"event", "checkpoint"}

NextSeq(p) ==
    1 + IF Head(proc[p].todo) = "checkpoint" THEN checkpoint_seq ELSE last_seq

\* Mutant: the row is written back as it was read.
Written_SeenSeq(p, seen, seq) ==
    IF Head(proc[p].todo) = "checkpoint"
    THEN run' = seen /\ checkpoint_seq' = seq /\ UNCHANGED last_seq
    ELSE run' = seen /\ last_seq' = seq /\ UNCHANGED checkpoint_seq

\* What the call leaves behind when it writes row `seen' back with number seq.
Written(p, seen, seq) ==
    IF Head(proc[p].todo) = "checkpoint"
    THEN run' = seen /\ checkpoint_seq' = seq /\ UNCHANGED last_seq
    ELSE /\ run' = [seen EXCEPT !.event_seq = IF @ > seq THEN @ ELSE seq]
         /\ last_seq' = seq
         /\ UNCHANGED checkpoint_seq

AppendLocked(p) ==
    /\ adapter = "locking"
    /\ Calling(p, Appends, "start")
    /\ Written(p, run, NextSeq(p))
    /\ Returned(p)
    /\ UNCHANGED work

\* _require_run, outside the transaction.
ReadRun(p) ==
    /\ adapter = "sqlite"
    /\ Calling(p, Appends, "start")
    /\ proc' = [proc EXCEPT ![p].phase = "seq", ![p].seen = run]
    /\ UNCHANGED <<stored, work>>

\* _last_event_seq or _last_checkpoint_seq, outside the transaction.
ReadSeq(p) ==
    /\ Calling(p, Appends, "seq")
    /\ proc' = [proc EXCEPT ![p].phase = "write", ![p].seq = NextSeq(p)]
    /\ UNCHANGED <<stored, work>>

\* Mutant: numbers are not unique in the table.
Taken_Never(p) == FALSE

\* The number was given to another row meanwhile: unique(run_id, seq).
Taken(p) == proc[p].seq # NextSeq(p)

\* The transaction: insert, and write back the row as it was read.
AppendWrite(p) ==
    /\ Calling(p, Appends, "write")
    /\ ~ Taken(p)
    /\ Written(p, proc[p].seen, proc[p].seq)
    /\ Returned(p)
    /\ UNCHANGED work

\* IntegrityError, and ValueError to the caller.
AppendRefused(p) ==
    /\ Calling(p, Appends, "write")
    /\ Taken(p)
    /\ Abandon(p)
    /\ UNCHANGED <<stored, work>>
-----------------------------------------------------------------------------
(***************************************************************************)
(* _set_status.                                                            *)
(***************************************************************************)

\* The runtime leaves a run an operator stopped alone; an operator does not.
MayReplace(p, status) ==
    p \in Operators \/ status \notin OperatorStop \/ status = proc[p].target

ReadStatus(p) ==
    /\ Calling(p, {"set_status"}, "start")
    /\ IF MayReplace(p, run.status)
       THEN proc' = [proc EXCEPT ![p].phase = "swap", ![p].expected = run.status]
       ELSE Abandon(p)
    /\ UNCHANGED <<stored, work>>

\* Mutant: the status is set without comparing it.
CompareAndSet_Blind(p, expected, target) == run' = [run EXCEPT !.status = target]

\* compare_and_set_run_status, a transaction of every adapter.
CompareAndSet(p, expected, target) ==
    run.status = expected /\ run' = [run EXCEPT !.status = target]

Swap(p) ==
    /\ Calling(p, {"set_status"}, "swap") \/ Calling(p, {"set_status"}, "retry")
    /\ CompareAndSet(p, proc[p].expected, proc[p].target)
    /\ Returned(p)
    /\ UNCHANGED <<last_seq, checkpoint_seq, work>>

\* Mutant: the runtime tries again too.
SwapLost_AnyoneRetries(p) ==
    /\ Calling(p, {"set_status"}, "swap") \/ Calling(p, {"set_status"}, "retry")
    /\ run.status # proc[p].expected
    /\ IF proc[p].phase = "swap" /\ run.status \notin OperatorStop
       THEN proc' = [proc EXCEPT ![p].phase = "retry", ![p].expected = run.status]
       ELSE Abandon(p)
    /\ UNCHANGED <<stored, work>>

\* An operator's action tries once more where it is still allowed; the runtime
\* returns (a stopped run) or raises.
SwapLost(p) ==
    /\ Calling(p, {"set_status"}, "swap") \/ Calling(p, {"set_status"}, "retry")
    /\ run.status # proc[p].expected
    /\ IF /\ p \in Operators /\ proc[p].phase = "swap"
          /\ run.status \in Allowed(proc[p].target)
       THEN proc' = [proc EXCEPT ![p].phase = "retry", ![p].expected = run.status]
       ELSE Abandon(p)
    /\ UNCHANGED <<stored, work>>

StoreCall(p) ==
    \/ AppendLocked(p) \/ ReadRun(p) \/ ReadSeq(p) \/ AppendWrite(p) \/ AppendRefused(p)
    \/ ReadStatus(p) \/ Swap(p) \/ SwapLost(p)

Next ==
    /\ \/ \E p \in Executors :
             \/ RuntimeEvent(p) \/ RuntimeCheckpoint(p)
             \/ \E target \in RuntimeTargets : RuntimeStatusChange(p, target)
       \/ \E p \in Operators, target \in {"paused", "running", "cancelled"} :
             Control(p, target)
       \/ \E p \in Processes : StoreCall(p)
    /\ UNCHANGED adapter

Spec == Init /\ [][Next]_vars
-----------------------------------------------------------------------------
(***************************************************************************)
(* Properties.                                                             *)
(***************************************************************************)
Row == [status : TaskRunStatus, event_seq : Nat]

\* Every variable has its type; a process is only ever in the middle of the call
\* it has to make next, and only an operator swaps a status a second time.
TypeOK ==
    /\ adapter \in Adapters
    /\ run \in Row
    /\ last_seq \in Nat
    /\ checkpoint_seq \in Nat
    /\ proc \in [Processes ->
                    [todo : Seq(Calls), phase : {"start", "seq", "write", "swap", "retry"},
                     target : TaskRunStatus, expected : TaskRunStatus, seen : Row,
                     seq : Nat]]
    /\ work \in 0 .. MaxWork
    /\ \A p \in Processes :
          /\ proc[p].phase \in {"seq", "write"} => Calling(p, Appends, proc[p].phase)
          /\ proc[p].phase \in {"swap", "retry"} => Calling(p, {"set_status"}, proc[p].phase)
          /\ proc[p].phase = "retry" => p \in Operators

\* A cancelled run stays cancelled while executors go on writing to it: with one
\* operator the status is never taken back, by a status change or by an append.
CancelledIsFinal == [][run.status = "cancelled" => run'.status = "cancelled"]_vars

\* The same of the adapters that lock the run's row for the whole of a call.
LockedCancelIsFinal ==
    [][adapter = "locking" /\ run.status = "cancelled"
       => run'.status = "cancelled"]_vars

\* The row counts the events of the run, which recovery uses as the version of
\* the history it starts from (the key incomplete:<event_seq>:tool:<step>): in a
\* locking adapter it never lags, whoever appends and writes checkpoints.
EventSeqExact ==
    adapter = "locking" => run.event_seq = last_seq

\* Whatever an adapter locks, every event gets the number after the last one and
\* leaves it in the row, even if the row it writes back is out of date; the row
\* may fall behind (a checkpoint writes an old one back) but never runs ahead.
EventsNumbered ==
    [][\/ UNCHANGED last_seq /\ run'.event_seq <= last_seq
       \/ last_seq' = last_seq + 1 /\ run'.event_seq = last_seq']_vars
=============================================================================
