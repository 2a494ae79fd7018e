--------------------------- MODULE DurableWorker ---------------------------
(***************************************************************************)
(* Background workers (runtime/worker.py) that claim runs through leases,  *)
(* execute them through HarnessRuntime and release them, next to the       *)
(* operators of RunControl and to an approver that executes a run in the   *)
(* foreground without a lease (ApprovalService, app/operator.py).          *)
(*                                                                         *)
(* A store call is one step: the durable adapters run claim_run,           *)
(* heartbeat_run_lease, release_run_lease and compare_and_set_run_status   *)
(* each in one transaction.  Between two store calls anything may happen:  *)
(* another process may act, time may pass, the process may die.            *)
(*                                                                         *)
(* HarnessRuntime is kept to what the worker can tell apart: it sets the   *)
(* run running, executes steps until one stops it or the plan is through,  *)
(* sets the resulting status, and reads the run once more for its result.  *)
(* An event, the worker's too, changes no status, as in the memory and     *)
(* PostgreSQL stores; that append_event of sqlite.py writes a row it read  *)
(* earlier back (sqlite.py:386, 421-422) is the subject of StatusHistory.  *)
(*                                                                         *)
(* Bounds: MaxRuns and MaxControls (RunControl), MaxCrashes crashes,       *)
(* MaxApprovals foreground executions.                                     *)
(***************************************************************************)
EXTENDS RunControl, RunLease, Sequences, Sorting

CONSTANTS
    Approver,       \* the foreground executor
    ScanLimit,      \* candidates one poll looks at
    MaxCrashes,     \* worker crashes in a behaviour
    MaxApprovals    \* foreground executions in a behaviour

ASSUME WorkerAssumption ==
    /\ Approver \notin Workers
    /\ ScanLimit \in Nat \ {0}
    /\ MaxCrashes \in Nat
    /\ MaxApprovals \in Nat

VARIABLES
    lease,          \* run -> its RunLease row
    issued,         \* lease tokens drawn so far
    audit,          \* run -> worker events appended, by idempotency key
    exec,           \* executor -> its program counter and local variables
    askable,        \* runs with a checkpoint that asks for approval
    crashes,
    approvals

workerVars == <<lease, issued, audit, exec, askable, crashes, approvals>>
vars == <<controlVars, workerVars>>

Executors == Workers \cup {Approver}

(***************************************************************************)
(* An executor's locals: the candidates a poll has yet to try, the run and *)
(* the lease it holds (as claimed: the worker never re-reads it), whether  *)
(* its heartbeat task is alive, and what the runtime returned.             *)
(***************************************************************************)
Idle ==
    [pc |-> "idle", queue |-> <<>>, run |-> 0, token |-> NoToken,
     attempt |-> 0, beating |-> FALSE, recoverable |-> FALSE, outcome |-> "none"]

Running == {"dispatch", "start", "start_checkpoint", "steps", "result"}
Holding == Running \cup {"release"}

ReleaseKinds == {"run_retry_scheduled", "run_dead_lettered", "run_lease_released"}

EventOf(state) ==
    CASE state = "backoff"     -> "run_retry_scheduled"
      [] state = "dead_letter" -> "run_dead_lettered"
      [] OTHER                 -> "run_lease_released"

Init ==
    /\ ControlInit
    /\ lease = [r \in Runs |-> NewLease]
    /\ issued = 0
    /\ audit = [r \in Runs |-> {}]
    /\ exec = [e \in Executors |-> Idle]
    /\ askable = {}
    /\ crashes = 0
    /\ approvals = 0

Goto(e, pc) == exec' = [exec EXCEPT ![e].pc = pc]
Stop(e) == exec' = [exec EXCEPT ![e] = Idle]
Append2Audit(r, event) == audit' = [audit EXCEPT ![r] = @ \cup {event}]
-----------------------------------------------------------------------------
(***************************************************************************)
(* Polling and claiming.                                                   *)
(***************************************************************************)

\* list_runs(statuses, limit): a snapshot in creation order, cut at the limit.
CreatedBefore == {p \in Runs \X Runs : p[1] < p[2]}

Candidates ==
    LET all == Ordered({r \in Runs : status[r] \in Executable}, CreatedBefore)
    IN  SubSeq(all, 1, IF Len(all) < ScanLimit THEN Len(all) ELSE ScanLimit)

StartScan(w, queue) ==
    /\ exec[w].pc = "idle"
    /\ queue # <<>>
    /\ exec' = [exec EXCEPT ![w] = [Idle EXCEPT !.pc = "scan", !.queue = queue]]
    /\ UNCHANGED <<controlVars, lease, issued, audit, askable, crashes, approvals>>

\* run_once(): without a candidate the tick ends and nothing changes.
Poll(w) == StartScan(w, Candidates)

\* run_once(run_id): the named run is the only candidate, whatever its status.
PollRun(w, r) == r \in Existing /\ StartScan(w, <<r>>)

\* claim_run on the next candidate, one transaction.
ClaimRefused(w) ==
    LET r == Head(exec[w].queue)
    IN  /\ exec[w].pc = "scan"
        /\ \/ /\ status[r] \notin Executable \/ ~ ClaimableAt(lease[r])
              /\ UNCHANGED lease
           \/ /\ status[r] \in Executable /\ ClaimableAt(lease[r])
              /\ lease[r].attempt_count >= RetryBudget
              /\ lease' = [lease EXCEPT ![r] = DeadLetter(@)]
        /\ Goto(w, "refused")
        /\ UNCHANGED <<controlVars, issued, audit, askable, crashes, approvals>>

ClaimGranted(w) ==
    LET r == Head(exec[w].queue)
    IN  /\ exec[w].pc = "scan"
        /\ status[r] \in Executable
        /\ ClaimableAt(lease[r])
        /\ lease[r].attempt_count < RetryBudget
        /\ issued' = issued + 1
        /\ lease' = [lease EXCEPT ![r] = Claim(@, w, issued')]
        /\ exec' = [exec EXCEPT ![w] =
                       [Idle EXCEPT !.pc = "claimed", !.run = r, !.token = issued',
                                    !.attempt = lease'[r].attempt_count]]
        /\ UNCHANGED <<controlVars, audit, askable, crashes, approvals>>

\* Mutant: only a dead letter this worker wrote itself would be reported.
RefusedDeadLetter_Silent(w) ==
    /\ exec[w].pc = "refused"
    /\ lease[Head(exec[w].queue)].state = "dead_letter"
    /\ Stop(w)
    /\ UNCHANGED <<controlVars, lease, issued, audit, askable, crashes, approvals>>

\* The refused run's lease is read again.  A dead letter is reported and ends
\* the tick; otherwise the next candidate is tried.
RefusedDeadLetter(w) ==
    LET r == Head(exec[w].queue)
    IN  /\ exec[w].pc = "refused"
        /\ lease[r].state = "dead_letter"
        /\ Append2Audit(r, <<"dead_letter_seen", NoToken>>)
        /\ Stop(w)
        /\ UNCHANGED <<controlVars, lease, issued, askable, crashes, approvals>>

RefusedNext(w) ==
    /\ exec[w].pc = "refused"
    /\ lease[Head(exec[w].queue)].state # "dead_letter"
    /\ IF Len(exec[w].queue) = 1
       THEN Stop(w)
       ELSE exec' = [exec EXCEPT ![w].pc = "scan", ![w].queue = Tail(@)]
    /\ UNCHANGED <<controlVars, lease, issued, audit, askable, crashes, approvals>>

\* The RUN_CLAIMED event, then the heartbeat task is started.
RecordClaim(w) ==
    /\ exec[w].pc = "claimed"
    /\ Append2Audit(exec[w].run, <<"run_claimed", exec[w].token>>)
    /\ exec' = [exec EXCEPT ![w].pc = "dispatch", ![w].beating = TRUE]
    /\ UNCHANGED <<controlVars, lease, issued, askable, crashes, approvals>>
-----------------------------------------------------------------------------
(***************************************************************************)
(* Executing.  These steps belong to any executor of a run.                *)
(***************************************************************************)

\* _execute_runtime reads the status and picks the entry point; a run that has
\* left the executable statuses raises ValueError.
Dispatch(w) ==
    /\ exec[w].pc = "dispatch"
    /\ LET s == status[exec[w].run]
       IN  exec' = [exec EXCEPT
               ![w].pc = CASE s = "recovering"           -> "start_checkpoint"
                           [] s \in {"created", "running"} -> "start"
                           [] OTHER                        -> "release",
               ![w].outcome = IF s \in Executable THEN "none" ELSE "exception"]
    /\ UNCHANGED <<controlVars, lease, issued, audit, askable, crashes, approvals>>

SetStatus(r, target) ==
    /\ status' = [status EXCEPT ![r] = RuntimeStatus(@, target)]
    /\ UNCHANGED <<op, controls>>

\* The runtime sets the run running and goes on unless an operator stopped it.
Start(e) ==
    /\ exec[e].pc \in {"start", "start_checkpoint"}
    /\ SetStatus(exec[e].run, "running")
    /\ Goto(e, IF status[exec[e].run] \in OperatorStop THEN "result" ELSE "steps")
    /\ UNCHANGED <<lease, issued, audit, askable, crashes, approvals>>

\* resume_from_checkpoint finds a checkpoint its policy does not retry: the
\* run waits for the user, or only a RUN_FAILED event is written.
StartRefused(w) ==
    /\ exec[w].pc = "start_checkpoint"
    /\ \/ SetStatus(exec[w].run, "waiting_user")
       \/ UNCHANGED controlVars
    /\ \E recoverable \in BOOLEAN :
          exec' = [exec EXCEPT ![w].pc = "result", ![w].recoverable = recoverable]
    /\ UNCHANGED <<lease, issued, audit, askable, crashes, approvals>>

\* Between two steps the runtime looks whether an operator stopped the run.
CooperativeStop(e) ==
    /\ exec[e].pc = "steps"
    /\ status[exec[e].run] \in OperatorStop
    /\ Goto(e, "result")
    /\ UNCHANGED <<controlVars, lease, issued, audit, askable, crashes, approvals>>

\* A step or the acceptance gate ends the execution with this status.
EndWith(e, target) ==
    LET r == exec[e].run
    IN  /\ exec[e].pc = "steps"
        /\ SetStatus(r, target)
        /\ \E recoverable \in (IF target = "recovering" THEN BOOLEAN ELSE {FALSE}) :
              exec' = [exec EXCEPT ![e].pc = "result", ![e].recoverable = recoverable]
        /\ askable' = IF target = "waiting_user" THEN askable \cup {r} ELSE askable
        /\ UNCHANGED <<lease, issued, audit, crashes, approvals>>

\* _result reads the run once more: this is the status the caller sees.
Return(e) ==
    /\ exec[e].pc = "result"
    /\ IF e = Approver
       THEN Stop(e)
       ELSE exec' = [exec EXCEPT ![e].pc = "release",
                                 ![e].outcome = status[exec[e].run]]
    /\ UNCHANGED <<controlVars, lease, issued, audit, askable, crashes, approvals>>

\* Any call of the runtime may raise: a store error, a compare-and-set lost to
\* another process, an outbox conflict.
Raise(e) ==
    /\ exec[e].pc \in {"start", "start_checkpoint", "steps"}
    /\ IF e = Approver
       THEN Stop(e)
       ELSE exec' = [exec EXCEPT ![e].pc = "release", ![e].outcome = "exception"]
    /\ UNCHANGED <<controlVars, lease, issued, audit, askable, crashes, approvals>>

\* resume_with_user_approval: no lease, and no condition on the run's status.
Approve(r) ==
    /\ exec[Approver].pc = "idle"
    /\ approvals < MaxApprovals
    /\ r \in askable
    /\ exec' = [exec EXCEPT ![Approver] = [Idle EXCEPT !.pc = "start", !.run = r]]
    /\ approvals' = approvals + 1
    /\ UNCHANGED <<controlVars, lease, issued, audit, askable, crashes>>
-----------------------------------------------------------------------------
(***************************************************************************)
(* Heartbeats and release.                                                 *)
(***************************************************************************)
Renewable(w) ==
    LET r == exec[w].run
    IN  /\ status[r] \in Executable
        /\ RequireOwner(lease[r], w, exec[w].token)
        /\ ActiveAt(lease[r])

\* heartbeat_run_lease; the RUN_HEARTBEAT event is left out.
Renew(w) ==
    /\ exec[w].pc \in Running /\ exec[w].beating
    /\ Renewable(w)
    /\ lease' = [lease EXCEPT ![exec[w].run] = Heartbeat(@)]
    /\ UNCHANGED <<controlVars, issued, audit, exec, askable, crashes, approvals>>

\* A heartbeat that is refused, or whose event cannot be appended, raises: the
\* heartbeat task returns, the runtime goes on.
StopBeating(w) ==
    /\ exec[w].pc \in Running /\ exec[w].beating
    /\ exec' = [exec EXCEPT ![w].beating = FALSE]
    /\ UNCHANGED <<controlVars, lease, issued, audit, askable, crashes, approvals>>

\* _release_result and _release_exception: the state the lease goes to.
ReleaseState(e) ==
    LET exhausted == e.attempt >= RetryBudget
    IN  CASE e.outcome \in {"completed", "waiting_user", "paused", "cancelled"}
                 -> "released"
          [] \/ e.outcome = "exception"
             \/ e.outcome = "recovering" /\ e.recoverable
                 -> IF exhausted THEN "dead_letter" ELSE "backoff"
          [] OTHER
                 -> "dead_letter"

\* Mutant: an exception of the runtime ends the tick without a release.
ReleaseLease_NotOnException(w) ==
    LET r == exec[w].run
        state == ReleaseState(exec[w])
        delay == IF state = "backoff" THEN BackoffDelay(exec[w].attempt) ELSE 0
    IN  /\ exec[w].pc = "release"
        /\ RequireOwner(lease[r], w, exec[w].token)
        /\ IF exec[w].outcome = "exception"
           THEN lease' = lease /\ Stop(w)
           ELSE /\ lease' = [lease EXCEPT ![r] = Release(@, state, delay)]
                /\ exec' = [exec EXCEPT ![w].pc = "report", ![w].outcome = EventOf(state)]
        /\ UNCHANGED <<controlVars, issued, audit, askable, crashes, approvals>>

ReleaseLease(w) ==
    LET r == exec[w].run
        state == ReleaseState(exec[w])
        delay == IF state = "backoff" THEN BackoffDelay(exec[w].attempt) ELSE 0
    IN  /\ exec[w].pc = "release"
        /\ RequireOwner(lease[r], w, exec[w].token)
        /\ lease' = [lease EXCEPT ![r] = Release(@, state, delay)]
        /\ exec' = [exec EXCEPT ![w].pc = "report", ![w].outcome = EventOf(state)]
        /\ UNCHANGED <<controlVars, issued, audit, askable, crashes, approvals>>

\* The lease belongs to someone else by now: LEASE_LOST, nothing is written.
LeaseLost(w) ==
    /\ exec[w].pc = "release"
    /\ ~ RequireOwner(lease[exec[w].run], w, exec[w].token)
    /\ Stop(w)
    /\ UNCHANGED <<controlVars, lease, issued, audit, askable, crashes, approvals>>

\* The event of the release is a store call of its own.
Report(w) ==
    /\ exec[w].pc = "report"
    /\ Append2Audit(exec[w].run, <<exec[w].outcome, exec[w].token>>)
    /\ Stop(w)
    /\ UNCHANGED <<controlVars, lease, issued, askable, crashes, approvals>>

\* The process dies, or run_once raises: an InjectedOutboxCrash, the append of an
\* event outside the runtime, an error of the heartbeat task that is no
\* ValueError.  The locals are gone, the lease stays as it is.
Crash(e) ==
    /\ exec[e].pc # "idle"
    /\ crashes < MaxCrashes
    /\ crashes' = crashes + 1
    /\ Stop(e)
    /\ UNCHANGED <<controlVars, lease, issued, audit, askable, approvals>>

Tick ==
    /\ \E r \in Runs : lease[r].expires_in > 0 \/ lease[r].next_attempt_in > 0
    /\ lease' = [r \in Runs |-> Age(lease[r])]
    /\ UNCHANGED <<controlVars, issued, audit, exec, askable, crashes, approvals>>
-----------------------------------------------------------------------------
Refused(w) == RefusedDeadLetter(w) \/ RefusedNext(w)
ClaimStep(w) == ClaimRefused(w) \/ ClaimGranted(w)
ReleaseStep(w) == ReleaseLease(w) \/ LeaseLost(w)

EndTargets ==
    {"waiting_user", "recovering", "failed", "acceptance_failed", "completed"}

Execute(e) ==
    \/ Start(e)
    \/ CooperativeStop(e)
    \/ \E t \in EndTargets : EndWith(e, t)
    \/ Raise(e)
    \/ Return(e)

WorkerStep(w) ==
    \/ Poll(w)
    \/ \E r \in Runs : PollRun(w, r)
    \/ ClaimStep(w)
    \/ Refused(w)
    \/ RecordClaim(w)
    \/ Dispatch(w)
    \/ StartRefused(w)
    \/ ReleaseStep(w)
    \/ Report(w)

Next ==
    \/ \E w \in Workers : WorkerStep(w) \/ Renew(w) \/ StopBeating(w)
    \/ \E e \in Executors : Execute(e) \/ Crash(e)
    \/ \E r \in Runs : Approve(r)
    \/ \E r \in Runs : Submit(r) /\ UNCHANGED workerVars
    \/ \E o \in Operators : ControlStep(o) /\ UNCHANGED workerVars
    \/ Tick

Spec == Init /\ [][Next]_vars
-----------------------------------------------------------------------------
(***************************************************************************)
(* Properties.                                                             *)
(***************************************************************************)
ExecRecord ==
    [pc : {"idle", "scan", "refused", "claimed", "report"} \cup Holding,
     queue : Seq(Runs), run : Runs \cup {0}, token : Nat, attempt : 0 .. RetryBudget,
     beating : BOOLEAN, recoverable : BOOLEAN,
     outcome : TaskRunStatus \cup ReleaseKinds \cup {"none", "exception"}]

AuditEvents ==
    {"run_claimed", "dead_letter_seen"} \cup ReleaseKinds

\* Every variable has its type; leases satisfy RunLease.__post_init__: only an
\* active lease has an owner and a token.
TypeOK ==
    /\ ControlTypeOK
    /\ lease \in [Runs -> RunLease]
    /\ \A r \in Runs : (lease[r].state = "active") = (lease[r].owner_id # NoOwner)
    /\ \A r \in Runs : (lease[r].state = "active") = (lease[r].lease_token # NoToken)
    /\ issued \in 0 .. MaxRuns * RetryBudget
    /\ audit \in [Runs -> SUBSET (AuditEvents \X (0 .. issued))]
    /\ exec \in [Executors -> ExecRecord]
    /\ askable \subseteq Runs
    /\ crashes \in 0 .. MaxCrashes
    /\ approvals \in 0 .. MaxApprovals

\* An active lease ends in one of two ways only: the worker that drew its token
\* releases it, or it has expired and a claim replaces or buries it.  A worker
\* that outlived its lease cannot touch the lease of its successor.
FencedLease ==
    [][\A r \in Runs :
          lease[r].state = "active" /\ lease'[r].lease_token # lease[r].lease_token
          => \/ ~ ActiveAt(lease[r])
             \/ \E w \in Workers :
                   /\ exec[w].pc = "release" /\ exec[w].run = r
                   /\ exec[w].token = lease[r].lease_token]_vars

\* An active lease has a live worker behind it that will release it, except for
\* those of workers that crashed holding one: run_once forgets no lease it
\* claimed, whatever the runtime returns or raises and however the run is stopped.
Orphaned(r) ==
    /\ lease[r].state = "active"
    /\ \A w \in Workers :
          ~ (/\ exec[w].pc \in {"claimed"} \cup Holding
             /\ exec[w].run = r /\ exec[w].token = lease[r].lease_token)

NoLeaseLeak == Cardinality({r \in Runs : Orphaned(r)}) <= crashes

\* Every execution of a run by a worker has an attempt of its own: the attempts,
\* which the retry budget bounds, are never fewer than the claims the events tell
\* of, whatever crashes, pauses, resumes and approvals happen in between.
ClaimsWithinBudget ==
    \A r \in Runs :
        Cardinality({a \in audit[r] : a[1] = "run_claimed"})
            <= lease[r].attempt_count

\* A dead-lettered run is never claimed again: not after an operator resumes
\* it, not after an approval sets it running.
DeadLetterIsFinal ==
    [][\A r \in Runs : lease[r].state = "dead_letter" => lease'[r] = lease[r]]_vars

-----------------------------------------------------------------------------
(***************************************************************************)
(* Liveness.  Workers are polled again and again, every started store call *)
(* and tool call ends, time passes.  Operators, approvals, crashes,        *)
(* heartbeats and targeted ticks may or may not happen.                    *)
(***************************************************************************)
Fairness ==
    /\ \A w \in Workers :
          /\ SF_vars(Poll(w))
          /\ WF_vars(ClaimStep(w)) /\ WF_vars(Refused(w)) /\ WF_vars(RecordClaim(w))
          /\ WF_vars(Dispatch(w)) /\ WF_vars(ReleaseStep(w)) /\ WF_vars(Report(w))
    /\ \A e \in Executors : WF_vars(Execute(e))
    /\ \A o \in Operators : WF_vars(ReadCurrent(o) /\ UNCHANGED workerVars)
                            /\ WF_vars(Finish(o) /\ UNCHANGED workerVars)
    /\ WF_vars(Tick)

LiveSpec == Spec /\ Fairness

\* A run no worker will look at again: it has left the executable statuses or
\* its lease is dead.
Settled(r) == status[r] \notin Executable \/ lease[r].state = "dead_letter"

\* run_once() reports a dead-lettered candidate and ends the tick, so every run
\* behind one in creation order is out of reach.
BehindDeadLetter(r) ==
    \E q \in Runs : q < r /\ status[q] \in Executable /\ lease[q].state = "dead_letter"

\* Every executable run is eventually executed to a status that needs no worker,
\* or dead-lettered, or stuck behind a dead-lettered run; in particular leases
\* of crashed workers are reclaimed and a retry in backoff is not forgotten.
RunsSettle ==
    \A r \in Runs :
        status[r] \in Executable ~> Settled(r) \/ BehindDeadLetter(r)

\* A dead letter is told of in the run's events even if the worker that gave up
\* died before it could: the next poll does it.
DeadLetterReported ==
    \A r \in Runs :
        lease[r].state = "dead_letter" /\ status[r] \in Executable
        ~> \/ \E a \in audit[r] : a[1] \in {"run_dead_lettered", "dead_letter_seen"}
           \/ status[r] \notin Executable
           \/ BehindDeadLetter(r)
=============================================================================
