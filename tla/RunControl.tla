----------------------------- MODULE RunControl -----------------------------
(***************************************************************************)
(* RunControlService (runtime/control.py): pause, resume, cancel and fork, *)
(* applied by operators to runs that other processes are writing to.       *)
(*                                                                         *)
(* A control action reads the run and checks its status, appends an event  *)
(* and a checkpoint, and only then sets the status.  Each of these is a    *)
(* store call of its own, so the action is three steps here: Request (read *)
(* and check), Commit (the read at the head of _set_status) and Swap (its  *)
(* compare-and-set, with the one retry the code makes).  The events and    *)
(* checkpoints are append-only records no guard here reads; StatusHistory  *)
(* models what appending them does to the status.                          *)
(*                                                                         *)
(* Bound: MaxControls pauses, resumes and cancels are begun.                *)
(***************************************************************************)
EXTENDS TaskRun, Naturals, FiniteSets

CONSTANTS
    Operators,      \* operator processes (CLI or application)
    MaxRuns,        \* runs that may exist, numbered as they are created
    MaxControls     \* control actions begun in a behaviour

ASSUME ControlAssumption == MaxRuns \in Nat \ {0} /\ MaxControls \in Nat

VARIABLES
    status,         \* run -> its projected status, or Absent
    op,             \* operator -> the control action it is carrying out
    controls        \* control actions begun so far

controlVars == <<status, op, controls>>

Runs == 1 .. MaxRuns
Absent == "absent"
Existing == {r \in Runs : status[r] # Absent}

\* Identifiers are handed out in creation order, the order list_runs keeps.
IsNextRun(r) == status[r] = Absent /\ \A q \in Runs : q < r => status[q] # Absent

NoRequest == [pc |-> "idle", run |-> 0, target |-> "none", expected |-> "none"]

Request ==
    {NoRequest} \cup
    [pc : {"checked", "swap", "retry"}, run : Runs,
     target : {"paused", "running", "cancelled"},
     expected : TaskRunStatus \cup {"none"}]

ControlInit ==
    /\ status = [r \in Runs |-> Absent]
    /\ op = [o \in Operators |-> NoRequest]
    /\ controls = 0

\* HarnessRuntime.submit: a planned run is persisted and left `created'.
Submit(r) ==
    /\ IsNextRun(r)
    /\ status' = [status EXCEPT ![r] = "created"]
    /\ UNCHANGED <<op, controls>>

\* pause / resume / cancel up to and including the check; a rejected request
\* appends its event and changes nothing else.
Begin(o, r, target) ==
    /\ op[o].pc = "idle"
    /\ controls < MaxControls
    /\ r \in Existing
    /\ status[r] \in Allowed(target)
    /\ op' = [op EXCEPT ![o] = [pc |-> "checked", run |-> r, target |-> target,
                                expected |-> "none"]]
    /\ controls' = controls + 1
    /\ UNCHANGED status

\* _set_status reads the run again; whatever it finds becomes the expected
\* status of the compare-and-set.
ReadCurrent(o) ==
    /\ op[o].pc = "checked"
    /\ op' = [op EXCEPT ![o].pc = "swap", ![o].expected = status[op[o].run]]
    /\ UNCHANGED <<status, controls>>

Swapped(o) ==
    /\ status[op[o].run] = op[o].expected
    /\ status' = [status EXCEPT ![op[o].run] = op[o].target]
    /\ op' = [op EXCEPT ![o] = NoRequest]
    /\ UNCHANGED controls

Swap(o) == op[o].pc = "swap" /\ Swapped(o)

\* The compare-and-set lost: one retry if the new status allows the action,
\* RuntimeError otherwise.
SwapLost(o) ==
    /\ op[o].pc = "swap"
    /\ LET latest == status[op[o].run]
       IN  /\ latest # op[o].expected
           /\ op' = [op EXCEPT ![o] =
                        IF latest \in Allowed(op[o].target)
                        THEN [op[o] EXCEPT !.pc = "retry", !.expected = latest]
                        ELSE NoRequest]
    /\ UNCHANGED <<status, controls>>

Retry(o) == op[o].pc = "retry" /\ Swapped(o)

RetryLost(o) ==
    /\ op[o].pc = "retry"
    /\ status[op[o].run] # op[o].expected
    /\ op' = [op EXCEPT ![o] = NoRequest]
    /\ UNCHANGED <<status, controls>>

\* fork: a new run under the contract and plan of r, whatever r's status is.
\* MaxRuns is bound enough: forks do not count as control actions.
Fork(o, r, n) ==
    /\ op[o].pc = "idle"
    /\ r \in Existing /\ IsNextRun(n)
    /\ status' = [status EXCEPT ![n] = "created"]
    /\ UNCHANGED <<op, controls>>

Finish(o) == Swap(o) \/ SwapLost(o) \/ Retry(o) \/ RetryLost(o)

ControlStep(o) ==
    \/ \E r \in Runs, t \in {"paused", "running", "cancelled"} : Begin(o, r, t)
    \/ \E r, n \in Runs : Fork(o, r, n)
    \/ ReadCurrent(o)
    \/ Finish(o)

(***************************************************************************)
(* The service on its own: the runtime is any process that moves a run     *)
(* the way _set_status does.  DurableWorker replaces this step by the      *)
(* runtime's own control flow.                                             *)
(***************************************************************************)
RuntimeMove(r, target) ==
    /\ r \in Existing
    /\ status[r] \notin Terminal \ OperatorStop
    /\ status' = [status EXCEPT ![r] = RuntimeStatus(@, target)]
    /\ UNCHANGED <<op, controls>>

RuntimeTargets ==
    {"running", "waiting_user", "recovering", "acceptance_failed",
     "completed", "failed"}

ControlNext ==
    \/ \E r \in Runs : Submit(r)
    \/ \E o \in Operators : ControlStep(o)
    \/ \E r \in Runs, t \in RuntimeTargets : RuntimeMove(r, t)

ControlSpec == ControlInit /\ [][ControlNext]_controlVars
-----------------------------------------------------------------------------
ControlTypeOK ==
    /\ status \in [Runs -> TaskRunStatus \cup {Absent}]
    /\ op \in [Operators -> Request]
    /\ controls \in 0 .. MaxControls

\* A cancelled run stays cancelled, whatever the runtime still does to it.  It
\* takes one operator at a time: Swap writes over whatever ReadCurrent found.
CancelledIsFinal ==
    [][\A r \in Runs : status[r] = "cancelled" => status'[r] = "cancelled"]_controlVars

\* "Cancel a non-terminal run and record a terminal checkpoint" (the docstring
\* of cancel): a run that has ended is not cancelled any more.  The code checks
\* this before it appends the event and the checkpoint, not when it commits.
CancelsOnlyNonTerminal ==
    [][\A r \in Runs :
          status[r] \in Terminal /\ status'[r] = "cancelled"
          => status[r] = "cancelled"]_controlVars
=============================================================================
