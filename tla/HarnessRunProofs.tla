-------------------------- MODULE HarnessRunProofs --------------------------
(***************************************************************************)
(* Proofs about HarnessRun for every plan, every registered tool and every *)
(* number of crashes, controls, interactions and answers to checkpoints    *)
(* the run has moved on from.                                              *)
(*                                                                         *)
(* IInv is the inductive invariant.  TypeInv: the types and the shape of   *)
(* the executor and of the batch.  StepInv: what the projection of a step  *)
(* says while it is in the batch.  LocalInv: the account `run' keeps       *)
(* agrees with the projection.  AnchorInv: what the latest checkpoint      *)
(* points to has begun and has not passed, what an open interaction points *)
(* to is blocked as long as no earlier checkpoint was answered, and        *)
(* whatever can be answered has begun.  ActiveInv: an executor at work is  *)
(* on a run that is not completed.  VerdictInv, LateInv and CutInv: what   *)
(* the acceptance decision, a cancelled run and a crash leave behind.      *)
(* PassInv and CalmInv, at the end, are of runs that nothing has           *)
(* disturbed, and inductive relative to IInv.                              *)
(***************************************************************************)
EXTENDS HarnessRun, PlanStepsProofs

\* The step's result is being recorded, checkpointed and verified.
Segment == {"recorded", "saved", "verified", "settled"}
Called == {"calling", "recorded", "saved"}
Judged == {"verified", "settled", "done"}

\* A checkpoint to continue from names a step, one without failure does not.
Anchored(c) ==
    /\ c.action \in {"ask_user", "retry", "alternative"} => c.step \in Steps
    /\ c.action \in {"absent", "none"} => c.step = 0

TypeInv ==
    /\ TypeOK /\ IsFiniteSet(open)
    /\ \A c \in open \cup past \cup {cp} : Anchored(c)
    /\ exec.pc = "idle" => exec = Idle
    /\ exec.pc # "batch" => task = NoTasks
    /\ exec.pc = "batch" =>
          /\ IsBatch(exec.queue)
          /\ \A s \in Steps : task[s].phase # "none" =>
                \E i \in 1 .. Len(exec.queue) : exec.queue[i] = s
    /\ exec.pc = "approved" =>
          exec.queue = <<>> \/ \E s \in Steps : exec.queue = <<s>>
    /\ \A s \in Steps :
          task[s].phase \in {"none", "queued", "calling"} <=> task[s].outcome = "none"
    /\ \A s, t \in Steps : task[s].phase \in Segment /\ task[t].phase \in Segment => s = t

\* No open interaction waits for an answer about step s.
Unasked(s) == \A i \in open : i.step # s

\* A step may be started, or started again.
Startable(s) ==
    /\ step[s] = "passed" => exec.confirmed /\ "answer" \in upset
    /\ Deps[s] \subseteq verified
    /\ "answer" \notin upset => Unasked(s)

StepOk(s) ==
    /\ step[s] # "pending" => Deps[s] \subseteq verified
    /\ step[s] = "passed" => s \in verified
    /\ task[s].phase = "queued" => Startable(s)
    /\ task[s].phase \in Called => step[s] = "running"
    /\ task[s].phase \in Judged =>
          step[s] = IF Failed(s) THEN FailedStepStatus(task[s].outcome) ELSE "passed"
    /\ task[s].phase \in {"verified", "settled"} => Failed(s)
    /\ task[s].phase = "settled" => task[s].outcome = "confirm"
    /\ task[s].phase \notin {"none", "done"} /\ "answer" \notin upset => Unasked(s)

StepInv == \A s \in Steps : StepOk(s)

LocalInv ==
    exec.inProcess =>
        /\ exec.pc \in {"submitted", "loop", "pack", "batch", "finish", "verdict"}
        /\ \A s \in Steps : task[s].phase = "none" =>
              step[s] = IF s \in exec.local THEN "passed" ELSE "pending"
        /\ \A s \in Steps : task[s].phase # "none" => s \notin exec.local
        /\ \A s \in Steps : task[s].phase = "queued" => step[s] = "pending"

CheckpointAnchor ==
    /\ cp.step # 0 => step[cp.step] \in {"running", "failed", "blocked"}
    /\ cp.action = "retry" => step[cp.step] # "blocked"
    /\ cp.action \in {"retry", "alternative"} /\ "answer" \notin upset => Unasked(cp.step)
    /\ \A s \in Steps : task[s].phase = "saved" /\ ~ Failed(s) => cp.step = 0
    /\ \A s \in Steps :
          task[s].phase \in {"saved", "verified", "settled"} /\ cp.step = s =>
              cp = CheckpointOf(RecoveryAction(task[s].outcome), s, {})

InteractionAnchor ==
    /\ \A i \in open :
          /\ i.token # 0
          /\ i.step # 0 => i.action = "ask_user"
          /\ "answer" \notin upset /\ i.step # 0 => step[i.step] = "blocked"
          /\ "answer" \notin upset /\ cp.action = "ask_user" /\ i.step = cp.step =>
                i.token = cp.token
    /\ \A i, j \in open :
          \/ i.token = j.token
          \/ "answer" \notin upset /\ i.step # 0 /\ i.step = j.step
          => i = j

ApprovalAnchor ==
    exec.pc = "approved" /\ exec.queue # <<>> =>
        /\ step[exec.queue[1]] # "pending"
        /\ "answer" \notin upset =>
              Unasked(exec.queue[1]) /\ step[exec.queue[1]] \in {"running", "failed", "blocked"}

\* What an answer can have executed once more has begun.
BegunInv == \A c \in open \cup past : c.step # 0 => step[c.step] # "pending"

AnchorInv == CheckpointAnchor /\ InteractionAnchor /\ ApprovalAnchor /\ BegunInv

\* An executor at work has set the run running, and only its verdict completes it.
ActiveInv == exec.pc \notin {"idle", "approved"} => status # "completed"

VerdictInv ==
    /\ exec.pc = "verdict" => \A s \in Steps : step[s] = "passed"
    /\ facts.evidence \subseteq proven
    /\ CompletedIsVerified

LateInv ==
    /\ late < 2
    /\ late # 0 => status = "cancelled" /\ exec.pc \notin {"recover", "pack"}

\* A running step nobody executes was cut off by a crash.
CutInv ==
    \A s \in Steps : step[s] = "running" /\ task[s].phase \notin Called => "crash" \in upset

IInv ==
    /\ TypeInv /\ StepInv /\ LocalInv /\ AnchorInv /\ ActiveInv /\ VerdictInv /\ LateInv
    /\ CutInv
-----------------------------------------------------------------------------
(***************************************************************************)
(* Types.                                                                  *)
(***************************************************************************)
LEMMA NumStepsType ==
    NumSteps \in Nat \ {0} /\ MaxOpen \in Nat /\ MaxAnswers \in Nat /\ 0 \notin Steps
BY PlanAssumption, BoundAssumption DEF Steps

LEMMA IdleType == Idle \in Executor /\ Submitted \in Executor /\ NoTasks \in [Steps -> Progress]
<1>1. Idle \in Executor
  BY EmptySeq DEF Idle, Executor
<1>2. Submitted \in Executor
  BY EmptySeq DEF Submitted, Idle, Executor
<1>3. NoTask \in Progress
  BY DEF NoTask, Progress, Phases
<1> QED BY <1>1, <1>2, <1>3 DEF NoTasks

LEMMA CheckpointType ==
    ASSUME NEW action \in {"none", "ask_user", "retry", "alternative", "read",
                           "manual_review", "stop", "absent"},
           NEW s \in Steps \cup {0}, NEW blocked \in SUBSET Criteria
    PROVE  /\ CheckpointOf(action, s, blocked) \in Checkpoint
           /\ CheckpointOf(action, s, blocked).action = action
           /\ CheckpointOf(action, s, blocked).step = s
           /\ CheckpointOf(action, s, blocked).blocked = blocked
           /\ CheckpointOf(action, s, blocked).token = 0
<1>1. s \in 0 .. NumSteps /\ 0 \in 0 .. MaxOpen
  BY NumStepsType DEF Steps
<1> QED BY <1>1 DEF CheckpointOf, Checkpoint

\* The failures and what becomes of them.
LEMMA OutcomeTypes ==
    ASSUME NEW o \in {"ok", "confirm"} \cup FailureKinds
    PROVE  /\ RecoveryAction(o) \in {"ask_user", "retry", "alternative", "read",
                                     "manual_review", "stop", "ok"}
           /\ o # "ok" => RecoveryAction(o) # "ok"
           /\ RecoveryAction(o) = "ask_user" <=> o = "confirm"
           /\ FailureStatus(o) \in {"waiting_user", "recovering", "failed"}
           /\ FailedStepStatus(o) \in {"blocked", "failed"}
           /\ FailedStepStatus(o) = "blocked" <=> o = "confirm"
  BY DEF FailureKinds, RecoveryAction, FailureStatus, FailedStepStatus

\* The runtime writes over a status with its own, or leaves it.
LEMMA RuntimeStatusType ==
    ASSUME NEW current \in TaskRunStatus, NEW target \in TaskRunStatus
    PROVE  /\ RuntimeStatus(current, target) \in TaskRunStatus
           /\ RuntimeStatus(current, target) \in {current, target}
           /\ current \in OperatorStop => RuntimeStatus(current, target) = current
           /\ current \notin OperatorStop => RuntimeStatus(current, target) = target
  BY DEF RuntimeStatus

\* The number of a new interaction is one no open interaction has.
LEMMA TokenIsNew ==
    ASSUME TypeOK, IsFiniteSet(open), TokenLeft
    PROVE  Token \in 1 .. MaxOpen /\ \A i \in open : i.token # Token
<1> DEFINE used == {i \in open : i.token \in 1 .. MaxOpen}
<1>1. \E n \in 1 .. MaxOpen : \A i \in open : i.token # n
  <2> SUFFICES ASSUME \A n \in 1 .. MaxOpen : \E i \in open : i.token = n
               PROVE  FALSE
    OBVIOUS
  <2> DEFINE f == [n \in 1 .. MaxOpen |-> CHOOSE i \in open : i.token = n]
  <2>1. \A n \in 1 .. MaxOpen : f[n] \in open /\ f[n].token = n
    OBVIOUS
  <2>2. f \in [1 .. MaxOpen -> open]
    BY <2>1
  <2> HIDE DEF f
  <2>3. f \in Injection(1 .. MaxOpen, open)
    BY <2>1, <2>2 DEF Injection, IsInjective
  <2>4. Cardinality(1 .. MaxOpen) <= Cardinality(open)
    BY <2>3, FS_Injection
  <2>5. Cardinality(1 .. MaxOpen) = MaxOpen /\ MaxOpen \in Nat
    BY NumStepsType, FS_Interval
  <2>6. Cardinality(open) \in Nat
    BY FS_CardinalityType
  <2> QED BY <2>4, <2>5, <2>6 DEF TokenLeft
<1> QED BY <1>1 DEF Token

\* Putting a batch in the queue.
LEMMA QueueType ==
    ASSUME TypeInv, NEW queue, IsBatch(queue), NEW confirmed \in BOOLEAN,
           NEW again \in BOOLEAN, Queue(queue, confirmed, again)
    PROVE  /\ exec' \in Executor /\ task' \in [Steps -> Progress] /\ late' \in 0 .. 2
           /\ exec'.pc = "batch" /\ exec'.queue = queue
           /\ exec'.local = exec.local /\ exec'.inProcess = exec.inProcess
           /\ exec'.confirmed = confirmed
           /\ \A s \in Steps : \/ /\ task'[s].phase = "queued" /\ task'[s].outcome = "none"
                                  /\ \E i \in 1 .. Len(queue) : queue[i] = s
                               \/ /\ task'[s].phase = "none" /\ task'[s].outcome = "none"
                                  /\ ~ \E i \in 1 .. Len(queue) : queue[i] = s
<1>1. exec' = [exec EXCEPT !.pc = "batch", !.queue = queue, !.confirmed = confirmed,
                            !.again = again]
  BY DEF Queue
<1>2. exec' \in Executor /\ exec'.pc = "batch" /\ exec'.queue = queue
      /\ exec'.local = exec.local /\ exec'.inProcess = exec.inProcess
      /\ exec'.confirmed = confirmed
  BY <1>1 DEF TypeInv, TypeOK, Executor, IsBatch
<1>3. task' = [s \in Steps |->
                  IF \E i \in 1 .. Len(queue) : queue[i] = s
                  THEN [phase |-> "queued", outcome |-> "none"] ELSE NoTask]
  BY DEF Queue
<1>4. [phase |-> "queued", outcome |-> "none"] \in Progress /\ NoTask \in Progress
  BY DEF Progress, Phases, NoTask
<1>5. task' \in [Steps -> Progress]
  BY <1>3, <1>4
<1>6. late' \in 0 .. 2
  BY DEF Queue, TypeInv, TypeOK
<1> QED BY <1>2, <1>3, <1>5, <1>6 DEF NoTask

LEMMA SingleIsBatch == ASSUME NEW s \in Steps PROVE IsBatch(<<s>>)
  BY DEF IsBatch

LEMMA TypeInit == Init => TypeInv
<1> SUFFICES ASSUME Init PROVE TypeInv
  OBVIOUS
<1>1. cp \in Checkpoint /\ cp.action = "absent" /\ cp.step = 0
  BY CheckpointType DEF Init
<1>2. facts \in Facts
  BY DEF Init, Facts
<1>3. exec \in Executor /\ exec.pc \in {"idle", "submitted"} /\ (exec.pc = "idle" => exec = Idle)
  <2>1. exec \in {Idle, Submitted}
    BY DEF Init
  <2>2. Idle.pc = "idle" /\ Submitted.pc = "submitted"
    BY DEF Idle, Submitted
  <2> QED BY <2>1, <2>2, IdleType
<1>4. task \in [Steps -> Progress] /\ task = NoTasks
  BY IdleType DEF Init
<1>5. \A s \in Steps : task[s].phase = "none" /\ task[s].outcome = "none"
  BY <1>4 DEF NoTasks, NoTask
<1>6. TypeOK
  BY <1>1, <1>2, <1>3, <1>4, BoundAssumption DEF Init, TypeOK, TaskRunStatus, StepStatus
<1>7. open = {} /\ past = {} /\ IsFiniteSet(open) /\ exec.pc \notin {"batch", "approved"}
  BY <1>3, FS_EmptySet DEF Init
<1>8. \A s \in Steps : task[s].phase \notin Segment
  BY <1>5 DEF Segment
<1> QED BY <1>1, <1>3, <1>4, <1>5, <1>6, <1>7, <1>8 DEF TypeInv, Anchored

\* A step that leaves the batch and the records alone: only the executor's
\* place, the status and the counters change.
LEMMA MoveType ==
    ASSUME TypeInv, exec.pc # "batch", UNCHANGED task,
           exec' \in Executor, exec'.pc # "batch", exec'.pc = "idle" => exec' = Idle,
           exec'.pc = "approved" => exec'.queue = <<>> \/ \E s \in Steps : exec'.queue = <<s>>,
           status' \in TaskRunStatus, facts' \in Facts,
           cp' \in Checkpoint, Anchored(cp'), open' \subseteq Checkpoint, IsFiniteSet(open'),
           past' \subseteq Checkpoint, \A i \in open' \cup past' : Anchored(i),
           UNCHANGED <<step, proven, verified, budgets, upset, late>>
    PROVE  TypeInv'
<1>1. TypeOK'
  BY DEF TypeInv, TypeOK, budgets
<1>2. task' = NoTasks
  BY DEF TypeInv
<1>3. \A s \in Steps : task'[s].phase = "none" /\ task'[s].outcome = "none"
  BY <1>2 DEF NoTasks, NoTask
<1> QED BY <1>1, <1>2, <1>3 DEF TypeInv, Segment

\* A step that puts a batch in the queue.
LEMMA StartBatchType ==
    ASSUME TypeInv, NEW queue, IsBatch(queue), NEW confirmed \in BOOLEAN,
           NEW again \in BOOLEAN, Queue(queue, confirmed, again), status' \in TaskRunStatus,
           UNCHANGED <<history, cp, past, budgets, upset>>
    PROVE  TypeInv'
<1>1. /\ exec' \in Executor /\ task' \in [Steps -> Progress] /\ late' \in 0 .. 2
      /\ exec'.pc = "batch" /\ exec'.queue = queue
      /\ \A s \in Steps :
            /\ task'[s].phase \in {"queued", "none"} /\ task'[s].outcome = "none"
            /\ task'[s].phase # "none" => \E i \in 1 .. Len(queue) : queue[i] = s
  BY QueueType
<1>2. TypeOK'
  BY <1>1 DEF TypeInv, TypeOK, budgets, history
<1>3. \A s \in Steps : task'[s].phase \notin Segment
  BY <1>1 DEF Segment
<1>4. UNCHANGED <<open, cp, past>>
  BY DEF history
<1> QED BY <1>1, <1>2, <1>3, <1>4 DEF TypeInv, Anchored

LEMMA RestartType ==
    ASSUME TypeInv, NEW s \in Steps, NEW confirmed \in BOOLEAN,
           NEW again \in BOOLEAN, Restart(s, confirmed, again),
           exec.pc # "batch", UNCHANGED <<history, cp, past, budgets, upset>>
    PROVE  TypeInv'
<1>1. status' \in TaskRunStatus
  BY RuntimeStatusType DEF Restart, TypeInv, TypeOK, TaskRunStatus
<1>2. CASE status' = "running"
  BY <1>1, <1>2, SingleIsBatch, StartBatchType DEF Restart
<1>3. CASE status' # "running"
  <2>1. exec' = Idle /\ UNCHANGED <<task, late>> /\ Idle.pc = "idle"
    BY <1>3 DEF Restart, Idle
  <2>2. /\ UNCHANGED <<step, open, facts, proven, verified>>
        /\ facts \in Facts /\ cp \in Checkpoint /\ past \subseteq Checkpoint
        /\ open \subseteq Checkpoint
        /\ IsFiniteSet(open) /\ \A c \in open \cup past \cup {cp} : Anchored(c)
    BY DEF history, TypeInv, TypeOK
  <2> QED BY <1>1, <2>1, <2>2, IdleType, MoveType
<1> QED BY <1>2, <1>3
Pcs == {"idle", "submitted", "recover", "loop", "pack", "batch", "approved", "finish",
        "verdict", "stalled"}

LEMMA GotoType ==
    ASSUME exec \in Executor, NEW pc \in Pcs, Goto(pc)
    PROVE  /\ exec' \in Executor /\ exec'.pc = pc
           /\ exec'.local = exec.local /\ exec'.inProcess = exec.inProcess
           /\ exec'.queue = exec.queue /\ exec'.confirmed = exec.confirmed
  BY DEF Goto, Executor, Pcs

\* The executor that starts a call anew.
LEMMA FreshType ==
    ASSUME NEW pc \in Pcs
    PROVE  /\ [Idle EXCEPT !.pc = pc] \in Executor /\ [Idle EXCEPT !.pc = pc].pc = pc
           /\ [Idle EXCEPT !.pc = pc].inProcess = FALSE
           /\ Idle.pc = "idle" /\ Idle.inProcess = FALSE
<1>1. [Idle EXCEPT !.pc = pc] \in Executor
  BY IdleType DEF Executor, Pcs
<1> QED BY <1>1 DEF Idle

LEMMA FactsType ==
    ASSUME facts \in Facts, NEW claimed \in SUBSET RefsOf("evidence"),
           NEW tests \in SUBSET RefsOf("test_result"), NEW approvals \in SUBSET Criteria,
           NEW fresh \in {"absent", "fresh", "stale"},
           RecordFacts(claimed, tests, approvals, fresh)
    PROVE  /\ facts' \in Facts /\ facts'.evidence = facts.evidence
           /\ facts.claimed \subseteq facts'.claimed /\ facts.tests \subseteq facts'.tests
           /\ facts'.approvals = facts.approvals \cup approvals
           /\ fresh = "absent" => facts'.fresh = facts.fresh
<1>1. facts' = [facts EXCEPT !.claimed = @ \cup claimed, !.tests = @ \cup tests,
                             !.approvals = @ \cup approvals,
                             !.fresh = IF fresh = "absent" THEN @ ELSE fresh]
  BY DEF RecordFacts
<1>2. /\ facts'.evidence = facts.evidence /\ facts'.approvals = facts.approvals \cup approvals
      /\ facts.claimed \subseteq facts'.claimed /\ facts.tests \subseteq facts'.tests
      /\ fresh = "absent" => facts'.fresh = facts.fresh
  BY <1>1 DEF Facts
<1>3. facts' \in Facts
  BY <1>1 DEF Facts
<1> QED BY <1>2, <1>3

\* What becomes of the checkpoints the run moves on from.
LEMMA MoveOnType ==
    ASSUME TypeInv, NEW S \in SUBSET Checkpoint, \A c \in S : Anchored(c), MoveOn(S)
    PROVE  past' \subseteq Checkpoint /\ past' \subseteq past \cup S /\ \A c \in past' : Anchored(c)
<1>1. past' \subseteq past \cup S
  BY DEF MoveOn
<1> QED BY <1>1 DEF TypeInv, TypeOK

LEMMA SaveType ==
    ASSUME TypeInv, NEW c, Save(c)
    PROVE  /\ cp' = c /\ past' \subseteq Checkpoint /\ past' \subseteq past \cup {cp}
           /\ \A i \in past' : Anchored(i)
<1>1. {cp} \in SUBSET Checkpoint /\ Anchored(cp)
  BY DEF TypeInv, TypeOK
<1> QED BY <1>1, MoveOnType DEF Save

\* Steps of the executor, and of the worker that starts it, outside a batch.
Move ==
    \/ ResumeIncomplete \/ ResumeRefused \/ CheckStop \/ AllPassed \/ WaitForUser
    \/ Stalled \/ FailStalled \/ Conclude

LEMMA MovesType == TypeInv /\ Move => TypeInv'
<1> SUFFICES ASSUME TypeInv, Move PROVE TypeInv'
  OBVIOUS
<1>1. /\ status \in TaskRunStatus /\ facts \in Facts /\ cp \in Checkpoint
      /\ past \subseteq Checkpoint
      /\ open \subseteq Checkpoint /\ IsFiniteSet(open) /\ exec \in Executor
      /\ \A i \in open \cup past \cup {cp} : Anchored(i)
      /\ exec.pc = "idle" => exec = Idle
  BY DEF TypeInv, TypeOK
<1>2. Idle \in Executor /\ Idle.pc = "idle"
  BY IdleType, FreshType DEF Pcs
<1>3. /\ CheckpointOf("manual_review", 0, {}) \in Checkpoint
      /\ Anchored(CheckpointOf("manual_review", 0, {}))
  BY CheckpointType DEF Anchored
<1>4. Decision(facts) \in TaskRunStatus
  BY DEF Decision, TaskRunStatus
<1>5. ASSUME NEW pc \in Pcs \ {"batch", "approved", "idle"}, Goto(pc)
      PROVE  exec' \in Executor /\ exec'.pc \notin {"batch", "approved", "idle"}
  BY <1>1, <1>5, GotoType
<1>6. CASE ResumeIncomplete
  <2>1. exec' \in Executor /\ exec'.pc = "recover" /\ exec.pc = "idle"
    BY <1>6, FreshType DEF ResumeIncomplete, Pcs
  <2>2. status' \in TaskRunStatus /\ UNCHANGED <<step, open, facts, proven, verified, cp,
                                                 past, task, budgets, upset, late>>
    BY <1>6 DEF ResumeIncomplete, history, TaskRunStatus
  <2> QED BY <1>1, <2>1, <2>2, MoveType
<1>7. CASE ResumeRefused
  <2>1. status' \in TaskRunStatus
    BY <1>1, <1>7, RuntimeStatusType DEF ResumeRefused, TaskRunStatus
  <2>2. exec.pc = "idle" /\ UNCHANGED <<step, open, facts, proven, verified, cp, past,
                                        exec, task, budgets, upset, late>>
    BY <1>7 DEF ResumeRefused, history
  <2> QED BY <1>1, <1>2, <2>1, <2>2, MoveType
<1>8. CASE CheckStop
  <2>1. exec.pc = "loop"
        /\ UNCHANGED <<status, step, open, facts, proven, verified, cp, past, task,
                       budgets, upset, late>>
    BY <1>8 DEF CheckStop, history
  <2>2. exec' = Idle \/ Goto("pack")
    BY <1>8 DEF CheckStop
  <2>3. exec' \in Executor /\ exec'.pc \notin {"batch", "approved"}
        /\ (exec'.pc = "idle" => exec' = Idle)
    BY <1>2, <1>5, <2>2 DEF Pcs
  <2> QED BY <1>1, <2>1, <2>3, MoveType
<1>9. CASE AllPassed
  <2>1. exec.pc = "pack" /\ Goto("finish")
        /\ UNCHANGED <<status, step, open, facts, proven, verified, cp, past, task,
                       budgets, upset, late>>
    BY <1>9 DEF AllPassed, history
  <2>2. exec' \in Executor /\ exec'.pc \notin {"batch", "approved", "idle"}
    BY <1>5, <2>1 DEF Pcs
  <2> QED BY <1>1, <2>1, <2>2, MoveType
<1>10. CASE WaitForUser
  <2>1. exec.pc = "pack" /\ exec' = Idle
        /\ UNCHANGED <<step, open, facts, proven, verified, cp, past, task, budgets,
                       upset, late>>
    BY <1>10 DEF WaitForUser, history
  <2>2. status' \in TaskRunStatus
    BY <1>1, <1>10, RuntimeStatusType DEF WaitForUser, TaskRunStatus
  <2> QED BY <1>1, <1>2, <2>1, <2>2, MoveType
<1>11. CASE Stalled
  <2>1. exec.pc = "pack" /\ Goto("stalled") /\ Save(CheckpointOf("manual_review", 0, {}))
        /\ UNCHANGED <<status, step, open, facts, proven, verified, task, budgets, upset,
                       late>>
    BY <1>11 DEF Stalled, Stall, history
  <2>2. exec' \in Executor /\ exec'.pc \notin {"batch", "approved", "idle"}
    BY <1>5, <2>1 DEF Pcs
  <2> QED BY <1>1, <1>3, <2>1, <2>2, SaveType, MoveType
<1>12. CASE FailStalled
  <2>1. exec.pc = "stalled" /\ exec' = Idle
        /\ UNCHANGED <<step, open, facts, proven, verified, cp, past, task, budgets,
                       upset, late>>
    BY <1>12 DEF FailStalled, history
  <2>2. status' \in TaskRunStatus
    BY <1>1, <1>12, RuntimeStatusType DEF FailStalled, TaskRunStatus
  <2> QED BY <1>1, <1>2, <2>1, <2>2, MoveType
<1>13. CASE Conclude
  <2>1. exec.pc = "verdict" /\ exec' = Idle
        /\ UNCHANGED <<step, open, facts, proven, verified, cp, past, task, budgets,
                       upset, late>>
    BY <1>13 DEF Conclude, history
  <2>2. status' \in TaskRunStatus
    BY <1>1, <1>4, <1>13, RuntimeStatusType DEF Conclude
  <2> QED BY <1>1, <1>2, <2>1, <2>2, MoveType
<1> QED BY <1>6, <1>7, <1>8, <1>9, <1>10, <1>11, <1>12, <1>13 DEF Move

\* What a recovery executes at once, and what the loop takes next, is a batch.
LEMMA RecoveredBatch ==
    ASSUME NEW S \in SUBSET Steps, S # {}, Cardinality(S) = 1 \/ S \subseteq ParallelSafe
    PROVE  /\ IsBatch(TopologicalOrder(S))
           /\ \A i \in 1 .. Len(TopologicalOrder(S)) : TopologicalOrder(S)[i] \in S
<1> DEFINE seq == TopologicalOrder(S)
<1>1. Lists(seq, S)
  BY SortedSteps
<1> HIDE DEF seq
<1>2. /\ seq \in Seq(S) /\ Len(seq) = Cardinality(S) /\ Len(seq) \in Nat
      /\ \A s \in S : \E i \in 1 .. Len(seq) : seq[i] = s
      /\ \A i, j \in 1 .. Len(seq) : seq[i] = seq[j] => i = j
      /\ \A i \in 1 .. Len(seq) : seq[i] \in S
  BY <1>1 DEF Lists
<1>3. Len(seq) > 0
  BY <1>2
<1>4. seq \in Seq(Steps)
  BY <1>2
<1>5. ASSUME Len(seq) > 1, NEW i \in 1 .. Len(seq) PROVE seq[i] \in ParallelSafe
  BY <1>2, <1>5
<1>6. IsBatch(seq)
  BY <1>2, <1>3, <1>4, <1>5 DEF IsBatch
<1> QED BY <1>2, <1>6 DEF seq

LEMMA ReadyBatch ==
    ASSUME Len(Ready) > 0
    PROVE  /\ IsBatch(ExecutionBatch(Ready))
           /\ \A i \in 1 .. Len(ExecutionBatch(Ready)) :
                 ExecutionBatch(Ready)[i] \in IF exec.inProcess THEN LocalFrontier
                                              ELSE Frontier(Projected)
<1>1. LocalFrontier \in SUBSET Steps /\ Frontier(Projected) \in SUBSET Steps
  BY DEF LocalFrontier, Frontier
<1>2. CASE exec.inProcess
  <2>1. Ready = PlanOrder(LocalFrontier)
    BY <1>2 DEF Ready
  <2>2. Lists(Ready, LocalFrontier)
    BY <1>1, <2>1, SortedSteps
  <2> QED BY <1>1, <1>2, <2>2, ExecutionBatchIsBatch
<1>3. CASE ~exec.inProcess
  <2>1. Ready = TopologicalOrder(Frontier(Projected))
    BY <1>3 DEF Ready, ContextPack
  <2>2. Lists(Ready, Frontier(Projected))
    BY <1>1, <2>1, SortedSteps
  <2> QED BY <1>1, <1>3, <2>2, ExecutionBatchIsBatch
<1> QED BY <1>2, <1>3

\* Steps that begin a batch, and the entry points with effects of their own.
Start == RecoverRunning \/ ResumeFromCheckpoint \/ Approved \/ NextBatch

LEMMA StartsType == TypeInv /\ Start => TypeInv'
<1> SUFFICES ASSUME TypeInv, Start PROVE TypeInv'
  OBVIOUS
<1>1. /\ status \in TaskRunStatus /\ facts \in Facts /\ cp \in Checkpoint
      /\ past \subseteq Checkpoint
      /\ open \subseteq Checkpoint /\ IsFiniteSet(open) /\ exec \in Executor
      /\ \A i \in open \cup past \cup {cp} : Anchored(i)
      /\ exec.pc = "idle" => exec = Idle
  BY DEF TypeInv, TypeOK
<1>2. Idle \in Executor /\ Idle.pc = "idle"
  BY IdleType, FreshType DEF Pcs
<1>3. /\ CheckpointOf("manual_review", 0, {}) \in Checkpoint
      /\ Anchored(CheckpointOf("manual_review", 0, {}))
  BY CheckpointType DEF Anchored
<1>4. CASE RecoverRunning
  <2> DEFINE running == ContextPack.running
  <2>1. exec.pc = "recover"
        /\ UNCHANGED <<status, step, open, facts, proven, verified, budgets, upset>>
    BY <1>4 DEF RecoverRunning, history
  <2>2. running \in SUBSET Steps
    BY DEF ContextPack
  <2>3. CASE Goto("loop") /\ UNCHANGED <<cp, past, task, late>>
    <3>1. exec' \in Executor /\ exec'.pc = "loop"
      BY <1>1, <2>3, GotoType DEF Pcs
    <3> QED BY <1>1, <2>1, <2>3, <3>1, MoveType
  <2>4. CASE /\ running # {}
             /\ Cardinality(running) = 1 \/ running \subseteq ParallelSafe
             /\ Queue(TopologicalOrder(running), FALSE, FALSE) /\ UNCHANGED <<cp, past>>
    <3> HIDE DEF running
    <3>1. IsBatch(TopologicalOrder(running))
      BY <2>2, <2>4, RecoveredBatch
    <3>2. UNCHANGED <<history, cp, past, budgets, upset>> /\ status' \in TaskRunStatus
      BY <1>1, <2>1, <2>4 DEF history
    <3> QED BY <2>4, <3>1, <3>2, StartBatchType
  <2>5. CASE Stall /\ UNCHANGED <<task, late>>
    <3>1. Save(CheckpointOf("manual_review", 0, {})) /\ Goto("stalled")
      BY <2>5 DEF Stall
    <3>2. exec' \in Executor /\ exec'.pc = "stalled"
      BY <1>1, <3>1, GotoType DEF Pcs
    <3> QED BY <1>1, <1>3, <2>1, <2>5, <3>1, <3>2, SaveType, MoveType
  <2> QED BY <1>4, <2>3, <2>4, <2>5 DEF RecoverRunning
<1>5. CASE ResumeFromCheckpoint
  <2>1. cp.step \in Steps
    BY <1>1, <1>5 DEF ResumeFromCheckpoint, CanResume, Anchored
  <2> QED BY <1>5, <2>1, RestartType DEF ResumeFromCheckpoint
<1>7. CASE Approved
  <2>1. exec.pc = "approved" /\ UNCHANGED <<history, cp, past, budgets, upset>>
        /\ UNCHANGED <<step, open, facts, proven, verified>>
    BY <1>7 DEF Approved, history
  <2>2. CASE exec.queue = <<>>
    <3>1. status' \in TaskRunStatus
      BY <1>1, <1>7, <2>2, RuntimeStatusType DEF Approved, TaskRunStatus
    <3>2. exec' = Idle \/ exec' = [Idle EXCEPT !.pc = "loop"]
      BY <1>7, <2>2 DEF Approved
    <3>3. exec' \in Executor /\ exec'.pc \in {"idle", "loop"} /\ (exec'.pc = "idle" => exec' = Idle)
      <4>1. "loop" \in Pcs
        BY DEF Pcs
      <4>2. CASE exec' = Idle
        BY <1>2, <4>1, <4>2, FreshType
      <4>3. CASE exec' = [Idle EXCEPT !.pc = "loop"]
        BY <4>1, <4>3, FreshType
      <4> QED
        BY <3>2, <4>2, <4>3
    <3>4. UNCHANGED <<task, late>>
      BY <1>7, <2>2 DEF Approved
    <3> QED BY <1>1, <2>1, <3>1, <3>3, <3>4, MoveType
  <2>3. CASE exec.queue # <<>>
    <3>1. PICK s \in Steps : exec.queue = <<s>>
      BY <2>1, <2>3 DEF TypeInv
    <3>2. Restart(exec.queue[1], TRUE, exec.again)
      BY <1>7, <2>3 DEF Approved
    <3>3. exec.queue[1] = s
      BY <3>1
    <3>4. Restart(s, TRUE, exec.again)
      BY <3>2, <3>3, Zenon
    <3>5. exec.again \in BOOLEAN
      BY DEF TypeInv, TypeOK, Executor
    <3> QED BY <2>1, <3>4, <3>5, RestartType
  <2> QED BY <2>2, <2>3
<1>8. CASE NextBatch
  <2>1. IsBatch(ExecutionBatch(Ready)) /\ Queue(ExecutionBatch(Ready), FALSE, FALSE)
    BY <1>8, ReadyBatch DEF NextBatch
  <2>2. UNCHANGED <<history, cp, past, budgets, upset>> /\ status' \in TaskRunStatus
    BY <1>1, <1>8 DEF NextBatch
  <2> QED BY <2>1, <2>2, StartBatchType
<1> QED BY <1>4, <1>5, <1>7, <1>8 DEF Start

LEMMA RunType == TypeInv /\ Run => TypeInv'
<1> SUFFICES ASSUME TypeInv, Run PROVE TypeInv'
  OBVIOUS
<1>1. /\ status \in TaskRunStatus /\ facts \in Facts /\ cp \in Checkpoint
      /\ past \subseteq Checkpoint
      /\ open \subseteq Checkpoint /\ IsFiniteSet(open) /\ exec \in Executor
      /\ \A i \in open \cup past \cup {cp} : Anchored(i)
  BY DEF TypeInv, TypeOK
<1>2. exec.pc = "submitted" /\ Goto("loop")
      /\ UNCHANGED <<step, cp, past, open, task, proven, verified, budgets, upset, late>>
  BY DEF Run
<1>3. status' \in TaskRunStatus
  BY <1>1, RuntimeStatusType DEF Run, TaskRunStatus
<1>4. exec' \in Executor /\ exec'.pc = "loop"
  BY <1>1, <1>2, GotoType DEF Pcs
<1>5. facts' \in Facts
  <2>1. PICK claimed \in SUBSET RefsOf("evidence"), tests \in SUBSET RefsOf("test_result"),
             approvals \in SUBSET OfType("human_approval"),
             fresh \in {"absent", "fresh", "stale"} : RecordFacts(claimed, tests, approvals, fresh)
    BY DEF Run
  <2>2. approvals \in SUBSET Criteria
    BY DEF OfType
  <2> QED BY <1>1, <2>1, <2>2, FactsType
<1> QED BY <1>1, <1>2, <1>3, <1>4, <1>5, MoveType

\* The answers, and what both leave and change.
Answering == \E c \in open \cup past \cup {cp} : Approve(c) \/ ResumeWithAlternative(c)

LEMMA AnswerEffect ==
    ASSUME TypeInv, Answering
    PROVE  \E c \in open \cup past \cup {cp} :
             /\ UNCHANGED <<status, step, task, proven, verified, crashes, controls, late>>
             /\ exec.pc = "idle" /\ exec' \in Executor /\ exec'.pc = "approved"
             /\ exec'.inProcess = FALSE
             /\ \/ c.action = "none" /\ exec'.queue = <<>>
                \/ c.action \in {"ask_user", "alternative"} /\ c.step \in Steps
                   /\ exec'.queue = <<c.step>>
             /\ facts' \in Facts /\ facts'.evidence = facts.evidence
             /\ facts.claimed \subseteq facts'.claimed /\ facts.tests \subseteq facts'.tests
             /\ facts.approvals \subseteq facts'.approvals /\ facts'.fresh = facts.fresh
             /\ \/ c.action = "alternative" /\ open' = open
                \/ c.action # "alternative" /\ open' = {i \in open : i.token # c.token}
             /\ cp' \in {cp, [cp EXCEPT !.token = 0]}
             /\ \E d \in open \cup past \cup {cp} :
                   past' \subseteq past \cup {[d EXCEPT !.token = 0]}
             /\ answers' \in 0 .. MaxAnswers
             /\ \/ c \in open \cup {cp} /\ upset' = upset
                \/ upset' = upset \cup {"answer"}
             /\ c = cp /\ c.action # "alternative" => cp'.token = 0
             /\ cp' = cp \/ (c = cp /\ c.action # "alternative")
<1> PICK c \in open \cup past \cup {cp} : Approve(c) \/ ResumeWithAlternative(c)
  BY DEF Answering
<1>1. /\ facts \in Facts /\ c \in Checkpoint /\ Anchored(c) /\ answers \in 0 .. MaxAnswers
  BY DEF TypeInv, TypeOK
<1>2. /\ exec.pc = "idle" /\ Answer(c)
      /\ UNCHANGED <<status, step, task, proven, verified, crashes, controls, late>>
  BY DEF Approve, ResumeWithAlternative, history
<1>3. /\ answers' \in 0 .. MaxAnswers
      /\ \/ c \in open \cup {cp} /\ upset' = upset
         \/ upset' = upset \cup {"answer"}
  BY <1>1, <1>2, NumStepsType DEF Answer
<1>4. ASSUME NEW steps \in Seq(Steps), NEW again \in BOOLEAN, TakeUp(steps, again)
      PROVE  exec' \in Executor /\ exec'.pc = "approved" /\ exec'.inProcess = FALSE
             /\ exec'.queue = steps
  BY <1>4 DEF TakeUp, Idle, Executor
<1>5. CASE ResumeWithAlternative(c)
  <2>1. c.action = "alternative" /\ c.step \in Steps /\ <<c.step>> \in Seq(Steps)
    BY <1>1, <1>5 DEF ResumeWithAlternative, Anchored
  <2>2. TakeUp(<<c.step>>, c # cp \/ "crash" \in upset) /\ UNCHANGED <<open, facts, cp,
                                                                       past>>
    BY <1>5 DEF ResumeWithAlternative, history
  <2>3. exec' \in Executor /\ exec'.pc = "approved" /\ exec'.inProcess = FALSE
        /\ exec'.queue = <<c.step>>
    BY <1>4, <2>1, <2>2
  <2> QED BY <1>1, <1>2, <1>3, <2>1, <2>2, <2>3
<1>6. CASE Approve(c)
  <2> DEFINE answered == [c EXCEPT !.token = 0]
  <2>1. /\ c.action \in {"ask_user", "none"} /\ open' = {i \in open : i.token # c.token}
        /\ RecordFacts({}, {}, ApprovalCriteria(c.blocked), "absent")
        /\ TakeUp(IF c.action = "none" THEN <<>> ELSE <<c.step>>, c.token = 0)
        /\ IF c = cp THEN cp' = answered /\ UNCHANGED past ELSE MoveOn({answered}) /\ UNCHANGED cp
    BY <1>6 DEF Approve, Answerable, ResolveInteraction
  <2>2. ApprovalCriteria(c.blocked) \in SUBSET Criteria
    BY <1>1 DEF Checkpoint, ApprovalCriteria
  <2>3. /\ facts' \in Facts /\ facts'.evidence = facts.evidence
        /\ facts.claimed \subseteq facts'.claimed /\ facts.tests \subseteq facts'.tests
        /\ facts.approvals \subseteq facts'.approvals /\ facts'.fresh = facts.fresh
    <3>1. {} \in SUBSET RefsOf("evidence") /\ {} \in SUBSET RefsOf("test_result")
      OBVIOUS
    <3> QED BY <1>1, <2>1, <2>2, <3>1, FactsType
  <2>4. /\ exec' \in Executor /\ exec'.pc = "approved" /\ exec'.inProcess = FALSE
        /\ \/ c.action = "none" /\ exec'.queue = <<>>
           \/ c.action = "ask_user" /\ c.step \in Steps /\ exec'.queue = <<c.step>>
    <3>1. CASE c.action = "none"
      <4>1. TakeUp(<<>>, c.token = 0) /\ <<>> \in Seq(Steps)
        BY <2>1, <3>1, EmptySeq
      <4> QED BY <1>4, <3>1, <4>1
    <3>2. CASE c.action = "ask_user"
      <4>1. c.step \in Steps /\ <<c.step>> \in Seq(Steps)
        BY <1>1, <3>2 DEF Anchored
      <4>2. TakeUp(<<c.step>>, c.token = 0)
        BY <2>1, <3>2
      <4> QED BY <1>4, <3>2, <4>1, <4>2
    <3> QED BY <2>1, <3>1, <3>2
  <2>5. /\ cp' \in {cp, [cp EXCEPT !.token = 0]} /\ past' \subseteq past \cup {answered}
        /\ c = cp => cp'.token = 0
        /\ cp' = cp \/ c = cp
    BY <1>1, <2>1 DEF MoveOn, Checkpoint
  <2> QED BY <1>1, <1>2, <1>3, <2>1, <2>3, <2>4, <2>5
<1> QED BY <1>5, <1>6

\* A checkpoint without its token is one all the same.
LEMMA Tokenless ==
    ASSUME NEW c \in Checkpoint, Anchored(c)
    PROVE  /\ [c EXCEPT !.token = 0] \in Checkpoint /\ Anchored([c EXCEPT !.token = 0])
           /\ [c EXCEPT !.token = 0].step = c.step /\ [c EXCEPT !.token = 0].action = c.action
           /\ [c EXCEPT !.token = 0].blocked = c.blocked /\ [c EXCEPT !.token = 0].token = 0
<1>1. 0 \in 0 .. MaxOpen
  BY NumStepsType
<1> QED BY <1>1 DEF Checkpoint, Anchored

LEMMA AnswerType == TypeInv /\ Answering => TypeInv'
<1> SUFFICES ASSUME TypeInv, Answering PROVE TypeInv'
  OBVIOUS
<1>1. /\ cp \in Checkpoint /\ past \subseteq Checkpoint /\ open \subseteq Checkpoint
      /\ IsFiniteSet(open) /\ \A i \in open \cup past \cup {cp} : Anchored(i)
  BY DEF TypeInv, TypeOK
<1>2. /\ UNCHANGED <<status, step, task, proven, verified, crashes, controls, late>>
      /\ exec.pc = "idle" /\ exec' \in Executor /\ exec'.pc = "approved"
      /\ exec'.queue = <<>> \/ \E s \in Steps : exec'.queue = <<s>>
      /\ facts' \in Facts /\ open' \subseteq open /\ answers' \in 0 .. MaxAnswers
      /\ cp' \in {cp, [cp EXCEPT !.token = 0]} /\ upset' \subseteq upset \cup {"answer"}
      /\ \E d \in open \cup past \cup {cp} : past' \subseteq past \cup {[d EXCEPT !.token = 0]}
  BY AnswerEffect
<1>3. cp' \in Checkpoint /\ Anchored(cp')
  BY <1>1, <1>2, Tokenless
<1>4. past' \subseteq Checkpoint /\ \A i \in past' : Anchored(i)
  <2>1. PICK d \in open \cup past \cup {cp} : past' \subseteq past \cup {[d EXCEPT !.token = 0]}
    BY <1>2
  <2>2. [d EXCEPT !.token = 0] \in Checkpoint /\ Anchored([d EXCEPT !.token = 0])
    BY <1>1, Tokenless
  <2> QED BY <1>1, <2>1, <2>2
<1>5. open' \subseteq Checkpoint /\ IsFiniteSet(open') /\ \A i \in open' : Anchored(i)
  BY <1>1, <1>2, FS_Subset
<1>6. TypeOK'
  BY <1>2, <1>3, <1>4, <1>5 DEF TypeInv, TypeOK
<1> QED BY <1>2, <1>3, <1>4, <1>5, <1>6 DEF TypeInv, Segment

\* The checkpoint of a new interaction.
Numbered(action, s, blocked) == [CheckpointOf(action, s, blocked) EXCEPT !.token = Token]

LEMMA TokenType ==
    ASSUME TypeInv, TokenLeft, NEW action \in {"none", "ask_user"}, NEW s \in Steps \cup {0},
           NEW blocked \in SUBSET Criteria
    PROVE  /\ Numbered(action, s, blocked) \in Checkpoint
           /\ Numbered(action, s, blocked).action = action
           /\ Numbered(action, s, blocked).step = s
           /\ Numbered(action, s, blocked).blocked = blocked
           /\ Numbered(action, s, blocked).token = Token
           /\ Token # 0 /\ \A i \in open : i.token # Token
<1>1. Token \in 1 .. MaxOpen /\ \A i \in open : i.token # Token
  BY TokenIsNew DEF TypeInv
<1>2. Token \in 0 .. MaxOpen /\ Token # 0
  BY <1>1
<1>3. s \in 0 .. NumSteps
  BY NumStepsType DEF Steps
<1> QED BY <1>1, <1>2, <1>3 DEF Numbered, CheckpointOf, Checkpoint

LEMMA EvaluateType == TypeInv /\ Evaluate => TypeInv'
<1> SUFFICES ASSUME TypeInv, Evaluate PROVE TypeInv'
  OBVIOUS
<1>1. /\ status \in TaskRunStatus /\ facts \in Facts /\ cp \in Checkpoint
      /\ past \subseteq Checkpoint
      /\ open \subseteq Checkpoint /\ IsFiniteSet(open) /\ exec \in Executor
      /\ \A i \in open \cup past \cup {cp} : Anchored(i)
  BY DEF TypeInv, TypeOK
<1>2. exec.pc = "finish" /\ UNCHANGED <<status, step, facts, task, proven, verified,
                                        budgets, upset, late>>
  BY DEF Evaluate
<1>3. ASSUME NEW action \in {"none", "stop"}
      PROVE  CheckpointOf(action, 0, {}) \in Checkpoint /\ Anchored(CheckpointOf(action, 0, {}))
  BY <1>3, CheckpointType DEF Anchored
<1>4. CASE exec' = Idle /\ UNCHANGED <<cp, past, open>>
  BY <1>1, <1>2, <1>4, IdleType, FreshType, MoveType DEF Pcs
<1>5. CASE /\ Goto("verdict") /\ open' = open
           /\ \/ Save(NoFailure)
              \/ Save(CheckpointOf("stop", 0, {}))
  <2>1. exec' \in Executor /\ exec'.pc = "verdict"
    BY <1>1, <1>5, GotoType DEF Pcs
  <2>2. /\ cp' \in Checkpoint /\ Anchored(cp')
        /\ past' \subseteq Checkpoint /\ \A i \in past' : Anchored(i)
    BY <1>3, <1>5, SaveType DEF NoFailure
  <2> QED BY <1>1, <1>2, <1>5, <2>1, <2>2, MoveType
<1>6. CASE /\ Goto("verdict") /\ TokenLeft /\ open' = open \cup {cp'}
           /\ Save(Numbered("none", 0, Blocked(facts)))
  <2>1. exec' \in Executor /\ exec'.pc = "verdict"
    BY <1>1, <1>6, GotoType DEF Pcs
  <2>2. Blocked(facts) \in SUBSET Criteria
    BY DEF Blocked
  <2>3. /\ cp' \in Checkpoint /\ cp'.action = "none" /\ cp'.step = 0
        /\ past' \subseteq Checkpoint /\ \A i \in past' : Anchored(i)
    BY <1>6, <2>2, TokenType, SaveType
  <2>4. Anchored(cp')
    BY <2>3 DEF Anchored
  <2>5. open' \subseteq Checkpoint /\ IsFiniteSet(open') /\ \A i \in open' : Anchored(i)
    BY <1>1, <1>6, <2>3, <2>4, FS_AddElement
  <2> QED BY <1>1, <1>2, <2>1, <2>3, <2>4, <2>5, MoveType
<1> QED BY <1>4, <1>5, <1>6 DEF Evaluate, Numbered

LEMMA ControlType ==
    ASSUME TypeInv, NEW target \in {"paused", "running", "cancelled"}, Control(target)
    PROVE  TypeInv'
<1>1. /\ UNCHANGED <<step, open, facts, proven, verified, exec, task, crashes, answers,
                     late>>
      /\ Save(NoFailure) /\ status' = target /\ controls' = controls + 1
      /\ controls < MaxControls /\ upset' \subseteq upset \cup {"control"}
  BY DEF Control, history
<1>2. /\ cp' \in Checkpoint /\ Anchored(cp')
      /\ past' \subseteq Checkpoint /\ \A i \in past' : Anchored(i)
  BY <1>1, CheckpointType, SaveType DEF Anchored, NoFailure
<1>3. controls' \in 0 .. MaxControls
  BY <1>1, BoundAssumption DEF TypeInv, TypeOK
<1>4. TypeOK'
  BY <1>1, <1>2, <1>3 DEF TypeInv, TypeOK, TaskRunStatus
<1> QED BY <1>1, <1>2, <1>4 DEF TypeInv

LEMMA CrashType == TypeInv /\ Crash => TypeInv'
<1> SUFFICES ASSUME TypeInv, Crash PROVE TypeInv'
  OBVIOUS
<1>1. /\ UNCHANGED <<status, step, open, facts, proven, verified, cp, past, controls,
                     answers, late>>
      /\ exec' = Idle /\ task' = NoTasks /\ crashes' = crashes + 1 /\ crashes < MaxCrashes
      /\ upset' = upset \cup {"crash"}
  BY DEF Crash, history
<1>2. crashes' \in 0 .. MaxCrashes
  BY <1>1, BoundAssumption DEF TypeInv, TypeOK
<1>3. /\ exec' \in Executor /\ exec'.pc = "idle" /\ task' \in [Steps -> Progress]
      /\ \A s \in Steps : task'[s].phase = "none" /\ task'[s].outcome = "none"
  BY <1>1, IdleType, FreshType DEF Pcs, NoTasks, NoTask
<1>4. TypeOK'
  BY <1>1, <1>2, <1>3 DEF TypeInv, TypeOK
<1> QED BY <1>1, <1>3, <1>4 DEF TypeInv, Segment

-----------------------------------------------------------------------------
(***************************************************************************)
(* Types: the steps of a batch.                                            *)
(***************************************************************************)
LEMMA AdvanceType ==
    ASSUME TypeInv, NEW s \in Steps, NEW phase \in Phases, Advance(s, phase)
    PROVE  /\ task' \in [Steps -> Progress]
           /\ task'[s].phase = phase /\ task'[s].outcome = task[s].outcome
           /\ \A t \in Steps : t # s => task'[t] = task[t]
<1>1. task' = [task EXCEPT ![s].phase = phase] /\ task \in [Steps -> Progress]
  BY DEF Advance, TypeInv, TypeOK
<1>2. task[s] \in Progress
  BY <1>1
<1>3. /\ [task[s] EXCEPT !.phase = phase] \in Progress
      /\ [task[s] EXCEPT !.phase = phase].phase = phase
      /\ [task[s] EXCEPT !.phase = phase].outcome = task[s].outcome
  BY <1>2 DEF Progress
<1>4. task'[s] = [task[s] EXCEPT !.phase = phase] /\ \A t \in Steps : t # s => task'[t] = task[t]
  BY <1>1
<1>5. task' \in [Steps -> Progress]
  BY <1>1, <1>3
<1> QED BY <1>3, <1>4, <1>5

\* Only a batch has steps that got anywhere.
LEMMA InBatch ==
    ASSUME TypeInv, NEW s \in Steps, task[s].phase # "none"
    PROVE  exec.pc = "batch"
  BY DEF TypeInv, NoTasks, NoTask

LEMMA BatchMoveType ==
    ASSUME TypeInv, NEW s \in Steps, task[s].phase # "none", UNCHANGED exec,
           task' \in [Steps -> Progress], \A t \in Steps : t # s => task'[t] = task[t],
           task'[s].phase \in {"none", "queued", "calling"} <=> task'[s].outcome = "none",
           task'[s].phase \in Segment => \A t \in Steps : t # s => task[t].phase \notin Segment,
           status' \in TaskRunStatus, step' \in [Steps -> StepStatus], facts' \in Facts,
           cp' \in Checkpoint, Anchored(cp'), open' \subseteq Checkpoint, IsFiniteSet(open'),
           past' \subseteq Checkpoint, \A i \in open' \cup past' : Anchored(i),
           proven' \subseteq Steps, verified' \subseteq Steps,
           upset' \subseteq {"crash", "control", "batch", "answer"}, UNCHANGED <<budgets,
                                                                                 late>>
    PROVE  TypeInv'
<1>1. exec.pc = "batch"
  BY InBatch
<1>2. TypeOK'
  BY DEF TypeInv, TypeOK, budgets
<1>3. \A t \in Steps : task'[t].phase # "none" =>
          \E i \in 1 .. Len(exec'.queue) : exec'.queue[i] = t
  BY <1>1 DEF TypeInv
<1>4. \A t \in Steps :
          task'[t].phase \in {"none", "queued", "calling"} <=> task'[t].outcome = "none"
  BY DEF TypeInv
<1>5. \A t, u \in Steps : task'[t].phase \in Segment /\ task'[u].phase \in Segment => t = u
  BY DEF TypeInv
<1> QED BY <1>1, <1>2, <1>3, <1>4, <1>5 DEF TypeInv

LEMMA BatchStepType ==
    ASSUME TypeInv, NEW s \in Steps, StepOfBatch(s)
    PROVE  TypeInv'
<1>1. /\ status \in TaskRunStatus /\ step \in [Steps -> StepStatus] /\ facts \in Facts
      /\ cp \in Checkpoint /\ past \subseteq Checkpoint /\ open \subseteq Checkpoint
      /\ IsFiniteSet(open) /\ exec \in Executor
      /\ \A i \in open \cup past \cup {cp} : Anchored(i)
      /\ proven \subseteq Steps /\ verified \subseteq Steps
      /\ upset \subseteq {"crash", "control", "batch", "answer"}
      /\ task \in [Steps -> Progress]
      /\ \A t \in Steps : task[t].phase \in {"none", "queued", "calling"}
         <=> task[t].outcome = "none"
      /\ \A t, u \in Steps : task[t].phase \in Segment /\ task[u].phase \in Segment => t = u
  BY DEF TypeInv, TypeOK
<1>2. task[s].outcome \in {"none", "ok", "confirm"} \cup FailureKinds
  BY <1>1 DEF Progress
<1>3. CASE StartStep(s)
  <2>1. /\ task[s].phase = "queued" /\ Advance(s, "calling") /\ "calling" \in Phases
        /\ step' = [step EXCEPT ![s] = "running"]
        /\ UNCHANGED <<status, cp, past, open, facts, exec, proven, verified, budgets,
                       upset, late>>
    BY <1>3 DEF StartStep, Phases
  <2>2. step' \in [Steps -> StepStatus]
    BY <1>1, <2>1 DEF StepStatus
  <2>3. /\ task' \in [Steps -> Progress] /\ task'[s].phase = "calling"
        /\ task'[s].outcome = task[s].outcome /\ \A t \in Steps : t # s => task'[t] = task[t]
    BY <2>1, AdvanceType
  <2> QED BY <1>1, <2>1, <2>2, <2>3, BatchMoveType DEF Segment
<1>4. ASSUME NEW outcome \in Outcomes(s, exec.confirmed), ToolReturns(s, outcome)
      PROVE  TypeInv'
  <2>1. /\ task[s].phase = "calling" /\ ~InSegment
        /\ task' = [task EXCEPT ![s] = [phase |-> "recorded", outcome |-> outcome]]
        /\ \E brought \in SUBSET {s} : facts' =
              [facts EXCEPT !.evidence = IF IsEvidence(outcome) THEN @ \cup brought ELSE @]
        /\ proven' \subseteq proven \cup {s}
        /\ UNCHANGED <<status, step, cp, past, open, exec, verified, budgets, upset, late>>
    BY <1>4 DEF ToolReturns
  <2>2. outcome \in {"ok", "confirm"} \cup FailureKinds /\ outcome # "none"
    BY PlanAssumption DEF Outcomes, FailureKinds
  <2>3. [phase |-> "recorded", outcome |-> outcome] \in Progress
    BY <2>2 DEF Progress, Phases
  <2>4. /\ task' \in [Steps -> Progress] /\ task'[s].phase = "recorded"
        /\ task'[s].outcome = outcome /\ \A t \in Steps : t # s => task'[t] = task[t]
    BY <1>1, <2>1, <2>3
  <2>5. facts' \in Facts /\ proven' \subseteq Steps
    BY <1>1, <2>1 DEF Facts
  <2>6. \A t \in Steps : task[t].phase \notin Segment
    BY <2>1 DEF InSegment, Segment
  <2> QED BY <1>1, <2>1, <2>2, <2>4, <2>5, <2>6, BatchMoveType
<1>5. CASE SaveCheckpoint(s)
  <2>1. /\ task[s].phase = "recorded" /\ Advance(s, "saved") /\ "saved" \in Phases
        /\ cp' \in {NoFailure, CheckpointOf(RecoveryAction(task[s].outcome), s, {})}
        /\ Succeeds(s, task[s].outcome) => cp' = NoFailure
        /\ past' \subseteq Checkpoint /\ \A i \in past' : Anchored(i)
        /\ UNCHANGED <<status, step, open, facts, proven, verified, exec, budgets, upset,
                       late>>
    BY <1>5, SaveType DEF SaveCheckpoint, Phases, history
  <2>2. task[s].outcome \in {"ok", "confirm"} \cup FailureKinds
    BY <1>1, <1>2, <2>1
  <2>3. cp' \in Checkpoint /\ Anchored(cp')
    <3>1. CASE cp' = NoFailure
      BY <3>1, CheckpointType DEF NoFailure, Anchored
    <3>2. CASE cp' = CheckpointOf(RecoveryAction(task[s].outcome), s, {}) /\ task[s].outcome # "ok"
      <4>1. RecoveryAction(task[s].outcome) \in {"ask_user", "retry", "alternative", "read",
                                                 "manual_review", "stop"}
        BY <2>2, <3>2, OutcomeTypes
      <4> QED BY <3>2, <4>1, CheckpointType DEF Anchored
    <3> QED BY <2>1, <3>1, <3>2 DEF Succeeds
  <2>4. /\ task' \in [Steps -> Progress] /\ task'[s].phase = "saved"
        /\ task'[s].outcome = task[s].outcome /\ \A t \in Steps : t # s => task'[t] = task[t]
    BY <2>1, AdvanceType
  <2>5. task[s].phase \in Segment
    BY <2>1 DEF Segment
  <2> QED BY <1>1, <2>1, <2>3, <2>4, <2>5, BatchMoveType
<1>6. CASE VerifyStep(s)
  <2> DEFINE passed == Succeeds(s, task[s].outcome)
  <2>1. /\ task[s].phase = "saved"
        /\ step' = [step EXCEPT ![s] = IF passed THEN "passed"
                                        ELSE FailedStepStatus(task[s].outcome)]
        /\ Advance(s, IF passed THEN "done" ELSE "verified")
        /\ upset' \subseteq upset \cup {"batch"} /\ verified' \subseteq verified \cup {s}
        /\ UNCHANGED <<status, cp, past, open, facts, exec, proven, budgets, late>>
    BY <1>6 DEF VerifyStep
  <2>2. FailedStepStatus(task[s].outcome) \in StepStatus
    BY DEF FailedStepStatus, StepStatus
  <2>3. step' \in [Steps -> StepStatus]
    BY <1>1, <2>1, <2>2 DEF StepStatus
  <2>4. /\ task' \in [Steps -> Progress] /\ task'[s].phase \in {"done", "verified"}
        /\ task'[s].outcome = task[s].outcome /\ \A t \in Steps : t # s => task'[t] = task[t]
    <3>1. PICK phase \in {"done", "verified"} : Advance(s, phase)
      BY <2>1
    <3> QED BY <3>1, AdvanceType DEF Phases
  <2>5. task[s].phase \in Segment /\ task[s].outcome # "none"
    BY <1>1, <2>1 DEF Segment
  <2>6. \A t \in Steps : t # s => task[t].phase \notin Segment
    BY <1>1, <2>5
  <2>7. upset' \subseteq {"crash", "control", "batch", "answer"}
    BY <1>1, <2>1
  <2> QED BY <1>1, <2>1, <2>3, <2>4, <2>5, <2>6, <2>7, BatchMoveType
<1>7. CASE SettleStep(s)
  <2>1. /\ task[s].phase = "verified"
        /\ status' = RuntimeStatus(status, FailureStatus(task[s].outcome))
        /\ Advance(s, IF status' = FailureStatus(task[s].outcome) /\ task[s].outcome = "confirm"
                      THEN "settled" ELSE "done")
        /\ UNCHANGED <<step, open, facts, proven, verified, cp, past, exec, budgets,
                       upset, late>>
    BY <1>7 DEF SettleStep, history
  <2>2. status' \in TaskRunStatus
    <3>1. FailureStatus(task[s].outcome) \in TaskRunStatus
      BY DEF FailureStatus, TaskRunStatus
    <3> QED BY <1>1, <2>1, <3>1, RuntimeStatusType
  <2>3. /\ task' \in [Steps -> Progress] /\ task'[s].phase \in {"done", "settled"}
        /\ task'[s].outcome = task[s].outcome /\ \A t \in Steps : t # s => task'[t] = task[t]
    <3>1. PICK phase \in {"done", "settled"} : Advance(s, phase)
      BY <2>1
    <3> QED BY <3>1, AdvanceType DEF Phases
  <2>4. task[s].phase \in Segment /\ task[s].outcome # "none"
    BY <1>1, <2>1 DEF Segment
  <2>5. \A t \in Steps : t # s => task[t].phase \notin Segment
    BY <1>1, <2>4
  <2> QED BY <1>1, <2>1, <2>2, <2>3, <2>4, <2>5, BatchMoveType
<1>8. CASE OpenInteraction(s)
  <2> DEFINE anchored == Numbered("ask_user", s, {})
  <2>1. /\ task[s].phase = "settled" /\ TokenLeft /\ Advance(s, "done") /\ "done" \in Phases
        /\ open' = open \cup {anchored} /\ cp' \in {cp, anchored}
        /\ UNCHANGED <<status, step, past, facts, exec, proven, verified, budgets, upset,
                       late>>
    BY <1>8 DEF OpenInteraction, Numbered, Phases
  <2>2. anchored \in Checkpoint /\ Anchored(anchored)
    <3>1. anchored \in Checkpoint /\ anchored.action = "ask_user" /\ anchored.step = s
      BY <2>1, TokenType
    <3> QED BY <3>1 DEF Anchored
  <2> HIDE DEF anchored
  <2>3. /\ open' \subseteq Checkpoint /\ IsFiniteSet(open') /\ cp' \in Checkpoint
        /\ past' \subseteq Checkpoint /\ \A i \in open' \cup past' \cup {cp'} : Anchored(i)
    BY <1>1, <2>1, <2>2, FS_AddElement
  <2>4. /\ task' \in [Steps -> Progress] /\ task'[s].phase = "done"
        /\ task'[s].outcome = task[s].outcome /\ \A t \in Steps : t # s => task'[t] = task[t]
    BY <2>1, AdvanceType
  <2>5. task[s].outcome # "none" /\ "done" \notin Segment
    BY <1>1, <2>1 DEF Segment
  <2> QED BY <1>1, <2>1, <2>2, <2>3, <2>4, <2>5, BatchMoveType
<1> QED BY <1>3, <1>4, <1>5, <1>6, <1>7, <1>8 DEF StepOfBatch

LEMMA EndBatchType == TypeInv /\ EndBatch => TypeInv'
<1> SUFFICES ASSUME TypeInv, EndBatch PROVE TypeInv'
  OBVIOUS
<1> DEFINE ran == {s \in Steps : task[s].phase = "done"}
<1>1. /\ exec.pc = "batch" /\ task' = NoTasks
      /\ exec' = Idle \/ exec' = [exec EXCEPT !.pc = "loop", !.local = @ \cup ran,
                                              !.queue = <<>>, !.confirmed = FALSE, !.again = FALSE]
      /\ UNCHANGED <<status, step, open, facts, proven, verified, cp, past, budgets,
                     upset, late>>
  BY DEF EndBatch, history
<1>2. exec' \in Executor /\ exec'.pc \in {"idle", "loop"} /\ (exec'.pc = "idle" => exec' = Idle)
  <2>1. CASE exec' = Idle
    BY <2>1, IdleType, FreshType DEF Pcs
  <2>2. CASE exec' = [exec EXCEPT !.pc = "loop", !.local = @ \cup ran,
                                  !.queue = <<>>, !.confirmed = FALSE, !.again = FALSE]
    BY <2>2, EmptySeq DEF TypeInv, TypeOK, Executor
  <2> QED BY <1>1, <2>1, <2>2
<1>3. /\ task' \in [Steps -> Progress]
      /\ \A s \in Steps : task'[s].phase = "none" /\ task'[s].outcome = "none"
  BY <1>1, IdleType DEF NoTasks, NoTask
<1>4. TypeOK'
  BY <1>1, <1>2, <1>3 DEF TypeInv, TypeOK, budgets
<1> QED BY <1>1, <1>2, <1>3, <1>4 DEF TypeInv, Segment

\* The steps of Next, as the proofs below take them.
LEMMA Actions ==
    Next =>
        \/ Run \/ Move \/ Start \/ Answering \/ Evaluate \/ EndBatch \/ Crash
        \/ \E s \in Steps : StepOfBatch(s)
        \/ \E target \in {"paused", "running", "cancelled"} : Control(target)
  BY DEF Next, WorkerTick, ExecutorStep, Move, Start, Answering

LEMMA TypeStep == TypeInv /\ [Next]_vars => TypeInv'
<1>1. TypeInv /\ UNCHANGED vars => TypeInv'
  BY DEF TypeInv, TypeOK, vars
<1> QED BY <1>1, Actions, RunType, MovesType, StartsType, AnswerType, EvaluateType,
           BatchStepType, EndBatchType, ControlType, CrashType

\* Whatever a run is put through, its state stays well typed.
THEOREM TypeCorrect == Spec => []TypeOK
<1>1. TypeInv => TypeOK
  BY DEF TypeInv
<1> QED BY <1>1, TypeInit, TypeStep, PTL DEF Spec

-----------------------------------------------------------------------------
(***************************************************************************)
(* What each step of a batch changes, step by step of the plan.            *)
(***************************************************************************)
Others(s) == \A t \in Steps : t # s => task'[t] = task[t] /\ step'[t] = step[t]

LEMMA StartStepEffect ==
    ASSUME TypeInv, NEW s \in Steps, StartStep(s)
    PROVE  /\ task[s].phase = "queued" /\ task'[s].phase = "calling" /\ task'[s].outcome = "none"
           /\ step'[s] = "running" /\ Others(s)
           /\ UNCHANGED <<status, cp, past, open, facts, exec, proven, verified, budgets,
                          upset, late>>
<1>1. /\ task[s].phase = "queued" /\ Advance(s, "calling")
      /\ step' = [step EXCEPT ![s] = "running"]
      /\ UNCHANGED <<status, cp, past, open, facts, exec, proven, verified, budgets,
                     upset, late>>
  BY DEF StartStep
<1>2. task[s].outcome = "none" /\ step \in [Steps -> StepStatus]
  BY <1>1 DEF TypeInv, TypeOK
<1> QED BY <1>1, <1>2, AdvanceType DEF Phases, Others

LEMMA ToolReturnsEffect ==
    ASSUME TypeInv, NEW s \in Steps, NEW outcome \in Outcomes(s, exec.confirmed),
           ToolReturns(s, outcome)
    PROVE  /\ task[s].phase = "calling" /\ task'[s].phase = "recorded"
           /\ task'[s].outcome = outcome /\ outcome \in {"ok", "confirm"} \cup FailureKinds
           /\ Others(s)
           /\ facts.evidence \subseteq facts'.evidence
           /\ facts.evidence \subseteq proven => facts'.evidence \subseteq proven'
           /\ proven \subseteq proven'
           /\ facts'.claimed = facts.claimed /\ facts'.tests = facts.tests
           /\ facts'.approvals = facts.approvals /\ facts'.fresh = facts.fresh
           /\ UNCHANGED <<status, step, cp, past, open, exec, verified, budgets, upset,
                          late>>
<1>1. /\ task[s].phase = "calling" /\ outcome \in Outcomes(s, exec.confirmed)
      /\ task' = [task EXCEPT ![s] = [phase |-> "recorded", outcome |-> outcome]]
      /\ proven' = IF outcome = "ok" THEN proven \cup {s} ELSE proven
      /\ UNCHANGED <<status, step, cp, past, open, exec, verified, budgets, upset, late>>
  BY DEF ToolReturns
<1>2. task \in [Steps -> Progress] /\ step \in [Steps -> StepStatus] /\ facts \in Facts
  BY DEF TypeInv, TypeOK
<1>3. outcome \in {"ok", "confirm"} \cup FailureKinds
  BY <1>1, PlanAssumption DEF Outcomes
<1>4. PICK brought \in SUBSET {s} :
          facts' = [facts EXCEPT !.evidence = IF outcome = "ok" THEN @ \cup brought ELSE @]
  BY DEF ToolReturns, IsEvidence
<1>5. /\ facts'.evidence = IF outcome = "ok" THEN facts.evidence \cup brought ELSE facts.evidence
      /\ facts'.claimed = facts.claimed /\ facts'.tests = facts.tests
      /\ facts'.approvals = facts.approvals /\ facts'.fresh = facts.fresh
  BY <1>2, <1>4 DEF Facts
<1> QED BY <1>1, <1>2, <1>3, <1>5 DEF Others

LEMMA SaveCheckpointEffect ==
    ASSUME TypeInv, NEW s \in Steps, SaveCheckpoint(s)
    PROVE  /\ task[s].phase = "recorded" /\ task'[s].phase = "saved"
           /\ task'[s].outcome = task[s].outcome
           /\ task[s].outcome \in {"ok", "confirm"} \cup FailureKinds
           /\ Others(s)
           /\ cp' = IF Failed(s) THEN CheckpointOf(RecoveryAction(task[s].outcome), s, {})
                    ELSE NoFailure
           /\ past' \subseteq past \cup {cp}
           /\ UNCHANGED <<status, step, open, facts, proven, verified, exec, budgets,
                          upset, late>>
<1>1. /\ task[s].phase = "recorded" /\ Advance(s, "saved") /\ past' \subseteq past \cup {cp}
      /\ cp' = IF Succeeds(s, task[s].outcome) THEN NoFailure
               ELSE CheckpointOf(RecoveryAction(task[s].outcome), s, {})
      /\ UNCHANGED <<status, step, open, facts, proven, verified, exec, budgets, upset,
                     late>>
  BY SaveType DEF SaveCheckpoint, history
<1>2. task[s].outcome # "none" /\ task[s].outcome \in {"none", "ok", "confirm"} \cup FailureKinds
  BY <1>1 DEF TypeInv, TypeOK, Progress
<1> QED BY <1>1, <1>2, AdvanceType DEF Phases, Others, Failed

LEMMA VerifyStepEffect ==
    ASSUME TypeInv, NEW s \in Steps, VerifyStep(s)
    PROVE  /\ task[s].phase = "saved"
           /\ task'[s].phase = IF Failed(s) THEN "verified" ELSE "done"
           /\ task'[s].outcome = task[s].outcome
           /\ task[s].outcome \in {"ok", "confirm"} \cup FailureKinds
           /\ step'[s] = IF Failed(s) THEN FailedStepStatus(task[s].outcome) ELSE "passed"
           /\ verified' = IF Failed(s) THEN verified ELSE verified \cup {s}
           /\ Others(s) /\ upset \subseteq upset'
           /\ "answer" \in upset' <=> "answer" \in upset
           /\ UNCHANGED <<status, cp, past, open, facts, exec, proven, budgets, late>>
<1>1. task[s].phase = "saved" /\ UNCHANGED <<status, cp, past, open, facts, exec, proven,
                                             budgets, late>>
  BY DEF VerifyStep
<1>2. task[s].outcome # "none" /\ task[s].outcome \in {"none", "ok", "confirm"} \cup FailureKinds
  BY <1>1 DEF TypeInv, TypeOK, Progress
<1>3. Failed(s) <=> ~ Succeeds(s, task[s].outcome)
  BY <1>2 DEF Failed
<1>4. Advance(s, IF Failed(s) THEN "verified" ELSE "done")
  BY <1>3 DEF VerifyStep
<1>5. step' = [step EXCEPT ![s] = IF Failed(s) THEN FailedStepStatus(task[s].outcome) ELSE "passed"]
  BY <1>3 DEF VerifyStep
<1>6. (IF Failed(s) THEN "verified" ELSE "done") \in Phases
  BY DEF Phases
<1>7. /\ upset \subseteq upset' /\ ("answer" \in upset' <=> "answer" \in upset)
      /\ verified' = IF Failed(s) THEN verified ELSE verified \cup {s}
  BY <1>3 DEF VerifyStep
<1>8. step \in [Steps -> StepStatus]
  BY DEF TypeInv, TypeOK
<1> QED BY <1>1, <1>2, <1>4, <1>5, <1>6, <1>7, <1>8, AdvanceType DEF Others

LEMMA SettleStepEffect ==
    ASSUME TypeInv, NEW s \in Steps, SettleStep(s)
    PROVE  /\ task[s].phase = "verified" /\ task'[s].phase \in {"settled", "done"}
           /\ task'[s].phase = "settled" => task[s].outcome = "confirm"
           /\ task'[s].outcome = task[s].outcome
           /\ status' = RuntimeStatus(status, FailureStatus(task[s].outcome))
           /\ FailureStatus(task[s].outcome) \in {"waiting_user", "recovering", "failed"}
           /\ Others(s)
           /\ UNCHANGED <<step, open, facts, proven, verified, cp, past, exec, budgets,
                          upset, late>>
<1>1. /\ task[s].phase = "verified"
      /\ status' = RuntimeStatus(status, FailureStatus(task[s].outcome))
      /\ UNCHANGED <<step, open, facts, proven, verified, cp, past, exec, budgets, upset,
                     late>>
  BY DEF SettleStep, history
<1>2. PICK phase \in {"settled", "done"} :
          Advance(s, phase) /\ (phase = "settled" => task[s].outcome = "confirm")
  BY DEF SettleStep
<1>3. FailureStatus(task[s].outcome) \in {"waiting_user", "recovering", "failed"}
  BY DEF FailureStatus
<1> QED BY <1>1, <1>2, <1>3, AdvanceType DEF Phases, Others

LEMMA OpenInteractionEffect ==
    ASSUME TypeInv, NEW s \in Steps, OpenInteraction(s)
    PROVE  /\ task[s].phase = "settled" /\ task'[s].phase = "done"
           /\ task'[s].outcome = task[s].outcome
           /\ Others(s) /\ TokenLeft
           /\ open' = open \cup {Numbered("ask_user", s, {})}
           /\ cp' = IF cp = CheckpointOf("ask_user", s, {})
                    THEN Numbered("ask_user", s, {}) ELSE cp
           /\ UNCHANGED <<status, step, past, facts, exec, proven, verified, budgets,
                          upset, late>>
<1>1. /\ task[s].phase = "settled" /\ Advance(s, "done") /\ TokenLeft
      /\ open' = open \cup {Numbered("ask_user", s, {})}
      /\ cp' = IF cp = CheckpointOf("ask_user", s, {})
               THEN Numbered("ask_user", s, {}) ELSE cp
      /\ UNCHANGED <<status, step, past, facts, exec, proven, verified, budgets, upset,
                     late>>
  BY DEF OpenInteraction, Numbered
<1> QED BY <1>1, AdvanceType DEF Phases, Others

-----------------------------------------------------------------------------
(***************************************************************************)
(* The projection of a step and its place in the batch: StepInv.           *)
(***************************************************************************)
\* Steps that start nothing: no step of the plan moves, or all leave the batch.
LEMMA StepFrame ==
    ASSUME StepInv, UNCHANGED <<step, verified>>, upset \subseteq upset',
           \A s \in Steps : \/ task'[s].phase = "none"
                            \/ task'[s] = task[s] /\ UNCHANGED exec,
           \A i \in open' : i \in open \/ i.step = 0
    PROVE  StepInv'
<1> SUFFICES ASSUME NEW s \in Steps PROVE StepOk(s)'
  BY DEF StepInv
<1>1. StepOk(s) /\ (Unasked(s) => Unasked(s)')
  BY NumStepsType DEF StepInv, Unasked
<1>2. CASE task'[s] = task[s] /\ UNCHANGED exec
  <2>1. Startable(s) => Startable(s)'
    BY <1>1, <1>2 DEF Startable
  <2>2. Failed(s)' <=> Failed(s)
    BY <1>2 DEF Failed
  <2> QED BY <1>1, <1>2, <2>1, <2>2 DEF StepOk
<1>3. CASE task'[s].phase = "none"
  BY <1>1, <1>3 DEF StepOk, Called, Judged
<1> QED BY <1>2, <1>3

\* What an executor with its `confirmed' set may start: Startable, of the executor
\* that is about to be.
MayStart(s, confirmed) ==
    /\ step[s] = "passed" => confirmed /\ "answer" \in upset
    /\ Deps[s] \subseteq verified
    /\ "answer" \notin upset => Unasked(s)

\* A batch that starts is made of startable steps.
LEMMA StepStart ==
    ASSUME TypeInv, StepInv, NEW queue, IsBatch(queue), NEW confirmed \in BOOLEAN,
           NEW again \in BOOLEAN, Queue(queue, confirmed, again),
           \A i \in 1 .. Len(queue) : MayStart(queue[i], confirmed),
           UNCHANGED <<step, open, verified, upset>>
    PROVE  StepInv'
<1> SUFFICES ASSUME NEW s \in Steps PROVE StepOk(s)'
  BY DEF StepInv
<1>1. StepOk(s) /\ exec'.confirmed = confirmed
  BY QueueType DEF StepInv
<1>2. \/ task'[s].phase = "queued" /\ \E i \in 1 .. Len(queue) : queue[i] = s
      \/ task'[s].phase = "none"
  BY QueueType
<1>3. CASE task'[s].phase = "queued" /\ \E i \in 1 .. Len(queue) : queue[i] = s
  <2>1. MayStart(s, confirmed) /\ (Unasked(s) => Unasked(s)')
    BY <1>3 DEF Unasked
  <2>2. Startable(s)'
    BY <1>1, <2>1 DEF MayStart, Startable
  <2> QED BY <1>1, <1>3, <2>1, <2>2 DEF StepOk, Called, Judged, MayStart
<1>4. CASE task'[s].phase = "none"
  BY <1>1, <1>4 DEF StepOk, Called, Judged
<1> QED BY <1>2, <1>3, <1>4

\* A step of a batch: what it does to its own step is right, and what the other
\* steps rest on stays.
LEMMA StepBatch ==
    ASSUME TypeInv, StepInv, NEW s \in Steps, Others(s), UNCHANGED exec,
           verified \subseteq verified', upset \subseteq upset',
           \A t \in Steps : t # s /\ Unasked(t) => Unasked(t)', StepOk(s)'
    PROVE  StepInv'
<1> SUFFICES ASSUME NEW t \in Steps, t # s PROVE StepOk(t)'
  BY DEF StepInv
<1>1. StepOk(t) /\ task'[t] = task[t] /\ step'[t] = step[t] /\ (Unasked(t) => Unasked(t)')
  BY DEF StepInv, Others
<1>2. Startable(t) => Startable(t)'
  BY <1>1 DEF Startable
<1>3. Failed(t)' <=> Failed(t)
  BY <1>1 DEF Failed
<1> QED BY <1>1, <1>2, <1>3 DEF StepOk

LEMMA StepOfBatchStep ==
    ASSUME TypeInv, StepInv, NEW s \in Steps, StepOfBatch(s)
    PROVE  StepInv'
<1>1. StepOk(s)
  BY DEF StepInv
<1>2. UNCHANGED open => \A t \in Steps : Unasked(t) => Unasked(t)'
  BY DEF Unasked
<1>3. CASE StartStep(s)
  <2>1. /\ task[s].phase = "queued" /\ task'[s].phase = "calling" /\ step'[s] = "running"
        /\ Others(s) /\ UNCHANGED <<open, exec, verified, upset>>
    BY <1>3, StartStepEffect
  <2>2. Startable(s)
    BY <1>1, <2>1 DEF StepOk
  <2>3. StepOk(s)'
    BY <1>2, <2>1, <2>2 DEF StepOk, Startable, Called, Judged
  <2> QED BY <1>2, <2>1, <2>3, StepBatch
<1>4. ASSUME NEW outcome \in Outcomes(s, exec.confirmed), ToolReturns(s, outcome)
      PROVE  StepInv'
  <2>1. /\ task[s].phase = "calling" /\ task'[s].phase = "recorded"
        /\ Others(s) /\ UNCHANGED <<open, step, exec, verified, upset>>
    BY <1>4, ToolReturnsEffect
  <2>2. StepOk(s)'
    BY <1>1, <1>2, <2>1 DEF StepOk, Called, Judged
  <2> QED BY <1>2, <2>1, <2>2, StepBatch
<1>5. CASE SaveCheckpoint(s)
  <2>1. /\ task[s].phase = "recorded" /\ task'[s].phase = "saved"
        /\ Others(s) /\ UNCHANGED <<open, step, exec, verified, upset>>
    BY <1>5, SaveCheckpointEffect
  <2>2. StepOk(s)'
    BY <1>1, <1>2, <2>1 DEF StepOk, Called, Judged
  <2> QED BY <1>2, <2>1, <2>2, StepBatch
<1>6. CASE VerifyStep(s)
  <2>1. /\ task[s].phase = "saved"
        /\ task'[s].phase = IF Failed(s) THEN "verified" ELSE "done"
        /\ task'[s].outcome = task[s].outcome
        /\ step'[s] = IF Failed(s) THEN FailedStepStatus(task[s].outcome) ELSE "passed"
        /\ verified' = IF Failed(s) THEN verified ELSE verified \cup {s}
        /\ Others(s) /\ UNCHANGED <<open, exec>>
        /\ upset \subseteq upset' /\ ("answer" \in upset' <=> "answer" \in upset)
    BY <1>6, VerifyStepEffect
  <2>2. step[s] = "running" /\ Deps[s] \subseteq verified /\ ("answer" \notin upset => Unasked(s))
    BY <1>1, <2>1 DEF StepOk, Called
  <2>3. Failed(s)' <=> Failed(s)
    BY <2>1 DEF Failed
  <2>4. FailedStepStatus(task[s].outcome) # "passed"
    BY DEF FailedStepStatus
  <2>5. StepOk(s)'
    BY <1>2, <2>1, <2>2, <2>3, <2>4 DEF StepOk, Called, Judged
  <2> QED BY <1>2, <2>1, <2>5, StepBatch
<1>7. CASE SettleStep(s)
  <2>1. /\ task[s].phase = "verified" /\ task'[s].phase \in {"settled", "done"}
        /\ task'[s].phase = "settled" => task[s].outcome = "confirm"
        /\ task'[s].outcome = task[s].outcome
        /\ Others(s) /\ UNCHANGED <<open, step, exec, verified, upset>>
    BY <1>7, SettleStepEffect
  <2>2. Failed(s)' <=> Failed(s)
    BY <2>1 DEF Failed
  <2>3. StepOk(s)'
    BY <1>1, <1>2, <2>1, <2>2 DEF StepOk, Called, Judged
  <2> QED BY <1>2, <2>1, <2>3, StepBatch
<1>8. CASE OpenInteraction(s)
  <2>1. /\ task[s].phase = "settled" /\ task'[s].phase = "done" /\ TokenLeft
        /\ task'[s].outcome = task[s].outcome
        /\ Others(s) /\ open' = open \cup {Numbered("ask_user", s, {})}
        /\ UNCHANGED <<step, exec, verified, upset>>
    BY <1>8, OpenInteractionEffect
  <2>2. Numbered("ask_user", s, {}).step = s
    BY <2>1, TokenType
  <2>3. \A t \in Steps : t # s /\ Unasked(t) => Unasked(t)'
    BY <2>1, <2>2 DEF Unasked
  <2>4. Failed(s)' <=> Failed(s)
    BY <2>1 DEF Failed
  <2>5. StepOk(s)'
    BY <1>1, <2>1, <2>4 DEF StepOk, Called, Judged
  <2> QED BY <2>1, <2>3, <2>5, StepBatch
<1> QED BY <1>3, <1>4, <1>5, <1>6, <1>7, <1>8 DEF StepOfBatch

-----------------------------------------------------------------------------
(***************************************************************************)
(* What the steps outside a batch change.                                  *)
(***************************************************************************)
Review == CheckpointOf("manual_review", 0, {})

LEMMA MoveEffect ==
    ASSUME TypeInv, Move
    PROVE  /\ UNCHANGED <<step, open, facts, proven, verified, task, budgets, upset, late>>
           /\ cp' = cp \/ cp' = Review
           /\ past' \subseteq past \cup {cp}
           /\ exec.pc # "batch" /\ \A s \in Steps : task'[s].phase = "none"
           /\ \/ exec' = Idle
              \/ exec'.pc = "recover" /\ ~exec'.inProcess /\ status' = "running"
                 /\ status # "cancelled"
              \/ exec'.pc = "pack" /\ exec.pc = "loop" /\ status \notin OperatorStop
                 /\ exec'.inProcess = exec.inProcess /\ exec'.local = exec.local
                 /\ status' = status
              \/ exec'.pc = "finish" /\ exec.pc = "pack"
                 /\ exec'.inProcess = exec.inProcess /\ exec'.local = exec.local
                 /\ status' = status
              \/ exec'.pc = "stalled" /\ ~exec'.inProcess /\ exec.pc = "pack"
                 /\ status' = status
<1>1. exec \in Executor /\ (exec.pc = "idle" => exec = Idle) /\ Idle.pc = "idle"
  BY FreshType DEF TypeInv, TypeOK, Pcs
<1>2. exec.pc # "batch" /\ UNCHANGED task => \A s \in Steps : task'[s].phase = "none"
  BY DEF TypeInv, NoTasks, NoTask
<1>3. CASE ResumeIncomplete
  <2>1. exec'.pc = "recover" /\ ~exec'.inProcess
    BY <1>3, FreshType DEF ResumeIncomplete, Pcs
  <2> QED BY <1>3, <1>2, <2>1 DEF ResumeIncomplete, history
<1>4. CASE ResumeRefused
  BY <1>1, <1>4, <1>2 DEF ResumeRefused, history
<1>5. CASE CheckStop
  <2>1. CASE status \in OperatorStop
    BY <1>5, <1>2, <2>1 DEF CheckStop, history
  <2>2. CASE status \notin OperatorStop
    <3>1. Goto("pack") /\ exec.pc = "loop"
          /\ UNCHANGED <<status, step, open, facts, proven, verified, cp, past, task,
                         budgets, upset, late>>
      BY <1>5, <2>2 DEF CheckStop, history
    <3> QED BY <1>1, <1>2, <2>2, <3>1, GotoType DEF Pcs
  <2> QED BY <2>1, <2>2
<1>6. CASE AllPassed
  <2>1. Goto("finish") /\ exec.pc = "pack"
        /\ UNCHANGED <<status, step, open, facts, proven, verified, cp, past, task,
                       budgets, upset, late>>
    BY <1>6 DEF AllPassed, history
  <2> QED BY <1>1, <1>2, <2>1, GotoType DEF Pcs
<1>7. CASE WaitForUser
  BY <1>7, <1>2 DEF WaitForUser, history
<1>8. CASE Stalled
  <2>1. Goto("stalled") /\ exec.pc = "pack" /\ ~exec.inProcess /\ cp' = Review
        /\ past' \subseteq past \cup {cp}
        /\ UNCHANGED <<status, step, open, facts, proven, verified, task, budgets, upset,
                       late>>
    BY <1>8, SaveType DEF Stalled, Stall, Review, history
  <2> QED BY <1>1, <1>2, <2>1, GotoType DEF Pcs
<1>9. CASE FailStalled
  BY <1>9, <1>2 DEF FailStalled, history
<1>10. CASE Conclude
  BY <1>10, <1>2 DEF Conclude, history
<1> QED BY <1>3, <1>4, <1>5, <1>6, <1>7, <1>8, <1>9, <1>10 DEF Move

\* A batch of startable steps is queued; of `run', of steps not in its account.
Begins ==
    \E queue \in Seq(Steps), confirmed \in BOOLEAN, again \in BOOLEAN :
        /\ IsBatch(queue) /\ Queue(queue, confirmed, again) /\ UNCHANGED <<cp, past>>
        /\ \A i \in 1 .. Len(queue) :
              /\ MayStart(queue[i], confirmed)
              /\ exec.inProcess => step[queue[i]] = "pending" /\ queue[i] \notin exec.local

\* A batch on its way that does not come to be: the run is left, or goes on.
Declines ==
    /\ UNCHANGED <<task, late>> /\ (cp' = cp \/ cp' = Review)
    /\ past' \subseteq past \cup {cp}
    /\ exec'.pc \in {"idle", "loop", "stalled"}
    /\ ~exec'.inProcess

\* A step that has begun may be started again, one that has passed if an answer
\* named it.
LEMMA BegunStartable ==
    ASSUME TypeInv, StepInv, NEW s \in Steps, NEW confirmed \in BOOLEAN,
           "answer" \notin upset => Unasked(s), step[s] # "pending",
           step[s] = "passed" => confirmed /\ "answer" \in upset
    PROVE  MayStart(s, confirmed)
  BY DEF StepInv, StepOk, MayStart

LEMMA RestartEffect ==
    ASSUME TypeInv, NEW s \in Steps, NEW confirmed \in BOOLEAN, NEW again \in BOOLEAN,
           Restart(s, confirmed, again), MayStart(s, confirmed), ~exec.inProcess,
           UNCHANGED <<cp, past>>
    PROVE  /\ Begins \/ Declines
           /\ exec'.pc # "idle" => status' = "running"
<1>1. CASE status' = "running"
  <2>1. Queue(<<s>>, confirmed, again) /\ IsBatch(<<s>>) /\ <<s>> \in Seq(Steps)
    BY <1>1, SingleIsBatch DEF Restart
  <2>2. \A i \in 1 .. Len(<<s>>) : <<s>>[i] = s
    OBVIOUS
  <2>3. \A i \in 1 .. Len(<<s>>) : MayStart(<<s>>[i], confirmed)
    BY <2>2, Zenon
  <2> QED BY <1>1, <2>1, <2>3 DEF Begins
<1>2. CASE status' # "running"
  <2>1. exec' = Idle /\ UNCHANGED <<task, late>>
    BY <1>2 DEF Restart
  <2> QED BY <2>1, FreshType DEF Declines, Pcs
<1> QED BY <1>1, <1>2

LEMMA StartEffect ==
    ASSUME IInv, Start
    PROVE  /\ UNCHANGED <<step, open, facts, proven, verified, budgets, upset>>
           /\ Begins \/ Declines
           /\ exec.pc # "batch" /\ (status' = status \/ status' = "running")
           /\ exec'.pc # "idle" =>
                 status' = "running" \/ (status' = status /\ exec.pc \in {"recover", "pack"})
<1>1. /\ TypeInv /\ StepInv /\ LocalInv /\ AnchorInv
      /\ exec \in Executor /\ (exec.pc = "idle" => exec = Idle) /\ ~Idle.inProcess
  BY FreshType DEF IInv, TypeInv, TypeOK, Pcs
<1>2. /\ UNCHANGED <<step, open, facts, proven, verified, budgets, upset>>
      /\ exec.pc # "batch" /\ (status' = status \/ status' = "running")
  BY DEF Start, RecoverRunning, ResumeFromCheckpoint, Approved, NextBatch, history, Restart,
         RuntimeStatus
<1>3. CASE RecoverRunning
  <2> DEFINE running == ContextPack.running
  <2>1. /\ ~exec.inProcess /\ running \in SUBSET Steps
        /\ exec.pc = "recover" /\ UNCHANGED status
    BY <1>1, <1>3 DEF RecoverRunning, LocalInv, ContextPack
  <2>2. \A s \in running : MayStart(s, FALSE)
    <3> SUFFICES ASSUME NEW s \in running PROVE MayStart(s, FALSE)
      OBVIOUS
    <3>1. Projected[s] = "running" /\ s \in Steps
      BY DEF ContextPack
    <3>2. step[s] = "running" /\ Unasked(s)
      BY <3>1 DEF Projected, Unasked
    <3> QED BY <1>1, <3>1, <3>2, BegunStartable
  <2>3. CASE Goto("loop") /\ UNCHANGED <<cp, past, task, late>>
    BY <1>1, <1>2, <2>1, <2>3, GotoType DEF Declines, Pcs
  <2>4. CASE /\ running # {}
             /\ Cardinality(running) = 1 \/ running \subseteq ParallelSafe
             /\ Queue(TopologicalOrder(running), FALSE, FALSE) /\ UNCHANGED <<cp, past>>
    <3> HIDE DEF running
    <3> DEFINE seq == TopologicalOrder(running)
    <3>1. IsBatch(seq) /\ \A i \in 1 .. Len(seq) : seq[i] \in running
      BY <2>1, <2>4, RecoveredBatch
    <3> HIDE DEF seq
    <3>2. \A i \in 1 .. Len(seq) : MayStart(seq[i], FALSE)
      BY <2>2, <3>1
    <3>3. seq \in Seq(Steps) /\ Queue(seq, FALSE, FALSE)
      BY <2>4, <3>1 DEF IsBatch, seq
    <3> QED BY <1>2, <2>1, <2>4, <3>1, <3>2, <3>3 DEF Begins
  <2>5. CASE Stall /\ UNCHANGED <<task, late>>
    <3>1. cp' = Review /\ past' \subseteq past \cup {cp} /\ Goto("stalled")
      BY <1>1, <2>5, SaveType DEF Stall, Review
    <3> QED BY <1>1, <1>2, <2>1, <2>5, <3>1, GotoType DEF Declines, Pcs
  <2> QED BY <1>2, <1>3, <2>3, <2>4, <2>5 DEF RecoverRunning
<1>4. CASE ResumeFromCheckpoint
  <2>1. /\ Restart(cp.step, FALSE, FALSE) /\ cp.action = "retry" /\ exec.pc = "idle"
        /\ UNCHANGED <<cp, past>>
    BY <1>4 DEF ResumeFromCheckpoint, CanResume
  <2>2. cp.step \in Steps /\ cp.step # 0
    BY <1>1, <2>1, NumStepsType DEF TypeInv, Anchored
  <2>3. MayStart(cp.step, FALSE)
    BY <1>1, <2>1, <2>2, BegunStartable DEF AnchorInv, CheckpointAnchor
  <2> QED BY <1>1, <1>2, <2>1, <2>2, <2>3, RestartEffect
<1>5. CASE Approved
  <2>1. exec.pc = "approved" /\ UNCHANGED <<cp, past>>
    BY <1>5 DEF Approved
  <2>2. ~exec.inProcess
    BY <1>1, <2>1 DEF LocalInv
  <2>3. CASE exec.queue = <<>>
    <3>1. exec' = Idle \/ exec' = [Idle EXCEPT !.pc = "loop"]
      BY <1>5, <2>3 DEF Approved
    <3>2. UNCHANGED <<task, late>>
      BY <1>5, <2>3 DEF Approved
    <3>3. exec'.pc \in {"idle", "loop"} /\ ~exec'.inProcess
      <4>1. "loop" \in Pcs
        BY DEF Pcs
      <4>2. CASE exec' = Idle
        BY <4>1, <4>2, FreshType
      <4>3. CASE exec' = [Idle EXCEPT !.pc = "loop"]
        BY <4>1, <4>3, FreshType
      <4> QED
        BY <3>1, <4>2, <4>3
    <3>4. exec'.pc # "idle" => status' = "running"
      <4>1. exec' = IF status' = "running" THEN [Idle EXCEPT !.pc = "loop"] ELSE Idle
        BY <1>5, <2>3 DEF Approved
      <4> QED BY <4>1, FreshType DEF Pcs
    <3> QED BY <1>2, <2>1, <3>2, <3>3, <3>4 DEF Declines
  <2>4. CASE exec.queue # <<>>
    <3>1. PICK s \in Steps : exec.queue = <<s>>
      BY <1>1, <2>1, <2>4 DEF TypeInv
    <3>2. Restart(exec.queue[1], TRUE, exec.again)
      BY <1>5, <2>4 DEF Approved
    <3>3. exec.queue[1] = s
      BY <3>1
    <3>4. Restart(s, TRUE, exec.again)
      BY <3>2, <3>3, Zenon
    <3>5. exec.again \in BOOLEAN
      BY <1>1 DEF Executor
    <3>6. MayStart(s, TRUE)
      BY <1>1, <2>1, <2>4, <3>3, BegunStartable DEF AnchorInv, ApprovalAnchor
    <3> QED BY <1>1, <1>2, <2>1, <2>2, <3>4, <3>5, <3>6, RestartEffect
  <2> QED BY <2>3, <2>4
<1>6. CASE NextBatch
  <2> DEFINE batch == ExecutionBatch(Ready)
  <2>1. exec.pc = "pack" /\ Len(Ready) > 0 /\ Queue(batch, FALSE, FALSE)
        /\ UNCHANGED <<cp, past, status>>
        /\ (exec.inProcess \/ open = {})
    BY <1>6 DEF NextBatch, ContextPack
  <2>2. /\ IsBatch(batch) /\ batch \in Seq(Steps)
        /\ \A i \in 1 .. Len(batch) :
              batch[i] \in IF exec.inProcess THEN LocalFrontier ELSE Frontier(Projected)
    BY <2>1, ReadyBatch DEF IsBatch
  <2> HIDE DEF batch
  <2>3. ASSUME exec.inProcess, NEW s \in LocalFrontier
        PROVE  MayStart(s, FALSE) /\ step[s] = "pending" /\ s \notin exec.local
    <3>1. s \in Steps /\ s \notin exec.local /\ Deps[s] \subseteq exec.local
      BY <2>3 DEF LocalFrontier
    <3>2. \A t \in Steps : task[t].phase = "none"
      BY <1>1, <2>1 DEF TypeInv, NoTasks, NoTask
    <3>3. \A t \in Steps : step[t] = IF t \in exec.local THEN "passed" ELSE "pending"
      BY <1>1, <2>3, <3>2 DEF LocalInv
    <3>4. step[s] = "pending" /\ Deps[s] \subseteq verified
      BY <1>1, <3>1, <3>3, PlanAssumption DEF StepInv, StepOk
    <3>5. "answer" \notin upset => Unasked(s)
      BY <1>1, <3>1, <3>4, NumStepsType DEF AnchorInv, InteractionAnchor, Unasked
    <3> QED BY <3>1, <3>4, <3>5 DEF MayStart
  <2>4. ASSUME ~exec.inProcess, NEW s \in Frontier(Projected)
        PROVE  MayStart(s, FALSE)
    <3>1. /\ s \in Steps /\ Projected[s] = "pending"
          /\ \A d \in Deps[s] : d \in Steps /\ Projected[d] = "passed"
      BY PlanAssumption DEF Frontier
    <3>2. step[s] = "pending" /\ Deps[s] \subseteq verified
      BY <1>1, <3>1 DEF Projected, StepInv, StepOk
    <3>3. Unasked(s)
      BY <2>1, <2>4 DEF Unasked
    <3> QED BY <3>2, <3>3 DEF MayStart
  <2>5. \A i \in 1 .. Len(batch) :
            /\ MayStart(batch[i], FALSE)
            /\ exec.inProcess => step[batch[i]] = "pending" /\ batch[i] \notin exec.local
    BY <2>2, <2>3, <2>4
  <2> QED BY <1>2, <2>1, <2>2, <2>5 DEF Begins
<1> QED BY <1>3, <1>4, <1>5, <1>6 DEF Start

LEMMA RunEffect ==
    ASSUME TypeInv, Run
    PROVE  /\ UNCHANGED <<step, cp, past, open, task, proven, verified, budgets, upset,
                          late>>
           /\ facts'.evidence = facts.evidence
           /\ exec.pc = "submitted" /\ exec'.pc = "loop"
           /\ exec'.inProcess = exec.inProcess /\ exec'.local = exec.local
           /\ status' = RuntimeStatus(status, "running")
           /\ \A s \in Steps : task'[s].phase = "none"
<1>1. /\ exec.pc = "submitted" /\ Goto("loop") /\ status' = RuntimeStatus(status, "running")
      /\ UNCHANGED <<step, cp, past, open, task, proven, verified, budgets, upset, late>>
  BY DEF Run
<1>2. exec \in Executor /\ facts \in Facts
  BY DEF TypeInv, TypeOK
<1>3. facts'.evidence = facts.evidence
  <2>1. PICK claimed \in SUBSET RefsOf("evidence"), tests \in SUBSET RefsOf("test_result"),
             approvals \in SUBSET OfType("human_approval"),
             fresh \in {"absent", "fresh", "stale"} : RecordFacts(claimed, tests, approvals, fresh)
    BY DEF Run
  <2> QED BY <1>2, <2>1 DEF RecordFacts, Facts
<1>4. \A s \in Steps : task'[s].phase = "none"
  BY <1>1 DEF TypeInv, NoTasks, NoTask
<1> QED BY <1>1, <1>2, <1>3, <1>4, GotoType DEF Pcs

\* What every answer leaves as it is.
LEMMA AnswerLeaves ==
    ASSUME TypeInv, Answering
    PROVE  /\ UNCHANGED <<status, step, task, proven, verified, late>>
           /\ exec.pc = "idle" /\ exec'.pc = "approved" /\ exec'.inProcess = FALSE
           /\ open' \subseteq open /\ facts'.evidence = facts.evidence
           /\ facts.claimed \subseteq facts'.claimed /\ facts.tests \subseteq facts'.tests
           /\ facts.approvals \subseteq facts'.approvals /\ facts'.fresh = facts.fresh
           /\ upset \subseteq upset' /\ \A s \in Steps : task'[s].phase = "none"
           /\ cp'.step = cp.step /\ cp'.action = cp.action /\ cp'.blocked = cp.blocked
<1>1. cp \in Checkpoint /\ Anchored(cp)
  BY DEF TypeInv, TypeOK
<1>2. /\ UNCHANGED <<status, step, task, proven, verified, late>>
      /\ exec.pc = "idle" /\ exec'.pc = "approved" /\ exec'.inProcess = FALSE
      /\ open' \subseteq open /\ facts'.evidence = facts.evidence
      /\ facts.claimed \subseteq facts'.claimed /\ facts.tests \subseteq facts'.tests
      /\ facts.approvals \subseteq facts'.approvals /\ facts'.fresh = facts.fresh
      /\ upset \subseteq upset' /\ cp' \in {cp, [cp EXCEPT !.token = 0]}
  BY AnswerEffect
<1>3. \A s \in Steps : task'[s].phase = "none"
  BY <1>2 DEF TypeInv, NoTasks, NoTask
<1>4. cp'.step = cp.step /\ cp'.action = cp.action /\ cp'.blocked = cp.blocked
  BY <1>1, <1>2, Tokenless
<1> QED BY <1>2, <1>3, <1>4

\* A verdict comes with a checkpoint of its own, which names no step.
LEMMA EvaluateEffect ==
    ASSUME TypeInv, Evaluate
    PROVE  /\ UNCHANGED <<status, step, facts, task, proven, verified, budgets, upset,
                          late>>
           /\ exec.pc = "finish" /\ \A s \in Steps : task'[s].phase = "none"
           /\ \/ exec' = Idle /\ UNCHANGED <<cp, past, open>>
              \/ /\ exec'.pc = "verdict" /\ exec'.inProcess = exec.inProcess
                 /\ exec'.local = exec.local /\ \A s \in Steps : step[s] = "passed"
                 /\ cp'.step = 0 /\ cp'.action \in {"none", "stop"}
                 /\ past' \subseteq past \cup {cp}
                 /\ \/ open' = open
                    \/ /\ open' = open \cup {cp'} /\ cp'.token # 0
                       /\ \A i \in open : i.token # cp'.token
<1>1. exec.pc = "finish" /\ UNCHANGED <<status, step, facts, task, proven, verified,
                                        budgets, upset, late>>
      /\ \A s \in Steps : task'[s].phase = "none"
  BY DEF Evaluate, TypeInv, NoTasks, NoTask
<1>2. CASE ContextPack.incomplete # {}
  BY <1>1, <1>2 DEF Evaluate
<1>3. CASE ContextPack.incomplete = {}
  <2>1. \A s \in Steps : step[s] = "passed"
    BY <1>3 DEF ContextPack, Incomplete, Projected
  <2>2. Goto("verdict") /\ exec \in Executor
    BY <1>3 DEF Evaluate, TypeInv, TypeOK
  <2>3. exec'.pc = "verdict" /\ exec'.inProcess = exec.inProcess /\ exec'.local = exec.local
    BY <2>2, GotoType DEF Pcs
  <2>4. CASE open' = open /\ cp' \in {NoFailure, CheckpointOf("stop", 0, {})}
             /\ past' \subseteq past \cup {cp}
    BY <1>1, <2>1, <2>3, <2>4, CheckpointType DEF NoFailure
  <2>5. CASE /\ TokenLeft /\ open' = open \cup {cp'} /\ past' \subseteq past \cup {cp}
             /\ cp' = Numbered("none", 0, Blocked(facts))
    <3>1. Blocked(facts) \in SUBSET Criteria
      BY DEF Blocked
    <3>2. cp'.step = 0 /\ cp'.action = "none" /\ cp'.token = Token /\ Token # 0
          /\ \A i \in open : i.token # Token
      BY <2>5, <3>1, TokenType
    <3> QED BY <1>1, <2>1, <2>3, <2>5, <3>2
  <2>6. \A c : Save(c) => cp' = c /\ past' \subseteq past \cup {cp}
    BY SaveType
  <2> QED BY <1>3, <2>4, <2>5, <2>6 DEF Evaluate, Numbered
<1> QED BY <1>2, <1>3

LEMMA ControlEffect ==
    ASSUME TypeInv, NEW target \in {"paused", "running", "cancelled"}, Control(target)
    PROVE  /\ UNCHANGED <<step, open, facts, proven, verified, exec, task, late>>
           /\ cp'.step = 0 /\ cp'.action = "none" /\ past' \subseteq past \cup {cp}
           /\ upset \subseteq upset' /\ ("answer" \in upset' <=> "answer" \in upset)
           /\ status' = target /\ status # "cancelled"
<1>1. cp' = NoFailure /\ cp'.step = 0 /\ cp'.action = "none" /\ past' \subseteq past \cup {cp}
  BY CheckpointType, SaveType DEF Control, NoFailure
<1>2. status \in TaskRunStatus
  BY DEF TypeInv, TypeOK
<1> QED BY <1>1, <1>2 DEF Control, history, Allowed, TaskRunStatus, Terminal

LEMMA CrashEffect ==
    ASSUME Crash
    PROVE  /\ UNCHANGED <<status, step, open, facts, proven, verified, cp, past, late>>
           /\ exec' = Idle /\ upset' = upset \cup {"crash"}
           /\ \A s \in Steps : task'[s].phase = "none"
  BY DEF Crash, history, NoTasks, NoTask

LEMMA EndBatchEffect ==
    ASSUME TypeInv, EndBatch
    PROVE  /\ UNCHANGED <<status, step, open, facts, proven, verified, cp, past, budgets,
                          upset, late>>
           /\ exec.pc = "batch"
           /\ \A s \in Steps : task[s].phase \in {"none", "done"} /\ task'[s].phase = "none"
           /\ \/ exec' = Idle
              \/ /\ exec'.pc = "loop" /\ exec'.inProcess = exec.inProcess
                 /\ exec'.local = exec.local \cup {s \in Steps : task[s].phase = "done"}
                 /\ \A s \in Steps : task[s].phase = "done" => ~Failed(s)
<1>1. exec \in Executor
  BY DEF TypeInv, TypeOK
<1> QED BY <1>1 DEF EndBatch, history, NoTasks, NoTask, Executor

-----------------------------------------------------------------------------
(***************************************************************************)
(* The parts of the invariant, one after another.                          *)
(***************************************************************************)
LEMMA StepInvStep == IInv /\ [Next]_vars => StepInv'
<1> SUFFICES ASSUME IInv, [Next]_vars PROVE StepInv'
  OBVIOUS
<1>1. TypeInv /\ StepInv
  BY DEF IInv
<1>2. CASE UNCHANGED vars
  BY <1>1, <1>2, StepFrame DEF vars
<1>3. CASE Run
  BY <1>1, <1>3, RunEffect, StepFrame
<1>4. CASE Move
  BY <1>1, <1>4, MoveEffect, StepFrame
<1>5. CASE Start
  <2>1. UNCHANGED <<step, open, verified, upset>> /\ \A s \in Steps : task[s].phase = "none"
    BY <1>1, <1>5, StartEffect DEF TypeInv, NoTasks, NoTask
  <2>2. CASE Declines
    BY <1>1, <2>1, <2>2, StepFrame DEF Declines
  <2>3. CASE Begins
    BY <1>1, <2>1, <2>3, StepStart DEF Begins
  <2> QED BY <1>5, <2>2, <2>3, StartEffect
<1>6. CASE Evaluate
  BY <1>1, <1>6, EvaluateEffect, StepFrame
<1>7. CASE EndBatch
  BY <1>1, <1>7, EndBatchEffect, StepFrame
<1>8. CASE Crash
  BY <1>1, <1>8, CrashEffect, StepFrame
<1>9. CASE Answering
  BY <1>1, <1>9, AnswerLeaves, StepFrame
<1>10. ASSUME NEW s \in Steps, StepOfBatch(s) PROVE StepInv'
  BY <1>1, <1>10, StepOfBatchStep
<1>11. ASSUME NEW target \in {"paused", "running", "cancelled"}, Control(target) PROVE StepInv'
  BY <1>1, <1>11, ControlEffect, StepFrame
<1> QED BY <1>2, <1>3, <1>4, <1>5, <1>6, <1>7, <1>8, <1>9, <1>10, <1>11, Actions

\* What a step of a batch leaves of the batch.
LEMMA BatchPhases ==
    ASSUME TypeInv, NEW s \in Steps, StepOfBatch(s)
    PROVE  /\ Others(s) /\ UNCHANGED <<exec, late>> /\ exec.pc = "batch"
           /\ task[s].phase # "none" /\ task'[s].phase \notin {"none", "queued"}
           /\ step'[s] = step[s] \/ step'[s] # "pending"
           /\ past' \subseteq past \cup {cp}
           /\ upset \subseteq upset' /\ ("answer" \in upset' <=> "answer" \in upset)
<1>1. task[s].phase # "none" => exec.pc = "batch"
  BY InBatch
<1>2. CASE StartStep(s)
  BY <1>1, <1>2, StartStepEffect
<1>3. CASE \E outcome \in Outcomes(s, exec.confirmed) : ToolReturns(s, outcome)
  BY <1>1, <1>3, ToolReturnsEffect
<1>4. CASE SaveCheckpoint(s)
  BY <1>1, <1>4, SaveCheckpointEffect
<1>5. CASE VerifyStep(s)
  <2>1. FailedStepStatus(task[s].outcome) # "pending"
    BY DEF FailedStepStatus
  <2>2. task'[s].phase \in {"verified", "done"} /\ step'[s] # "pending"
    BY <1>5, <2>1, VerifyStepEffect
  <2> QED BY <1>1, <1>5, <2>2, VerifyStepEffect
<1>6. CASE SettleStep(s)
  BY <1>1, <1>6, SettleStepEffect
<1>7. CASE OpenInteraction(s)
  BY <1>1, <1>7, OpenInteractionEffect
<1> QED BY <1>2, <1>3, <1>4, <1>5, <1>6, <1>7 DEF StepOfBatch

LEMMA LocalFrame ==
    ASSUME LocalInv, UNCHANGED step, \A s \in Steps : task'[s] = task[s],
           exec'.inProcess =>
               /\ exec.inProcess /\ exec'.local = exec.local
               /\ exec'.pc \in {"submitted", "loop", "pack", "batch", "finish", "verdict"}
    PROVE  LocalInv'
  BY DEF LocalInv

LEMMA LocalInvStep == IInv /\ [Next]_vars => LocalInv'
<1> SUFFICES ASSUME IInv, [Next]_vars PROVE LocalInv'
  OBVIOUS
<1>1. TypeInv /\ StepInv /\ LocalInv /\ ~Idle.inProcess
  BY FreshType DEF IInv, Pcs
<1>2. CASE UNCHANGED vars
  BY <1>1, <1>2 DEF vars, LocalInv
<1>3. CASE Run
  BY <1>1, <1>3, RunEffect, LocalFrame
<1>4. CASE Move
  BY <1>1, <1>4, MoveEffect, LocalFrame
<1>5. CASE Start
  <2>1. UNCHANGED <<step, open>> /\ exec.pc # "batch"
    BY <1>5, StartEffect
  <2>2. CASE Declines
    BY <1>1, <2>1, <2>2, LocalFrame DEF Declines
  <2>3. CASE Begins
    <3>1. PICK queue \in Seq(Steps), confirmed \in BOOLEAN, again \in BOOLEAN :
              /\ IsBatch(queue) /\ Queue(queue, confirmed, again)
              /\ \A i \in 1 .. Len(queue) :
                    exec.inProcess => step[queue[i]] = "pending" /\ queue[i] \notin exec.local
      BY <2>3 DEF Begins
    <3>2. /\ exec'.pc = "batch" /\ exec'.local = exec.local /\ exec'.inProcess = exec.inProcess
          /\ \A s \in Steps :
                \/ task'[s].phase = "queued" /\ \E i \in 1 .. Len(queue) : queue[i] = s
                \/ task'[s].phase = "none"
      BY <1>1, <3>1, QueueType
    <3>3. \A s \in Steps : task[s].phase = "none"
      BY <1>1, <2>1 DEF TypeInv, NoTasks, NoTask
    <3> QED BY <1>1, <2>1, <3>1, <3>2, <3>3 DEF LocalInv
  <2> QED BY <1>5, <2>2, <2>3, StartEffect
<1>6. CASE Evaluate
  BY <1>1, <1>6, EvaluateEffect, LocalFrame
<1>7. CASE EndBatch
  <2> DEFINE ran == {s \in Steps : task[s].phase = "done"}
  <2>1. /\ UNCHANGED step
        /\ \A s \in Steps : task[s].phase \in {"none", "done"} /\ task'[s].phase = "none"
    BY <1>1, <1>7, EndBatchEffect
  <2>2. CASE exec' = Idle
    BY <1>1, <2>2 DEF LocalInv
  <2>3. CASE /\ exec'.pc = "loop" /\ exec'.inProcess = exec.inProcess
             /\ exec'.local = exec.local \cup ran
             /\ \A s \in Steps : task[s].phase = "done" => ~Failed(s)
    <3>1. \A s \in Steps : task[s].phase = "done" => step[s] = "passed"
      BY <1>1, <2>3 DEF StepInv, StepOk, Judged
    <3> QED BY <1>1, <2>1, <2>3, <3>1 DEF LocalInv
  <2> QED BY <1>1, <1>7, <2>2, <2>3, EndBatchEffect
<1>8. CASE Crash
  BY <1>1, <1>8, CrashEffect DEF LocalInv
<1>9. CASE Answering
  BY <1>1, <1>9, AnswerLeaves DEF LocalInv
<1>10. ASSUME NEW s \in Steps, StepOfBatch(s) PROVE LocalInv'
  BY <1>1, <1>10, BatchPhases DEF LocalInv, Others
<1>11. ASSUME NEW target \in {"paused", "running", "cancelled"}, Control(target) PROVE LocalInv'
  BY <1>1, <1>11, ControlEffect DEF LocalInv
<1> QED BY <1>2, <1>3, <1>4, <1>5, <1>6, <1>7, <1>8, <1>9, <1>10, <1>11, Actions

LEMMA StatusEffect ==
    ASSUME TypeInv, [Next]_vars, ~(exec.pc = "verdict" /\ Conclude)
    PROVE  status' = status \/ status' # "completed"
<1>1. CASE UNCHANGED vars
  BY <1>1 DEF vars
<1>2. CASE Run \/ Evaluate \/ EndBatch \/ Crash
  BY <1>2 DEF Run, Evaluate, EndBatch, Crash, RuntimeStatus
<1>3. CASE Move
  <2>1. Conclude => exec.pc = "verdict"
    BY DEF Conclude
  <2> QED BY <1>3, <2>1 DEF Move, ResumeIncomplete, ResumeRefused, CheckStop, AllPassed,
             WaitForUser, Stalled, FailStalled, RuntimeStatus
<1>4. CASE Start
  BY <1>4 DEF Start, RecoverRunning, ResumeFromCheckpoint, Approved,
              NextBatch, Restart, RuntimeStatus
<1>5. CASE Answering
  BY <1>5, AnswerLeaves
<1>6. ASSUME NEW s \in Steps, StepOfBatch(s) PROVE status' = status \/ status' # "completed"
  <2>1. CASE SettleStep(s)
    BY <2>1, SettleStepEffect DEF RuntimeStatus
  <2> QED BY <1>6, <2>1 DEF StepOfBatch, StartStep, ToolReturns, SaveCheckpoint, VerifyStep,
                            OpenInteraction
<1>7. ASSUME NEW target \in {"paused", "running", "cancelled"}, Control(target)
      PROVE  status' # "completed"
  BY <1>7 DEF Control
<1> QED BY <1>1, <1>2, <1>3, <1>4, <1>5, <1>6, <1>7, Actions

-----------------------------------------------------------------------------
(***************************************************************************)
(* What checkpoints and interactions point to: AnchorInv.                  *)
(***************************************************************************)
\* Steps that settle nothing about a step of the plan.
LEMMA AnchorFrame ==
    ASSUME TypeInv, CheckpointAnchor, InteractionAnchor, BegunInv, UNCHANGED step,
           \A s \in Steps : task'[s] = task[s] \/ task'[s].phase \in {"none", "queued"},
           open' \subseteq open, upset \subseteq upset', past' \subseteq past \cup {cp},
           cp' = cp \/ (cp'.step = 0 /\ cp'.action \notin {"ask_user", "retry", "alternative"})
    PROVE  CheckpointAnchor' /\ InteractionAnchor' /\ BegunInv'
<1>1. \A s \in Steps : s # 0
  BY NumStepsType
<1>2. \A s : Unasked(s) => Unasked(s)'
  BY DEF Unasked
<1>3. \A s \in Steps : task'[s] = task[s] => (Failed(s)' <=> Failed(s))
  BY DEF Failed
<1>4. CheckpointAnchor'
  <2>1. CASE cp' = cp
    BY <1>2, <1>3, <2>1 DEF CheckpointAnchor
  <2>2. CASE cp'.step = 0 /\ cp'.action \notin {"ask_user", "retry", "alternative"}
    BY <1>1, <2>2 DEF CheckpointAnchor
  <2> QED BY <2>1, <2>2
<1>5. InteractionAnchor'
  <2>1. CASE cp' = cp
    BY <2>1 DEF InteractionAnchor
  <2>2. CASE cp'.action # "ask_user"
    BY <2>2 DEF InteractionAnchor
  <2> QED BY <2>1, <2>2
<1>6. BegunInv'
  BY DEF BegunInv, CheckpointAnchor
<1> QED BY <1>4, <1>5, <1>6

LEMMA AnchorMove ==
    ASSUME IInv, Run \/ Move \/ Start \/ EndBatch \/ Crash
    PROVE  AnchorInv'
<1>1. TypeInv /\ CheckpointAnchor /\ InteractionAnchor /\ BegunInv /\ Idle.pc = "idle"
  BY FreshType DEF IInv, AnchorInv, Pcs
<1>2. Review.step = 0 /\ Review.action = "manual_review"
  BY CheckpointType DEF Review
<1>3. CASE Run
  BY <1>1, <1>3, RunEffect, AnchorFrame DEF AnchorInv, ApprovalAnchor
<1>4. CASE Move
  <2>1. exec'.pc # "approved"
    BY <1>1, <1>4, MoveEffect
  <2> QED BY <1>1, <1>2, <1>4, <2>1, MoveEffect, AnchorFrame DEF AnchorInv, ApprovalAnchor
<1>5. CASE Start
  <2>1. UNCHANGED <<step, open, upset>>
    BY <1>5, StartEffect
  <2>2. CASE Declines
    <3>1. exec'.pc # "approved"
      BY <2>2 DEF Declines
    <3> QED BY <1>1, <1>2, <2>1, <2>2, <3>1, AnchorFrame DEF Declines, AnchorInv, ApprovalAnchor
  <2>3. CASE Begins
    <3>1. /\ exec'.pc = "batch" /\ UNCHANGED <<cp, past>>
          /\ \A s \in Steps : task'[s].phase \in {"none", "queued"}
      BY <1>1, <2>3, QueueType DEF Begins
    <3> QED BY <1>1, <2>1, <3>1, AnchorFrame DEF AnchorInv, ApprovalAnchor
  <2> QED BY <1>5, <2>2, <2>3, StartEffect
<1>6. CASE EndBatch
  <2>1. exec'.pc # "approved"
    BY <1>1, <1>6, EndBatchEffect
  <2> QED BY <1>1, <1>6, <2>1, EndBatchEffect, AnchorFrame DEF AnchorInv, ApprovalAnchor
<1>7. CASE Crash
  BY <1>1, <1>7, CrashEffect, AnchorFrame DEF AnchorInv, ApprovalAnchor
<1> QED BY <1>3, <1>4, <1>5, <1>6, <1>7

LEMMA AnchorControl ==
    ASSUME IInv, NEW target \in {"paused", "running", "cancelled"}, Control(target)
    PROVE  AnchorInv'
<1>1. TypeInv /\ CheckpointAnchor /\ InteractionAnchor /\ ApprovalAnchor /\ BegunInv
  BY DEF IInv, AnchorInv
<1>2. /\ UNCHANGED <<step, open, exec, task>> /\ cp'.step = 0 /\ cp'.action = "none"
      /\ upset \subseteq upset' /\ past' \subseteq past \cup {cp}
  BY <1>1, ControlEffect
<1>3. ApprovalAnchor'
  BY <1>1, <1>2 DEF ApprovalAnchor, Unasked
<1> QED BY <1>1, <1>2, <1>3, AnchorFrame DEF AnchorInv

\* The answered interaction is closed, and its step had no other.
LEMMA AnchorAnswers == ASSUME IInv, Answering PROVE AnchorInv'
<1>1. /\ TypeInv /\ CheckpointAnchor /\ InteractionAnchor /\ BegunInv /\ 0 \notin Steps
      /\ cp \in Checkpoint /\ \A i \in open \cup past \cup {cp} : i \in Checkpoint /\ Anchored(i)
  BY NumStepsType DEF IInv, AnchorInv, TypeInv, TypeOK
<1>2. /\ UNCHANGED step /\ open' \subseteq open /\ upset \subseteq upset'
      /\ \A s \in Steps : task'[s].phase = "none"
      /\ cp'.step = cp.step /\ cp'.action = cp.action
  BY <1>1, AnswerLeaves
<1>3. PICK c \in open \cup past \cup {cp} :
         /\ \/ c.action = "none" /\ exec'.queue = <<>>
            \/ c.action \in {"ask_user", "alternative"} /\ c.step \in Steps
               /\ exec'.queue = <<c.step>>
         /\ \/ c.action = "alternative" /\ open' = open
            \/ c.action # "alternative" /\ open' = {i \in open : i.token # c.token}
         /\ \E d \in open \cup past \cup {cp} : past' \subseteq past \cup {[d EXCEPT !.token = 0]}
         /\ cp' \in {cp, [cp EXCEPT !.token = 0]}
         /\ \/ c \in open \cup {cp} /\ upset' = upset
            \/ upset' = upset \cup {"answer"}
         /\ c = cp /\ c.action # "alternative" => cp'.token = 0
         /\ cp' = cp \/ (c = cp /\ c.action # "alternative")
  BY <1>1, AnswerEffect
<1>4. \A s : Unasked(s) => Unasked(s)'
  BY <1>2 DEF Unasked
<1>5. CheckpointAnchor'
  BY <1>1, <1>2, <1>4 DEF CheckpointAnchor, Segment
<1>6. ASSUME "answer" \notin upset', NEW i \in open', cp.action = "ask_user", i.step = cp.step
      PROVE  i.token = cp'.token
  <2>1. i \in open /\ i.token = cp.token /\ c \in open \cup {cp}
    BY <1>1, <1>2, <1>3, <1>6 DEF InteractionAnchor
  <2>2. CASE cp' = cp
    BY <2>1, <2>2
  <2>3. CASE cp' # cp
    BY <1>1, <1>3, <2>1, <2>3
  <2> QED BY <2>2, <2>3
<1>7. InteractionAnchor'
  BY <1>1, <1>2, <1>6 DEF InteractionAnchor
<1>8. BegunInv'
  <2>1. PICK d \in open \cup past \cup {cp} : past' \subseteq past \cup {[d EXCEPT !.token = 0]}
    BY <1>3
  <2>2. [d EXCEPT !.token = 0].step = d.step
    BY <1>1, Tokenless
  <2>3. d.step # 0 => step[d.step] # "pending"
    BY <1>1 DEF BegunInv, CheckpointAnchor
  <2> QED BY <1>1, <1>2, <2>1, <2>2, <2>3 DEF BegunInv
<1>9. ASSUME exec'.queue # <<>>
      PROVE  /\ exec'.queue[1] = c.step /\ step[c.step] # "pending"
             /\ "answer" \notin upset' =>
                   Unasked(c.step)' /\ step[c.step] \in {"running", "failed", "blocked"}
  <2>1. /\ c.action \in {"ask_user", "alternative"} /\ c.step \in Steps /\ c.step # 0
        /\ exec'.queue = <<c.step>>
    BY <1>1, <1>3, <1>9
  <2>2. exec'.queue[1] = c.step
    BY <2>1
  <2>3. step[c.step] # "pending"
    BY <1>1, <2>1 DEF BegunInv, CheckpointAnchor
  <2>4. ASSUME "answer" \notin upset'
        PROVE  Unasked(c.step)' /\ step[c.step] \in {"running", "failed", "blocked"}
    <3>1. c \in open \cup {cp} /\ upset' = upset
      BY <1>3, <2>4
    <3>2. step[c.step] \in {"running", "failed", "blocked"}
      BY <1>1, <2>1, <2>4, <3>1 DEF InteractionAnchor, CheckpointAnchor
    <3>3. CASE c.action = "alternative"
      <4>1. c = cp
        BY <1>1, <2>1, <3>1, <3>3 DEF InteractionAnchor
      <4> QED BY <1>1, <1>4, <2>4, <3>1, <3>2, <3>3, <4>1 DEF CheckpointAnchor
    <3>4. CASE c.action = "ask_user"
      <4>1. \A i \in open : i.step = c.step => i.token = c.token
        BY <1>1, <2>1, <2>4, <3>1, <3>4 DEF InteractionAnchor
      <4> QED BY <1>3, <3>2, <3>4, <4>1 DEF Unasked
    <3> QED BY <2>1, <3>3, <3>4
  <2> QED BY <2>2, <2>3, <2>4
<1>10. ApprovalAnchor'
  BY <1>2, <1>9 DEF ApprovalAnchor
<1> QED BY <1>5, <1>7, <1>8, <1>10 DEF AnchorInv

LEMMA AnchorEvaluate == ASSUME IInv, Evaluate PROVE AnchorInv'
<1>1. TypeInv /\ CheckpointAnchor /\ InteractionAnchor /\ BegunInv /\ Idle.pc = "idle"
      /\ 0 \notin Steps
  BY NumStepsType, FreshType DEF IInv, AnchorInv, Pcs
<1>2. UNCHANGED <<step, task, upset>>
  BY <1>1, EvaluateEffect
<1>3. CASE exec' = Idle /\ UNCHANGED <<cp, past, open>>
  BY <1>1, <1>2, <1>3, AnchorFrame DEF AnchorInv, ApprovalAnchor
<1>4. CASE /\ exec'.pc = "verdict" /\ cp'.step = 0 /\ cp'.action \in {"none", "stop"}
           /\ past' \subseteq past \cup {cp}
           /\ \/ open' = open
              \/ /\ open' = open \cup {cp'} /\ cp'.token # 0
                 /\ \A i \in open : i.token # cp'.token
  <2>1. CheckpointAnchor'
    BY <1>1, <1>4 DEF CheckpointAnchor
  <2>2. InteractionAnchor'
    BY <1>1, <1>2, <1>4 DEF InteractionAnchor
  <2>3. BegunInv'
    BY <1>1, <1>2, <1>4 DEF BegunInv, CheckpointAnchor
  <2> QED BY <1>4, <2>1, <2>2, <2>3 DEF AnchorInv, ApprovalAnchor
<1> QED BY <1>1, <1>3, <1>4, EvaluateEffect

LEMMA AnchorBatch ==
    ASSUME IInv, NEW s \in Steps, StepOfBatch(s)
    PROVE  AnchorInv'
<1>1. /\ TypeInv /\ StepInv /\ CheckpointAnchor /\ InteractionAnchor /\ BegunInv /\ StepOk(s)
      /\ s # 0 /\ Anchored(cp)
  BY NumStepsType DEF IInv, AnchorInv, StepInv, TypeInv
<1>2. /\ UNCHANGED exec /\ exec.pc = "batch" /\ Others(s)
      /\ step'[s] = step[s] \/ step'[s] # "pending"
      /\ past' \subseteq past \cup {cp} /\ ("answer" \in upset' <=> "answer" \in upset)
  BY <1>1, BatchPhases
<1>3. ApprovalAnchor'
  BY <1>2 DEF ApprovalAnchor
<1>4. \A t \in Steps : t # s => (Failed(t)' <=> Failed(t))
  BY <1>2 DEF Failed, Others
<1>5. task[s].phase \in Segment => \A t \in Steps : t # s => task[t].phase \notin Segment
  BY <1>1 DEF TypeInv
<1>6. \A i \in open \cup past \cup {cp} : Anchored(i) /\ i \in Checkpoint
  BY <1>1 DEF TypeInv, TypeOK
<1>7. /\ \A i \in open \cup past \cup {cp} : i.step # 0 => i.step \in Steps
      /\ cp.action \in {"retry", "alternative"} => cp.step \in Steps
  BY <1>6 DEF Checkpoint, Steps, Anchored
<1>14. ASSUME \A i \in open' : i \in open \/ (i.step = s /\ step'[s] # "pending")
       PROVE  BegunInv'
  BY <1>1, <1>2, <1>7, <1>14 DEF BegunInv, CheckpointAnchor, Others
<1>8. CASE StartStep(s)
  <2>1. /\ task'[s].phase = "calling" /\ step'[s] = "running" /\ UNCHANGED <<cp, past,
                                                                             open>>
        /\ task[s].phase = "queued"
    BY <1>1, <1>8, StartStepEffect
  <2>2. "answer" \notin upset => Unasked(s)
    BY <1>1, <2>1 DEF StepOk
  <2>3. CheckpointAnchor'
    BY <1>1, <1>2, <1>4, <1>7, <2>1 DEF CheckpointAnchor, Others, Unasked
  <2>4. InteractionAnchor'
    BY <1>1, <1>2, <1>7, <2>1, <2>2 DEF InteractionAnchor, Others, Unasked
  <2> QED BY <1>3, <1>14, <2>1, <2>3, <2>4 DEF AnchorInv
<1>9. ASSUME NEW outcome \in Outcomes(s, exec.confirmed), ToolReturns(s, outcome)
      PROVE  AnchorInv'
  <2>1. task'[s].phase = "recorded" /\ UNCHANGED <<step, cp, past, open>>
    BY <1>1, <1>9, ToolReturnsEffect
  <2>2. CheckpointAnchor'
    BY <1>1, <1>2, <1>4, <2>1 DEF CheckpointAnchor, Others, Unasked
  <2>3. InteractionAnchor'
    BY <1>1, <1>2, <2>1 DEF InteractionAnchor
  <2> QED BY <1>3, <1>14, <2>1, <2>2, <2>3 DEF AnchorInv
<1>10. CASE SaveCheckpoint(s)
  <2>1. /\ task[s].phase = "recorded" /\ task'[s].phase = "saved"
        /\ task'[s].outcome = task[s].outcome /\ UNCHANGED <<step, open>>
        /\ task[s].outcome \in {"ok", "confirm"} \cup FailureKinds
        /\ cp' = IF Failed(s) THEN CheckpointOf(RecoveryAction(task[s].outcome), s, {})
                 ELSE NoFailure
    BY <1>1, <1>10, SaveCheckpointEffect
  <2>2. step[s] = "running" /\ ("answer" \notin upset => Unasked(s) /\ Unasked(s)')
    BY <1>1, <2>1 DEF StepOk, Called, Unasked
  <2>3. Failed(s)' <=> Failed(s)
    BY <2>1 DEF Failed
  <2>4. \A t \in Steps : t # s => task'[t].phase \notin Segment
    BY <1>2, <1>5, <2>1 DEF Segment, Others
  <2>5. CASE Failed(s)
    <3>1. RecoveryAction(task[s].outcome) \in {"ask_user", "retry", "alternative", "read",
                                               "manual_review", "stop"}
      BY <2>1, <2>5, OutcomeTypes DEF Failed, Succeeds
    <3>2. cp'.step = s /\ cp' = CheckpointOf(RecoveryAction(task[s].outcome), s, {})
      BY <2>1, <2>5, <3>1, CheckpointType
    <3>3. CheckpointAnchor'
      BY <1>2, <2>1, <2>2, <2>3, <2>4, <2>5, <3>2 DEF CheckpointAnchor, Segment
    <3>4. InteractionAnchor'
      BY <1>1, <1>2, <2>1, <2>2, <3>2 DEF InteractionAnchor, Unasked
    <3> QED BY <1>3, <1>14, <2>1, <3>3, <3>4 DEF AnchorInv
  <2>6. CASE ~Failed(s)
    <3>1. cp'.step = 0 /\ cp'.action = "none"
      <4>1. cp' = CheckpointOf("none", 0, {})
        BY <2>1, <2>6 DEF NoFailure
      <4> QED BY <4>1, CheckpointType
    <3>2. CheckpointAnchor'
      BY NumStepsType, <3>1 DEF CheckpointAnchor
    <3>3. InteractionAnchor'
      BY <1>1, <1>2, <2>1, <3>1 DEF InteractionAnchor
    <3> QED BY <1>3, <1>14, <2>1, <3>2, <3>3 DEF AnchorInv
  <2> QED BY <2>5, <2>6
<1>11. CASE VerifyStep(s)
  <2>1. /\ task[s].phase = "saved" /\ UNCHANGED <<cp, past, open>>
        /\ task'[s].phase = IF Failed(s) THEN "verified" ELSE "done"
        /\ task'[s].outcome = task[s].outcome
        /\ task[s].outcome \in {"ok", "confirm"} \cup FailureKinds
        /\ step'[s] = IF Failed(s) THEN FailedStepStatus(task[s].outcome) ELSE "passed"
    BY <1>1, <1>11, VerifyStepEffect
  <2>2. "answer" \notin upset => Unasked(s)
    BY <1>1, <2>1 DEF StepOk
  <2>3. cp.step = s => Failed(s) /\ cp = CheckpointOf(RecoveryAction(task[s].outcome), s, {})
    BY <1>1, <2>1 DEF CheckpointAnchor
  <2>4. cp.step = s => step'[s] \in {"failed", "blocked"}
    BY <2>1, <2>3, OutcomeTypes
  <2>5. cp.step = s /\ cp.action = "retry" => step'[s] # "blocked"
    <3> SUFFICES ASSUME cp.step = s, cp.action = "retry" PROVE step'[s] # "blocked"
      OBVIOUS
    <3>1. Failed(s) /\ task[s].outcome # "ok"
      BY <2>3 DEF Failed, Succeeds
    <3>2. RecoveryAction(task[s].outcome) = "retry"
      <4>1. RecoveryAction(task[s].outcome) \in {"ask_user", "retry", "alternative", "read",
                                                 "manual_review", "stop"}
        BY <2>1, <3>1, OutcomeTypes
      <4> QED BY <2>3, <4>1, CheckpointType
    <3>3. task[s].outcome # "confirm"
      BY <3>2, OutcomeTypes
    <3> QED BY <2>1, <3>1, <3>3, OutcomeTypes
  <2>6. \A t \in Steps : t # s => task'[t].phase \notin Segment
    BY <1>2, <1>5, <2>1 DEF Segment, Others
  <2>7. CheckpointAnchor'
    BY <1>1, <1>2, <1>7, <2>1, <2>3, <2>4, <2>5, <2>6
       DEF CheckpointAnchor, Others, Unasked, Segment
  <2>8. InteractionAnchor'
    BY <1>1, <1>2, <1>7, <2>1, <2>2 DEF InteractionAnchor, Others, Unasked
  <2> QED BY <1>3, <1>14, <2>1, <2>7, <2>8 DEF AnchorInv
<1>12. CASE SettleStep(s)
  <2>1. /\ task[s].phase = "verified" /\ task'[s].phase \in {"settled", "done"}
        /\ task'[s].outcome = task[s].outcome /\ UNCHANGED <<step, open, cp, past>>
    BY <1>1, <1>12, SettleStepEffect
  <2>2. \A t \in Steps : t # s => task'[t].phase \notin Segment
    BY <1>2, <1>5, <2>1 DEF Segment, Others
  <2>3. CheckpointAnchor'
    BY <1>1, <1>2, <2>1, <2>2 DEF CheckpointAnchor, Unasked, Segment
  <2>4. InteractionAnchor'
    BY <1>1, <1>2, <2>1 DEF InteractionAnchor
  <2> QED BY <1>3, <1>14, <2>1, <2>3, <2>4 DEF AnchorInv
<1>13. CASE OpenInteraction(s)
  <2> DEFINE new == Numbered("ask_user", s, {})
  <2>1. /\ task[s].phase = "settled" /\ task'[s].phase = "done" /\ TokenLeft /\ UNCHANGED step
        /\ open' = open \cup {new}
        /\ cp' = IF cp = CheckpointOf("ask_user", s, {}) THEN new ELSE cp
    BY <1>1, <1>13, OpenInteractionEffect
  <2>2. /\ new.action = "ask_user" /\ new.step = s /\ new.token # 0
        /\ \A i \in open : i.token # new.token
    BY <1>1, <2>1, TokenType
  <2> HIDE DEF new
  <2>3. ("answer" \notin upset => Unasked(s)) /\ task[s].outcome = "confirm" /\ step[s] = "blocked"
    BY <1>1, <2>1 DEF StepOk, Judged, FailedStepStatus
  <2>4. cp.step = s => cp = CheckpointOf("ask_user", s, {})
    BY <1>1, <2>1, <2>3 DEF CheckpointAnchor, RecoveryAction
  <2>5. cp = CheckpointOf("ask_user", s, {}) => cp.step = s /\ cp.action = "ask_user"
    BY CheckpointType
  <2>6. \A t \in Steps : task'[t].phase \notin Segment
    BY <1>2, <1>5, <2>1 DEF Segment, Others
  <2>7. CheckpointAnchor'
    <3>1. CASE cp.step = s
      BY <2>1, <2>2, <2>3, <2>4, <2>6, <3>1 DEF CheckpointAnchor, Segment
    <3>2. CASE cp.step # s
      BY <1>1, <1>2, <2>1, <2>2, <2>5, <2>6, <3>2 DEF CheckpointAnchor, Segment, Unasked
    <3> QED BY <3>1, <3>2
  <2>8. InteractionAnchor'
    <3>1. CASE cp.step = s
      BY <1>1, <1>2, <2>1, <2>2, <2>3, <2>4, <3>1 DEF InteractionAnchor, Unasked
    <3>2. CASE cp.step # s
      BY <1>1, <1>2, <2>1, <2>2, <2>3, <2>5, <3>2 DEF InteractionAnchor, Unasked
    <3> QED BY <3>1, <3>2
  <2> QED BY <1>3, <1>14, <2>1, <2>2, <2>3, <2>7, <2>8 DEF AnchorInv
<1> QED BY <1>8, <1>9, <1>10, <1>11, <1>12, <1>13 DEF StepOfBatch

LEMMA AnchorInvStep == IInv /\ [Next]_vars => AnchorInv'
<1>1. IInv /\ UNCHANGED vars => AnchorInv'
  BY DEF IInv, vars, AnchorInv, CheckpointAnchor, InteractionAnchor, ApprovalAnchor, BegunInv,
         Unasked,
               Failed
<1> QED BY <1>1, Actions, AnchorMove, AnchorControl, AnchorAnswers, AnchorEvaluate, AnchorBatch

-----------------------------------------------------------------------------
(***************************************************************************)
(* Progress, acceptance, cancellation and crashes.                         *)
(***************************************************************************)
\* Only the steps of a batch write the projection of a step.
LEMMA StepWrites ==
    ASSUME IInv, [Next]_vars
    PROVE  UNCHANGED <<step, verified>> \/ \E s \in Steps : StepOfBatch(s)
<1>1. TypeInv
  BY DEF IInv
<1>2. UNCHANGED vars => UNCHANGED <<step, verified>>
  BY DEF vars
<1> QED BY <1>1, <1>2, Actions, RunEffect, MoveEffect, StartEffect, EvaluateEffect,
           EndBatchEffect, CrashEffect, AnswerLeaves, ControlEffect

\* A step of a batch leaves the projections alone, starts a step that may be
\* started, or gives its verdict on one that was running after its dependencies.
LEMMA BatchWrites ==
    ASSUME IInv, NEW s \in Steps, StepOfBatch(s)
    PROVE  /\ Others(s) /\ exec.pc = "batch"
           /\ \/ step'[s] = step[s] /\ UNCHANGED verified
              \/ /\ step'[s] = "running" /\ UNCHANGED <<status, verified>>
                 /\ step[s] = "passed" => exec.confirmed /\ "answer" \in upset
                 /\ task[s].phase = "queued"
              \/ /\ step[s] = "running" /\ Deps[s] \subseteq verified
                 /\ IF step'[s] = "passed" THEN verified' = verified \cup {s}
                                           ELSE UNCHANGED verified
                 /\ UNCHANGED status
<1>1. TypeInv /\ StepOk(s) /\ Others(s) /\ exec.pc = "batch"
  BY BatchPhases DEF IInv, StepInv
<1>2. CASE StartStep(s)
  BY <1>1, <1>2, StartStepEffect DEF StepOk, Startable
<1>3. CASE VerifyStep(s)
  <2>1. FailedStepStatus(task[s].outcome) # "passed"
    BY DEF FailedStepStatus
  <2> QED BY <1>1, <1>3, <2>1, VerifyStepEffect DEF StepOk, Called
<1>4. ASSUME NEW outcome \in Outcomes(s, exec.confirmed), ToolReturns(s, outcome)
      PROVE  UNCHANGED <<step, verified>>
  BY <1>4 DEF ToolReturns
<1> QED BY <1>1, <1>2, <1>3, <1>4 DEF StepOfBatch, SaveCheckpoint, SettleStep, OpenInteraction,
                                      history

\* A step that has passed is started again only by an answer that names it.
LEMMA PassedStays ==
    ASSUME IInv, [Next]_vars, NEW s \in Steps, step[s] = "passed",
           exec.pc # "batch" \/ "answer" \notin upset
    PROVE  step'[s] = "passed"
<1>1. CASE UNCHANGED step
  BY <1>1
<1>2. ASSUME NEW t \in Steps, StepOfBatch(t) PROVE step'[s] = "passed"
  BY <1>2, BatchWrites DEF Others
<1> QED BY <1>1, <1>2, StepWrites

\* An executor at work is on a run that is not completed.
LEMMA ActiveInvStep == IInv /\ [Next]_vars => ActiveInv'
<1> SUFFICES ASSUME IInv, [Next]_vars, exec'.pc \notin {"idle", "approved"},
                    status' = "completed"
             PROVE  FALSE
  BY DEF ActiveInv
<1>1. TypeInv /\ Idle.pc = "idle"
  BY FreshType DEF IInv, Pcs
<1>2. ~Conclude
  BY <1>1 DEF Conclude
<1>3. status = "completed"
  BY <1>1, <1>2, StatusEffect
<1>4. exec.pc \in {"idle", "approved"}
  BY <1>3 DEF IInv, ActiveInv
<1>5. ~UNCHANGED vars
  BY <1>4 DEF vars
<1>6. ~Run /\ ~Evaluate /\ ~EndBatch /\ ~Crash /\ ~Answering
  BY <1>1, <1>4, RunEffect, EvaluateEffect, EndBatchEffect, CrashEffect, AnswerLeaves
<1>7. ~Move
  BY <1>1, <1>4, MoveEffect
<1>8. ~Start
  BY <1>4, StartEffect
<1>9. \A s \in Steps : ~StepOfBatch(s)
  BY <1>1, <1>4, BatchPhases
<1>10. \A target \in {"paused", "running", "cancelled"} : ~Control(target)
  BY <1>1, ControlEffect
<1> QED BY <1>5, <1>6, <1>7, <1>8, <1>9, <1>10, Actions

\* The gate lets a run through with every criterion met.
LEMMA DecisionCompleted ==
    ASSUME Decision(facts) = "completed", NEW c \in Criteria
    PROVE  CASE CriterionType[c] = "evidence" ->
                   CriterionRefs[c] \subseteq facts.evidence \cup facts.claimed
             [] CriterionType[c] = "test_result"    -> CriterionRefs[c] \cap facts.tests # {}
             [] CriterionType[c] = "human_approval" -> c \in facts.approvals
             [] CriterionType[c] = "freshness"      -> facts.fresh = "fresh"
<1>1. CriterionStatus(c, facts) # "failed" /\ Blocked(facts) = {}
  BY DEF Decision
<1>2. CriterionStatus(c, facts) # "blocked"
  BY <1>1 DEF Blocked
<1>3. CriterionType[c] \in {"evidence", "test_result", "human_approval", "freshness"}
  BY PlanAssumption
<1> QED BY <1>1, <1>2, <1>3 DEF CriterionStatus

\* What is known of the acceptance is never taken back, except that the caller of
\* `run' dates it; the evidence of the tools is proven.
LEMMA FactsGrow ==
    ASSUME IInv, [Next]_vars
    PROVE  /\ facts'.evidence \subseteq proven' /\ proven \subseteq proven'
           /\ exec.pc # "submitted" =>
                 /\ facts.evidence \subseteq facts'.evidence
                 /\ facts.claimed \subseteq facts'.claimed /\ facts.tests \subseteq facts'.tests
                 /\ facts.approvals \subseteq facts'.approvals /\ facts'.fresh = facts.fresh
<1> DEFINE Grow == /\ facts'.evidence \subseteq proven' /\ proven \subseteq proven'
                   /\ facts.evidence \subseteq facts'.evidence
                   /\ facts.claimed \subseteq facts'.claimed /\ facts.tests \subseteq facts'.tests
                   /\ facts.approvals \subseteq facts'.approvals /\ facts'.fresh = facts.fresh
<1>1. TypeInv /\ facts.evidence \subseteq proven
  BY DEF IInv, VerdictInv
<1>2. UNCHANGED vars => UNCHANGED <<facts, proven>>
  BY DEF vars
<1>3. UNCHANGED <<facts, proven>> => Grow
  BY <1>1
<1>4. CASE Run
  BY <1>1, <1>4, RunEffect
<1>5. Answering => Grow
  BY <1>1, AnswerLeaves
<1>6. ASSUME NEW s \in Steps, StepOfBatch(s) PROVE Grow
  <2>1. (\E outcome \in Outcomes(s, exec.confirmed) : ToolReturns(s, outcome)) => Grow
    BY <1>1, ToolReturnsEffect
  <2>2. StartStep(s) \/ SaveCheckpoint(s) \/ VerifyStep(s) \/ SettleStep(s) \/ OpenInteraction(s)
            => UNCHANGED <<facts, proven>>
    BY DEF StartStep, SaveCheckpoint, VerifyStep, SettleStep, OpenInteraction, history
  <2> QED BY <1>3, <1>6, <2>1, <2>2 DEF StepOfBatch
<1>7. Move \/ Start \/ Evaluate \/ EndBatch \/ Crash => UNCHANGED <<facts, proven>>
  BY <1>1, MoveEffect, StartEffect, EvaluateEffect, EndBatchEffect, CrashEffect
<1>8. ASSUME NEW target \in {"paused", "running", "cancelled"}, Control(target)
      PROVE  UNCHANGED <<facts, proven>>
  BY <1>1, <1>8, ControlEffect
<1> QED BY <1>2, <1>3, <1>4, <1>5, <1>6, <1>7, <1>8, Actions

LEMMA VerdictInvStep == IInv /\ [Next]_vars => VerdictInv'
<1> SUFFICES ASSUME IInv, [Next]_vars PROVE VerdictInv'
  OBVIOUS
<1>1. TypeInv /\ VerdictInv /\ Idle.pc = "idle"
  BY FreshType DEF IInv, Pcs
<1>2. ASSUME exec.pc # "batch", \A s \in Steps : step[s] = "passed"
      PROVE  \A s \in Steps : step'[s] = "passed"
  BY <1>2, PassedStays
<1>3. ASSUME exec'.pc = "verdict" PROVE \A s \in Steps : step'[s] = "passed"
  <2>1. exec.pc # "batch" /\ \A s \in Steps : step[s] = "passed"
    <3>1. UNCHANGED vars => UNCHANGED exec
      BY DEF vars
    <3>2. ASSUME Start PROVE exec'.pc # "verdict"
      <4>1. Begins => exec'.pc = "batch"
        BY <1>1, QueueType DEF Begins
      <4> QED BY <3>2, <4>1, StartEffect DEF Declines
    <3>3. exec.pc = "verdict" \/ Evaluate
      BY <1>1, <1>3, <3>1, <3>2, Actions, RunEffect, MoveEffect,
         EndBatchEffect, CrashEffect, AnswerLeaves, ControlEffect, BatchPhases
    <3> QED BY <1>1, <1>3, <3>3, EvaluateEffect DEF VerdictInv
  <2> QED BY <1>2, <2>1
<1>4. ASSUME status' = "completed" PROVE CompletedIsVerified'
  <2>1. CASE status = "completed"
    <3>1. exec.pc \in {"idle", "approved"}
      BY <2>1 DEF IInv, ActiveInv
    <3>2. \A s \in Steps : step'[s] = "passed"
      BY <1>1, <1>2, <2>1, <3>1 DEF VerdictInv, CompletedIsVerified
    <3>3. /\ proven \subseteq proven' /\ facts.claimed \subseteq facts'.claimed
          /\ facts.tests \subseteq facts'.tests /\ facts.approvals \subseteq facts'.approvals
          /\ facts'.fresh = facts.fresh
      BY <3>1, FactsGrow
    <3>4. CompletedIsVerified
      BY <1>1 DEF VerdictInv
    <3>5. ASSUME NEW c \in Criteria
          PROVE  CASE CriterionType[c] = "evidence" ->
                         CriterionRefs[c] \subseteq proven' \cup facts'.claimed
                   [] CriterionType[c] = "test_result" ->
                         CriterionRefs[c] \cap facts'.tests # {}
                   [] CriterionType[c] = "human_approval" -> c \in facts'.approvals
                   [] CriterionType[c] = "freshness"      -> facts'.fresh = "fresh"
      <4>1. CriterionType[c] \in {"evidence", "test_result", "freshness", "human_approval"}
        BY PlanAssumption
      <4>2. /\ CriterionType[c] = "evidence" =>
                    CriterionRefs[c] \subseteq proven \cup facts.claimed
            /\ CriterionType[c] = "test_result" => CriterionRefs[c] \cap facts.tests # {}
            /\ CriterionType[c] = "human_approval" => c \in facts.approvals
            /\ CriterionType[c] = "freshness" => facts.fresh = "fresh"
        BY <2>1, <3>4, <4>1 DEF CompletedIsVerified
      <4>3. CASE CriterionType[c] = "evidence"
        BY <3>3, <4>2, <4>3
      <4>4. CASE CriterionType[c] = "test_result"
        <5>1. CriterionRefs[c] \cap facts'.tests # {}
          BY <3>3, <4>2, <4>4
        <5> QED BY <4>4, <5>1
      <4>5. CASE CriterionType[c] = "human_approval"
        BY <3>3, <4>2, <4>5
      <4>6. CASE CriterionType[c] = "freshness"
        BY <3>3, <4>2, <4>6
      <4> QED BY <4>1, <4>3, <4>4, <4>5, <4>6
    <3> QED BY <3>2, <3>5 DEF CompletedIsVerified
  <2>2. CASE exec.pc = "verdict" /\ Conclude /\ status # "completed"
    <3>1. \A s \in Steps : step'[s] = "passed"
      BY <1>1, <1>2, <2>2 DEF VerdictInv
    <3>2. Decision(facts) = "completed"
      BY <1>4, <2>2 DEF Conclude, RuntimeStatus
    <3>3. UNCHANGED <<facts, proven>> /\ facts.evidence \subseteq proven
      BY <1>1, <2>2 DEF Conclude, history, VerdictInv
    <3> QED BY <3>1, <3>2, <3>3, DecisionCompleted, PlanAssumption DEF CompletedIsVerified
  <2> QED BY <1>1, <1>4, <2>1, <2>2, StatusEffect
<1> QED BY <1>3, <1>4, FactsGrow DEF VerdictInv, CompletedIsVerified

\* A cancelled run stays so, and the next look at it stops the executor.
LEMMA LateInvStep == IInv /\ [Next]_vars => LateInv'
<1> SUFFICES ASSUME IInv, [Next]_vars PROVE LateInv'
  OBVIOUS
<1>1. TypeInv /\ LateInv /\ Idle.pc = "idle" /\ late \in 0 .. 2 /\ late < 2
      /\ "cancelled" \in OperatorStop
  BY FreshType DEF IInv, LateInv, TypeInv, TypeOK, Pcs, OperatorStop
<1>2. CASE UNCHANGED vars
  BY <1>1, <1>2 DEF vars, LateInv
<1>3. CASE Run
  BY <1>1, <1>3, RunEffect DEF LateInv, RuntimeStatus
<1>4. CASE Move
  <2>1. status = "cancelled" => status' = "cancelled"
    BY <1>1, <1>4 DEF Move, ResumeIncomplete, ResumeRefused, CheckStop, AllPassed,
             WaitForUser, Stalled, FailStalled, Conclude, RuntimeStatus
  <2> QED BY <1>1, <1>4, <2>1, MoveEffect DEF LateInv
<1>5. CASE Start
  <2>1. status = "cancelled" => status' = "cancelled"
    BY <1>1, <1>5 DEF Start, RecoverRunning, ResumeFromCheckpoint,
             Approved, NextBatch, Restart, RuntimeStatus
  <2>2. CASE Declines
    BY <1>1, <2>1, <2>2 DEF LateInv, Declines
  <2>3. CASE Begins
    <3>1. exec'.pc = "batch" /\ late' = IF status = "cancelled" THEN late + 1 ELSE late
      <4>1. late' = IF status = "cancelled" /\ late < 2 THEN late + 1 ELSE late
        BY <2>3 DEF Begins, Queue
      <4>2. exec'.pc = "batch"
        BY <1>1, <2>3, QueueType DEF Begins
      <4> QED BY <1>1, <4>1, <4>2
    <3>2. CASE RecoverRunning \/ NextBatch
      <4>1. late = 0
        BY <1>1, <3>2 DEF LateInv, RecoverRunning, NextBatch
      <4> QED BY <2>1, <3>1, <4>1 DEF LateInv
    <3>3. CASE ResumeFromCheckpoint \/ Approved
      <4>1. status # "cancelled" \/ UNCHANGED late
        BY <1>1, <3>3 DEF ResumeFromCheckpoint, Approved, Restart,
                          RuntimeStatus
      <4> QED BY <1>1, <2>1, <3>1, <4>1 DEF LateInv
    <3> QED BY <1>5, <3>2, <3>3 DEF Start
  <2> QED BY <1>5, <2>2, <2>3, StartEffect
<1>6. CASE Evaluate
  BY <1>1, <1>6, EvaluateEffect DEF LateInv
<1>7. CASE EndBatch
  BY <1>1, <1>7, EndBatchEffect DEF LateInv
<1>8. CASE Crash
  BY <1>1, <1>8, CrashEffect DEF LateInv
<1>9. CASE Answering
  BY <1>1, <1>9, AnswerLeaves DEF LateInv
<1>10. ASSUME NEW s \in Steps, StepOfBatch(s) PROVE LateInv'
  <2>1. UNCHANGED <<exec, late>>
    BY <1>1, <1>10, BatchPhases
  <2>2. status = "cancelled" => status' = "cancelled"
    BY <1>1, <1>10 DEF StepOfBatch, StartStep, ToolReturns, SaveCheckpoint, VerifyStep, SettleStep,
             OpenInteraction, RuntimeStatus
  <2> QED BY <1>1, <2>1, <2>2 DEF LateInv
<1>11. ASSUME NEW target \in {"paused", "running", "cancelled"}, Control(target) PROVE LateInv'
  BY <1>1, <1>11, ControlEffect DEF LateInv
<1> QED BY <1>2, <1>3, <1>4, <1>5, <1>6, <1>7, <1>8, <1>9, <1>10, <1>11, Actions

LEMMA CutInvStep == IInv /\ [Next]_vars => CutInv'
<1> SUFFICES ASSUME IInv, [Next]_vars, NEW s \in Steps,
                    step'[s] = "running", task'[s].phase \notin Called
             PROVE  "crash" \in upset'
  BY DEF CutInv
<1>1. /\ TypeInv /\ StepOk(s)
      /\ step[s] = "running" /\ task[s].phase \notin Called => "crash" \in upset
  BY DEF IInv, StepInv, CutInv
<1>2. CASE UNCHANGED vars
  BY <1>1, <1>2 DEF vars
<1>3. CASE Run
  BY <1>1, <1>3, RunEffect
<1>4. CASE Move
  BY <1>1, <1>4, MoveEffect
<1>5. CASE Start
  <2>1. task[s].phase = "none" /\ UNCHANGED <<step, upset>>
    BY <1>1, <1>5, StartEffect DEF TypeInv, NoTasks, NoTask
  <2> QED BY <1>1, <2>1 DEF Called
<1>6. CASE Evaluate
  BY <1>1, <1>6, EvaluateEffect
<1>7. CASE EndBatch
  <2>1. task[s].phase \in {"none", "done"} /\ UNCHANGED <<step, upset>>
    BY <1>1, <1>7, EndBatchEffect
  <2> QED BY <1>1, <2>1 DEF Called
<1>8. CASE Crash
  BY <1>8, CrashEffect
<1>9. CASE Answering
  BY <1>1, <1>9, AnswerLeaves
<1>10. ASSUME NEW t \in Steps, StepOfBatch(t) PROVE "crash" \in upset'
  <2>1. Others(t) /\ upset \subseteq upset'
    BY <1>1, <1>10, BatchPhases
  <2>2. CASE t # s
    BY <1>1, <2>1, <2>2 DEF Others
  <2>3. CASE t = s
    <3>1. StartStep(s) => task'[s].phase = "calling"
      BY <1>1, StartStepEffect
    <3>2. VerifyStep(s) => step'[s] \in {"failed", "blocked", "passed"}
      <4>1. FailedStepStatus(task[s].outcome) \in {"failed", "blocked"}
        BY DEF FailedStepStatus
      <4> QED BY <1>1, <4>1, VerifyStepEffect
    <3>3. SaveCheckpoint(s) => task'[s].phase = "saved"
      BY <1>1, SaveCheckpointEffect
    <3>4. ASSUME NEW outcome \in Outcomes(s, exec.confirmed), ToolReturns(s, outcome)
          PROVE  task'[s].phase = "recorded"
      BY <1>1, <3>4, ToolReturnsEffect
    <3>5. SettleStep(s) \/ OpenInteraction(s) =>
              UNCHANGED <<step, upset>> /\ task[s].phase \in {"verified", "settled"}
      BY DEF SettleStep, OpenInteraction, history
    <3> QED BY <1>1, <1>10, <2>3, <3>1, <3>2, <3>3, <3>4, <3>5 DEF StepOfBatch, Called
  <2> QED BY <2>2, <2>3
<1>11. ASSUME NEW target \in {"paused", "running", "cancelled"}, Control(target)
       PROVE  "crash" \in upset'
  BY <1>1, <1>11, ControlEffect
<1> QED BY <1>2, <1>3, <1>4, <1>5, <1>6, <1>7, <1>8, <1>9, <1>10, <1>11, Actions

LEMMA IInvInit == Init => IInv
<1> SUFFICES ASSUME Init PROVE IInv
  OBVIOUS
<1>1. TypeInv
  BY TypeInit
<1>2. /\ \A s \in Steps : step[s] = "pending" /\ task[s].phase = "none"
      /\ open = {} /\ late = 0 /\ status = "created"
      /\ facts.evidence = {} /\ proven = {} /\ past = {} /\ verified = {}
  BY DEF Init, NoTasks, NoTask
<1>3. cp.step = 0 /\ cp.action = "absent"
  BY CheckpointType DEF Init
<1>4. exec.pc \in {"idle", "submitted"} /\ exec.local = {}
  <2>1. exec \in {Idle, Submitted}
    BY DEF Init
  <2>2. Idle.pc = "idle" /\ Submitted.pc = "submitted" /\ Idle.local = {} /\ Submitted.local = {}
    BY DEF Idle, Submitted
  <2> QED BY <2>1, <2>2
<1>5. exec.inProcess => exec.pc = "submitted"
  <2>1. exec \in {Idle, Submitted}
    BY DEF Init
  <2>2. Idle.inProcess = FALSE /\ Submitted.pc = "submitted"
    BY DEF Idle, Submitted
  <2> QED BY <2>1, <2>2
<1>6. StepInv
  BY <1>2 DEF StepInv, StepOk, Called, Judged
<1>7. LocalInv
  BY <1>2, <1>4, <1>5 DEF LocalInv
<1>8. AnchorInv
  <2>1. CheckpointAnchor
    BY NumStepsType, <1>2, <1>3 DEF CheckpointAnchor
  <2>2. InteractionAnchor
    BY <1>2 DEF InteractionAnchor
  <2>3. ApprovalAnchor
    BY <1>4 DEF ApprovalAnchor
  <2>4. BegunInv
    BY <1>2 DEF BegunInv
  <2> QED BY <2>1, <2>2, <2>3, <2>4 DEF AnchorInv
<1>9. ActiveInv /\ VerdictInv /\ LateInv /\ CutInv
  BY <1>2, <1>4 DEF ActiveInv, VerdictInv, CompletedIsVerified, LateInv, CutInv
<1> QED BY <1>1, <1>6, <1>7, <1>8, <1>9 DEF IInv

\* IInv is inductive.
LEMMA Inductive == Spec => []IInv
<1>1. IInv /\ [Next]_vars => IInv'
  <2> SUFFICES ASSUME IInv, [Next]_vars PROVE IInv'
    OBVIOUS
  <2>1. TypeInv'
    BY TypeStep DEF IInv
  <2> QED BY <2>1, StepInvStep, LocalInvStep, AnchorInvStep, ActiveInvStep, VerdictInvStep,
             LateInvStep, CutInvStep DEF IInv
<1> QED BY <1>1, IInvInit, PTL DEF Spec
-----------------------------------------------------------------------------
(***************************************************************************)
(* The properties of HarnessRun.                                           *)
(***************************************************************************)
\* No step is started, by whichever entry point, before its dependencies have been
\* verified.
THEOREM DependenciesHold == Spec => []DependenciesFirst
<1>1. IInv => DependenciesFirst
  BY DEF IInv, StepInv, StepOk, DependenciesFirst
<1> QED BY <1>1, Inductive, PTL

\* Two calls of a run overlap only if neither tool writes or has effects.
THEOREM OverlapIsSafe == Spec => []OverlapOnlyIfSafe
<1>1. IInv => OverlapOnlyIfSafe
  <2> SUFFICES ASSUME IInv, NEW s \in Steps, NEW t \in Steps, s # t,
                      task[s].phase = "calling", task[t].phase = "calling"
               PROVE  /\ \A u \in {s, t} : Tool[u].readOnly /\ ~Tool[u].effects
                      /\ {s, t} \subseteq ParallelCandidates({s, t})
    BY DEF OverlapOnlyIfSafe
  <2>1. exec.pc = "batch" /\ IsBatch(exec.queue)
    BY InBatch DEF IInv, TypeInv
  <2>2. PICK i \in 1 .. Len(exec.queue), j \in 1 .. Len(exec.queue) :
            exec.queue[i] = s /\ exec.queue[j] = t
    BY <2>1 DEF IInv, TypeInv
  <2>3. i # j
    BY <2>2
  <2>4. Len(exec.queue) \in Nat /\ Len(exec.queue) > 1
    BY <2>1, <2>3 DEF IsBatch
  <2>5. s \in ParallelSafe /\ t \in ParallelSafe
    BY <2>1, <2>2, <2>4 DEF IsBatch
  <2> QED BY <2>5 DEF ParallelSafe, ParallelCandidates
<1> QED BY <1>1, Inductive, PTL

\* A completed run has every step verified and each criterion of each type met,
\* through any sequence of crashes, retries, answers and controls.
THEOREM CompletionIsEarned == Spec => []CompletedIsVerified
<1>1. IInv => CompletedIsVerified
  BY DEF IInv, VerdictInv, CompletedIsVerified
<1> QED BY <1>1, Inductive, PTL

\* At most one batch is begun on a cancelled run.
THEOREM CancelIsObeyed == Spec => []CancelStopsBatches
<1>1. IInv => CancelStopsBatches
  BY DEF IInv, LateInv, CancelStopsBatches
<1> QED BY <1>1, Inductive, PTL

\* What the scanner calls auto_retryable is a step that failed or was cut off.
THEOREM RetriesFailedStep == Spec => []RetryIsOfFailedStep
<1>1. IInv => RetryIsOfFailedStep
  <2> SUFFICES ASSUME IInv, ParkedKind = "auto_retryable", exec.pc = "idle"
               PROVE  \/ step[cp.step] = "failed"
                      \/ step[cp.step] = "running" /\ "crash" \in upset
    BY DEF RetryIsOfFailedStep
  <2>1. cp.action = "retry"
    BY DEF ParkedKind, CanResume
  <2>2. cp.step \in Steps /\ cp.step # 0
    BY <2>1, NumStepsType DEF IInv, TypeInv, Anchored
  <2>3. step[cp.step] \in {"running", "failed"}
    BY <2>1, <2>2 DEF IInv, AnchorInv, CheckpointAnchor
  <2>4. task[cp.step].phase = "none"
    BY <2>2 DEF IInv, TypeInv, NoTasks, NoTask
  <2> QED BY <2>2, <2>3, <2>4 DEF IInv, CutInv, Called
<1> QED BY <1>1, Inductive, PTL

-----------------------------------------------------------------------------
(***************************************************************************)
(* The refinement of the abstract plan.                                    *)
(***************************************************************************)
Done == {s \in Steps : step[s] = "passed"}
Named == {s \in Steps : exec.confirmed /\ task[s].phase # "none"}
Accepted == status = "completed"

\* What a step of the run does to the set of steps done.
LEMMA DoneStep ==
    ASSUME IInv, [Next]_vars
    PROVE  \/ Done' = Done /\ UNCHANGED verified
           \/ \E s \in Steps :
                 /\ s \notin Done /\ Deps[s] \subseteq verified
                 /\ Done' = Done \cup {s} /\ verified' = verified \cup {s} /\ UNCHANGED status
           \/ \E s \in Done \cap Named :
                 /\ ~Accepted /\ Done' = Done \ {s} /\ UNCHANGED <<verified, status>>
<1>1. CASE UNCHANGED <<step, verified>>
  BY <1>1 DEF Done
<1>2. ASSUME NEW s \in Steps, StepOfBatch(s)
      PROVE  \/ Done' = Done /\ UNCHANGED verified
             \/ /\ s \notin Done /\ Deps[s] \subseteq verified
                /\ Done' = Done \cup {s} /\ verified' = verified \cup {s} /\ UNCHANGED status
             \/ /\ s \in Done \cap Named
                /\ ~Accepted /\ Done' = Done \ {s} /\ UNCHANGED <<verified, status>>
  <2>1. Others(s) /\ ~Accepted
    BY <1>2, BatchWrites DEF IInv, ActiveInv, Accepted
  <2>2. \A t \in Steps : t # s => (t \in Done' <=> t \in Done)
    BY <2>1 DEF Done, Others
  <2>3. (s \in Done <=> step[s] = "passed") /\ (s \in Done' <=> step'[s] = "passed")
    BY DEF Done
  <2>4. CASE step'[s] = step[s] /\ UNCHANGED verified
    BY <2>2, <2>3, <2>4 DEF Done
  <2>5. CASE /\ step'[s] = "running" /\ UNCHANGED <<status, verified>>
             /\ step[s] = "passed" => exec.confirmed /\ "answer" \in upset
             /\ task[s].phase = "queued"
    <3>1. CASE step[s] = "passed"
      <4>1. s \in Done \cap Named
        BY <2>5, <3>1 DEF Done, Named
      <4>2. Done' = Done \ {s}
        BY <2>2, <2>3, <2>5 DEF Done
      <4> QED BY <2>1, <2>5, <4>1, <4>2
    <3>2. CASE step[s] # "passed"
      <4>1. Done' = Done
        BY <2>2, <2>3, <2>5, <3>2 DEF Done
      <4> QED BY <2>5, <4>1
    <3> QED BY <3>1, <3>2
  <2>6. CASE /\ step[s] = "running" /\ Deps[s] \subseteq verified
             /\ IF step'[s] = "passed" THEN verified' = verified \cup {s}
                                       ELSE UNCHANGED verified
             /\ UNCHANGED status
    <3>1. CASE step'[s] = "passed"
      <4>1. Done' = Done \cup {s} /\ s \notin Done
        BY <2>2, <2>3, <2>6, <3>1 DEF Done
      <4> QED BY <2>6, <3>1, <4>1
    <3>2. CASE step'[s] # "passed"
      <4>1. Done' = Done
        BY <2>2, <2>3, <2>6, <3>2 DEF Done
      <4> QED BY <2>6, <3>2, <4>1
    <3> QED BY <3>1, <3>2
  <2> QED BY <1>2, <2>4, <2>5, <2>6, BatchWrites
<1> QED BY <1>1, <1>2, StepWrites

\* Only the executor of an answer names a step, when it sets the run going.
LEMMA NamedStart ==
    ASSUME TypeInv, Start
    PROVE  Named' = {} \/ \E s \in Steps : Named' = {s} /\ status' = "running"
<1>1. \A s \in Steps : task[s].phase = "none"
  <2>1. exec.pc # "batch"
    BY DEF Start, RecoverRunning, ResumeFromCheckpoint, Approved, NextBatch
  <2> QED BY <2>1 DEF TypeInv, NoTasks, NoTask
<1>2. UNCHANGED task => Named' = {}
  BY <1>1 DEF Named
<1>3. ASSUME NEW queue, NEW again, Queue(queue, FALSE, again) PROVE Named' = {}
  <2>1. exec' = [exec EXCEPT !.pc = "batch", !.queue = queue, !.confirmed = FALSE, !.again = again]
    BY <1>3 DEF Queue
  <2>2. exec'.confirmed = FALSE
    BY <2>1 DEF TypeInv, TypeOK, Executor
  <2> QED BY <2>2 DEF Named
<1>4. ASSUME NEW s \in Steps, NEW again, Queue(<<s>>, TRUE, again) PROVE Named' = {s}
  <2>1. /\ exec' = [exec EXCEPT !.pc = "batch", !.queue = <<s>>, !.confirmed = TRUE,
                                !.again = again]
        /\ task' = [t \in Steps |->
                      IF \E i \in 1 .. Len(<<s>>) : <<s>>[i] = t
                      THEN [phase |-> "queued", outcome |-> "none"] ELSE NoTask]
    BY <1>4 DEF Queue
  <2>2. exec'.confirmed = TRUE
    BY <2>1 DEF TypeInv, TypeOK, Executor
  <2>3. \A t \in Steps : task'[t].phase # "none" <=> t = s
    BY <2>1 DEF NoTask
  <2> QED BY <2>2, <2>3 DEF Named
<1>5. CASE RecoverRunning
  BY <1>2, <1>3, <1>5 DEF RecoverRunning
<1>6. CASE NextBatch
  BY <1>3, <1>6 DEF NextBatch
<1>7. CASE ResumeFromCheckpoint
  BY <1>2, <1>3, <1>7 DEF ResumeFromCheckpoint, Restart
<1>8. CASE Approved
  <2>1. CASE exec.queue = <<>>
    BY <1>2, <1>8, <2>1 DEF Approved
  <2>2. CASE exec.queue # <<>>
    <3>1. exec.pc = "approved" /\ Restart(exec.queue[1], TRUE, exec.again)
      BY <1>8, <2>2 DEF Approved
    <3>2. PICK s \in Steps : exec.queue = <<s>>
      BY <2>2, <3>1 DEF TypeInv
    <3>3. exec.queue[1] = s
      BY <3>2
    <3> QED BY <1>2, <1>4, <3>1, <3>3 DEF Restart
  <2> QED BY <2>1, <2>2
<1> QED BY <1>5, <1>6, <1>7, <1>8 DEF Start

LEMMA NamedStep ==
    ASSUME IInv, [Next]_vars
    PROVE  \/ Named' = Named
           \/ Named' = {} /\ UNCHANGED <<step, verified, status>>
           \/ \E s \in Steps : Named' = {s} /\ status' = "running" /\ UNCHANGED <<step,
                                                                                  verified>>
<1>1. TypeInv /\ (exec.pc # "batch" => \A s \in Steps : task[s].phase = "none")
  BY DEF IInv, TypeInv, NoTasks, NoTask
<1>2. exec.pc # "batch" => Named = {}
  BY <1>1 DEF Named
<1>3. (\A s \in Steps : task'[s].phase = "none") => Named' = {}
  BY DEF Named
<1>4. CASE UNCHANGED vars
  BY <1>4 DEF vars, Named
<1>5. CASE Run \/ Evaluate \/ Move \/ Answering
  BY <1>1, <1>2, <1>3, <1>5, RunEffect, EvaluateEffect, MoveEffect, AnswerLeaves
<1>6. CASE EndBatch \/ Crash
  BY <1>1, <1>3, <1>6, EndBatchEffect, CrashEffect
<1>7. CASE Start
  BY <1>1, <1>2, <1>7, StartEffect, NamedStart
<1>8. ASSUME NEW s \in Steps, StepOfBatch(s) PROVE Named' = Named
  <2>1. Others(s) /\ UNCHANGED exec /\ task[s].phase # "none" /\ task'[s].phase # "none"
    BY <1>1, <1>8, BatchPhases
  <2>2. \A t \in Steps : t # s => task'[t] = task[t]
    BY <2>1 DEF Others
  <2>3. \A t \in Steps : task'[t].phase # "none" <=> task[t].phase # "none"
    BY <2>1, <2>2
  <2> QED BY <2>1, <2>3 DEF Named
<1>9. ASSUME NEW target \in {"paused", "running", "cancelled"}, Control(target)
      PROVE  Named' = Named
  BY <1>1, <1>9, ControlEffect DEF Named
<1> QED BY <1>4, <1>5, <1>6, <1>7, <1>8, <1>9, Actions

LEMMA RefinementStep ==
    ASSUME IInv, [Next]_vars
    PROVE  [Abstract!Next]_<<Done, verified, Named, Accepted>>
<1>1. CASE Named' = {} /\ UNCHANGED <<step, verified, status>>
  <2>1. Abstract!Drop
    BY <1>1 DEF Abstract!Drop, Done, Named, Accepted
  <2> QED BY <2>1 DEF Abstract!Next
<1>2. ASSUME NEW s \in Steps, Named' = {s}, status' = "running", UNCHANGED <<step,
                                                                             verified>>
      PROVE  Abstract!Next
  <2>1. Abstract!Name(s)
    BY <1>2 DEF Abstract!Name, Done, Named, Accepted
  <2> QED BY <2>1 DEF Abstract!Next
<1>3. CASE Named' = Named
  <2>1. ASSUME NEW s \in Steps, s \notin Done, Deps[s] \subseteq verified, Done' = Done \cup {s},
               verified' = verified \cup {s}, UNCHANGED status
        PROVE  Abstract!Next
    <3>1. Abstract!Do(s)
      BY <1>3, <2>1 DEF Abstract!Do, Done, Named, Accepted
    <3> QED BY <3>1 DEF Abstract!Next
  <2>2. ASSUME NEW s \in Done \cap Named, ~Accepted, Done' = Done \ {s},
               UNCHANGED <<verified, status>>
        PROVE  Abstract!Next
    <3>1. Abstract!Redo(s) /\ s \in Steps
      BY <1>3, <2>2 DEF Abstract!Redo, Done, Named, Accepted
    <3> QED BY <3>1 DEF Abstract!Next
  <2>3. CASE Done' = Done /\ UNCHANGED verified /\ Accepted /\ ~Accepted'
    <3>1. Abstract!Reopen
      BY <1>3, <2>3 DEF Abstract!Reopen, Done, Named, Accepted
    <3> QED BY <3>1 DEF Abstract!Next
  <2>4. CASE Done' = Done /\ UNCHANGED verified /\ ~Accepted /\ Accepted'
    <3>1. exec.pc = "verdict"
      BY <2>4, StatusEffect DEF IInv, Accepted
    <3>2. Done = Steps
      BY <3>1 DEF IInv, VerdictInv, Done
    <3>3. Abstract!Accept
      BY <1>3, <2>4, <3>2 DEF Abstract!Accept, Done, Named, Accepted
    <3> QED BY <3>3 DEF Abstract!Next
  <2>5. CASE Done' = Done /\ UNCHANGED verified /\ (Accepted' <=> Accepted)
    BY <1>3, <2>5 DEF Accepted
  <2> QED BY <2>1, <2>2, <2>3, <2>4, <2>5, DoneStep
<1> QED BY <1>1, <1>2, <1>3, NamedStep

\* A run, with all its retries, answers, recoveries and batches, implements the
\* plan: each step is done after its dependencies, once more only if an answer
\* names it, and all of them are done when the run is completed.
THEOREM Implements == Spec => ImplementsPlan
<1>1. Init => Abstract!Init
  <2>1. Init => Done = {} /\ Named = {} /\ verified = {} /\ Accepted = FALSE
    BY DEF Init, Done, Named, Accepted, NoTasks, NoTask
  <2> QED BY <2>1 DEF Abstract!Init, Done, Named, Accepted
<1>2. IInv /\ [Next]_vars => [Abstract!Next]_<<Done, verified, Named, Accepted>>
  BY RefinementStep
<1> QED BY <1>1, <1>2, Inductive, PTL
        DEF Spec, ImplementsPlan, Abstract!Spec, Abstract!pvars, Done, Named, Accepted

-----------------------------------------------------------------------------
(***************************************************************************)
(* Runs nothing has disturbed: no crash, no pause, no answer to an earlier *)
(* checkpoint and no batch that went on after one of its steps failed.     *)
(* What such a run rests on is what its last checkpoint says, and its plan *)
(* does not stall.                                                         *)
(***************************************************************************)
PlanPassed == \A s \in Steps : step[s] = "passed"

\* The steps the plan cannot go on over: in flight, failed or waiting.
Trouble == {s \in Steps : step[s] \notin {"pending", "passed"}}

\* Nothing of the acceptance is seen before every step has passed.
PassInv ==
    upset = {} =>
        /\ exec.pc = "finish" => PlanPassed
        /\ cp.blocked # {} => PlanPassed
        /\ \A i \in open : i.step = 0 => PlanPassed
        /\ exec.pc = "verdict" /\ Decision(facts) = "waiting_user" /\ status # "cancelled" =>
              cp \in open /\ cp.blocked = Blocked(facts)

\* The user has an answer to give, or the run is known to wait in vain.
AnswerLeft ==
    \/ \E i \in open : i.action = "ask_user" \/ ApprovalCriteria(i.blocked) # {}
    \/ cp.action = "alternative" \/ DeadEnd

\* A run at rest: all that is left open is the step of its checkpoint.
RestOk ==
    /\ status \in {"created", "running"} => Trouble = {}
    /\ status # "cancelled" => Trouble \subseteq {cp.step}
    /\ status = "recovering" => cp.action \in {"retry", "alternative", "read"}
    /\ status = "waiting_user" => AnswerLeft

\* The latest checkpoint is that of the failure of step s.
Kept(s) == cp.step = s /\ cp.action = RecoveryAction(task[s].outcome)

\* What a failure in a batch leaves behind, from its checkpoint on.
FailureOk(s) ==
    /\ task[s].phase \in {"saved", "verified", "settled"} => Kept(s)
    /\ task[s].phase = "settled" => status = "waiting_user"
    /\ task[s].phase = "done" =>
          /\ Kept(s)
             \/ \E t \in Steps : task[t].phase \in {"queued", "calling", "recorded", "saved"}
          /\ status = FailureStatus(task[s].outcome)
          /\ task[s].outcome = "confirm" => \E i \in open : i.action = "ask_user"

BatchOk ==
    /\ \A s \in Steps : task[s].phase = "none" => s \notin Trouble
    /\ \A s, t \in Steps :
          Failed(s) /\ Failed(t) /\ task[s].phase \in Judged /\ task[t].phase \in Judged => s = t
    /\ status # "cancelled" => \A s \in Steps : Failed(s) => FailureOk(s)

ApprovedOk ==
    status # "cancelled" =>
        IF exec.queue = <<>> THEN Trouble = {} ELSE Trouble \subseteq {exec.queue[1]}

Calm ==
    /\ exec.pc \in {"submitted", "recover", "loop", "pack", "finish", "verdict"} => Trouble = {}
    /\ exec.pc # "stalled" /\ status # "paused"
    /\ exec.pc = "idle" => RestOk
    /\ exec.pc = "approved" => ApprovedOk
    /\ exec.pc = "batch" => BatchOk

CalmInv == upset = {} => Calm
-----------------------------------------------------------------------------
LEMMA UpsetGrows == ASSUME IInv, [Next]_vars PROVE upset \subseteq upset'
<1>1. TypeInv
  BY DEF IInv
<1>2. UNCHANGED vars => UNCHANGED upset
  BY DEF vars
<1> QED BY <1>1, <1>2, Actions, RunEffect, MoveEffect, StartEffect, EvaluateEffect,
           EndBatchEffect, CrashEffect, AnswerLeaves, ControlEffect, BatchPhases

\* The interaction of a blocked acceptance has its checkpoint.
LEMMA EvaluateBlocks ==
    ASSUME TypeInv, Evaluate, Decision(facts) = "waiting_user", exec'.pc = "verdict"
    PROVE  cp' \in open' /\ cp'.blocked = Blocked(facts)
<1>1. Blocked(facts) \in SUBSET Criteria /\ Idle.pc = "idle"
  BY FreshType DEF Blocked, Pcs
<1>2. TokenLeft /\ open' = open \cup {cp'} /\ cp' = Numbered("none", 0, Blocked(facts))
  BY <1>1, SaveType DEF Evaluate, Numbered
<1> QED BY <1>1, <1>2, TokenType

\* Checkpoints and interactions that are not of a step come after all steps.
LEMMA NewAnchors ==
    ASSUME IInv, [Next]_vars
    PROVE  /\ cp'.blocked \in {cp.blocked, {}} \/ PlanPassed
           /\ \A i \in open' : i \in open \/ i.step # 0 \/ PlanPassed
<1>1. TypeInv /\ 0 \notin Steps
  BY NumStepsType DEF IInv
<1>2. Review.blocked = {} /\ NoFailure.blocked = {}
  BY CheckpointType DEF Review, NoFailure
<1>3. CASE UNCHANGED vars
  BY <1>3 DEF vars
<1>4. CASE Run \/ Move \/ EndBatch \/ Crash
  BY <1>1, <1>2, <1>4, RunEffect, MoveEffect, EndBatchEffect, CrashEffect
<1>5. CASE Start
  BY <1>2, <1>5, StartEffect DEF Begins, Declines
<1>6. CASE Evaluate
  BY <1>1, <1>6, EvaluateEffect DEF PlanPassed
<1>7. Answering => cp'.blocked = cp.blocked /\ \A i \in open' : i \in open
  BY <1>1, AnswerLeaves
<1>8. ASSUME NEW target \in {"paused", "running", "cancelled"}, Control(target)
      PROVE  cp'.blocked = {} /\ UNCHANGED open
  BY <1>2, <1>8 DEF Control, Save, history
<1>9. ASSUME NEW s \in Steps, StepOfBatch(s)
      PROVE  /\ cp' = cp \/ cp'.blocked = {}
             /\ \A i \in open' : i \in open \/ i.step # 0
  <2>1. CASE SaveCheckpoint(s)
    <3>1. /\ task[s].outcome \in {"ok", "confirm"} \cup FailureKinds /\ UNCHANGED open
          /\ cp' = IF Failed(s) THEN CheckpointOf(RecoveryAction(task[s].outcome), s, {})
                   ELSE NoFailure
      BY <1>1, <2>1, SaveCheckpointEffect
    <3>2. Failed(s) => cp'.blocked = {}
      <4>1. Failed(s) => RecoveryAction(task[s].outcome) \in
                {"ask_user", "retry", "alternative", "read", "manual_review", "stop"}
        BY <3>1, OutcomeTypes DEF Failed, Succeeds
      <4> QED BY <3>1, <4>1, CheckpointType
    <3> QED BY <1>2, <3>1, <3>2
  <2>2. CASE OpenInteraction(s)
    <3>1. /\ TokenLeft /\ open' = open \cup {Numbered("ask_user", s, {})}
          /\ cp' = IF cp = CheckpointOf("ask_user", s, {})
                   THEN Numbered("ask_user", s, {}) ELSE cp
      BY <1>1, <2>2, OpenInteractionEffect
    <3>2. Numbered("ask_user", s, {}).step = s /\ Numbered("ask_user", s, {}).blocked = {}
      BY <1>1, <3>1, TokenType
    <3> QED BY <1>1, <3>1, <3>2
  <2>3. CASE StartStep(s) \/ VerifyStep(s) \/ SettleStep(s)
             \/ \E outcome \in Outcomes(s, exec.confirmed) : ToolReturns(s, outcome)
    BY <2>3 DEF StartStep, VerifyStep, SettleStep, ToolReturns, history
  <2> QED BY <1>9, <2>1, <2>2, <2>3 DEF StepOfBatch
<1> QED BY <1>3, <1>4, <1>5, <1>6, <1>7, <1>8, <1>9, Actions

LEMMA PassInvStep == ASSUME IInv, PassInv, [Next]_vars PROVE PassInv'
<1> SUFFICES ASSUME upset' = {} PROVE PassInv'
  BY DEF PassInv
<1>1. TypeInv /\ Idle.pc = "idle" /\ upset = {}
  BY FreshType, UpsetGrows DEF IInv, Pcs
<1>2. PlanPassed => PlanPassed'
  BY <1>1, PassedStays DEF PlanPassed
<1>3. ASSUME exec'.pc = "finish" PROVE PlanPassed
  <2>1. CASE exec.pc = "finish"
    BY <1>1, <2>1 DEF PassInv
  <2>2. CASE AllPassed
    <3>1. exec.pc = "pack" /\ \A s \in Steps : task[s].phase = "none"
      BY <1>1, <2>2 DEF AllPassed, TypeInv, NoTasks, NoTask
    <3>2. CASE exec.inProcess
      BY <2>2, <3>1, <3>2 DEF AllPassed, IInv, LocalInv, PlanPassed
    <3>3. CASE ~exec.inProcess
      BY <2>2, <3>3 DEF AllPassed, ContextPack, Incomplete, Projected, PlanPassed
    <3> QED BY <3>2, <3>3
  <2>3. CASE exec.pc # "finish" /\ ~AllPassed
    <3>1. UNCHANGED vars => UNCHANGED exec
      BY DEF vars
    <3>2. Start => exec'.pc # "finish"
      <4>1. Begins => exec'.pc = "batch"
        BY <1>1, QueueType DEF Begins
      <4> QED BY <4>1, StartEffect DEF Declines
    <3>3. Move => exec'.pc # "finish"
      <4>1. exec \in Executor
        BY <1>1 DEF TypeInv, TypeOK
      <4>2. CASE CheckStop \/ Stalled
        BY <1>1, <4>1, <4>2, GotoType DEF CheckStop, Stalled, Stall, Pcs
      <4>3. CASE ResumeIncomplete
        BY <4>3, FreshType DEF ResumeIncomplete, Pcs
      <4>4. CASE ResumeRefused \/ WaitForUser \/ FailStalled \/ Conclude
        BY <1>1, <2>3, <4>4 DEF ResumeRefused, WaitForUser, FailStalled, Conclude
      <4> QED BY <2>3, <4>2, <4>3, <4>4 DEF Move
    <3> QED BY <1>1, <1>3, <2>3, <3>1, <3>2, <3>3, Actions, RunEffect, EvaluateEffect,
               EndBatchEffect, CrashEffect, AnswerLeaves, ControlEffect, BatchPhases
  <2> QED BY <2>1, <2>2, <2>3
<1>4. ASSUME exec'.pc = "verdict", Decision(facts') = "waiting_user", status' # "cancelled"
      PROVE  cp' \in open' /\ cp'.blocked = Blocked(facts')
  <2>1. CASE Evaluate
    BY <1>1, <1>4, <2>1, EvaluateEffect, EvaluateBlocks
  <2>2. CASE exec.pc = "verdict"
    <3>1. UNCHANGED <<cp, open, facts, status>>
      <4>1. CASE UNCHANGED vars
        BY <4>1 DEF vars
      <4>2. ASSUME Start PROVE FALSE
        <5>1. exec.pc \in {"recover", "idle", "approved", "pack"}
          BY <4>2 DEF Start, RecoverRunning, ResumeFromCheckpoint,
                      Approved, NextBatch
        <5> QED BY <2>2, <5>1
      <4>3. ASSUME Move PROVE FALSE
        <5>1. exec'.pc \in {"idle", "recover", "pack", "finish", "stalled"}
          BY <1>1, <4>3, MoveEffect
        <5> QED BY <1>4, <5>1
      <4>4. ASSUME NEW target \in {"paused", "running", "cancelled"}, Control(target)
            PROVE  FALSE
        BY <1>1, <1>4, <4>4, ControlEffect DEF Control
      <4> QED BY <1>1, <1>4, <2>2, <4>1, <4>2, <4>3, <4>4, Actions, RunEffect, EvaluateEffect,
               EndBatchEffect, CrashEffect, AnswerLeaves, BatchPhases
    <3> QED BY <1>1, <1>4, <2>2, <3>1 DEF PassInv
  <2>3. CASE exec.pc # "verdict" /\ ~Evaluate
    <3>1. UNCHANGED vars => UNCHANGED exec
      BY DEF vars
    <3>2. Start => exec'.pc # "verdict"
      <4>1. Begins => exec'.pc = "batch"
        BY <1>1, QueueType DEF Begins
      <4> QED BY <4>1, StartEffect DEF Declines
    <3> QED BY <1>1, <1>4, <2>3, <3>1, <3>2, Actions, RunEffect, MoveEffect,
               EndBatchEffect, CrashEffect, AnswerLeaves, ControlEffect, BatchPhases
  <2> QED BY <2>1, <2>2, <2>3
<1> QED BY <1>1, <1>2, <1>3, <1>4, NewAnchors DEF PassInv

-----------------------------------------------------------------------------
\* Without trouble and without a question a plan that is not done has a step
\* to go on with, the first one that has not passed.
LEMMA FrontierGoesOn ==
    ASSUME TypeInv, Trouble = {}, open = {}, ContextPack.incomplete # {}
    PROVE  ContextPack.frontier # <<>>
<1> DEFINE waiting == {s \in Steps : step[s] # "passed"}
           frontier == Frontier(Projected)
<1>1. \A s \in Steps : Projected[s] = step[s]
  BY DEF Projected
<1>2. waiting # {} /\ waiting \in SUBSET Steps
  BY <1>1 DEF ContextPack, Incomplete
<1> HIDE DEF waiting
<1>3. IsFiniteSet(waiting) /\ waiting \subseteq Nat
  BY <1>2, StepsFinite
<1>4. StrictOrder(waiting, PlanBefore)
  BY <1>2, <1>3 DEF StrictOrder, PlanBefore
<1>5. PICK s \in waiting : \A t \in waiting : t = s \/ <<s, t>> \in PlanBefore
  BY <1>2, <1>3, <1>4, FirstExists
<1>6. s \in Steps /\ step[s] = "pending"
  BY <1>2, <1>5 DEF waiting, Trouble
<1>7. \A d \in Deps[s] : d \in Steps /\ step[d] = "passed"
  <2> SUFFICES ASSUME NEW d \in Deps[s] PROVE d \in Steps /\ step[d] = "passed"
    OBVIOUS
  <2>1. d \in Steps /\ d < s /\ d \in Nat /\ s \in Nat
    BY <1>6, PlanAssumption, StepsFinite
  <2>2. d # s /\ <<s, d>> \notin PlanBefore
    BY <2>1 DEF PlanBefore
  <2>3. d \notin waiting
    BY <1>5, <2>2
  <2> QED BY <2>1, <2>3 DEF waiting
<1>8. s \in frontier
  BY <1>1, <1>6, <1>7 DEF Frontier
<1>9. frontier \in SUBSET Steps
  BY DEF Frontier
<1> HIDE DEF frontier
<1>10. Lists(TopologicalOrder(frontier), frontier)
  BY <1>9, SortedSteps
<1>11. PICK i \in 1 .. Len(TopologicalOrder(frontier)) : TopologicalOrder(frontier)[i] = s
  BY <1>8, <1>10 DEF Lists
<1>12. Len(TopologicalOrder(frontier)) # 0
  BY <1>11
<1>13. TopologicalOrder(frontier) # <<>>
  BY <1>12
<1> QED BY <1>13 DEF ContextPack, frontier

\* A question that is open has a blocked step, or all steps passed.
LEMMA QuestionIsTrouble ==
    ASSUME IInv, PassInv, upset = {}, Trouble = {}, open # {}
    PROVE  ContextPack.incomplete = {}
<1>1. PICK i \in open : TRUE
  OBVIOUS
<1>2. i.step \in 0 .. NumSteps
  BY DEF IInv, TypeInv, TypeOK, Checkpoint
<1>3. i.step = 0
  <2> SUFFICES ASSUME i.step # 0 PROVE FALSE
    OBVIOUS
  <2>1. step[i.step] = "blocked" /\ i.step \in Steps
    BY <1>2, NumStepsType DEF IInv, AnchorInv, InteractionAnchor, Steps
  <2> QED BY <2>1 DEF Trouble
<1>4. PlanPassed
  BY <1>3 DEF PassInv
<1> QED BY <1>4 DEF PlanPassed, ContextPack, Incomplete, Projected

\* Outside a batch: the steps that leave the statuses of the plan's steps alone.
LEMMA CalmMove ==
    ASSUME IInv, PassInv, Calm, upset = {}, Move
    PROVE  Calm'
<1>1. /\ TypeInv /\ UNCHANGED <<step, open, facts,
                                task>> /\ (Trouble' = {} <=> Trouble = {})
      /\ Trouble' = Trouble
  BY MoveEffect DEF IInv, Trouble
<1>2. exec \in Executor /\ Idle.pc = "idle"
  BY <1>1, FreshType DEF TypeInv, TypeOK, Pcs
<1>3. CASE ResumeIncomplete
  <2>1. exec.pc = "idle" /\ status \in {"created", "running"} /\ status' = "running"
        /\ exec' = [Idle EXCEPT !.pc = "recover"]
    BY <1>3 DEF ResumeIncomplete
  <2>2. exec'.pc = "recover" /\ Trouble = {}
    BY <2>1, FreshType DEF Pcs, Calm, RestOk
  <2> QED BY <1>1, <2>1, <2>2 DEF Calm
<1>4. CASE ResumeRefused
  <2>1. exec.pc = "idle" /\ status = "recovering" /\ UNCHANGED <<cp, past, exec>>
        /\ cp.action \in {"ask_user", "read", "alternative", "manual_review"}
        /\ status' = "waiting_user"
    BY <1>4 DEF ResumeRefused, RuntimeStatus, OperatorStop
  <2>2. cp.action \in {"alternative", "read"} /\ Trouble \subseteq {cp.step}
    BY <2>1 DEF Calm, RestOk
  <2> QED BY <1>1, <2>1, <2>2 DEF Calm, RestOk, AnswerLeft, DeadEnd
<1>5. CASE CheckStop
  <2>1. exec.pc = "loop" /\ UNCHANGED <<status, cp, past>> /\ Trouble = {}
    BY <1>5 DEF CheckStop, Calm
  <2>2. CASE status \in OperatorStop /\ exec' = Idle
    BY <1>1, <1>2, <2>1, <2>2 DEF Calm, RestOk, OperatorStop
  <2>3. CASE Goto("pack")
    BY <1>1, <1>2, <2>1, <2>3, GotoType DEF Calm, Pcs
  <2> QED BY <1>5, <2>2, <2>3 DEF CheckStop
<1>6. CASE AllPassed
  <2>1. exec.pc = "pack" /\ UNCHANGED status /\ Goto("finish")
    BY <1>6 DEF AllPassed
  <2> QED BY <1>1, <1>2, <2>1, GotoType DEF Calm, Pcs
<1>7. CASE WaitForUser \/ Stalled
  <2>1. exec.pc = "pack" /\ ContextPack.incomplete # {}
    BY <1>7 DEF WaitForUser, Stalled
  <2>2. Trouble = {}
    BY <2>1 DEF Calm
  <2>3. open = {}
    BY <2>1, <2>2, QuestionIsTrouble
  <2>4. ContextPack.frontier = <<>>
    BY <1>7, <2>3 DEF WaitForUser, Stalled, ContextPack
  <2> QED BY <1>1, <2>1, <2>2, <2>3, <2>4, FrontierGoesOn
<1>8. CASE FailStalled
  BY <1>8 DEF FailStalled, Calm
<1>9. CASE Conclude
  <2>1. exec.pc = "verdict" /\ exec' = Idle /\ status' = RuntimeStatus(status, Decision(facts))
        /\ UNCHANGED <<cp, past, open>> /\ Trouble = {}
    BY <1>9 DEF Conclude, history, Calm
  <2>2. Decision(facts) \in {"acceptance_failed", "waiting_user", "completed"}
    BY DEF Decision
  <2>3. status # "paused"
    BY DEF Calm
  <2>4. status' \in {"acceptance_failed", "waiting_user", "completed", "cancelled"}
        /\ (status' = "waiting_user" => Decision(facts) = "waiting_user" /\ status # "cancelled")
    BY <2>1, <2>2, <2>3 DEF RuntimeStatus, OperatorStop
  <2>5. ASSUME status' = "waiting_user" PROVE AnswerLeft'
    <3>1. cp \in open /\ cp.blocked = Blocked(facts)
      BY <2>1, <2>4, <2>5 DEF PassInv
    <3>2. Blocked(facts) # {}
      BY <2>4, <2>5 DEF Decision
    <3>3. PICK c \in Criteria : c \in cp.blocked /\ CriterionStatus(c, facts) = "blocked"
      BY <3>1, <3>2 DEF Blocked
    <3>4. CriterionType[c] \in {"human_approval", "freshness"}
      <4>1. CriterionType[c] \in {"evidence", "test_result", "human_approval", "freshness"}
        BY PlanAssumption
      <4>2. CriterionType[c] = "test_result" => CriterionStatus(c, facts) \in {"passed", "failed"}
        BY DEF CriterionStatus
      <4>3. CriterionType[c] = "evidence" => CriterionStatus(c, facts) \in {"passed", "failed"}
        BY DEF CriterionStatus
      <4> QED BY <3>3, <4>1, <4>2, <4>3
    <3>5. ApprovalCriteria(cp.blocked) # {} \/ CriterionType[c] = "freshness"
      BY <3>3, <3>4 DEF ApprovalCriteria
    <3> QED BY <2>1, <3>1, <3>3, <3>5 DEF AnswerLeft, DeadEnd
  <2> QED BY <1>1, <1>2, <2>1, <2>4, <2>5 DEF Calm, RestOk
<1> QED BY <1>3, <1>4, <1>5, <1>6, <1>7, <1>8, <1>9 DEF Move

\* A batch begins with all trouble in it.
LEMMA CalmQueue ==
    ASSUME TypeInv, NEW queue, IsBatch(queue), NEW confirmed \in BOOLEAN,
           NEW again \in BOOLEAN, Queue(queue, confirmed, again), UNCHANGED step,
           \A s \in Trouble : \E i \in 1 .. Len(queue) : queue[i] = s
    PROVE  exec'.pc = "batch" /\ BatchOk'
<1>1. /\ exec'.pc = "batch"
      /\ \A s \in Steps :
            \/ task'[s].phase = "queued" /\ task'[s].outcome = "none"
            \/ /\ task'[s].phase = "none" /\ task'[s].outcome = "none"
               /\ ~ \E i \in 1 .. Len(queue) : queue[i] = s
  BY QueueType
<1>2. Trouble' = Trouble /\ \A s \in Steps : ~Failed(s)'
  BY <1>1 DEF Trouble, Failed
<1>3. \A s \in Steps : task'[s].phase = "none" => s \notin Trouble'
  BY <1>1, <1>2
<1> QED BY <1>1, <1>2, <1>3 DEF BatchOk

\* A step is started again: it was all that was open, or the run is cancelled.
LEMMA CalmRestart ==
    ASSUME IInv, Calm, NEW s \in Steps, NEW confirmed \in BOOLEAN, NEW again \in BOOLEAN,
           Restart(s, confirmed, again),
           UNCHANGED <<step, cp, past, open>>, status # "cancelled" => Trouble \subseteq {s}
    PROVE  Calm'
<1>1. TypeInv /\ Trouble' = Trouble /\ Idle.pc = "idle" /\ status \in TaskRunStatus
  BY FreshType DEF IInv, TypeInv, TypeOK, Trouble, Pcs
<1>2. status' = RuntimeStatus(status, "running")
  BY DEF Restart
<1>3. CASE status = "cancelled"
  <2>1. status' = "cancelled" /\ exec' = Idle
    BY <1>2, <1>3 DEF Restart, RuntimeStatus, OperatorStop
  <2> QED BY <1>1, <2>1 DEF Calm, RestOk
<1>4. CASE status # "cancelled"
  <2>1. status' = "running"
    BY <1>2, <1>4 DEF RuntimeStatus, OperatorStop, Calm
  <2>2. Queue(<<s>>, confirmed, again) /\ IsBatch(<<s>>)
    BY <2>1, SingleIsBatch DEF Restart
  <2>3. <<s>>[1] = s /\ 1 \in 1 .. Len(<<s>>)
    OBVIOUS
  <2>4. \A t \in Trouble : \E i \in 1 .. Len(<<s>>) : <<s>>[i] = t
    BY <1>4, <2>3
  <2>5. exec'.pc = "batch" /\ BatchOk'
    BY <1>1, <2>2, <2>4, CalmQueue
  <2> QED BY <2>1, <2>5 DEF Calm
<1> QED BY <1>3, <1>4

LEMMA CalmStart == ASSUME IInv, PassInv, Calm, upset = {}, Start PROVE Calm'
<1>1. /\ TypeInv /\ UNCHANGED <<step, open, facts>> /\ Trouble' = Trouble
      /\ exec \in Executor /\ Idle.pc = "idle" /\ 0 \notin Steps
  BY StartEffect, FreshType, NumStepsType DEF IInv, TypeInv, TypeOK, Trouble, Pcs
<1>2. CASE RecoverRunning
  <2>1. exec.pc = "recover" /\ Trouble = {} /\ UNCHANGED status
    BY <1>2 DEF RecoverRunning, Calm
  <2>2. ContextPack.running = {}
    BY <2>1 DEF ContextPack, Projected, Trouble
  <2>3. Goto("loop")
    BY <1>2, <2>2 DEF RecoverRunning
  <2> QED BY <1>1, <2>1, <2>3, GotoType DEF Calm, Pcs
<1>3. CASE ResumeFromCheckpoint
  <2>1. Restart(cp.step, FALSE, FALSE)
    BY <1>3 DEF ResumeFromCheckpoint
  <2>2. cp.action = "retry" /\ exec.pc = "idle" /\ UNCHANGED <<cp, past>>
    BY <1>3 DEF ResumeFromCheckpoint, CanResume
  <2>3. cp.step \in Steps
    BY <1>1, <2>2 DEF TypeInv, Anchored
  <2>4. status # "cancelled" => Trouble \subseteq {cp.step}
    BY <2>2 DEF Calm, RestOk
  <2> QED BY <1>1, <2>1, <2>2, <2>3, <2>4, CalmRestart
<1>4. CASE Approved
  <2>1. exec.pc = "approved" /\ UNCHANGED <<cp, past>> /\ ApprovedOk
    BY <1>4 DEF Approved, Calm
  <2>2. CASE exec.queue = <<>>
    <3>1. /\ status' = RuntimeStatus(status, "running")
          /\ exec' = IF status' = "running" THEN [Idle EXCEPT !.pc = "loop"] ELSE Idle
      BY <1>4, <2>2 DEF Approved
    <3>2. CASE status = "cancelled"
      <4>1. status' = "cancelled" /\ exec' = Idle
        BY <3>1, <3>2 DEF RuntimeStatus, OperatorStop
      <4> QED BY <1>1, <4>1 DEF Calm, RestOk
    <3>3. CASE status # "cancelled"
      <4>1. status' = "running" /\ Trouble = {}
        BY <2>1, <2>2, <3>1, <3>3 DEF RuntimeStatus, OperatorStop, Calm, ApprovedOk
      <4>2. exec'.pc = "loop"
        BY <3>1, <4>1, FreshType DEF Pcs
      <4> QED BY <1>1, <4>1, <4>2 DEF Calm
    <3> QED BY <3>2, <3>3
  <2>3. CASE exec.queue # <<>>
    <3>1. PICK s \in Steps : exec.queue = <<s>>
      BY <1>1, <2>1, <2>3 DEF TypeInv
    <3>2. Restart(exec.queue[1], TRUE, exec.again)
      BY <1>4, <2>3 DEF Approved
    <3>3. exec.queue[1] = s
      BY <3>1
    <3>4. Restart(s, TRUE, exec.again)
      BY <3>2, <3>3, Zenon
    <3>5. exec.again \in BOOLEAN
      BY <1>1 DEF Executor
    <3>6. status # "cancelled" => Trouble \subseteq {s}
      BY <2>1, <2>3, <3>3 DEF ApprovedOk
    <3> QED BY <1>1, <2>1, <3>4, <3>5, <3>6, CalmRestart
  <2> QED BY <2>2, <2>3
<1>5. CASE NextBatch
  <2> DEFINE batch == ExecutionBatch(Ready)
  <2>1. exec.pc = "pack" /\ Len(Ready) > 0 /\ Queue(batch, FALSE, FALSE) /\ UNCHANGED status
        /\ Trouble = {}
    BY <1>5 DEF NextBatch, Calm
  <2>2. IsBatch(batch)
    BY <1>1, <2>1, ReadyBatch
  <2> HIDE DEF batch
  <2>3. exec'.pc = "batch" /\ BatchOk'
    BY <1>1, <2>1, <2>2, CalmQueue
  <2> QED BY <2>1, <2>3 DEF Calm
<1> QED BY <1>2, <1>3, <1>4, <1>5 DEF Start

\* An answer is to the step of the checkpoint, which is all that is open.
LEMMA CalmAnswer == ASSUME IInv, PassInv, Calm, upset' = {}, Answering PROVE Calm'
<1>1. /\ TypeInv /\ 0 \notin Steps /\ UNCHANGED <<status, step>> /\ Trouble' = Trouble
      /\ upset = {} /\ exec.pc = "idle"
  BY NumStepsType, AnswerLeaves DEF IInv, Trouble
<1>2. PICK c \in open \cup {cp} :
          /\ exec'.pc = "approved"
          /\ \/ /\ c.action = "none" /\ exec'.queue = <<>>
                /\ ApprovalCriteria(c.blocked) # {}
             \/ /\ c.action \in {"ask_user", "alternative"} /\ c.step \in Steps
                /\ exec'.queue = <<c.step>>
  <2>1. PICK c \in open \cup past \cup {cp} : Approve(c) \/ ResumeWithAlternative(c)
    BY DEF Answering
  <2>2. Answer(c) /\ Answerable(c) /\ Anchored(c)
    BY <1>1, <2>1 DEF Approve, ResumeWithAlternative, Answerable, TypeInv
  <2>3. c \in open \cup {cp}
    BY <2>2 DEF Answer
  <2>4. ASSUME NEW steps, NEW again, TakeUp(steps, again)
        PROVE  exec'.pc = "approved" /\ exec'.queue = steps
    BY <2>4 DEF TakeUp, Idle
  <2>5. /\ exec'.pc = "approved"
        /\ exec'.queue = IF c.action = "none" THEN <<>> ELSE <<c.step>>
    BY <2>1, <2>4 DEF Approve, ResumeWithAlternative
  <2> QED BY <2>2, <2>3, <2>5 DEF Answerable, Anchored
<1>3. ASSUME c.action = "none", ApprovalCriteria(c.blocked) # {} PROVE Trouble = {}
  <2>1. c.blocked # {} /\ c.step = 0
    BY <1>1, <1>3 DEF ApprovalCriteria, TypeInv, Anchored
  <2>2. PlanPassed
    BY <1>1, <2>1 DEF PassInv
  <2> QED BY <2>2 DEF PlanPassed, Trouble
<1>4. ASSUME status # "cancelled", c.action # "none", c.step \in Steps
      PROVE  Trouble \subseteq {c.step}
  <2>1. Trouble \subseteq {cp.step}
    BY <1>1, <1>4 DEF Calm, RestOk
  <2>2. CASE c \in open
    <3>1. step[c.step] = "blocked"
      BY <1>1, <1>4, <2>2 DEF IInv, AnchorInv, InteractionAnchor
    <3>2. c.step \in Trouble
      BY <1>4, <3>1 DEF Trouble
    <3> QED BY <2>1, <3>2
  <2> QED BY <2>1, <2>2
<1>5. ApprovedOk'
  <2>1. CASE exec'.queue = <<>> /\ c.action = "none" /\ ApprovalCriteria(c.blocked) # {}
    BY <1>1, <1>3, <2>1 DEF ApprovedOk
  <2>2. CASE exec'.queue = <<c.step>> /\ c.action # "none" /\ c.step \in Steps
    <3>1. exec'.queue[1] = c.step /\ exec'.queue # <<>>
      BY <2>2
    <3> QED BY <1>1, <1>4, <2>2, <3>1 DEF ApprovedOk
  <2> QED BY <1>2, <2>1, <2>2
<1> QED BY <1>1, <1>2, <1>5 DEF Calm

LEMMA CalmRun == ASSUME IInv, Calm, Run PROVE Calm'
<1>1. /\ UNCHANGED step /\ exec.pc = "submitted" /\ exec'.pc = "loop"
      /\ status' = RuntimeStatus(status, "running")
  BY RunEffect DEF IInv
<1> QED BY <1>1 DEF Calm, Trouble, RuntimeStatus, OperatorStop

LEMMA CalmEvaluate == ASSUME IInv, PassInv, Calm, upset = {}, Evaluate PROVE Calm'
<1>1. TypeInv /\ UNCHANGED <<status, step>> /\ exec.pc = "finish" /\ Trouble' = Trouble
  BY EvaluateEffect DEF IInv, Trouble
<1>2. ContextPack.incomplete = {}
  BY <1>1 DEF PassInv, PlanPassed, ContextPack, Incomplete, Projected
<1>3. Goto("verdict") /\ exec \in Executor
  BY <1>1, <1>2 DEF Evaluate, TypeInv, TypeOK
<1> QED BY <1>1, <1>3, GotoType DEF Calm, Pcs

LEMMA CalmControl ==
    ASSUME IInv, Calm, NEW target \in {"paused", "running", "cancelled"}, Control(target),
           upset' = {}
    PROVE  Calm'
<1>1. UNCHANGED <<step, exec, task>> /\ status' = "cancelled" /\ Trouble' = Trouble
  BY ControlEffect DEF IInv, Control, Trouble
<1>2. \A s \in Steps : Failed(s)' <=> Failed(s)
  BY <1>1 DEF Failed
<1>3. BatchOk => BatchOk'
  BY <1>1, <1>2 DEF BatchOk
<1> QED BY <1>1, <1>3 DEF Calm, RestOk, ApprovedOk

LEMMA CalmEndBatch == ASSUME IInv, Calm, EndBatch PROVE Calm'
<1>1. /\ TypeInv /\ UNCHANGED <<status, step, open, cp,
                                past>> /\ Trouble' = Trouble /\ exec.pc = "batch"
      /\ \A s \in Steps : task[s].phase \in {"none", "done"}
      /\ BatchOk /\ Idle.pc = "idle" /\ 0 \notin Steps
  BY EndBatchEffect, FreshType, NumStepsType DEF IInv, Trouble, Calm, Pcs
<1>2. \A s \in Trouble : task[s].phase = "done" /\ Failed(s)
  <2> SUFFICES ASSUME NEW s \in Trouble PROVE task[s].phase = "done" /\ Failed(s)
    OBVIOUS
  <2>1. s \in Steps /\ step[s] # "passed" /\ task[s].phase = "done"
    BY <1>1 DEF Trouble, BatchOk
  <2> QED BY <2>1 DEF IInv, StepInv, StepOk, Judged
<1>3. CASE \E s \in Steps : task[s].phase = "done" /\ Failed(s)
  <2>1. PICK s \in Steps : task[s].phase = "done" /\ Failed(s)
    BY <1>3
  <2>2. exec' = Idle
    BY <2>1 DEF EndBatch
  <2>3. Trouble \subseteq {s}
    BY <1>1, <1>2, <2>1 DEF BatchOk, Judged, Trouble
  <2>4. CASE status = "cancelled"
    BY <1>1, <2>2, <2>4 DEF Calm, RestOk
  <2>5. CASE status # "cancelled"
    <3>1. /\ Kept(s) /\ status = FailureStatus(task[s].outcome)
          /\ task[s].outcome = "confirm" => \E i \in open : i.action = "ask_user"
      BY <1>1, <2>1, <2>5 DEF BatchOk, FailureOk
    <3>2. task[s].outcome \in {"ok", "confirm"} \cup FailureKinds
      BY <1>1, <2>1 DEF TypeInv, TypeOK, Progress, Failed
    <3>3. /\ status \in {"waiting_user", "recovering", "failed"}
          /\ status = "waiting_user" => task[s].outcome = "confirm"
          /\ status = "recovering" => task[s].outcome \in {"retry", "alternative", "read"}
      BY <3>1 DEF FailureStatus
    <3>4. task[s].outcome \in {"retry", "alternative", "read"} =>
              RecoveryAction(task[s].outcome) = task[s].outcome
      BY DEF RecoveryAction
    <3>5. status = "recovering" => cp.action \in {"retry", "alternative", "read"}
      BY <3>1, <3>3, <3>4 DEF Kept
    <3>6. status = "waiting_user" => AnswerLeft'
      BY <1>1, <3>1, <3>3 DEF AnswerLeft, DeadEnd
    <3> QED BY <1>1, <2>2, <2>3, <3>1, <3>3, <3>5, <3>6 DEF Calm, RestOk, Kept
  <2> QED BY <2>4, <2>5
<1>4. CASE ~ \E s \in Steps : task[s].phase = "done" /\ Failed(s)
  <2>1. Trouble = {} /\ exec'.pc = "loop"
    <3>1. Trouble = {}
      BY <1>2, <1>4 DEF Trouble
    <3>2. exec' = [exec EXCEPT !.pc = "loop",
                       !.local = @ \cup {s \in Steps : task[s].phase = "done"},
                       !.queue = <<>>, !.confirmed = FALSE, !.again = FALSE]
      BY <1>4 DEF EndBatch
    <3>3. exec \in Executor
      BY <1>1 DEF TypeInv, TypeOK
    <3> QED BY <3>1, <3>2, <3>3 DEF Executor
  <2> QED BY <1>1, <2>1 DEF Calm
<1> QED BY <1>3, <1>4

\* How a failure's status is settled: its question follows, or nothing.
LEMMA SettleCalm ==
    ASSUME TypeInv, NEW s \in Steps, SettleStep(s), status # "paused", status' # "cancelled"
    PROVE  /\ status # "cancelled" /\ status' = FailureStatus(task[s].outcome)
           /\ task'[s].phase = IF task[s].outcome = "confirm" THEN "settled" ELSE "done"
<1>1. status' = RuntimeStatus(status, FailureStatus(task[s].outcome))
  BY DEF SettleStep
<1>2. status # "cancelled" /\ status' = FailureStatus(task[s].outcome)
  BY <1>1 DEF RuntimeStatus, OperatorStop
<1>3. Advance(s, IF task[s].outcome = "confirm" THEN "settled" ELSE "done")
  BY <1>2 DEF SettleStep
<1> QED BY <1>2, <1>3, AdvanceType DEF Phases

\* A step of a batch that leaves the failures of the others as they are.
LEMMA OthersOk ==
    ASSUME TypeInv, NEW s \in Steps, NEW t \in Steps, t # s, Others(s), FailureOk(t),
           task[s].phase \in {"queued", "calling", "recorded", "saved"} =>
               task'[s].phase \in {"queued", "calling", "recorded", "saved"},
           task'[t].phase = "done" \/ UNCHANGED cp,
           task'[s].phase \in {"queued", "calling", "recorded", "saved"} \/ UNCHANGED cp,
           UNCHANGED status, open \subseteq open'
    PROVE  FailureOk(t)'
<1>1. task'[t] = task[t]
  BY DEF Others
<1>2. (\E u \in Steps : task[u].phase \in {"queued", "calling", "recorded", "saved"}) =>
          \E u \in Steps : task'[u].phase \in {"queued", "calling", "recorded", "saved"}
  BY DEF Others
<1> QED BY <1>1, <1>2 DEF FailureOk, Kept

LEMMA CalmBatch ==
    ASSUME IInv, Calm, upset' = {}, NEW s \in Steps, StepOfBatch(s)
    PROVE  Calm'
<1>1. /\ TypeInv /\ StepOk(s) /\ Others(s) /\ UNCHANGED exec /\ exec.pc = "batch"
      /\ task[s].phase # "none" /\ task'[s].phase # "none" /\ BatchOk /\ status # "paused"
  BY BatchPhases DEF IInv, StepInv, Calm
<1>2. \A t \in Steps : t # s => task'[t] = task[t] /\ (Failed(t)' <=> Failed(t))
  BY <1>1 DEF Others, Failed
<1>3. \A t \in Steps : task'[t].phase = "none" => t \notin Trouble'
  BY <1>1 DEF BatchOk, Trouble, Others
<1>4. task[s].phase \in Segment => \A t \in Steps : t # s => task[t].phase \notin Segment
  BY <1>1 DEF TypeInv
<1>5. ASSUME task'[s].phase \notin Judged \/ ~Failed(s)' \/ (task[s].phase \in Judged /\ Failed(s))
      PROVE  \A t, u \in Steps :
                Failed(t)' /\ Failed(u)' /\ task'[t].phase \in Judged /\ task'[u].phase \in Judged
                    => t = u
  BY <1>1, <1>2, <1>5 DEF BatchOk
<1>6. ASSUME BatchOk', status' # "paused" PROVE Calm'
  BY <1>1, <1>6 DEF Calm
<1>7. CASE StartStep(s) \/ \E outcome \in Outcomes(s, exec.confirmed) : ToolReturns(s, outcome)
  <2>1. /\ task'[s].phase \in {"calling", "recorded"} /\ UNCHANGED <<status, cp, past,
                                                                     open>>
    BY <1>1, <1>7, StartStepEffect, ToolReturnsEffect
  <2>2. ASSUME status # "cancelled", NEW t \in Steps, Failed(t)' PROVE FailureOk(t)'
    <3>1. CASE t = s
      BY <2>1, <3>1 DEF FailureOk
    <3>2. CASE t # s
      <4>1. FailureOk(t)
        BY <1>1, <1>2, <2>2, <3>2 DEF BatchOk
      <4> QED BY <1>1, <2>1, <3>2, <4>1, OthersOk
    <3> QED BY <3>1, <3>2
  <2>3. BatchOk'
    BY <1>3, <1>5, <2>1, <2>2 DEF BatchOk, Judged
  <2> QED BY <1>1, <1>6, <2>1, <2>3
<1>8. CASE SaveCheckpoint(s)
  <2>1. /\ task[s].phase = "recorded" /\ task'[s].phase = "saved"
        /\ task'[s].outcome = task[s].outcome /\ UNCHANGED <<status, open>>
        /\ task[s].outcome \in {"ok", "confirm"} \cup FailureKinds
        /\ cp' = IF Failed(s) THEN CheckpointOf(RecoveryAction(task[s].outcome), s, {})
                 ELSE NoFailure
    BY <1>1, <1>8, SaveCheckpointEffect
  <2>2. ASSUME status # "cancelled", NEW t \in Steps, Failed(t)' PROVE FailureOk(t)'
    <3>1. CASE t = s
      <4>1. Failed(s)
        BY <2>1, <2>2, <3>1 DEF Failed
      <4>2. RecoveryAction(task[s].outcome) \in
                {"ask_user", "retry", "alternative", "read", "manual_review", "stop"}
        BY <2>1, <4>1, OutcomeTypes DEF Failed, Succeeds
      <4>3. cp'.step = s /\ cp'.action = RecoveryAction(task'[s].outcome)
        BY <2>1, <4>1, <4>2, CheckpointType
      <4> QED BY <2>1, <3>1, <4>3 DEF FailureOk, Kept
    <3>2. CASE t # s
      <4>1. FailureOk(t) /\ task'[t] = task[t] /\ task[t].phase \notin Segment
        BY <1>1, <1>2, <1>4, <2>1, <2>2, <3>2 DEF BatchOk, Segment
      <4>2. CASE task[t].phase = "done"
        BY <1>1, <2>1, <3>2, <4>1, <4>2, OthersOk
      <4>3. CASE task[t].phase # "done"
        BY <4>1, <4>3 DEF FailureOk, Segment
      <4> QED BY <4>2, <4>3
    <3> QED BY <3>1, <3>2
  <2>3. BatchOk'
    BY <1>3, <1>5, <2>1, <2>2 DEF BatchOk, Judged
  <2> QED BY <1>1, <1>6, <2>1, <2>3
<1>9. CASE VerifyStep(s)
  <2>1. /\ task[s].phase = "saved" /\ UNCHANGED <<status, cp, past, open>>
        /\ task'[s].phase = IF Failed(s) THEN "verified" ELSE "done"
        /\ task'[s].outcome = task[s].outcome
    BY <1>1, <1>9, VerifyStepEffect
  <2>2. \A t \in Steps : t # s => ~Failed(t)
    BY <1>9 DEF VerifyStep
  <2>3. Failed(s)' <=> Failed(s)
    BY <2>1 DEF Failed
  <2>4. ASSUME status # "cancelled", NEW t \in Steps, Failed(t)' PROVE FailureOk(t)'
    <3>1. t = s /\ Failed(s)
      BY <1>2, <2>2, <2>3, <2>4
    <3>2. Kept(s)
      BY <1>1, <2>1, <2>4, <3>1 DEF BatchOk, FailureOk
    <3> QED BY <2>1, <3>1, <3>2 DEF FailureOk, Kept
  <2>5. BatchOk'
    BY <1>2, <1>3, <2>1, <2>2, <2>4 DEF BatchOk
  <2> QED BY <1>1, <1>6, <2>1, <2>5
<1>10. CASE SettleStep(s)
  <2>1. /\ task[s].phase = "verified" /\ task'[s].phase \in {"settled", "done"}
        /\ task'[s].outcome = task[s].outcome /\ UNCHANGED <<cp, past, open>>
        /\ status' = RuntimeStatus(status, FailureStatus(task[s].outcome))
        /\ FailureStatus(task[s].outcome) \in {"waiting_user", "recovering", "failed"}
    BY <1>1, <1>10, SettleStepEffect
  <2>2. Failed(s) /\ (Failed(s)' <=> Failed(s))
    BY <1>1, <2>1 DEF StepOk, Failed
  <2>3. status' # "paused"
    BY <1>1, <2>1 DEF RuntimeStatus
  <2>4. ASSUME status' # "cancelled", NEW t \in Steps, Failed(t)' PROVE FailureOk(t)'
    <3>1. /\ status # "cancelled" /\ status' = FailureStatus(task[s].outcome)
          /\ task'[s].phase = IF task[s].outcome = "confirm" THEN "settled" ELSE "done"
      BY <1>1, <1>10, <2>4, SettleCalm
    <3>2. CASE t = s
      <4>1. Kept(s) /\ Kept(s)'
        BY <1>1, <2>1, <2>2, <3>1 DEF BatchOk, FailureOk, Kept
      <4>2. task[s].outcome = "confirm" => status' = "waiting_user"
        BY <3>1 DEF FailureStatus
      <4> QED BY <2>1, <3>1, <3>2, <4>1, <4>2 DEF FailureOk
    <3>3. CASE t # s
      <4>1. task[t].phase \notin Judged /\ task[t].phase \notin Segment /\ task'[t] = task[t]
        BY <1>1, <1>2, <1>4, <2>1, <2>2, <2>4, <3>3 DEF BatchOk, Judged, Segment
      <4> QED BY <4>1 DEF FailureOk, Judged, Segment
    <3> QED BY <3>2, <3>3
  <2>5. BatchOk'
    BY <1>3, <1>5, <2>1, <2>2, <2>4 DEF BatchOk, Judged
  <2> QED BY <1>6, <2>3, <2>5
<1>11. CASE OpenInteraction(s)
  <2> DEFINE new == Numbered("ask_user", s, {})
  <2>1. /\ task[s].phase = "settled" /\ task'[s].phase = "done" /\ TokenLeft
        /\ task'[s].outcome = task[s].outcome /\ UNCHANGED status
        /\ open' = open \cup {new}
        /\ cp' = IF cp = CheckpointOf("ask_user", s, {}) THEN new ELSE cp
    BY <1>1, <1>11, OpenInteractionEffect
  <2>2. new.action = "ask_user" /\ new.step = s
    BY <1>1, <2>1, TokenType
  <2> HIDE DEF new
  <2>3. Failed(s) /\ (Failed(s)' <=> Failed(s)) /\ task[s].outcome = "confirm"
    BY <1>1, <2>1 DEF StepOk, Failed
  <2>4. ASSUME status # "cancelled", NEW t \in Steps, Failed(t)' PROVE FailureOk(t)'
    <3>1. CASE t = s
      <4>1. Kept(s) /\ status = "waiting_user"
        BY <1>1, <2>1, <2>3, <2>4 DEF BatchOk, FailureOk
      <4>2. Kept(s)'
        BY <2>1, <2>2, <2>3, <4>1 DEF Kept, RecoveryAction
      <4>3. FailureStatus(task[s].outcome) = "waiting_user"
        BY <2>3 DEF FailureStatus
      <4> QED BY <2>1, <2>2, <3>1, <4>1, <4>2, <4>3 DEF FailureOk
    <3>2. CASE t # s
      <4>1. task[t].phase \notin Judged /\ task[t].phase \notin Segment /\ task'[t] = task[t]
        BY <1>1, <1>2, <1>4, <2>1, <2>3, <2>4, <3>2 DEF BatchOk, Judged, Segment
      <4> QED BY <4>1 DEF FailureOk, Judged, Segment
    <3> QED BY <3>1, <3>2
  <2>5. BatchOk'
    BY <1>3, <1>5, <2>1, <2>3, <2>4 DEF BatchOk, Judged
  <2> QED BY <1>1, <1>6, <2>1, <2>5
<1> QED BY <1>7, <1>8, <1>9, <1>10, <1>11 DEF StepOfBatch

LEMMA CalmInit == Init => PassInv /\ CalmInv
<1> SUFFICES ASSUME Init PROVE PassInv /\ CalmInv
  OBVIOUS
<1>1. /\ Trouble = {} /\ open = {} /\ status = "created" /\ cp.blocked = {}
  BY CheckpointType DEF Init, Trouble
<1>2. exec.pc \in {"idle", "submitted"}
  <2>1. Idle.pc = "idle" /\ Submitted.pc = "submitted"
    BY DEF Idle, Submitted
  <2> QED BY <2>1 DEF Init
<1> QED BY <1>1, <1>2 DEF PassInv, CalmInv, Calm, RestOk

LEMMA CalmStep == ASSUME IInv, PassInv, CalmInv, [Next]_vars PROVE CalmInv'
<1> SUFFICES ASSUME upset' = {} PROVE Calm'
  BY DEF CalmInv
<1>1. upset = {} /\ Calm
  BY UpsetGrows DEF CalmInv
<1>2. ASSUME UNCHANGED vars PROVE Calm'
  BY <1>1, <1>2 DEF vars, Calm, RestOk, ApprovedOk, BatchOk, FailureOk, Kept, Failed, Trouble,
                    AnswerLeft, DeadEnd
<1>3. ~Crash
  BY CrashEffect
<1> QED BY <1>1, <1>2, <1>3, Actions, CalmRun, CalmMove, CalmStart, CalmEvaluate, CalmEndBatch,
           CalmAnswer, CalmBatch, CalmControl

LEMMA CalmHolds == Spec => []CalmInv
<1>1. IInv /\ PassInv /\ CalmInv /\ [Next]_vars => PassInv' /\ CalmInv'
  BY PassInvStep, CalmStep
<1> QED BY <1>1, Inductive, CalmInit, PTL DEF Spec

\* The continuation of a run that nothing disturbed always finds a step of the
\* plan to go on with: no failure, question or retry makes it stall.
THEOREM StallsAreExplained == Spec => []StallIsExplained
<1>1. CalmInv => StallIsExplained
  BY DEF CalmInv, Calm, StallIsExplained
<1> QED BY <1>1, CalmHolds, PTL

\* An undisturbed run that waits for the user can be answered, if it does not wait
\* for a read or a date.
THEOREM WaitsAreAnswerable == Spec => []WaitingIsAnswerable
<1>1. CalmInv => WaitingIsAnswerable
  <2> SUFFICES ASSUME CalmInv, ParkedKind = "waiting_user", exec.pc = "idle", upset = {}
               PROVE  AnswerLeft
    BY DEF WaitingIsAnswerable, AnswerLeft
  <2>1. status = "waiting_user"
    BY DEF ParkedKind
  <2> QED BY <2>1 DEF CalmInv, Calm, RestOk
<1> QED BY <1>1, CalmHolds, PTL
=============================================================================
