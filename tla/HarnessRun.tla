----------------------------- MODULE HarnessRun -----------------------------
(***************************************************************************)
(* One run of HarnessRuntime (runtime/lifecycle.py): its plan executed in  *)
(* batches, failures turned into checkpoints, statuses and interactions,   *)
(* and the entry points that take the run up again: resume_incomplete_run, *)
(* resume_from_checkpoint, resume_with_alternative_tool and                *)
(* resume_with_user_approval.                                              *)
(*                                                                         *)
(* What persists: the status, the projection of each step (the fold of     *)
(* PLAN_STEP_STARTED and PLAN_STEP_VERIFIED), the latest checkpoint, the   *)
(* earlier ones an answer can still name, the open interactions and the    *)
(* acceptance facts (folds of the events).  One executor at a time works   *)
(* on the run: DurableWorker says when that is so.  Its store calls are    *)
(* the steps of this module, a crash may come between any two, and an      *)
(* operator may pause, resume or cancel at any of them.  RunControl models *)
(* the control actions in their own steps.                                 *)
(*                                                                         *)
(* Bounds: MaxCrashes, MaxControls (pauses, resumes and cancels), MaxOpen  *)
(* interactions open at once, and MaxAnswers answers to checkpoints the    *)
(* run has moved on from (with none left they are not kept).               *)
(***************************************************************************)
EXTENDS TaskRun, PlanSteps

CONSTANTS MaxCrashes, MaxControls, MaxOpen, MaxAnswers

ASSUME BoundAssumption ==
    MaxCrashes \in Nat /\ MaxControls \in Nat /\ MaxOpen \in Nat /\ MaxAnswers \in Nat

VARIABLES
    status,     \* TaskRun.status
    step,       \* step -> its projected StepStatus
    cp,         \* the latest checkpoint
    past,       \* earlier checkpoints, without open interaction, one can still answer
    open,       \* the open interactions, each with what its checkpoint says
    facts,      \* acceptance facts and evidence in the history
    exec,       \* the executor
    task,       \* step -> its progress in the batch being executed
    crashes, controls, answers,
    upset,      \* history: what disturbed the run so far
    proven,     \* history: steps a success of which brought evidence
    verified,   \* history: steps that have passed at some time
    late        \* history: batches begun on a cancelled run, up to 2

vars == <<status, step, cp, past, open, facts, exec, task, crashes, controls, answers,
          upset, proven, verified, late>>

StepStatus == {"pending", "running", "passed", "failed", "blocked"}

\* A checkpoint: the failure's action and step (0: no tool result to resume
\* from), the criteria its acceptance was blocked by, and the number of the
\* interaction anchored to it, 0 if it has none.
Checkpoint ==
    [action : {"absent", "none", "ask_user", "retry", "alternative", "read",
               "manual_review", "stop"},
     step : 0 .. NumSteps, blocked : SUBSET Criteria, token : 0 .. MaxOpen]

CheckpointOf(action, s, blocked) ==
    [action |-> action, step |-> s, blocked |-> blocked, token |-> 0]

NoFailure == CheckpointOf("none", 0, {})

Phases == {"none", "queued", "calling", "recorded", "saved", "verified", "settled", "done"}
NoTask == [phase |-> "none", outcome |-> "none"]
NoTasks == [s \in Steps |-> NoTask]

\* The entry of `run' keeps its own account of completed steps (local); every
\* other entry goes by the projection.
Idle == [pc |-> "idle", local |-> {}, inProcess |-> FALSE, queue |-> <<>>,
         confirmed |-> FALSE, again |-> FALSE]
Submitted == [Idle EXCEPT !.pc = "submitted", !.inProcess = TRUE]

\* `evidence' is what tool results brought, `claimed' what the caller of `run' says
\* there is.
Facts ==
    [evidence : SUBSET Steps, claimed : SUBSET RefsOf("evidence"),
     tests : SUBSET RefsOf("test_result"),
     approvals : SUBSET Criteria, fresh : {"absent", "fresh", "stale"}]

Executor ==
    [pc : {"idle", "submitted", "recover", "loop", "pack", "batch", "approved", "finish",
           "verdict", "stalled"},
     local : SUBSET Steps, inProcess : BOOLEAN, queue : Seq(Steps), confirmed : BOOLEAN,
     again : BOOLEAN]

Progress == [phase : Phases, outcome : {"none", "ok", "confirm"} \cup FailureKinds]

TypeOK ==
    /\ status \in TaskRunStatus
    /\ step \in [Steps -> StepStatus]
    /\ cp \in Checkpoint
    /\ past \subseteq Checkpoint /\ open \subseteq Checkpoint
    /\ facts \in Facts
    /\ exec \in Executor
    /\ task \in [Steps -> Progress]
    /\ crashes \in 0 .. MaxCrashes /\ controls \in 0 .. MaxControls
    /\ answers \in 0 .. MaxAnswers
    /\ upset \subseteq {"crash", "control", "batch", "answer"} /\ late \in 0 .. 2
    /\ proven \subseteq Steps /\ verified \subseteq Steps

\* submit: contract, plan and a created run, for a worker to claim or with the
\* process that called `run' about to execute it.
Init ==
    /\ status = "created"
    /\ step = [s \in Steps |-> "pending"]
    /\ cp = CheckpointOf("absent", 0, {})
    /\ past = {} /\ open = {}
    /\ facts = [evidence |-> {}, claimed |-> {}, tests |-> {}, approvals |-> {},
                fresh |-> "absent"]
    /\ exec \in {Idle, Submitted}
    /\ task = NoTasks
    /\ crashes = 0 /\ controls = 0 /\ answers = 0
    /\ upset = {} /\ late = 0 /\ proven = {} /\ verified = {}

budgets == <<crashes, controls, answers>>
history == <<step, open, facts, proven, verified>>
Goto(pc) == exec' = [exec EXCEPT !.pc = pc]

----------------------------------------------------------------------------
(* Entry points. *)

\* _record_acceptance_facts, merged with what the events say already.
RecordFacts(claimed, tests, approvals, fresh) ==
    facts' = [facts EXCEPT !.claimed = @ \cup claimed, !.tests = @ \cup tests,
                           !.approvals = @ \cup approvals,
                           !.fresh = IF fresh = "absent" THEN @ ELSE fresh]

\* run, just after submit: facts supplied by the caller, then RUNNING.  (The
\* other entries take facts too; no caller in src gives them any.)
Run ==
    /\ exec.pc = "submitted"
    /\ \E claimed \in SUBSET RefsOf("evidence"), tests \in SUBSET RefsOf("test_result"),
         approvals \in SUBSET OfType("human_approval"), fresh \in {"absent", "fresh", "stale"} :
            RecordFacts(claimed, tests, approvals, fresh)
    /\ status' = RuntimeStatus(status, "running")
    /\ Goto("loop")
    /\ UNCHANGED <<step, cp, past, open, task, proven, verified, budgets, upset, late>>

\* resume_incomplete_run, as the worker calls it.
ResumeIncomplete ==
    /\ exec.pc = "idle"
    /\ status \in {"created", "running"}
    /\ status' = "running"
    /\ exec' = [Idle EXCEPT !.pc = "recover"]
    /\ UNCHANGED <<history, cp, past, task, budgets, upset, late>>

Queue(steps, confirmed, again) ==
    /\ exec' = [exec EXCEPT !.pc = "batch", !.queue = steps, !.confirmed = confirmed,
                            !.again = again]
    /\ task' = [s \in Steps |->
                   IF \E i \in 1 .. Len(steps) : steps[i] = s
                   THEN [phase |-> "queued", outcome |-> "none"] ELSE NoTask]
    /\ late' = IF status = "cancelled" /\ late < 2 THEN late + 1 ELSE late

\* What an entry point takes the user's answer to.
Answerable(c) ==
    \/ c.action \in {"ask_user", "alternative"}
    \/ c.action = "none" /\ ApprovalCriteria(c.blocked) # {}

\* Checkpoints that are no longer the latest, nor anchor an open interaction.
MoveOn(S) ==
    past' = IF answers < MaxAnswers THEN past \cup {c \in S : Answerable(c) /\ c.token = 0}
            ELSE {}

\* _create_checkpoint
Save(c) == cp' = c /\ MoveOn({cp})

\* _fail_stalled_continuation: a checkpoint that asks for a manual review.
Stall ==
    /\ Save(CheckpointOf("manual_review", 0, {}))
    /\ Goto("stalled")

\* LongTaskProjector._apply_blocks: a step that waits for the answer to an open
\* interaction is blocked.
Projected ==
    [s \in Steps |-> IF step[s] \in {"pending", "running"} /\ \E i \in open : i.step = s
                     THEN "blocked" ELSE step[s]]

\* _incomplete_step_ids
Incomplete == {s \in Steps : Projected[s] # "passed"}

\* ContextPackBuilder.build: what a continuation knows of the run, all of it
\* computed from the history.
ContextPack ==
    [frontier   |-> TopologicalOrder(Frontier(Projected)),
     running    |-> {s \in Steps : Projected[s] = "running"},
     incomplete |-> Incomplete,
     pending    |-> open]

\* The steps that were running when the last executor stopped are executed
\* again as one batch, if each of them may overlap with the others.
RecoverRunning ==
    /\ exec.pc = "recover"
    /\ LET running == ContextPack.running
       IN  \/ /\ running = {} /\ Goto("loop")
              /\ UNCHANGED <<cp, past, task, late>>
           \/ /\ running # {}
              /\ Cardinality(running) = 1 \/ running \subseteq ParallelSafe
              /\ Queue(TopologicalOrder(running), FALSE, FALSE)
              /\ UNCHANGED <<cp, past>>
           \/ /\ Cardinality(running) > 1 /\ ~ running \subseteq ParallelSafe
              /\ Stall
              /\ UNCHANGED <<task, late>>
    /\ UNCHANGED <<status, history, budgets, upset>>

\* _set_status(RUNNING) of an entry that repeats one step; it returns if the
\* run is paused or cancelled.
Restart(s, confirmed, again) ==
    /\ status' = RuntimeStatus(status, "running")
    /\ IF status' = "running" THEN Queue(<<s>>, confirmed, again)
       ELSE exec' = Idle /\ UNCHANGED <<task, late>>

\* Mutant: the rest of the plan is taken up without the failed step.
ResumeFromCheckpoint_Skips ==
    /\ exec.pc = "idle"
    /\ status = "recovering"
    /\ CanResume(cp.action) /\ cp.step # 0
    /\ status' = "running"
    /\ exec' = [Idle EXCEPT !.pc = "loop"]
    /\ UNCHANGED <<history, cp, past, task, budgets, upset, late>>

\* resume_from_checkpoint, called by the worker for a recovering run, which names
\* no checkpoint: the latest.  (No other caller in src.)
ResumeFromCheckpoint ==
    /\ exec.pc = "idle"
    /\ status = "recovering"
    /\ CanResume(cp.action) /\ cp.step # 0
    /\ Restart(cp.step, FALSE, FALSE)
    /\ UNCHANGED <<history, cp, past, budgets, upset>>

\* The same, when the latest checkpoint does not allow a retry: a user action
\* parks the run, anything else only leaves an event.
ResumeRefused ==
    /\ exec.pc = "idle"
    /\ status = "recovering"
    /\ cp.action \in {"ask_user", "read", "alternative", "manual_review"}
    /\ status' = RuntimeStatus(status, "waiting_user")
    /\ UNCHANGED <<history, cp, past, exec, task, budgets, upset, late>>

\* _select_checkpoint: the latest, that of an open interaction, or any other of the
\* run; only an answer to one the run has moved on from is counted.
Answer(c) ==
    \/ c \in open \cup {cp} /\ UNCHANGED <<answers, upset>>
    \/ /\ c \in past \ {cp} /\ answers < MaxAnswers
       /\ answers' = answers + 1 /\ upset' = upset \cup {"answer"}

\* The executor that takes an answer up.  `again': its checkpoint may have been
\* answered before.
TakeUp(steps, again) ==
    exec' = [Idle EXCEPT !.pc = "approved", !.queue = steps, !.again = again]

\* resume_with_alternative_tool, up to its _set_status.  The alternative tool is one
\* that needs no confirmation.
ResumeWithAlternative(c) ==
    /\ exec.pc = "idle"
    /\ c.action = "alternative"
    /\ Answer(c)
    /\ TakeUp(<<c.step>>, c # cp \/ "crash" \in upset)
    /\ UNCHANGED <<status, history, cp, past, task, crashes, controls, late>>

\* _resolve_checkpoint_interaction
ResolveInteraction(c) == open' = {i \in open : i.token # c.token}

\* resume_with_user_approval, up to the interaction it resolves.
Approve(c) ==
    /\ exec.pc = "idle"
    /\ c.action # "alternative" /\ Answerable(c)
    /\ Answer(c)
    /\ RecordFacts({}, {}, ApprovalCriteria(c.blocked), "absent")
    /\ ResolveInteraction(c)
    /\ LET answered == [c EXCEPT !.token = 0]
       IN  IF c = cp THEN cp' = answered /\ UNCHANGED past
           ELSE MoveOn({answered}) /\ UNCHANGED cp
    /\ TakeUp(IF c.action = "none" THEN <<>> ELSE <<c.step>>, c.token = 0)
    /\ UNCHANGED <<status, step, task, proven, verified, crashes, controls, late>>

\* Mutant: the answered step is executed whatever the run's status says.
Approved_NoStatus ==
    /\ exec.pc = "approved"
    /\ IF exec.queue = <<>>
       THEN exec' = [Idle EXCEPT !.pc = "loop"] /\ UNCHANGED <<task, late>>
       ELSE Queue(exec.queue, TRUE, exec.again)
    /\ UNCHANGED <<status, history, cp, past, budgets, upset>>

\* Both from _set_status on, which puts no condition on the status of the run: the
\* step once more, confirmed, or the rest of the plan.
Approved ==
    /\ exec.pc = "approved"
    /\ IF exec.queue = <<>>
       THEN /\ status' = RuntimeStatus(status, "running")
            /\ exec' = IF status' = "running" THEN [Idle EXCEPT !.pc = "loop"] ELSE Idle
            /\ UNCHANGED <<task, late>>
       ELSE Restart(exec.queue[1], TRUE, exec.again)
    /\ UNCHANGED <<history, cp, past, budgets, upset>>

----------------------------------------------------------------------------
(* The loop over the plan. *)

\* Mutant: the loop does not look for a pause or a cancellation.
CheckStop_Never ==
    /\ exec.pc = "loop"
    /\ Goto("pack")
    /\ UNCHANGED <<status, history, cp, past, task, budgets, upset, late>>

\* _cooperative_stop_result
CheckStop ==
    /\ exec.pc = "loop"
    /\ IF status \in OperatorStop THEN exec' = Idle ELSE Goto("pack")
    /\ UNCHANGED <<status, history, cp, past, task, budgets, upset, late>>

\* The frontier of `run' comes from its own account, in plan order.
LocalFrontier == {s \in Steps \ exec.local : Deps[s] \subseteq exec.local}

Ready == IF exec.inProcess THEN PlanOrder(LocalFrontier)
         ELSE ContextPack.frontier

NextBatch ==
    /\ exec.pc = "pack"
    /\ exec.inProcess \/ ContextPack.pending = {}
    /\ Len(Ready) > 0
    /\ Queue(ExecutionBatch(Ready), FALSE, FALSE)
    /\ UNCHANGED <<status, history, cp, past, budgets, upset>>

AllPassed ==
    /\ exec.pc = "pack"
    /\ IF exec.inProcess THEN exec.local = Steps ELSE ContextPack.incomplete = {}
    /\ Goto("finish")
    /\ UNCHANGED <<status, history, cp, past, task, budgets, upset, late>>

\* Unfinished steps and an open interaction: back to the user.
WaitForUser ==
    /\ exec.pc = "pack" /\ ~exec.inProcess
    /\ ContextPack.incomplete # {} /\ ContextPack.pending # {}
    /\ status' = RuntimeStatus(status, "waiting_user")
    /\ exec' = Idle
    /\ UNCHANGED <<history, cp, past, task, budgets, upset, late>>

Stalled ==
    /\ exec.pc = "pack" /\ ~exec.inProcess
    /\ ContextPack.incomplete # {} /\ ContextPack.pending = {}
    /\ ContextPack.frontier = <<>>
    /\ Stall
    /\ UNCHANGED <<status, history, task, budgets, upset, late>>

FailStalled ==
    /\ exec.pc = "stalled"
    /\ status' = RuntimeStatus(status, "failed")
    /\ exec' = Idle
    /\ UNCHANGED <<history, cp, past, task, budgets, upset, late>>

----------------------------------------------------------------------------
(* One step of a batch (_execute_step).  The calls of a batch run under       *)
(* asyncio.gather: they start in order, and only the tool itself yields.      *)

Position(s) == CHOOSE i \in 1 .. Len(exec.queue) : exec.queue[i] = s
InSegment == \E s \in Steps : task[s].phase \in {"recorded", "saved", "verified", "settled"}
Failed(s) == task[s].outcome # "none" /\ ~Succeeds(s, task[s].outcome)
Advance(s, phase) == task' = [task EXCEPT ![s].phase = phase]

\* PLAN_STEP_STARTED; the outbox and the call follow (SideEffectOutbox).
StartStep(s) ==
    /\ exec.pc = "batch" /\ ~InSegment
    /\ task[s].phase = "queued"
    /\ \A t \in Steps : task[t].phase = "queued" => Position(s) <= Position(t)
    /\ step' = [step EXCEPT ![s] = "running"]
    /\ Advance(s, "calling")
    /\ UNCHANGED <<status, cp, past, open, facts, exec, proven, verified, budgets, upset,
                   late>>

\* The tool returns and TOOL_RESULT_RECORDED is appended with its evidence.  The
\* event of an answer is keyed by the checkpoint: of one answered before, the
\* history keeps the first result, and what this call holds is lost to a later one.
ToolReturns(s, outcome) ==
    /\ exec.pc = "batch" /\ ~InSegment
    /\ task[s].phase = "calling"
    /\ outcome \in Outcomes(s, exec.confirmed)
    /\ task' = [task EXCEPT ![s] = [phase |-> "recorded", outcome |-> outcome]]
    /\ \E brought \in (IF exec.again THEN SUBSET {s} ELSE {{s}}) :
          facts' = [facts EXCEPT !.evidence = IF IsEvidence(outcome) THEN @ \cup brought ELSE @]
    /\ proven' = IF outcome = "ok" THEN proven \cup {s} ELSE proven
    /\ UNCHANGED <<status, step, cp, past, open, exec, verified, budgets, upset, late>>

SaveCheckpoint(s) ==
    /\ task[s].phase = "recorded"
    /\ Save(IF Succeeds(s, task[s].outcome) THEN NoFailure
            ELSE CheckpointOf(RecoveryAction(task[s].outcome), s, {}))
    /\ Advance(s, "saved")
    /\ UNCHANGED <<status, history, exec, budgets, upset, late>>

\* PLAN_STEP_VERIFIED
VerifyStep(s) ==
    /\ task[s].phase = "saved"
    /\ LET passed == Succeeds(s, task[s].outcome)
       IN  /\ step' = [step EXCEPT ![s] = IF passed THEN "passed"
                                          ELSE FailedStepStatus(task[s].outcome)]
           /\ verified' = IF passed THEN verified \cup {s} ELSE verified
           /\ Advance(s, IF passed THEN "done" ELSE "verified")
    /\ upset' = IF \E t \in Steps \ {s} : Failed(t)
                THEN upset \cup {"batch"} ELSE upset
    /\ UNCHANGED <<status, cp, past, open, facts, exec, proven, budgets, late>>

\* The status the failure asks for; the run may be paused or cancelled.
SettleStep(s) ==
    /\ task[s].phase = "verified"
    /\ LET target == FailureStatus(task[s].outcome)
       IN  /\ status' = RuntimeStatus(status, target)
           /\ Advance(s, IF status' = target /\ task[s].outcome = "confirm"
                         THEN "settled" ELSE "done")
    /\ UNCHANGED <<history, cp, past, exec, budgets, upset, late>>

Token == CHOOSE n \in 1 .. MaxOpen : \A i \in open : i.token # n
TokenLeft == Cardinality(open) < MaxOpen

\* Mutant: no interaction is opened.
OpenInteraction_Never(s) ==
    /\ task[s].phase = "settled"
    /\ Advance(s, "done")
    /\ UNCHANGED <<status, step, cp, past, open, facts, exec, proven, verified, budgets,
                   upset, late>>

\* The interaction of a failure that asks the user, anchored to its checkpoint.
\* (Confirm-tier tools are not parallel-safe: the checkpoint is the latest.)
OpenInteraction(s) ==
    /\ task[s].phase = "settled"
    /\ TokenLeft
    /\ LET anchored == [CheckpointOf("ask_user", s, {}) EXCEPT !.token = Token]
       IN  /\ open' = open \cup {anchored}
           /\ cp' = IF cp = CheckpointOf("ask_user", s, {}) THEN anchored ELSE cp
           /\ UNCHANGED past
    /\ Advance(s, "done")
    /\ UNCHANGED <<status, step, facts, exec, proven, verified, budgets, upset, late>>

\* The batch is over: a failure ends the call, success goes on with the loop.
EndBatch ==
    /\ exec.pc = "batch"
    /\ \A s \in Steps : task[s].phase \in {"none", "done"}
    /\ LET ran == {s \in Steps : task[s].phase = "done"}
       IN  exec' = IF \E s \in ran : Failed(s) THEN Idle
                   ELSE [exec EXCEPT !.pc = "loop", !.local = @ \cup ran,
                                     !.queue = <<>>, !.confirmed = FALSE, !.again = FALSE]
    /\ task' = NoTasks
    /\ UNCHANGED <<status, history, cp, past, budgets, upset, late>>

----------------------------------------------------------------------------
(* Acceptance. *)

\* ACCEPTANCE_EVALUATED and the checkpoint that goes with the decision; a
\* blocked one opens an interaction.  With an unfinished step it is an error.
Evaluate ==
    /\ exec.pc = "finish"
    /\ IF ContextPack.incomplete # {} THEN exec' = Idle /\ UNCHANGED <<cp, past, open>>
       ELSE /\ CASE Decision(facts) = "completed" -> Save(NoFailure) /\ UNCHANGED open
                 [] Decision(facts) = "waiting_user" ->
                       /\ TokenLeft
                       /\ Save([CheckpointOf("none", 0, Blocked(facts))
                                   EXCEPT !.token = Token])
                       /\ open' = open \cup {cp'}
                 [] OTHER -> Save(CheckpointOf("stop", 0, {})) /\ UNCHANGED open
            /\ Goto("verdict")
    /\ UNCHANGED <<status, step, facts, task, proven, verified, budgets, upset, late>>

\* Mutant: the decision does not reach the status.
Conclude_NoStatus ==
    /\ exec.pc = "verdict"
    /\ exec' = Idle
    /\ UNCHANGED <<status, history, cp, past, task, budgets, upset, late>>

\* ... and the status that goes with it.
Conclude ==
    /\ exec.pc = "verdict"
    /\ status' = RuntimeStatus(status, Decision(facts))
    /\ exec' = Idle
    /\ UNCHANGED <<history, cp, past, task, budgets, upset, late>>

----------------------------------------------------------------------------
(* Operators and crashes. *)

\* Pause, resume and cancel leave a checkpoint of their own, without failure.
Control(target) ==
    /\ controls < MaxControls
    /\ status \in Allowed(target)
    /\ status' = target
    /\ Save(NoFailure)
    /\ controls' = controls + 1
    /\ upset' = IF target = "cancelled" THEN upset ELSE upset \cup {"control"}
    /\ UNCHANGED <<history, exec, task, crashes, answers, late>>

\* The process dies between two store calls, or the exception of a step that runs
\* alone reaches run_once.  (One of several leaves its siblings running beside the
\* next executor, asyncio.gather cancelling nobody: not modelled.)
Crash ==
    /\ crashes < MaxCrashes
    /\ exec.pc # "idle"
    /\ exec' = Idle
    /\ task' = NoTasks
    /\ crashes' = crashes + 1
    /\ upset' = upset \cup {"crash"}
    /\ UNCHANGED <<status, history, cp, past, controls, answers, late>>

----------------------------------------------------------------------------
\* ParkedRunScanner.inspect; its answers about leases are DurableWorker's matter.
ParkedKind ==
    CASE status = "paused"       -> "paused"
      [] status = "waiting_user" -> "waiting_user"
      [] status \in Terminal     -> "terminal"
      [] status = "recovering"   -> IF CanResume(cp.action) THEN "auto_retryable"
                                    ELSE "needs_operator"
      [] OTHER                   -> "running"

StepOfBatch(s) ==
    \/ StartStep(s) \/ (\E outcome \in Outcomes(s, exec.confirmed) : ToolReturns(s, outcome))
    \/ SaveCheckpoint(s) \/ VerifyStep(s) \/ SettleStep(s) \/ OpenInteraction(s)

ExecutorStep ==
    \/ Run \/ RecoverRunning \/ Approved
    \/ CheckStop \/ NextBatch \/ AllPassed \/ WaitForUser \/ Stalled \/ FailStalled
    \/ (\E s \in Steps : StepOfBatch(s)) \/ EndBatch
    \/ Evaluate \/ Conclude

WorkerTick == ResumeIncomplete \/ ResumeFromCheckpoint \/ ResumeRefused

Next ==
    \/ WorkerTick
    \/ (\E c \in open \cup past \cup {cp} : Approve(c) \/ ResumeWithAlternative(c))
    \/ ExecutorStep
    \/ (\E target \in {"paused", "running", "cancelled"} : Control(target))
    \/ Crash

Spec == Init /\ [][Next]_vars
FairSpec == Spec /\ WF_vars(ExecutorStep) /\ WF_vars(WorkerTick)

----------------------------------------------------------------------------
(* Properties. *)

\* No step is started, and none has been, before each of its dependencies has been
\* verified: neither the account `run' keeps nor the frontier computed from the
\* history after crashes, retries, answers and alternatives lets one through.
DependenciesFirst ==
    \A s \in Steps : step[s] # "pending" => Deps[s] \subseteq verified

\* Two tool calls of a run overlap only if both tools read only and have no
\* effects, which the persisted plan says too (DagExecutionPolicy); also when a
\* recovery executes what a dead process had in flight.
OverlapOnlyIfSafe ==
    \A s, t \in Steps :
        s # t /\ task[s].phase = "calling" /\ task[t].phase = "calling"
            => /\ \A u \in {s, t} : Tool[u].readOnly /\ ~Tool[u].effects
               /\ {s, t} \subseteq ParallelCandidates({s, t})

\* A completed run has every step verified and each criterion met, of every type:
\* by evidence a successful call brought or the caller claimed, a test the caller
\* reported, an approval of the caller or the user, and references of a fresh date.
\* Nothing else counts, whatever failed, was retried or was answered twice.
CompletedIsVerified ==
    status = "completed" =>
        /\ \A s \in Steps : step[s] = "passed"
        /\ \A c \in Criteria :
              CASE CriterionType[c] = "evidence" ->
                      CriterionRefs[c] \subseteq proven \cup facts.claimed
                [] CriterionType[c] = "test_result"    -> CriterionRefs[c] \cap facts.tests # {}
                [] CriterionType[c] = "human_approval" -> c \in facts.approvals
                [] CriterionType[c] = "freshness"      -> facts.fresh = "fresh"

\* An operator's cancel is obeyed at the next look at the run: at most the one
\* batch that was already decided on is begun after it.
CancelStopsBatches == late < 2

\* What ParkedRunScanner calls auto_retryable retries a step that failed, or that
\* a crash cut off before its verdict: never one that has passed since the
\* checkpoint, nor one that was not begun.
RetryIsOfFailedStep ==
    ParkedKind = "auto_retryable" /\ exec.pc = "idle" =>
        \/ step[cp.step] = "failed"
        \/ step[cp.step] = "running" /\ "crash" \in upset

\* Waits for which no entry point takes the user's answer: a write refused for want
\* of a read, and a freshness criterion without a date.  README.md:700 calls the
\* PendingInteraction the durable wait point: neither of the two has one.
DeadEnd == cp.action = "read" \/ \E c \in cp.blocked : CriterionType[c] = "freshness"

\* A run that waits for the user at any other point has something the user can
\* answer, an open interaction that can be approved or a checkpoint that asks for
\* another tool, unless a crash, an operator or an earlier answer got in between.
WaitingIsAnswerable ==
    ParkedKind = "waiting_user" /\ exec.pc = "idle" /\ ~DeadEnd /\ upset = {} =>
        \/ \E i \in open : i.action = "ask_user" \/ ApprovalCriteria(i.blocked) # {}
        \/ cp.action = "alternative"

\* The continuation finds the plan stalled only after a crash, a pause or an
\* operator's resume, an answer to a checkpoint the run had moved on from, or a
\* batch that went on after one of its steps failed.
StallIsExplained == exec.pc = "stalled" => upset # {}

\* A recovering run at rest has a checkpoint a worker can do something with.
\* README.md:728: "Recoverable retry checkpoints can resume through
\* HarnessRuntime.resume_from_checkpoint."
RecoveringIsResumable ==
    status = "recovering" /\ exec.pc = "idle" =>
        cp.action # "none" \/ upset \cap {"crash", "control"} # {}

\* The abstract plan: a step is done when the history says it has passed, and
\* named when an answer has it executed once more.
Abstract == INSTANCE PlanProgress WITH
    PlanSteps <- Steps, DependsOn <- Deps,
    done <- {s \in Steps : step[s] = "passed"},
    seen <- verified,
    named <- {s \in Steps : exec.confirmed /\ task[s].phase # "none"},
    accepted <- (status = "completed")

\* Batches, retries, crashes, recoveries and takeovers of a run together do its
\* steps in the order of their dependencies and never start one that has passed
\* again; only an answer that names it does, and the run is not completed until it
\* has passed once more.
ImplementsPlan == Abstract!Spec

\* Under fair workers and tools that return, a running run does not stay so:
\* every way to continue it ends in completion, failure, a wait or a retry.
RunningSettles == status = "running" ~> status # "running"
=============================================================================
