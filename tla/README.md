# ZLAgent in TLA+

Formal models of ZLAgent (`re_zlagent`), a harness that runs language-model plans
as durable tasks: a run has an immutable contract and plan, an append-only history
of events and checkpoints, and a status; background workers claim runs through
leases and execute their plans step by step; tools with side effects go through an
outbox; operators pause, resume, cancel, fork and approve. The models cover the
part of it where processes meet: what a crash, a takeover, a second process or an
operator in the wrong moment can do to a run.

Paths below are relative to `src/src/re_zlagent/` unless they start with `src/`.

## 1. Inventory

| component | state | operations | meets | must hold |
|---|---|---|---|---|
| **Run lease** `harness/tasking/worker.py` | one row per run: state, owner, token, expiry, attempts, next attempt | `claim`, `heartbeat`, `release`, `dead_letter` | stored and applied in a transaction by the TaskStore | one live owner; attempts never exceed the budget; a dead letter is final |
| **Durable worker** `harness/runtime/worker.py` | none that survives it: candidates, claimed lease, heartbeat task | `run_once`, `heartbeat` | TaskStore, HarnessRuntime | no claimed lease is forgotten; a stale worker cannot release its successor's lease; every run settles |
| **Run control** `harness/runtime/control.py` | none | `pause`, `resume`, `cancel`, `fork` | TaskStore, against the runtime's own status changes | a cancelled run stays cancelled; only an unfinished run is cancelled |
| **TaskStore** `harness/storage/{sqlite,postgres,memory}.py` | runs, events, checkpoints, leases, plans, contracts | append, checkpoint, compare-and-set, lease calls | every process | events are numbered without gaps; the run row keeps up with them |
| **Side-effect outbox** `harness/runtime/outbox.py`, `harness/tasking/long_task.py` | one record per declared effect: status, attempts, snapshot | `prepare`, `begin_dispatch`, `record_result`, `confirm_result`, `record_unplanned_result`, `resolve_uncertain` | HarnessRuntime, LongTaskStore, the outside world | an effect that must not be repeated happens once; a success is replayed, not repeated |
| **HarnessRuntime** `harness/runtime/{lifecycle,context_pack}.py` | none that survives it | `run`, `submit`, four ways to resume, continuation of the plan, acceptance | all of the above, tools | a step is verified before its dependents run; recovery continues where the history ends; a wait can be answered; a completed run is accepted |
| **Plan and projection** `harness/tasking/{plan,dag_execution,long_task,recovery,checkpoint}.py` | none, computed from the history | frontier, batches, step states, recovery actions | HarnessRuntime | a step runs after its dependencies; parallel only when safe |
| **Acceptance** `harness/tasking/acceptance.py` | none | evaluate a contract on facts | HarnessRuntime | nothing is accepted without its evidence |
| **Parked-run scanner** `harness/runtime/scheduler.py` | none | classify | TaskStore, read only | what it calls retryable retries a failed step |
| **Agent loop** `harness/agent/` | one request | context, routing, planning, hand-over to the runtime, record | model, conversation, memory, runtime | every request ends; what reaches the model accounts for the session |
| **Conversation** `harness/conversation/` | turns, compactions, a lock per session and process | append, compact | storage, model | no turn is lost or summarised out of turn |
| **Memory** `harness/memory/` | entries with version, pin, archive flag | capture, pin, make room | agent | a pinned entry stays; bounded |
| **Model** `harness/model/` | none | one call within a token budget | agent, conversation | a phase costs at most its budget |
| **Tools** `harness/tools/`, `harness/sandbox/` | registry, read marks of a process | register, `prepare`, `execute`, `read_file`, `write_file` | runtime, file system | a call is validated and permitted; an existing file is changed only under a matching read mark |
| **Skills** `harness/skills/` | managed directory, lock file | install, record, replay | file system, GitHub | an installed skill is scanned and stays; an entry describes it |
| **MCP** `harness/mcp/` | owner tasks, connections, calls in flight | start, call, close | server processes, its loop thread | everything ends; no server outlives its client |
| **Progress, observability** | none | read the history | TaskStore | |
| **Evals, app, gateway** | | scoring, wiring | | |

The hard behaviours: processes share nothing but the store, so *every* pair of
store calls can be separated by another process, by a crash or by time. A worker
that lost its lease does not notice until it releases. The outbox does not ask who
holds the lease. Approvals run in the foreground with no lease. A control action is
a check, several appends and a compare-and-set, each its own transaction. The list
is in `PROJECT.json` under `hazards`, each at its line.

## 2. Modules

    TaskRun            statuses and the sets the code branches on
      +- RunControl    operators against a runtime                (control.py)
      |    +- DurableWorker   + RunLease, executors, crashes, time (worker.py)
      |         +- MCDurableWorker
      |         +- DurableWorkerProofs
      +- StatusHistory        appends, checkpoints, compare-and-set (sqlite.py, postgres.py)
           +- StatusHistoryProofs
    RunLease           the lease as a value                        (tasking/worker.py)
    DispatchLicence    abstract: what the outbox promises
    SideEffectOutbox   the outbox around one call                  (outbox.py)
      +- MCSideEffectOutbox
      +- SideEffectOutboxProofs
    Sorting            sorted() and ORDER BY
      +- SortingProofs
    PlanSteps          plan, batches, recovery, acceptance: operators (tasking/)
      +- PlanStepsProofs
      +- HarnessRun    one run, with TaskRun                       (lifecycle.py)
           +- MCHarnessRun
           +- HarnessRunProofs
    PlanProgress       abstract: what a run does with its plan
    ContextManifest    shares of the context window                (general.py)
    AgentReply         what a request comes to, within its budget  (agent/, budget.py)
    ConversationStore  turns and compactions                       (conversation/)
    MemoryStore        entries of the memory                       (memory/)
      +- AgentSession  requests of one session in several processes (general.py)
           +- MCAgentSession
           +- AgentSessionProofs
    ToolRegistry       schemas, permissions, prepare               (tools/)
      +- Workspace     read_file, write_file, read marks           (file_tools.py)
      +- SkillStore    installs and the lock file                  (skills/)
      +- McpClient     servers, calls, close                       (mcp/)
           +- AgentTools   the three in a host                     (bootstrap.py)
                +- MCAgentTools
                +- AgentToolsProofs

**RunLease.** `claim`, `heartbeat`, `release` and `dead_letter` as functions from a
lease to the next. Time stamps are the time that is left until them, because the
code compares each with `now` and with nothing else; `Age` is one unit of time.

**RunControl.** A control action is three steps, `Begin` (read and check),
`ReadCurrent` (the read at the head of `_set_status`) and `Swap` / `SwapLost` /
`Retry` / `RetryLost` (compare-and-set and its one retry). On its own the module has
a runtime that moves a run in any way `_set_status` can; `DurableWorker` extends it
and puts the workers in that place.

**DurableWorker.** One action per store call: `claim_run` (`ClaimRefused`,
`ClaimGranted`), the re-read of a refused lease, the `RUN_CLAIMED` event, the read
that picks the entry point (`Dispatch`), the status changes of the runtime
(`Start`, `StartRefused`, `EndWith`), the last read (`Return`), `release_run_lease`
(`ReleaseLease`, `LeaseLost`) and its event (`Report`). Heartbeats run beside them.
`Crash` may follow any of them and stands for a dead process and for the exceptions
`run_once` lets out. The approver executes the same runtime steps with no lease.
Appending an event changes no status here: so it is in the memory and PostgreSQL
stores. sqlite.py writes a row it read earlier back with each event (sqlite.py:386,
421-422), which is the subject of StatusHistory and its finding.

**SideEffectOutbox.** One logical call with `Intents` effects, several executors.
The methods loop over the records of the call and make a store call for each, so a
loop is a *pass*: one action moves one record and keeps what it wrote, as the code
keeps the returned records. `record_result` writes the snapshot with the status. A
record that has moved on raises (`Conflict`) and ends the step. The anchor of the
result event is modelled because `append_event` returns an existing event for its
key. The outside world, the tool and the operator's verdict are the environment.

**DispatchLicence.** The abstract specification: an effect comes with one licence,
a verdict that the last dispatch failed grants one more, a dispatch uses one up, and
the world applies an effect at most once per licence used.

**StatusHistory.** The row of one run under `append_event`, `create_checkpoint` and
`compare_and_set_run_status`. `adapter` is the store: a locking one (PostgreSQL;
the in-memory one, where no await divides a call) makes each call one step; sqlite.py
reads before its transaction, so an append is read, read, write.

**Sorting.** `Ordered(S, before)` lists a finite set in an order that is given as a set
of pairs: the scans of the worker and the steps of a plan use it. (The community
modules sort by an operator, and a proof cannot take one as a parameter.)

**PlanSteps.** Operators without state: topological order (Kahn's rounds, then ids),
`Frontier`, `ExecutionBatch` (the longest prefix of parallel-safe steps), the tables of
`recovery.py` from an outcome to an action and a status, `AcceptanceGate`.

**HarnessRun.** What persists are folds of the events: the projected state of each
step, the latest checkpoint, earlier ones an answer can still name, open interactions,
acceptance facts. Entry points (`Run` with facts of the caller, `ResumeIncomplete`,
`ResumeFromCheckpoint`, `ResumeWithAlternative`, `Approve`) lead to the loop
(`CheckStop`, `NextBatch`, `AllPassed`, `WaitForUser`, `Stalled`). In a batch
each step runs through its store calls by itself: `StartStep`, `ToolReturns`,
`SaveCheckpoint`, `VerifyStep`, `SettleStep`, `OpenInteraction`; between the awaits
(`InSegment`) the event loop runs one of them at a time. `Crash` and `Control` come
between any two. `run` keeps its own account of completed steps, every other entry
computes `ContextPack` from the history, as the code does.

An answer names the latest checkpoint, that of an open interaction, or, as
`_select_checkpoint` allows, any other of the run (`past`). The last kind is counted by
`MaxAnswers`. The event of a tool result is keyed by the checkpoint that was answered; a
second answer to it gets the first event back, so its evidence may not be recorded
(`again`).

Simplified: one executor at a time (DurableWorker says when that is so; section 5 what an
exception in one call of a batch makes of it); `_set_status` and a control action are one step (RunControl
and StatusHistory divide them); the alternative tool needs no confirmation; optional
criteria are ignored; facts of the caller come with `run` (the other entries take some
too, and nothing in the repository passes any).

**PlanProgress.** The abstract plan: a step is done after what it depends on, is done
again only if an answer names it, and the plan is accepted when all are done.

**AgentSession.** One session, requests in several processes. The stages of a request
are its store calls and awaits: context read under the session lock, memory capture
(read, count, archive a victim, insert), the model phases, the runtime, and the record
with a compaction whose summarizer is awaited under the lock. `ConversationStore`
numbers turns and checks versions as the SQLite adapters do; another process works in
between. Any store call may fail and a process may die. The model phases of a request
(intent, planner, repairs, reply) touch nothing shared and are one step, whose outcome
and spend `AgentReply` gives for every usage a provider may report. What the model
decides and what the runtime returns is environment. Recall counts stay 0: nothing in a
request changes them, so the memory's victim is the entry with the oldest `updated_at`,
kept as its rank. A compaction has the prefix its row claims and a ghost, the turns that
were selected for it; how much of them its prompt held is left out (section 5).
`ContextManifest` fills the shares of the context in the
code's order and `Whole` says which of the quoted turns are in what is left of theirs.

**AgentTools.** A host registers its tools (`Registers`), a call is rejected or executed
(`Prepared`), and goes on in the steps of its component. `Workspace`: a read stamps the
hash of the whole file, whatever part of it is returned; a write checks the mark,
truncates, fills. `SkillStore`: prepare, stage, rename, read the lock file,
replace it, each of which may fail; a package is its own digest. `McpClient`: a server per
owner task, connected one after the other; a server that refuses and the undoing of those
already open, start that times out, `_close_all`, the loop that stops and cancels what is
pending. Simplified: schemas are one level deep; `_prepare` is one step (a source that
changes between its two readings is the outcome "retry"); calls and close come from one
thread, as in the application; nobody deletes an installed skill or has write_file change
one (a managed directory inside the workspace would allow it); a subprocess ends with its
owner or its host.

## 3. Runs

| run | instance | checks |
|---|---|---|
| DurableWorkerSafety | 1 run, 2 workers, 1 operator with 1 action, 1 approval, 1 crash, lease 1, budget 2 | TypeOK, NoLeaseLeak, ClaimsWithinBudget, FencedLease, DeadLetterIsFinal, CancelledIsFinal |
| DurableWorkerQueue | 2 runs, 1 worker, 1 crash, budget 2, backoff up to 2 | RunsSettle, DeadLetterReported (liveness) |
| RunControlCancelRace | 2 runs, 1 operator | violates CancelsOnlyNonTerminal |
| SideEffectOutboxManual | not retry-safe, 2 effects, 2 executors, 3 calls, 1 crash, 1 verdict, all tool outcomes | TypeOK, AtMostOnce, DispatchLicensed |
| SideEffectOutboxRetrySafe | retry-safe, 1 effect, 2 executors, 5 calls, 2 crashes | OneResult, NoManualReview, ConfirmedAfterResult |
| SideEffectOutboxAnchor | retry-safe, result keys shared | violates ConfirmedAfterResult |
| StatusHistory | both adapters, 1 executor, 1 operator, 4 operations | TypeOK, EventSeqExact, LockedCancelIsFinal, EventsNumbered |
| StatusHistorySqlite | sqlite.py | violates CancelledIsFinal |
| HarnessRun | 2 independent reads and a confirmed step after one, 4 criteria, 5 kinds of failure, 3 kinds of reports by the caller, 2 disturbances out of 1 crash, 2 control actions and 1 answer to an earlier checkpoint | TypeOK, DependenciesFirst, OverlapOnlyIfSafe, CompletedIsVerified, CancelStopsBatches, RetryIsOfFailedStep, WaitingIsAnswerable, StallIsExplained, ImplementsPlan, RunningSettles (liveness) |
| HarnessRunRecovering | no crash, no control action | violates RecoveringIsResumable |
| AgentSession | 3 requests in 2 processes, retention 2, memory for 1 entry, a token total below input + output, 1 crash, 1 pin | TypeOK, SummarySkipsNone, ContextAccounts, RecordedIsStored, ConversationIsShown, SpendWithinBudget, MemoryKept, RequestEnds (liveness) |
| AgentTools | 2 processes, 2 servers, 2 skill ids, 2 branches of 2 commits, 2 calls out of 25, 1 edit, 1 crash | TypeOK, SkillsArePinned, McpSettles (liveness) |

Why the bounds are enough for the questions asked. A stale worker needs a lease that
lasts one unit of time, a second worker and one tick; a dead letter by exhaustion needs
a budget of two and a crash or an exception; a takeover of the outbox needs two
executors, a third call sees what the two left, and two effects are the smallest call
whose records can disagree. A lost update needs two processes and two operations. In
HarnessRun two reads are the smallest batch, the third step gives a dependency and an
approval, `MaxOpen` interactions are more than a run can open, and one crash is enough
to find each gap between two store calls; two control actions are a pause and a resume.
Any two of these disturbances meet, a third does not (`Bounded` of MCHarnessRun): with
all of them at once the states are too many for five minutes. For the same reason the
caller of `run` reports one of three things there: a test and a date, a test and the
approval, or everything; a submitted run has no reports. The theorems have none of these bounds. In AgentSession two requests fill the retention, the
third, from the other process, meets a compaction or a full memory. Character limits are
those of `general.py` and its default of 6,000; recent turns are below their share in
one request and above it in another. Token limits are small numbers with every order
between them. In AgentTools every race is
between two calls, or a call and an edit or crash; `Calls` holds one for each branch of
the tools, and coverage shows that each is taken. The liveness run of the worker has two
runs, the smallest queue with something behind a dead letter; two workers and two runs
with a control action exceed what TLC's liveness check handles in minutes. Symmetry is
used in safety runs only. Deadlock is not checked: when the bounded counters are used up
the system may stop, and an idle system is a legal end.

What the violations say: they are the disagreements between code and documents met
while modelling, described under `findings`.

* `RunControlService._set_status` compares with a status it has just read, not with
  the one it checked; a run that completes in between becomes cancelled. For the same
  reason `CancelledIsFinal` is checked with one operator: with two, the resume that
  checked a paused run takes back the cancellation of the other.
* sqlite.py writes back a run it read before the transaction: an append that overlaps
  a cancel revives the run. PostgreSQL locks the row, and there the property holds.
* An event whose idempotency key exists is returned as it is: a second execution under
  one anchor confirms its record on the event of the first one's failure.
* A step of a parallel batch that fails for a retry sets the run recovering, and the
  success of another step then leaves a later checkpoint without a failure:
  `resume_from_checkpoint` refuses the run at every tick, although its retry is due.

`RunsSettle` has an exemption, `BehindDeadLetter`: `run_once` reports a dead-lettered
candidate and ends its tick, so nothing created later is reached while the run of the
dead letter keeps an executable status. The property holds of everything else.

Other exemptions, each part of its property's text: `WaitingIsAnswerable` is not of the
two waits no entry point answers (`DeadEnd`: a refused write, a freshness criterion
without a date); it and `StallIsExplained` are of runs nothing has disturbed, and what a
disturbed run does is `RetryIsOfFailedStep`, `ImplementsPlan` and `RunningSettles`;
`SpendWithinBudget` is not of replies that count only the input; `ConversationIsShown`
says of limits up to 640 characters only that everything fits, and nothing of quoted turns
that do not fit their share.

**Fairness.** Workers are polled again and again (whoever runs one calls `run_once` in a
loop, a shell or a scheduler): strong fairness of `Poll`, because a poll finds
candidates only between status changes. Store calls and tool calls end: weak fairness of
the steps of a worker, of the runtime and of a control action that has begun. Time
passes: weak fairness of `Tick`. Nothing is assumed of operators, approvals, heartbeats
or crashes. HarnessRun: weak fairness of the executor's next store call (`ExecutorStep`;
tools return) and of the worker's tick. AgentSession: weak fairness of each request's
next step, because the event loop runs every task that can run and model clients have
timeouts. AgentTools: weak fairness of `McpGoesOn` and `Registers`: the loop thread
runs, and each wait of the client, on a server, on a call and on close, has a timeout;
no server need answer.

## 4. Proofs

Every safety property of the passing runs, invariant or action property, is also a
theorem, and so are the two refinements. The runs show each on the instance of section
3; the theorems have no bound on processes, requests, runs, steps, effects, answers or
crashes: they assume the named assumptions of the modules, which TLC evaluates on every
run, and where something more is needed, a hypothesis in the theorem itself.

| module | theorems (property) |
|---|---|
| SideEffectOutboxProofs | TypeCorrect (TypeOK), AtMostOnceHolds (AtMostOnce), Refinement (DispatchLicensed), ResultIsUnique (OneResult), ReviewIsNotNeeded (NoManualReview), ResultComesFirst (ConfirmedAfterResult) |
| DurableWorkerProofs | TypeCorrect (TypeOK), LeasesAreNotLeaked (NoLeaseLeak), AttemptsCoverClaims (ClaimsWithinBudget), LeasesAreFenced (FencedLease), DeadLettersStay (DeadLetterIsFinal), CancellationIsFinal (CancelledIsFinal) |
| StatusHistoryProofs | TypeCorrect (TypeOK), LockedRowIsExact (EventSeqExact), EventsAreNumbered (EventsNumbered), CancellationIsFinal (LockedCancelIsFinal) |
| HarnessRunProofs | TypeCorrect (TypeOK), DependenciesHold (DependenciesFirst), OverlapIsSafe (OverlapOnlyIfSafe), CompletionIsEarned (CompletedIsVerified), CancelIsObeyed (CancelStopsBatches), RetriesFailedStep (RetryIsOfFailedStep), StallsAreExplained (StallIsExplained), WaitsAreAnswerable (WaitingIsAnswerable), Implements (ImplementsPlan) |
| AgentSessionProofs | TypeCorrect (TypeOK), CompactionsCover (SummarySkipsNone), ContextIsComplete (ContextAccounts), RecordedOnce (RecordedIsStored), MemoryIsKept (MemoryKept), SpendIsBounded (SpendWithinBudget), ConversationReaches (ConversationIsShown) |
| AgentToolsProofs | TypeCorrect (TypeOK), SkillsStayPinned (SkillsArePinned) |
| SortingProofs, PlanStepsProofs | lemmas: `Ordered` lists its set once and in order; a finite order has a first element; `ExecutionBatch` of a frontier is a batch |

Few of the properties are inductive, because what they speak of (the world, a ghost, a
later event) is not what the code looks at. What each proof adds:

**Outbox.** `RecordInv`: a record that has been dispatched n times has had n - 1
verdicts, or n if the last verdict cleared it, and its status says which. `PhaseInv`: an
executor that is about to execute owns the dispatch of every record it has moved, and no
other executor owns the same one, because the compare-and-set from `planned` lets one
through. `WorldInv`: what the world has applied, plus the dispatches still to be executed
(`Pending`), is at most the number of dispatches. `BeginStep`, `ExecuteStep` and
`ResolveStep` move the quantities of `DispatchLicence`; everything else is `QuietStep`,
and the same lemma gives the refinement of a tool that is not retry-safe. For results:
`SettledInv`, what an executor has seen or finished with agrees with the settled record;
`KeyInv`, an executor under way holds the key of an event nobody has recorded;
`StillInv`, nothing is ever uncertain.

Hypotheses there: `Intents = 1` in the three theorems about results, because with two
effects an executor may settle one record while another settles the second with its own
result, and `OneResult` is false. `ReviewIsNotNeeded` is of a retry-safe tool that keeps
to its declared effects: that is the case the outbox replays. `ResultComesFirst` needs
`~ AnchorReuse`; SideEffectOutboxAnchor shows what happens with it.

**Worker.** `TypeInv` counts: the tokens drawn are as many as the attempts of all runs,
so tokens are never drawn twice and never run out. `TokenInv`: whoever holds the token of
a lease owns it. `ClaimInv`: the claims told of in the events, and those about to be, are
no more than the attempts. `CancelInv`, for the finality of cancellation: the run of an
operator under way is not cancelled. `OneOperator` is a hypothesis because it is false of
two (section 3).

**History.** `SeqInv`: no row anybody has read is ahead of the last event. `LockInv`:
under a locking adapter nobody is between a read and a write. `StopInv`: an executor
only moves to statuses of the runtime and from one an operator may not have set; an
operator with its status still to set has not found a cancelled run. `OneOperator` again;
of sqlite.py the property is false, as StatusHistorySqlite shows.

**Run.** `StepInv`: a step that has begun has had its dependencies verified, and unless
an earlier checkpoint was answered nobody waits for an answer about it. `LocalInv`: the
account `run` keeps of its own is the history's. `AnchorInv`: what the latest checkpoint
names is a step still to be settled, what any checkpoint names has begun, and an answer
finds it there. `ActiveInv`: only the verdict completes a run. `VerdictInv`: the acceptance
was seen with every step passed, and evidence in the history is of a successful call.
`LateInv`: at most one batch was under way when the run was cancelled. `CutInv`: a step
that runs with nobody executing it was cut off by a crash. For the runs that nothing has
disturbed, `PassInv` and `CalmInv` say what is left open at each point of the loop:
whatever is failed or waiting belongs to the latest checkpoint. `Implements` maps the
passed steps to those done, the step of an answer being executed to the one named, and
`completed` to accepted: that only a named step goes back from done is where the
invariants enter. The sort of the plan enters only as a lemma: the batch is a sequence of
distinct steps of the frontier.

**Session.** `FlowInv`: a process runs one request between two awaits. `CoverInv`: every
summary stored or under way is of a prefix that exists, from `SourceIsPrefix`: what
`SourceTurns` takes of the turns not yet summarised begins with the first and has no
gap. `ContextInv`: the accounts of a context balance when it is made, and turns are only
added. `StoredInv`: a request has its turn from the append on and no earlier.
`ReadInv`: an entry somebody has read and will write back is the row, or the row has a
later version, so that an archived entry is one that is still unpinned. `RoomInv`: active
entries plus the processes that have made room and not inserted stay within the limit
plus the other processes. `AnswerInv` rests on `AdmittedIsAffordable`: whatever
usage numbers are reported, a reply that passes `WithinBudget` costs at most the total, or
it counts the input alone and keeps to the limits of input and output.

`ConversationReaches` has 640 in the property itself: of that many characters a long host
context takes its minimum of 256, long turns their 40% and skills their 20%, which leaves
the summary nothing. `GeneralAgent` accepts 256 and more, its default is 6,000. In
`SpendIsBounded` the total is a constant of its own.

**Tools.** `TypeInv` relates a call to the component it is in. `PinInv`: the package of
a prepared install is scanned, a recorded one is what is installed, and so is every
entry of a lock file somebody has read, however many have replaced it since.

Only model-checked: the liveness properties `RunsSettle`, `DeadLetterReported`,
`RunningSettles`, `RequestEnds` and `McpSettles` (fairness and ENABLED are out of the
prover's reach), and the violations. Nothing is proved of what recursive definitions
compute for every input, with one exception: `Used` of ContextManifest has five steps and
is unfolded (`UsedUnfolds`); `Round` of PlanSteps is used only for being a number.

## 5. Not modelled

Formatting, serialisation, logging and the wording of reasons. The RUN_HEARTBEAT
event (a heartbeat whose append fails is: it ends the heartbeat task). The contents of
plans, contracts, summaries and results. Undeclared effects (BYPASS and
`record_unplanned_result`). The lineage view of forks (`branches.py`), phases of a plan,
optional criteria. The ranking of memories and skills, and loading a skill's text:
scores on strings. The URL and message tools, which the application does not register;
path normalisation in the sandbox, kept to its verdict. HTTP to model providers and
GitHub, the MCP protocol, argument parsing: I/O. `evals/`, `check.py` and the benchmark:
sequential scoring offline. Progress and tracing: readers nothing depends on.

### Divergences no run shows

Met while modelling, beside the four under `findings`. Each is a behaviour the models
allow or leave out, so that no property above may be read as excluding it.

* **A passed step again.** `_select_checkpoint` takes any checkpoint of the run by its id
  (lifecycle.py:1157-1171; from app/cli.py:202 and app/operator.py:213), and an answer
  executes its step without asking whether it has passed since; PLAN_STEP_STARTED has no
  idempotency key (lifecycle.py:1432-1450). src/ROADMAP.md:343: "completed steps are not
  repeated unless policy explicitly marks them repeatable". Modelled: `past`, and `named`
  in PlanProgress, which allows this and no other repetition.
* **A wait nobody can end.** A write refused for want of a read recommends
  READ_BEFORE_WRITE (file_tools.py:349), which parks the run for the user without an
  interaction, and both entry points refuse its checkpoint (lifecycle.py:576, 654).
  src/README.md:700 calls the interaction "the durable wait point for user/operator
  input". A freshness criterion without a date parks the run likewise. Modelled:
  `DeadEnd`.
* **Siblings of an exception.** `_execute_batch` gathers without `return_exceptions`
  (lifecycle.py:859): the first exception ends the call and the worker releases the run
  (worker.py:180-183), while the other calls of the batch go on beside whatever the next
  executor does. src/README.md:721: "all other frontier work is linear". Not modelled:
  `Crash` ends every call of the batch.
* **Summarised unread.** `_summary_payload` clips each turn and cuts the prompt at 5,200
  tokens, keeping its head (manager.py:329-351), and the compaction claims every selected
  turn. With the default policy it takes four long turns, which pile up while the
  summarizer fails. src/ROADMAP.md:830: "merge the previous summary with the next
  contiguous older-turn prefix". Not modelled: `SummarySkipsNone` is of the selection.
* **The latest turn cut.** Recent turns are rendered oldest first
  (conversation/types.py:125) and cut at the end (context.py:184-192). Their share of the
  default context is 2,400 to 2,700 characters, and up to 3,000 tokens are quoted.
  src/ROADMAP.md:842: "can resolve references from the previous complete turn". Modelled:
  `Whole`.
* **A total exceeded.** When a provider counts the input alone, the output is estimated
  and measured against the output limit and what the estimated prompt leaves of the total
  (budget.py:124-175); the two are never added. src/ROADMAP.md:750: "input, output, and
  total Token budgets". Modelled: the exemption in `SpendWithinBudget`.
* **An unread overwrite.** write_file checks the mark and opens the file later
  (file_tools.py:344-379), when it may hold something else; and a mark is the hash of the
  whole file after a read that returned its first 256 KiB (file_tools.py:135-151).
  src/README.md:690: "Mutation tools require read-before-write or an equivalent version
  check." Modelled: `WriteFile` and `WriteEmpties` are two steps.
* **A lock entry lost.** `record` loads the lock file and replaces it without a lock
  between processes (lock.py:96): of two installs at once one entry may be lost, and its
  replay downloads again. src/README.md:611: "An outbox replay uses the locked commit and
  digest without a second download." Modelled: `RecordLoads` and `RecordReplaces`.

## 6. Plan

What is left: the outbox with two effects (which part of `OneResult` holds of each effect
by itself), an inductive form of `CancelledIsFinal` that says what two operators may do to
each other, and the liveness arguments as hand proofs next to the runs that check them.
