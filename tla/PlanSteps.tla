----------------------------- MODULE PlanSteps -----------------------------
(***************************************************************************)
(* The static side of a run: the plan as a dependency graph                *)
(* (tasking/plan.py), what the registered tools allow, the batches the     *)
(* runtime cuts from a frontier, the recovery table (tasking/recovery.py)  *)
(* and the acceptance gate (tasking/acceptance.py).  Nothing here has      *)
(* state; HarnessRun gives these operators the history of one run.         *)
(*                                                                         *)
(* Step ids are numbers: topological_step_ids sorts by id.  A step         *)
(* can leave one evidence reference, and the reference is the step.        *)
(***************************************************************************)
EXTENDS Integers, FiniteSets, Sequences, Sorting

CONSTANTS
    NumSteps,       \* the plan lists the steps 1 .. NumSteps in this order
    Deps,           \* step -> the steps it depends on
    Tool,           \* step -> what its registered tool declares
    NeedsEvidence,  \* steps whose plan lists the evidence they must produce
    MaxParallel,    \* HarnessRuntime.max_parallel_steps
    Failures,       \* ways a tool call may fail in this instance
    Criteria,       \* required acceptance criteria
    CriterionType,  \* criterion -> its type
    CriterionRefs   \* criterion -> the references it names

Steps == 1 .. NumSteps

ToolDeclaration ==
    [permission : {"safe", "confirm"}, readOnly : BOOLEAN,
     concurrencySafe : BOOLEAN, effects : BOOLEAN]

FailureKinds == {"thin", "retry", "alternative", "read", "review", "stop"}

ASSUME PlanAssumption ==
    /\ NumSteps \in Nat \ {0} /\ MaxParallel \in Nat \ {0}
    \* validate_linear_order: the plan is listed dependencies first.
    /\ Deps \in [Steps -> SUBSET Steps]
    /\ \A s \in Steps : \A d \in Deps[s] : d < s
    /\ NeedsEvidence \subseteq Steps
    /\ Tool \in [Steps -> ToolDeclaration]
    /\ Failures \subseteq FailureKinds
    /\ IsFiniteSet(Criteria)
    /\ CriterionType \in
           [Criteria -> {"evidence", "test_result", "human_approval", "freshness"}]

----------------------------------------------------------------------------
(* The dependency graph. *)

\* Kahn's rounds: what _topological_ids has ordered after n of them.
OrderedAfter[n \in 0 .. NumSteps] ==
    IF n = 0 THEN {} ELSE {s \in Steps : Deps[s] \subseteq OrderedAfter[n - 1]}

\* The rounds that begin with the step still remaining.
Round(s) == Cardinality({n \in 0 .. NumSteps : s \notin OrderedAfter[n]})

\* Orders of the steps, as sets of pairs: of the plan, and round by round.
PlanBefore == {p \in Steps \X Steps : p[1] < p[2]}
TopologicallyBefore ==
    {p \in Steps \X Steps :
        Round(p[1]) < Round(p[2]) \/ (Round(p[1]) = Round(p[2]) /\ p[1] < p[2])}

PlanOrder(S) == Ordered(S, PlanBefore)
TopologicalOrder(S) == Ordered(S, TopologicallyBefore)

\* Mutant: the frontier looks at the step alone.
Frontier_NoDeps(step) == {s \in Steps : step[s] = "pending"}

\* LongTaskProjector._frontier over the projected status of each step.
Frontier(step) ==
    {s \in Steps : step[s] = "pending" /\ \A d \in Deps[s] : step[d] = "passed"}

----------------------------------------------------------------------------
(* Batches. *)

ConfirmTier == {s \in Steps : Tool[s].permission = "confirm"}

\* HarnessRuntime._is_parallel_safe.  (Declared effects include an outbox.)
ParallelSafe ==
    {s \in Steps \ ConfirmTier :
        Tool[s].concurrencySafe /\ ~Tool[s].effects /\ Tool[s].readOnly}

\* DagExecutionPolicy.assess over the metadata persisted with the plan: what it
\* would let run in parallel.  (Plans of this runtime declare no write targets.)
ParallelCandidates(frontier) ==
    {s \in frontier : /\ s \notin ConfirmTier /\ ~Tool[s].effects
                      /\ Tool[s].readOnly \/ s \in ParallelSafe}

\* Mutant: a batch is cut from everything that is ready.
ExecutionBatch_AnyTool(ready) ==
    SubSeq(ready, 1, IF Len(ready) < MaxParallel THEN Len(ready) ELSE MaxParallel)

\* The longest prefix of parallel-safe steps, at most MaxParallel of them;
\* the first step alone if that is shorter than two.
ExecutionBatch(ready) ==
    LET fits == {n \in 2 .. Len(ready) :
                    n <= MaxParallel /\ \A i \in 1 .. n : ready[i] \in ParallelSafe}
    IN  SubSeq(ready, 1, IF fits = {} THEN 1
                         ELSE CHOOSE n \in fits : \A m \in fits : m <= n)

----------------------------------------------------------------------------
(* Tool outcomes and what recovery.py makes of them. *)

\* What a call of step s can come back with.  `ok' and `thin' are successes with
\* and without evidence; every failure may carry evidence as well.
Outcomes(s, confirmed) ==
    IF s \in ConfirmTier /\ ~confirmed THEN {"confirm"} ELSE {"ok"} \cup Failures

\* StepVerifier.verify: a success passes with the evidence the plan asks for.
Succeeds(s, outcome) == outcome = "ok" \/ (outcome = "thin" /\ s \notin NeedsEvidence)

\* FailureEnvelope.recommended_action
RecoveryAction(outcome) ==
    CASE outcome = "confirm"          -> "ask_user"
      [] outcome = "review"           -> "manual_review"
      [] outcome \in {"thin", "stop"} -> "stop"
      [] OTHER                        -> outcome

\* Mutant: the status of a failure is its recommended action.
FailureStatus_Action(outcome) == RecoveryAction(outcome)

\* RecoveryPolicy._status: the status a failure asks for.
FailureStatus(outcome) ==
    CASE outcome = "confirm"                          -> "waiting_user"
      [] outcome \in {"retry", "alternative", "read"} -> "recovering"
      [] OTHER                                        -> "failed"

\* Mutant: a step to be retried is put back among the pending ones.
FailedStepStatus_Requeue(outcome) ==
    CASE outcome = "confirm" -> "blocked" [] outcome = "retry" -> "pending" [] OTHER -> "failed"

\* _step_verification_from_failure
FailedStepStatus(outcome) == IF outcome = "confirm" THEN "blocked" ELSE "failed"

\* Mutant: what a failed call brought back counts as evidence.
IsEvidence_Any(outcome) == outcome # "thin"

\* _finish_acceptance takes the evidence of every result that is not a failure.
IsEvidence(outcome) == outcome = "ok"

\* ResumePolicy.decide on a checkpoint with this recommended action.
CanResume(action) == action = "retry"

----------------------------------------------------------------------------
(* AcceptanceGate. *)

\* _evaluate_one.  facts.fresh is the age of every reference: absent, inside
\* the window (fresh) or outside it (stale).
CriterionStatus(c, facts) ==
    CASE CriterionType[c] = "test_result" ->
            IF CriterionRefs[c] \cap facts.tests # {} THEN "passed" ELSE "failed"
      [] CriterionType[c] = "human_approval" ->
            IF c \in facts.approvals THEN "passed" ELSE "blocked"
      [] CriterionType[c] = "freshness" ->
            CASE facts.fresh = "fresh" -> "passed"
              [] facts.fresh = "stale" -> "failed"
              [] OTHER                 -> "blocked"
      [] OTHER ->
            IF CriterionRefs[c] \subseteq facts.evidence \cup facts.claimed
            THEN "passed" ELSE "failed"

\* Criteria of a type, and what they refer to.
OfType(type) == {c \in Criteria : CriterionType[c] = type}
RefsOf(type) == UNION {CriterionRefs[c] : c \in OfType(type)}

Blocked(facts) == {c \in Criteria : CriterionStatus(c, facts) = "blocked"}

\* AcceptanceGate.evaluate: a failed criterion goes before a blocked one.
Decision(facts) ==
    IF \E c \in Criteria : CriterionStatus(c, facts) = "failed" THEN "acceptance_failed"
    ELSE IF Blocked(facts) # {} THEN "waiting_user" ELSE "completed"

\* The criteria an approval of a checkpoint with these blocked criteria grants.
ApprovalCriteria(blocked) == {c \in blocked : CriterionType[c] = "human_approval"}
=============================================================================
