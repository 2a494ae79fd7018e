---------------------------- MODULE MCHarnessRun ----------------------------
(* An instance of HarnessRun for TLC: two independent parallel-safe reads and *)
(* a step after the first that needs a confirmation and has to bring          *)
(* evidence; four criteria, one of each type.                                 *)
EXTENDS HarnessRun

MCDeps == [s \in 1 .. 3 |-> IF s = 3 THEN {1} ELSE {}]
MCTool == [s \in 1 .. 3 |->
    [permission |-> IF s = 3 THEN "confirm" ELSE "safe", readOnly |-> s # 3,
     concurrencySafe |-> s # 3, effects |-> s = 3]]
MCType == [c \in Criteria |->
    CASE c = "proof" -> "evidence" [] c = "suite" -> "test_result"
      [] c = "recent" -> "freshness" [] OTHER -> "human_approval"]
MCRefs == [c \in Criteria |->
    CASE c = "proof" -> {1} [] c = "suite" -> {101} [] OTHER -> {}]

\* What the caller of `run' reports: a test and a date, which leaves the evidence to
\* the tools and the approval to the user; a test and the approval, which leaves the date
\* to nobody; everything.  (A run submitted for a worker has no report at all.)
Reported ==
    {[evidence |-> {}, claimed |-> {}, tests |-> {101}, approvals |-> {},
      fresh |-> "fresh"],
     [evidence |-> {}, claimed |-> {}, tests |-> {101}, approvals |-> {"approval"},
      fresh |-> "absent"],
     [evidence |-> {}, claimed |-> {1}, tests |-> {101}, approvals |-> {"approval"},
      fresh |-> "fresh"]}

\* The bounds of the run: these reports, and two disturbances out of a crash, a
\* control action and an answer to a checkpoint the run has moved on from.
Bounded ==
    /\ exec.pc = "submitted" /\ exec'.pc = "loop" => facts' \in Reported
    /\ controls' + crashes' + answers' <= 2

MCNext == Next /\ Bounded
MCSpec == Init /\ [][MCNext]_vars /\ WF_vars(ExecutorStep) /\ WF_vars(WorkerTick)
=============================================================================
