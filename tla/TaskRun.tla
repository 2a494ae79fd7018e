------------------------------ MODULE TaskRun ------------------------------
(***************************************************************************)
(* The status projection of a task run (tasking/contract.py) and the sets  *)
(* of statuses the other components branch on.  TaskRun.with_status puts   *)
(* no condition on a change of status: which changes are legal is decided  *)
(* by the callers, that is by the modules that extend this one.            *)
(***************************************************************************)

TaskRunStatus ==
    {"created", "running", "paused", "waiting_user", "recovering",
     "acceptance_failed", "completed", "failed", "cancelled"}

\* Statuses whose runs a worker may claim, renew and execute.
Executable == {"created", "running", "recovering"}

\* Statuses RunControlService treats as the end of a run.
Terminal == {"acceptance_failed", "completed", "failed", "cancelled"}

\* Statuses the runtime yields to: it never writes over them on its own.
OperatorStop == {"paused", "cancelled"}

\* The statuses a control action to `target' starts from.
Allowed(target) ==
    CASE target = "paused"    -> {"created", "running", "recovering"}
      [] target = "running"   -> {"paused", "waiting_user"}
      [] target = "cancelled" -> TaskRunStatus \ Terminal

\* Mutant: the runtime yields to a pause only.
RuntimeStatus_OverCancel(current, target) ==
    IF current = "paused" THEN current ELSE target

\* HarnessRuntime._set_status, as one step: a paused or cancelled run keeps
\* its status, any other status is replaced by compare-and-set.
RuntimeStatus(current, target) ==
    IF current \in OperatorStop THEN current ELSE target
=============================================================================
