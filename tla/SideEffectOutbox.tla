-------------------------- MODULE SideEffectOutbox --------------------------
(***************************************************************************)
(* The side-effect outbox (runtime/outbox.py) around one logical tool call *)
(* of one plan step, as HarnessRuntime._execute_step drives it.            *)
(*                                                                         *)
(* The call declares Intents effects.  Each has a durable record, keyed by *)
(* run, plan, step and index, whose status moves by compare-and-set        *)
(* (SideEffectRecord.transition behind transition_side_effect).  A record  *)
(* is one store call: the records of a call never move together, and an    *)
(* executor works on the records as they were when it last touched them.   *)
(*                                                                         *)
(* Executors are the processes that may run the step: a worker, the worker *)
(* that took over its expired lease while it is still alive, the approver. *)
(* Nothing in the outbox asks who holds the lease.                         *)
(*                                                                         *)
(* The outside world applies an effect when a dispatch reaches it; a       *)
(* retry-safe tool's effects are deduplicated by key out there.  The tool, *)
(* the world and the operator's verdict are the environment.               *)
(*                                                                         *)
(* Bounds: MaxCalls times the call is prepared, MaxCrashes executors die,  *)
(* MaxRulings verdicts are given.                                          *)
(***************************************************************************)
EXTENDS Naturals, FiniteSets

CONSTANTS
    Executors,
    Intents,        \* effects the call declares
    RetrySafe,      \* the tool's side_effect_retry_safe
    Outcomes,       \* what the tool may return, see Execute
    AnchorReuse,    \* two calls may record their results under one key
    MaxCalls, MaxCrashes, MaxRulings

ASSUME OutboxAssumption ==
    /\ IsFiniteSet(Executors)
    /\ Intents \in Nat \ {0}
    /\ RetrySafe \in BOOLEAN /\ AnchorReuse \in BOOLEAN
    /\ Outcomes \subseteq {"ok", "other_effects", "error", "error_with_effects"}
    /\ MaxCalls \in Nat /\ MaxCrashes \in Nat /\ MaxRulings \in Nat

VARIABLES
    record,     \* effect -> its SideEffectRecord
    local,      \* executor -> its position in _execute_step and its records
    world,      \* effect -> how often the world has applied it
    event,      \* idempotency key -> the result its TOOL_RESULT_RECORDED tells
    verdicts,   \* effect -> how often an operator ruled it FAILED
    calls, crashes, rulings

counters == <<calls, crashes, rulings>>
environment == <<world, event, verdicts>>
vars == <<record, local, environment, counters>>

Effects == 1 .. Intents

SideEffectStatus ==
    {"planned", "dispatching", "applied", "confirmed", "failed", "reverted",
     "uncertain"}

\* A successful result is told apart by the call that produced it; the result
\* an operator supplies is its own.
NoResult == 0
ManualResult == MaxCalls + 1
Results == NoResult .. ManualResult

(***************************************************************************)
(* The anchor of a call, the idempotency key of its result event: unless   *)
(* the entry point of the runtime and the checkpoint it starts from are    *)
(* those of an earlier call, it is new.  Approving one checkpoint twice    *)
(* gives two calls the anchor approval:<checkpoint>:tool:<step>, and two   *)
(* executors that both found the step pending share continuation:<step>.   *)
(* An anchor is the number of the first call that had it.                  *)
(***************************************************************************)
Anchors == 1 .. MaxCalls
Unrecorded == MaxCalls + 2

(***************************************************************************)
(* status, attempt_count and the two metadata entries prepare reads back:  *)
(* tool_result, kept for the successful results only (a replay never reads *)
(* another), and reconciled_manually.  `absent' is a row not written yet.  *)
(***************************************************************************)
Record ==
    [status : SideEffectStatus \cup {"absent"}, attempts : Nat,
     result : Results, manual : BOOLEAN]

NewRecord ==
    [status |-> "planned", attempts |-> 0, result |-> NoResult, manual |-> FALSE]

Absent == [NewRecord EXCEPT !.status = "absent"]

\* The transition table of SideEffectRecord.transition.
Legal(from, to) ==
    CASE from = "planned"     -> to \in {"dispatching", "reverted"}
      [] from = "dispatching" -> to \in {"planned", "applied", "failed", "uncertain"}
      [] from = "applied"     -> to \in {"confirmed", "reverted", "uncertain"}
      [] from = "failed"      -> to \in {"planned", "reverted"}
      [] from = "uncertain"   -> to \in {"confirmed", "failed", "reverted"}
      [] OTHER                -> FALSE

Moved(r, to) ==
    [r EXCEPT !.status = to,
              !.attempts = IF to = "dispatching" THEN @ + 1 ELSE @]

(***************************************************************************)
(* Locals: pc is the phase of the call, next the record the phase is at,   *)
(* seen the records as this executor knows them, call and anchor name the  *)
(* call, target is the status record_result writes, result what the step   *)
(* goes on with: NoResult when it failed or was blocked for manual review. *)
(***************************************************************************)
Phases ==
    {"idle", "save", "reset_dispatching", "reset_failed", "begin", "record",
     "mark", "commit", "confirm"}

Local ==
    [pc : Phases, next : 1 .. Intents + 1, seen : [Effects -> Record],
     call : 0 .. MaxCalls, anchor : 0 .. MaxCalls, target : SideEffectStatus, result : Results]

Idle ==
    [pc |-> "idle", next |-> 1, seen |-> [i \in Effects |-> Absent], call |-> 0,
     anchor |-> 0, target |-> "planned", result |-> NoResult]

Init ==
    /\ record = [i \in Effects |-> Absent]
    /\ local = [e \in Executors |-> Idle]
    /\ world = [i \in Effects |-> 0]
    /\ event = [a \in Anchors |-> Unrecorded]
    /\ verdicts = [i \in Effects |-> 0]
    /\ calls = 0 /\ crashes = 0 /\ rulings = 0

At(e, pc) == local[e].pc = pc /\ local[e].next <= Intents
Done(e, pc) == local[e].pc = pc /\ local[e].next > Intents

Seen(e) == {local[e].seen[i] : i \in Effects}
SeenStatus(e) == {local[e].seen[i].status : i \in Effects}

\* Enter phase pc at its first record.
Goto(e, pc) == local' = [local EXCEPT ![e].pc = pc, ![e].next = 1]
-----------------------------------------------------------------------------
(***************************************************************************)
(* The passes over the records.  A pass moves the records that the         *)
(* executor last saw in `from' to `to' and passes over the others.         *)
(***************************************************************************)

\* Mutant: the record is written without comparing its status.
Swap_FromSeen(e, new) ==
    LET i == local[e].next
    IN  /\ Legal(local[e].seen[i].status, new.status)
        /\ record' = [record EXCEPT ![i] = new]
        /\ local' = [local EXCEPT ![e].seen[i] = new, ![e].next = i + 1]

\* transition_side_effect on the next record: it succeeds only if the status
\* is still the one this executor saw; the executor keeps what it wrote.
Swap(e, new) ==
    LET i == local[e].next
    IN  /\ record[i].status = local[e].seen[i].status
        /\ Legal(record[i].status, new.status)
        /\ record' = [record EXCEPT ![i] = new]
        /\ local' = [local EXCEPT ![e].seen[i] = new, ![e].next = i + 1]

Pass(e, pc, from, to) ==
    LET i == local[e].next
    IN  /\ At(e, pc)
        /\ IF local[e].seen[i].status \in from
           THEN Swap(e, Moved(record[i], to))
           ELSE local' = [local EXCEPT ![e].next = i + 1] /\ UNCHANGED record
        /\ UNCHANGED <<environment, counters>>

ResetDispatching(e) == Pass(e, "reset_dispatching", {"dispatching"}, "planned")
ResetFailed(e) == Pass(e, "reset_failed", {"failed"}, "planned")
BeginDispatch(e) == Pass(e, "begin", {"planned"}, "dispatching")
MarkUncertain(e) == Pass(e, "mark", {"dispatching", "applied"}, "uncertain")
ConfirmResult(e) == Pass(e, "confirm", {"applied"}, "confirmed")

\* The record has moved on, ValueError: the step ends with an exception, and
\* the records this pass has already moved stay where they are.
Conflict(e) ==
    LET i == local[e].next
    IN  /\ local[e].pc \in {"reset_dispatching", "reset_failed", "begin", "mark",
                            "record", "confirm"}
        /\ i <= Intents
        /\ record[i].status # local[e].seen[i].status
        /\ local' = [local EXCEPT ![e] = Idle]
        /\ UNCHANGED <<record, environment, counters>>
-----------------------------------------------------------------------------
(***************************************************************************)
(* prepare.                                                                *)
(***************************************************************************)

\* The step is executed: for the first time, again after a crash or a retry,
\* or by a second executor.
Prepare(e, anchor) ==
    /\ local[e].pc = "idle"
    /\ calls < MaxCalls
    /\ calls' = calls + 1
    /\ anchor = calls' \/ (AnchorReuse /\ anchor <= calls)
    /\ local' = [local EXCEPT ![e] = [Idle EXCEPT !.pc = "save", !.call = calls',
                                                  !.anchor = anchor]]
    /\ UNCHANGED <<record, environment, crashes, rulings>>

\* save_side_effect inserts the intent, or returns the row with its key.
Save(e) ==
    LET i == local[e].next
        saved == IF record[i].status = "absent" THEN NewRecord ELSE record[i]
    IN  /\ At(e, "save")
        /\ record' = [record EXCEPT ![i] = saved]
        /\ local' = [local EXCEPT ![e].seen[i] = saved, ![e].next = i + 1]
        /\ UNCHANGED <<environment, counters>>

\* _replay_result: every record carries the same snapshot.
Replayable(e) == Cardinality({r.result : r \in Seen(e)}) = 1

ManuallyCleared(e) == \A r \in Seen(e) : r.status = "failed" => r.manual

\* Mutants: an interrupted dispatch is always, is never taken for idempotent.
AfterSave_AlwaysRetry(e) ==
    CASE SeenStatus(e) \subseteq {"applied", "confirmed"} ->
             IF Replayable(e) THEN "commit" ELSE "mark"
      [] "uncertain" \in SeenStatus(e)   -> "commit"
      [] OTHER                           -> "reset_dispatching"

AfterSave_NeverRetry(e) ==
    CASE SeenStatus(e) \subseteq {"applied", "confirmed"} ->
             IF Replayable(e) THEN "commit" ELSE "mark"
      [] "uncertain" \in SeenStatus(e)   -> "commit"
      [] "dispatching" \in SeenStatus(e) -> "mark"
      [] OTHER                           -> "reset_dispatching"

\* Where prepare goes with the records as saved ("commit" stands for a decision
\* to replay or to block, "reset_dispatching" for going on) ...
AfterSave(e) ==
    CASE SeenStatus(e) \subseteq {"applied", "confirmed"} ->
             IF Replayable(e) THEN "commit" ELSE "mark"
      [] "uncertain" \in SeenStatus(e)   -> "commit"
      [] "dispatching" \in SeenStatus(e) ->
             IF RetrySafe THEN "reset_dispatching" ELSE "mark"
      [] OTHER                           -> "reset_dispatching"

\* ... with no dispatching record left ...
AfterReset(e) ==
    IF "failed" \in SeenStatus(e) /\ ~ RetrySafe /\ ~ ManuallyCleared(e)
    THEN "commit"
    ELSE "reset_failed"

\* ... and with no failed one left.
AfterFailed(e) == IF SeenStatus(e) = {"planned"} THEN "begin" ELSE "mark"

\* The result of a decided call: a replayed snapshot, or a manual review.
Decide(e) ==
    /\ \/ /\ Done(e, "save")
          /\ local' = [local EXCEPT
                 ![e].pc = AfterSave(e), ![e].next = 1,
                 ![e].result = IF SeenStatus(e) \subseteq {"applied", "confirmed"}
                                  /\ AfterSave(e) = "commit"
                               THEN local[e].seen[1].result ELSE NoResult]
       \/ Done(e, "reset_dispatching") /\ Goto(e, AfterReset(e))
       \/ Done(e, "reset_failed") /\ Goto(e, AfterFailed(e))
       \/ Done(e, "mark") /\ Goto(e, "commit")
    /\ UNCHANGED <<record, environment, counters>>
-----------------------------------------------------------------------------
(***************************************************************************)
(* Dispatch, result and confirmation.                                      *)
(***************************************************************************)
Apply(S) ==
    world' = [i \in Effects |->
                 IF i \notin S \/ (RetrySafe /\ world[i] > 0) THEN world[i]
                 ELSE world[i] + 1]

(***************************************************************************)
(* execute_prepared, with every record dispatching.  The tool succeeds     *)
(* with the declared effects, succeeds with others (the records go to      *)
(* uncertain without a snapshot), or fails; whatever it says, a failed or  *)
(* deviating call may have applied any of the effects (a timeout reports   *)
(* none).                                                                  *)
(***************************************************************************)
ResultStatus(outcome) ==
    CASE outcome = "ok"                   -> "applied"
      [] outcome = "error" /\ RetrySafe   -> "failed"
      [] OTHER                            -> "uncertain"

Execute(e, outcome, S) ==
    /\ Done(e, "begin")
    /\ outcome = "ok" => S = Effects
    /\ Apply(S)
    /\ local' = [local EXCEPT
           ![e].pc = IF outcome = "other_effects" THEN "mark" ELSE "record",
           ![e].next = 1,
           ![e].target = ResultStatus(outcome),
           ![e].result = IF outcome = "ok" THEN local[e].call ELSE NoResult]
    /\ UNCHANGED <<record, event, verdicts, counters>>

\* Mutant: the status is written without the snapshot.
RecordResult_NoSnapshot(e) ==
    /\ At(e, "record")
    /\ Swap(e, Moved(record[local[e].next], local[e].target))
    /\ UNCHANGED <<environment, counters>>

\* record_result on the next record, the snapshot with the status.
RecordResult(e) ==
    LET i == local[e].next
        moved == Moved(record[i], local[e].target)
    IN  /\ At(e, "record")
        /\ Swap(e, IF local[e].target = "applied"
                   THEN [moved EXCEPT !.result = local[e].result]
                   ELSE moved)
        /\ UNCHANGED <<environment, counters>>

ResultRecorded(e) ==
    /\ Done(e, "record")
    /\ Goto(e, "commit")
    /\ UNCHANGED <<record, environment, counters>>

\* Mutant: the records are confirmed before the event is appended.
CommitResult_Unrecorded(e) ==
    /\ local[e].pc = "commit"
    /\ Goto(e, "confirm")
    /\ UNCHANGED <<record, environment, counters>>

\* The TOOL_RESULT_RECORDED event, with the result or the manual review; an
\* event that has the anchor for its key already is returned instead.
CommitResult(e) ==
    LET a == local[e].anchor
    IN  /\ local[e].pc = "commit"
        /\ event' = IF event[a] = Unrecorded
                    THEN [event EXCEPT ![a] = local[e].result] ELSE event
        /\ Goto(e, "confirm")
        /\ UNCHANGED <<record, world, verdicts, counters>>

\* confirm_result runs for blocked calls too.
Return(e) ==
    /\ Done(e, "confirm")
    /\ local' = [local EXCEPT ![e] = Idle]
    /\ UNCHANGED <<record, environment, counters>>

\* The process dies, or a store call raises: the locals are gone.
Crash(e) ==
    /\ local[e].pc # "idle"
    /\ crashes < MaxCrashes
    /\ crashes' = crashes + 1
    /\ local' = [local EXCEPT ![e] = Idle]
    /\ UNCHANGED <<record, environment, calls, rulings>>

(***************************************************************************)
(* SideEffectReconciler.resolve_uncertain.  A confirmation supplies the    *)
(* result to replay: that of one of the calls, or one of the operator's    *)
(* own.  The verdict need not be right.                                    *)
(***************************************************************************)
ResolveUncertain(i, to, result) ==
    /\ rulings < MaxRulings
    /\ record[i].status = "uncertain"
    /\ to = "confirmed" <=> result # NoResult
    /\ record' = [record EXCEPT ![i] =
                     [Moved(record[i], to) EXCEPT
                         !.manual = TRUE,
                         !.result = IF result = NoResult THEN record[i].result ELSE result]]
    /\ verdicts' = [verdicts EXCEPT ![i] = IF to = "failed" THEN @ + 1 ELSE @]
    /\ rulings' = rulings + 1
    /\ UNCHANGED <<local, world, event, calls, crashes>>

Step(e) ==
    \/ \E anchor \in Anchors : Prepare(e, anchor)
    \/ Save(e)
    \/ ResetDispatching(e)
    \/ ResetFailed(e)
    \/ BeginDispatch(e)
    \/ MarkUncertain(e)
    \/ ConfirmResult(e)
    \/ Conflict(e)
    \/ Decide(e)
    \/ \E outcome \in Outcomes, S \in SUBSET Effects : Execute(e, outcome, S)
    \/ RecordResult(e)
    \/ ResultRecorded(e)
    \/ CommitResult(e)
    \/ Return(e)
    \/ Crash(e)

Next ==
    \/ \E e \in Executors : Step(e)
    \/ \E i \in Effects, to \in {"confirmed", "failed", "reverted"},
          result \in {NoResult, ManualResult} \cup 1 .. calls :
             ResolveUncertain(i, to, result)

Spec == Init /\ [][Next]_vars
-----------------------------------------------------------------------------
(***************************************************************************)
(* Properties.                                                             *)
(***************************************************************************)
\* Every variable has its type, and a record that a replay may read carries a
\* snapshot: it is written together with the status, never after it.
TypeOK ==
    /\ record \in [Effects -> Record]
    /\ local \in [Executors -> Local]
    /\ world \in [Effects -> Nat]
    /\ event \in [Anchors -> Results \cup {Unrecorded}]
    /\ verdicts \in [Effects -> Nat]
    /\ calls \in 0 .. MaxCalls
    /\ crashes \in 0 .. MaxCrashes
    /\ rulings \in 0 .. MaxRulings
    /\ \A i \in Effects :
          record[i].status \in {"applied", "confirmed"} => record[i].result # NoResult

\* The successful results among the recorded ones.
Recorded == {event[a] : a \in Anchors} \ {NoResult, Unrecorded}

\* An effect that must not be repeated reaches the world once, and once more
\* for every time an operator ruled that it had failed: no crash, no takeover
\* by a second live executor and no retry repeats it.
AtMostOnce ==
    ~ RetrySafe => \A i \in Effects : world[i] <= 1 + verdicts[i]

\* The same promise step by step: every dispatch of a record uses a licence the
\* call came with or a verdict granted, and the world applies what is licensed.
Licence ==
    INSTANCE DispatchLicence WITH
        granted <- [i \in Effects |-> 1 + verdicts[i]],
        used    <- [i \in Effects |-> record[i].attempts],
        applied <- world

DispatchLicensed == Licence!Spec

\* The step has one successful result, whichever executor records it and however
\* often it is replayed (a second one takes a verdict), and what was recorded is
\* what every later execution gets: its records are applied or confirmed for good.
OneResult ==
    /\ Cardinality(Recorded) <= 1 + rulings
    /\ Recorded # {} => \A i \in Effects : record[i].status \in {"applied", "confirmed"}

\* "applied may become confirmed only after the tool result event is persisted"
\* (CLAUDE.zh-CN.md, on the outbox): the result kept in the record is among the
\* recorded ones when the record is confirmed.
ConfirmedAfterResult ==
    [][\A i \in Effects :
          record[i].status = "applied" /\ record'[i].status = "confirmed"
          => record[i].result \in Recorded]_vars

\* A retry-safe call with one effect never ends in manual review as long as its
\* tool keeps to the declared effects: whatever dies or races, the record can be
\* dispatched again or replayed.
NoManualReview == \A i \in Effects : record[i].status # "uncertain"
=============================================================================
