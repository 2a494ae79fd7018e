----------------------- MODULE SideEffectOutboxProofs -----------------------
(***************************************************************************)
(* Proofs about SideEffectOutbox for every number of executors, effects,   *)
(* calls, crashes and rulings.  IInv is the inductive invariant: TypeInv   *)
(* for the types, LicenceInv for the promise of DispatchLicence.  For a    *)
(* call with one effect, ResultInv says what becomes of its result.        *)
(***************************************************************************)
EXTENDS SideEffectOutbox, FiniteSetTheorems, TLAPS

\* What an executor under way knows of its call.
LocalInv ==
    \A e \in Executors :
        /\ local[e].pc # "idle" => local[e].call # 0 /\ local[e].anchor # 0
        /\ local[e].pc = "record" =>
              /\ local[e].target \in {"applied", "failed", "uncertain"}
              /\ local[e].target = "applied" => local[e].result # NoResult

TypeInv == TypeOK /\ LocalInv

\* No verdict has replaced the licence of the record's last dispatch.
Dispatched == {"dispatching", "applied", "confirmed", "uncertain", "reverted"}

\* A record that waits for a dispatch has used the licences its verdicts
\* replaced, any other has used one more.
RecordInv ==
    \A i \in Effects :
        /\ record[i].status = "absent" => record[i].attempts = 0
        /\ record[i].attempts = verdicts[i] + IF record[i].status \in Dispatched THEN 1 ELSE 0

\* A tool that is not retry-safe never has its records put back by prepare, nor
\* recorded as failed; and begin_dispatch passes over no record.
PhaseInv ==
    \A e \in Executors :
        /\ local[e].pc = "reset_dispatching" =>
              \A i \in Effects : local[e].seen[i].status # "dispatching"
        /\ local[e].pc = "record" => local[e].target # "failed"
        /\ local[e].pc = "begin" =>
              \A i \in Effects : local[e].next <= i => local[e].seen[i].status = "planned"

\* The executors that hold a dispatch of effect i the world has not seen.
Pending(i) == {e \in Executors : local[e].pc = "begin" /\ local[e].next > i}

WorldInv ==
    \A i \in Effects : world[i] + Cardinality(Pending(i)) <= record[i].attempts

Licensed == RecordInv /\ PhaseInv /\ WorldInv

LicenceInv == ~ RetrySafe => Licensed

IInv == TypeInv /\ LicenceInv
-----------------------------------------------------------------------------
(***************************************************************************)
(* Types.                                                                  *)
(***************************************************************************)
LEMMA RecordTypes == NewRecord \in Record /\ Absent \in Record /\ Idle \in Local
<1>1. NoResult \in Results
  BY OutboxAssumption DEF NoResult, Results, ManualResult
<1>2. NewRecord \in Record
  BY <1>1 DEF NewRecord, Record, SideEffectStatus
<1>3. Absent \in Record
  BY <1>1 DEF NewRecord, Absent, Record, SideEffectStatus
<1>4. 1 \in 1 .. Intents + 1 /\ 0 \in 0 .. MaxCalls
  BY OutboxAssumption
<1>5. Idle \in Local
  BY <1>1, <1>3, <1>4 DEF Idle, Local, Phases, SideEffectStatus
<1> QED BY <1>2, <1>3, <1>5

\* Moving a record keeps its type and its snapshot.
LEMMA MovedType ==
    ASSUME NEW r \in Record, NEW to \in SideEffectStatus
    PROVE  /\ Moved(r, to) \in Record
           /\ Moved(r, to).status = to
           /\ Moved(r, to).result = r.result
           /\ Moved(r, to).attempts = r.attempts + (IF to = "dispatching" THEN 1 ELSE 0)
<1> DEFINE n == IF to = "dispatching" THEN r.attempts + 1 ELSE r.attempts
<1>1. n \in Nat
  BY DEF Record
<1>2. Moved(r, to) = [r EXCEPT !.status = to, !.attempts = n]
  BY DEF Moved
<1>3. to \in SideEffectStatus \cup {"absent"}
  OBVIOUS
<1>4. Moved(r, to) \in Record
  <2> HIDE DEF n
  <2> QED BY <1>1, <1>2, <1>3 DEF Record
<1>5. /\ Moved(r, to).status = to
      /\ Moved(r, to).result = r.result
      /\ Moved(r, to).attempts = n
  <2> HIDE DEF n
  <2> QED BY <1>1, <1>2 DEF Record
<1>6. n = r.attempts + (IF to = "dispatching" THEN 1 ELSE 0)
  BY DEF Record
<1> QED BY <1>4, <1>5, <1>6

\* An executor that takes note of record k and goes on to the next one.
LEMMA LocalMove ==
    ASSUME TypeOK, NEW e \in Executors, NEW k \in Effects, NEW new \in Record,
           local' = [local EXCEPT ![e].seen[k] = new, ![e].next = k + 1]
    PROVE  local' \in [Executors -> Local]
<1> DEFINE seen == [local[e].seen EXCEPT ![k] = new]
           l == [local[e] EXCEPT !.seen = seen, !.next = k + 1]
<1>1. local[e] \in Local
  BY DEF TypeOK
<1>2. seen \in [Effects -> Record]
  BY <1>1 DEF Local
<1>3. k + 1 \in 1 .. Intents + 1
  BY OutboxAssumption DEF Effects
<1>4. local' = [local EXCEPT ![e] = l]
  OBVIOUS
<1>5. l \in Local
  <2> HIDE DEF seen
  <2> QED BY <1>1, <1>2, <1>3 DEF Local
<1> HIDE DEF l
<1> QED BY <1>4, <1>5 DEF TypeOK

\* A compare-and-set that writes a well-formed record keeps the type invariant.
LEMMA SwapType ==
    ASSUME TypeInv, NEW e \in Executors, NEW new \in Record, local[e].next <= Intents,
           local[e].pc # "idle",
           new.status \in {"applied", "confirmed"} => new.result # NoResult,
           Swap(e, new), UNCHANGED <<environment, counters>>
    PROVE  TypeInv'
<1> DEFINE i == local[e].next
<1>1. i \in Effects /\ i + 1 \in 1 .. Intents + 1
  BY OutboxAssumption DEF TypeInv, TypeOK, Local, Effects
<1>2. record' = [record EXCEPT ![i] = new]
      /\ local' = [local EXCEPT ![e].seen[i] = new, ![e].next = i + 1]
  BY DEF Swap
<1>3. record' \in [Effects -> Record]
  BY <1>1, <1>2 DEF TypeInv, TypeOK
<1>4. local' \in [Executors -> Local]
  <2> HIDE DEF i
  <2>1. TypeOK
    BY DEF TypeInv
  <2> QED BY <1>1, <1>2, <2>1, LocalMove
<1>5. \A j \in Effects :
         record'[j].status \in {"applied", "confirmed"} => record'[j].result # NoResult
  BY <1>1, <1>2 DEF TypeInv, TypeOK
<1>6. TypeOK'
  BY <1>3, <1>4, <1>5 DEF TypeInv, TypeOK, environment, counters
<1>7. LocalInv'
  BY <1>1, <1>2 DEF TypeInv, TypeOK, LocalInv, Local
<1> QED BY <1>6, <1>7 DEF TypeInv

LEMMA PassType ==
    ASSUME TypeInv, NEW e \in Executors, NEW pc \in Phases \ {"idle", "record"},
           NEW from, NEW to \in {"planned", "dispatching", "uncertain", "confirmed"},
           to = "confirmed" => from = {"applied"},
           Pass(e, pc, from, to)
    PROVE  TypeInv'
<1> DEFINE i == local[e].next
<1>1. i \in Effects /\ i + 1 \in 1 .. Intents + 1 /\ record[i] \in Record
      /\ local[e].pc = pc /\ local[e].next <= Intents
  BY OutboxAssumption DEF TypeInv, TypeOK, Local, Effects, Pass, At
<1>2. UNCHANGED <<environment, counters>>
  BY DEF Pass
<1>3. CASE local[e].seen[i].status \in from
  <2>1. Swap(e, Moved(record[i], to))
    BY <1>3 DEF Pass
  <2>2. to \in SideEffectStatus
    BY DEF SideEffectStatus
  <2>3. /\ Moved(record[i], to) \in Record
        /\ Moved(record[i], to).status = to
        /\ Moved(record[i], to).result = record[i].result
    BY <1>1, <2>2, MovedType
  <2>4. to = "confirmed" => record[i].status = "applied"
    BY <1>3, <2>1 DEF Swap
  <2>5. to = "confirmed" => record[i].result # NoResult
    BY <1>1, <2>4 DEF TypeInv, TypeOK
  <2> QED BY <1>1, <1>2, <2>1, <2>3, <2>5, SwapType
<1>4. CASE local[e].seen[i].status \notin from
  <2>1. local' = [local EXCEPT ![e].next = i + 1] /\ record' = record
    BY <1>4 DEF Pass
  <2>2. local' \in [Executors -> Local]
    BY <1>1, <2>1 DEF TypeInv, TypeOK, Local
  <2>3. LocalInv'
    BY <2>1 DEF TypeInv, TypeOK, LocalInv, Local
  <2> QED BY <1>2, <2>1, <2>2, <2>3 DEF TypeInv, TypeOK, environment, counters
<1> QED BY <1>3, <1>4

\* Entering another phase, and leaving the step.
LEMMA GotoType ==
    ASSUME TypeInv, NEW e \in Executors, NEW pc \in Phases \ {"idle", "record"},
           local[e].pc # "idle", Goto(e, pc), UNCHANGED record,
           event' \in [Anchors -> Results \cup {Unrecorded}],
           UNCHANGED <<world, verdicts, counters>>
    PROVE  TypeInv'
<1>1. local' = [local EXCEPT ![e].pc = pc, ![e].next = 1]
  BY DEF Goto
<1>2. 1 \in 1 .. Intents + 1
  BY OutboxAssumption
<1>3. local' \in [Executors -> Local]
  <2> DEFINE l == [local[e] EXCEPT !.pc = pc, !.next = 1]
  <2>1. local' = [local EXCEPT ![e] = l]
    BY <1>1
  <2>2. l \in Local
    BY <1>2 DEF TypeInv, TypeOK, Local
  <2> HIDE DEF l
  <2> QED BY <2>1, <2>2 DEF TypeInv, TypeOK
<1>4. LocalInv'
  BY <1>1 DEF TypeInv, TypeOK, LocalInv, Local
<1> QED BY <1>3, <1>4 DEF TypeInv, TypeOK, counters

LEMMA IdleType ==
    ASSUME TypeInv, NEW e \in Executors, local' = [local EXCEPT ![e] = Idle],
           UNCHANGED <<record, environment, calls, rulings>>, crashes' \in 0 .. MaxCrashes
    PROVE  TypeInv'
<1>1. local' \in [Executors -> Local]
  BY RecordTypes DEF TypeInv, TypeOK
<1>2. LocalInv'
  BY DEF TypeInv, TypeOK, LocalInv, Local, Idle
<1> QED BY <1>1, <1>2 DEF TypeInv, TypeOK, environment

LEMMA TypeInit == Init => TypeInv
<1> SUFFICES ASSUME Init PROVE TypeInv
  OBVIOUS
<1>1. record \in [Effects -> Record] /\ local \in [Executors -> Local]
  BY RecordTypes DEF Init
<1>2. world \in [Effects -> Nat] /\ verdicts \in [Effects -> Nat]
  BY DEF Init
<1>3. event \in [Anchors -> Results \cup {Unrecorded}]
  BY DEF Init
<1>4. calls \in 0 .. MaxCalls /\ crashes \in 0 .. MaxCrashes /\ rulings \in 0 .. MaxRulings
  BY OutboxAssumption DEF Init
<1>5. \A i \in Effects : record[i].status \notin {"applied", "confirmed"}
  BY DEF Init, Absent, NewRecord
<1>6. LocalInv
  BY DEF Init, LocalInv, Idle
<1> QED BY <1>1, <1>2, <1>3, <1>4, <1>5, <1>6 DEF TypeInv, TypeOK

LEMMA TypeStep == TypeInv /\ [Next]_vars => TypeInv'
<1> SUFFICES ASSUME TypeInv, [Next]_vars PROVE TypeInv'
  OBVIOUS
<1> USE DEF Phases
<1>1. ASSUME NEW e \in Executors, NEW anchor \in Anchors, Prepare(e, anchor)
      PROVE  TypeInv'
  <2>1. /\ calls' \in 0 .. MaxCalls /\ calls' # 0
        /\ anchor \in 0 .. MaxCalls /\ anchor # 0
    BY <1>1, OutboxAssumption DEF Prepare, TypeInv, TypeOK, Anchors
  <2>2. local' = [local EXCEPT ![e] = [Idle EXCEPT !.pc = "save", !.call = calls',
                                                  !.anchor = anchor]]
    BY <1>1 DEF Prepare
  <2>3. [Idle EXCEPT !.pc = "save", !.call = calls', !.anchor = anchor] \in Local
    <3> DEFINE c == calls'
    <3>1. c \in 0 .. MaxCalls /\ "save" \in Phases
      BY <2>1
    <3> HIDE DEF c, Phases
    <3> QED BY <2>1, <3>1, RecordTypes DEF Local
  <2>4. local' \in [Executors -> Local]
    BY <2>2, <2>3 DEF TypeInv, TypeOK
  <2>5. LocalInv'
    BY <2>1, <2>2, <2>3, RecordTypes DEF TypeInv, TypeOK, LocalInv, Local
  <2> QED BY <1>1, <2>1, <2>4, <2>5 DEF Prepare, TypeInv, TypeOK, environment
<1>2. ASSUME NEW e \in Executors, Save(e) PROVE TypeInv'
  <2> DEFINE i == local[e].next
             saved == IF record[i].status = "absent" THEN NewRecord ELSE record[i]
  <2>1. i \in Effects /\ saved \in Record
    <3>1. i \in 1 .. Intents + 1 /\ i <= Intents
      <4> HIDE DEF Phases
      <4> QED BY <1>2 DEF Save, At, TypeInv, TypeOK, Local
    <3>2. i \in Effects
      BY <3>1, OutboxAssumption DEF Effects
    <3>3. record[i] \in Record
      BY <3>2 DEF TypeInv, TypeOK
    <3> QED BY <3>2, <3>3, RecordTypes
  <2>2. /\ record' = [record EXCEPT ![i] = saved]
        /\ local' = [local EXCEPT ![e].seen[i] = saved, ![e].next = i + 1]
        /\ UNCHANGED <<environment, counters>>
    BY <1>2 DEF Save
  <2>3. saved.status \in {"applied", "confirmed"} => saved.result # NoResult
    BY <2>1 DEF NewRecord, TypeInv, TypeOK
  <2> HIDE DEF saved, i
  <2>4. record' \in [Effects -> Record] /\ local' \in [Executors -> Local]
    <3>1. record' \in [Effects -> Record]
      BY <2>1, <2>2 DEF TypeInv, TypeOK
    <3>2. local' \in [Executors -> Local]
      <4>1. TypeOK
        BY DEF TypeInv
      <4> QED BY <2>1, <2>2, <4>1, LocalMove
    <3> QED BY <3>1, <3>2
  <2>5. \A j \in Effects :
           record'[j].status \in {"applied", "confirmed"} => record'[j].result # NoResult
    BY <2>1, <2>2, <2>3 DEF TypeInv, TypeOK
  <2>6. LocalInv'
    BY <2>2 DEF TypeInv, TypeOK, LocalInv, Local
  <2> QED BY <2>2, <2>4, <2>5, <2>6 DEF TypeInv, TypeOK, environment, counters
<1>3. ASSUME NEW e \in Executors, ResetDispatching(e) PROVE TypeInv'
  BY <1>3, PassType DEF ResetDispatching
<1>4. ASSUME NEW e \in Executors, ResetFailed(e) PROVE TypeInv'
  BY <1>4, PassType DEF ResetFailed
<1>5. ASSUME NEW e \in Executors, BeginDispatch(e) PROVE TypeInv'
  BY <1>5, PassType DEF BeginDispatch
<1>6. ASSUME NEW e \in Executors, MarkUncertain(e) PROVE TypeInv'
  BY <1>6, PassType DEF MarkUncertain
<1>7. ASSUME NEW e \in Executors, ConfirmResult(e) PROVE TypeInv'
  BY <1>7, PassType DEF ConfirmResult
<1>8. ASSUME NEW e \in Executors, Conflict(e) PROVE TypeInv'
  BY <1>8, IdleType DEF Conflict, counters, TypeInv, TypeOK
<1>9. ASSUME NEW e \in Executors, Decide(e) PROVE TypeInv'
  <2>1. /\ local[e].pc # "idle"
        /\ UNCHANGED <<record, world, verdicts, counters>>
        /\ event' \in [Anchors -> Results \cup {Unrecorded}]
    BY <1>9 DEF Decide, Done, environment, TypeInv, TypeOK
  <2>2. CASE Done(e, "save")
    <3>1. AfterSave(e) \in {"commit", "mark", "reset_dispatching"}
      BY DEF AfterSave
    <3>2. 1 \in Effects /\ 1 \in 1 .. Intents + 1
      BY OutboxAssumption DEF Effects
    <3>3. PICK result \in Results :
             local' = [local EXCEPT ![e].pc = AfterSave(e), ![e].next = 1,
                                    ![e].result = result]
      <4>1. local[e].seen[1].result \in Results /\ NoResult \in Results
        BY <3>2, OutboxAssumption DEF TypeInv, TypeOK, Local, Record, Results, NoResult,
           ManualResult
      <4> QED BY <1>9, <2>2, <4>1 DEF Decide, Done
    <3>4. local' \in [Executors -> Local]
      <4> DEFINE pc == AfterSave(e)
                 new == [local[e] EXCEPT !.pc = pc, !.next = 1, !.result = result]
      <4>1. pc \in Phases
        BY <3>1
      <4>2. local' = [local EXCEPT ![e] = new]
        BY <3>3
      <4> HIDE DEF pc
      <4>3. new \in Local
        <5> HIDE DEF Phases
        <5> QED BY <3>2, <4>1 DEF TypeInv, TypeOK, Local
      <4> HIDE DEF new
      <4> QED BY <4>2, <4>3 DEF TypeInv, TypeOK
    <3>5. LocalInv'
      BY <2>1, <3>1, <3>3 DEF TypeInv, TypeOK, LocalInv, Local
    <3> QED BY <2>1, <3>4, <3>5 DEF TypeInv, TypeOK, counters
  <2>3. CASE ~ Done(e, "save")
    <3>1. PICK pc \in {"commit", "reset_failed", "begin", "mark"} : Goto(e, pc)
      BY <1>9, <2>3 DEF Decide, AfterReset, AfterFailed
    <3> QED BY <2>1, <3>1, GotoType
  <2> QED BY <2>2, <2>3
<1>10. ASSUME NEW e \in Executors, NEW outcome \in Outcomes, NEW S \in SUBSET Effects,
              Execute(e, outcome, S)
       PROVE  TypeInv'
  <2>1. world' \in [Effects -> Nat]
    BY <1>10 DEF Execute, Apply, TypeInv, TypeOK
  <2>2. /\ ResultStatus(outcome) \in {"applied", "failed", "uncertain"}
        /\ ResultStatus(outcome) = "applied" => outcome = "ok"
    BY DEF ResultStatus
  <2> DEFINE pc == IF outcome = "other_effects" THEN "mark" ELSE "record"
             result == IF outcome = "ok" THEN local[e].call ELSE NoResult
  <2>3. /\ pc \in Phases \ {"idle"}
        /\ result \in Results
        /\ outcome = "ok" => result # NoResult
    BY <1>10, OutboxAssumption DEF Execute, Done, TypeInv, TypeOK, LocalInv, Local, Results,
       NoResult, ManualResult
  <2>4. /\ local' = [local EXCEPT ![e].pc = pc, ![e].next = 1,
                                  ![e].target = ResultStatus(outcome), ![e].result = result]
        /\ UNCHANGED <<record, event, verdicts, counters>>
        /\ local[e].pc # "idle"
    BY <1>10 DEF Execute, Done
  <2> HIDE DEF pc, result
  <2>5. local' \in [Executors -> Local]
    <3> DEFINE target == ResultStatus(outcome)
               new == [local[e] EXCEPT !.pc = pc, !.next = 1, !.target = target,
                                       !.result = result]
    <3>1. target \in SideEffectStatus /\ 1 \in 1 .. Intents + 1
      BY <2>2, OutboxAssumption DEF SideEffectStatus
    <3>2. local' = [local EXCEPT ![e] = new]
      BY <2>4
    <3> HIDE DEF target
    <3>3. new \in Local
      <4> HIDE DEF Phases
      <4> QED BY <2>3, <3>1 DEF TypeInv, TypeOK, Local
    <3> HIDE DEF new
    <3> QED BY <3>2, <3>3 DEF TypeInv, TypeOK
  <2>6. LocalInv'
    BY <2>2, <2>3, <2>4 DEF TypeInv, TypeOK, LocalInv, Local
  <2> QED BY <2>1, <2>4, <2>5, <2>6 DEF TypeInv, TypeOK, counters
<1>11. ASSUME NEW e \in Executors, RecordResult(e) PROVE TypeInv'
  <2> DEFINE i == local[e].next
             moved == Moved(record[i], local[e].target)
             new == IF local[e].target = "applied"
                    THEN [moved EXCEPT !.result = local[e].result] ELSE moved
  <2>1. /\ i \in Effects /\ record[i] \in Record /\ local[e].next <= Intents
        /\ local[e].pc = "record"
        /\ local[e].target \in {"applied", "failed", "uncertain"}
        /\ local[e].target = "applied" => local[e].result # NoResult
        /\ local[e].result \in Results
    BY <1>11, OutboxAssumption
       DEF RecordResult, At, TypeInv, TypeOK, LocalInv, Local, Effects
  <2>2. moved \in Record /\ moved.status = local[e].target
    BY <2>1, MovedType DEF SideEffectStatus
  <2>3. Swap(e, new) /\ UNCHANGED <<environment, counters>>
    BY <1>11 DEF RecordResult
  <2> HIDE DEF moved
  <2>4. new \in Record /\ (new.status \in {"applied", "confirmed"} => new.result # NoResult)
    BY <2>1, <2>2 DEF Record
  <2> QED BY <2>1, <2>3, <2>4, SwapType
<1>12. ASSUME NEW e \in Executors, ResultRecorded(e) PROVE TypeInv'
  BY <1>12, GotoType DEF ResultRecorded, Done, environment, TypeInv, TypeOK
<1>13. ASSUME NEW e \in Executors, CommitResult(e) PROVE TypeInv'
  <2>1. local[e].result \in Results
    BY DEF TypeInv, TypeOK, Local
  <2>2. event' \in [Anchors -> Results \cup {Unrecorded}]
    BY <1>13, <2>1 DEF CommitResult, TypeInv, TypeOK
  <2> QED BY <1>13, <2>2, GotoType DEF CommitResult
<1>14. ASSUME NEW e \in Executors, Return(e) PROVE TypeInv'
  BY <1>14, IdleType DEF Return, counters, TypeInv, TypeOK
<1>15. ASSUME NEW e \in Executors, Crash(e) PROVE TypeInv'
  <2>1. crashes' \in 0 .. MaxCrashes
    BY <1>15, OutboxAssumption DEF Crash, TypeInv, TypeOK
  <2> QED BY <1>15, <2>1, IdleType DEF Crash
<1>16. ASSUME NEW i \in Effects, NEW to \in {"confirmed", "failed", "reverted"},
              NEW result \in {NoResult, ManualResult} \cup 1 .. calls,
              ResolveUncertain(i, to, result)
       PROVE  TypeInv'
  <2> DEFINE moved == Moved(record[i], to)
             kept == IF result = NoResult THEN record[i].result ELSE result
             new == [moved EXCEPT !.manual = TRUE, !.result = kept]
  <2>1. record[i] \in Record /\ result \in Results /\ to \in SideEffectStatus
    BY OutboxAssumption
       DEF Results, NoResult, ManualResult, TypeInv, TypeOK, SideEffectStatus
  <2>2. /\ record' = [record EXCEPT ![i] = new]
        /\ to = "confirmed" => result # NoResult
        /\ UNCHANGED <<local, world, event, calls, crashes>>
    BY <1>16 DEF ResolveUncertain
  <2>3. new \in Record /\ new.status = to /\ (to = "confirmed" => new.result # NoResult)
    <3>1. moved \in Record /\ moved.status = to
      BY <2>1, MovedType
    <3>2. kept \in Results /\ (to = "confirmed" => kept # NoResult)
      BY <2>1, <2>2 DEF Record
    <3> HIDE DEF kept, moved
    <3> QED BY <3>1, <3>2 DEF Record
  <2> HIDE DEF new
  <2>4. record' \in [Effects -> Record]
    BY <2>2, <2>3 DEF TypeInv, TypeOK
  <2>5. \A j \in Effects :
           record'[j].status \in {"applied", "confirmed"} => record'[j].result # NoResult
    BY <2>2, <2>3 DEF TypeInv, TypeOK
  <2>6. verdicts' \in [Effects -> Nat] /\ rulings' \in 0 .. MaxRulings
    BY <1>16, OutboxAssumption DEF ResolveUncertain, TypeInv, TypeOK
  <2>7. LocalInv'
    BY <2>2 DEF TypeInv, LocalInv
  <2> QED BY <2>2, <2>4, <2>5, <2>6, <2>7 DEF TypeInv, TypeOK
<1>17. ASSUME UNCHANGED vars PROVE TypeInv'
  BY <1>17 DEF vars, environment, counters, TypeInv, TypeOK, LocalInv
<1> QED
  BY <1>1, <1>2, <1>3, <1>4, <1>5, <1>6, <1>7, <1>8, <1>9, <1>10, <1>11, <1>12, <1>13,
     <1>14, <1>15, <1>16, <1>17 DEF Next, Step

\* Every reachable state of the outbox is well typed, and a record that a replay
\* may read carries the snapshot it replays (record_result, resolve_uncertain).
THEOREM TypeCorrect == Spec => []TypeOK
<1>1. TypeInv => TypeOK
  BY DEF TypeInv
<1> QED BY TypeInit, TypeStep, <1>1, PTL DEF Spec
-----------------------------------------------------------------------------
(***************************************************************************)
(* Licences, for a tool that is not retry-safe.  A step is quiet when no   *)
(* record is dispatched, nothing reaches the world and no verdict is       *)
(* given: every action but BeginDispatch, Execute and ResolveUncertain.    *)
(***************************************************************************)
Quiet ==
    /\ UNCHANGED <<world, verdicts>>
    /\ \A i \in Effects : /\ record'[i].attempts = record[i].attempts
                           /\ Pending(i)' \subseteq Pending(i)

LEMMA SubsetCount ==
    ASSUME NEW S, NEW T, IsFiniteSet(T), S \subseteq T
    PROVE  Cardinality(S) \in Nat /\ Cardinality(T) \in Nat /\ Cardinality(S) <= Cardinality(T)
  BY FS_Subset, FS_CardinalityType

LEMMA PendingFinite == \A i \in Effects : IsFiniteSet(Pending(i))
  BY FS_Subset, OutboxAssumption DEF Pending

\* A quiet step leaves the world within the dispatches.
LEMMA QuietWorld ==
    ASSUME TypeInv, WorldInv, Quiet
    PROVE  WorldInv'
<1> SUFFICES ASSUME NEW i \in Effects
             PROVE  world'[i] + Cardinality(Pending(i)') <= record'[i].attempts
  BY DEF WorldInv
<1>1. /\ Cardinality(Pending(i)') \in Nat
      /\ Cardinality(Pending(i)) \in Nat
      /\ Cardinality(Pending(i)') <= Cardinality(Pending(i))
  BY SubsetCount, PendingFinite DEF Quiet
<1>2. world[i] + Cardinality(Pending(i)) <= record[i].attempts
  BY DEF WorldInv
<1>3. world[i] \in Nat /\ record[i].attempts \in Nat
  BY DEF TypeInv, TypeOK, Record
<1> QED BY <1>1, <1>2, <1>3 DEF Quiet

\* An executor moves on and the records stay.
LEMMA LocalStep ==
    ASSUME TypeInv, RecordInv, PhaseInv, NEW e \in Executors, NEW l,
           local' = [local EXCEPT ![e] = l], UNCHANGED <<record, world, verdicts>>,
           l.pc = "reset_dispatching" =>
               \A i \in Effects : l.seen[i].status # "dispatching",
           l.pc = "record" => l.target # "failed",
           l.pc = "begin" =>
               l.next = 1 /\ \A i \in Effects : l.seen[i].status = "planned"
    PROVE  Quiet /\ RecordInv' /\ PhaseInv'
<1>1. \A x \in Executors : local'[x] = IF x = e THEN l ELSE local[x]
  BY DEF TypeInv, TypeOK
<1>2. \A i \in Effects : Pending(i)' \subseteq Pending(i)
  <2> SUFFICES ASSUME NEW i \in Effects, NEW x \in Pending(i)' PROVE x \in Pending(i)
    OBVIOUS
  <2>1. x \in Executors /\ local'[x].pc = "begin" /\ local'[x].next > i
    BY DEF Pending
  <2>2. i \in Nat /\ i >= 1
    BY OutboxAssumption DEF Effects
  <2>3. x # e
    BY <1>1, <2>1, <2>2
  <2> QED BY <1>1, <2>1, <2>3 DEF Pending
<1>3. Quiet
  BY <1>2 DEF Quiet
<1>4. RecordInv'
  BY DEF RecordInv
<1>5. PhaseInv'
  BY <1>1 DEF PhaseInv
<1> QED BY <1>3, <1>4, <1>5

\* A record moves without being dispatched, and keeps its licence used or not.
LEMMA SwapStep ==
    ASSUME TypeInv, RecordInv, PhaseInv, NEW e \in Executors, NEW new,
           local[e].pc \notin {"begin", "reset_dispatching"}, local[e].next \in Effects,
           Swap(e, new), UNCHANGED <<world, verdicts>>,
           new.attempts = record[local[e].next].attempts,
           new.status # "absent",
           new.status \in Dispatched <=> record[local[e].next].status \in Dispatched
    PROVE  Quiet /\ RecordInv' /\ PhaseInv'
<1> DEFINE k == local[e].next
<1>1. /\ record' = [record EXCEPT ![k] = new]
      /\ local' = [local EXCEPT ![e].seen[k] = new, ![e].next = k + 1]
  BY DEF Swap
<1>2. \A i \in Effects : record'[i] = IF i = k THEN new ELSE record[i]
  BY <1>1 DEF TypeInv, TypeOK
<1>3. \A x \in Executors : /\ local'[x].pc = local[x].pc
                           /\ local'[x].target = local[x].target
                           /\ x # e => local'[x] = local[x]
  BY <1>1 DEF TypeInv, TypeOK, Local
<1>4. Quiet
  <2>1. \A i \in Effects : Pending(i)' \subseteq Pending(i)
    BY <1>3 DEF Pending
  <2> QED BY <1>2, <2>1 DEF Quiet
<1>5. RecordInv'
  BY <1>2 DEF RecordInv
<1>6. PhaseInv'
  BY <1>3 DEF PhaseInv
<1> QED BY <1>4, <1>5, <1>6

\* A pass that dispatches nothing, over the records.
LEMMA PassStep ==
    ASSUME TypeInv, RecordInv, PhaseInv, NEW e \in Executors,
           NEW pc \in {"reset_dispatching", "reset_failed", "mark", "confirm"},
           NEW from, NEW to \in SideEffectStatus \ {"dispatching"},
           pc = "reset_dispatching" => from = {"dispatching"},
           \A status \in from : status # "absent",
           pc # "reset_dispatching" =>
               \A status \in from : status \in Dispatched <=> to \in Dispatched,
           Pass(e, pc, from, to)
    PROVE  Quiet /\ RecordInv' /\ PhaseInv'
<1> DEFINE k == local[e].next
<1>1. k \in Effects /\ record[k] \in Record /\ local[e].pc = pc
  BY OutboxAssumption DEF TypeInv, TypeOK, Local, Effects, Pass, At
<1>2. UNCHANGED <<world, verdicts>>
  BY DEF Pass, environment
<1>3. CASE local[e].seen[k].status \in from
  <2>1. Swap(e, Moved(record[k], to)) /\ pc # "reset_dispatching"
    BY <1>1, <1>3 DEF Pass, PhaseInv
  <2>2. /\ Moved(record[k], to).status = to
        /\ Moved(record[k], to).attempts = record[k].attempts
    BY <1>1, MovedType DEF Record
  <2>3. record[k].status \in from
    BY <1>3, <2>1 DEF Swap
  <2>4. to # "absent"
    BY DEF SideEffectStatus
  <2> QED BY <1>1, <1>2, <2>1, <2>2, <2>3, <2>4, SwapStep
<1>4. CASE local[e].seen[k].status \notin from
  <2> DEFINE l == [local[e] EXCEPT !.next = k + 1]
  <2>1. local' = [local EXCEPT ![e] = l] /\ record' = record
    BY <1>4 DEF Pass
  <2>2. l.pc = pc /\ l.seen = local[e].seen
    BY <1>1 DEF TypeInv, TypeOK, Local
  <2>3. pc = "reset_dispatching" => \A i \in Effects : l.seen[i].status # "dispatching"
    BY <1>1, <2>2 DEF PhaseInv
  <2> HIDE DEF l
  <2> QED BY <1>2, <2>1, <2>2, <2>3, LocalStep
<1> QED BY <1>3, <1>4

\* Every action but the three that use, spend or grant a licence is quiet.
LEMMA QuietStep ==
    ASSUME ~ RetrySafe, TypeInv, RecordInv, PhaseInv, NEW e \in Executors,
           \/ \E anchor \in Anchors : Prepare(e, anchor)
           \/ Save(e) \/ ResetDispatching(e) \/ ResetFailed(e) \/ MarkUncertain(e)
           \/ ConfirmResult(e) \/ Conflict(e) \/ Decide(e) \/ RecordResult(e)
           \/ ResultRecorded(e) \/ CommitResult(e) \/ Return(e) \/ Crash(e)
    PROVE  Quiet /\ RecordInv' /\ PhaseInv'
<1>1. ASSUME NEW anchor \in Anchors, Prepare(e, anchor)
      PROVE  Quiet /\ RecordInv' /\ PhaseInv'
  <2> DEFINE l == [Idle EXCEPT !.pc = "save", !.call = calls', !.anchor = anchor]
  <2>1. /\ local' = [local EXCEPT ![e] = l]
        /\ UNCHANGED <<record, world, verdicts>>
    BY <1>1 DEF Prepare, environment
  <2>2. l.pc = "save"
    BY DEF Idle
  <2> HIDE DEF l
  <2> QED BY <2>1, <2>2, LocalStep
<1>2. ASSUME Save(e) PROVE Quiet /\ RecordInv' /\ PhaseInv'
  <2> DEFINE k == local[e].next
             saved == IF record[k].status = "absent" THEN NewRecord ELSE record[k]
  <2>1. k \in Effects /\ local[e].pc = "save"
    BY <1>2, OutboxAssumption DEF Save, At, TypeInv, TypeOK, Local, Effects
  <2>2. /\ record' = [record EXCEPT ![k] = saved]
        /\ local' = [local EXCEPT ![e].seen[k] = saved, ![e].next = k + 1]
        /\ UNCHANGED <<world, verdicts>>
    BY <1>2 DEF Save, environment
  <2>3. /\ saved.status # "absent"
        /\ saved.attempts = record[k].attempts
        /\ saved.status \in Dispatched <=> record[k].status \in Dispatched
    BY <2>1 DEF NewRecord, RecordInv, Dispatched
  <2> HIDE DEF saved
  <2>4. \A i \in Effects : record'[i] = IF i = k THEN saved ELSE record[i]
    BY <2>2 DEF TypeInv, TypeOK
  <2>5. \A x \in Executors : /\ local'[x].pc = local[x].pc
                             /\ local'[x].target = local[x].target
                             /\ x # e => local'[x] = local[x]
    BY <2>2 DEF TypeInv, TypeOK, Local
  <2>6. \A i \in Effects : Pending(i)' \subseteq Pending(i)
    BY <2>1, <2>5 DEF Pending
  <2>7. Quiet
    BY <2>2, <2>3, <2>4, <2>6 DEF Quiet
  <2>8. RecordInv'
    BY <2>2, <2>3, <2>4 DEF RecordInv
  <2>9. PhaseInv'
    BY <2>1, <2>5 DEF PhaseInv
  <2> QED BY <2>7, <2>8, <2>9
<1>3. ASSUME \/ ResetDispatching(e) \/ ResetFailed(e) \/ MarkUncertain(e) \/ ConfirmResult(e)
      PROVE  Quiet /\ RecordInv' /\ PhaseInv'
  <2>1. CASE ResetDispatching(e)
    BY <2>1, PassStep DEF ResetDispatching, SideEffectStatus
  <2>2. CASE ResetFailed(e)
    BY <2>2, PassStep DEF ResetFailed, SideEffectStatus, Dispatched
  <2>3. CASE MarkUncertain(e)
    BY <2>3, PassStep DEF MarkUncertain, SideEffectStatus, Dispatched
  <2>4. CASE ConfirmResult(e)
    BY <2>4, PassStep DEF ConfirmResult, SideEffectStatus, Dispatched
  <2> QED BY <1>3, <2>1, <2>2, <2>3, <2>4
<1>4. ASSUME Conflict(e) \/ Return(e) \/ Crash(e) PROVE Quiet /\ RecordInv' /\ PhaseInv'
  <2>1. /\ local' = [local EXCEPT ![e] = Idle]
        /\ UNCHANGED <<record, world, verdicts>>
    BY <1>4 DEF Conflict, Return, Crash, environment
  <2>2. Idle.pc = "idle"
    BY DEF Idle
  <2> QED BY <2>1, <2>2, LocalStep
<1>5. ASSUME Decide(e) PROVE Quiet /\ RecordInv' /\ PhaseInv'
  <2>1. UNCHANGED <<record, world, verdicts>>
    BY <1>5 DEF Decide, environment
  <2>2. CASE Done(e, "save")
    <3> DEFINE result == IF SeenStatus(e) \subseteq {"applied", "confirmed"}
                            /\ AfterSave(e) = "commit"
                         THEN local[e].seen[1].result ELSE NoResult
               l == [local[e] EXCEPT !.pc = AfterSave(e), !.next = 1, !.result = result]
    <3>1. local' = [local EXCEPT ![e] = l]
      BY <1>5, <2>2 DEF Decide, Done
    <3>2. l.pc = AfterSave(e) /\ l.seen = local[e].seen
      BY DEF TypeInv, TypeOK, Local
    <3>3. AfterSave(e) \in {"commit", "mark", "reset_dispatching"}
      BY DEF AfterSave
    <3>4. AfterSave(e) = "reset_dispatching" => "dispatching" \notin SeenStatus(e)
      BY DEF AfterSave
    <3>5. l.pc = "reset_dispatching" =>
              \A i \in Effects : l.seen[i].status # "dispatching"
      BY <3>2, <3>4 DEF SeenStatus
    <3> HIDE DEF l
    <3> QED BY <2>1, <3>1, <3>2, <3>3, <3>5, LocalStep
  <2>3. CASE ~ Done(e, "save")
    <3>1. PICK pc \in {"commit", "reset_failed", "begin", "mark"} :
             Goto(e, pc) /\ (pc = "begin" => SeenStatus(e) = {"planned"})
      BY <1>5, <2>3 DEF Decide, AfterReset, AfterFailed
    <3> DEFINE l == [local[e] EXCEPT !.pc = pc, !.next = 1]
    <3>2. local' = [local EXCEPT ![e] = l]
      BY <3>1 DEF Goto
    <3>3. l.pc = pc /\ l.next = 1 /\ l.seen = local[e].seen
      BY DEF TypeInv, TypeOK, Local
    <3>4. pc = "begin" => \A i \in Effects : l.seen[i].status = "planned"
      BY <3>1, <3>3 DEF SeenStatus
    <3> HIDE DEF l
    <3> QED BY <2>1, <3>1, <3>2, <3>3, <3>4, LocalStep
  <2> QED BY <2>2, <2>3
<1>6. ASSUME RecordResult(e) PROVE Quiet /\ RecordInv' /\ PhaseInv'
  <2> DEFINE k == local[e].next
             moved == Moved(record[k], local[e].target)
             new == IF local[e].target = "applied"
                    THEN [moved EXCEPT !.result = local[e].result] ELSE moved
  <2>1. /\ k \in Effects /\ record[k] \in Record
        /\ local[e].pc = "record"
        /\ local[e].target \in {"applied", "uncertain"}
    BY <1>6, OutboxAssumption
       DEF RecordResult, At, TypeInv, TypeOK, LocalInv, PhaseInv, Local, Effects
  <2>2. /\ moved \in Record /\ moved.status = local[e].target
        /\ moved.attempts = record[k].attempts
    <3>1. local[e].target \in SideEffectStatus /\ local[e].target # "dispatching"
      BY <2>1 DEF SideEffectStatus
    <3>2. record[k].attempts \in Nat
      BY <2>1 DEF Record
    <3> QED BY <2>1, <3>1, <3>2, MovedType
  <2>3. Swap(e, new) /\ UNCHANGED <<world, verdicts>>
    BY <1>6 DEF RecordResult, environment
  <2> HIDE DEF moved
  <2>4. new.status = local[e].target /\ new.attempts = record[k].attempts
    BY <2>2 DEF Record
  <2> HIDE DEF new
  <2>5. Legal(record[k].status, local[e].target)
    BY <2>3, <2>4 DEF Swap
  <2>6. new.status \in Dispatched <=> record[k].status \in Dispatched
    BY <2>1, <2>4, <2>5 DEF Legal, Dispatched
  <2> QED BY <2>1, <2>3, <2>4, <2>6, SwapStep
<1>7. ASSUME ResultRecorded(e) \/ CommitResult(e)
      PROVE  Quiet /\ RecordInv' /\ PhaseInv'
  <2>1. PICK pc \in {"commit", "confirm"} : Goto(e, pc)
    BY <1>7 DEF ResultRecorded, CommitResult
  <2>2. UNCHANGED <<record, world, verdicts>>
    BY <1>7 DEF ResultRecorded, CommitResult, environment
  <2> DEFINE l == [local[e] EXCEPT !.pc = pc, !.next = 1]
  <2>3. local' = [local EXCEPT ![e] = l]
    BY <2>1 DEF Goto
  <2>4. l.pc = pc
    BY DEF TypeInv, TypeOK, Local
  <2> HIDE DEF l
  <2> QED BY <2>2, <2>3, <2>4, LocalStep
<1> QED BY <1>1, <1>2, <1>3, <1>4, <1>5, <1>6, <1>7

(***************************************************************************)
(* The three actions that are not quiet, what each does to the licences    *)
(* and why the invariant survives it.                                      *)
(***************************************************************************)

\* A dispatch uses a licence that the record had left.
LEMMA BeginStep ==
    ASSUME TypeInv, Licensed, NEW e \in Executors, BeginDispatch(e)
    PROVE  /\ Licensed'
           /\ \E i \in Effects : Licence!Dispatch(i)
<1>0. PICK k \in Effects : k = local[e].next
  BY OutboxAssumption DEF TypeInv, TypeOK, Local, Effects, BeginDispatch, Pass, At
<1> DEFINE new == Moved(record[k], "dispatching")
<1>1. /\ k \in Nat /\ record[k] \in Record
      /\ local[e].pc = "begin" /\ local[e].next = k
      /\ \A i \in Effects : i \in Nat
  BY <1>0 DEF TypeInv, TypeOK, Effects, BeginDispatch, Pass, At
<1>2. local[e].seen[k].status = "planned"
  BY <1>1 DEF Licensed, PhaseInv
<1>3. /\ record' = [record EXCEPT ![k] = new]
      /\ local' = [local EXCEPT ![e].seen[k] = new, ![e].next = k + 1]
      /\ record[k].status = "planned"
      /\ UNCHANGED <<world, verdicts>>
  BY <1>1, <1>2 DEF BeginDispatch, Pass, Swap, environment
<1>4. new.status = "dispatching" /\ new.attempts = record[k].attempts + 1
  BY <1>1, MovedType DEF SideEffectStatus
<1> HIDE DEF new
<1>5. \A i \in Effects : record'[i] = IF i = k THEN new ELSE record[i]
  BY <1>3 DEF TypeInv, TypeOK
<1>6. /\ local'[e].pc = "begin" /\ local'[e].next = k + 1
      /\ local'[e].seen = [local[e].seen EXCEPT ![k] = new]
      /\ \A x \in Executors : x # e => local'[x] = local[x]
  BY <1>1, <1>3 DEF TypeInv, TypeOK, Local
<1>7. record[k].attempts = verdicts[k] /\ verdicts[k] \in Nat
  BY <1>1, <1>3 DEF Licensed, RecordInv, Dispatched, TypeInv, TypeOK
<1>8. RecordInv'
  BY <1>3, <1>4, <1>5, <1>7 DEF Licensed, RecordInv, Dispatched
<1>9. PhaseInv'
  <2>1. \A i \in Effects : k + 1 <= i => local'[e].seen[i].status = "planned"
    BY <1>1, <1>6 DEF Licensed, PhaseInv, TypeInv, TypeOK, Local
  <2> SUFFICES ASSUME NEW x \in Executors
               PROVE  /\ local'[x].pc = "reset_dispatching" =>
                            \A i \in Effects : local'[x].seen[i].status # "dispatching"
                      /\ local'[x].pc = "record" => local'[x].target # "failed"
                      /\ local'[x].pc = "begin" =>
                            \A i \in Effects : local'[x].next <= i =>
                                local'[x].seen[i].status = "planned"
    BY DEF PhaseInv
  <2>2. CASE x = e
    BY <1>6, <2>1, <2>2
  <2>3. CASE x # e
    BY <1>6, <2>3 DEF Licensed, PhaseInv
  <2> QED BY <2>2, <2>3
<1>10. WorldInv'
  <2> SUFFICES ASSUME NEW i \in Effects
               PROVE  world'[i] + Cardinality(Pending(i)') <= record'[i].attempts
    BY DEF WorldInv
  <2>1. /\ world[i] \in Nat /\ record[i].attempts \in Nat
        /\ world[i] + Cardinality(Pending(i)) <= record[i].attempts
        /\ Cardinality(Pending(i)) \in Nat
    BY PendingFinite, FS_CardinalityType DEF Licensed, WorldInv, TypeInv, TypeOK, Record
  <2>2. CASE i = k
    <3>1. Pending(i)' = Pending(i) \cup {e} /\ e \notin Pending(i)
      BY <1>1, <1>6, <2>2 DEF Pending
    <3>2. Cardinality(Pending(i)') = Cardinality(Pending(i)) + 1
      BY <3>1, PendingFinite, FS_AddElement
    <3> QED BY <1>3, <1>4, <1>5, <2>1, <2>2, <3>2
  <2>3. CASE i # k
    <3>1. Pending(i)' = Pending(i)
      BY <1>1, <1>6, <2>3 DEF Pending
    <3> QED BY <1>3, <1>5, <2>1, <2>3, <3>1
  <2> QED BY <2>2, <2>3
<1>11. Licence!Dispatch(k)
  <2> DEFINE granted == [i \in Effects |-> 1 + verdicts[i]]
             used == [i \in Effects |-> record[i].attempts]
  <2>1. used[k] < granted[k]
    BY <1>1, <1>7
  <2>2. used' = [used EXCEPT ![k] = @ + 1]
    <3>1. used' = [i \in Effects |-> record'[i].attempts]
      OBVIOUS
    <3>2. \A i \in Effects :
             record'[i].attempts = IF i = k THEN record[i].attempts + 1 ELSE record[i].attempts
      BY <1>4, <1>5
    <3> QED BY <1>1, <3>1, <3>2
  <2>3. granted' = granted
    BY <1>3
  <2> QED BY <1>3, <2>1, <2>2, <2>3 DEF Licence!Dispatch
<1> QED BY <1>1, <1>8, <1>9, <1>10, <1>11 DEF Licensed

\* The world applies effects whose dispatch it has not seen.
LEMMA ExecuteStep ==
    ASSUME ~ RetrySafe, TypeInv, Licensed, NEW e \in Executors, NEW outcome \in Outcomes,
           NEW S \in SUBSET Effects, Execute(e, outcome, S)
    PROVE  /\ Licensed'
           /\ Licence!Apply(S)
<1>1. /\ local[e].pc = "begin" /\ local[e].next > Intents
      /\ UNCHANGED <<record, verdicts>>
  BY DEF Execute, Done
<1>2. \A i \in Effects : world'[i] = IF i \in S THEN world[i] + 1 ELSE world[i]
  BY DEF Execute, Apply
<1>3. /\ local'[e].pc \in {"mark", "record"}
      /\ local'[e].target = ResultStatus(outcome)
      /\ \A x \in Executors : x # e => local'[x] = local[x]
  BY DEF Execute, TypeInv, TypeOK, Local
<1>4. ResultStatus(outcome) # "failed"
  BY DEF ResultStatus
<1>5. RecordInv'
  BY <1>1 DEF Licensed, RecordInv
<1>6. PhaseInv'
  BY <1>3, <1>4 DEF Licensed, PhaseInv
<1>7. \A i \in Effects :
         /\ world[i] \in Nat /\ record[i].attempts \in Nat
         /\ Cardinality(Pending(i)') \in Nat
         /\ world[i] + Cardinality(Pending(i)') + 1 <= record[i].attempts
  <2> SUFFICES ASSUME NEW i \in Effects
               PROVE  /\ world[i] \in Nat /\ record[i].attempts \in Nat
                      /\ Cardinality(Pending(i)') \in Nat
                      /\ world[i] + Cardinality(Pending(i)') + 1 <= record[i].attempts
    OBVIOUS
  <2>1. /\ world[i] \in Nat /\ record[i].attempts \in Nat
        /\ world[i] + Cardinality(Pending(i)) <= record[i].attempts
        /\ Cardinality(Pending(i)) \in Nat
    BY PendingFinite, FS_CardinalityType DEF Licensed, WorldInv, TypeInv, TypeOK, Record
  <2>2. e \in Pending(i)
    BY <1>1, OutboxAssumption DEF Pending, Effects, TypeInv, TypeOK, Local
  <2>3. Pending(i)' = Pending(i) \ {e}
    BY <1>3 DEF Pending
  <2>4. Cardinality(Pending(i)') = Cardinality(Pending(i)) - 1 /\ Cardinality(Pending(i)') \in Nat
    BY <2>2, <2>3, PendingFinite, FS_RemoveElement, FS_CardinalityType
  <2> QED BY <2>1, <2>4
<1>8. WorldInv'
  BY <1>1, <1>2, <1>7 DEF WorldInv
<1>9. Licence!Apply(S)
  <2>1. \A i \in S : world[i] < record[i].attempts
    BY <1>7
  <2>2. world' = [i \in Effects |-> IF i \in S THEN world[i] + 1 ELSE world[i]]
    BY DEF Execute, Apply
  <2> QED BY <1>1, <2>1, <2>2 DEF Licence!Apply
<1> QED BY <1>5, <1>6, <1>8, <1>9 DEF Licensed

\* A verdict FAILED replaces the licence of the last dispatch, no other does.
LEMMA ResolveStep ==
    ASSUME TypeInv, Licensed, NEW k \in Effects,
           NEW to \in {"confirmed", "failed", "reverted"},
           NEW result \in {NoResult, ManualResult} \cup 1 .. calls,
           ResolveUncertain(k, to, result)
    PROVE  /\ Licensed'
           /\ Licence!Grant(k) \/ UNCHANGED Licence!vars
<1> DEFINE moved == Moved(record[k], to)
           kept == IF result = NoResult THEN record[k].result ELSE result
           new == [moved EXCEPT !.manual = TRUE, !.result = kept]
<1>1. record' = [record EXCEPT ![k] = new]
  BY DEF ResolveUncertain
<1>2. moved \in Record /\ moved.status = to /\ moved.attempts = record[k].attempts
  <2>1. record[k] \in Record /\ to \in SideEffectStatus /\ to # "dispatching"
    BY DEF TypeInv, TypeOK, SideEffectStatus
  <2>2. record[k].attempts \in Nat
    BY <2>1 DEF Record
  <2> QED BY <2>1, <2>2, MovedType
<1>3. record[k].status = "uncertain" /\ UNCHANGED <<local, world>>
  BY DEF ResolveUncertain
<1>4. verdicts' = [verdicts EXCEPT ![k] = IF to = "failed" THEN verdicts[k] + 1 ELSE verdicts[k]]
  BY DEF ResolveUncertain
<1> HIDE DEF moved, kept
<1>5. new.status = to /\ new.attempts = record[k].attempts
  BY <1>2 DEF Record
<1> HIDE DEF new
<1>6. \A i \in Effects : record'[i] = IF i = k THEN new ELSE record[i]
  BY <1>1 DEF TypeInv, TypeOK
<1>7. \A i \in Effects : /\ verdicts[i] \in Nat
                         /\ i # k => verdicts'[i] = verdicts[i]
  BY <1>4 DEF TypeInv, TypeOK
<1>8. verdicts'[k] = IF to = "failed" THEN verdicts[k] + 1 ELSE verdicts[k]
  BY <1>4 DEF TypeInv, TypeOK
<1>9. record[k].attempts = verdicts[k] + 1
  BY <1>3 DEF Licensed, RecordInv, Dispatched
<1>10. RecordInv'
  BY <1>5, <1>6, <1>7, <1>8, <1>9 DEF Licensed, RecordInv, Dispatched
<1>11. PhaseInv'
  BY <1>3 DEF Licensed, PhaseInv
<1>12. WorldInv'
  BY <1>3, <1>5, <1>6 DEF Licensed, WorldInv, Pending
<1>13. \A i \in Effects : record'[i].attempts = record[i].attempts
  BY <1>5, <1>6
<1>14. CASE to = "failed"
  <2> DEFINE granted == [i \in Effects |-> 1 + verdicts[i]]
             used == [i \in Effects |-> record[i].attempts]
  <2>1. granted' = [granted EXCEPT ![k] = @ + 1]
    <3>1. granted' = [i \in Effects |-> 1 + verdicts'[i]]
      OBVIOUS
    <3>2. \A i \in Effects :
             verdicts'[i] = IF i = k THEN verdicts[i] + 1 ELSE verdicts[i]
      BY <1>7, <1>8, <1>14
    <3>3. \A i \in Effects :
             1 + verdicts'[i] = IF i = k THEN (1 + verdicts[i]) + 1 ELSE 1 + verdicts[i]
      BY <1>7, <3>2
    <3> QED BY <3>1, <3>3
  <2>2. used[k] = granted[k]
    BY <1>7, <1>9
  <2>3. used' = used
    BY <1>13
  <2>4. Licence!Grant(k)
    BY <1>3, <2>1, <2>2, <2>3 DEF Licence!Grant
  <2> QED BY <1>10, <1>11, <1>12, <2>4 DEF Licensed
<1>15. CASE to # "failed"
  BY <1>3, <1>7, <1>8, <1>10, <1>11, <1>12, <1>13, <1>15 DEF Licence!vars, Licensed
<1> QED BY <1>14, <1>15
-----------------------------------------------------------------------------
(***************************************************************************)
(* The licence invariant, the safety property and the refinement.          *)
(***************************************************************************)
LEMMA LicenceInit == Init => Licensed
<1> SUFFICES ASSUME Init PROVE Licensed
  OBVIOUS
<1>1. \A i \in Effects : record[i].status = "absent" /\ record[i].attempts = 0
  BY DEF Init, Absent, NewRecord
<1>2. \A i \in Effects : world[i] = 0 /\ verdicts[i] = 0
  BY DEF Init
<1>3. \A e \in Executors : local[e].pc = "idle"
  BY DEF Init, Idle
<1>4. RecordInv
  BY <1>1, <1>2 DEF RecordInv, Dispatched
<1>5. PhaseInv
  BY <1>3 DEF PhaseInv
<1>6. WorldInv
  <2> SUFFICES ASSUME NEW i \in Effects
               PROVE  world[i] + Cardinality(Pending(i)) <= record[i].attempts
    BY DEF WorldInv
  <2>1. Pending(i) = {}
    BY <1>3 DEF Pending
  <2> QED BY <1>1, <1>2, <2>1, FS_EmptySet
<1> QED BY <1>4, <1>5, <1>6 DEF Licensed

\* Every step keeps the licence invariant and is a step of DispatchLicence or
\* leaves its variables alone.
LEMMA LicenceStep ==
    ASSUME ~ RetrySafe, TypeInv, Licensed, [Next]_vars
    PROVE  Licensed' /\ [Licence!Next]_(Licence!vars)
<1> DEFINE Goal == Licensed' /\ [Licence!Next]_(Licence!vars)
<1>1. ASSUME Quiet, RecordInv', PhaseInv' PROVE Goal
  <2>1. WorldInv'
    BY <1>1, QuietWorld DEF Licensed
  <2>2. UNCHANGED Licence!vars
    BY <1>1 DEF Quiet, Licence!vars
  <2> QED BY <1>1, <2>1, <2>2 DEF Licensed
<1>2. ASSUME NEW e \in Executors, BeginDispatch(e) PROVE Goal
  BY <1>2, BeginStep DEF Licence!Next
<1>3. ASSUME NEW e \in Executors, NEW outcome \in Outcomes, NEW S \in SUBSET Effects,
             Execute(e, outcome, S)
      PROVE  Goal
  BY <1>3, ExecuteStep DEF Licence!Next
<1>4. ASSUME NEW i \in Effects, NEW to \in {"confirmed", "failed", "reverted"},
             NEW result \in {NoResult, ManualResult} \cup 1 .. calls,
             ResolveUncertain(i, to, result)
      PROVE  Goal
  BY <1>4, ResolveStep DEF Licence!Next
<1>5. ASSUME NEW e \in Executors, Step(e) PROVE Goal
  <2> HIDE DEF Goal
  <2>1. CASE BeginDispatch(e)
    BY <1>2, <2>1
  <2>2. CASE \E outcome \in Outcomes, S \in SUBSET Effects : Execute(e, outcome, S)
    BY <1>3, <2>2
  <2>3. CASE \/ \E anchor \in Anchors : Prepare(e, anchor)
             \/ Save(e) \/ ResetDispatching(e) \/ ResetFailed(e) \/ MarkUncertain(e)
             \/ ConfirmResult(e) \/ Conflict(e) \/ Decide(e) \/ RecordResult(e)
             \/ ResultRecorded(e) \/ CommitResult(e) \/ Return(e) \/ Crash(e)
    <3>1. Quiet /\ RecordInv' /\ PhaseInv'
      BY <2>3, QuietStep DEF Licensed
    <3> QED BY <1>1, <3>1
  <2> QED BY <1>5, <2>1, <2>2, <2>3 DEF Step
<1>6. ASSUME UNCHANGED vars PROVE Goal
  <2>1. Quiet /\ RecordInv' /\ PhaseInv'
    BY <1>6 DEF vars, environment, Quiet, Pending, Licensed, RecordInv, PhaseInv
  <2> QED BY <1>1, <2>1
<1> HIDE DEF Goal
<1>7. Goal
  BY <1>4, <1>5, <1>6 DEF Next
<1> QED BY <1>7 DEF Goal

LEMMA Invariance == Spec => []IInv
<1>1. Init => IInv
  BY TypeInit, LicenceInit DEF IInv, LicenceInv, Licensed
<1>2. IInv /\ [Next]_vars => IInv'
  BY TypeStep, LicenceStep DEF IInv, LicenceInv, Licensed
<1> QED BY <1>1, <1>2, PTL DEF Spec

\* An effect that must not be repeated reaches the world at most once, and once
\* more for each verdict that it had failed, whatever the number of executors,
\* crashes and retries of the call (prepare, begin_dispatch, record_result).
THEOREM AtMostOnceHolds == Spec => []AtMostOnce
<1>1. IInv => AtMostOnce
  <2> SUFFICES ASSUME IInv, ~ RetrySafe, NEW i \in Effects
               PROVE  world[i] <= 1 + verdicts[i]
    BY DEF AtMostOnce
  <2>1. /\ world[i] \in Nat /\ verdicts[i] \in Nat /\ record[i].attempts \in Nat
        /\ Cardinality(Pending(i)) \in Nat
    BY PendingFinite, FS_CardinalityType DEF IInv, TypeInv, TypeOK, Record
  <2>2. world[i] + Cardinality(Pending(i)) <= record[i].attempts
    BY DEF IInv, LicenceInv, Licensed, WorldInv
  <2>3. record[i].attempts <= verdicts[i] + 1
    BY <2>1 DEF IInv, LicenceInv, Licensed, RecordInv
  <2> QED BY <2>1, <2>2, <2>3
<1> QED BY <1>1, Invariance, PTL

\* The outbox of such a tool implements DispatchLicence: begin_dispatch uses a
\* licence, the tool applies what was dispatched, and resolve_uncertain grants a
\* licence only for one that was used.
THEOREM Refinement ==
    ASSUME ~ RetrySafe
    PROVE  Spec => DispatchLicensed
<1>1. Init => Licence!Init
  <2> SUFFICES ASSUME Init PROVE Licence!Init
    OBVIOUS
  <2>1. \A i \in Effects : record[i].attempts = 0 /\ 1 + verdicts[i] = 1
    BY DEF Init, Absent, NewRecord
  <2>2. world = [i \in Effects |-> 0]
    BY DEF Init
  <2> QED BY <2>1, <2>2 DEF Licence!Init
<1>2. IInv /\ [Next]_vars => [Licence!Next]_(Licence!vars)
  BY LicenceStep DEF IInv, LicenceInv, Licensed
<1> QED BY <1>1, <1>2, Invariance, PTL DEF Spec, DispatchLicensed, Licence!Spec
-----------------------------------------------------------------------------
(***************************************************************************)
(* The result of a call with one effect.  Its record is settled once it is *)
(* applied or confirmed.  SettledInv: a settled record keeps its snapshot, *)
(* and every result an executor goes on with or an event tells of is that  *)
(* one.  KeyInv: without anchor reuse a call finds its key unused, so that *)
(* its event tells of its own result.  StillInv: a retry-safe tool that    *)
(* keeps to its declared effects leaves no record uncertain.               *)
(***************************************************************************)
Settled == {"applied", "confirmed"}

Final(x) == record[1].status \in Settled /\ record[1].result = x

Finished(l) == l.pc = "commit" \/ (l.pc = "record" /\ l.next > Intents)

Undecided(l) ==
    \/ l.pc \in {"reset_dispatching", "reset_failed", "begin", "mark"}
    \/ l.pc = "record" /\ l.next <= Intents

SettledOk(l) ==
    /\ l.seen[1].status \in Settled => Final(l.seen[1].result)
    /\ Finished(l) /\ l.result # NoResult => Final(l.result)
    /\ Undecided(l) => l.seen[1].status \notin Settled
    /\ l.pc \in {"reset_dispatching", "reset_failed", "mark"} => l.result = NoResult
    /\ l.pc = "record" => (l.target = "applied" <=> l.result # NoResult)

SettledInv ==
    /\ \A e \in Executors : SettledOk(local[e])
    /\ \A a \in Anchors : event[a] \notin {NoResult, Unrecorded} => Final(event[a])

KeyOk(l) ==
    /\ l.pc # "idle" => l.anchor = l.call /\ l.call \in 1 .. calls
    /\ l.pc \notin {"idle", "confirm"} => event[l.anchor] = Unrecorded
    /\ Finished(l) /\ l.seen[1].status \in Settled => l.result = l.seen[1].result
    /\ l.pc = "confirm" /\ l.seen[1].status \in Settled =>
           event[l.anchor] = l.seen[1].result

KeyInv ==
    /\ \A e \in Executors : KeyOk(local[e])
    /\ \A e, f \in Executors :
          e # f /\ local[e].pc # "idle" /\ local[f].pc # "idle"
          => local[e].call # local[f].call
    /\ \A a \in Anchors : a > calls => event[a] = Unrecorded

StillOk(l) ==
    /\ l.seen[1].status \notin {"uncertain", "reverted"}
    /\ l.pc # "mark"
    /\ l.pc = "record" => l.target # "uncertain"
    /\ l.pc \in {"reset_dispatching", "reset_failed"} \/ (l.pc = "save" /\ l.next > Intents)
       => l.seen[1].status # "absent"
    /\ l.pc = "reset_failed" \/ (l.pc = "reset_dispatching" /\ l.next > Intents)
       => l.seen[1].status # "dispatching"
    /\ l.pc = "reset_failed" /\ l.next > Intents => l.seen[1].status # "failed"

StillInv ==
    /\ record[1].status \notin {"uncertain", "reverted"}
    /\ \A e \in Executors : StillOk(local[e])

\* The tool keeps to its declared effects, and its key makes them idempotent.
Tame == RetrySafe /\ Outcomes \subseteq {"ok", "error"}

ResultInv ==
    /\ SettledInv
    /\ ~ AnchorReuse => KeyInv
    /\ Tame => StillInv

\* What is settled stays as it is.
Lasting ==
    record[1].status \in Settled =>
        record'[1].status \in Settled /\ record'[1].result = record[1].result

LEMMA OneEffect ==
    ASSUME Intents = 1, TypeInv, NEW e \in Executors
    PROVE  /\ Effects = {1} /\ local[e] \in Local
           /\ record[1] \in Record /\ local[e].seen[1] \in Record
           /\ local[e].next \in {1, 2}
           /\ \A i : local[e].next = i /\ i <= Intents => i = 1
<1>1. Effects = {1} /\ local[e] \in Local
  BY DEF Effects, TypeInv, TypeOK
<1>2. record[1] \in Record /\ local[e].seen[1] \in Record
  BY <1>1 DEF TypeInv, TypeOK, Local
<1>3. local[e].next \in {1, 2}
  BY <1>1 DEF Local
<1> QED BY <1>1, <1>2, <1>3

\* An executor takes a step that has the invariant for its own locals.
LEMMA SettledKeeps ==
    ASSUME SettledInv, Lasting, NEW e \in Executors,
           \A f \in Executors \ {e} : local'[f] = local[f],
           SettledOk(local[e])',
           \A a \in Anchors : event'[a] \in {event[a], NoResult} \/ Final(event[a])'
    PROVE  SettledInv'
<1>1. \A x : Final(x) => Final(x)'
  BY DEF Final, Lasting
<1>2. ASSUME NEW f \in Executors, f # e PROVE SettledOk(local[f])'
  <2>1. local'[f] = local[f] /\ SettledOk(local[f])
    BY <1>2 DEF SettledInv
  <2>2. Final(local[f].seen[1].result) => Final(local[f].seen[1].result)'
    BY <1>1, <2>1 DEF Final
  <2>3. Final(local[f].result) => Final(local[f].result)'
    BY <1>1, <2>1 DEF Final
  <2> QED BY <2>1, <2>2, <2>3 DEF SettledOk, Finished, Undecided
<1>3. ASSUME NEW a \in Anchors, event'[a] \notin {NoResult, Unrecorded}
      PROVE  Final(event[a])'
  BY <1>3 DEF SettledInv, Final, Lasting
<1> QED BY <1>2, <1>3 DEF SettledInv

LEMMA KeyKeeps ==
    ASSUME KeyInv, NEW e \in Executors, UNCHANGED <<event, calls>>,
           \A f \in Executors \ {e} : local'[f] = local[f],
           \/ local'[e].pc = "idle"
           \/ local[e].pc # "idle" /\ local'[e].call = local[e].call,
           KeyOk(local[e])'
    PROVE  KeyInv'
<1>1. ASSUME NEW f \in Executors, f # e PROVE KeyOk(local[f])'
  BY <1>1 DEF KeyInv, KeyOk, Finished
<1>2. ASSUME NEW f \in Executors, NEW g \in Executors,
             f # g, local'[f].pc # "idle", local'[g].pc # "idle"
      PROVE  local'[f].call # local'[g].call
  BY <1>2 DEF KeyInv
<1> QED BY <1>1, <1>2 DEF KeyInv

LEMMA StillKeeps ==
    ASSUME StillInv, NEW e \in Executors,
           \A f \in Executors \ {e} : local'[f] = local[f],
           record'[1].status \notin {"uncertain", "reverted"}, StillOk(local[e])'
    PROVE  StillInv'
  BY DEF StillInv, StillOk
\* All three at once, for a step that appends no event.
LEMMA Advance ==
    ASSUME ResultInv, Lasting, NEW e \in Executors, UNCHANGED <<event, calls>>,
           \A f \in Executors \ {e} : local'[f] = local[f],
           \/ local'[e].pc = "idle"
           \/ local[e].pc # "idle" /\ local'[e].call = local[e].call,
           SettledOk(local[e])',
           ~ AnchorReuse => KeyOk(local[e])',
           Tame => StillOk(local[e])' /\ record'[1].status \notin {"uncertain", "reverted"}
    PROVE  ResultInv'
<1>1. SettledInv'
  BY SettledKeeps DEF ResultInv
<1>2. ~ AnchorReuse => KeyInv'
  BY KeyKeeps DEF ResultInv
<1>3. Tame => StillInv'
  BY StillKeeps DEF ResultInv
<1> QED BY <1>1, <1>2, <1>3 DEF ResultInv, Tame

\* What ResultInv says of the executor that takes a step.
LEMMA Own ==
    ASSUME ResultInv, NEW e \in Executors
    PROVE  /\ SettledOk(local[e])
           /\ ~ AnchorReuse => KeyOk(local[e])
           /\ Tame => StillOk(local[e]) /\ record[1].status \notin {"uncertain", "reverted"}
  BY DEF ResultInv, SettledInv, KeyInv, StillInv

\* The executor goes on, or leaves the step, and no record moves.
LEMMA WalkResult ==
    ASSUME Intents = 1, TypeInv, ResultInv, NEW e \in Executors,
           \/ Conflict(e) \/ Crash(e) \/ Return(e) \/ ResultRecorded(e)
    PROVE  ResultInv'
<1> USE OneEffect DEF environment, counters
<1>1. /\ UNCHANGED <<record, event, calls>>
      /\ \A f \in Executors \ {e} : local'[f] = local[f]
  BY DEF TypeInv, TypeOK, Conflict, Crash, Return, ResultRecorded, Goto
<1>2. Lasting
  BY <1>1 DEF Lasting
<1>3. CASE Conflict(e) \/ Crash(e) \/ Return(e)
  <2>1. local'[e] = Idle /\ Idle.pc = "idle" /\ Idle.seen[1].status = "absent"
    BY <1>3 DEF TypeInv, TypeOK, Conflict, Crash, Return, Idle, Absent, NewRecord
  <2>2. SettledOk(local[e])'
    BY <2>1 DEF SettledOk, Finished, Undecided, Settled
  <2>3. KeyOk(local[e])' /\ StillOk(local[e])'
    BY <2>1 DEF KeyOk, StillOk, Finished
  <2> QED BY <1>1, <1>2, <2>1, <2>2, <2>3, Own, Advance
<1>4. CASE ResultRecorded(e)
  <2>1. /\ local[e].pc = "record" /\ local[e].next > Intents
        /\ local'[e] = [local[e] EXCEPT !.pc = "commit", !.next = 1]
    BY <1>4 DEF TypeInv, TypeOK, ResultRecorded, Goto, Done
  <2>2. /\ local'[e].pc = "commit" /\ local'[e].next = 1
        /\ local'[e].seen = local[e].seen /\ local'[e].result = local[e].result
        /\ local'[e].call = local[e].call /\ local'[e].anchor = local[e].anchor
    BY <2>1 DEF Local
  <2>3. SettledOk(local[e])'
    BY <1>1, <2>1, <2>2, Own DEF SettledOk, Finished, Undecided, Final
  <2>4. ~ AnchorReuse => KeyOk(local[e])'
    BY <1>1, <2>1, <2>2, Own DEF KeyOk, Finished
  <2>5. Tame => StillOk(local[e])' /\ record'[1].status \notin {"uncertain", "reverted"}
    BY <1>1, <2>1, <2>2, Own DEF StillOk
  <2> QED BY <1>1, <1>2, <2>1, <2>2, <2>3, <2>4, <2>5, Advance
<1> QED BY <1>3, <1>4

LEMMA PrepareResult ==
    ASSUME Intents = 1, TypeInv, ResultInv, NEW e \in Executors, NEW anchor \in Anchors,
           Prepare(e, anchor)
    PROVE  ResultInv'
<1> DEFINE l == [Idle EXCEPT !.pc = "save", !.call = calls', !.anchor = anchor]
<1>1. /\ UNCHANGED <<record, event>> /\ calls' = calls + 1 /\ calls \in Nat
      /\ \A f \in Executors \ {e} : local'[f] = local[f]
      /\ local'[e] = l
  BY OutboxAssumption DEF TypeInv, TypeOK, Prepare, environment
<1>2. /\ l.pc = "save" /\ l.next = 1 /\ l.call = calls' /\ l.anchor = anchor
      /\ l.seen[1].status = "absent"
  BY OneEffect DEF Idle, Absent, NewRecord
<1> HIDE DEF l
<1>3. SettledInv'
  <2>1. SettledOk(local[e])'
    BY <1>1, <1>2 DEF SettledOk, Finished, Undecided, Settled
  <2> QED BY <1>1, <2>1, SettledKeeps DEF ResultInv, Lasting
<1>4. ASSUME ~ AnchorReuse PROVE KeyInv'
  <2>1. anchor = calls' /\ event[anchor] = Unrecorded
    BY <1>1, <1>4 DEF Prepare, ResultInv, KeyInv, Anchors
  <2>2. KeyOk(local[e])'
    BY <1>1, <1>2, <2>1 DEF KeyOk, Finished
  <2>3. ASSUME NEW f \in Executors, f # e
        PROVE  KeyOk(local[f])' /\ (local[f].pc # "idle" => local[f].call \in 1 .. calls)
    <3>1. local'[f] = local[f] /\ KeyOk(local[f])
      BY <1>1, <1>4, <2>3 DEF ResultInv, KeyInv
    <3>2. \A n \in 1 .. calls : n \in 1 .. calls'
      BY <1>1
    <3> QED BY <1>1, <3>1, <3>2 DEF KeyOk, Finished
  <2>4. \A a \in Anchors : a > calls' => event'[a] = Unrecorded
    BY <1>1, <1>4 DEF ResultInv, KeyInv, Anchors
  <2>5. ASSUME NEW f \in Executors, NEW g \in Executors,
               f # g, local'[f].pc # "idle", local'[g].pc # "idle"
        PROVE  local'[f].call # local'[g].call
    <3>1. \A n \in 1 .. calls : n # calls'
      BY <1>1
    <3>2. CASE f = e
      BY <1>1, <1>2, <2>3, <2>5, <3>1, <3>2
    <3>3. CASE g = e
      BY <1>1, <1>2, <2>3, <2>5, <3>1, <3>3
    <3>4. CASE f # e /\ g # e
      BY <1>1, <1>4, <2>5, <3>4 DEF ResultInv, KeyInv
    <3> QED BY <3>2, <3>3, <3>4
  <2> QED BY <2>2, <2>3, <2>4, <2>5 DEF KeyInv
<1>5. Tame => StillInv'
  <2>1. StillOk(local[e])'
    BY <1>1, <1>2 DEF StillOk
  <2> QED BY <1>1, <2>1, StillKeeps DEF ResultInv, StillInv
<1> QED BY <1>3, <1>4, <1>5 DEF ResultInv, Tame
\* The executor takes note of its record as `new', and goes on to the end.
LEMMA NoteFields ==
    ASSUME Intents = 1, TypeInv, NEW e \in Executors, NEW new, NEW i,
           i = local[e].next, i <= Intents,
           local' = [local EXCEPT ![e].seen[i] = new, ![e].next = i + 1]
    PROVE  /\ \A f \in Executors \ {e} : local'[f] = local[f]
           /\ local'[e].seen[1] = new /\ local'[e].next = 2
           /\ local'[e].pc = local[e].pc /\ local'[e].result = local[e].result
           /\ local'[e].call = local[e].call /\ local'[e].anchor = local[e].anchor
           /\ local'[e].target = local[e].target
<1>1. i = 1 /\ Effects = {1} /\ local[e] \in Local
  BY OneEffect
<1> DEFINE seen == [local[e].seen EXCEPT ![1] = new]
<1>2. local'[e] = [local[e] EXCEPT !.seen = seen, !.next = 2]
  BY <1>1 DEF TypeInv, TypeOK
<1>3. \A f \in Executors \ {e} : local'[f] = local[f]
  BY DEF TypeInv, TypeOK
<1>4. seen[1] = new
  BY <1>1 DEF Local
<1> HIDE DEF seen
<1>5. /\ local'[e].seen = seen /\ local'[e].next = 2
      /\ local'[e].pc = local[e].pc /\ local'[e].result = local[e].result
      /\ local'[e].call = local[e].call /\ local'[e].anchor = local[e].anchor
      /\ local'[e].target = local[e].target
  <2> DEFINE l == local[e]
  <2>1. l \in Local
    BY <1>1
  <2>2. local'[e] = [l EXCEPT !.seen = seen, !.next = 2]
    BY <1>2
  <2> HIDE DEF l
  <2>3. local'[e].seen = seen /\ local'[e].next = 2 /\ local'[e].pc = l.pc
    BY <2>1, <2>2 DEF Local
  <2>4. local'[e].result = l.result /\ local'[e].target = l.target
    BY <2>1, <2>2 DEF Local
  <2>5. local'[e].call = l.call /\ local'[e].anchor = l.anchor
    BY <2>1, <2>2 DEF Local
  <2> QED BY <2>3, <2>4, <2>5 DEF l
<1> QED BY <1>3, <1>4, <1>5

LEMMA SwapFields ==
    ASSUME Intents = 1, TypeInv, NEW e \in Executors, NEW new,
           local[e].next <= Intents, Swap(e, new)
    PROVE  /\ record'[1] = new /\ record[1].status = local[e].seen[1].status
           /\ \A f \in Executors \ {e} : local'[f] = local[f]
           /\ local'[e].seen[1] = new /\ local'[e].next = 2
           /\ local'[e].pc = local[e].pc /\ local'[e].result = local[e].result
           /\ local'[e].call = local[e].call /\ local'[e].anchor = local[e].anchor
           /\ local'[e].target = local[e].target
<1>1. local[e].next = 1 /\ 1 \in Effects
  BY OneEffect
<1>2. local' = [local EXCEPT ![e].seen[1] = new, ![e].next = 1 + 1]
      /\ record' = [record EXCEPT ![1] = new]
      /\ record[1].status = local[e].seen[1].status
  BY <1>1 DEF Swap
<1>3. record'[1] = new
  BY <1>1, <1>2 DEF TypeInv, TypeOK
<1> QED BY <1>1, <1>2, <1>3, NoteFields

LEMMA SaveResult ==
    ASSUME Intents = 1, TypeInv, ResultInv, NEW e \in Executors, Save(e)
    PROVE  ResultInv'
<1> DEFINE saved == IF record[1].status = "absent" THEN NewRecord ELSE record[1]
<1>1. local[e].next = 1 /\ 1 \in Effects /\ local[e].pc = "save"
  BY OneEffect DEF Save, At
<1>2. /\ record' = [record EXCEPT ![1] = saved]
      /\ local' = [local EXCEPT ![e].seen[1] = saved, ![e].next = 1 + 1]
      /\ UNCHANGED <<event, calls>>
  BY <1>1 DEF Save, environment, counters
<1>3. /\ NewRecord.status = "planned"
      /\ saved.status # "absent"
      /\ saved.status \in Settled => saved = record[1]
      /\ saved.status \in {"uncertain", "reverted"} => saved = record[1]
      /\ record[1].status \in Settled => saved = record[1]
  BY DEF NewRecord, Settled
<1> HIDE DEF saved
<1>4. record'[1] = saved
  BY <1>1, <1>2 DEF TypeInv, TypeOK
<1>5. /\ \A f \in Executors \ {e} : local'[f] = local[f]
      /\ local'[e].seen[1] = saved /\ local'[e].next = 2
      /\ local'[e].pc = "save"
      /\ local'[e].call = local[e].call /\ local'[e].anchor = local[e].anchor
  <2>1. 1 = local[e].next /\ 1 <= Intents
    BY <1>1
  <2> QED BY <1>1, <1>2, <2>1, NoteFields
<1>6. Lasting
  BY <1>3, <1>4 DEF Lasting
<1>7. SettledOk(local[e])'
  BY <1>3, <1>4, <1>5 DEF SettledOk, Finished, Undecided, Final
<1>8. ~ AnchorReuse => KeyOk(local[e])'
  BY <1>1, <1>2, <1>5, Own DEF KeyOk, Finished
<1>9. Tame => StillOk(local[e])' /\ record'[1].status \notin {"uncertain", "reverted"}
  BY <1>3, <1>4, <1>5, Own DEF StillOk
<1> QED BY <1>1, <1>2, <1>5, <1>6, <1>7, <1>8, <1>9, Advance

\* The passes over a record that is not settled.
LEMMA PassResult ==
    ASSUME Intents = 1, TypeInv, ResultInv, NEW e \in Executors, NEW pc, NEW from, NEW to,
           <<pc, from, to>> \in {<<"reset_dispatching", {"dispatching"}, "planned">>,
                                 <<"reset_failed", {"failed"}, "planned">>,
                                 <<"begin", {"planned"}, "dispatching">>,
                                 <<"mark", {"dispatching", "applied"}, "uncertain">>},
           Pass(e, pc, from, to)
    PROVE  ResultInv'
<1> DEFINE new == Moved(record[1], to)
           seen == IF local[e].seen[1].status \in from THEN new ELSE local[e].seen[1]
<1>1. /\ local[e].next = 1 /\ local[e].next <= Intents /\ 1 \in Effects
      /\ local[e].pc = pc /\ record[1] \in Record
      /\ UNCHANGED <<event, calls>>
  BY OneEffect DEF Pass, At, environment, counters
<1>2. pc \in {"reset_dispatching", "reset_failed", "begin", "mark"}
      /\ to \in {"planned", "dispatching", "uncertain"} /\ to \in SideEffectStatus
  BY DEF SideEffectStatus
<1>3. new.status = to
  BY <1>1, <1>2, MovedType
<1>4. local[e].seen[1].status \notin Settled
  BY <1>1, <1>2, Own DEF SettledOk, Undecided
<1> HIDE DEF new
<1>5. /\ \A f \in Executors \ {e} : local'[f] = local[f]
      /\ local'[e].seen[1] = seen /\ local'[e].next = 2
      /\ local'[e].pc = pc /\ local'[e].result = local[e].result
      /\ local'[e].call = local[e].call /\ local'[e].anchor = local[e].anchor
      /\ \/ record'[1] = record[1]
         \/ /\ record'[1] = new /\ record[1].status = local[e].seen[1].status
            /\ local[e].seen[1].status \in from
  <2>1. CASE local[e].seen[1].status \in from
    <3>1. Swap(e, new)
      BY <1>1, <2>1 DEF Pass, new
    <3> QED BY <1>1, <2>1, <3>1, SwapFields
  <2>2. CASE local[e].seen[1].status \notin from
    <3>1. local' = [local EXCEPT ![e].next = 2] /\ record' = record
      BY <1>1, <2>2 DEF Pass
    <3> QED BY <1>1, <2>2, <3>1 DEF TypeInv, TypeOK, Local
  <2> QED BY <2>1, <2>2
<1>6. Lasting
  BY <1>4, <1>5 DEF Lasting
<1>7. seen.status \notin Settled /\ (seen.status = to \/ seen = local[e].seen[1])
  BY <1>2, <1>3, <1>4 DEF Settled
<1>8. SettledOk(local[e])'
  BY <1>1, <1>2, <1>5, <1>7, Own DEF SettledOk, Finished, Undecided
<1>9. ~ AnchorReuse => KeyOk(local[e])'
  BY <1>1, <1>2, <1>5, <1>7, Own DEF KeyOk, Finished
<1>10. ASSUME Tame
       PROVE  StillOk(local[e])' /\ record'[1].status \notin {"uncertain", "reverted"}
  <2>1. StillOk(local[e]) /\ record[1].status \notin {"uncertain", "reverted"} /\ pc # "mark"
    BY <1>1, <1>10, Own DEF StillOk
  <2>2. to \notin {"uncertain", "reverted"}
    BY <2>1
  <2>3. record'[1].status \notin {"uncertain", "reverted"}
    BY <1>3, <1>5, <2>1, <2>2
  <2>4. seen.status \notin {"uncertain", "reverted"}
    BY <1>7, <2>1, <2>2 DEF StillOk
  <2>5. CASE local[e].seen[1].status \in from
    <3>1. seen.status = to
      BY <1>3, <2>5
    <3> QED BY <1>2, <1>5, <2>1, <2>3, <2>4, <3>1 DEF StillOk
  <2>6. CASE local[e].seen[1].status \notin from
    <3>1. seen = local[e].seen[1]
      BY <2>6
    <3> QED BY <1>1, <1>2, <1>5, <2>1, <2>3, <2>4, <2>6, <3>1 DEF StillOk
  <2> QED BY <2>5, <2>6
<1> QED BY <1>1, <1>2, <1>5, <1>6, <1>8, <1>9, <1>10, Advance

LEMMA ConfirmResultKeeps ==
    ASSUME Intents = 1, TypeInv, ResultInv, NEW e \in Executors, ConfirmResult(e)
    PROVE  ResultInv'
<1> DEFINE new == Moved(record[1], "confirmed")
           seen == IF local[e].seen[1].status = "applied" THEN new ELSE local[e].seen[1]
<1>1. /\ local[e].next = 1 /\ local[e].next <= Intents /\ 1 \in Effects
      /\ local[e].pc = "confirm" /\ record[1] \in Record
      /\ UNCHANGED <<event, calls>>
  BY OneEffect DEF ConfirmResult, Pass, At, environment, counters
<1>2. new.status = "confirmed" /\ new.result = record[1].result
  BY <1>1, MovedType DEF SideEffectStatus
<1> HIDE DEF new
<1>3. /\ \A f \in Executors \ {e} : local'[f] = local[f]
      /\ local'[e].seen[1] = seen /\ local'[e].next = 2
      /\ local'[e].pc = "confirm" /\ local'[e].result = local[e].result
      /\ local'[e].call = local[e].call /\ local'[e].anchor = local[e].anchor
      /\ \/ record'[1] = record[1] /\ seen = local[e].seen[1]
         \/ /\ record'[1] = new /\ record[1].status = "applied" /\ seen = new
            /\ local[e].seen[1].status = "applied"
  <2>1. CASE local[e].seen[1].status = "applied"
    <3>1. Swap(e, new)
      BY <1>1, <2>1 DEF ConfirmResult, Pass, new
    <3> QED BY <1>1, <2>1, <3>1, SwapFields
  <2>2. CASE local[e].seen[1].status # "applied"
    <3>1. local' = [local EXCEPT ![e].next = 2] /\ record' = record
      BY <1>1, <2>2 DEF ConfirmResult, Pass
    <3> QED BY <1>1, <2>2, <3>1 DEF TypeInv, TypeOK, Local
  <2> QED BY <2>1, <2>2
<1>4. Lasting
  BY <1>2, <1>3 DEF Lasting, Settled
<1>5. SettledOk(local[e])'
  BY <1>1, <1>2, <1>3, Own DEF SettledOk, Finished, Undecided, Final, Settled
<1>6. ASSUME ~ AnchorReuse PROVE KeyOk(local[e])'
  <2>1. seen.status \in Settled =>
            local[e].seen[1].status \in Settled /\ seen.result = local[e].seen[1].result
    BY <1>2, <1>3, Own DEF SettledOk, Final, Settled
  <2> QED BY <1>1, <1>3, <1>6, <2>1, Own DEF KeyOk, Finished
<1>7. Tame => StillOk(local[e])' /\ record'[1].status \notin {"uncertain", "reverted"}
  BY <1>1, <1>2, <1>3, Own DEF StillOk
<1> QED BY <1>1, <1>3, <1>4, <1>5, <1>6, <1>7, Advance
LEMMA RecordResultKeeps ==
    ASSUME Intents = 1, TypeInv, ResultInv, NEW e \in Executors, RecordResult(e)
    PROVE  ResultInv'
<1> DEFINE moved == Moved(record[1], local[e].target)
           new == IF local[e].target = "applied"
                  THEN [moved EXCEPT !.result = local[e].result] ELSE moved
<1>1. /\ local[e].next = 1 /\ local[e].next <= Intents /\ local[e].pc = "record"
      /\ record[1] \in Record /\ local[e].seen[1].status \notin Settled
      /\ UNCHANGED <<event, calls>> /\ Swap(e, new)
  <2>1. local[e].next = 1 /\ local[e].next <= Intents /\ local[e].pc = "record"
    BY OneEffect DEF RecordResult, At
  <2>2. record[1] \in Record /\ local[e].seen[1].status \notin Settled
    BY <2>1, OneEffect, Own DEF SettledOk, Undecided
  <2> QED BY <2>1, <2>2 DEF RecordResult, environment, counters
<1>2. /\ local[e].target \in {"applied", "failed", "uncertain"}
      /\ local[e].target = "applied" <=> local[e].result # NoResult
  BY <1>1, Own DEF SettledOk, TypeInv, LocalInv
<1>3. new.status = local[e].target
      /\ (local[e].target = "applied" => new.result = local[e].result)
  <2>1. moved \in Record /\ moved.status = local[e].target
    BY <1>1, <1>2, MovedType DEF SideEffectStatus
  <2> HIDE DEF moved
  <2> QED BY <2>1 DEF Record
<1> HIDE DEF new
<1>4. /\ record'[1] = new /\ record[1].status = local[e].seen[1].status
      /\ \A f \in Executors \ {e} : local'[f] = local[f]
      /\ local'[e].seen[1] = new /\ local'[e].next = 2
      /\ local'[e].pc = "record" /\ local'[e].result = local[e].result
      /\ local'[e].call = local[e].call /\ local'[e].anchor = local[e].anchor
      /\ local'[e].target = local[e].target
  BY <1>1, SwapFields
<1>5. Lasting
  BY <1>1, <1>4 DEF Lasting
<1>6. SettledOk(local[e])'
  BY <1>2, <1>3, <1>4 DEF SettledOk, Finished, Undecided, Final, Settled
<1>7. ~ AnchorReuse => KeyOk(local[e])'
  BY <1>1, <1>2, <1>3, <1>4, Own DEF KeyOk, Finished, Settled
<1>8. Tame => StillOk(local[e])' /\ record'[1].status \notin {"uncertain", "reverted"}
  BY <1>1, <1>2, <1>3, <1>4, Own DEF StillOk
<1> QED BY <1>1, <1>4, <1>5, <1>6, <1>7, <1>8, Advance

\* One record: what prepare sees is its status, and its snapshot is the only one.
LEMMA OneSeen ==
    ASSUME Intents = 1, TypeInv, NEW e \in Executors
    PROVE  SeenStatus(e) = {local[e].seen[1].status} /\ Replayable(e)
<1>1. SeenStatus(e) = {local[e].seen[1].status} /\ Seen(e) = {local[e].seen[1]}
  BY OneEffect DEF SeenStatus, Seen
<1>2. {r.result : r \in Seen(e)} = {local[e].seen[1].result}
  BY <1>1
<1> QED BY <1>1, <1>2, FS_Singleton DEF Replayable

LEMMA DecideResult ==
    ASSUME Intents = 1, TypeInv, ResultInv, NEW e \in Executors, Decide(e)
    PROVE  ResultInv'
<1> DEFINE s == local[e].seen[1].status
<1>1. /\ UNCHANGED <<record, event, calls>>
      /\ SeenStatus(e) = {s} /\ Replayable(e) /\ local[e] \in Local
      /\ local[e].next > Intents /\ local[e].pc # "idle"
  BY OneSeen, OneEffect DEF Decide, Done, environment, counters
<1>2. Lasting
  BY <1>1 DEF Lasting
<1>3. /\ \A f \in Executors \ {e} : local'[f] = local[f]
      /\ local'[e].next = 1 /\ local'[e].seen = local[e].seen
      /\ local'[e].call = local[e].call /\ local'[e].anchor = local[e].anchor
      /\ local'[e].target = local[e].target
  BY <1>1 DEF Decide, Goto, TypeInv, TypeOK, Local
<1>4. \/ /\ local[e].pc = "save" /\ s \in Settled /\ local'[e].pc = "commit"
         /\ local'[e].result = local[e].seen[1].result
      \/ /\ local[e].pc = "save" /\ s \notin Settled
         /\ \/ local'[e].pc = "commit" /\ s = "uncertain"
            \/ local'[e].pc = "reset_dispatching" /\ s # "uncertain"
            \/ local'[e].pc = "mark" /\ ~ RetrySafe
         /\ local'[e].result = NoResult
      \/ /\ local[e].pc = "reset_dispatching"
         /\ local'[e].pc \in {"commit", "reset_failed"}
         /\ local'[e].result = local[e].result
      \/ /\ local[e].pc = "reset_failed"
         /\ \/ local'[e].pc = "begin" /\ s = "planned"
            \/ local'[e].pc = "mark" /\ s # "planned"
         /\ local'[e].result = local[e].result
      \/ /\ local[e].pc = "mark" /\ local'[e].pc = "commit"
         /\ local'[e].result = local[e].result
  <2>1. CASE Done(e, "save")
    <3>1. /\ local'[e].pc = AfterSave(e)
          /\ local'[e].result =
                 IF SeenStatus(e) \subseteq {"applied", "confirmed"}
                    /\ AfterSave(e) = "commit"
                 THEN local[e].seen[1].result ELSE NoResult
      BY <1>1, <2>1 DEF Decide, Done, Goto, TypeInv, TypeOK, Local
    <3>2. CASE s \in Settled
      BY <1>1, <2>1, <3>1, <3>2 DEF AfterSave, Done, Settled
    <3>3. CASE s \notin Settled
      <4>1. ~ (SeenStatus(e) \subseteq {"applied", "confirmed"})
        BY <1>1, <3>3 DEF Settled
      <4> QED BY <1>1, <2>1, <3>1, <3>3, <4>1 DEF AfterSave, Done
    <3> QED BY <3>2, <3>3
  <2>2. CASE Done(e, "reset_dispatching")
    BY <1>1, <2>2 DEF Decide, Done, Goto, AfterReset, TypeInv, TypeOK, Local
  <2>3. CASE Done(e, "reset_failed")
    <3>1. local'[e].pc = AfterFailed(e) /\ local'[e].result = local[e].result
      BY <1>1, <2>3 DEF Decide, Done, Goto, TypeInv, TypeOK, Local
    <3> QED BY <1>1, <2>3, <3>1 DEF Done, AfterFailed
  <2>4. CASE Done(e, "mark")
    BY <1>1, <2>4 DEF Decide, Done, Goto, TypeInv, TypeOK, Local
  <2> QED BY <2>1, <2>2, <2>3, <2>4 DEF Decide
<1>5. SettledOk(local[e])'
  BY <1>1, <1>3, <1>4, Own DEF SettledOk, Finished, Undecided, Final, Settled
<1>6. ~ AnchorReuse => KeyOk(local[e])'
  BY <1>1, <1>3, <1>4, Own DEF KeyOk, SettledOk, Finished, Undecided
<1>7. ASSUME Tame
      PROVE  StillOk(local[e])' /\ record'[1].status \notin {"uncertain", "reverted"}
  <2>1. /\ StillOk(local[e]) /\ record'[1].status \notin {"uncertain", "reverted"}
        /\ RetrySafe
    BY <1>1, <1>7, Own DEF Tame
  <2>2. s \in SideEffectStatus \cup {"absent"}
    BY OneEffect DEF Record
  <2>3. Undecided(local[e]) => s \notin Settled
    BY Own DEF SettledOk
  <2> QED BY <1>1, <1>3, <1>4, <2>1, <2>2, <2>3 DEF StillOk, SideEffectStatus, Undecided, Settled
<1> QED BY <1>1, <1>2, <1>3, <1>4, <1>5, <1>6, <1>7, Advance
LEMMA ExecuteResult ==
    ASSUME Intents = 1, TypeInv, ResultInv, NEW e \in Executors,
           NEW outcome \in Outcomes, NEW S \in SUBSET Effects, Execute(e, outcome, S)
    PROVE  ResultInv'
<1>1. /\ UNCHANGED <<record, event, calls>>
      /\ local[e].pc = "begin" /\ local[e] \in Local
  BY OneEffect DEF Execute, Done, counters
<1>2. Lasting
  BY <1>1 DEF Lasting
<1>3. /\ \A f \in Executors \ {e} : local'[f] = local[f]
      /\ local'[e].pc = (IF outcome = "other_effects" THEN "mark" ELSE "record")
      /\ local'[e].next = 1 /\ local'[e].seen = local[e].seen
      /\ local'[e].call = local[e].call /\ local'[e].anchor = local[e].anchor
      /\ local'[e].target = ResultStatus(outcome)
      /\ local'[e].result = IF outcome = "ok" THEN local[e].call ELSE NoResult
  BY <1>1 DEF Execute, TypeInv, TypeOK, Local
<1>4. local[e].call # NoResult /\ 1 <= Intents /\ ~ (1 > Intents)
  BY <1>1 DEF TypeInv, LocalInv, NoResult
<1>5. ResultStatus(outcome) = "applied" <=> outcome = "ok"
  BY DEF ResultStatus
<1>6. local[e].seen[1].status \notin Settled
  BY <1>1, Own DEF SettledOk, Undecided
<1>7. SettledOk(local[e])'
  BY <1>1, <1>3, <1>4, <1>5, <1>6 DEF SettledOk, Finished, Undecided
<1>8. ~ AnchorReuse => KeyOk(local[e])'
  BY <1>1, <1>3, <1>4, Own DEF KeyOk, Finished
<1>9. ASSUME Tame
      PROVE  StillOk(local[e])' /\ record'[1].status \notin {"uncertain", "reverted"}
  <2>1. outcome \in {"ok", "error"} /\ RetrySafe
    BY <1>9 DEF Tame
  <2>2. ResultStatus(outcome) # "uncertain"
    BY <2>1 DEF ResultStatus
  <2> QED BY <1>1, <1>3, <1>9, <2>1, <2>2, Own DEF StillOk
<1> QED BY <1>1, <1>2, <1>3, <1>7, <1>8, <1>9, Advance

\* The event of a call tells of the snapshot the record has.
LEMMA CommitResultKeeps ==
    ASSUME Intents = 1, TypeInv, ResultInv, NEW e \in Executors, CommitResult(e)
    PROVE  ResultInv'
<1> DEFINE a == local[e].anchor
           x == local[e].result
<1>1. /\ UNCHANGED <<record, calls>> /\ local[e].pc = "commit" /\ local[e] \in Local
      /\ event' = IF event[a] = Unrecorded THEN [event EXCEPT ![a] = x] ELSE event
      /\ a \in Anchors
  BY OneEffect DEF CommitResult, counters, TypeInv, TypeOK, LocalInv, Local, Anchors
<1>2. Lasting
  BY <1>1 DEF Lasting
<1>3. /\ \A f \in Executors \ {e} : local'[f] = local[f]
      /\ local'[e].pc = "confirm" /\ local'[e].next = 1
      /\ local'[e].seen = local[e].seen
      /\ local'[e].call = local[e].call /\ local'[e].anchor = a
  BY <1>1 DEF CommitResult, Goto, TypeInv, TypeOK, Local
<1>4. \A b \in Anchors : event'[b] = IF b = a /\ event[a] = Unrecorded THEN x ELSE event[b]
  BY <1>1 DEF TypeInv, TypeOK
<1> HIDE DEF a, x
<1>5. x # NoResult => Final(x)
  <2>1. Finished(local[e])
    BY <1>1 DEF Finished
  <2>2. SettledOk(local[e])
    BY Own
  <2> QED BY <2>1, <2>2 DEF SettledOk, x
<1>6. SettledInv'
  <2>1. SettledOk(local[e])'
    BY <1>1, <1>3, Own DEF SettledOk, Finished, Undecided, Final
  <2>2. ASSUME NEW b \in Anchors PROVE event'[b] \in {event[b], NoResult} \/ Final(event[b])'
    BY <1>1, <1>4, <1>5 DEF Final
  <2> QED BY <1>2, <1>3, <2>1, <2>2, SettledKeeps DEF ResultInv
<1>7. ASSUME ~ AnchorReuse PROVE KeyInv'
  <2>1. /\ KeyInv /\ KeyOk(local[e]) /\ a = local[e].call /\ a \in 1 .. calls
        /\ event[a] = Unrecorded /\ calls \in Nat
    BY <1>1, <1>7, Own DEF ResultInv, KeyOk, a, TypeInv, TypeOK
  <2>2. event'[a] = x /\ \A b \in Anchors \ {a} : event'[b] = event[b]
    BY <1>1, <1>4, <2>1
  <2>3. local[e].seen[1].status \in Settled => x = local[e].seen[1].result
    <3>1. Finished(local[e])
      BY <1>1 DEF Finished
    <3> QED BY <2>1, <3>1 DEF KeyOk, x
  <2>4. KeyOk(local[e])'
    BY <1>1, <1>3, <2>1, <2>2, <2>3 DEF KeyOk, Finished
  <2>5. ASSUME NEW f \in Executors, f # e PROVE KeyOk(local[f])'
    <3>1. local'[f] = local[f] /\ KeyOk(local[f]) /\ local[f] \in Local
      BY <1>3, <2>1, <2>5, OneEffect DEF KeyInv
    <3>2. ASSUME local[f].pc # "idle" PROVE event'[local[f].anchor] = event[local[f].anchor]
      <4>1. local[f].anchor = local[f].call /\ local[f].call # local[e].call
        BY <1>1, <2>1, <2>5, <3>1, <3>2 DEF KeyInv, KeyOk
      <4>2. local[f].anchor \in Anchors
        BY <3>2 DEF TypeInv, TypeOK, LocalInv, Local, Anchors
      <4> QED BY <2>1, <2>2, <4>1, <4>2
    <3> QED BY <1>1, <3>1, <3>2 DEF KeyOk, Finished
  <2>6. ASSUME NEW b \in Anchors, b > calls PROVE event'[b] = Unrecorded
    BY <2>1, <2>2, <2>6 DEF KeyInv
  <2>7. ASSUME NEW f \in Executors, NEW g \in Executors,
               f # g, local'[f].pc # "idle", local'[g].pc # "idle"
        PROVE  local'[f].call # local'[g].call
    BY <1>1, <1>3, <2>1, <2>7 DEF KeyInv
  <2> QED BY <1>1, <2>4, <2>5, <2>6, <2>7 DEF KeyInv
<1>8. Tame => StillInv'
  <2>1. Tame => StillOk(local[e])' /\ record'[1].status \notin {"uncertain", "reverted"}
    BY <1>1, <1>3, Own DEF StillOk
  <2> QED BY <1>3, <2>1, StillKeeps DEF ResultInv
<1> QED BY <1>6, <1>7, <1>8 DEF ResultInv, Tame

\* An operator rules on an uncertain record: nothing was settled.
LEMMA ResolveResult ==
    ASSUME Intents = 1, TypeInv, ResultInv, NEW i \in Effects, NEW to, NEW result,
           ResolveUncertain(i, to, result)
    PROVE  ResultInv'
<1>1. record[1].status = "uncertain" /\ UNCHANGED <<local, event, calls>>
  <2>1. i = 1
    BY DEF Effects
  <2> QED BY <2>1 DEF ResolveUncertain
<1>2. \A x : ~ Final(x)
  BY <1>1 DEF Final, Settled
<1>3. SettledInv'
  BY <1>1, <1>2 DEF ResultInv, SettledInv, SettledOk, Finished, Undecided
<1>4. ~ AnchorReuse => KeyInv'
  BY <1>1 DEF ResultInv, KeyInv, KeyOk, Finished
<1>5. ~ Tame
  BY <1>1 DEF ResultInv, StillInv
<1> QED BY <1>3, <1>4, <1>5 DEF ResultInv, Tame

LEMMA ResultInit == ASSUME Init PROVE ResultInv
<1>1. \A e \in Executors : local[e].pc = "idle" /\ local[e].seen[1].status = "absent"
  <2>1. Idle.pc = "idle" /\ Idle.seen[1].status = "absent"
    BY OutboxAssumption DEF Idle, Effects, Absent, NewRecord
  <2> QED BY <2>1 DEF Init
<1>2. \A a \in Anchors : event[a] = Unrecorded
  BY DEF Init
<1>3. record[1].status = "absent"
  BY OutboxAssumption DEF Init, Effects, Absent, NewRecord
<1>4. SettledInv
  BY <1>1, <1>2 DEF SettledInv, SettledOk, Finished, Undecided, Settled
<1>5. KeyInv
  BY <1>1, <1>2 DEF KeyInv, KeyOk, Finished
<1>6. StillInv
  BY <1>1, <1>3 DEF StillInv, StillOk
<1> QED BY <1>4, <1>5, <1>6 DEF ResultInv

LEMMA ResultStep ==
    ASSUME Intents = 1, TypeInv, ResultInv, [Next]_vars
    PROVE  ResultInv'
<1>1. ASSUME NEW e \in Executors, Step(e) PROVE ResultInv'
  <2>1. CASE \E anchor \in Anchors : Prepare(e, anchor)
    BY <2>1, PrepareResult
  <2>2. CASE Save(e)
    BY <2>2, SaveResult
  <2>3. CASE \/ ResetDispatching(e) \/ ResetFailed(e) \/ BeginDispatch(e)
             \/ MarkUncertain(e)
    BY <2>3, PassResult DEF ResetDispatching, ResetFailed, BeginDispatch, MarkUncertain
  <2>4. CASE ConfirmResult(e)
    BY <2>4, ConfirmResultKeeps
  <2>5. CASE Conflict(e) \/ Crash(e) \/ Return(e) \/ ResultRecorded(e)
    BY <2>5, WalkResult
  <2>6. CASE Decide(e)
    BY <2>6, DecideResult
  <2>7. CASE \E outcome \in Outcomes, S \in SUBSET Effects : Execute(e, outcome, S)
    BY <2>7, ExecuteResult
  <2>8. CASE RecordResult(e)
    BY <2>8, RecordResultKeeps
  <2>9. CASE CommitResult(e)
    BY <2>9, CommitResultKeeps
  <2> QED BY <1>1, <2>1, <2>2, <2>3, <2>4, <2>5, <2>6, <2>7, <2>8, <2>9 DEF Step
<1>2. ASSUME NEW i \in Effects, NEW to, NEW result, ResolveUncertain(i, to, result)
      PROVE  ResultInv'
  BY <1>2, ResolveResult
<1>3. CASE UNCHANGED vars
  <2>1. UNCHANGED <<record, local, event, calls>>
    BY <1>3 DEF vars, environment, counters
  <2> QED BY <2>1 DEF ResultInv, SettledInv, SettledOk, KeyInv, KeyOk, StillInv, StillOk,
                      Finished, Undecided, Final, Tame
<1> QED BY <1>1, <1>2, <1>3 DEF Next

LEMMA ResultInvariance ==
    ASSUME Intents = 1
    PROVE  Spec => [](TypeInv /\ ResultInv)
<1>1. Init => TypeInv /\ ResultInv
  BY TypeInit, ResultInit
<1>2. TypeInv /\ ResultInv /\ [Next]_vars => (TypeInv /\ ResultInv)'
  BY TypeStep, ResultStep
<1> QED BY <1>1, <1>2, PTL DEF Spec

\* Only confirm_result confirms an applied record.
LEMMA ConfirmsOnly ==
    ASSUME Intents = 1, TypeInv, ResultInv, [Next]_vars,
           record[1].status = "applied", record'[1].status = "confirmed"
    PROVE  \E e \in Executors : ConfirmResult(e)
<1>1. ASSUME NEW e \in Executors, Save(e) PROVE FALSE
  <2>1. local[e].next = 1 /\ 1 \in Effects
    BY <1>1, OneEffect DEF Save, At
  <2>2. record' = [record EXCEPT ![1] = record[1]]
    BY <1>1, <2>1 DEF Save
  <2> QED BY <2>2 DEF TypeInv, TypeOK
<1>2. ASSUME NEW e \in Executors, NEW pc, NEW from,
             NEW to \in {"planned", "dispatching", "uncertain"}, Pass(e, pc, from, to)
      PROVE  FALSE
  <2>1. /\ local[e].next = 1 /\ 1 \in Effects /\ record[1] \in Record
        /\ local[e].next <= Intents
    BY <1>2, OneEffect DEF Pass, At
  <2>2. Moved(record[1], to).status = to
    BY <2>1, MovedType DEF SideEffectStatus
  <2>3. CASE Swap(e, Moved(record[1], to))
    <3>1. record'[1] = Moved(record[1], to)
      BY <2>1, <2>3, SwapFields
    <3> QED BY <2>2, <3>1
  <2>4. CASE UNCHANGED record
    BY <2>4
  <2> QED BY <1>2, <2>1, <2>3, <2>4 DEF Pass
<1>3. ASSUME NEW e \in Executors, RecordResult(e) PROVE FALSE
  <2>1. local[e].next = 1 /\ local[e].next <= Intents /\ local[e].pc = "record"
    BY <1>3, OneEffect DEF RecordResult, At
  <2>2. PICK new : Swap(e, new)
    BY <1>3 DEF RecordResult
  <2>3. record[1].status = local[e].seen[1].status
    BY <2>1, <2>2, SwapFields
  <2>4. local[e].seen[1].status \notin Settled
    BY <2>1, Own DEF SettledOk, Undecided
  <2> QED BY <2>3, <2>4 DEF Settled
<1>4. ASSUME NEW i \in Effects, NEW to, NEW result, ResolveUncertain(i, to, result)
      PROVE  FALSE
  <2>1. i = 1
    BY DEF Effects
  <2> QED BY <1>4, <2>1 DEF ResolveUncertain
<1>5. ASSUME NEW e \in Executors, Step(e), ~ ConfirmResult(e) PROVE FALSE
  <2>1. UNCHANGED record =>  FALSE
    OBVIOUS
  <2>2. CASE ResetDispatching(e) \/ ResetFailed(e) \/ BeginDispatch(e) \/ MarkUncertain(e)
    BY <1>2, <2>2 DEF ResetDispatching, ResetFailed, BeginDispatch, MarkUncertain
  <2>3. CASE \/ \E anchor \in Anchors : Prepare(e, anchor)
             \/ Conflict(e) \/ Decide(e) \/ ResultRecorded(e) \/ Return(e) \/ Crash(e)
             \/ CommitResult(e)
             \/ \E outcome \in Outcomes, S \in SUBSET Effects : Execute(e, outcome, S)
    BY <2>1, <2>3 DEF Prepare, Conflict, Decide, ResultRecorded, Return, Crash,
                      CommitResult, Execute
  <2> QED BY <1>1, <1>3, <1>5, <2>2, <2>3 DEF Step
<1> QED BY <1>4, <1>5 DEF Next, vars

\* A call with one effect has one successful result, however often it is
\* replayed, retried or ruled on and whether or not calls share a key: once an
\* event tells of it the record stays applied or confirmed (prepare,
\* record_result and resolve_uncertain of runtime/outbox.py).
THEOREM ResultIsUnique ==
    ASSUME Intents = 1
    PROVE  Spec => []OneResult
<1>1. ASSUME TypeInv, ResultInv PROVE OneResult
  <2>1. \A x \in Recorded : Final(x)
    BY <1>1 DEF Recorded, ResultInv, SettledInv
  <2>2. Recorded # {} => \A i \in Effects : record[i].status \in {"applied", "confirmed"}
    BY <2>1 DEF Final, Settled, Effects
  <2>3. Recorded \subseteq {record[1].result}
    BY <2>1 DEF Final
  <2>4. Cardinality(Recorded) <= 1 /\ Cardinality(Recorded) \in Nat
    <3>1. IsFiniteSet({record[1].result}) /\ Cardinality({record[1].result}) = 1
      BY FS_Singleton
    <3> QED BY <2>3, <3>1, SubsetCount
  <2>5. rulings \in Nat
    BY <1>1, OutboxAssumption DEF TypeInv, TypeOK
  <2> QED BY <2>2, <2>4, <2>5 DEF OneResult
<1> QED BY <1>1, ResultInvariance, PTL

\* A retry-safe call with one effect whose tool keeps to its declared effects
\* never ends in manual review, whatever dies or races.
THEOREM ReviewIsNotNeeded ==
    ASSUME Intents = 1, RetrySafe, Outcomes \subseteq {"ok", "error"}
    PROVE  Spec => []NoManualReview
<1>1. ASSUME ResultInv PROVE NoManualReview
  BY <1>1 DEF ResultInv, Tame, StillInv, NoManualReview, Effects
<1> QED BY <1>1, ResultInvariance, PTL

\* Where calls do not share a key, a call with one effect has its result event
\* before its record is confirmed (confirm_result after the append of
\* TOOL_RESULT_RECORDED).
THEOREM ResultComesFirst ==
    ASSUME Intents = 1, ~ AnchorReuse
    PROVE  Spec => ConfirmedAfterResult
<1>1. ASSUME TypeInv, ResultInv, [Next]_vars,
             record[1].status = "applied", record'[1].status = "confirmed"
      PROVE  record[1].result \in Recorded
  <2>1. PICK e \in Executors : ConfirmResult(e)
    BY <1>1, ConfirmsOnly
  <2>2. local[e].next = 1 /\ local[e].pc = "confirm" /\ record[1] \in Record
    BY <1>1, <2>1, OneEffect DEF ConfirmResult, Pass, At
  <2>3. local[e].seen[1].status = "applied"
    BY <1>1, <2>1, <2>2 DEF ConfirmResult, Pass, Swap
  <2>4. record[1].result = local[e].seen[1].result
    BY <1>1, <2>3, Own DEF SettledOk, Final, Settled
  <2>5. event[local[e].anchor] = record[1].result
    BY <1>1, <2>2, <2>3, <2>4, Own DEF KeyOk, Settled
  <2>6. local[e].anchor \in Anchors
    BY <1>1, <2>2, OneEffect DEF TypeInv, LocalInv, Local, Anchors
  <2>7. record[1].result # NoResult /\ record[1].result # Unrecorded
    BY <1>1, <2>2, OutboxAssumption
       DEF TypeInv, TypeOK, Effects, Record, Results, NoResult, ManualResult, Unrecorded
  <2> QED BY <2>5, <2>6, <2>7 DEF Recorded
<1>2. ASSUME TypeInv, ResultInv, [Next]_vars
      PROVE  [\A i \in Effects :
                 record[i].status = "applied" /\ record'[i].status = "confirmed"
                 => record[i].result \in Recorded]_vars
  BY <1>1, <1>2 DEF Effects
<1> QED BY <1>2, ResultInvariance, PTL DEF Spec, ConfirmedAfterResult
=============================================================================
