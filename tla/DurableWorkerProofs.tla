------------------------ MODULE DurableWorkerProofs ------------------------
(***************************************************************************)
(* Proofs about DurableWorker for every number of workers, operators,      *)
(* runs, crashes and approvals and every lease time and retry budget.      *)
(*                                                                         *)
(* IInv is the inductive invariant.  TypeInv: the types, what a lease that *)
(* is not active or not in backoff looks like, that executors, operators   *)
(* and the approver work on runs that exist.  TokenInv: a lease token is   *)
(* drawn once, so that the worker who holds it owns the lease.  ClaimInv:  *)
(* every claim counts as an attempt.  LeakInv: a lease nobody stands       *)
(* behind cost a crash.  CancelInv, at the end, is for one operator only.  *)
(***************************************************************************)
EXTENDS DurableWorker, SortingProofs, FunctionTheorems

\* A claim has been granted and the lease not yet given back.
Engaged == {"claimed"} \cup Holding

\* The attempts that claims have used up, of all the runs allow.
Budget == Runs \X (1 .. RetryBudget)
Attempts == {p \in Budget : p[2] <= lease[p[1]].attempt_count}

LeaseInv ==
    \A r \in Runs :
        /\ lease[r].state # "active" => lease[r].expires_in = 0
        /\ lease[r].state # "backoff" => lease[r].next_attempt_in = 0

\* x can be the locals of executor e when `drawn' tokens have been drawn.
RecordOk(e, x, drawn) ==
    /\ x \in ExecRecord
    /\ x.token <= drawn
    /\ x.pc \in {"scan", "refused"} => x.queue # <<>>
    /\ x.pc \in Engaged \cup {"report"} => x.run \in Existing
    /\ x.pc = "report" => x.outcome \in ReleaseKinds
    /\ e = Approver => x.pc \in {"idle", "start", "steps", "result"}

ExecInv == \A e \in Executors : RecordOk(e, exec[e], issued)

OperatorInv ==
    /\ \A o \in Operators : op[o].pc # "idle" => op[o].run \in Existing
    /\ askable \subseteq Existing

TypeInv == TypeOK /\ LeaseInv /\ ExecInv /\ OperatorInv /\ issued = Cardinality(Attempts)

TokenInv ==
    /\ \A r \in Runs : lease[r].lease_token <= issued
    /\ \A w \in Workers :
          exec[w].pc \in Engaged =>
              /\ exec[w].token # NoToken
              /\ lease[exec[w].run].lease_token = exec[w].token =>
                     lease[exec[w].run].owner_id = w

\* The claims of run r: told of in its events, or about to be.
Claims(r) ==
    {t \in 0 .. issued : <<"run_claimed", t>> \in audit[r]}
    \cup {t \in 0 .. issued : \E w \in Workers :
              exec[w].pc = "claimed" /\ exec[w].run = r /\ exec[w].token = t}

ClaimInv == \A r \in Runs : Cardinality(Claims(r)) <= lease[r].attempt_count

LeakInv == NoLeaseLeak

IInv == TypeInv /\ TokenInv /\ ClaimInv /\ LeakInv
-----------------------------------------------------------------------------
(***************************************************************************)
(* Types.                                                                  *)
(***************************************************************************)
ExecPcs == {"idle", "scan", "refused", "report"} \cup Engaged

LEMMA Constants ==
    /\ MaxRuns \in Nat \ {0} /\ RetryBudget \in Nat \ {0} /\ LeaseSeconds \in Nat \ {0}
    /\ MaxBackoffSeconds \in Nat \ {0} /\ MaxControls \in Nat /\ MaxCrashes \in Nat
    /\ MaxApprovals \in Nat /\ ScanLimit \in Nat \ {0}
    /\ Approver \notin Workers /\ Runs \subseteq Nat
  BY ControlAssumption, LeaseAssumption, WorkerAssumption DEF Runs

LEMMA RunsFinite ==
    /\ IsFiniteSet(Runs) /\ Cardinality(Runs) = MaxRuns
    /\ IsFiniteSet(Budget) /\ Cardinality(Budget) = MaxRuns * RetryBudget
    /\ MaxRuns * RetryBudget \in Nat
<1>1. IsFiniteSet(Runs) /\ Cardinality(Runs) = MaxRuns
  BY Constants, FS_Interval DEF Runs
<1>2. IsFiniteSet(1 .. RetryBudget) /\ Cardinality(1 .. RetryBudget) = RetryBudget
  BY Constants, FS_Interval
<1>3. IsFiniteSet(Budget) /\ Cardinality(Budget) = MaxRuns * RetryBudget
  BY <1>1, <1>2, FS_Product DEF Budget
<1> QED BY <1>1, <1>3, FS_CardinalityType

LEMMA IdleType == Idle \in ExecRecord /\ Idle.pc = "idle" /\ Idle.token = 0
<1>1. <<>> \in Seq(Runs) /\ 0 \in 0 .. RetryBudget
  BY Constants, EmptySeq
<1> QED BY <1>1 DEF Idle, ExecRecord, NoToken

\* A poll looks at a sequence of runs.
LEMMA CandidatesType == Candidates \in Seq(Runs)
<1> DEFINE found == {r \in Runs : status[r] \in Executable}
           all == Ordered(found, CreatedBefore)
<1>1. found \subseteq Runs /\ IsFiniteSet(found)
  BY RunsFinite, FS_Subset
<1>2. StrictOrder(found, CreatedBefore)
  BY <1>1, Constants DEF StrictOrder, CreatedBefore
<1>3. all \in Seq(found)
  BY <1>1, <1>2, OrderedLists DEF Lists
<1> HIDE DEF all
<1>4. all \in Seq(Runs) /\ Len(all) \in Nat
  BY <1>1, <1>3
<1>5. (IF Len(all) < ScanLimit THEN Len(all) ELSE ScanLimit) \in 0 .. Len(all)
  BY <1>4, Constants
<1>6. SubSeq(all, 1, IF Len(all) < ScanLimit THEN Len(all) ELSE ScanLimit) \in Seq(Runs)
  BY <1>4, <1>5
<1> QED BY <1>6 DEF Candidates, all

\* A lease keeps its type, and its shape, through every change.
LeaseOk(l) ==
    /\ l \in RunLease
    /\ (l.state = "active") = (l.owner_id # NoOwner)
    /\ (l.state = "active") = (l.lease_token # NoToken)
    /\ l.state # "active" => l.expires_in = 0
    /\ l.state # "backoff" => l.next_attempt_in = 0

LEMMA LeaseFields ==
    ASSUME NEW l \in RunLease
    PROVE  /\ l = [state |-> l.state, owner_id |-> l.owner_id, lease_token |-> l.lease_token,
                   expires_in |-> l.expires_in, attempt_count |-> l.attempt_count,
                   next_attempt_in |-> l.next_attempt_in]
           /\ l.state \in RunLeaseState /\ l.owner_id \in Workers \cup {NoOwner}
           /\ l.lease_token \in Nat /\ l.expires_in \in 0 .. LeaseSeconds
           /\ l.attempt_count \in 0 .. RetryBudget
           /\ l.next_attempt_in \in 0 .. MaxBackoffSeconds
  BY DEF RunLease

LEMMA InactiveType ==
    ASSUME NEW l, LeaseOk(l), NEW state \in {"backoff", "released", "dead_letter"},
           NEW delay \in 0 .. MaxBackoffSeconds, state # "backoff" => delay = 0
    PROVE  /\ LeaseOk(Inactive(l, state, delay)) /\ Inactive(l, state, delay).state = state
           /\ Inactive(l, state, delay).attempt_count = l.attempt_count
           /\ Inactive(l, state, delay).lease_token = NoToken
<1> DEFINE i == Inactive(l, state, delay)
<1>1. l \in RunLease
  BY DEF LeaseOk
<1>2. 0 \in 0 .. LeaseSeconds /\ state \in RunLeaseState /\ NoToken \in Nat
  BY Constants DEF NoToken, RunLeaseState
<1>3. i \in RunLease
  BY <1>1, <1>2 DEF Inactive, RunLease
<1>4. /\ i.state = state /\ i.owner_id = NoOwner /\ i.lease_token = NoToken
      /\ i.expires_in = 0 /\ i.next_attempt_in = delay
      /\ i.attempt_count = l.attempt_count
  BY <1>1 DEF Inactive, RunLease
<1> HIDE DEF i
<1>5. LeaseOk(i)
  BY <1>3, <1>4 DEF LeaseOk
<1> QED BY <1>4, <1>5 DEF i

LEMMA ClaimType ==
    ASSUME NEW l, LeaseOk(l), NEW w \in Workers, NEW token \in Nat \ {0},
           l.attempt_count < RetryBudget
    PROVE  /\ LeaseOk(Claim(l, w, token))
           /\ Claim(l, w, token).attempt_count = l.attempt_count + 1
           /\ Claim(l, w, token).owner_id = w /\ Claim(l, w, token).lease_token = token
           /\ Claim(l, w, token).state = "active"
<1> DEFINE c == Claim(l, w, token)
<1>1. l \in RunLease
  BY DEF LeaseOk
<1>2. /\ LeaseSeconds \in 0 .. LeaseSeconds /\ "active" \in RunLeaseState
      /\ 0 \in 0 .. MaxBackoffSeconds /\ l.attempt_count + 1 \in 0 .. RetryBudget
      /\ w # NoOwner /\ token # NoToken
  BY <1>1, LeaseFields, Constants, LeaseAssumption DEF NoToken, RunLeaseState
<1>3. c \in RunLease
  BY <1>1, <1>2 DEF Claim, RunLease
<1>4. /\ c.state = "active" /\ c.owner_id = w /\ c.lease_token = token
      /\ c.expires_in = LeaseSeconds /\ c.attempt_count = l.attempt_count + 1
      /\ c.next_attempt_in = 0
  BY <1>1 DEF Claim, RunLease
<1> HIDE DEF c
<1>5. LeaseOk(c)
  BY <1>2, <1>3, <1>4 DEF LeaseOk
<1> QED BY <1>4, <1>5 DEF c

LEMMA HeartbeatType ==
    ASSUME NEW l, LeaseOk(l), l.state = "active"
    PROVE  /\ LeaseOk(Heartbeat(l)) /\ Heartbeat(l).attempt_count = l.attempt_count
           /\ Heartbeat(l).lease_token = l.lease_token /\ Heartbeat(l).owner_id = l.owner_id
           /\ Heartbeat(l).state = l.state
<1>1. LeaseSeconds \in 0 .. LeaseSeconds
  BY Constants
<1> QED BY <1>1 DEF LeaseOk, Heartbeat, RunLease

LEMMA AgeType ==
    ASSUME NEW l, LeaseOk(l)
    PROVE  /\ LeaseOk(Age(l)) /\ Age(l).attempt_count = l.attempt_count
           /\ Age(l).lease_token = l.lease_token /\ Age(l).owner_id = l.owner_id
           /\ Age(l).state = l.state /\ (l.state = "dead_letter" => Age(l) = l)
<1> DEFINE a == Age(l)
           Less(n) == IF n > 0 THEN n - 1 ELSE 0
<1>1. l \in RunLease
  BY DEF LeaseOk
<1>2. /\ a.expires_in = Less(l.expires_in) /\ a.next_attempt_in = Less(l.next_attempt_in)
      /\ a.state = l.state /\ a.owner_id = l.owner_id /\ a.lease_token = l.lease_token
      /\ a.attempt_count = l.attempt_count
  BY <1>1 DEF Age, RunLease
<1>3. /\ Less(l.expires_in) \in 0 .. LeaseSeconds
      /\ Less(l.next_attempt_in) \in 0 .. MaxBackoffSeconds /\ Less(0) = 0
  BY <1>1, LeaseFields, Constants
<1>4. a \in RunLease
  BY <1>1, <1>3 DEF Age, RunLease
<1> HIDE DEF a, Less
<1>5. ASSUME l.state = "dead_letter" PROVE a = l
  <2>1. l.expires_in = 0 /\ l.next_attempt_in = 0
    BY <1>5 DEF LeaseOk
  <2>2. /\ a.expires_in = l.expires_in /\ a.next_attempt_in = l.next_attempt_in
    BY <1>2, <1>3, <2>1
  <2> QED BY <1>1, <1>2, <1>4, <2>2 DEF RunLease
<1>6. LeaseOk(a)
  BY <1>2, <1>3, <1>4 DEF LeaseOk
<1> QED BY <1>2, <1>5, <1>6 DEF a

LEMMA BackoffType ==
    ASSUME NEW attempt PROVE BackoffDelay(attempt) \in 0 .. MaxBackoffSeconds
  BY Constants DEF BackoffDelay

LEMMA LeasesType ==
    ASSUME TypeInv PROVE \A r \in Runs : LeaseOk(lease[r])
  BY DEF TypeInv, TypeOK, LeaseInv, LeaseOk

\* The conjuncts of TypeInv', one by one.
LEMMA AllTypes ==
    ASSUME ControlTypeOK', lease' \in [Runs -> RunLease], (\A r \in Runs : LeaseOk(lease[r]))',
           issued' = Cardinality(Attempts)',
           audit' \in [Runs -> SUBSET (AuditEvents \X (0 .. issued'))],
           exec' \in [Executors -> ExecRecord], ExecInv',
           OperatorInv', crashes' \in 0 .. MaxCrashes, approvals' \in 0 .. MaxApprovals
    PROVE  TypeInv'
<1>1. issued' \in 0 .. MaxRuns * RetryBudget
  <2>1. Attempts' \subseteq Budget
    BY DEF Attempts
  <2>2. /\ IsFiniteSet(Attempts') /\ Cardinality(Attempts') <= MaxRuns * RetryBudget
        /\ Cardinality(Attempts') \in Nat
    BY <2>1, RunsFinite, FS_Subset, FS_CardinalityType
  <2>3. issued' \in Nat /\ issued' <= MaxRuns * RetryBudget /\ MaxRuns * RetryBudget \in Nat
    BY <2>2, RunsFinite
  <2> HIDE DEF TypeInv
  <2> QED BY <2>3
<1>2. askable' \subseteq Runs
  BY DEF OperatorInv, Existing
<1>3. /\ (\A r \in Runs : (lease[r].state = "active") = (lease[r].owner_id # NoOwner))'
      /\ (\A r \in Runs : (lease[r].state = "active") = (lease[r].lease_token # NoToken))'
      /\ LeaseInv'
  BY DEF LeaseOk, LeaseInv
<1>4. TypeOK'
  BY <1>1, <1>2, <1>3 DEF TypeOK
<1> QED BY <1>3, <1>4 DEF TypeInv

\* Only executor e moves.
LEMMA ExecMove ==
    ASSUME TypeInv, NEW e \in Executors, NEW x, RecordOk(e, x, issued'),
           exec' = [exec EXCEPT ![e] = x],
           Existing \subseteq Existing', issued' \in Nat, issued <= issued'
    PROVE  /\ exec' \in [Executors -> ExecRecord] /\ ExecInv'
           /\ exec'[e] = x /\ \A f \in Executors \ {e} : exec'[f] = exec[f]
<1>1. /\ exec \in [Executors -> ExecRecord] /\ issued \in Nat
      /\ \A f \in Executors : RecordOk(f, exec[f], issued)
  BY RunsFinite DEF TypeInv, TypeOK, ExecInv
<1>2. x \in ExecRecord
  BY DEF RecordOk
<1>3. /\ exec' \in [Executors -> ExecRecord]
      /\ exec'[e] = x /\ \A f \in Executors \ {e} : exec'[f] = exec[f]
  BY <1>1, <1>2
<1>4. ASSUME NEW f \in Executors PROVE RecordOk(f, exec[f], issued)'
  <2>1. exec'[f].token \in Nat /\ exec[f].token \in Nat
    BY <1>1, <1>3 DEF ExecRecord
  <2>2. CASE f = e
    BY <1>2, <1>3, <2>2 DEF RecordOk
  <2>3. CASE f # e
    BY <1>1, <1>3, <2>1, <2>3 DEF RecordOk
  <2> QED BY <2>2, <2>3
<1> QED BY <1>3, <1>4 DEF ExecInv

\* A step of executor e that leaves the leases and the operators alone.
LEMMA WorkerType ==
    ASSUME TypeInv, NEW e \in Executors, NEW x, RecordOk(e, x, issued),
           exec' = [exec EXCEPT ![e] = x],
           UNCHANGED <<op, controls, lease, issued>>,
           status' \in [Runs -> TaskRunStatus \cup {Absent}], Existing \subseteq Existing',
           audit' \in [Runs -> SUBSET (AuditEvents \X (0 .. issued))],
           askable' \subseteq Existing', crashes' \in 0 .. MaxCrashes,
           approvals' \in 0 .. MaxApprovals
    PROVE  TypeInv' /\ exec'[e] = x /\ \A f \in Executors \ {e} : exec'[f] = exec[f]
<1>1. issued' = issued /\ lease' = lease /\ op' = op /\ controls' = controls /\ issued \in Nat
  BY RunsFinite DEF TypeInv, TypeOK
<1>2. /\ exec' \in [Executors -> ExecRecord] /\ ExecInv'
      /\ exec'[e] = x /\ \A f \in Executors \ {e} : exec'[f] = exec[f]
  <2>1. RecordOk(e, x, issued') /\ issued' \in Nat /\ issued <= issued'
    BY <1>1
  <2> QED BY <2>1, ExecMove
<1>3. ControlTypeOK' /\ OperatorInv'
  BY <1>1 DEF TypeInv, TypeOK, ControlTypeOK, OperatorInv
<1>4. /\ lease' \in [Runs -> RunLease] /\ (\A r \in Runs : LeaseOk(lease[r]))'
      /\ issued' = Cardinality(Attempts)'
  BY <1>1, LeasesType DEF TypeInv, TypeOK, Attempts
<1>5. audit' \in [Runs -> SUBSET (AuditEvents \X (0 .. issued'))]
  BY <1>1
<1>6. TypeInv'
  BY <1>2, <1>3, <1>4, <1>5, AllTypes
<1> QED BY <1>2, <1>6
-----------------------------------------------------------------------------
(***************************************************************************)
(* What the steps of an executor do to its locals.                         *)
(***************************************************************************)

\* From x to y a worker neither takes up a lease nor lets one go, and claims
\* nothing new.
Carries(x, y) ==
    /\ (y.pc \in Engaged) = (x.pc \in Engaged)
    /\ x.pc \in Engaged => y.run = x.run /\ y.token = x.token
    /\ y.pc = "claimed" => x.pc = "claimed"

\* Executor e goes on with locals x; a worker keeps what it has claimed.
Moves(e, x) ==
    /\ RecordOk(e, x, issued)
    /\ exec' = [exec EXCEPT ![e] = x]
    /\ e \in Workers => Carries(exec[e], x)

LEMMA ExecType ==
    ASSUME TypeInv, NEW e \in Executors
    PROVE  /\ exec[e] \in ExecRecord /\ RecordOk(e, exec[e], issued)
           /\ exec \in [Executors -> ExecRecord] /\ issued \in Nat
           /\ exec[e].queue \in Seq(Runs) /\ exec[e].token \in Nat
           /\ exec[e].pc \in Engaged \cup {"report"} => exec[e].run \in Runs
<1>1. exec[e] \in ExecRecord /\ exec \in [Executors -> ExecRecord] /\ issued \in Nat
  BY RunsFinite DEF TypeInv, TypeOK
<1>2. RecordOk(e, exec[e], issued)
  BY DEF TypeInv, ExecInv
<1>3. exec[e].queue \in Seq(Runs) /\ exec[e].token \in Nat
  BY <1>1 DEF ExecRecord
<1> QED BY <1>1, <1>2, <1>3 DEF RecordOk, Existing

LEMMA PcTypes == ExecPcs = {"idle", "scan", "refused", "claimed", "report"} \cup Holding
  BY DEF ExecPcs, Engaged

\* The program counter, and the heartbeat, are set.
LEMMA SetPc ==
    ASSUME NEW x \in ExecRecord, NEW pc \in ExecPcs
    PROVE  LET y == [x EXCEPT !.pc = pc]
           IN  /\ y \in ExecRecord /\ y.pc = pc
               /\ y.run = x.run /\ y.token = x.token /\ y.queue = x.queue
  BY PcTypes DEF ExecRecord

LEMMA SetBeating ==
    ASSUME NEW x \in ExecRecord, NEW b \in BOOLEAN
    PROVE  LET y == [x EXCEPT !.beating = b]
           IN  /\ y \in ExecRecord /\ y.pc = x.pc /\ y.outcome = x.outcome
               /\ y.run = x.run /\ y.token = x.token /\ y.queue = x.queue
  BY DEF ExecRecord

\* An executor that is through has no locals.
LEMMA StopMoves ==
    ASSUME TypeInv, NEW e \in Executors, Stop(e), e \in Workers => exec[e].pc \notin Engaged
    PROVE  Moves(e, Idle)
<1>1. issued \in Nat /\ Idle \in ExecRecord /\ Idle.pc = "idle" /\ Idle.token = 0
  BY IdleType, ExecType
<1>2. RecordOk(e, Idle, issued)
  BY <1>1 DEF RecordOk, Engaged, Holding, Running
<1>3. e \in Workers => Carries(exec[e], Idle)
  BY <1>1 DEF Carries, Engaged, Holding, Running
<1> QED BY <1>2, <1>3 DEF Moves, Stop

LEMMA ScanMoves ==
    ASSUME TypeInv, NEW w \in Workers, NEW queue \in Seq(Runs), StartScan(w, queue)
    PROVE  Moves(w, [Idle EXCEPT !.pc = "scan", !.queue = queue])
<1> DEFINE x == [Idle EXCEPT !.pc = "scan", !.queue = queue]
<1>1. issued \in Nat /\ Idle \in ExecRecord /\ Idle.token = 0
  BY IdleType, ExecType DEF Executors
<1>2. x \in ExecRecord /\ x.pc = "scan" /\ x.queue = queue /\ x.token = 0
  BY <1>1 DEF ExecRecord
<1>3. queue # <<>> /\ exec[w].pc = "idle" /\ exec' = [exec EXCEPT ![w] = x]
  BY DEF StartScan
<1> HIDE DEF x
<1>4. RecordOk(w, x, issued)
  BY <1>1, <1>2, <1>3, Constants DEF RecordOk, Engaged, Holding, Running
<1>5. Carries(exec[w], x)
  BY <1>2, <1>3 DEF Carries, Engaged, Holding, Running
<1> QED BY <1>3, <1>4, <1>5 DEF Moves, x

LEMMA PcMoves ==
    ASSUME TypeInv, NEW e \in Executors, NEW pc \in ExecPcs, Goto(e, pc),
           pc \in {"scan", "refused"} => exec[e].pc \in {"scan", "refused"},
           pc \in Engaged => exec[e].pc \in Engaged,
           pc # "report", pc # "claimed",
           e \in Workers => (pc \in Engaged) = (exec[e].pc \in Engaged),
           e = Approver => pc \in {"steps", "result"}
    PROVE  Moves(e, [exec[e] EXCEPT !.pc = pc])
<1> DEFINE x == [exec[e] EXCEPT !.pc = pc]
<1>1. exec[e] \in ExecRecord /\ RecordOk(e, exec[e], issued)
      /\ exec \in [Executors -> ExecRecord]
  BY ExecType
<1>2. /\ x \in ExecRecord /\ x.pc = pc /\ x.run = exec[e].run
      /\ x.token = exec[e].token /\ x.queue = exec[e].queue
  BY <1>1, SetPc
<1>3. exec' = [exec EXCEPT ![e] = x]
  BY <1>1 DEF Goto
<1> HIDE DEF x
<1>4. RecordOk(e, x, issued)
  BY <1>1, <1>2 DEF RecordOk
<1>5. e \in Workers => Carries(exec[e], x)
  BY <1>2 DEF Carries
<1> QED BY <1>3, <1>4, <1>5 DEF Moves, x
LEMMA PollMoves ==
    ASSUME TypeInv, NEW w \in Workers, Poll(w) \/ \E r \in Runs : PollRun(w, r)
    PROVE  \E x : Moves(w, x)
<1>1. CASE Poll(w)
  BY <1>1, CandidatesType, ScanMoves DEF Poll
<1>2. ASSUME NEW r \in Runs, PollRun(w, r) PROVE \E x : Moves(w, x)
  <2>1. <<r>> \in Seq(Runs) /\ StartScan(w, <<r>>)
    BY <1>2 DEF PollRun
  <2> QED BY <2>1, ScanMoves
<1> QED BY <1>1, <1>2

LEMMA RefusedMoves ==
    ASSUME TypeInv, NEW w \in Workers, RefusedDeadLetter(w) \/ RefusedNext(w)
    PROVE  \E x : Moves(w, x)
<1> w \in Executors /\ w # Approver
  BY Constants DEF Executors
<1>1. exec[w].pc = "refused"
  BY DEF RefusedDeadLetter, RefusedNext
<1>2. exec[w].pc \notin Engaged
  BY <1>1 DEF Engaged, Holding, Running
<1>3. CASE Stop(w)
  BY <1>2, <1>3, StopMoves
<1>4. CASE ~ Stop(w)
  <2> DEFINE x == [exec[w] EXCEPT !.pc = "scan", !.queue = Tail(exec[w].queue)]
  <2>1. /\ exec' = [exec EXCEPT ![w].pc = "scan", ![w].queue = Tail(@)]
        /\ Len(exec[w].queue) # 1
    BY <1>4 DEF RefusedDeadLetter, RefusedNext
  <2>2. /\ exec[w] \in ExecRecord /\ RecordOk(w, exec[w], issued)
        /\ exec \in [Executors -> ExecRecord] /\ exec[w].queue \in Seq(Runs)
    BY ExecType
  <2>3. exec[w].queue # <<>>
    BY <1>1, <2>2 DEF RecordOk
  <2>4. Tail(exec[w].queue) \in Seq(Runs) /\ Tail(exec[w].queue) # <<>>
    <3>1. Len(exec[w].queue) \in Nat /\ Len(exec[w].queue) # 0
      BY <2>2, <2>3, EmptySeq
    <3>2. /\ Tail(exec[w].queue) \in Seq(Runs)
          /\ Len(Tail(exec[w].queue)) = Len(exec[w].queue) - 1
      BY <2>2, <2>3
    <3>3. Len(Tail(exec[w].queue)) # 0
      BY <2>1, <3>1, <3>2
    <3> QED BY <3>2, <3>3, EmptySeq
  <2>5. /\ x \in ExecRecord /\ x.pc = "scan" /\ x.queue = Tail(exec[w].queue)
        /\ x.token = exec[w].token
    BY <2>2, <2>4 DEF ExecRecord
  <2>6. exec' = [exec EXCEPT ![w] = x]
    BY <2>1, <2>2
  <2> HIDE DEF x
  <2>7. RecordOk(w, x, issued)
    BY <2>2, <2>4, <2>5 DEF RecordOk, Engaged, Holding, Running
  <2>8. Carries(exec[w], x)
    BY <1>1, <2>5 DEF Carries, Engaged, Holding, Running
  <2> QED BY <2>6, <2>7, <2>8 DEF Moves
<1> QED BY <1>3, <1>4

LEMMA RecordClaimMoves ==
    ASSUME TypeInv, NEW w \in Workers, RecordClaim(w)
    PROVE  Moves(w, [exec[w] EXCEPT !.pc = "dispatch", !.beating = TRUE])
<1> DEFINE x == [exec[w] EXCEPT !.pc = "dispatch", !.beating = TRUE]
<1> w \in Executors /\ w # Approver
  BY Constants DEF Executors
<1>1. exec[w] \in ExecRecord /\ RecordOk(w, exec[w], issued) /\ exec \in [Executors -> ExecRecord]
  BY ExecType
<1>2. "dispatch" \in ExecPcs
  BY DEF ExecPcs, Engaged, Holding, Running
<1>3. /\ x \in ExecRecord /\ x.pc = "dispatch" /\ x.run = exec[w].run
      /\ x.token = exec[w].token /\ x.queue = exec[w].queue
  BY <1>1, <1>2, PcTypes DEF ExecRecord
<1>4. exec' = [exec EXCEPT ![w] = x] /\ exec[w].pc = "claimed"
  BY <1>1 DEF RecordClaim
<1> HIDE DEF x
<1>5. RecordOk(w, x, issued)
  BY <1>1, <1>3, <1>4 DEF RecordOk, Engaged, Holding, Running
<1>6. Carries(exec[w], x)
  BY <1>3, <1>4 DEF Carries, Engaged, Holding, Running
<1> QED BY <1>4, <1>5, <1>6 DEF Moves, x

LEMMA StopBeatingMoves ==
    ASSUME TypeInv, NEW w \in Workers, StopBeating(w)
    PROVE  Moves(w, [exec[w] EXCEPT !.beating = FALSE])
<1> DEFINE x == [exec[w] EXCEPT !.beating = FALSE]
<1> w \in Executors /\ w # Approver
  BY Constants DEF Executors
<1>1. exec[w] \in ExecRecord /\ RecordOk(w, exec[w], issued) /\ exec \in [Executors -> ExecRecord]
  BY ExecType
<1>3. /\ x \in ExecRecord /\ x.pc = exec[w].pc /\ x.run = exec[w].run
      /\ x.token = exec[w].token /\ x.outcome = exec[w].outcome
  BY <1>1, SetBeating
<1>4. exec' = [exec EXCEPT ![w] = x] /\ exec[w].pc \in Running
  BY <1>1 DEF StopBeating
<1> HIDE DEF x
<1>5. RecordOk(w, x, issued)
  BY <1>1, <1>3, <1>4 DEF RecordOk, Engaged, Holding, Running
<1>6. Carries(exec[w], x)
  BY <1>3 DEF Carries
<1> QED BY <1>4, <1>5, <1>6 DEF Moves, x

\* The steps that set the program counter and the outcome.
LEMMA OutcomeMoves ==
    ASSUME TypeInv, NEW w \in Workers, NEW pc \in Engaged \cup {"report"},
           NEW outcome \in TaskRunStatus \cup ReleaseKinds \cup {"none", "exception"},
           exec' = [exec EXCEPT ![w].pc = pc, ![w].outcome = outcome],
           exec[w].pc \in Engaged, pc \in Engaged \ {"claimed"}
    PROVE  Moves(w, [exec[w] EXCEPT !.pc = pc, !.outcome = outcome])
<1> DEFINE x == [exec[w] EXCEPT !.pc = pc, !.outcome = outcome]
<1> w \in Executors /\ w # Approver
  BY Constants DEF Executors
<1>1. exec[w] \in ExecRecord /\ RecordOk(w, exec[w], issued) /\ exec \in [Executors -> ExecRecord]
  BY ExecType
<1>2. pc \in ExecPcs
  BY DEF ExecPcs
<1>3. /\ x \in ExecRecord /\ x.pc = pc /\ x.outcome = outcome /\ x.run = exec[w].run
      /\ x.token = exec[w].token /\ x.queue = exec[w].queue
  BY <1>1, <1>2, PcTypes DEF ExecRecord
<1>4. exec' = [exec EXCEPT ![w] = x]
  BY <1>1
<1> HIDE DEF x
<1>5. RecordOk(w, x, issued)
  BY <1>1, <1>3 DEF RecordOk, Engaged, Holding, Running
<1>6. Carries(exec[w], x)
  BY <1>3 DEF Carries
<1> QED BY <1>4, <1>5, <1>6 DEF Moves, x

\* The steps that set the program counter and whether the result is recoverable.
LEMMA ResultMoves ==
    ASSUME TypeInv, NEW e \in Executors, NEW b \in BOOLEAN,
           exec' = [exec EXCEPT ![e].pc = "result", ![e].recoverable = b],
           exec[e].pc \in Engaged
    PROVE  Moves(e, [exec[e] EXCEPT !.pc = "result", !.recoverable = b])
<1> DEFINE x == [exec[e] EXCEPT !.pc = "result", !.recoverable = b]
<1>1. exec[e] \in ExecRecord /\ RecordOk(e, exec[e], issued) /\ exec \in [Executors -> ExecRecord]
  BY ExecType
<1>2. "result" \in ExecPcs
  BY DEF ExecPcs, Engaged, Holding, Running
<1>3. /\ x \in ExecRecord /\ x.pc = "result" /\ x.run = exec[e].run
      /\ x.token = exec[e].token /\ x.queue = exec[e].queue
  BY <1>1, <1>2, PcTypes DEF ExecRecord
<1>4. exec' = [exec EXCEPT ![e] = x]
  BY <1>1
<1> HIDE DEF x
<1>5. RecordOk(e, x, issued)
  BY <1>1, <1>3 DEF RecordOk
<1>6. Carries(exec[e], x)
  BY <1>3 DEF Carries, Engaged, Holding, Running
<1> QED BY <1>4, <1>5, <1>6 DEF Moves, x

\* A status of a run that exists is replaced by another status.
LEMMA SetStatusType ==
    ASSUME TypeInv, NEW r \in Existing, NEW target \in TaskRunStatus, SetStatus(r, target)
    PROVE  /\ status' \in [Runs -> TaskRunStatus \cup {Absent}]
           /\ Existing \subseteq Existing' /\ op' = op /\ controls' = controls
<1>1. /\ status \in [Runs -> TaskRunStatus \cup {Absent}] /\ r \in Runs
      /\ status[r] \in TaskRunStatus
  BY DEF TypeInv, TypeOK, ControlTypeOK, Existing
<1>2. RuntimeStatus(status[r], target) \in TaskRunStatus
  BY <1>1 DEF RuntimeStatus
<1>3. Absent \notin TaskRunStatus
  BY DEF Absent, TaskRunStatus
<1>4. status' = [status EXCEPT ![r] = RuntimeStatus(status[r], target)]
  BY <1>1 DEF SetStatus
<1> QED BY <1>1, <1>2, <1>3, <1>4 DEF SetStatus, Existing

LEMMA EngagedPcs ==
    /\ {"start", "start_checkpoint", "steps", "result", "release", "dispatch"} \subseteq Engaged
    /\ Engaged \subseteq ExecPcs /\ "claimed" \in Engaged
    /\ {"idle", "scan", "refused", "report"} \cap Engaged = {}
  BY DEF Engaged, Holding, Running, ExecPcs
\* What else a step of executor e leaves as it is when it changes no lease.
Aside(e) ==
    /\ UNCHANGED <<op, controls, lease, issued, crashes>>
    /\ status' \in [Runs -> TaskRunStatus \cup {Absent}] /\ Existing \subseteq Existing'
    /\ audit' \in [Runs -> SUBSET (AuditEvents \X (0 .. issued))]
    /\ \A r \in Runs, t \in 0 .. issued :
          <<"run_claimed", t>> \in audit'[r] =>
              \/ <<"run_claimed", t>> \in audit[r]
              \/ /\ e \in Workers /\ exec[e].pc = "claimed"
                 /\ exec[e].run = r /\ exec[e].token = t
    /\ askable' \subseteq Existing'
    /\ approvals' \in 0 .. MaxApprovals

LEMMA NothingAside ==
    ASSUME TypeInv, NEW e,
           UNCHANGED <<status, op, controls, lease, issued, audit, askable, crashes, approvals>>
    PROVE  Aside(e)
<1>1. /\ status \in [Runs -> TaskRunStatus \cup {Absent}]
      /\ audit \in [Runs -> SUBSET (AuditEvents \X (0 .. issued))]
      /\ askable \subseteq Existing /\ approvals \in 0 .. MaxApprovals
  BY DEF TypeInv, TypeOK, ControlTypeOK, OperatorInv
<1> QED BY <1>1 DEF Aside, Existing

\* An event that is not a claim.
LEMMA AuditAside ==
    ASSUME TypeInv, NEW e, NEW r \in Runs, NEW event \in AuditEvents, NEW t \in 0 .. issued,
           event # "run_claimed" \/ /\ e \in Workers /\ exec[e].pc = "claimed"
                                    /\ exec[e].run = r /\ exec[e].token = t,
           Append2Audit(r, <<event, t>>),
           UNCHANGED <<status, op, controls, lease, issued, askable, crashes, approvals>>
    PROVE  Aside(e)
<1>1. /\ status \in [Runs -> TaskRunStatus \cup {Absent}]
      /\ audit \in [Runs -> SUBSET (AuditEvents \X (0 .. issued))]
      /\ askable \subseteq Existing /\ approvals \in 0 .. MaxApprovals
  BY DEF TypeInv, TypeOK, ControlTypeOK, OperatorInv
<1>2. audit' = [audit EXCEPT ![r] = audit[r] \cup {<<event, t>>}]
  BY <1>1 DEF Append2Audit
<1>3. audit' \in [Runs -> SUBSET (AuditEvents \X (0 .. issued))]
  BY <1>1, <1>2
<1>4. ASSUME NEW q \in Runs, NEW u \in 0 .. issued, <<"run_claimed", u>> \in audit'[q]
      PROVE  \/ <<"run_claimed", u>> \in audit[q]
             \/ q = r /\ event = "run_claimed" /\ t = u
  BY <1>1, <1>2, <1>4
<1>5. \A q \in Runs, u \in 0 .. issued :
          <<"run_claimed", u>> \in audit'[q] =>
              \/ <<"run_claimed", u>> \in audit[q]
              \/ /\ e \in Workers /\ exec[e].pc = "claimed"
                 /\ exec[e].run = q /\ exec[e].token = u
  BY <1>4
<1> QED BY <1>1, <1>3, <1>5 DEF Aside, Existing

LEMMA StatusAside ==
    ASSUME TypeInv, NEW e, NEW r \in Existing, NEW target \in TaskRunStatus, SetStatus(r, target),
           askable' \subseteq askable \cup {r},
           UNCHANGED <<lease, issued, audit, crashes, approvals>>
    PROVE  Aside(e)
<1>1. /\ audit \in [Runs -> SUBSET (AuditEvents \X (0 .. issued))]
      /\ askable \subseteq Existing /\ approvals \in 0 .. MaxApprovals
  BY DEF TypeInv, TypeOK, ControlTypeOK, OperatorInv
<1>2. /\ status' \in [Runs -> TaskRunStatus \cup {Absent}]
      /\ Existing \subseteq Existing' /\ op' = op /\ controls' = controls
  BY SetStatusType
<1> QED BY <1>1, <1>2 DEF Aside
-----------------------------------------------------------------------------
(***************************************************************************)
(* The steps that change no lease, take none up and let none go.           *)
(***************************************************************************)
Quiet(e) == \E x : Moves(e, x) /\ Aside(e)

LEMMA PollQuiet ==
    ASSUME TypeInv, NEW w \in Workers, Poll(w) \/ \E r \in Runs : PollRun(w, r)
    PROVE  Quiet(w)
<1>1. UNCHANGED <<status, op, controls, lease, issued, audit, askable, crashes, approvals>>
  BY DEF Poll, PollRun, StartScan, controlVars
<1> QED BY <1>1, PollMoves, NothingAside DEF Quiet

LEMMA RefusedQuiet ==
    ASSUME TypeInv, NEW w \in Workers, Refused(w)
    PROVE  Quiet(w)
<1> w \in Executors
  BY DEF Executors
<1>1. \E x : Moves(w, x)
  BY RefusedMoves DEF Refused
<1>2. CASE RefusedNext(w)
  BY <1>1, <1>2, NothingAside DEF Quiet, RefusedNext, controlVars
<1>3. CASE RefusedDeadLetter(w)
  <2>1. Head(exec[w].queue) \in Runs
    <3>1. exec[w].queue \in Seq(Runs) /\ exec[w].queue # <<>>
      BY <1>3, ExecType DEF RecordOk, RefusedDeadLetter
    <3> QED BY <3>1
  <2>2. "dead_letter_seen" \in AuditEvents /\ NoToken \in 0 .. issued
    BY ExecType DEF AuditEvents, NoToken
  <2>3. Aside(w)
    BY <1>3, <2>1, <2>2, AuditAside DEF RefusedDeadLetter, controlVars
  <2> QED BY <1>1, <2>3 DEF Quiet
<1> QED BY <1>2, <1>3 DEF Refused

LEMMA RecordClaimQuiet ==
    ASSUME TypeInv, NEW w \in Workers, RecordClaim(w)
    PROVE  Quiet(w)
<1> w \in Executors
  BY DEF Executors
<1>1. \E x : Moves(w, x)
  BY RecordClaimMoves
<1>2. exec[w].run \in Runs /\ exec[w].token \in 0 .. issued
  BY ExecType, EngagedPcs DEF RecordClaim, RecordOk
<1>3. "run_claimed" \in AuditEvents
  BY DEF AuditEvents
<1>4. Aside(w)
  BY <1>2, <1>3, AuditAside DEF RecordClaim, controlVars
<1> QED BY <1>1, <1>4 DEF Quiet

LEMMA ReportQuiet ==
    ASSUME TypeInv, NEW w \in Workers, Report(w)
    PROVE  Quiet(w)
<1> w \in Executors
  BY DEF Executors
<1>1. Moves(w, Idle)
  BY StopMoves, EngagedPcs DEF Report
<1>2. exec[w].run \in Runs /\ exec[w].token \in 0 .. issued /\ exec[w].outcome \in ReleaseKinds
  BY ExecType DEF Report, RecordOk
<1>3. exec[w].outcome \in AuditEvents /\ exec[w].outcome # "run_claimed"
  BY <1>2 DEF AuditEvents, ReleaseKinds
<1>4. Aside(w)
  BY <1>2, <1>3, AuditAside DEF Report, controlVars
<1> QED BY <1>1, <1>4 DEF Quiet

LEMMA DispatchQuiet ==
    ASSUME TypeInv, NEW w \in Workers, Dispatch(w)
    PROVE  Quiet(w)
<1> w \in Executors
  BY DEF Executors
<1> DEFINE s == status[exec[w].run]
           pc == CASE s = "recovering" -> "start_checkpoint"
                   [] s \in {"created", "running"} -> "start" [] OTHER -> "release"
           outcome == IF s \in Executable THEN "none" ELSE "exception"
<1>1. exec' = [exec EXCEPT ![w].pc = pc, ![w].outcome = outcome] /\ exec[w].pc = "dispatch"
  BY DEF Dispatch
<1>2. pc \in {"start_checkpoint", "start", "release"}
  OBVIOUS
<1>3. outcome \in {"none", "exception"}
  OBVIOUS
<1> HIDE DEF pc, outcome
<1>4. /\ pc \in Engaged \cup {"report"} /\ pc \in Engaged \ {"claimed"}
      /\ exec[w].pc \in Engaged
      /\ outcome \in TaskRunStatus \cup ReleaseKinds \cup {"none", "exception"}
  BY <1>1, <1>2, <1>3, EngagedPcs
<1>5. \E x : Moves(w, x)
  BY <1>1, <1>4, OutcomeMoves
<1>6. Aside(w)
  BY NothingAside DEF Dispatch, controlVars
<1> QED BY <1>5, <1>6 DEF Quiet

LEMMA StopBeatingQuiet ==
    ASSUME TypeInv, NEW w \in Workers, StopBeating(w)
    PROVE  Quiet(w)
  BY StopBeatingMoves, NothingAside DEF StopBeating, controlVars, Quiet

LEMMA StartRefusedQuiet ==
    ASSUME TypeInv, NEW w \in Workers, StartRefused(w)
    PROVE  Quiet(w)
<1> w \in Executors
  BY DEF Executors
<1>1. exec[w].pc \in Engaged
  BY EngagedPcs DEF StartRefused
<1>2. PICK b \in BOOLEAN : exec' = [exec EXCEPT ![w].pc = "result", ![w].recoverable = b]
  BY DEF StartRefused
<1>3. Moves(w, [exec[w] EXCEPT !.pc = "result", !.recoverable = b])
  BY <1>1, <1>2, ResultMoves
<1>4. CASE UNCHANGED controlVars
  BY <1>3, <1>4, NothingAside DEF StartRefused, controlVars, Quiet
<1>5. CASE SetStatus(exec[w].run, "waiting_user")
  <2>1. exec[w].run \in Existing /\ "waiting_user" \in TaskRunStatus
    BY <1>1, ExecType DEF RecordOk, TaskRunStatus
  <2>2. Aside(w)
    BY <1>5, <2>1, StatusAside DEF StartRefused
  <2> QED BY <1>3, <2>2 DEF Quiet
<1> QED BY <1>4, <1>5 DEF StartRefused
LEMMA StartQuiet ==
    ASSUME TypeInv, NEW e \in Executors, Start(e)
    PROVE  Quiet(e)
<1> DEFINE pc == IF status[exec[e].run] \in OperatorStop THEN "result" ELSE "steps"
<1>1. exec[e].pc \in Engaged /\ Goto(e, pc) /\ SetStatus(exec[e].run, "running")
  BY EngagedPcs DEF Start
<1>2. pc \in {"result", "steps"}
  OBVIOUS
<1> HIDE DEF pc
<1>3. /\ pc \in Engaged /\ pc \in ExecPcs /\ pc # "report" /\ pc # "claimed"
      /\ pc \notin {"scan", "refused"}
  BY <1>2, EngagedPcs
<1>4. \E x : Moves(e, x)
  BY <1>1, <1>2, <1>3, PcMoves
<1>5. exec[e].run \in Existing /\ "running" \in TaskRunStatus
  BY <1>1, ExecType DEF RecordOk, TaskRunStatus
<1>6. Aside(e)
  BY <1>1, <1>5, StatusAside DEF Start
<1> QED BY <1>4, <1>6 DEF Quiet

LEMMA CooperativeStopQuiet ==
    ASSUME TypeInv, NEW e \in Executors, CooperativeStop(e)
    PROVE  Quiet(e)
<1>1. /\ exec[e].pc \in Engaged /\ Goto(e, "result") /\ "result" \in Engaged
      /\ "result" \in ExecPcs
  BY EngagedPcs DEF CooperativeStop
<1>2. \E x : Moves(e, x)
  BY <1>1, PcMoves
<1> QED BY <1>2, NothingAside DEF CooperativeStop, controlVars, Quiet

LEMMA EndWithQuiet ==
    ASSUME TypeInv, NEW e \in Executors, NEW target \in EndTargets, EndWith(e, target)
    PROVE  Quiet(e)
<1>1. exec[e].pc \in Engaged /\ SetStatus(exec[e].run, target)
  BY EngagedPcs DEF EndWith
<1>2. PICK b \in BOOLEAN : exec' = [exec EXCEPT ![e].pc = "result", ![e].recoverable = b]
  BY DEF EndWith
<1>3. Moves(e, [exec[e] EXCEPT !.pc = "result", !.recoverable = b])
  BY <1>1, <1>2, ResultMoves
<1>4. exec[e].run \in Existing /\ target \in TaskRunStatus
  BY <1>1, ExecType DEF RecordOk, TaskRunStatus, EndTargets
<1>5. askable' \subseteq askable \cup {exec[e].run}
  BY DEF EndWith
<1>6. Aside(e)
  BY <1>1, <1>4, <1>5, StatusAside DEF EndWith
<1> QED BY <1>3, <1>6 DEF Quiet

LEMMA RaiseQuiet ==
    ASSUME TypeInv, NEW e \in Executors, Raise(e)
    PROVE  Quiet(e)
<1>1. exec[e].pc \in Engaged
  BY EngagedPcs DEF Raise
<1>2. Aside(e)
  BY NothingAside DEF Raise, controlVars
<1>3. CASE e = Approver
  BY <1>2, <1>3, Constants, StopMoves DEF Raise, Quiet
<1>4. CASE e # Approver
  <2>1. /\ e \in Workers /\ "release" \in Engaged \cup {"report"}
        /\ "release" \in Engaged \ {"claimed"}
        /\ "exception" \in TaskRunStatus \cup ReleaseKinds \cup {"none", "exception"}
        /\ exec' = [exec EXCEPT ![e].pc = "release", ![e].outcome = "exception"]
    BY <1>4, EngagedPcs DEF Executors, Raise
  <2> QED BY <1>1, <1>2, <2>1, OutcomeMoves DEF Quiet
<1> QED BY <1>3, <1>4

LEMMA ReturnQuiet ==
    ASSUME TypeInv, NEW e \in Executors, Return(e)
    PROVE  Quiet(e)
<1>1. exec[e].pc \in Engaged
  BY EngagedPcs DEF Return
<1>2. Aside(e)
  BY NothingAside DEF Return, controlVars
<1>3. CASE e = Approver
  BY <1>2, <1>3, Constants, StopMoves DEF Return, Quiet
<1>4. CASE e # Approver
  <2>1. /\ e \in Workers /\ "release" \in Engaged \cup {"report"}
        /\ "release" \in Engaged \ {"claimed"}
        /\ exec' = [exec EXCEPT ![e].pc = "release", ![e].outcome = status[exec[e].run]]
    BY <1>4, EngagedPcs DEF Executors, Return
  <2>2. exec[e].run \in Existing
    BY <1>1, ExecType DEF RecordOk
  <2>3. status[exec[e].run] \in TaskRunStatus \cup ReleaseKinds \cup {"none", "exception"}
    BY <2>2 DEF Existing, TypeInv, TypeOK, ControlTypeOK
  <2> QED BY <1>1, <1>2, <2>1, <2>3, OutcomeMoves DEF Quiet
<1> QED BY <1>3, <1>4

LEMMA ExecuteQuiet ==
    ASSUME TypeInv, NEW e \in Executors, Execute(e)
    PROVE  Quiet(e)
  BY StartQuiet, CooperativeStopQuiet, EndWithQuiet, RaiseQuiet, ReturnQuiet DEF Execute

LEMMA ApproveQuiet ==
    ASSUME TypeInv, NEW r \in Runs, Approve(r)
    PROVE  Quiet(Approver)
<1> DEFINE x == [Idle EXCEPT !.pc = "start", !.run = r]
<1> Approver \in Executors /\ Approver \notin Workers
  BY Constants DEF Executors
<1>1. issued \in Nat /\ Idle \in ExecRecord /\ Idle.token = 0
  BY IdleType, ExecType
<1>2. x \in ExecRecord /\ x.pc = "start" /\ x.run = r /\ x.token = 0
  BY <1>1 DEF ExecRecord, Holding, Running
<1>3. r \in Existing /\ exec' = [exec EXCEPT ![Approver] = x]
  BY DEF Approve, TypeInv, OperatorInv
<1> HIDE DEF x
<1>4. Moves(Approver, x)
  BY <1>1, <1>2, <1>3 DEF Moves, RecordOk
<1>5. /\ status \in [Runs -> TaskRunStatus \cup {Absent}]
      /\ audit \in [Runs -> SUBSET (AuditEvents \X (0 .. issued))]
      /\ askable \subseteq Existing /\ approvals \in 0 .. MaxApprovals
  BY DEF TypeInv, TypeOK, ControlTypeOK, OperatorInv
<1>6. approvals' \in 0 .. MaxApprovals
  BY <1>5, Constants DEF Approve
<1>7. Aside(Approver)
  BY <1>5, <1>6 DEF Aside, Approve, Existing, controlVars
<1> QED BY <1>4, <1>7 DEF Quiet

\* A quiet step keeps the invariant.
LEMMA QuietType ==
    ASSUME TypeInv, NEW e \in Executors, Quiet(e)
    PROVE  TypeInv'
<1>1. PICK x : Moves(e, x) /\ Aside(e)
  BY DEF Quiet
<1>2. crashes' \in 0 .. MaxCrashes
  BY <1>1 DEF Aside, TypeInv, TypeOK
<1> QED BY <1>1, <1>2, WorkerType DEF Moves, Aside
LEMMA QuietCarries ==
    ASSUME TypeInv, NEW e \in Executors, Quiet(e)
    PROVE  /\ \A w \in Workers : Carries(exec[w], exec'[w])
           /\ \E x : Moves(e, x) /\ Aside(e)
           /\ lease' = lease /\ issued' = issued /\ crashes' = crashes /\ issued \in Nat
<1>1. PICK x : Moves(e, x) /\ Aside(e)
  BY DEF Quiet
<1>2. crashes' \in 0 .. MaxCrashes
  BY <1>1 DEF Aside, TypeInv, TypeOK
<1>3. exec'[e] = x /\ \A f \in Executors \ {e} : exec'[f] = exec[f]
  BY <1>1, <1>2, WorkerType DEF Moves, Aside
<1>4. ASSUME NEW w \in Workers PROVE Carries(exec[w], exec'[w])
  <2>1. CASE w = e
    BY <1>1, <1>3, <2>1 DEF Moves
  <2>2. CASE w # e
    <3>1. exec'[w] = exec[w]
      BY <1>3, <2>2 DEF Executors
    <3> QED BY <3>1 DEF Carries
  <2> QED BY <2>1, <2>2
<1> QED BY <1>1, <1>4, ExecType DEF Aside

\* The claims of a run are finitely many.
LEMMA ClaimsFinite ==
    ASSUME TypeInv, NEW r \in Runs
    PROVE  IsFiniteSet(Claims(r)) /\ Claims(r) \subseteq 0 .. issued
<1>1. issued \in Nat
  BY RunsFinite DEF TypeInv, TypeOK
<1>2. IsFiniteSet(0 .. issued) /\ Claims(r) \subseteq 0 .. issued
  BY <1>1, FS_Interval DEF Claims
<1> QED BY <1>2, FS_Subset

LEMMA QuietTokens ==
    ASSUME TypeInv, TokenInv, NEW e \in Executors, Quiet(e)
    PROVE  TokenInv'
  BY QuietCarries DEF TokenInv, Carries

LEMMA QuietClaims ==
    ASSUME TypeInv, ClaimInv, NEW e \in Executors, Quiet(e)
    PROVE  ClaimInv'
<1>1. /\ \A w \in Workers : Carries(exec[w], exec'[w])
      /\ lease' = lease /\ issued' = issued /\ Aside(e)
  BY QuietCarries
<1>2. ASSUME NEW r \in Runs PROVE Claims(r)' \subseteq Claims(r)
  <2>1. ASSUME NEW t \in 0 .. issued, <<"run_claimed", t>> \in audit'[r] PROVE t \in Claims(r)
    BY <1>1, <2>1 DEF Aside, Claims
  <2>2. ASSUME NEW t \in 0 .. issued, NEW w \in Workers,
               exec'[w].pc = "claimed", exec'[w].run = r, exec'[w].token = t
        PROVE  t \in Claims(r)
    BY <1>1, <2>2, EngagedPcs DEF Carries, Claims
  <2> QED BY <1>1, <2>1, <2>2 DEF Claims
<1>3. ASSUME NEW r \in Runs PROVE Cardinality(Claims(r))' <= lease'[r].attempt_count
  <2>1. IsFiniteSet(Claims(r)) /\ Claims(r)' \subseteq Claims(r)
    BY <1>2, ClaimsFinite
  <2>2. /\ Cardinality(Claims(r)') \in Nat /\ Cardinality(Claims(r)) \in Nat
        /\ Cardinality(Claims(r)') <= Cardinality(Claims(r))
    BY <2>1, FS_Subset, FS_CardinalityType
  <2>3. lease[r].attempt_count \in Nat /\ Cardinality(Claims(r)) <= lease[r].attempt_count
    BY LeaseFields, Constants DEF ClaimInv, TypeInv, TypeOK
  <2>4. lease'[r].attempt_count = lease[r].attempt_count
    BY <1>1
  <2> HIDE DEF TypeInv
  <2> QED BY <2>2, <2>3, <2>4
<1> QED BY <1>3 DEF ClaimInv

\* Whom a run is held by does not change.
LEMMA QuietLeaks ==
    ASSUME TypeInv, LeakInv, NEW e \in Executors, Quiet(e)
    PROVE  LeakInv'
<1>1. /\ \A w \in Workers : Carries(exec[w], exec'[w])
      /\ lease' = lease /\ crashes' = crashes
  BY QuietCarries
<1>2. \A r \in Runs : Orphaned(r)' = Orphaned(r)
  BY <1>1 DEF Orphaned, Carries, Engaged
<1>3. {r \in Runs : Orphaned(r)}' = {r \in Runs : Orphaned(r)}
  BY <1>2
<1> QED BY <1>1, <1>3 DEF LeakInv, NoLeaseLeak

LEMMA QuietKeeps ==
    ASSUME IInv, NEW e \in Executors, Quiet(e)
    PROVE  IInv'
  BY QuietType, QuietTokens, QuietClaims, QuietLeaks DEF IInv
-----------------------------------------------------------------------------
(***************************************************************************)
(* The steps that let a lease go without changing it.                      *)
(***************************************************************************)
LEMMA DropKeeps ==
    ASSUME IInv, NEW e \in Executors, Stop(e), crashes' \in 0 .. MaxCrashes,
           UNCHANGED <<controlVars, lease, issued, audit, askable, approvals>>
    PROVE  /\ TypeInv' /\ TokenInv' /\ ClaimInv'
           /\ exec'[e] = Idle /\ \A f \in Executors \ {e} : exec'[f] = exec[f]
<1>1. TypeInv /\ TokenInv /\ ClaimInv
  BY DEF IInv
<1>2. /\ status \in [Runs -> TaskRunStatus \cup {Absent}]
      /\ audit \in [Runs -> SUBSET (AuditEvents \X (0 .. issued))]
      /\ askable \subseteq Existing /\ approvals \in 0 .. MaxApprovals
  BY <1>1 DEF TypeInv, TypeOK, ControlTypeOK, OperatorInv
<1>3. issued \in Nat /\ Idle \in ExecRecord /\ Idle.pc = "idle" /\ Idle.token = 0
  BY <1>1, IdleType, ExecType
<1>4. RecordOk(e, Idle, issued)
  BY <1>3, EngagedPcs DEF RecordOk
<1>5. /\ TypeInv' /\ exec'[e] = Idle /\ \A f \in Executors \ {e} : exec'[f] = exec[f]
  BY <1>1, <1>2, <1>4, WorkerType DEF Stop, controlVars, Existing
<1>6. ASSUME NEW w \in Workers, exec'[w].pc \in Engaged PROVE exec'[w] = exec[w]
  BY <1>3, <1>5, <1>6, EngagedPcs DEF Executors
<1>7. TokenInv'
  BY <1>1, <1>6 DEF TokenInv
<1>8. ASSUME NEW r \in Runs PROVE Cardinality(Claims(r))' <= lease'[r].attempt_count
  <2>1. Claims(r)' \subseteq Claims(r)
    BY <1>6, EngagedPcs DEF Claims
  <2>2. /\ Cardinality(Claims(r)') \in Nat /\ Cardinality(Claims(r)) \in Nat
        /\ Cardinality(Claims(r)') <= Cardinality(Claims(r))
    BY <1>1, <2>1, ClaimsFinite, FS_Subset, FS_CardinalityType
  <2>3. lease[r].attempt_count \in Nat /\ Cardinality(Claims(r)) <= lease[r].attempt_count
    BY <1>1, LeaseFields, Constants DEF ClaimInv, TypeInv, TypeOK
  <2> QED BY <2>2, <2>3
<1> QED BY <1>5, <1>7, <1>8 DEF ClaimInv

\* A lease that was lost is somebody else's by now, or nobody's.
LEMMA LeaseLostKeeps ==
    ASSUME IInv, NEW w \in Workers, LeaseLost(w)
    PROVE  IInv'
<1> w \in Executors
  BY DEF Executors
<1>1. TypeInv /\ TokenInv /\ LeakInv /\ crashes \in 0 .. MaxCrashes
  BY DEF IInv, TypeInv, TypeOK
<1>2. /\ TypeInv' /\ TokenInv' /\ ClaimInv'
      /\ exec'[w] = Idle /\ \A f \in Executors \ {w} : exec'[f] = exec[f]
  BY <1>1, DropKeeps DEF LeaseLost
<1>3. lease' = lease /\ crashes' = crashes /\ exec[w].pc \in Engaged
  BY EngagedPcs DEF LeaseLost
<1>4. \/ lease[exec[w].run].state # "active"
      \/ lease[exec[w].run].lease_token # exec[w].token
  BY <1>1, <1>3 DEF LeaseLost, RequireOwner, TokenInv
<1>5. ASSUME NEW r \in Runs PROVE Orphaned(r)' => Orphaned(r)
  BY <1>2, <1>3, <1>4 DEF Orphaned, Executors
<1>6. ASSUME NEW r \in Runs, Orphaned(r) PROVE Orphaned(r)'
  <2>1. \A v \in Workers : exec'[v].pc \in Engaged => exec'[v] = exec[v]
    BY <1>2, IdleType, EngagedPcs DEF Executors
  <2> QED BY <1>3, <1>6, <2>1 DEF Orphaned, Engaged
<1>7. {r \in Runs : Orphaned(r)}' = {r \in Runs : Orphaned(r)}
  BY <1>5, <1>6
<1>8. LeakInv'
  BY <1>1, <1>3, <1>7 DEF LeakInv, NoLeaseLeak
<1> QED BY <1>2, <1>8 DEF IInv

LEMMA OneMore ==
    ASSUME NEW S, IsFiniteSet(S), NEW x, NEW T, T \subseteq S \cup {x}
    PROVE  IsFiniteSet(T) /\ Cardinality(T) \in Nat /\ Cardinality(T) <= Cardinality(S) + 1
<1>1. Cardinality(S) \in Nat
  BY FS_CardinalityType
<1>2. /\ IsFiniteSet(S \cup {x})
      /\ \/ Cardinality(S \cup {x}) = Cardinality(S)
         \/ Cardinality(S \cup {x}) = Cardinality(S) + 1
  BY FS_AddElement
<1>3. /\ IsFiniteSet(T) /\ Cardinality(T) <= Cardinality(S \cup {x})
      /\ Cardinality(T) \in Nat
  BY <1>2, FS_Subset, FS_CardinalityType
<1> QED BY <1>1, <1>2, <1>3

\* A crash leaves at most the run of its executor without a worker.
LEMMA CrashKeeps ==
    ASSUME IInv, NEW e \in Executors, Crash(e)
    PROVE  IInv'
<1>1. TypeInv /\ LeakInv /\ crashes \in Nat /\ crashes' = crashes + 1
  BY Constants DEF IInv, TypeInv, TypeOK, Crash
<1>2. crashes' \in 0 .. MaxCrashes
  BY <1>1, Constants DEF Crash
<1>3. /\ TypeInv' /\ TokenInv' /\ ClaimInv'
      /\ exec'[e] = Idle /\ \A f \in Executors \ {e} : exec'[f] = exec[f]
  BY <1>2, DropKeeps DEF Crash
<1> DEFINE before == {r \in Runs : Orphaned(r)}
           after == {r \in Runs : Orphaned(r)}'
<1>4. lease' = lease
  BY DEF Crash
<1>5. ASSUME NEW r \in Runs, Orphaned(r)', r # exec[e].run PROVE Orphaned(r)
  BY <1>3, <1>4, <1>5 DEF Orphaned, Executors
<1>6. after \subseteq before \cup {exec[e].run}
  BY <1>5
<1>7. IsFiniteSet(before) /\ Cardinality(before) \in Nat
  BY RunsFinite, FS_Subset, FS_CardinalityType
<1> HIDE DEF before, after
<1>9. Cardinality(after) <= Cardinality(before) + 1 /\ Cardinality(after) \in Nat
  BY <1>6, <1>7, OneMore
<1>10. Cardinality(before) <= crashes
  BY <1>1 DEF LeakInv, NoLeaseLeak, before
<1>11. Cardinality(after) <= crashes'
  BY <1>1, <1>7, <1>9, <1>10
<1>12. LeakInv'
  BY <1>11 DEF LeakInv, NoLeaseLeak, after
<1> QED BY <1>3, <1>12 DEF IInv
-----------------------------------------------------------------------------
(***************************************************************************)
(* The steps that change a lease.                                          *)
(***************************************************************************)

\* A lease is prolonged or grows older: nobody gains or loses it.
LEMMA AgeKeeps ==
    ASSUME IInv, lease' \in [Runs -> RunLease], \A r \in Runs : LeaseOk(lease'[r]),
           \A r \in Runs : /\ lease'[r].attempt_count = lease[r].attempt_count
                           /\ lease'[r].lease_token = lease[r].lease_token
                           /\ lease'[r].owner_id = lease[r].owner_id
                           /\ lease'[r].state = lease[r].state,
           UNCHANGED <<controlVars, issued, audit, exec, askable, crashes, approvals>>
    PROVE  IInv'
<1>1. TypeInv /\ TokenInv /\ ClaimInv /\ LeakInv
  BY DEF IInv
<1>2. TypeInv'
  <2>1. issued' = Cardinality(Attempts)'
    <3>1. Attempts' = Attempts
      BY DEF Attempts, Budget
    <3> QED BY <1>1, <3>1 DEF TypeInv
  <2>2. /\ ControlTypeOK' /\ exec' \in [Executors -> ExecRecord]
        /\ audit' \in [Runs -> SUBSET (AuditEvents \X (0 .. issued'))]
        /\ crashes' \in 0 .. MaxCrashes /\ approvals' \in 0 .. MaxApprovals
    BY <1>1 DEF TypeInv, TypeOK, ControlTypeOK, controlVars
  <2>3. ExecInv' /\ OperatorInv'
    BY <1>1 DEF TypeInv, ExecInv, OperatorInv, RecordOk, Existing, controlVars
  <2>4. (\A r \in Runs : LeaseOk(lease[r]))'
    OBVIOUS
  <2> QED BY <2>1, <2>2, <2>3, <2>4, AllTypes
<1>3. TokenInv'
  <2>1. ASSUME NEW w \in Workers, exec[w].pc \in Engaged PROVE exec[w].run \in Runs
    BY <1>1, <2>1, ExecType DEF Executors
  <2> QED BY <1>1, <2>1 DEF TokenInv
<1>4. ClaimInv'
  BY <1>1 DEF ClaimInv, Claims
<1>5. LeakInv'
  <2>1. {r \in Runs : Orphaned(r)}' = {r \in Runs : Orphaned(r)}
    BY DEF Orphaned
  <2> QED BY <1>1, <2>1 DEF LeakInv, NoLeaseLeak
<1> QED BY <1>2, <1>3, <1>4, <1>5 DEF IInv

LEMMA RenewKeeps ==
    ASSUME IInv, NEW w \in Workers, Renew(w)
    PROVE  IInv'
<1> DEFINE r == exec[w].run
<1>1. TypeInv /\ lease \in [Runs -> RunLease] /\ \A q \in Runs : LeaseOk(lease[q])
  BY LeasesType DEF IInv, TypeInv, TypeOK
<1>2. r \in Runs
  BY <1>1, ExecType, EngagedPcs DEF Renew, Engaged, Holding, Executors
<1>3. lease' = [lease EXCEPT ![r] = Heartbeat(lease[r])] /\ lease[r].state = "active"
  BY <1>1, <1>2 DEF Renew, Renewable, RequireOwner
<1> HIDE DEF r
<1>4. /\ LeaseOk(Heartbeat(lease[r]))
      /\ Heartbeat(lease[r]).attempt_count = lease[r].attempt_count
      /\ Heartbeat(lease[r]).lease_token = lease[r].lease_token
      /\ Heartbeat(lease[r]).owner_id = lease[r].owner_id
      /\ Heartbeat(lease[r]).state = lease[r].state
  BY <1>1, <1>2, <1>3, HeartbeatType
<1>5. lease' \in [Runs -> RunLease] /\ \A q \in Runs : LeaseOk(lease'[q])
  BY <1>1, <1>2, <1>3, <1>4 DEF LeaseOk
<1>6. \A q \in Runs : /\ lease'[q].attempt_count = lease[q].attempt_count
                      /\ lease'[q].lease_token = lease[q].lease_token
                      /\ lease'[q].owner_id = lease[q].owner_id
                      /\ lease'[q].state = lease[q].state
  BY <1>1, <1>2, <1>3, <1>4
<1> QED BY <1>5, <1>6, AgeKeeps DEF Renew

LEMMA TickLeases ==
    ASSUME TypeInv, Tick
    PROVE  /\ lease' \in [Runs -> RunLease] /\ \A r \in Runs : LeaseOk(lease'[r])
           /\ \A r \in Runs : /\ lease'[r].attempt_count = lease[r].attempt_count
                              /\ lease'[r].lease_token = lease[r].lease_token
                              /\ lease'[r].owner_id = lease[r].owner_id
                              /\ lease'[r].state = lease[r].state
                              /\ lease[r].state = "dead_letter" => lease'[r] = lease[r]
<1>1. lease' = [r \in Runs |-> Age(lease[r])] /\ \A r \in Runs : LeaseOk(lease[r])
  BY LeasesType DEF Tick
<1>2. \A r \in Runs : lease'[r] = Age(lease[r])
  BY <1>1
<1>3. \A r \in Runs :
          /\ LeaseOk(Age(lease[r]))
          /\ Age(lease[r]).attempt_count = lease[r].attempt_count
          /\ Age(lease[r]).lease_token = lease[r].lease_token
          /\ Age(lease[r]).owner_id = lease[r].owner_id
          /\ Age(lease[r]).state = lease[r].state
          /\ lease[r].state = "dead_letter" => Age(lease[r]) = lease[r]
  BY <1>1, AgeType
<1>4. \A r \in Runs : Age(lease[r]) \in RunLease
  BY <1>3 DEF LeaseOk
<1>5. lease' \in [Runs -> RunLease]
  BY <1>1, <1>4
<1> QED BY <1>2, <1>3, <1>5

LEMMA TickKeeps ==
    ASSUME IInv, Tick
    PROVE  IInv'
  BY TickLeases, AgeKeeps DEF IInv, Tick

\* A lease is given back or buried by a worker that does not hold another.
LEMMA CloseKeeps ==
    ASSUME IInv, NEW w \in Workers, NEW r \in Runs, NEW x, RecordOk(w, x, issued),
           exec' = [exec EXCEPT ![w] = x], x.pc \notin Engaged,
           exec[w].pc \in Engaged => exec[w].run = r,
           NEW l, LeaseOk(l), l.state # "active", l.attempt_count = lease[r].attempt_count,
           lease' = [lease EXCEPT ![r] = l],
           UNCHANGED <<controlVars, issued, audit, askable, crashes, approvals>>
    PROVE  IInv'
<1> w \in Executors
  BY DEF Executors
<1>1. TypeInv /\ TokenInv /\ ClaimInv /\ LeakInv
  BY DEF IInv
<1>2. /\ lease \in [Runs -> RunLease] /\ \A q \in Runs : LeaseOk(lease[q])
      /\ issued \in Nat /\ issued' = issued
  BY <1>1, LeasesType, ExecType DEF TypeInv, TypeOK
<1>3. /\ lease' \in [Runs -> RunLease] /\ lease'[r] = l
      /\ \A q \in Runs \ {r} : lease'[q] = lease[q]
  BY <1>2 DEF LeaseOk
<1>4. \A q \in Runs : lease'[q].attempt_count = lease[q].attempt_count /\ LeaseOk(lease'[q])
  BY <1>2, <1>3
<1>5. /\ exec' \in [Executors -> ExecRecord] /\ ExecInv'
      /\ exec'[w] = x /\ \A f \in Executors \ {w} : exec'[f] = exec[f]
  <2>1. RecordOk(w, x, issued') /\ issued' \in Nat /\ issued <= issued'
        /\ Existing \subseteq Existing'
    BY <1>2 DEF Existing, controlVars
  <2> QED BY <1>1, <2>1, ExecMove
<1>6. TypeInv'
  <2>1. issued' = Cardinality(Attempts)'
    <3>1. Attempts' = Attempts
      BY <1>4 DEF Attempts, Budget
    <3> QED BY <1>1, <3>1 DEF TypeInv
  <2>2. /\ ControlTypeOK' /\ OperatorInv'
        /\ audit' \in [Runs -> SUBSET (AuditEvents \X (0 .. issued'))]
        /\ crashes' \in 0 .. MaxCrashes /\ approvals' \in 0 .. MaxApprovals
    BY <1>1 DEF TypeInv, TypeOK, ControlTypeOK, controlVars, OperatorInv, Existing
  <2>3. (\A q \in Runs : LeaseOk(lease[q]))'
    BY <1>4
  <2> QED BY <1>3, <1>5, <2>1, <2>2, <2>3, AllTypes
<1>7. ASSUME NEW v \in Workers, exec'[v].pc \in Engaged
      PROVE  exec'[v] = exec[v] /\ exec[v].run \in Runs /\ exec[v].token \in Nat
  BY <1>1, <1>5, <1>7, ExecType DEF Executors
<1>8. TokenInv'
  <2>1. \A q \in Runs : lease'[q].lease_token <= issued'
    BY <1>1, <1>2, <1>3 DEF TokenInv, LeaseOk, NoToken
  <2>2. ASSUME NEW v \in Workers, exec'[v].pc \in Engaged
        PROVE  /\ exec'[v].token # NoToken
               /\ lease'[exec'[v].run].lease_token = exec'[v].token =>
                      lease'[exec'[v].run].owner_id = v
    <3>1. CASE exec'[v].run = r
      BY <1>1, <1>3, <1>7, <2>2, <3>1 DEF TokenInv, LeaseOk
    <3>2. CASE exec'[v].run # r
      BY <1>1, <1>3, <1>7, <2>2, <3>2 DEF TokenInv
    <3> QED BY <3>1, <3>2
  <2> QED BY <2>1, <2>2 DEF TokenInv
<1>9. ASSUME NEW q \in Runs PROVE Cardinality(Claims(q))' <= lease'[q].attempt_count
  <2>1. Claims(q)' \subseteq Claims(q)
    BY <1>2, <1>7, EngagedPcs DEF Claims
  <2>2. /\ Cardinality(Claims(q)') \in Nat /\ Cardinality(Claims(q)) \in Nat
        /\ Cardinality(Claims(q)') <= Cardinality(Claims(q))
    BY <1>1, <2>1, ClaimsFinite, FS_Subset, FS_CardinalityType
  <2>3. lease[q].attempt_count \in Nat /\ Cardinality(Claims(q)) <= lease[q].attempt_count
    BY <1>1, LeaseFields, Constants DEF ClaimInv, TypeInv, TypeOK
  <2> QED BY <1>4, <2>2, <2>3
<1>10. LeakInv'
  <2>1. ASSUME NEW q \in Runs, Orphaned(q)' PROVE Orphaned(q)
    <3>1. q # r
      BY <1>3, <2>1 DEF Orphaned
    <3>2. \A v \in Workers : exec[v].pc \in Engaged /\ exec[v].run = q => exec'[v] = exec[v]
      BY <1>5, <3>1 DEF Executors
    <3> QED BY <1>3, <2>1, <3>1, <3>2 DEF Orphaned, Engaged
  <2>2. {q \in Runs : Orphaned(q)}' \subseteq {q \in Runs : Orphaned(q)}
    BY <2>1
  <2>3. /\ Cardinality({q \in Runs : Orphaned(q)}') <= Cardinality({q \in Runs : Orphaned(q)})
        /\ Cardinality({q \in Runs : Orphaned(q)}') \in Nat
        /\ Cardinality({q \in Runs : Orphaned(q)}) \in Nat
    <3>1. IsFiniteSet({q \in Runs : Orphaned(q)})
      BY RunsFinite, FS_Subset
    <3> QED BY <2>2, <3>1, FS_Subset, FS_CardinalityType
  <2>4. /\ crashes \in Nat /\ crashes' = crashes
        /\ Cardinality({q \in Runs : Orphaned(q)}) <= crashes
    BY <1>1, Constants DEF LeakInv, NoLeaseLeak, TypeInv, TypeOK
  <2>5. Cardinality({q \in Runs : Orphaned(q)}') <= crashes'
    BY <2>3, <2>4
  <2> QED BY <2>5 DEF LeakInv, NoLeaseLeak
<1> QED BY <1>6, <1>8, <1>9, <1>10 DEF IInv, ClaimInv
LEMMA ReleaseStateType ==
    ASSUME NEW x
    PROVE  /\ ReleaseState(x) \in {"backoff", "released", "dead_letter"}
           /\ EventOf(ReleaseState(x)) \in ReleaseKinds
<1>1. ReleaseState(x) \in {"backoff", "released", "dead_letter"}
  BY DEF ReleaseState
<1> QED BY <1>1 DEF EventOf, ReleaseKinds

LEMMA ReleaseLeaseKeeps ==
    ASSUME IInv, NEW w \in Workers, ReleaseLease(w)
    PROVE  IInv'
<1> DEFINE r == exec[w].run
           state == ReleaseState(exec[w])
           delay == IF state = "backoff" THEN BackoffDelay(exec[w].attempt) ELSE 0
           l == Inactive(lease[r], state, delay)
           x == [exec[w] EXCEPT !.pc = "report", !.outcome = EventOf(state)]
<1> w \in Executors /\ w # Approver
  BY Constants DEF Executors
<1>1. TypeInv
  BY DEF IInv
<1>2. exec[w].pc = "release" /\ r \in Runs /\ lease \in [Runs -> RunLease]
  BY <1>1, ExecType, EngagedPcs DEF ReleaseLease, TypeInv, TypeOK
<1>3. /\ exec[w] \in ExecRecord /\ RecordOk(w, exec[w], issued)
      /\ exec \in [Executors -> ExecRecord]
  BY <1>1, ExecType
<1>4. /\ lease' = [lease EXCEPT ![r] = l] /\ exec' = [exec EXCEPT ![w] = x]
  BY <1>2, <1>3 DEF ReleaseLease, Release
<1>5. /\ state \in {"backoff", "released", "dead_letter"}
      /\ EventOf(state) \in ReleaseKinds
  BY ReleaseStateType
<1>6. delay \in 0 .. MaxBackoffSeconds /\ (state # "backoff" => delay = 0)
  BY BackoffType, Constants
<1>7. LeaseOk(lease[r])
  BY <1>1, <1>2, LeasesType
<1> HIDE DEF r, state, delay
<1>8. LeaseOk(l) /\ l.state = state /\ l.attempt_count = lease[r].attempt_count
  BY <1>5, <1>6, <1>7, InactiveType
<1> USE DEF r
<1>9. /\ x \in ExecRecord /\ x.pc = "report" /\ x.run = r
      /\ x.token = exec[w].token /\ x.outcome \in ReleaseKinds
  BY <1>3, <1>5 DEF ExecRecord
<1> HIDE DEF l, x
<1>10. RecordOk(w, x, issued)
  BY <1>2, <1>3, <1>9, EngagedPcs DEF RecordOk
<1>11. x.pc \notin Engaged /\ l.state # "active"
  BY <1>5, <1>8, <1>9, EngagedPcs
<1>12. UNCHANGED <<controlVars, issued, audit, askable, crashes, approvals>>
  BY DEF ReleaseLease
<1> QED BY <1>2, <1>4, <1>8, <1>10, <1>11, <1>12, CloseKeeps

LEMMA ClaimRefusedKeeps ==
    ASSUME IInv, NEW w \in Workers, ClaimRefused(w)
    PROVE  IInv'
<1> DEFINE r == Head(exec[w].queue)
           x == [exec[w] EXCEPT !.pc = "refused"]
<1> w \in Executors /\ w # Approver
  BY Constants DEF Executors
<1>1. TypeInv /\ exec[w].pc = "scan" /\ Goto(w, "refused") /\ exec[w].pc \notin Engaged
  BY EngagedPcs DEF IInv, ClaimRefused
<1>2. "refused" \in ExecPcs /\ "refused" \notin Engaged
  BY EngagedPcs DEF ExecPcs
<1>3. Moves(w, x)
  BY <1>1, <1>2, PcMoves
<1>4. CASE lease' = lease
  <2>1. Aside(w)
    BY <1>1, <1>4, NothingAside DEF ClaimRefused, controlVars
  <2> QED BY <1>3, <2>1, QuietKeeps DEF Quiet
<1>5. CASE lease' = [lease EXCEPT ![r] = DeadLetter(@)]
  <2> DEFINE l == Inactive(lease[r], "dead_letter", 0)
  <2>1. r \in Runs
    <3>1. exec[w].queue \in Seq(Runs) /\ exec[w].queue # <<>>
      BY <1>1, ExecType DEF RecordOk
    <3> QED BY <3>1
  <2>2. LeaseOk(lease[r]) /\ lease \in [Runs -> RunLease]
    BY <1>1, <2>1, LeasesType DEF TypeInv, TypeOK
  <2>3. /\ LeaseOk(l) /\ l.state = "dead_letter" /\ l.attempt_count = lease[r].attempt_count
    <3>1. 0 \in 0 .. MaxBackoffSeconds
      BY Constants
    <3> QED BY <2>2, <3>1, InactiveType
  <2>4. lease' = [lease EXCEPT ![r] = l]
    BY <1>5, <2>1, <2>2 DEF DeadLetter
  <2>5. x.pc = "refused" /\ RecordOk(w, x, issued) /\ exec' = [exec EXCEPT ![w] = x]
    BY <1>1, <1>2, <1>3, ExecType, SetPc DEF Moves
  <2>6. UNCHANGED <<controlVars, issued, audit, askable, crashes, approvals>>
    BY DEF ClaimRefused
  <2> HIDE DEF l, x, r
  <2>7. l.state # "active" /\ x.pc \notin Engaged
    BY <1>2, <2>3, <2>5
  <2> QED BY <1>1, <2>1, <2>3, <2>4, <2>5, <2>6, <2>7, CloseKeeps
<1> QED BY <1>4, <1>5 DEF ClaimRefused
-----------------------------------------------------------------------------
(***************************************************************************)
(* A claim draws one token and uses up one attempt.                        *)
(***************************************************************************)
LEMMA ClaimGrantedKeeps ==
    ASSUME IInv, NEW w \in Workers, ClaimGranted(w)
    PROVE  IInv'
<1> DEFINE r == Head(exec[w].queue)
           n == issued + 1
           l == Claim(lease[r], w, n)
           x == [Idle EXCEPT !.pc = "claimed", !.run = r, !.token = n,
                             !.attempt = l.attempt_count]
<1> w \in Executors /\ w # Approver
  BY Constants DEF Executors
<1>1. /\ TypeInv /\ TokenInv /\ ClaimInv /\ LeakInv
      /\ exec[w].pc = "scan" /\ status[r] \in Executable
      /\ lease[r].attempt_count < RetryBudget /\ issued' = n
  BY DEF IInv, ClaimGranted
<1>2. r \in Runs
  <2>1. exec[w].queue \in Seq(Runs) /\ exec[w].queue # <<>>
    BY <1>1, ExecType DEF RecordOk
  <2> QED BY <2>1
<1>3. /\ lease \in [Runs -> RunLease] /\ \A q \in Runs : LeaseOk(lease[q])
      /\ issued \in Nat /\ n \in Nat \ {0} /\ issued <= n
      /\ exec \in [Executors -> ExecRecord]
  BY <1>1, LeasesType, ExecType DEF TypeInv, TypeOK
<1>4. lease' = [lease EXCEPT ![r] = l] /\ lease'[r] = l
  BY <1>1, <1>2, <1>3 DEF ClaimGranted
<1>5. exec' = [exec EXCEPT ![w] = x]
  BY <1>1, <1>4 DEF ClaimGranted
<1>6. UNCHANGED <<controlVars, audit, askable, crashes, approvals>>
  BY DEF ClaimGranted
<1>7. /\ LeaseOk(l) /\ l.attempt_count = lease[r].attempt_count + 1
      /\ l.owner_id = w /\ l.lease_token = n /\ l.state = "active"
  <2>1. LeaseOk(lease[r])
    BY <1>2, <1>3
  <2> HIDE DEF r, n
  <2> QED BY <1>1, <1>3, <2>1, ClaimType
<1> HIDE DEF l, r, n
<1>8. /\ lease' \in [Runs -> RunLease]
      /\ \A q \in Runs \ {r} : lease'[q] = lease[q]
      /\ \A q \in Runs : LeaseOk(lease'[q])
  BY <1>2, <1>3, <1>4, <1>7 DEF LeaseOk
<1>9. /\ x \in ExecRecord /\ x.pc = "claimed" /\ x.run = r /\ x.token = n
  <2>1. l.attempt_count \in 0 .. RetryBudget
    BY <1>7, LeaseFields DEF LeaseOk
  <2> QED BY <1>2, <1>3, <2>1, IdleType DEF ExecRecord
<1> HIDE DEF x
<1>10. r \in Existing
  BY <1>1, <1>2 DEF Existing, Executable, Absent
<1>11. /\ exec' \in [Executors -> ExecRecord] /\ ExecInv'
       /\ exec'[w] = x /\ \A f \in Executors \ {w} : exec'[f] = exec[f]
  <2>1. RecordOk(w, x, issued')
    BY <1>1, <1>3, <1>9, <1>10 DEF RecordOk
  <2>2. issued' \in Nat /\ issued <= issued' /\ Existing \subseteq Existing'
    BY <1>1, <1>3, <1>6 DEF Existing, controlVars
  <2> QED BY <1>1, <1>5, <2>1, <2>2, ExecMove
<1>12. TypeInv'
  <2>1. issued' = Cardinality(Attempts)'
    <3> DEFINE p == <<r, lease[r].attempt_count + 1>>
    <3>1. /\ lease[r].attempt_count \in Nat
          /\ \A q \in Runs : lease[q].attempt_count \in Nat
      BY <1>2, <1>3, LeaseFields, Constants
    <3>2. p \in Budget
      BY <1>1, <1>2, <3>1, Constants DEF Budget
    <3>3. p \notin Attempts
      BY <3>1 DEF Attempts
    <3>4. Attempts' = Attempts \cup {p}
      <4>1. ASSUME NEW q \in Budget
            PROVE  q[2] <= lease'[q[1]].attempt_count <=>
                       q[2] <= lease[q[1]].attempt_count \/ q = p
        <5>1. PICK a \in Runs, b \in 1 .. RetryBudget : q = <<a, b>>
          BY <4>1 DEF Budget
        <5>2. CASE a = r
          <6>1. b <= lease[r].attempt_count + 1 <=>
                    b <= lease[r].attempt_count \/ b = lease[r].attempt_count + 1
            BY <3>1, Constants
          <6> QED BY <1>4, <1>7, <5>1, <5>2, <6>1
        <5>3. CASE a # r
          BY <1>8, <5>1, <5>3
        <5> QED BY <5>2, <5>3
      <4> QED BY <3>2, <4>1 DEF Attempts
    <3>5. IsFiniteSet(Attempts)
      BY RunsFinite, FS_Subset DEF Attempts
    <3> HIDE DEF p
    <3>6. Cardinality(Attempts') = Cardinality(Attempts) + 1
      BY <3>3, <3>4, <3>5, FS_AddElement
    <3> QED BY <1>1, <3>6 DEF TypeInv, n
  <2>2. /\ ControlTypeOK' /\ OperatorInv'
        /\ crashes' \in 0 .. MaxCrashes /\ approvals' \in 0 .. MaxApprovals
    BY <1>1, <1>6 DEF TypeInv, TypeOK, ControlTypeOK, controlVars, OperatorInv, Existing
  <2>3. audit' \in [Runs -> SUBSET (AuditEvents \X (0 .. issued'))]
    <3>1. audit \in [Runs -> SUBSET (AuditEvents \X (0 .. issued))] /\ audit' = audit
      BY <1>1, <1>6 DEF TypeInv, TypeOK
    <3>2. 0 .. issued \subseteq 0 .. issued'
      BY <1>1, <1>3
    <3> QED BY <3>1, <3>2
  <2>4. (\A q \in Runs : LeaseOk(lease[q]))'
    BY <1>8
  <2> QED BY <1>8, <1>11, <2>1, <2>2, <2>3, <2>4, AllTypes
<1>13. ASSUME NEW v \in Workers, v # w
       PROVE  exec'[v] = exec[v] /\ exec[v].token \in Nat /\ exec[v].token <= issued
  BY <1>1, <1>11, <1>13, ExecType DEF Executors, RecordOk
<1>14. TokenInv'
  <2>1. \A q \in Runs : lease'[q].lease_token <= issued'
    <3>1. \A q \in Runs : lease[q].lease_token \in Nat
      BY <1>3, LeaseFields
    <3> QED BY <1>1, <1>3, <1>4, <1>7, <1>8, <3>1 DEF TokenInv
  <2>2. ASSUME NEW v \in Workers, exec'[v].pc \in Engaged
        PROVE  /\ exec'[v].token # NoToken
               /\ lease'[exec'[v].run].lease_token = exec'[v].token =>
                      lease'[exec'[v].run].owner_id = v
    <3>1. CASE v = w
      BY <1>3, <1>4, <1>7, <1>9, <1>11, <3>1 DEF NoToken
    <3>2. CASE v # w
      <4>1. exec[v].run \in Runs
        BY <1>1, <1>13, <2>2, <3>2, ExecType DEF Executors
      <4>2. CASE exec[v].run = r
        <5>1. lease'[r].lease_token # exec'[v].token
          BY <1>3, <1>4, <1>7, <1>13, <3>2 DEF n
        <5> QED BY <1>1, <1>13, <2>2, <3>2, <4>2, <5>1 DEF TokenInv
      <4>3. CASE exec[v].run # r
        BY <1>1, <1>8, <1>13, <2>2, <3>2, <4>1, <4>3 DEF TokenInv
      <4> QED BY <4>2, <4>3
    <3> QED BY <3>1, <3>2
  <2> QED BY <2>1, <2>2 DEF TokenInv
<1>15. ASSUME NEW q \in Runs PROVE Cardinality(Claims(q))' <= lease'[q].attempt_count
  <2>1. /\ IsFiniteSet(Claims(q)) /\ Cardinality(Claims(q)) \in Nat
        /\ lease[q].attempt_count \in Nat /\ Cardinality(Claims(q)) <= lease[q].attempt_count
    BY <1>1, <1>3, ClaimsFinite, FS_CardinalityType, LeaseFields, Constants DEF ClaimInv
  <2>2. ASSUME NEW t, t \in Claims(q)', t \notin Claims(q) PROVE t = n /\ q = r
    <3>1. CASE <<"run_claimed", t>> \in audit'[q]
      <4>1. <<"run_claimed", t>> \in AuditEvents \X (0 .. issued)
        BY <1>1, <1>6, <3>1 DEF TypeInv, TypeOK
      <4> QED BY <1>6, <2>2, <3>1, <4>1 DEF Claims
    <3>2. CASE \E v \in Workers :
                   exec'[v].pc = "claimed" /\ exec'[v].run = q /\ exec'[v].token = t
      <4>1. PICK v \in Workers :
                exec'[v].pc = "claimed" /\ exec'[v].run = q /\ exec'[v].token = t
        BY <3>2
      <4>2. CASE v = w
        BY <1>9, <1>11, <4>1, <4>2
      <4>3. CASE v # w
        <5>1. t \in 0 .. issued
          BY <1>3, <1>13, <4>1, <4>3
        <5> QED BY <1>13, <2>2, <4>1, <4>3, <5>1 DEF Claims
      <4> QED BY <4>2, <4>3
    <3> QED BY <2>2, <3>1, <3>2 DEF Claims
  <2>3. CASE q = r
    <3>1. Claims(q)' \subseteq Claims(q) \cup {n}
      BY <2>2
    <3>2. Cardinality(Claims(q)') <= Cardinality(Claims(q)) + 1 /\ Cardinality(Claims(q)') \in Nat
      BY <2>1, <3>1, OneMore
    <3>3. lease'[q].attempt_count = lease[q].attempt_count + 1
      BY <1>4, <1>7, <2>3
    <3> QED BY <2>1, <3>2, <3>3
  <2>4. CASE q # r
    <3>1. Claims(q)' \subseteq Claims(q)
      BY <2>2, <2>4
    <3>2. Cardinality(Claims(q)') <= Cardinality(Claims(q)) /\ Cardinality(Claims(q)') \in Nat
      BY <2>1, <3>1, FS_Subset, FS_CardinalityType
    <3>3. lease'[q].attempt_count = lease[q].attempt_count
      BY <1>8, <2>4
    <3> QED BY <2>1, <3>2, <3>3
  <2> QED BY <2>3, <2>4
<1>16. LeakInv'
  <2>1. ASSUME NEW q \in Runs, Orphaned(q)' PROVE Orphaned(q)
    <3>1. q # r
      BY <1>4, <1>7, <1>9, <1>11, <2>1 DEF Orphaned
    <3>2. \A v \in Workers : exec[v].pc \in Engaged => exec'[v] = exec[v]
      BY <1>1, <1>13, EngagedPcs
    <3> QED BY <1>8, <2>1, <3>1, <3>2 DEF Orphaned, Engaged
  <2>2. {q \in Runs : Orphaned(q)}' \subseteq {q \in Runs : Orphaned(q)}
    BY <2>1
  <2>3. /\ Cardinality({q \in Runs : Orphaned(q)}') <= Cardinality({q \in Runs : Orphaned(q)})
        /\ Cardinality({q \in Runs : Orphaned(q)}') \in Nat
        /\ Cardinality({q \in Runs : Orphaned(q)}) \in Nat
    <3>1. IsFiniteSet({q \in Runs : Orphaned(q)})
      BY RunsFinite, FS_Subset
    <3> QED BY <2>2, <3>1, FS_Subset, FS_CardinalityType
  <2>4. /\ crashes \in Nat /\ crashes' = crashes
        /\ Cardinality({q \in Runs : Orphaned(q)}) <= crashes
    BY <1>1, <1>6, Constants DEF LeakInv, NoLeaseLeak, TypeInv, TypeOK
  <2>5. Cardinality({q \in Runs : Orphaned(q)}') <= crashes'
    BY <2>3, <2>4
  <2> QED BY <2>5 DEF LeakInv, NoLeaseLeak
<1> QED BY <1>12, <1>14, <1>15, <1>16 DEF IInv, ClaimInv
-----------------------------------------------------------------------------
(***************************************************************************)
(* Operators and submitters.                                               *)
(***************************************************************************)
Targets == {"paused", "running", "cancelled"}

LEMMA ControlKeeps ==
    ASSUME IInv, UNCHANGED workerVars, ControlTypeOK', Existing \subseteq Existing',
           \A o \in Operators : op'[o].pc # "idle" => op'[o].run \in Existing'
    PROVE  IInv'
<1>1. TypeInv /\ TokenInv /\ ClaimInv /\ LeakInv
  BY DEF IInv
<1>2. UNCHANGED <<lease, issued, audit, exec, askable, crashes, approvals>>
  BY DEF workerVars
<1>3. TypeInv'
  <2>1. lease' \in [Runs -> RunLease] /\ (\A r \in Runs : LeaseOk(lease[r]))'
    BY <1>1, <1>2, LeasesType DEF TypeInv, TypeOK
  <2>2. issued' = Cardinality(Attempts)'
    BY <1>1, <1>2 DEF TypeInv, Attempts
  <2>3. /\ audit' \in [Runs -> SUBSET (AuditEvents \X (0 .. issued'))]
        /\ exec' \in [Executors -> ExecRecord]
        /\ crashes' \in 0 .. MaxCrashes /\ approvals' \in 0 .. MaxApprovals
    BY <1>1, <1>2 DEF TypeInv, TypeOK
  <2>4. ExecInv'
    BY <1>1, <1>2 DEF TypeInv, ExecInv, RecordOk
  <2>5. OperatorInv'
    BY <1>1, <1>2 DEF TypeInv, OperatorInv
  <2> QED BY <2>1, <2>2, <2>3, <2>4, <2>5, AllTypes
<1>4. TokenInv'
  BY <1>1, <1>2 DEF TokenInv
<1>5. ClaimInv'
  BY <1>1, <1>2 DEF ClaimInv, Claims
<1>6. LeakInv'
  BY <1>1, <1>2 DEF LeakInv, NoLeaseLeak, Orphaned
<1> QED BY <1>3, <1>4, <1>5, <1>6 DEF IInv

LEMMA ControlFacts ==
    ASSUME TypeInv
    PROVE  /\ status \in [Runs -> TaskRunStatus \cup {Absent}]
           /\ op \in [Operators -> Request] /\ controls \in 0 .. MaxControls
           /\ \A o \in Operators : op[o].pc # "idle" => op[o].run \in Existing
           /\ Existing \subseteq Runs /\ Absent \notin TaskRunStatus
           /\ NoRequest \in Request /\ NoRequest.pc = "idle"
           /\ \A o \in Operators : op[o].pc # "idle" =>
                  /\ op[o].target \in Targets
                  /\ op[o].expected \in TaskRunStatus \cup {"none"}
                  /\ status[op[o].run] \in TaskRunStatus
<1>1. /\ status \in [Runs -> TaskRunStatus \cup {Absent}]
      /\ op \in [Operators -> Request] /\ controls \in 0 .. MaxControls
      /\ \A o \in Operators : op[o].pc # "idle" => op[o].run \in Existing
      /\ Existing \subseteq Runs /\ Absent \notin TaskRunStatus
      /\ NoRequest \in Request /\ NoRequest.pc = "idle"
  BY DEF TypeInv, TypeOK, ControlTypeOK, OperatorInv, Existing, Absent, TaskRunStatus,
         NoRequest, Request
<1>2. ASSUME NEW o \in Operators, op[o].pc # "idle"
      PROVE  /\ op[o].target \in Targets
             /\ op[o].expected \in TaskRunStatus \cup {"none"}
  <2>1. op[o] \in Request
    BY <1>1
  <2> QED BY <1>2, <2>1 DEF Request, NoRequest, Targets
<1> QED BY <1>1, <1>2 DEF Existing

\* Submit and fork create a run.
LEMMA CreateKeeps ==
    ASSUME IInv, NEW n \in Runs, IsNextRun(n), status' = [status EXCEPT ![n] = "created"],
           UNCHANGED <<op, controls>>, UNCHANGED workerVars
    PROVE  IInv'
<1>1. TypeInv
  BY DEF IInv
<1>2. "created" \in TaskRunStatus
  BY DEF TaskRunStatus
<1>3. ControlTypeOK' /\ Existing \subseteq Existing'
  BY <1>1, <1>2, ControlFacts DEF ControlTypeOK, Existing
<1>4. \A o \in Operators : op'[o].pc # "idle" => op'[o].run \in Existing'
  BY <1>1, <1>3, ControlFacts
<1> QED BY <1>3, <1>4, ControlKeeps

\* An operator goes on with another request and no run changes its status.
LEMMA RequestKeeps ==
    ASSUME IInv, NEW o \in Operators, NEW q \in Request, op' = [op EXCEPT ![o] = q],
           q.pc # "idle" => q.run \in Existing,
           controls' \in 0 .. MaxControls, status' = status, UNCHANGED workerVars
    PROVE  IInv'
<1>1. TypeInv
  BY DEF IInv
<1>2. ControlTypeOK' /\ Existing \subseteq Existing'
  BY <1>1, ControlFacts DEF ControlTypeOK, Existing
<1>3. \A p \in Operators : op'[p].pc # "idle" => op'[p].run \in Existing'
  BY <1>1, <1>2, ControlFacts
<1> QED BY <1>2, <1>3, ControlKeeps

LEMMA BeginKeeps ==
    ASSUME IInv, NEW o \in Operators, NEW r \in Runs, NEW target \in Targets,
           Begin(o, r, target), UNCHANGED workerVars
    PROVE  IInv'
<1> DEFINE q == [pc |-> "checked", run |-> r, target |-> target, expected |-> "none"]
<1>1. TypeInv
  BY DEF IInv
<1>2. q \in Request /\ q.run = r
  BY DEF Request, Targets
<1>3. r \in Existing /\ controls' \in 0 .. MaxControls
  BY <1>1, ControlFacts, Constants DEF Begin
<1>4. op' = [op EXCEPT ![o] = q] /\ status' = status
  BY DEF Begin
<1> HIDE DEF q
<1> QED BY <1>2, <1>3, <1>4, RequestKeeps

LEMMA RequestType ==
    ASSUME NEW x \in Request, x.pc # "idle", NEW pc \in {"swap", "retry"},
           NEW expected \in TaskRunStatus
    PROVE  LET q == [x EXCEPT !.pc = pc, !.expected = expected]
           IN  q \in Request /\ q.run = x.run
<1> DEFINE Asked == [pc : {"checked", "swap", "retry"}, run : Runs,
                     target : {"paused", "running", "cancelled"},
                     expected : TaskRunStatus \cup {"none"}]
           q == [x EXCEPT !.pc = pc, !.expected = expected]
<1>1. x \in Asked
  BY DEF Request, NoRequest
<1>2. q \in Asked /\ q.run = x.run
  BY <1>1
<1> QED BY <1>2 DEF Request

LEMMA ReadCurrentKeeps ==
    ASSUME IInv, NEW o \in Operators, ReadCurrent(o), UNCHANGED workerVars
    PROVE  IInv'
<1> DEFINE q == [op[o] EXCEPT !.pc = "swap", !.expected = status[op[o].run]]
<1>1. TypeInv
  BY DEF IInv
<1>2. op[o] \in Request /\ op[o].pc = "checked" /\ op[o].run \in Existing
      /\ status[op[o].run] \in TaskRunStatus
  BY <1>1, ControlFacts DEF ReadCurrent
<1>3. q \in Request /\ q.run = op[o].run
  BY <1>2, RequestType
<1>4. op' = [op EXCEPT ![o] = q] /\ status' = status /\ controls' \in 0 .. MaxControls
  BY <1>1, ControlFacts DEF ReadCurrent
<1> HIDE DEF q
<1> QED BY <1>2, <1>3, <1>4, RequestKeeps

LEMMA SwapLostKeeps ==
    ASSUME IInv, NEW o \in Operators, SwapLost(o), UNCHANGED workerVars
    PROVE  IInv'
<1> DEFINE q == [op[o] EXCEPT !.pc = "retry", !.expected = status[op[o].run]]
<1>1. TypeInv
  BY DEF IInv
<1>2. op[o] \in Request /\ op[o].pc = "swap" /\ op[o].run \in Existing
      /\ status[op[o].run] \in TaskRunStatus
  BY <1>1, ControlFacts DEF SwapLost
<1>3. q \in Request /\ q.run = op[o].run
  BY <1>2, RequestType
<1>4. /\ op' = [op EXCEPT ![o] = q] \/ op' = [op EXCEPT ![o] = NoRequest]
      /\ status' = status /\ controls' \in 0 .. MaxControls
  BY <1>1, ControlFacts DEF SwapLost
<1> HIDE DEF q
<1> QED BY <1>1, <1>2, <1>3, <1>4, RequestKeeps, ControlFacts

LEMMA RetryLostKeeps ==
    ASSUME IInv, NEW o \in Operators, RetryLost(o), UNCHANGED workerVars
    PROVE  IInv'
<1>1. TypeInv
  BY DEF IInv
<1>2. op' = [op EXCEPT ![o] = NoRequest] /\ status' = status /\ controls' \in 0 .. MaxControls
  BY <1>1, ControlFacts DEF RetryLost
<1> QED BY <1>1, <1>2, RequestKeeps, ControlFacts

LEMMA SwappedKeeps ==
    ASSUME IInv, NEW o \in Operators, op[o].pc # "idle", Swapped(o), UNCHANGED workerVars
    PROVE  IInv'
<1>1. TypeInv
  BY DEF IInv
<1>2. op[o].run \in Existing /\ op[o].run \in Runs /\ op[o].target \in TaskRunStatus
  BY <1>1, ControlFacts DEF Targets, TaskRunStatus
<1>3. /\ status' = [status EXCEPT ![op[o].run] = op[o].target]
      /\ op' = [op EXCEPT ![o] = NoRequest] /\ controls' = controls
  BY DEF Swapped
<1>4. ControlTypeOK' /\ Existing \subseteq Existing'
  BY <1>1, <1>2, <1>3, ControlFacts DEF ControlTypeOK, Existing
<1>5. \A p \in Operators : op'[p].pc # "idle" => op'[p].run \in Existing'
  BY <1>1, <1>3, <1>4, ControlFacts
<1> QED BY <1>4, <1>5, ControlKeeps

LEMMA ControlStepKeeps ==
    ASSUME IInv, NEW o \in Operators, ControlStep(o), UNCHANGED workerVars
    PROVE  IInv'
<1>1. ASSUME NEW r \in Runs, NEW t \in Targets, Begin(o, r, t) PROVE IInv'
  BY <1>1, BeginKeeps
<1>2. ASSUME NEW r \in Runs, NEW n \in Runs, Fork(o, r, n) PROVE IInv'
  BY <1>2, CreateKeeps DEF Fork
<1>3. CASE ReadCurrent(o)
  BY <1>3, ReadCurrentKeeps
<1>4. CASE Finish(o)
  BY <1>4, SwapLostKeeps, RetryLostKeeps, SwappedKeeps DEF Finish, Swap, Retry
<1> QED BY <1>1, <1>2, <1>3, <1>4 DEF ControlStep, Targets
-----------------------------------------------------------------------------
(***************************************************************************)
(* The invariant.                                                          *)
(***************************************************************************)
LEMMA InitKeeps == Init => IInv
<1> SUFFICES ASSUME Init PROVE IInv
  OBVIOUS
<1>1. /\ status = [r \in Runs |-> Absent] /\ op = [o \in Operators |-> NoRequest]
      /\ controls = 0 /\ lease = [r \in Runs |-> NewLease] /\ issued = 0
      /\ audit = [r \in Runs |-> {}] /\ exec = [e \in Executors |-> Idle]
      /\ askable = {} /\ crashes = 0 /\ approvals = 0
  BY DEF Init, ControlInit
<1>2. /\ NewLease \in RunLease /\ NewLease.state = "available" /\ NewLease.owner_id = NoOwner
      /\ NewLease.lease_token = 0 /\ NewLease.expires_in = 0 /\ NewLease.attempt_count = 0
      /\ NewLease.next_attempt_in = 0
  <2>1. 0 \in 0 .. LeaseSeconds /\ 0 \in 0 .. RetryBudget /\ 0 \in 0 .. MaxBackoffSeconds
    BY Constants
  <2> QED BY <2>1 DEF NewLease, RunLease, RunLeaseState, NoToken
<1>3. Idle \in ExecRecord /\ Idle.pc = "idle" /\ Idle.token = 0
  BY IdleType
<1>4. Attempts = {}
  BY <1>1, <1>2, Constants DEF Attempts, Budget
<1>5. issued = Cardinality(Attempts) /\ issued \in 0 .. MaxRuns * RetryBudget
  BY <1>1, <1>4, RunsFinite, FS_EmptySet
<1>6. ControlTypeOK
  BY <1>1, Constants DEF ControlTypeOK, Request
<1>7. /\ lease \in [Runs -> RunLease]
      /\ \A r \in Runs : (lease[r].state = "active") = (lease[r].owner_id # NoOwner)
      /\ \A r \in Runs : (lease[r].state = "active") = (lease[r].lease_token # NoToken)
      /\ LeaseInv
  BY <1>1, <1>2 DEF NoToken, LeaseInv
<1>8. ExecInv /\ OperatorInv /\ exec \in [Executors -> ExecRecord]
  BY <1>1, <1>3, EngagedPcs DEF ExecInv, RecordOk, OperatorInv, NoRequest
<1>9. TypeOK
  BY <1>1, <1>5, <1>6, <1>7, <1>8, Constants DEF TypeOK
<1>10. TokenInv
  BY <1>1, <1>2, <1>3, EngagedPcs DEF TokenInv, Executors
<1>11. ClaimInv
  <2>1. ASSUME NEW r \in Runs PROVE Claims(r) = {}
    BY <1>1, <1>3 DEF Claims, Executors
  <2> QED BY <1>1, <1>2, <2>1, FS_EmptySet DEF ClaimInv
<1>12. LeakInv
  <2>1. {r \in Runs : Orphaned(r)} = {}
    BY <1>1, <1>2 DEF Orphaned
  <2> QED BY <1>1, <2>1, FS_EmptySet DEF LeakInv, NoLeaseLeak
<1> QED BY <1>5, <1>7, <1>8, <1>9, <1>10, <1>11, <1>12 DEF IInv, TypeInv

LEMMA StutterKeeps == ASSUME IInv, UNCHANGED vars PROVE IInv'
<1>1. /\ UNCHANGED workerVars /\ status' = status /\ op' = op /\ controls' = controls
  BY DEF vars, controlVars
<1>2. ControlTypeOK' /\ Existing \subseteq Existing'
      /\ \A o \in Operators : op'[o].pc # "idle" => op'[o].run \in Existing'
  BY <1>1, ControlFacts DEF IInv, ControlTypeOK, Existing
<1> QED BY <1>1, <1>2, ControlKeeps

LEMMA NextKeeps == ASSUME IInv, [Next]_vars PROVE IInv'
<1>1. TypeInv
  BY DEF IInv
<1>2. ASSUME NEW w \in Workers, WorkerStep(w) PROVE IInv'
  <2> w \in Executors
    BY DEF Executors
  <2>1. CASE \/ Poll(w) \/ \E r \in Runs : PollRun(w, r)
    BY <1>1, <2>1, PollQuiet, QuietKeeps
  <2>2. CASE ClaimStep(w)
    BY <2>2, ClaimRefusedKeeps, ClaimGrantedKeeps DEF ClaimStep
  <2>3. CASE \/ Refused(w) \/ RecordClaim(w) \/ Dispatch(w) \/ StartRefused(w) \/ Report(w)
    BY <1>1, <2>3, RefusedQuiet, RecordClaimQuiet, DispatchQuiet, StartRefusedQuiet,
       ReportQuiet, QuietKeeps
  <2>4. CASE ReleaseStep(w)
    BY <2>4, ReleaseLeaseKeeps, LeaseLostKeeps DEF ReleaseStep
  <2> QED BY <1>2, <2>1, <2>2, <2>3, <2>4 DEF WorkerStep
<1>3. ASSUME NEW w \in Workers, Renew(w) \/ StopBeating(w) PROVE IInv'
  BY <1>1, <1>3, RenewKeeps, StopBeatingQuiet, QuietKeeps DEF Executors
<1>4. ASSUME NEW e \in Executors, Execute(e) \/ Crash(e) PROVE IInv'
  BY <1>1, <1>4, ExecuteQuiet, QuietKeeps, CrashKeeps
<1>5. ASSUME NEW r \in Runs, Approve(r) PROVE IInv'
  BY <1>1, <1>5, ApproveQuiet, QuietKeeps DEF Executors
<1>6. ASSUME NEW r \in Runs, Submit(r), UNCHANGED workerVars PROVE IInv'
  BY <1>6, CreateKeeps DEF Submit
<1>7. ASSUME NEW o \in Operators, ControlStep(o), UNCHANGED workerVars PROVE IInv'
  BY <1>7, ControlStepKeeps
<1>8. CASE Tick
  BY <1>8, TickKeeps
<1>9. CASE UNCHANGED vars
  BY <1>9, StutterKeeps
<1>10. CASE Next
  BY <1>2, <1>3, <1>4, <1>5, <1>6, <1>7, <1>8, <1>10 DEF Next
<1> QED BY <1>9, <1>10

LEMMA Invariance == Spec => []IInv
<1>1. IInv /\ [Next]_vars => IInv'
  BY NextKeeps
<1> QED BY InitKeeps, <1>1, PTL DEF Spec
\* The actions that change a lease.
LEMMA LeaseActions ==
    ASSUME TypeInv, [Next]_vars
    PROVE  \/ lease' = lease
           \/ \E w \in Workers :
                  ClaimRefused(w) \/ ClaimGranted(w) \/ Renew(w) \/ ReleaseLease(w)
           \/ Tick
<1>1. ASSUME NEW w \in Workers, WorkerStep(w)
      PROVE  lease' = lease \/ ClaimRefused(w) \/ ClaimGranted(w) \/ ReleaseLease(w)
  BY <1>1 DEF WorkerStep, Poll, PollRun, StartScan, ClaimStep, Refused, RefusedDeadLetter,
              RefusedNext, RecordClaim, Dispatch, StartRefused, ReleaseStep, LeaseLost, Report
<1>2. ASSUME NEW w \in Workers, StopBeating(w) PROVE lease' = lease
  BY <1>2 DEF StopBeating
<1>3. ASSUME NEW e \in Executors, Execute(e) \/ Crash(e) PROVE lease' = lease
  BY <1>3 DEF Execute, Start, CooperativeStop, EndWith, Raise, Return, Crash
<1>4. ASSUME NEW r \in Runs, Approve(r) PROVE lease' = lease
  BY <1>4 DEF Approve
<1>5. CASE UNCHANGED workerVars
  BY <1>5 DEF workerVars
<1>6. CASE UNCHANGED vars
  BY <1>6 DEF vars, workerVars
<1> QED BY <1>1, <1>2, <1>3, <1>4, <1>5, <1>6 DEF Next

\* Which leases a step changes, and what it takes to change one.
LEMMA LeaseChange ==
    ASSUME TypeInv, [Next]_vars, NEW r \in Runs
    PROVE  \/ lease'[r] = lease[r]
           \/ lease[r].state # "dead_letter" /\ ~ ActiveAt(lease[r])
           \/ /\ lease[r].state # "dead_letter"
              /\ lease'[r].lease_token = lease[r].lease_token
           \/ /\ lease[r].state # "dead_letter"
              /\ \E w \in Workers : /\ exec[w].pc = "release" /\ exec[w].run = r
                                    /\ exec[w].token = lease[r].lease_token
<1>1. lease \in [Runs -> RunLease] /\ \A q \in Runs : LeaseOk(lease[q])
  BY LeasesType DEF TypeInv, TypeOK
<1>2. ASSUME NEW w \in Workers, ClaimRefused(w), lease'[r] # lease[r]
      PROVE  lease[r].state # "dead_letter" /\ ~ ActiveAt(lease[r])
  <2>1. r = Head(exec[w].queue) /\ ClaimableAt(lease[r])
    BY <1>1, <1>2 DEF ClaimRefused
  <2> QED BY <2>1 DEF ClaimableAt, ActiveAt
<1>3. ASSUME NEW w \in Workers, ClaimGranted(w), lease'[r] # lease[r]
      PROVE  lease[r].state # "dead_letter" /\ ~ ActiveAt(lease[r])
  <2>1. r = Head(exec[w].queue) /\ ClaimableAt(lease[r])
    BY <1>1, <1>3 DEF ClaimGranted
  <2> QED BY <2>1 DEF ClaimableAt, ActiveAt
<1>4. ASSUME NEW w \in Workers, Renew(w), lease'[r] # lease[r]
      PROVE  lease[r].state # "dead_letter" /\ lease'[r].lease_token = lease[r].lease_token
  <2>1. /\ r = exec[w].run /\ lease[r].state = "active"
        /\ lease'[r] = Heartbeat(lease[r])
    BY <1>1, <1>4 DEF Renew, Renewable, RequireOwner
  <2> QED BY <1>1, <2>1, HeartbeatType
<1>5. ASSUME NEW w \in Workers, ReleaseLease(w), lease'[r] # lease[r]
      PROVE  /\ lease[r].state # "dead_letter"
             /\ exec[w].pc = "release" /\ exec[w].run = r
             /\ exec[w].token = lease[r].lease_token
  <2>1. r = exec[w].run
    BY <1>1, <1>5 DEF ReleaseLease
  <2> QED BY <1>5, <2>1 DEF ReleaseLease, RequireOwner
<1>6. CASE Tick
  BY <1>6, TickLeases
<1> QED BY <1>2, <1>3, <1>4, <1>5, <1>6, LeaseActions
-----------------------------------------------------------------------------
(***************************************************************************)
(* The theorems.                                                           *)
(***************************************************************************)

\* Every variable keeps its type, the number of lease tokens drawn is bounded
\* by the retry budget of the runs, and only an active lease has an owner and a
\* token (RunLease.__post_init__ of tasking/worker.py).
THEOREM TypeCorrect == Spec => []TypeOK
<1>1. IInv => TypeOK
  BY DEF IInv, TypeInv
<1> QED BY <1>1, Invariance, PTL

\* A run whose lease is active has a worker behind it that will release it,
\* unless a worker crashed: run_once forgets no lease, whatever the runtime
\* returns or raises and whoever takes the lease over in the meantime.
THEOREM LeasesAreNotLeaked == Spec => []NoLeaseLeak
<1>1. IInv => NoLeaseLeak
  BY DEF IInv, LeakInv
<1> QED BY <1>1, Invariance, PTL

\* The claims the events of a run tell of are never more than the attempts its
\* lease has counted, and so never more than the retry budget.
THEOREM AttemptsCoverClaims == Spec => []ClaimsWithinBudget
<1>1. ASSUME IInv PROVE ClaimsWithinBudget
  <2>1. ASSUME NEW r \in Runs
        PROVE  Cardinality({a \in audit[r] : a[1] = "run_claimed"}) <= lease[r].attempt_count
    <3> DEFINE told == {a \in audit[r] : a[1] = "run_claimed"}
               f == [a \in told |-> a[2]]
    <3>1. TypeInv /\ audit[r] \subseteq AuditEvents \X (0 .. issued)
      BY <1>1 DEF IInv, TypeInv, TypeOK
    <3>2. \A a \in told : a = <<"run_claimed", a[2]>> /\ a[2] \in 0 .. issued
      BY <3>1
    <3>3. \A a \in told : a[2] \in Claims(r)
      BY <3>2 DEF Claims
    <3>4. f \in Injection(told, Claims(r))
      <4>1. f \in [told -> Claims(r)]
        BY <3>3
      <4>2. \A a, b \in told : f[a] = f[b] => a = b
        BY <3>2
      <4> QED BY <4>1, <4>2, Fun_IsInj
    <3>5. IsFiniteSet(Claims(r)) /\ Cardinality(Claims(r)) \in Nat
      BY <3>1, ClaimsFinite, FS_CardinalityType
    <3> HIDE DEF told, f
    <3>6. Cardinality(told) <= Cardinality(Claims(r)) /\ Cardinality(told) \in Nat
      BY <3>4, <3>5, FS_Injection, FS_CardinalityType
    <3>7. Cardinality(Claims(r)) <= lease[r].attempt_count /\ lease[r].attempt_count \in Nat
      BY <1>1, LeaseFields, Constants DEF IInv, ClaimInv, TypeInv, TypeOK
    <3>8. Cardinality(told) <= lease[r].attempt_count
      BY <3>5, <3>6, <3>7
    <3> QED BY <3>8 DEF told
  <2> QED BY <2>1 DEF ClaimsWithinBudget
<1> QED BY <1>1, Invariance, PTL

\* An active lease is changed only by the worker that drew its token, or after
\* it has expired: a worker that outlived its lease cannot touch the lease of
\* its successor.
THEOREM LeasesAreFenced == Spec => FencedLease
<1>1. ASSUME IInv, [Next]_vars
      PROVE  [\A r \in Runs :
                 lease[r].state = "active" /\ lease'[r].lease_token # lease[r].lease_token
                 => \/ ~ ActiveAt(lease[r])
                    \/ \E w \in Workers :
                          /\ exec[w].pc = "release" /\ exec[w].run = r
                          /\ exec[w].token = lease[r].lease_token]_vars
  BY <1>1, LeaseChange DEF IInv
<1> QED BY <1>1, Invariance, PTL DEF Spec, FencedLease

\* Nothing touches a dead letter: not a claim, not an operator who resumes the
\* run, not an approval that sets it running.
THEOREM DeadLettersStay == Spec => DeadLetterIsFinal
<1>1. ASSUME IInv, [Next]_vars
      PROVE  [\A r \in Runs : lease[r].state = "dead_letter" => lease'[r] = lease[r]]_vars
  <2>1. ASSUME NEW r \in Runs, lease[r].state = "dead_letter" PROVE lease'[r] = lease[r]
    BY <1>1, <2>1, LeaseChange DEF IInv
  <2> QED BY <2>1
<1> QED BY <1>1, Invariance, PTL DEF Spec, DeadLetterIsFinal
-----------------------------------------------------------------------------
(***************************************************************************)
(* Cancelling, with at most one operator.                                  *)
(***************************************************************************)
OneOperator == \A o, q \in Operators : o = q

\* An operator under way found its run not cancelled, and nobody else cancels.
CancelInv == \A o \in Operators : op[o].pc # "idle" => status[op[o].run] # "cancelled"

\* The status of no run becomes, or stops being, cancelled.
Yields ==
    /\ op' = op
    /\ \A r \in Runs : (status'[r] = "cancelled") = (status[r] = "cancelled")

LEMMA SetStatusYields ==
    ASSUME TypeInv, NEW r, NEW target \in TaskRunStatus \ {"cancelled"}, SetStatus(r, target)
    PROVE  Yields
<1>1. status \in [Runs -> TaskRunStatus \cup {Absent}] /\ op' = op
      /\ status' = [status EXCEPT ![r] = RuntimeStatus(status[r], target)]
  BY DEF TypeInv, TypeOK, ControlTypeOK, SetStatus
<1>2. ASSUME NEW q \in Runs PROVE (status'[q] = "cancelled") = (status[q] = "cancelled")
  BY <1>1 DEF RuntimeStatus, OperatorStop
<1> QED BY <1>1, <1>2 DEF Yields

LEMMA ExecutorYields ==
    ASSUME TypeInv, NEW e \in Executors,
           \/ Execute(e) \/ Crash(e)
           \/ e \in Workers /\ (WorkerStep(e) \/ Renew(e) \/ StopBeating(e))
    PROVE  Yields
<1>1. {"running", "waiting_user"} \cup EndTargets \subseteq TaskRunStatus \ {"cancelled"}
  BY DEF EndTargets, TaskRunStatus
<1>2. CASE Start(e)
  BY <1>1, <1>2, SetStatusYields DEF Start
<1>3. CASE \E t \in EndTargets : EndWith(e, t)
  BY <1>1, <1>3, SetStatusYields DEF EndWith
<1>4. CASE StartRefused(e)
  <2>1. CASE SetStatus(exec[e].run, "waiting_user")
    BY <1>1, <2>1, SetStatusYields
  <2>2. CASE UNCHANGED controlVars
    BY <2>2 DEF controlVars, Yields
  <2> QED BY <1>4, <2>1, <2>2 DEF StartRefused
<1>5. CASE CooperativeStop(e) \/ Raise(e) \/ Return(e) \/ Crash(e) \/ Renew(e) \/ StopBeating(e)
  BY <1>5 DEF CooperativeStop, Raise, Return, Crash, Renew, StopBeating, controlVars, Yields
<1>6. CASE \/ Poll(e) \/ \E r \in Runs : PollRun(e, r)
           \/ ClaimStep(e) \/ Refused(e) \/ RecordClaim(e)
  BY <1>6 DEF Poll, PollRun, StartScan, ClaimStep, ClaimRefused, ClaimGranted, Refused,
              RefusedDeadLetter, RefusedNext, RecordClaim, controlVars, Yields
<1>7. CASE Dispatch(e) \/ ReleaseStep(e) \/ Report(e)
  BY <1>7 DEF Dispatch, ReleaseStep, ReleaseLease, LeaseLost, Report, controlVars, Yields
<1> QED BY <1>2, <1>3, <1>4, <1>5, <1>6, <1>7 DEF Execute, WorkerStep

LEMMA CreateYields ==
    ASSUME TypeInv, NEW n \in Runs, IsNextRun(n), status' = [status EXCEPT ![n] = "created"],
           op' = op
    PROVE  Yields
<1>1. status \in [Runs -> TaskRunStatus \cup {Absent}] /\ status[n] # "cancelled"
  BY DEF TypeInv, TypeOK, ControlTypeOK, IsNextRun, Absent
<1> QED BY <1>1 DEF Yields

\* A step of the only operator.
LEMMA OperatorCancels ==
    ASSUME OneOperator, TypeInv, CancelInv, NEW o \in Operators, ControlStep(o)
    PROVE  CancelInv' /\ \A r \in Runs : status[r] = "cancelled" => status'[r] = "cancelled"
<1>1. /\ status \in [Runs -> TaskRunStatus \cup {Absent}] /\ op \in [Operators -> Request]
      /\ NoRequest.pc = "idle"
  BY ControlFacts
<1>2. \A q \in Operators : q = o
  BY DEF OneOperator
<1>3. ASSUME NEW r \in Runs, NEW t \in Targets, Begin(o, r, t)
      PROVE  CancelInv' /\ status' = status
  <2>1. op'[o].run = r /\ status[r] \in Allowed(t) /\ status' = status
    BY <1>1, <1>3 DEF Begin
  <2>2. status[r] # "cancelled"
    BY <2>1 DEF Allowed, Terminal, Targets
  <2> QED BY <1>2, <2>1, <2>2 DEF CancelInv
<1>4. ASSUME NEW r \in Runs, NEW n \in Runs, Fork(o, r, n)
      PROVE  CancelInv' /\ \A q \in Runs : status[q] = "cancelled" => status'[q] = "cancelled"
  <2>1. Yields
    BY <1>4, CreateYields DEF Fork
  <2>2. \A q \in Operators : op[q].pc # "idle" => op[q].run \in Runs
    BY ControlFacts
  <2> QED BY <2>1, <2>2 DEF Yields, CancelInv
<1>5. CASE ReadCurrent(o)
  <2>1. op'[o].run = op[o].run /\ op[o].pc # "idle" /\ status' = status
    BY <1>1, <1>5 DEF ReadCurrent
  <2> QED BY <1>2, <2>1 DEF CancelInv
<1>6. CASE SwapLost(o)
  <2>1. /\ status' = status /\ op[o].pc # "idle"
        /\ op'[o] = NoRequest \/ op'[o].run = op[o].run
    BY <1>1, <1>6 DEF SwapLost
  <2> QED BY <1>1, <1>2, <2>1 DEF CancelInv
<1>7. CASE RetryLost(o)
  <2>1. status' = status /\ op'[o] = NoRequest
    BY <1>1, <1>7 DEF RetryLost
  <2> QED BY <1>1, <1>2, <2>1 DEF CancelInv
<1>8. CASE Swap(o) \/ Retry(o)
  <2>1. /\ op[o].pc # "idle" /\ op'[o] = NoRequest
        /\ status' = [status EXCEPT ![op[o].run] = op[o].target]
    BY <1>1, <1>8 DEF Swap, Retry, Swapped
  <2>2. status[op[o].run] # "cancelled"
    BY <2>1 DEF CancelInv
  <2>3. op'[o].pc = "idle"
    BY <1>1, <2>1
  <2>4. CancelInv'
    BY <1>2, <2>3 DEF CancelInv
  <2>5. ASSUME NEW r \in Runs, status[r] = "cancelled" PROVE status'[r] = "cancelled"
    <3>1. r # op[o].run
      BY <2>2, <2>5
    <3> QED BY <1>1, <2>1, <2>5, <3>1
  <2> QED BY <2>4, <2>5
<1>9. CASE \E r \in Runs, t \in Targets : Begin(o, r, t)
  <2>1. CancelInv' /\ status' = status
    BY <1>3, <1>9
  <2> QED BY <2>1
<1>10. CASE \E r, n \in Runs : Fork(o, r, n)
  BY <1>4, <1>10
<1>11. CASE Finish(o)
  BY <1>6, <1>7, <1>8, <1>11 DEF Finish
<1> QED BY <1>5, <1>9, <1>10, <1>11 DEF ControlStep, Targets

LEMMA NextCancels ==
    ASSUME OneOperator, TypeInv, CancelInv, [Next]_vars
    PROVE  CancelInv' /\ \A r \in Runs : status[r] = "cancelled" => status'[r] = "cancelled"
<1>1. CASE Yields
  <2>1. \A o \in Operators : op[o].pc # "idle" => op[o].run \in Runs
    BY ControlFacts
  <2> QED BY <1>1, <2>1 DEF Yields, CancelInv
<1>2. ASSUME NEW o \in Operators, ControlStep(o)
      PROVE  CancelInv' /\ \A r \in Runs : status[r] = "cancelled" => status'[r] = "cancelled"
  BY <1>2, OperatorCancels
<1>3. ASSUME NEW w \in Workers, WorkerStep(w) \/ Renew(w) \/ StopBeating(w) PROVE Yields
  BY <1>3, ExecutorYields DEF Executors
<1>4. ASSUME NEW e \in Executors, Execute(e) \/ Crash(e) PROVE Yields
  BY <1>4, ExecutorYields
<1>5. ASSUME NEW r \in Runs, Submit(r) PROVE Yields
  BY <1>5, CreateYields DEF Submit
<1>6. Tick \/ (\E r \in Runs : Approve(r)) => Yields
  BY DEF Tick, Approve, controlVars, Yields
<1>7. UNCHANGED vars => Yields
  BY DEF vars, controlVars, Yields
<1> QED BY <1>1, <1>2, <1>3, <1>4, <1>5, <1>6, <1>7 DEF Next

\* With one operator at a time a cancelled run stays cancelled, whatever the
\* workers, their runtimes and the approver still do to it.
THEOREM CancellationIsFinal ==
    ASSUME OneOperator
    PROVE  Spec => CancelledIsFinal
<1>1. Init => CancelInv
  BY DEF Init, ControlInit, CancelInv, NoRequest
<1>2. ASSUME IInv, CancelInv, [Next]_vars PROVE CancelInv'
  BY <1>2, NextCancels DEF IInv
<1>3. ASSUME IInv, CancelInv, [Next]_vars
      PROVE  [\A r \in Runs : status[r] = "cancelled" => status'[r] = "cancelled"]_controlVars
  BY <1>3, NextCancels DEF IInv
<1> QED BY <1>1, <1>2, <1>3, Invariance, PTL DEF Spec, CancelledIsFinal
=============================================================================
