------------------------------ MODULE RunLease ------------------------------
(***************************************************************************)
(* The lease of one run (tasking/worker.py) as a value, and the methods    *)
(* that compute the next lease.  A store applies them inside one           *)
(* transaction; DurableWorker says when.                                   *)
(*                                                                         *)
(* Every time stamp of the code is compared with `now' and with nothing    *)
(* else, so a lease carries the time LEFT until expires_at and until       *)
(* next_attempt_at, cut off at 0: `expires_at > now' is `expires_in > 0'.  *)
(* acquired_at, heartbeat_at, last_error, release_reason, metadata and the *)
(* version (a per-lease change counter nothing branches on) are left out.  *)
(***************************************************************************)
EXTENDS Naturals

CONSTANTS
    Workers,            \* worker identities
    LeaseSeconds,       \* life of a claim or of a heartbeat
    RetryBudget,        \* claims a run may use up, ever
    BaseBackoffSeconds, \* delay after the first failed attempt
    MaxBackoffSeconds,  \* cap of the delay
    NoOwner             \* owner_id of a lease nobody holds

ASSUME LeaseAssumption ==
    /\ LeaseSeconds \in Nat \ {0}
    /\ RetryBudget \in Nat \ {0}
    /\ BaseBackoffSeconds \in Nat \ {0}
    /\ MaxBackoffSeconds \in Nat \ {0}
    /\ NoOwner \notin Workers

RunLeaseState == {"available", "active", "backoff", "released", "dead_letter"}

NoToken == 0            \* tokens are numbered in the order uuid4 draws them

RunLease ==
    [state           : RunLeaseState,
     owner_id        : Workers \cup {NoOwner},
     lease_token     : Nat,
     expires_in      : 0 .. LeaseSeconds,
     attempt_count   : 0 .. RetryBudget,
     next_attempt_in : 0 .. MaxBackoffSeconds]

\* The lease of a run no worker has claimed yet.
NewLease ==
    [state |-> "available", owner_id |-> NoOwner, lease_token |-> NoToken,
     expires_in |-> 0, attempt_count |-> 0, next_attempt_in |-> 0]

ActiveAt(l) == l.state = "active" /\ l.expires_in > 0

\* Mutants: a dead letter can be claimed; an active lease is never reclaimed.
ClaimableAt_DeadLetter(l) ==
    /\ l.state = "active"  => ~ ActiveAt(l)
    /\ l.state = "backoff" => l.next_attempt_in = 0

ClaimableAt_NoReclaim(l) ==
    /\ l.state \notin {"dead_letter", "active"}
    /\ l.state = "backoff" => l.next_attempt_in = 0

ClaimableAt(l) ==
    /\ l.state # "dead_letter"
    /\ l.state = "active"  => ~ ActiveAt(l)
    /\ l.state = "backoff" => l.next_attempt_in = 0

\* Mutant: a release is not checked against the token.
RequireOwner_AnyToken(l, w, token) == l.state = "active"

RequireOwner(l, w, token) ==
    l.state = "active" /\ l.owner_id = w /\ l.lease_token = token

\* Mutant: only a claim after a backoff counts as an attempt.
Claim_ReclaimIsFree(l, w, token) ==
    [l EXCEPT !.state = "active", !.owner_id = w, !.lease_token = token,
              !.expires_in = LeaseSeconds, !.next_attempt_in = 0,
              !.attempt_count = IF l.state = "active" THEN @ ELSE @ + 1]

Claim(l, w, token) ==
    [l EXCEPT !.state = "active", !.owner_id = w, !.lease_token = token,
              !.expires_in = LeaseSeconds, !.next_attempt_in = 0,
              !.attempt_count = @ + 1]

Heartbeat(l) == [l EXCEPT !.expires_in = LeaseSeconds]

\* Mutant: the owner of a released lease is kept.
Inactive_KeepsOwner(l, state, delay) ==
    [l EXCEPT !.state = state, !.lease_token = NoToken,
              !.expires_in = 0, !.next_attempt_in = delay]

Inactive(l, state, delay) ==
    [l EXCEPT !.state = state, !.owner_id = NoOwner, !.lease_token = NoToken,
              !.expires_in = 0, !.next_attempt_in = delay]

Release(l, state, delay) == Inactive(l, state, delay)

DeadLetter(l) == Inactive(l, "dead_letter", 0)

\* min(max_backoff, base_backoff * 2 ** (attempt_count - 1))
BackoffDelay(attempt) ==
    LET delay == BaseBackoffSeconds * 2 ^ (attempt - 1)
    IN  IF delay \in 0 .. MaxBackoffSeconds THEN delay ELSE MaxBackoffSeconds

\* Mutant: a retry is never due.
Age_BackoffForever(l) ==
    [l EXCEPT !.expires_in = IF @ > 0 THEN @ - 1 ELSE 0,
              !.next_attempt_in = @]

\* One unit of time for one lease.
Age(l) ==
    [l EXCEPT !.expires_in = IF @ > 0 THEN @ - 1 ELSE 0,
              !.next_attempt_in = IF @ > 0 THEN @ - 1 ELSE 0]
=============================================================================
