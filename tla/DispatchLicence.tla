-------------------------- MODULE DispatchLicence --------------------------
(***************************************************************************)
(* What the outbox promises of effects that must not be repeated: an       *)
(* effect is dispatched on a licence.  Each comes with one, a ruling that  *)
(* the last dispatch failed grants another, a dispatch uses one up, and    *)
(* the world applies an effect at most once for each licence used.         *)
(***************************************************************************)
EXTENDS Naturals

CONSTANT Effects

VARIABLES
    granted,    \* effect -> licences granted
    used,       \* effect -> licences used by a dispatch
    applied     \* effect -> how often the world has applied it

vars == <<granted, used, applied>>

Init ==
    /\ granted = [i \in Effects |-> 1]
    /\ used = [i \in Effects |-> 0]
    /\ applied = [i \in Effects |-> 0]

Dispatch(i) ==
    /\ used[i] < granted[i]
    /\ used' = [used EXCEPT ![i] = @ + 1]
    /\ UNCHANGED <<granted, applied>>

\* One call may apply several effects.
Apply(S) ==
    /\ \A i \in S : applied[i] < used[i]
    /\ applied' = [i \in Effects |-> IF i \in S THEN applied[i] + 1 ELSE applied[i]]
    /\ UNCHANGED <<granted, used>>

\* Only a used licence is replaced: rulings do not pile up.
Grant(i) ==
    /\ used[i] = granted[i]
    /\ granted' = [granted EXCEPT ![i] = @ + 1]
    /\ UNCHANGED <<used, applied>>

Next ==
    \/ \E i \in Effects : Dispatch(i) \/ Grant(i)
    \/ \E S \in SUBSET Effects : Apply(S)

Spec == Init /\ [][Next]_vars
=============================================================================
