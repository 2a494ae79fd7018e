---------------------------- MODULE PlanProgress ----------------------------
(***************************************************************************)
(* What the execution of a plan promises, whatever retries, answers,       *)
(* crashes and takeovers it consists of: steps are done one after another, *)
(* each after the steps it depends on; what is done is done again only if  *)
(* an answer names it; and the run is accepted only when everything is     *)
(* done.  HarnessRun implements it.                                        *)
(***************************************************************************)
CONSTANTS PlanSteps, DependsOn

VARIABLES
    done,       \* steps that count as done
    seen,       \* steps that have been done at some time
    named,      \* steps an answer has executed, once more if they were done
    accepted

pvars == <<done, seen, named, accepted>>

Init == done = {} /\ seen = {} /\ named = {} /\ accepted = FALSE

Do(s) ==
    /\ s \notin done /\ DependsOn[s] \subseteq seen
    /\ done' = done \cup {s} /\ seen' = seen \cup {s}
    /\ UNCHANGED <<named, accepted>>

\* An answer sets an accepted run going again.
Name(s) == named' = {s} /\ accepted' = FALSE /\ UNCHANGED <<done, seen>>
Drop == named' = {} /\ UNCHANGED <<done, seen, accepted>>

Redo(s) ==
    /\ s \in done \cap named /\ ~accepted
    /\ done' = done \ {s}
    /\ UNCHANGED <<seen, named, accepted>>

Accept == done = PlanSteps /\ accepted' = TRUE /\ UNCHANGED <<done, seen, named>>
Reopen == accepted /\ accepted' = FALSE /\ UNCHANGED <<done, seen, named>>

Next ==
    \/ (\E s \in PlanSteps : Do(s) \/ Name(s) \/ Redo(s))
    \/ Drop \/ Accept \/ Reopen

Spec == Init /\ [][Next]_pvars
=============================================================================
