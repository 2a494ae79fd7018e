----------------------------- MODULE AgentReply -----------------------------
(***************************************************************************)
(* One request through GeneralAgent._run_once once its context is ready:   *)
(* router, planner, runtime and response model, as the set of results it   *)
(* can end with.  Model calls are the environment: a provider may fail or  *)
(* reply with any content and any usage numbers of Replies;                *)
(* complete_with_budget (model/budget.py) decides which replies pass.      *)
(* A content is the kind of text that came back; parsing maps it to what   *)
(* the parser makes of it.                                                 *)
(***************************************************************************)
EXTENDS Integers, FiniteSets

CONSTANTS
    Replies,            \* what a provider may report of a reply, see Reply
    MaxInput, MaxOutput, MaxTotal,  \* the ModelCallBudget of every phase
    PromptSize,         \* phase -> estimated tokens of its prompt
    RepairSize,         \* what a rejected plan adds to the planner's prompt
    MaxRepairs,         \* JsonPlanPlanner's max_repair_attempts
    HasRouter, HasModel, AllowAutoTasks

Phases == {"router", "planner", "chat", "response", "compaction"}

\* -1 is a number the provider does not report; out is the estimate of the
\* text itself.
Unreported == -1
Reply == [input : Nat \cup {Unreported}, output : Nat \cup {Unreported},
          total : Nat \cup {Unreported}, out : Nat]

ASSUME ReplyAssumption ==
    /\ IsFiniteSet(Replies) /\ Replies \subseteq Reply
    /\ {MaxInput, MaxOutput, MaxTotal} \subseteq Nat \ {0}
    /\ PromptSize \in [Phases -> Nat \ {0}] /\ RepairSize \in Nat
    /\ MaxRepairs \in 0 .. 2
    /\ {HasRouter, HasModel, AllowAutoTasks} \subseteq BOOLEAN

----------------------------------------------------------------------------
(* Model calls under a budget. *)

Smaller(a, b) == IF a < b THEN a ELSE b

OutputCap(size) == Smaller(MaxOutput, MaxTotal - size)

Sendable(size) == size <= MaxInput /\ OutputCap(size) > 0

\* The total of a reply: reported, or the sum of what is reported.
TotalOf(u) ==
    IF u.total # Unreported THEN u.total
    ELSE IF u.input = Unreported /\ u.output = Unreported THEN Unreported
    ELSE (IF u.input = Unreported THEN 0 ELSE u.input)
       + (IF u.output = Unreported THEN 0 ELSE u.output)

\* Mutant: an output the provider does not count goes through unestimated.
WithinBudget_Reported(size, u) ==
    /\ u.input <= MaxInput
    /\ u.output <= OutputCap(size)
    /\ TotalOf(u) <= MaxTotal

WithinBudget(size, u) ==
    /\ u.input <= MaxInput
    /\ u.output <= OutputCap(size)
    /\ TotalOf(u) <= MaxTotal
    /\ u.output = Unreported => u.out <= OutputCap(size)

\* The answers of a phase that reach its caller; a call may always raise.
Admitted(size) == {u \in Replies : Sendable(size) /\ WithinBudget(size, u)}

Answers(size) == Admitted(size) # {}

\* Tokens of an admitted reply, estimated where the provider says nothing.
Charge(size, u) ==
    IF u.total # Unreported THEN u.total
    ELSE (IF u.input = Unreported THEN size ELSE u.input)
       + (IF u.output = Unreported THEN u.out ELSE u.output)

\* The admitted replies that cost more than the total.
Overspends(size) == {u \in Admitted(size) : Charge(size, u) > MaxTotal}

----------------------------------------------------------------------------
(* Intent routing (agent/intent.py). *)

Reasons == [chat |-> {"direct_answer"},
            task |-> {"external_read", "external_write", "external_message",
                      "capability_action", "external_action"},
            clarify |-> {"missing_target", "missing_details"}]

IntentReplies ==
    {[route |-> "garbage", reason |-> "none", question |-> FALSE]} \cup
    [route : DOMAIN Reasons, reason : {"direct_answer", "external_write",
                                       "missing_target"}, question : BOOLEAN]

\* parse_intent_decision: the route of a decision that holds together.
ParseIntent(d) ==
    IF /\ d.route \in DOMAIN Reasons
       /\ d.reason \in Reasons[d.route]
       /\ d.question = (d.route = "clarify")
    THEN d.route ELSE "invalid"

Routes ==
    IF HasRouter /\ Answers(PromptSize["router"])
    THEN {ParseIntent(d) : d \in IntentReplies} \ {"invalid"}
    ELSE {}

----------------------------------------------------------------------------
(* Planning (agent/json_planner.py): a plan is what is wrong with it. *)

ParseFlaws == {"not_json", "acceptance_facts", "no_contract", "bad_criterion",
               "grants_confirmation", "bad_step", "bad_dependencies"}

HostFlaws == {"too_many_steps", "unknown_tool", "bad_arguments",
              "missing_evidence", "repeated_action"}

PlanFlaws(plan) == plan \cap (ParseFlaws \cup HostFlaws)

\* The prompt of attempt n carries the plan that was rejected before it.
PlanPrompt(n) == PromptSize["planner"] + (IF n = 0 THEN 0 ELSE RepairSize)

Plans == {{}} \cup {{flaw} : flaw \in ParseFlaws \cup HostFlaws}

\* A plan comes of attempt n when every earlier attempt was answered by a plan
\* that was rejected; the attempts are not many enough to raise otherwise.
Planned ==
    \E n \in 0 .. MaxRepairs :
        /\ \A k \in 0 .. n : Answers(PlanPrompt(k))
        /\ \E plans \in [0 .. n -> Plans] :
              /\ PlanFlaws(plans[n]) = {}
              /\ \A k \in 0 .. n - 1 : PlanFlaws(plans[k]) # {}

----------------------------------------------------------------------------
(* What HarnessRuntime.run returns, and GeneralAgent makes of it. *)

\* The runtime says accepted only of a run it then reads back as COMPLETED; a
\* run somebody else completed comes back completed and not accepted.
RunResults ==
    {x \in [accepted : BOOLEAN,
            status : {"completed", "stopped"}] :    \* stopped: any other
        x.accepted => x.status = "completed"}

Verified(x) == x.accepted /\ x.status = "completed"

\* How a request ends: its mode, and the replies with which one of its phases
\* could spend more than its total.
Result(mode, over) == [mode |-> mode, over |-> over]
Raised == Result("raised", {})
Plain(mode) == Result(mode, {})

Chat ==
    {Raised} \cup (IF HasModel /\ Answers(PromptSize["chat"])
                   THEN {Result("chat", Overspends(PromptSize["chat"]))}
                   ELSE {})

\* The response model is asked only about a verified run; when it fails or says
\* nothing the runtime's own text is the answer.
Presented(x) ==
    Result("task", (UNION {Overspends(PlanPrompt(n)) : n \in 0 .. MaxRepairs})
                   \cup (IF HasModel /\ Verified(x) THEN Overspends(PromptSize["response"])
                         ELSE {}))

Task == {Raised} \cup (IF Planned THEN {Presented(x) : x \in RunResults} ELSE {})

Routed ==
    {Raised} \cup UNION
        {CASE route = "clarify" -> {Plain("clarify")}
           [] route = "chat" -> Chat
           [] OTHER -> IF AllowAutoTasks THEN Task ELSE {Plain("task")} :
         route \in Routes}

\* GeneralAgent._run_once after an uncaptured goal.
RunOnce(mode) ==
    CASE mode = "auto" -> Routed [] mode = "chat" -> Chat [] OTHER -> Task
=============================================================================
