--------------------------- MODULE MCAgentSession ---------------------------
(* An instance of AgentSession for TLC: two processes, a session that fills   *)
(* its raw retention, two requests that ask to remember something, providers  *)
(* that report none, some or all of a reply's usage.                          *)
EXTENDS AgentSession

MCProcess == [r \in Requests |-> IF r = "b1" THEN "B" ELSE "A"]
MCGoals == [r \in Requests |->
    IF r = "a2" THEN {[mode |-> "auto", fact |-> NoFact], [mode |-> "chat", fact |-> EmptyFact]}
    ELSE {[mode |-> "chat", fact |-> "tea"]}]
MCCost == [r \in Requests |-> IF r = "a1" THEN 2 ELSE 1]
MCPromptSize == [p \in Phases |-> IF p = "planner" THEN 2 ELSE 1]
MCReplies == [input : {-1, 3, 4}, output : {-1, 1, 3}, total : {-1, 3, 6}, out : {0, 2, 3}]
=============================================================================
