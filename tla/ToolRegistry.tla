---------------------------- MODULE ToolRegistry ----------------------------
(***************************************************************************)
(* ToolRegistry (tools/registry.py): which tools may be registered, what   *)
(* the arguments of a call must look like (tools/schema_validation.py),    *)
(* who may call it (tools/permission.py) and what prepare makes of a call. *)
(* Arguments are known by the JSON kinds of their properties, one level    *)
(* deep as in every schema of the built-in tools; a value that "enum",     *)
(* "minimum" or "maximum" excludes is a value of no JSON kind.             *)
(***************************************************************************)
EXTENDS Naturals, FiniteSets

CONSTANTS
    Processes,      \* processes of the host that share the workspace and the skills
    HasMcp          \* those that own an MCP client

ASSUME ProcessAssumption == IsFiniteSet(Processes) /\ HasMcp \subseteq Processes

VARIABLE outcome    \* process -> what its last tool call returned, or Running

JsonKinds == {"string", "integer", "number", "boolean", "null", "array", "object"}

\* What the runtime is told to do next (tools/metadata.py); a success needs
\* no advice.
Outcomes == {"success", "retry", "ask_user", "read_before_write", "stop", "manual_review"}

NoOutcome == "none"     \* the process has made no call
Running == "running"    \* its call has not returned

Idle(p) == outcome[p] # Running

CallBegins(p) == Idle(p) /\ outcome' = [outcome EXCEPT ![p] = Running]

Returns(p, result) == outcome' = [outcome EXCEPT ![p] = result]

----------------------------------------------------------------------------
(* Registration *)

\* _check_schema: known keywords only, and JSON types that exist.
SchemaDefined(schema) ==
    /\ schema.known
    /\ \A name \in DOMAIN schema.properties : schema.properties[name] \in JsonKinds

Registrable(tool) ==
    /\ tool.permission # "deny"
    /\ tool.sideEffects = tool.outboxRequired
    /\ ~(tool.outboxRequired /\ tool.readOnly)
    /\ SchemaDefined(tool.schema)

\* register raises and the host does not start; a denied tool is passed over.
RegistrationFails(tool) == tool.permission # "deny" /\ ~Registrable(tool)

----------------------------------------------------------------------------
(* validate_tool_arguments: nothing is coerced, an integer is a number. *)

MatchesType(kind, type) == kind = type \/ (kind = "integer" /\ type = "number")

ValidArguments(args, schema) ==
    /\ schema.required \subseteq DOMAIN args
    /\ \A name \in DOMAIN args :
          IF name \in DOMAIN schema.properties
          THEN MatchesType(args[name], schema.properties[name])
          ELSE schema.additional

----------------------------------------------------------------------------
(* PermissionPolicy.decide_tool_call.  Only known tools get this far with a *)
(* permission; every built-in tool leaves is_action_read_only to readOnly.  *)

Allowed(tool, trusted) == tool.permission = "safe" \/ tool.readOnly \/ trusted

Decision(tool, interactive, trusted) ==
    IF Allowed(tool, trusted) THEN "allow"
    ELSE IF interactive THEN "confirm" ELSE "deny"

----------------------------------------------------------------------------
(* prepare: the first check that fails decides.  intents are the targets   *)
(* plan_side_effects declares, or {NoPlan} when it raises.                 *)

NoPlan == "raises"
Ready == "ready"

Prepared(tools, call, interactive, trusted, intents) ==
    LET named == {tool \in tools : tool.name = call.tool}
        tool == CHOOSE t \in named : TRUE
        decision == Decision(tool, interactive, trusted)
    IN  IF named = {} THEN "stop"
        ELSE IF ~ValidArguments(call.args, tool.schema) THEN "retry"
        ELSE IF decision = "deny" THEN "stop"
        ELSE IF decision = "confirm" THEN "ask_user"
        ELSE IF NoPlan \in intents THEN "retry"
        ELSE IF tool.outboxRequired /\ intents = {} THEN "manual_review"
        ELSE Ready
=============================================================================
