----------------------------- MODULE AgentTools -----------------------------
(***************************************************************************)
(* The tools of a host as build_application_runtime (app/bootstrap.py)     *)
(* registers them, in several processes on one workspace and one managed   *)
(* skill directory: a process starts, registers its tools, makes one call  *)
(* at a time through ToolRegistry.execute and may die at any moment.       *)
(* The user edits and deletes files; MCP servers die by themselves.        *)
(*                                                                         *)
(* Bounds: MaxCalls calls of all processes, MaxEdits edits and MaxFaults   *)
(* deaths of a process or a server.                                        *)
(***************************************************************************)
EXTENDS Workspace, SkillStore, McpClient

CONSTANTS
    InitialFiles,   \* what the workspace may hold at first
    Calls,          \* what a plan or a user may ask a tool to do
    Builtins,       \* the built-in tools
    McpSchemas,     \* input schemas an MCP server may declare for its tool
    MaxCalls, MaxEdits, MaxFaults

ASSUME AgentToolsAssumption ==
    /\ InitialFiles \subseteq [Files -> Contents \ {Torn}]
    /\ \A tool \in Builtins : Registrable(tool) /\ tool.name # "mcp"
    /\ {MaxCalls, MaxEdits, MaxFaults} \subseteq Nat
    /\ \A call \in Calls :
        /\ call.tool \in {"read_file", "write_file"} => call.file \in Files \cup Unsafe
        /\ call.tool = "write_file" => call.text \in Texts
        /\ call.tool = "install_skill" => call.pkg \in Packages \cup {Outside}

VARIABLES
    tools,          \* process -> what is registered; nothing before it has started
    calls, edits, faults

bounds == <<calls, edits, faults>>
vars == <<outcome, workspaceVars, skillVars, mcpVars, tools, bounds>>

\* create_mcp_tools: one proxy, confirm-tier and never retry-safe.
McpTool(schema) ==
    [name |-> "mcp", permission |-> "confirm", readOnly |-> FALSE, sideEffects |-> TRUE,
     outboxRequired |-> TRUE, schema |-> schema]

Init ==
    /\ outcome = [p \in Processes |-> NoOutcome]
    /\ files \in InitialFiles
    /\ marks = [p \in Processes |-> NoMarks]
    /\ writing = [p \in Processes |-> NoWrite]
    /\ SkillsInit /\ McpInit
    /\ tools = [p \in Processes |-> IF p \in HasMcp THEN {} ELSE Builtins]
    /\ calls = 0 /\ edits = 0 /\ faults = 0

OthersKept == UNCHANGED <<tools, bounds>>
OnlyMcp == UNCHANGED <<workspaceVars, skillVars>>

Serving(p) == tools[p] # {}

----------------------------------------------------------------------------
(* build_application_runtime with an MCP configuration *)

Registers(p) ==
    /\ p \in HasMcp /\ client[p] = "open" /\ ~Serving(p)
    /\ \E schema \in McpSchemas :
        IF RegistrationFails(McpTool(schema))
        THEN McpCloses(p) /\ UNCHANGED tools
        ELSE /\ tools' = [tools EXCEPT ![p] = Builtins \cup {McpTool(schema)}]
             /\ UNCHANGED mcpVars
    /\ OnlyMcp /\ UNCHANGED <<outcome, bounds>>

\* ApplicationRuntimeContainer.close; nothing else of the process is in use.
ServiceCloses(p) ==
    /\ p \in HasMcp /\ Serving(p) /\ (Idle(p) \/ asked[p] # NoCall)
    /\ McpCloses(p)
    /\ OnlyMcp /\ OthersKept /\ UNCHANGED outcome

\* The thread that makes the tool calls is not inside start or close.
Free(p) == Serving(p) /\ (p \in HasMcp => client[p] \in {"open", "closed"})

----------------------------------------------------------------------------
(* ToolRegistry.execute *)

Intents(call) ==
    IF call.tool = "write_file" THEN WriteIntents(call.file, call.text)
    ELSE IF call.tool = "mcp" THEN {call.target}
    ELSE IF call.tool = "read_file" THEN {}
    ELSE IF /\ ValidSkillId(call.target)
            /\ call.tool = "install_skill" => ValidReference(call.pkg)
            /\ call.tool = "install_github_skill" => ValidSource(call.source)
         THEN {call.target} ELSE {NoPlan}

Rejects(p) ==
    /\ Free(p) /\ Idle(p) /\ calls < MaxCalls /\ calls' = calls + 1
    /\ \E call \in Calls, interactive, trusted \in BOOLEAN :
        LET result == Prepared(tools[p], call, interactive, trusted, Intents(call)) IN
        result # Ready /\ Returns(p, result)
    /\ UNCHANGED <<workspaceVars, skillVars, mcpVars, tools, edits, faults>>

Accepted(p, call) == Prepared(tools[p], call, TRUE, TRUE, Intents(call)) = Ready

Executes(p) ==
    /\ Free(p) /\ calls < MaxCalls /\ calls' = calls + 1
    /\ \E call \in Calls :
        /\ Accepted(p, call)
        /\ \/ /\ \/ call.tool = "read_file" /\ ReadFile(p, call.file)
                 \/ call.tool = "write_file" /\ WriteFile(p, call.file, call.text)
              /\ UNCHANGED <<skillVars, mcpVars>>
           \/ /\ \/ call.tool = "install_skill" /\ InstallSkill(p, call.target, call.pkg)
                 \/ /\ call.tool = "install_github_skill"
                    /\ InstallGitHubSkill(p, call.target, call.source)
              /\ UNCHANGED <<workspaceVars, mcpVars>>
           \/ /\ call.tool = "mcp" /\ CallMcp(p, call.target)
              /\ UNCHANGED <<workspaceVars, skillVars>>
    /\ UNCHANGED <<tools, edits, faults>>

----------------------------------------------------------------------------
(* The rest of a call *)

Writes(p) ==
    /\ WriteEmpties(p) \/ WriteFills(p) \/ WriteFails(p)
    /\ UNCHANGED <<skillVars, mcpVars>> /\ OthersKept

Installs(p) ==
    /\ \/ StageLands(p) \/ StageFails(p)
       \/ Downloads(p) \/ DownloadFails(p) \/ Previews(p) \/ StagesPreviewed(p)
       \/ RecordLoads(p) \/ RecordReplaces(p) \/ RecordFails(p)
    /\ UNCHANGED <<workspaceVars, mcpVars>> /\ OthersKept

\* Steps of the client that its own timeouts or its owner bring about.
McpGoesOn(p) ==
    /\ p \in HasMcp
    /\ \/ McpStarts(p) \/ OpenUndone(p) \/ StartTimesOut(p) \/ CloseAll(p) \/ LoopStops(p)
       \/ \E s \in ServerIds :
            ServerSpawns(p, s) \/ ServerConnects(p, s) \/ ServerRefuses(p, s)
       \/ CallFails(p) \/ CallTimesOut(p)
    /\ OnlyMcp /\ OthersKept

Answers(p) ==
    /\ p \in HasMcp /\ ServerAnswers(p)
    /\ OnlyMcp /\ OthersKept

----------------------------------------------------------------------------
(* The environment *)

Edits ==
    /\ edits < MaxEdits /\ edits' = edits + 1
    /\ \E f \in Files, text \in Texts \cup {Absent} : EditFile(f, text)
    /\ UNCHANGED <<skillVars, mcpVars, tools, calls, faults>>

ServerFails ==
    /\ faults < MaxFaults /\ faults' = faults + 1
    /\ \E p \in HasMcp, s \in ServerIds : ServerDies(p, s)
    /\ OnlyMcp /\ UNCHANGED <<tools, calls, edits>>

\* The process dies and the host starts it again.
Restarts(p) ==
    /\ faults < MaxFaults /\ faults' = faults + 1
    /\ outcome' = [outcome EXCEPT ![p] = NoOutcome]
    /\ tools' = [tools EXCEPT ![p] = IF p \in HasMcp THEN {} ELSE Builtins]
    /\ WorkspaceRestarts(p) /\ SkillsRestart(p)
    /\ IF p \in HasMcp THEN McpRestarts(p) ELSE UNCHANGED mcpVars
    /\ UNCHANGED <<calls, edits>>

Next ==
    \/ \E p \in Processes :
        \/ Registers(p) \/ ServiceCloses(p) \/ Rejects(p) \/ Executes(p)
        \/ Writes(p) \/ Installs(p) \/ McpGoesOn(p) \/ Answers(p) \/ Restarts(p)
    \/ Edits \/ ServerFails

Spec == Init /\ [][Next]_vars

\* The loop thread runs and every wait of the client has a timeout.
FairSpec == Spec /\ \A p \in Processes : WF_vars(McpGoesOn(p)) /\ WF_vars(Registers(p))

----------------------------------------------------------------------------
(* Properties *)

\* Every component's state has its type and a process is in one call at a time.
TypeOK ==
    /\ outcome \in [Processes -> Outcomes \cup {NoOutcome, Running, Cancelled}]
    /\ WorkspaceTypeOK /\ SkillTypeOK /\ McpTypeOK
    /\ \A p \in Processes :
        ~Idle(p) => 1 = Cardinality(
            {part \in {"write", "install", "mcp"} :
                \/ part = "write" /\ writing[p] # NoWrite
                \/ part = "install" /\ installing[p] # NoInstall
                \/ part = "mcp" /\ p \in HasMcp /\ asked[p] # NoCall})

\* An installed skill is scanned, is never replaced, and an entry of
\* skills.lock.json describes what is installed under its id, whatever two
\* processes install at once and wherever they die (installer.py:125, lock.py:95).
\* An entry may be lost to another process's record, never be wrong.
SkillsArePinned ==
    [][\A id \in Ids :
        /\ installed[id] # NoPackage => installed'[id] = installed[id]
        /\ installed'[id] # NoPackage => installed'[id].verdict # "dangerous"
        /\ lock'[id] # NoEntry => lock'[id].digest = installed'[id]]_vars

\* Eventually no call waits for a server, no client is half open or half closed,
\* and one that is not open owns no subprocess (client.py:194, 222).
McpSettles ==
    <>[](\A p \in HasMcp :
            /\ asked[p] = NoCall
            /\ client[p] \in {"open", "closed"}
            /\ client[p] = "closed" => server[p] = NoServer)
=============================================================================
