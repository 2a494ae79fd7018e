-------------------------- MODULE AgentToolsProofs --------------------------
(***************************************************************************)
(* Proofs about AgentTools for every number of processes, files, packages  *)
(* and servers.                                                            *)
(*                                                                         *)
(* TypeInv is TypeOK with what it needs to be inductive: what each stage   *)
(* of a write and of an install holds, that a stopped client has no        *)
(* connections, and that a process whose call runs is in one component     *)
(* only.  PinInv carries what SkillsArePinned says from one step of an     *)
(* install to the next.                                                    *)
(***************************************************************************)
EXTENDS AgentTools, FiniteSetTheorems, TLAPS

\* The call of a process is in a component.
InWrite(p) == writing[p] # NoWrite
InInstall(p) == installing[p] # NoInstall
InMcp(p) == p \in HasMcp /\ asked[p] # NoCall

OneCall(p) ==
    /\ InWrite(p) \/ InInstall(p) \/ InMcp(p) <=> ~Idle(p)
    /\ ~(InWrite(p) /\ InInstall(p))
    /\ ~(InWrite(p) /\ InMcp(p))
    /\ ~(InInstall(p) /\ InMcp(p))

CallInv ==
    /\ outcome \in [Processes -> Outcomes \cup {NoOutcome, Running, Cancelled}]
    /\ \A p \in Processes : OneCall(p)

Write == [at : {"checked", "emptied"}, file : Files, text : Texts \ Long]

FileInv ==
    /\ files \in [Files -> Contents]
    /\ marks \in [Processes -> [Files -> Texts \cup {Torn, NoMark}]]
    /\ writing \in [Processes -> Write \cup {NoWrite}]

Resolving == [at : {"resolving"}, id : Ids, source : Sources]
Fetched ==
    [at : {"downloaded", "previewed", "staged", "recording"}, id : Ids, source : Sources,
     commit : DOMAIN PackageAt, pkg : Packages]
StagedLocal == [at : {"staged"}, id : Ids, pkg : Packages, source : {Local}]
Replacing ==
    [at : {"replacing"}, id : Ids, entries : [Ids -> Entry \cup {NoEntry}], entry : Entry]

Install == Resolving \cup Fetched \cup StagedLocal \cup Replacing

StoreInv ==
    /\ installed \in [Ids -> Packages \cup {NoPackage}]
    /\ lock \in [Ids -> Entry \cup {NoEntry}]
    /\ installing \in [Processes -> Install \cup {NoInstall}]

ServerInv ==
    /\ client \in [HasMcp -> Phases]
    /\ server \in [HasMcp -> [ServerIds -> {"off", "starting", "up", "dead"}]]
    /\ connections \in [HasMcp -> SUBSET ServerIds]
    /\ asked \in [HasMcp -> ServerIds \cup {NoCall}]
    /\ \A p \in HasMcp :
        /\ \A s \in connections[p] : server[p][s] \in {"up", "dead"}
        /\ client[p] \in {"new", "stopping", "closed"} => connections[p] = {}

\* Only the owner of a client has a tool that calls it.
ToolInv ==
    /\ DOMAIN tools = Processes
    /\ \A p \in Processes \ HasMcp : tools[p] = Builtins

TypeInv == CallInv /\ FileInv /\ StoreInv /\ ServerInv /\ ToolInv
-----------------------------------------------------------------------------
(***************************************************************************)
(* What an accepted call is about.                                         *)
(***************************************************************************)

\* An accepted call has passed plan_side_effects.
LEMMA AcceptedIsPlanned ==
    ASSUME NEW p, NEW call, Accepted(p, call)
    PROVE  NoPlan \notin Intents(call)
  BY DEF Accepted, Prepared, Ready, NoPlan

LEMMA McpCallerHasClient ==
    ASSUME ToolInv, NEW p \in Processes, NEW call, Accepted(p, call), call.tool = "mcp"
    PROVE  p \in HasMcp
  BY AgentToolsAssumption DEF ToolInv, Accepted, Prepared, Ready

\* A file of an accepted write is in the workspace and its text fits.
LEMMA WriteIsInside ==
    ASSUME FileInv, NEW p, NEW call \in Calls, Accepted(p, call), call.tool = "write_file"
    PROVE  call.file \in Files /\ call.text \in Texts \ Long /\ files[call.file] # Folder
  <1>1. NoPlan \notin WriteIntents(call.file, call.text)
    BY AcceptedIsPlanned DEF Intents
  <1> QED
    BY <1>1, AgentToolsAssumption DEF WriteIntents, Escapes, NoPlan

\* The package of an accepted local install is one that can be read.
LEMMA LocalIsReadable ==
    ASSUME NEW p, NEW call \in Calls, Accepted(p, call), call.tool = "install_skill"
    PROVE  call.target \in Ids /\ call.pkg \in Packages
  <1>1. NoPlan \notin Intents(call)
    BY AcceptedIsPlanned
  <1> QED
    BY <1>1, AgentToolsAssumption DEF Intents, ValidSkillId, ValidReference, NoPlan

LEMMA SourceIsValid ==
    ASSUME NEW p, NEW call \in Calls, Accepted(p, call), call.tool = "install_github_skill"
    PROVE  call.target \in Ids /\ call.source \in Sources
  <1>1. NoPlan \notin Intents(call)
    BY AcceptedIsPlanned
  <1> QED
    BY <1>1 DEF Intents, ValidSkillId, ValidSource, NoPlan
-----------------------------------------------------------------------------
(***************************************************************************)
(* Who touches which component.                                            *)
(***************************************************************************)
Reads(p) == \E call \in Calls : call.tool = "read_file" /\ ReadFile(p, call.file)

Begins(p) ==
    \E call \in Calls :
        Accepted(p, call) /\ call.tool = "write_file" /\ WriteFile(p, call.file, call.text)

OnFiles(p) ==
    Reads(p) \/ Begins(p) \/ WriteEmpties(p) \/ WriteFills(p) \/ WriteFails(p)

InstallsLocal(p) ==
    \E call \in Calls :
        Accepted(p, call) /\ call.tool = "install_skill"
                         /\ InstallSkill(p, call.target, call.pkg)

InstallsGitHub(p) ==
    \E call \in Calls :
        Accepted(p, call) /\ call.tool = "install_github_skill"
                         /\ InstallGitHubSkill(p, call.target, call.source)

OnSkills(p) ==
    \/ InstallsLocal(p) \/ InstallsGitHub(p)
    \/ StageLands(p) \/ StageFails(p)
    \/ Downloads(p) \/ DownloadFails(p) \/ Previews(p) \/ StagesPreviewed(p)
    \/ RecordLoads(p) \/ RecordReplaces(p) \/ RecordFails(p)

\* The client's steps that return or begin no call.
Internal(p) ==
    \/ McpStarts(p) \/ OpenUndone(p) \/ StartTimesOut(p) \/ CloseAll(p)
    \/ McpCloses(p) /\ UNCHANGED outcome
    \/ \E s \in ServerIds :
        ServerSpawns(p, s) \/ ServerConnects(p, s) \/ ServerRefuses(p, s) \/ ServerDies(p, s)

CallsMcp(p) == \E call \in Calls : CallMcp(p, call.target)

Replies(p) == LoopStops(p) \/ CallFails(p) \/ CallTimesOut(p) \/ ServerAnswers(p)

Rejected(p) ==
    Idle(p) /\ \E result \in {"stop", "retry", "ask_user", "manual_review"} : Returns(p, result)

Dies(p) ==
    /\ outcome' = [outcome EXCEPT ![p] = NoOutcome]
    /\ WorkspaceRestarts(p) /\ SkillsRestart(p)
    /\ IF p \in HasMcp THEN McpRestarts(p) ELSE UNCHANGED mcpVars

EditsFile == \E f \in Files, text \in Texts \cup {Absent} : EditFile(f, text)

\* Every step is of one component, of a process that dies or is refused, or of
\* the user; the other components stay as they are.
Quiet == UNCHANGED <<outcome, workspaceVars, skillVars, mcpVars>>

Moved ==
    \/ Quiet
    \/ EditsFile /\ UNCHANGED <<skillVars, mcpVars>>
    \/ \E p \in Processes :
        \/ Dies(p)
        \/ Rejected(p) /\ UNCHANGED <<workspaceVars, skillVars, mcpVars>>
        \/ OnFiles(p) /\ UNCHANGED <<skillVars, mcpVars>>
        \/ OnSkills(p) /\ UNCHANGED <<workspaceVars, mcpVars>>
        \/ /\ p \in HasMcp /\ (Internal(p) \/ Replies(p) \/ CallsMcp(p))
           /\ UNCHANGED <<workspaceVars, skillVars>>

LEMMA RejectionIsKnown ==
    ASSUME NEW registered, NEW call, NEW interactive, NEW trusted, NEW intents
    PROVE  Prepared(registered, call, interactive, trusted, intents)
                \in {"stop", "retry", "ask_user", "manual_review", Ready}
  BY DEF Prepared

LEMMA StepIsLocal ==
    ASSUME ToolInv, [Next]_vars
    PROVE  Moved
  <1>1. CASE UNCHANGED vars
    BY <1>1 DEF vars, Moved, Quiet
  <1>2. CASE Edits
    BY <1>2 DEF Edits, EditsFile, Moved
  <1>3. CASE ServerFails
    <2>1. PICK p \in HasMcp, s \in ServerIds : ServerDies(p, s)
      BY <1>3 DEF ServerFails
    <2> QED
      BY <1>3, <2>1, ProcessAssumption DEF ServerFails, OnlyMcp, Moved, Internal
  <1>4. ASSUME NEW p \in Processes, Registers(p) PROVE Moved
    <2>1. CASE UNCHANGED mcpVars
      BY <1>4, <2>1 DEF Registers, OnlyMcp, Moved, Quiet
    <2>2. CASE McpCloses(p)
      BY <1>4, <2>2 DEF Registers, OnlyMcp, Moved, Internal
    <2> QED
      BY <1>4, <2>1, <2>2 DEF Registers
  <1>5. ASSUME NEW p \in Processes, ServiceCloses(p) PROVE Moved
    BY <1>5 DEF ServiceCloses, OnlyMcp, Moved, Internal
  <1>6. ASSUME NEW p \in Processes, Rejects(p) PROVE Moved
    <2>1. PICK call \in Calls, interactive \in BOOLEAN, trusted \in BOOLEAN :
            LET result == Prepared(tools[p], call, interactive, trusted, Intents(call)) IN
            result # Ready /\ Returns(p, result)
      BY <1>6 DEF Rejects
    <2>2. Rejected(p)
      BY <1>6, <2>1, RejectionIsKnown DEF Rejects, Rejected
    <2> QED
      BY <1>6, <2>2 DEF Rejects, Moved
  <1>7. ASSUME NEW p \in Processes, Executes(p) PROVE Moved
    <2>1. PICK call \in Calls :
            /\ Accepted(p, call)
            /\ \/ /\ \/ call.tool = "read_file" /\ ReadFile(p, call.file)
                     \/ call.tool = "write_file" /\ WriteFile(p, call.file, call.text)
                  /\ UNCHANGED <<skillVars, mcpVars>>
               \/ /\ \/ /\ call.tool = "install_skill"
                        /\ InstallSkill(p, call.target, call.pkg)
                     \/ /\ call.tool = "install_github_skill"
                        /\ InstallGitHubSkill(p, call.target, call.source)
                  /\ UNCHANGED <<workspaceVars, mcpVars>>
               \/ /\ call.tool = "mcp" /\ CallMcp(p, call.target)
                  /\ UNCHANGED <<workspaceVars, skillVars>>
      BY <1>7 DEF Executes
    <2>2. CASE /\ \/ call.tool = "read_file" /\ ReadFile(p, call.file)
                  \/ call.tool = "write_file" /\ WriteFile(p, call.file, call.text)
               /\ UNCHANGED <<skillVars, mcpVars>>
      BY <2>1, <2>2 DEF Moved, OnFiles, Reads, Begins
    <2>3. CASE /\ \/ /\ call.tool = "install_skill"
                     /\ InstallSkill(p, call.target, call.pkg)
                  \/ /\ call.tool = "install_github_skill"
                     /\ InstallGitHubSkill(p, call.target, call.source)
               /\ UNCHANGED <<workspaceVars, mcpVars>>
      BY <2>1, <2>3 DEF Moved, OnSkills, InstallsLocal, InstallsGitHub
    <2>4. CASE /\ call.tool = "mcp" /\ CallMcp(p, call.target)
               /\ UNCHANGED <<workspaceVars, skillVars>>
      BY <2>1, <2>4, McpCallerHasClient DEF Moved, CallsMcp
    <2> QED
      BY <2>1, <2>2, <2>3, <2>4
  <1>8. ASSUME NEW p \in Processes, Writes(p) PROVE Moved
    BY <1>8 DEF Writes, Moved, OnFiles
  <1>9. ASSUME NEW p \in Processes, Installs(p) PROVE Moved
    BY <1>9 DEF Installs, Moved, OnSkills
  <1>10. ASSUME NEW p \in Processes, McpGoesOn(p) PROVE Moved
    <2>1. p \in HasMcp /\ (Internal(p) \/ Replies(p))
      BY <1>10 DEF McpGoesOn, Internal, Replies
    <2> QED
      BY <1>10, <2>1 DEF McpGoesOn, OnlyMcp, Moved
  <1>11. ASSUME NEW p \in Processes, Answers(p) PROVE Moved
    BY <1>11 DEF Answers, OnlyMcp, Moved, Replies
  <1>12. ASSUME NEW p \in Processes, Restarts(p) PROVE Moved
    BY <1>12 DEF Restarts, Dies, Moved
  <1> QED
    BY <1>1, <1>2, <1>3, <1>4, <1>5, <1>6, <1>7, <1>8, <1>9, <1>10, <1>11, <1>12 DEF Next
-----------------------------------------------------------------------------
(***************************************************************************)
(* Types.                                                                  *)
(***************************************************************************)
LEMMA TypeInit == Init => TypeInv
  <1> SUFFICES ASSUME Init PROVE TypeInv
    OBVIOUS
  <1>1. FileInv
    BY AgentToolsAssumption DEF Init, FileInv, NoMarks, Contents
  <1>2. StoreInv
    BY DEF Init, SkillsInit, StoreInv
  <1>3. ServerInv
    BY DEF Init, McpInit, ServerInv, Phases, NoServer
  <1>5. ToolInv
    BY DEF Init, ToolInv
  <1>4. CallInv
    BY DEF Init, SkillsInit, McpInit, CallInv, OneCall, InWrite, InInstall, InMcp, Idle,
           NoOutcome, Running
  <1> QED
    BY <1>1, <1>2, <1>3, <1>4, <1>5 DEF TypeInv

LEMMA ToolStep ==
    ASSUME ToolInv, [Next]_vars
    PROVE  ToolInv'
  <1>1. \/ UNCHANGED tools
        \/ \E p \in Processes : Registers(p) \/ Restarts(p)
    BY DEF Next, vars, Registers, ServiceCloses, Rejects, Executes, Writes, Installs, McpGoesOn,
           Answers, Restarts, Edits, ServerFails, OthersKept
  <1>2. ASSUME NEW p \in Processes, Registers(p) PROVE ToolInv'
    BY <1>2 DEF Registers, ToolInv
  <1>3. ASSUME NEW p \in Processes, Restarts(p) PROVE ToolInv'
    BY <1>3 DEF Restarts, ToolInv
  <1> QED
    BY <1>1, <1>2, <1>3 DEF ToolInv

LEMMA FileStep ==
    ASSUME TypeInv, [Next]_vars
    PROVE  FileInv'
  <1> USE DEF FileInv
  <1>1. FileInv
    BY DEF TypeInv
  <1>2. CASE UNCHANGED workspaceVars
    BY <1>1, <1>2 DEF workspaceVars
  <1>3. CASE EditsFile
    BY <1>1, <1>3 DEF EditsFile, EditFile, Contents
  <1>4. ASSUME NEW p \in Processes, WorkspaceRestarts(p) PROVE FileInv'
    BY <1>1, <1>4 DEF WorkspaceRestarts, NoMarks
  <1>5. ASSUME NEW p \in Processes, OnFiles(p) PROVE FileInv'
    <2>1. CASE Reads(p)
      BY <1>1, <2>1 DEF Reads, ReadFile, Stamp
    <2>2. CASE Begins(p)
      <3>1. PICK call \in Calls : /\ Accepted(p, call)
                                  /\ call.tool = "write_file"
                                  /\ WriteFile(p, call.file, call.text)
        BY <2>2 DEF Begins
      <3>2. call.file \in Files /\ call.text \in Texts \ Long
        BY <1>1, <3>1, WriteIsInside
      <3>3. [at |-> "checked", file |-> call.file, text |-> call.text] \in Write
        BY <1>1, <3>2 DEF Write
      <3> QED
        BY <1>1, <3>1, <3>3 DEF WriteFile
    <2>3. ASSUME writing[p] # NoWrite PROVE writing[p] \in Write
      BY <1>1, <2>3
    <2>4. CASE WriteEmpties(p)
      <3>1. writing[p] \in Write
        BY <2>3, <2>4 DEF WriteEmpties, NoWrite
      <3>2. [writing[p] EXCEPT !.at = "emptied"] \in Write
        BY <3>1 DEF Write
      <3>3. writing' \in [Processes -> Write \cup {NoWrite}]
        BY <1>1, <2>4, <3>2 DEF WriteEmpties
      <3> QED
        BY <1>1, <2>4, <3>1, <3>3 DEF WriteEmpties, Write, Contents
    <2>5. CASE WriteFills(p)
      <3>1. writing[p] \in Write
        BY <2>3, <2>5 DEF WriteFills, NoWrite
      <3> QED
        BY <1>1, <2>5, <3>1 DEF WriteFills, Write, Contents
    <2>6. CASE WriteFails(p)
      BY <1>1, <2>6 DEF WriteFails
    <2> QED
      BY <1>5, <2>1, <2>2, <2>4, <2>5, <2>6 DEF OnFiles
  <1> QED
    BY StepIsLocal, <1>2, <1>3, <1>4, <1>5 DEF TypeInv, Moved, Quiet, Dies

LEMMA StoreStep ==
    ASSUME TypeInv, [Next]_vars
    PROVE  StoreInv'
  <1> USE DEF StoreInv
  <1>1. StoreInv
    BY DEF TypeInv
  <1>2. CASE UNCHANGED skillVars
    BY <1>1, <1>2 DEF skillVars
  <1>3. ASSUME NEW p \in Processes, SkillsRestart(p) PROVE StoreInv'
    BY <1>1, <1>3 DEF SkillsRestart
  <1>4. ASSUME NEW p \in Processes, OnSkills(p) PROVE StoreInv'
    <2> DEFINE state == installing[p]
    <2>1. ASSUME UNCHANGED <<installed, lock>>, NEW x \in Install,
                 installing' = [installing EXCEPT ![p] = x]
          PROVE  StoreInv'
      BY <1>1, <2>1
    <2>2. ASSUME UNCHANGED <<installed, lock>>, NEW result, Ends(p, result)
          PROVE  StoreInv'
      BY <1>1, <2>2 DEF Ends
    <2>3. ASSUME state.at \in {"downloaded", "previewed", "recording"}
          PROVE  state \in Fetched
      BY <1>1, <2>3 DEF Install, Resolving, Fetched, StagedLocal, Replacing, NoInstall
    <2>4. ASSUME state.at = "staged"
          PROVE  state \in Fetched \cup StagedLocal
      BY <1>1, <2>4 DEF Install, Resolving, Fetched, StagedLocal, Replacing, NoInstall
    <2>5. ASSUME state.at = "resolving"
          PROVE  state \in Resolving
      BY <1>1, <2>5 DEF Install, Resolving, Fetched, StagedLocal, Replacing, NoInstall
    <2>6. ASSUME state.at = "replacing"
          PROVE  state \in Replacing
      BY <1>1, <2>6 DEF Install, Resolving, Fetched, StagedLocal, Replacing, NoInstall
    <2>7. CASE InstallsLocal(p)
      <3>1. PICK call \in Calls : /\ Accepted(p, call)
                                  /\ call.tool = "install_skill"
                                  /\ InstallSkill(p, call.target, call.pkg)
        BY <2>7 DEF InstallsLocal
      <3>2. [at |-> "staged", id |-> call.target, pkg |-> call.pkg, source |-> Local]
                \in Install
        BY <3>1, LocalIsReadable DEF Install, StagedLocal
      <3> QED
        BY <1>1, <2>1, <3>1, <3>2 DEF InstallSkill
    <2>8. CASE InstallsGitHub(p)
      <3>1. PICK call \in Calls : /\ Accepted(p, call)
                                  /\ call.tool = "install_github_skill"
                                  /\ InstallGitHubSkill(p, call.target, call.source)
        BY <2>8 DEF InstallsGitHub
      <3>2. [at |-> "resolving", id |-> call.target, source |-> call.source] \in Install
        BY <3>1, SourceIsValid DEF Install, Resolving
      <3> QED
        BY <1>1, <2>1, <3>1, <3>2 DEF InstallGitHubSkill
    <2>9. CASE StageLands(p)
      <3>1. state \in Fetched \cup StagedLocal
        BY <2>4, <2>9 DEF StageLands
      <3>2. installed' \in [Ids -> Packages \cup {NoPackage}] /\ lock' = lock
        BY <1>1, <2>9, <3>1 DEF StageLands, Fetched, StagedLocal
      <3>3. CASE Finishes(p, state)
        <4>1. CASE state.source = Local
          BY <1>1, <3>2, <3>3, <4>1 DEF Finishes, Ends
        <4>2. CASE state.source # Local
          <5>1. state \in Fetched
            BY <3>1, <4>2 DEF StagedLocal
          <5>2. [state EXCEPT !.at = "recording"] \in Install
            BY <5>1 DEF Install, Fetched
          <5> QED
            BY <1>1, <3>2, <3>3, <4>2, <5>2 DEF Finishes, Moves
        <4> QED
          BY <4>1, <4>2
      <3>4. CASE Ends(p, Conflict)
        BY <1>1, <3>2, <3>4 DEF Ends
      <3> QED
        BY <2>9, <3>3, <3>4 DEF StageLands
    <2>10. CASE StageFails(p)
      BY <2>2, <2>10 DEF StageFails
    <2>11. CASE Downloads(p)
      <3>1. PICK commit \in Commits[state.source] :
                Moves(p, [at |-> "downloaded", id |-> state.id, source |-> state.source,
                          commit |-> commit, pkg |-> PackageAt[commit]])
        BY <2>11 DEF Downloads
      <3>2. state \in Resolving
        BY <2>5, <2>11 DEF Downloads
      <3>3. commit \in DOMAIN PackageAt /\ PackageAt[commit] \in Packages
        BY <3>1, <3>2, SkillAssumption DEF Resolving
      <3>4. [at |-> "downloaded", id |-> state.id, source |-> state.source,
             commit |-> commit, pkg |-> PackageAt[commit]] \in Install
        BY <3>2, <3>3 DEF Install, Fetched, Resolving
      <3> QED
        BY <2>1, <2>11, <3>1, <3>4 DEF Downloads, Moves
    <2>12. CASE DownloadFails(p)
      BY <2>2, <2>12 DEF DownloadFails
    <2>13. CASE Previews(p)
      <3>1. state \in Fetched
        BY <2>3, <2>13 DEF Previews
      <3>2. [state EXCEPT !.at = "previewed"] \in Install
        BY <3>1 DEF Install, Fetched
      <3> QED
        BY <2>1, <2>2, <2>13, <3>2 DEF Previews, Moves
    <2>14. CASE StagesPreviewed(p)
      <3>1. state \in Fetched
        BY <2>3, <2>14 DEF StagesPreviewed
      <3>2. /\ [state EXCEPT !.at = "staged"] \in Install
            /\ [state EXCEPT !.at = "recording"] \in Install
        BY <3>1 DEF Install, Fetched
      <3> QED
        BY <2>1, <2>2, <2>14, <3>2 DEF StagesPreviewed, Moves
    <2>15. CASE RecordLoads(p)
      <3>1. state \in Fetched
        BY <2>3, <2>15 DEF RecordLoads
      <3>2. [at |-> "replacing", id |-> state.id, entries |-> lock,
             entry |-> [source |-> state.source, commit |-> state.commit,
                        digest |-> state.pkg]] \in Install
        BY <1>1, <3>1 DEF Install, Fetched, Replacing, Entry
      <3> QED
        BY <2>1, <2>2, <2>15, <3>2 DEF RecordLoads, Moves
    <2>16. CASE RecordReplaces(p)
      <3>1. state \in Replacing
        BY <2>6, <2>16 DEF RecordReplaces
      <3> QED
        BY <1>1, <2>16, <3>1 DEF RecordReplaces, Ends, Replacing
    <2>17. CASE RecordFails(p)
      BY <2>2, <2>17 DEF RecordFails
    <2> QED
      BY <1>4, <2>7, <2>8, <2>9, <2>10, <2>11, <2>12, <2>13, <2>14, <2>15, <2>16, <2>17
         DEF OnSkills
  <1> QED
    BY StepIsLocal, <1>2, <1>3, <1>4 DEF TypeInv, Moved, Quiet, Dies

LEMMA ServerStep ==
    ASSUME TypeInv, [Next]_vars
    PROVE  ServerInv'
  <1> USE DEF ServerInv
  <1>1. ServerInv
    BY DEF TypeInv
  <1>2. CASE UNCHANGED mcpVars
    BY <1>1, <1>2 DEF mcpVars
  <1>3. ASSUME NEW p \in Processes, p \in HasMcp, McpRestarts(p) PROVE ServerInv'
    BY <1>1, <1>3 DEF McpRestarts, Phase, Phases, NoServer
  <1>4. ASSUME NEW p \in Processes, p \in HasMcp, Internal(p) PROVE ServerInv'
    <2>1. CASE McpStarts(p) \/ StartTimesOut(p) \/ McpCloses(p)
      BY <1>1, <1>4, <2>1 DEF McpStarts, StartTimesOut, McpCloses, Phase, Phases
    <2>2. CASE CloseAll(p) \/ OpenUndone(p)
      <3> DEFINE left == [s \in ServerIds |-> IF s \in connections[p] THEN "off"
                                             ELSE server[p][s]]
      <3>1. left \in [ServerIds -> {"off", "starting", "up", "dead"}]
        BY <1>1, <1>4
      <3>2. server' = [server EXCEPT ![p] = left] \/ server' = server
        BY <2>2 DEF CloseAll, OpenUndone, OwnersLeave
      <3>3. connections' = [connections EXCEPT ![p] = {}] /\ asked' = asked
        BY <2>2 DEF CloseAll, OpenUndone, OwnersLeave
      <3>4. PICK phase \in Phases : client' = [client EXCEPT ![p] = phase]
        BY <2>2 DEF CloseAll, OpenUndone, Phase, Phases
      <3> HIDE DEF left
      <3> QED
        BY <1>1, <1>4, <3>1, <3>2, <3>3, <3>4
    <2>3. ASSUME NEW s \in ServerIds, ServerSpawns(p, s) PROVE ServerInv'
      BY <1>1, <1>4, <2>3 DEF ServerSpawns, Opening
    <2>4. ASSUME NEW s \in ServerIds, ServerConnects(p, s) PROVE ServerInv'
      BY <1>1, <1>4, <2>4 DEF ServerConnects, Opening, Phase, Phases
    <2>5. ASSUME NEW s \in ServerIds, ServerRefuses(p, s) PROVE ServerInv'
      BY <1>1, <1>4, <2>5 DEF ServerRefuses, Opening, Phase, Phases
    <2>6. ASSUME NEW s \in ServerIds, ServerDies(p, s) PROVE ServerInv'
      BY <1>1, <1>4, <2>6 DEF ServerDies
    <2> QED
      BY <1>4, <2>1, <2>2, <2>3, <2>4, <2>5, <2>6 DEF Internal
  <1>5. ASSUME NEW p \in Processes, p \in HasMcp, CallsMcp(p) PROVE ServerInv'
    BY <1>1, <1>5 DEF CallsMcp, CallMcp
  <1>6. ASSUME NEW p \in Processes, p \in HasMcp, Replies(p) PROVE ServerInv'
    <2>1. CASE LoopStops(p)
      BY <1>1, <1>6, <2>1 DEF LoopStops, Phase, Phases, NoServer
    <2>2. CASE CallFails(p) \/ CallTimesOut(p) \/ ServerAnswers(p)
      BY <1>1, <1>6, <2>2 DEF CallFails, CallTimesOut, ServerAnswers, CallEnds
    <2> QED
      BY <1>6, <2>1, <2>2 DEF Replies
  <1> QED
    BY StepIsLocal, <1>2, <1>3, <1>4, <1>5, <1>6 DEF TypeInv, Moved, Quiet, Dies

\* The other processes are where they were.
Apart(p) ==
    \A q \in Processes \ {p} :
        /\ outcome'[q] = outcome[q] /\ writing'[q] = writing[q]
        /\ installing'[q] = installing[q]
        /\ q \in HasMcp => asked'[q] = asked[q]

LEMMA OthersKeepTheirCall ==
    ASSUME CallInv, NEW p \in Processes, Apart(p), OneCall(p)',
           outcome' \in [Processes -> Outcomes \cup {NoOutcome, Running, Cancelled}]
    PROVE  CallInv'
  BY DEF CallInv, Apart, OneCall, InWrite, InInstall, InMcp, Idle

LEMMA CallStep ==
    ASSUME TypeInv, [Next]_vars
    PROVE  CallInv'
  <1>1. CallInv /\ FileInv /\ StoreInv /\ ServerInv
    BY DEF TypeInv
  <1>2. CASE Quiet \/ (EditsFile /\ UNCHANGED <<skillVars, mcpVars>>)
    BY <1>1, <1>2 DEF Quiet, EditsFile, EditFile, workspaceVars, skillVars, mcpVars,
                      CallInv, OneCall, InWrite, InInstall, InMcp, Idle
  <1>3. ASSUME NEW p \in Processes,
               \/ Dies(p)
               \/ Rejected(p) /\ UNCHANGED <<workspaceVars, skillVars, mcpVars>>
               \/ OnFiles(p) /\ UNCHANGED <<skillVars, mcpVars>>
               \/ OnSkills(p) /\ UNCHANGED <<workspaceVars, mcpVars>>
               \/ /\ p \in HasMcp /\ (Internal(p) \/ Replies(p) \/ CallsMcp(p))
                  /\ UNCHANGED <<workspaceVars, skillVars>>
        PROVE  CallInv'
    <2> DEFINE Step ==
            /\ Apart(p) /\ OneCall(p)'
            /\ outcome' \in [Processes -> Outcomes \cup {NoOutcome, Running, Cancelled}]
    <2> USE <1>1 DEF CallInv, OneCall, Apart, InWrite, InInstall, InMcp, Idle
    <2>1. CASE Dies(p)
      <3>1. /\ writing' = [writing EXCEPT ![p] = NoWrite]
            /\ installing' = [installing EXCEPT ![p] = NoInstall]
            /\ outcome' = [outcome EXCEPT ![p] = NoOutcome]
        BY <2>1 DEF Dies, WorkspaceRestarts, SkillsRestart
      <3>2. p \in HasMcp => asked' = [asked EXCEPT ![p] = NoCall]
        BY <2>1 DEF Dies, McpRestarts
      <3>3. p \notin HasMcp => asked' = asked
        BY <2>1 DEF Dies, mcpVars
      <3> QED
        BY <3>1, <3>2, <3>3 DEF FileInv, StoreInv, ServerInv, NoOutcome, Running
    <2>2. CASE Rejected(p) /\ UNCHANGED <<workspaceVars, skillVars, mcpVars>>
      BY <2>2 DEF Rejected, Returns, workspaceVars, skillVars, mcpVars, Running, Outcomes
    <2>3. CASE OnFiles(p) /\ UNCHANGED <<skillVars, mcpVars>>
      <3> USE <2>3 DEF skillVars, mcpVars, Returns, CallBegins, Outcomes, Running, FileInv
      <3>1. CASE Reads(p)
        BY <3>1 DEF Reads, ReadFile
      <3>2. CASE Begins(p)
        <4>1. PICK call \in Calls : WriteFile(p, call.file, call.text)
          BY <3>2 DEF Begins
        <4>2. CASE writing' = writing
          <5>1. \E r \in Outcomes : outcome' = [outcome EXCEPT ![p] = r]
            BY <4>1, <4>2 DEF WriteFile, NoWrite
          <5>2. Idle(p)
            BY <4>1 DEF WriteFile
          <5> QED
            BY <4>2, <5>1, <5>2
        <4>3. CASE writing' # writing
          <5>1. outcome' = [outcome EXCEPT ![p] = Running] /\ Idle(p)
            BY <4>1, <4>3 DEF WriteFile
          <5>2. \E w : writing' = [writing EXCEPT ![p] = w] /\ w # NoWrite
            BY <4>1, <4>3 DEF WriteFile, NoWrite
          <5> QED
            BY <5>1, <5>2
        <4> QED
          BY <4>2, <4>3
      <3>3. CASE WriteEmpties(p)
        <4>1. outcome' = outcome /\ writing' = [writing EXCEPT ![p].at = "emptied"]
              /\ writing[p] # NoWrite
          BY <3>3 DEF WriteEmpties, NoWrite
        <4>2. writing[p] \in Write
          BY <4>1
        <4>3. [writing[p] EXCEPT !.at = "emptied"] # NoWrite
          BY <4>2 DEF Write, NoWrite
        <4> QED
          BY <4>1, <4>3
      <3>4. CASE WriteFills(p) \/ WriteFails(p)
        BY <3>4 DEF WriteFills, WriteFails, NoWrite
      <3> QED
        BY <3>1, <3>2, <3>3, <3>4 DEF OnFiles
    <2>4. CASE OnSkills(p) /\ UNCHANGED <<workspaceVars, mcpVars>>
      <3> USE <2>4 DEF workspaceVars, mcpVars, Returns, CallBegins, Outcomes, Running, StoreInv
      <3> DEFINE state == installing[p]
      <3>1. ASSUME state # NoInstall, NEW x, x.at # "none", Moves(p, x) PROVE Step
        BY <3>1 DEF Moves, NoInstall
      <3>2. ASSUME state # NoInstall,
                   NEW r \in {"success", "retry", "stop", "manual_review"}, Ends(p, r)
            PROVE  Step
        BY <3>2 DEF Ends
      <3>3. CASE InstallsLocal(p)
        BY <3>3 DEF InstallsLocal, InstallSkill, Prepare, Conflict, NoInstall
      <3>4. CASE InstallsGitHub(p)
        BY <3>4 DEF InstallsGitHub, InstallGitHubSkill, StoreErrors, Conflict, NoInstall
      <3>5. ASSUME \/ StageLands(p) \/ StageFails(p) \/ Downloads(p) \/ DownloadFails(p)
                   \/ Previews(p) \/ StagesPreviewed(p) \/ RecordLoads(p)
                   \/ RecordReplaces(p) \/ RecordFails(p)
            PROVE  Step
        <4>1. state # NoInstall /\ state \in Install
          BY <3>5 DEF StageLands, StageFails, Downloads, DownloadFails, Previews,
                      StagesPreviewed, RecordLoads, RecordReplaces, RecordFails, NoInstall
        <4>2. state.at # "resolving" /\ state.at # "replacing"
                => /\ [state EXCEPT !.at = "previewed"].at = "previewed"
                   /\ [state EXCEPT !.at = "staged"].at = "staged"
                   /\ [state EXCEPT !.at = "recording"].at = "recording"
          BY <4>1 DEF Install, Resolving, Fetched, StagedLocal, Replacing
        <4> HIDE DEF state, Step
        <4>3. CASE StageLands(p) \/ StageFails(p)
          BY <3>1, <3>2, <4>1, <4>2, <4>3
             DEF StageLands, StageFails, Finishes, Conflict, state
        <4>4. CASE Downloads(p) \/ DownloadFails(p)
          BY <3>1, <3>2, <4>1, <4>4 DEF Downloads, DownloadFails, state
        <4>5. CASE Previews(p) \/ StagesPreviewed(p)
          BY <3>1, <3>2, <4>1, <4>2, <4>5
             DEF Previews, StagesPreviewed, Prepare, Conflict, state
        <4>6. CASE RecordLoads(p) \/ RecordReplaces(p) \/ RecordFails(p)
          BY <3>1, <3>2, <4>1, <4>6
             DEF RecordLoads, RecordReplaces, RecordFails, StoreErrors, Conflict, state
        <4> QED
          BY <3>5, <4>3, <4>4, <4>5, <4>6
      <3> QED
        BY <3>3, <3>4, <3>5, OthersKeepTheirCall DEF OnSkills
    <2>5. CASE /\ p \in HasMcp /\ (Internal(p) \/ Replies(p) \/ CallsMcp(p))
               /\ UNCHANGED <<workspaceVars, skillVars>>
      <3> USE <2>5 DEF workspaceVars, skillVars, Returns, CallBegins, Outcomes, Running,
                       ServerInv
      <3>1. CASE Internal(p)
        BY <3>1 DEF Internal, McpStarts, OpenUndone, StartTimesOut, CloseAll, McpCloses,
                    ServerSpawns, ServerConnects, ServerRefuses, ServerDies
      <3>2. CASE LoopStops(p)
        BY <3>2 DEF LoopStops, Cancelled
      <3>3. CASE CallFails(p) \/ CallTimesOut(p) \/ ServerAnswers(p)
        BY <3>3 DEF CallFails, CallTimesOut, ServerAnswers, CallEnds
      <3>4. CASE CallsMcp(p)
        <4>1. PICK call \in Calls : CallMcp(p, call.target)
          BY <3>4 DEF CallsMcp
        <4>2. CASE client[p] = "open" /\ call.target \in connections[p]
          <5>1. call.target # NoCall
            BY <2>5, <4>2, McpAssumption DEF ServerInv
          <5> QED
            BY <4>1, <4>2, <5>1 DEF CallMcp
        <4>3. CASE ~(client[p] = "open" /\ call.target \in connections[p])
          BY <4>1, <4>3 DEF CallMcp
        <4> QED
          BY <4>2, <4>3
      <3> QED
        BY <2>5, <3>1, <3>2, <3>3, <3>4 DEF Replies
    <2> QED
      BY <1>3, <2>1, <2>2, <2>3, <2>4, <2>5
  <1> QED
    BY StepIsLocal, <1>2, <1>3 DEF TypeInv, Moved

LEMMA TypeStep == TypeInv /\ [Next]_vars => TypeInv'
  BY CallStep, FileStep, StoreStep, ServerStep, ToolStep DEF TypeInv

\* The cardinality in TypeOK says that the three places exclude each other.
LEMMA TypeInvIsTyped == TypeInv => TypeOK
  <1> SUFFICES ASSUME TypeInv PROVE TypeOK
    OBVIOUS
  <1>1. CallInv /\ FileInv /\ StoreInv /\ ServerInv
    BY DEF TypeInv
  <1>2. ASSUME NEW p \in Processes PROVE OneCall(p)
    BY <1>1 DEF CallInv
  <1>3. WorkspaceTypeOK
    BY <1>1, <1>2 DEF FileInv, WorkspaceTypeOK, Write, OneCall, InWrite
  <1>4. SkillTypeOK
    <2>1. ASSUME NEW p \in Processes, installing[p] # NoInstall
          PROVE  installing[p].at \in Stages
      BY <1>1, <2>1 DEF StoreInv, Install, Resolving, Fetched, StagedLocal, Replacing, Stages
    <2> QED
      BY <1>1, <1>2, <2>1 DEF StoreInv, SkillTypeOK, OneCall, InInstall
  <1>5. McpTypeOK
    BY <1>1, <1>2, ProcessAssumption DEF ServerInv, McpTypeOK, OneCall, InMcp
  <1>6. ASSUME NEW p \in Processes, ~Idle(p)
        PROVE  1 = Cardinality(
            {part \in {"write", "install", "mcp"} :
                \/ part = "write" /\ writing[p] # NoWrite
                \/ part = "install" /\ installing[p] # NoInstall
                \/ part = "mcp" /\ p \in HasMcp /\ asked[p] # NoCall})
    <2> DEFINE Parts == {part \in {"write", "install", "mcp"} :
                \/ part = "write" /\ writing[p] # NoWrite
                \/ part = "install" /\ installing[p] # NoInstall
                \/ part = "mcp" /\ p \in HasMcp /\ asked[p] # NoCall}
    <2>1. OneCall(p)
      BY <1>2
    <2>2. \E part : Parts = {part}
      <3>1. CASE InWrite(p)
        <4>1. Parts = {"write"}
          BY <2>1, <3>1 DEF OneCall, InWrite, InInstall, InMcp
        <4> QED
          BY <4>1
      <3>2. CASE InInstall(p)
        <4>1. Parts = {"install"}
          BY <2>1, <3>2 DEF OneCall, InWrite, InInstall, InMcp
        <4> QED
          BY <4>1
      <3>3. CASE InMcp(p)
        <4>1. Parts = {"mcp"}
          BY <2>1, <3>3 DEF OneCall, InWrite, InInstall, InMcp
        <4> QED
          BY <4>1
      <3> QED
        BY <1>6, <2>1, <3>1, <3>2, <3>3 DEF OneCall
    <2>3. PICK part : Parts = {part}
      BY <2>2
    <2> HIDE DEF Parts
    <2>4. Cardinality(Parts) = 1
      BY <2>3, FS_Singleton
    <2> QED
      BY <2>4 DEF Parts
  <1> QED
    BY <1>1, <1>3, <1>4, <1>5, <1>6 DEF TypeOK, CallInv

\* Whatever tools are called, in however many processes, and wherever processes,
\* servers or calls fail: every component's state has its type, and a process is
\* in at most one component, because a call begins only when none runs
\* (ToolRegistry.execute is awaited) and everything that ends a call leaves it.
THEOREM TypeCorrect == Spec => []TypeOK
  <1>1. Spec => []TypeInv
    BY TypeInit, TypeStep, PTL DEF Spec
  <1> QED
    BY <1>1, TypeInvIsTyped, PTL
-----------------------------------------------------------------------------
(***************************************************************************)
(* Installed skills.                                                       *)
(***************************************************************************)

\* The package of an install that has been prepared is scanned; one that is
\* recorded is what is installed; and so is every entry of a lock file that a
\* process has read, however many have replaced the file since.
Describes(entries) == \A id \in Ids : entries[id] # NoEntry => entries[id].digest = installed[id]

InstallOk(state) ==
    /\ state.at \in {"previewed", "staged", "recording"} => ~ScanBlocks(state.pkg)
    /\ state.at = "recording" => installed[state.id] = state.pkg
    /\ state.at = "replacing" => /\ state.entry.digest = installed[state.id]
                                 /\ Describes(state.entries)

PinInv ==
    /\ \A id \in Ids : installed[id] # NoPackage => ~ScanBlocks(installed[id])
    /\ Describes(lock)
    /\ \A p \in Processes : InstallOk(installing[p])

LEMMA PinInit == Init => PinInv
  BY DEF Init, SkillsInit, PinInv, Describes, InstallOk, NoInstall

\* What is installed stays.
Kept ==
    /\ installed' \in [Ids -> Packages \cup {NoPackage}]
    /\ \A id \in Ids : /\ installed[id] # NoPackage => installed'[id] = installed[id]
                       /\ installed'[id] # NoPackage => ~ScanBlocks(installed'[id])

\* An entry, and a package that is recorded, name a real package: they stay
\* true of what is installed.
LEMMA EntriesStayTrue ==
    ASSUME StoreInv, Kept, NEW entries \in [Ids -> Entry \cup {NoEntry}], Describes(entries)
    PROVE  \A id \in Ids : entries[id] # NoEntry => entries[id].digest = installed'[id]
  <1>1. \A entry \in Entry : entry.digest \in Packages
    BY DEF Entry
  <1> QED
    BY <1>1, SkillAssumption DEF Describes, Kept

LEMMA InstallsStayTrue ==
    ASSUME StoreInv, Kept, NEW state \in Install \cup {NoInstall}, InstallOk(state)
    PROVE  /\ state.at \in {"previewed", "staged", "recording"} => ~ScanBlocks(state.pkg)
           /\ state.at = "recording" => installed'[state.id] = state.pkg
           /\ state.at = "replacing" =>
                /\ state.entry.digest = installed'[state.id]
                /\ \A id \in Ids : state.entries[id] # NoEntry
                                    => state.entries[id].digest = installed'[id]
  <1>1. state.at = "recording" => state.pkg \in Packages /\ state.id \in Ids
    BY DEF Install, Resolving, Fetched, StagedLocal, Replacing, NoInstall
  <1>2. state.at = "replacing" => /\ state.entry.digest \in Packages /\ state.id \in Ids
                                 /\ state.entries \in [Ids -> Entry \cup {NoEntry}]
    BY DEF Install, Resolving, Fetched, StagedLocal, Replacing, NoInstall, Entry
  <1> QED
    BY <1>1, <1>2, EntriesStayTrue, SkillAssumption DEF InstallOk, Kept

\* What remains of a step: the lock file, and the install of the process.
LEMMA PinFrame ==
    ASSUME StoreInv, PinInv, StoreInv', Kept, NEW p \in Processes,
           \A q \in Processes \ {p} : installing'[q] = installing[q],
           lock' = lock \/ Describes(lock)',
           InstallOk(installing[p])'
    PROVE  PinInv'
  <1>1. Describes(lock)'
    BY EntriesStayTrue DEF PinInv, StoreInv, Describes
  <1>2. ASSUME NEW q \in Processes \ {p} PROVE InstallOk(installing[q])'
    <2>1. installing[q] \in Install \cup {NoInstall} /\ InstallOk(installing[q])
      BY DEF StoreInv, PinInv
    <2> QED
      BY <2>1, InstallsStayTrue DEF InstallOk, Describes
  <1> QED
    BY <1>1, <1>2 DEF PinInv, Kept

\* The steps that move nothing but the install of the process.
LEMMA PinMoves ==
    ASSUME StoreInv, PinInv, StoreInv', NEW p \in Processes,
           UNCHANGED <<installed, lock>>,
           NEW x, InstallOk(x), installing' = [installing EXCEPT ![p] = x]
    PROVE  PinInv'
  <1>1. Kept
    BY DEF Kept, StoreInv, PinInv
  <1>2. installing'[p] = x /\ \A q \in Processes \ {p} : installing'[q] = installing[q]
    BY DEF StoreInv
  <1>3. InstallOk(installing[p])'
    BY <1>2 DEF InstallOk, Describes
  <1> QED
    BY <1>1, <1>2, <1>3, PinFrame

LEMMA PinEnds ==
    ASSUME StoreInv, PinInv, StoreInv', NEW p \in Processes,
           UNCHANGED <<installed, lock>>,
           installing' = [installing EXCEPT ![p] = NoInstall]
    PROVE  PinInv'
  BY PinMoves DEF InstallOk, NoInstall

LEMMA PreparedIsScanned ==
    ASSUME NEW id, NEW pkg
    PROVE  /\ Prepare(id, pkg) \in {"fresh", "present"} => ~ScanBlocks(pkg)
           /\ Prepare(id, pkg) = "present" => installed[id] = pkg
  BY DEF Prepare, Conflict

LEMMA PinStep ==
    ASSUME TypeInv, PinInv, [Next]_vars
    PROVE  PinInv' /\ Kept /\ \A id \in Ids : installed[id] # NoPackage
                                            => installed'[id] = installed[id]
  <1>1. StoreInv /\ ToolInv /\ StoreInv'
    BY StoreStep DEF TypeInv
  <1>2. SUFFICES PinInv' /\ Kept
    BY DEF Kept
  <1>3. UNCHANGED installed => Kept
    BY <1>1 DEF Kept, StoreInv, PinInv
  <1>4. CASE UNCHANGED skillVars
    BY <1>3, <1>4 DEF skillVars, PinInv, Describes, InstallOk
  <1>5. ASSUME NEW p \in Processes, SkillsRestart(p) PROVE PinInv' /\ Kept
    BY <1>1, <1>3, <1>5, PinEnds DEF SkillsRestart
  <1>6. ASSUME NEW p \in Processes, OnSkills(p) PROVE PinInv' /\ Kept
    <2> DEFINE state == installing[p]
    <2>1. InstallOk(state) /\ state \in Install \cup {NoInstall}
      BY <1>1 DEF PinInv, StoreInv
    <2>2. ASSUME UNCHANGED <<installed, lock>>, NEW x, InstallOk(x), Moves(p, x)
          PROVE  PinInv' /\ Kept
      BY <1>1, <1>3, <2>2, PinMoves DEF Moves
    <2>3. ASSUME UNCHANGED <<installed, lock>>, NEW result, Ends(p, result)
          PROVE  PinInv' /\ Kept
      BY <1>1, <1>3, <2>3, PinEnds DEF Ends
    <2>4. ASSUME UNCHANGED skillVars PROVE PinInv' /\ Kept
      BY <1>4, <2>4
    <2>5. CASE InstallsLocal(p)
      <3>1. PICK call \in Calls : /\ Accepted(p, call)
                                  /\ call.tool = "install_skill"
                                  /\ InstallSkill(p, call.target, call.pkg)
        BY <2>5 DEF InstallsLocal
      <3> DEFINE x == [at |-> "staged", id |-> call.target, pkg |-> call.pkg,
                       source |-> Local]
      <3>2. CASE /\ Prepare(call.target, call.pkg) = "fresh"
                 /\ installing' = [installing EXCEPT ![p] = x]
        <4>1. InstallOk(x)
          BY <3>2, PreparedIsScanned DEF InstallOk
        <4>2. UNCHANGED <<installed, lock>>
          BY <3>1 DEF InstallSkill
        <4> HIDE DEF x
        <4> QED
          BY <1>1, <1>3, <3>2, <4>1, <4>2, PinMoves
      <3> QED
        BY <2>4, <3>1, <3>2 DEF InstallSkill, skillVars
    <2>6. CASE InstallsGitHub(p)
      <3>1. PICK call \in Calls : InstallGitHubSkill(p, call.target, call.source)
        BY <2>6 DEF InstallsGitHub
      <3> DEFINE x == [at |-> "resolving", id |-> call.target, source |-> call.source]
      <3>2. CASE installing' = [installing EXCEPT ![p] = x]
        <4>1. InstallOk(x)
          BY DEF InstallOk
        <4>2. UNCHANGED <<installed, lock>>
          BY <3>1 DEF InstallGitHubSkill
        <4> HIDE DEF x
        <4> QED
          BY <1>1, <1>3, <3>2, <4>1, <4>2, PinMoves
      <3> QED
        BY <2>4, <3>1, <3>2 DEF InstallGitHubSkill, skillVars
    <2>7. CASE StageLands(p)
      <3>1. /\ state.at = "staged" /\ state \in Fetched \cup StagedLocal
            /\ ~ScanBlocks(state.pkg)
        BY <2>1, <2>7 DEF StageLands, Install, Resolving, Fetched, StagedLocal, Replacing,
                          NoInstall, InstallOk
      <3>2. state.id \in Ids /\ state.pkg \in Packages /\ lock' = lock
        BY <2>7, <3>1 DEF StageLands, Fetched, StagedLocal
      <3>3. Kept
        BY <1>1, <1>3, <2>7, <3>1, <3>2 DEF StageLands, Kept, StoreInv, PinInv
      <3>4. \A q \in Processes \ {p} : installing'[q] = installing[q]
        BY <1>1, <2>7 DEF StageLands, Finishes, Moves, Ends, StoreInv
      <3>5. Finishes(p, state) /\ state.source # Local => installed'[state.id] = state.pkg
        <4>1. SUFFICES ASSUME Finishes(p, state), state.source # Local
                       PROVE  installed'[state.id] = state.pkg
          OBVIOUS
        <4>2. installing'[p] # NoInstall
          BY <1>1, <3>1, <4>1 DEF Finishes, Moves, StoreInv, Fetched, StagedLocal, NoInstall
        <4>3. ~Ends(p, Conflict)
          BY <1>1, <4>2 DEF Ends, StoreInv
        <4> QED
          BY <1>1, <2>7, <3>2, <4>3 DEF StageLands, StoreInv
      <3>6. InstallOk(installing[p])'
        <4>1. CASE installing'[p] = NoInstall
          BY <4>1 DEF InstallOk, NoInstall
        <4>2. CASE Finishes(p, state) /\ state.source # Local
          <5>1. /\ installing'[p].at = "recording"
                /\ installing'[p].pkg = state.pkg /\ installing'[p].id = state.id
            BY <1>1, <3>1, <4>2 DEF Finishes, Moves, StoreInv, Fetched, StagedLocal
          <5>2. /\ installed'[installing'[p].id] = installing'[p].pkg
                /\ ~ScanBlocks(installing'[p].pkg)
            BY <3>1, <3>5, <4>2, <5>1
          <5> QED
            BY <5>1, <5>2 DEF InstallOk
        <4>3. CASE Ends(p, Conflict) \/ (Finishes(p, state) /\ state.source = Local)
          BY <1>1, <4>1, <4>3 DEF Ends, Finishes, StoreInv
        <4> QED
          BY <2>7, <4>2, <4>3 DEF StageLands
      <3> QED
        BY <1>1, <3>2, <3>3, <3>4, <3>6, PinFrame
    <2>8. CASE StageFails(p) \/ DownloadFails(p) \/ RecordFails(p)
      BY <2>3, <2>8 DEF StageFails, DownloadFails, RecordFails
    <2>9. CASE Downloads(p)
      <3>1. PICK commit :
                Moves(p, [at |-> "downloaded", id |-> state.id, source |-> state.source,
                          commit |-> commit, pkg |-> PackageAt[commit]])
        BY <2>9 DEF Downloads
      <3>2. InstallOk([at |-> "downloaded", id |-> state.id, source |-> state.source,
                       commit |-> commit, pkg |-> PackageAt[commit]])
        BY DEF InstallOk
      <3> QED
        BY <2>2, <2>9, <3>1, <3>2 DEF Downloads
    <2>10. ASSUME state.at \in {"downloaded", "previewed"}
           PROVE  state \in Fetched
      BY <2>1, <2>10 DEF Install, Resolving, Fetched, StagedLocal, Replacing, NoInstall
    <2>11. CASE Previews(p)
      <3>1. state \in Fetched
        BY <2>10, <2>11 DEF Previews
      <3>2. Prepare(state.id, state.pkg) \in {"fresh", "present"}
                => InstallOk([state EXCEPT !.at = "previewed"])
        BY <3>1, PreparedIsScanned DEF InstallOk, Fetched
      <3> QED
        BY <2>2, <2>3, <2>11, <3>2 DEF Previews
    <2>12. CASE StagesPreviewed(p)
      <3>1. state \in Fetched
        BY <2>10, <2>12 DEF StagesPreviewed
      <3>2. Prepare(state.id, state.pkg) = "fresh"
                => InstallOk([state EXCEPT !.at = "staged"])
        BY <3>1, PreparedIsScanned DEF InstallOk, Fetched
      <3>3. Prepare(state.id, state.pkg) = "present"
                => InstallOk([state EXCEPT !.at = "recording"])
        BY <3>1, PreparedIsScanned DEF InstallOk, Fetched
      <3> QED
        BY <2>2, <2>3, <2>12, <3>2, <3>3 DEF StagesPreviewed
    <2>13. CASE RecordLoads(p)
      <3> DEFINE x == [at |-> "replacing", id |-> state.id, entries |-> lock,
                       entry |-> [source |-> state.source, commit |-> state.commit,
                                  digest |-> state.pkg]]
      <3>1. InstallOk(x)
        BY <2>1, <2>13 DEF RecordLoads, InstallOk, PinInv
      <3>2. Moves(p, x) \/ Ends(p, Conflict)
        BY <2>13 DEF RecordLoads
      <3> HIDE DEF x
      <3> QED
        BY <2>2, <2>3, <2>13, <3>1, <3>2 DEF RecordLoads
    <2>14. CASE RecordReplaces(p)
      <3>1. state.at = "replacing" /\ state \in Replacing
        BY <2>1, <2>14 DEF RecordReplaces, Install, Resolving, Fetched, StagedLocal, Replacing,
                           NoInstall
      <3>2. lock' = [state.entries EXCEPT ![state.id] = state.entry] /\ installed' = installed
        BY <2>14 DEF RecordReplaces
      <3>3. Describes(lock)'
        BY <2>1, <3>1, <3>2 DEF InstallOk, Describes, Replacing
      <3>4. /\ \A q \in Processes \ {p} : installing'[q] = installing[q]
            /\ installing'[p] = NoInstall
        BY <1>1, <2>14 DEF RecordReplaces, Ends, StoreInv
      <3>5. InstallOk(installing[p])'
        BY <3>4 DEF InstallOk, NoInstall
      <3> QED
        BY <1>1, <1>3, <3>2, <3>3, <3>4, <3>5, PinFrame
    <2> QED
      BY <1>6, <2>5, <2>6, <2>7, <2>8, <2>9, <2>11, <2>12, <2>13, <2>14 DEF OnSkills
  <1> QED
    BY StepIsLocal, <1>1, <1>4, <1>5, <1>6 DEF Moved, Quiet, Dies

\* Whatever two processes install at once and wherever they die, an installed
\* skill is one the scan let through, nothing replaces it, and every entry of
\* skills.lock.json is the digest of what is installed under its id
\* (_resolve_install_race, SkillLockfile.record).
THEOREM SkillsStayPinned == Spec => SkillsArePinned
  <1>1. ASSUME TypeInv, PinInv, [Next]_vars
        PROVE  [\A id \in Ids :
            /\ installed[id] # NoPackage => installed'[id] = installed[id]
            /\ installed'[id] # NoPackage => installed'[id].verdict # "dangerous"
            /\ lock'[id] # NoEntry => lock'[id].digest = installed'[id]]_vars
    <2>1. PinInv' /\ Kept
      BY <1>1, PinStep
    <2> QED
      BY <2>1 DEF PinInv, Kept, Describes, ScanBlocks
  <1>2. Spec => [](TypeInv /\ PinInv)
    <2>1. TypeInv /\ PinInv /\ [Next]_vars => TypeInv' /\ PinInv'
      BY TypeStep, PinStep
    <2> QED
      BY TypeInit, PinInit, <2>1, PTL DEF Spec
  <1> QED
    BY <1>1, <1>2, PTL DEF Spec, SkillsArePinned
=============================================================================
