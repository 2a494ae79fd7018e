---------------------------- MODULE AgentSession ----------------------------
(***************************************************************************)
(* Requests of one chat session through GeneralAgent.run (agent/general.py) *)
(* in several host processes: the conversation is prepared, an explicit    *)
(* "remember" is captured, the request is answered (AgentReply) and the    *)
(* exchange is recorded, which may compact the conversation.               *)
(*                                                                         *)
(* A process runs one request at a time between two awaits (running); its  *)
(* ConversationManager guards the session with an asyncio lock (lock) that *)
(* is held while the summarizer is awaited.  Processes share only the two  *)
(* SQLite stores; between two statements of one process another may write. *)
(* A store may refuse a call (locked, full disk); the summarizer and the   *)
(* models may fail; a process may crash and start again.                   *)
(*                                                                         *)
(* Bounds: the requests, MaxCrashes, MaxPins calls of the store's update.  *)
(***************************************************************************)
EXTENDS ConversationStore, MemoryStore, AgentReply, ContextManifest

CONSTANTS
    Requests,
    Process,        \* request -> the process that serves it
    Goals,          \* request -> what it may ask: a mode and, if it says
                    \* "remember", the fact
    KnownFact,      \* what the memory holds at first
    HasSummarizer,
    HostChars, SkillChars,  \* what the host's context and the skills may take
    TurnChars, SummaryChars, EntryChars,    \* what one of each takes
    MaxCrashes, MaxPins

NoFact == "none"        \* the goal is no explicit remember instruction
EmptyFact == "empty"    \* it is one with nothing to remember
NoRequest == "nobody"

ASSUME SessionAssumption ==
    /\ IsFiniteSet(Requests) /\ Requests # {}
    /\ DOMAIN Cost = Requests /\ DOMAIN Process = Requests /\ NoRequest \notin Requests
    /\ Goals \in [Requests -> SUBSET [mode : {"auto", "chat", "task"},
                                      fact : Facts \cup {NoFact, EmptyFact}]]
    /\ HostChars \subseteq Nat /\ SkillChars \subseteq Nat
    /\ {TurnChars, SummaryChars, EntryChars} \subseteq Nat \ {0}
    /\ KnownFact \in Facts /\ HasSummarizer \in BOOLEAN /\ MaxCrashes \in Nat /\ MaxPins \in Nat

VARIABLES
    goal,       \* request -> what it asks
    stage,      \* request -> where it is in GeneralAgent.run
    local,      \* request -> what it has read and not yet used
    context,    \* request -> the ConversationContext it is answered with
    answer,     \* request -> its GeneralAgentResult until that is returned
    recorded,   \* request -> whether the result says the turn is recorded
    lock,       \* process -> the request inside its session lock
    running,    \* process -> the request it runs without having awaited
    pinner,     \* entry and version an embedder has read and is about to pin
    crashes, pins

requestVars == <<goal, stage, local, context, answer, recorded>>
processVars == <<lock, running>>
bounds == <<pinner, crashes, pins>>
vars == <<storeVars, memoryVars, requestVars, processVars, bounds>>

Processes == {Process[r] : r \in Requests}

Ended == {"done", "raised", "lost"}
Stages == Ended \cup {"new", "preparing", "capturing", "counting", "archiving",
                      "inserting", "answering", "answered", "appending", "compacting",
                      "listing", "summarizing", "storing"}

Nothing == [kind |-> "nothing"]
NoContext == [through |-> 0, quoted |-> {}, omitted |-> 0, before |-> 0, loaded |-> FALSE]

Init ==
    /\ StoreInit
    /\ memory = [i \in {1} |-> [fact |-> KnownFact, pinned |-> FALSE,
                                archived |-> FALSE, version |-> 1]]
    /\ updated = [i \in {1} |-> 1]
    /\ goal \in {g \in [Requests -> UNION {Goals[r] : r \in Requests}] :
                    \A r \in Requests : g[r] \in Goals[r]}
    /\ stage = [r \in Requests |-> "new"]
    /\ local = [r \in Requests |-> Nothing]
    /\ context = [r \in Requests |-> NoContext]
    /\ answer = [r \in Requests |-> Raised]
    /\ recorded = [r \in Requests |-> FALSE]
    /\ lock = [p \in Processes |-> NoRequest]
    /\ running = [p \in Processes |-> NoRequest]
    /\ pinner = Nothing /\ crashes = 0 /\ pins = 0

----------------------------------------------------------------------------
(* What every step of a request has in common. *)

\* r is at stage from and its process runs it or is free to.
At(r, from) ==
    /\ stage[r] = from
    /\ running[Process[r]] \in {r, NoRequest}

Go(r, to, value) ==
    /\ UNCHANGED goal
    /\ stage' = [stage EXCEPT ![r] = to]
    /\ local' = [local EXCEPT ![r] = value]

Hold(r) == running' = [running EXCEPT ![Process[r]] = r]
Yield(r) == running' = [running EXCEPT ![Process[r]] = NoRequest]

\* `async with` on the session lock.
Acquire(r) ==
    /\ lock[Process[r]] = NoRequest
    /\ lock' = [lock EXCEPT ![Process[r]] = r]
Release(r) == lock' = [lock EXCEPT ![Process[r]] = NoRequest]

StoresKept == UNCHANGED <<storeVars, memoryVars>>

----------------------------------------------------------------------------
(* ConversationManager.prepare *)

\* `before` is a ghost: the turns recorded when the request asked.
PrepareReadsSummary(r) ==
    /\ At(r, "new")
    /\ Acquire(r) /\ Hold(r)
    /\ Go(r, "preparing", [kind |-> "prefix", through |-> Latest.through,
                           before |-> Len(turns)])
    /\ StoresKept /\ UNCHANGED <<context, answer, recorded, bounds>>

\* Mutant: the difference is taken the other way round.
ContextOf_Swapped(through, before, pending) ==
    LET quoted == SelectRecent(pending, Threshold) IN
    [through |-> through, quoted |-> quoted, before |-> before, loaded |-> TRUE,
     omitted |-> Cardinality(quoted) - Cardinality(pending)]

ContextOf(through, before, pending) ==
    LET quoted == SelectRecent(pending, Threshold) IN
    [through |-> through, quoted |-> quoted, before |-> before, loaded |-> TRUE,
     omitted |-> Cardinality(pending) - Cardinality(quoted)]

PrepareSelectsTurns(r) ==
    /\ At(r, "preparing")
    /\ context' = [context EXCEPT ![r] =
            ContextOf(local[r].through, local[r].before, Pending(local[r].through))]
    /\ Release(r)
    /\ Go(r, "capturing", Nothing)
    /\ StoresKept /\ UNCHANGED <<answer, recorded, running, bounds>>

\* The exception is swallowed: the session context is optional.
PrepareFails(r) ==
    /\ At(r, "preparing")
    /\ Release(r)
    /\ Go(r, "capturing", Nothing)
    /\ StoresKept /\ UNCHANGED <<context, answer, recorded, running, bounds>>

----------------------------------------------------------------------------
(* MemoryManager.capture_explicit and SqliteMemoryStore.add *)

\* The context of a request that has its answer is of no more use.
Answered(r, result) ==
    /\ Go(r, "answered", Nothing)
    /\ answer' = [answer EXCEPT ![r] = result]
    /\ context' = [context EXCEPT ![r] = NoContext]

Raise(r) ==
    /\ Go(r, "raised", Nothing)
    /\ context' = [context EXCEPT ![r] = NoContext]
    /\ Yield(r)
    /\ UNCHANGED <<answer, recorded, lock, bounds>>

\* What the sources of _prepare_request amount to.
Sizes(r, host, skills) ==
    [host |-> host, skills |-> skills,
     recent |-> TurnChars * Cardinality(context[r].quoted),
     summary |-> IF context[r].through > 0 THEN SummaryChars ELSE 0,
     memory |-> EntryChars * Cardinality(Active)]

\* The quoted turns that are whole in the first n characters of the recent
\* segment: it is rendered oldest first, and what is cut off is its end.
Whole(r, n) ==
    LET quoted == context[r].quoted
        text == IF TurnChars * Cardinality(quoted) <= n THEN n ELSE n - Marker
    IN {k \in quoted : TurnChars * Cardinality({m \in quoted : m <= k}) <= text}

\* The goal is no instruction to remember: on to the model phases.
CaptureNothing(r) ==
    /\ At(r, "capturing") /\ goal[r].fact = NoFact
    /\ Go(r, "answering", Nothing) /\ Yield(r)
    /\ StoresKept /\ UNCHANGED <<context, answer, recorded, lock, bounds>>

CaptureAnswers(r) ==
    /\ At(r, "capturing")
    /\ \/ goal[r].fact = EmptyFact /\ Answered(r, Plain("clarify"))
       \/ /\ goal[r].fact \in Facts /\ Knows(goal[r].fact)
          /\ Answered(r, Plain("chat"))
    /\ Yield(r)
    /\ StoresKept /\ UNCHANGED <<recorded, lock, bounds>>

\* The fact is in none of the entries of list(): on to the store's add.
CaptureIsNew(r) ==
    /\ At(r, "capturing") /\ goal[r].fact \in Facts /\ ~Knows(goal[r].fact)
    /\ Go(r, "counting", Nothing)
    /\ StoresKept /\ UNCHANGED <<context, answer, recorded, processVars, bounds>>

\* _compact_if_needed lists the entries again and takes its victim.
CaptureCounts(r) ==
    /\ At(r, "counting")
    /\ ~(Full /\ Compactable = {})
    /\ IF Full
       THEN Go(r, "archiving", [kind |-> "victim", id |-> Victim, entry |-> memory[Victim]])
       ELSE Go(r, "inserting", Nothing)
    /\ StoresKept /\ UNCHANGED <<context, answer, recorded, processVars, bounds>>

\* No entry may be archived, or the store refuses the call: nothing catches it.
CaptureRaises(r) ==
    /\ goal[r].fact \in Facts
    /\ At(r, "capturing") \/ At(r, "counting")
    /\ Raise(r) /\ StoresKept

ArchiveVictim(r) ==
    /\ At(r, "archiving")
    /\ Replace(local[r].id, local[r].entry.version,
               [local[r].entry EXCEPT !.archived = TRUE])
    /\ Go(r, "inserting", Nothing)
    /\ UNCHANGED <<storeVars, context, answer, recorded, processVars, bounds>>

ArchiveIsStale(r) ==
    /\ At(r, "archiving")
    /\ memory[local[r].id].version # local[r].entry.version
    /\ Raise(r) /\ StoresKept

InsertFact(r) ==
    /\ At(r, "inserting")
    /\ Insert(goal[r].fact)
    /\ Answered(r, Plain("chat")) /\ Yield(r)
    /\ UNCHANGED <<storeVars, recorded, lock, bounds>>

\* An embedder pins an entry through MemoryStore.update.
PinReads ==
    /\ pinner = Nothing /\ pins < MaxPins
    /\ \E i \in Active :
        pinner' = [kind |-> "pin", id |-> i, entry |-> memory[i]]
    /\ pins' = pins + 1
    /\ StoresKept /\ UNCHANGED <<requestVars, processVars, crashes>>

PinWrites ==
    /\ pinner # Nothing
    /\ IF memory[pinner.id].version = pinner.entry.version
       THEN Replace(pinner.id, pinner.entry.version, [pinner.entry EXCEPT !.pinned = TRUE])
       ELSE UNCHANGED memoryVars
    /\ pinner' = Nothing
    /\ UNCHANGED <<storeVars, requestVars, processVars, crashes, pins>>

----------------------------------------------------------------------------
(* The model phases, and ConversationManager.record_turn *)

Answer(r) ==
    /\ At(r, "answering")
    /\ \E result \in RunOnce(goal[r].mode) :
        IF result = Raised THEN Raise(r)
        ELSE Answered(r, result) /\ UNCHANGED <<recorded, processVars, bounds>>
    /\ StoresKept

Finish(r, isRecorded) ==
    /\ Go(r, "done", Nothing)
    /\ answer' = [answer EXCEPT ![r] = Raised]
    /\ recorded' = [recorded EXCEPT ![r] = isRecorded]
    /\ Release(r) /\ Yield(r)
    /\ UNCHANGED <<context, bounds>>

AppendReadsSequence(r) ==
    /\ At(r, "answered")
    /\ Acquire(r) /\ Hold(r)
    /\ Go(r, "appending", [kind |-> "sequence", sequence |-> Len(turns) + 1])
    /\ StoresKept /\ UNCHANGED <<context, answer, recorded, bounds>>

AppendInserts(r) ==
    /\ At(r, "appending")
    /\ AppendTurn(r, local[r].sequence)
    /\ Go(r, "compacting", Nothing)
    /\ UNCHANGED <<memoryVars, context, answer, recorded, processVars, bounds>>

\* The sequence was taken, or the store refuses: the answer stands, unrecorded.
AppendFails(r) ==
    /\ At(r, "appending")
    /\ Finish(r, FALSE) /\ StoresKept

CompactReadsSummary(r) ==
    /\ At(r, "compacting")
    /\ Go(r, "listing", [kind |-> "prefix", latest |-> Latest])
    /\ StoresKept /\ UNCHANGED <<context, answer, recorded, processVars, bounds>>

CompactSelectsSource(r) ==
    /\ At(r, "listing")
    /\ LET pending == Pending(local[r].latest.through) IN
        IF NeedsCompaction(pending) /\ HasSummarizer
        THEN /\ Go(r, "summarizing",
                   [kind |-> "source",
                    compaction |-> Compaction(local[r].latest, SourceTurns(pending))])
             /\ Yield(r)
             /\ UNCHANGED <<context, answer, recorded, lock, bounds>>
        ELSE Finish(r, TRUE)
    /\ StoresKept

\* The summary comes; append_compaction looks at the latest row.
SummaryArrives(r) ==
    /\ At(r, "summarizing")
    /\ local[r].compaction.through > Latest.through
    /\ stage' = [stage EXCEPT ![r] = "storing"]
    /\ Hold(r)
    /\ StoresKept /\ UNCHANGED <<goal, local, context, answer, recorded, lock, bounds>>

\* Mutant: the failure leaves the session locked.
SummaryFails_Locked(r) ==
    /\ At(r, "summarizing")
    /\ Go(r, "done", Nothing)
    /\ recorded' = [recorded EXCEPT ![r] = TRUE]
    /\ StoresKept /\ UNCHANGED <<context, answer, processVars, bounds>>

\* The summarizer fails or is too long, or the prefix is no longer ahead.
SummaryFails(r) ==
    /\ At(r, "summarizing")
    /\ Finish(r, TRUE) /\ StoresKept

CompactionStored(r) ==
    /\ At(r, "storing")
    /\ AppendCompaction(local[r].compaction)
    /\ Finish(r, TRUE) /\ UNCHANGED memoryVars

CompactionFails(r) ==
    /\ At(r, "storing")
    /\ Finish(r, TRUE) /\ StoresKept

\* The requests a process was serving are lost with it; those not yet begun
\* find a new one.
Crash(p) ==
    /\ crashes < MaxCrashes
    /\ crashes' = crashes + 1
    /\ LET lostNow == {r \in Requests : Process[r] = p /\ stage[r] \notin Ended \cup {"new"}} IN
        /\ lostNow # {}
        /\ stage' = [r \in Requests |-> IF r \in lostNow THEN "lost" ELSE stage[r]]
        /\ local' = [r \in Requests |-> IF r \in lostNow THEN Nothing ELSE local[r]]
        /\ context' = [r \in Requests |-> IF r \in lostNow THEN NoContext ELSE context[r]]
        /\ answer' = [r \in Requests |-> IF r \in lostNow THEN Raised ELSE answer[r]]
    /\ lock' = [lock EXCEPT ![p] = NoRequest]
    /\ running' = [running EXCEPT ![p] = NoRequest]
    /\ StoresKept /\ UNCHANGED <<goal, recorded, pinner, pins>>

----------------------------------------------------------------------------
Step(r) ==
    \/ PrepareReadsSummary(r) \/ PrepareSelectsTurns(r) \/ PrepareFails(r)
    \/ CaptureNothing(r) \/ CaptureAnswers(r) \/ CaptureIsNew(r) \/ CaptureCounts(r)
    \/ CaptureRaises(r)
    \/ ArchiveVictim(r) \/ ArchiveIsStale(r) \/ InsertFact(r)
    \/ Answer(r)
    \/ AppendReadsSequence(r) \/ AppendInserts(r) \/ AppendFails(r)
    \/ CompactReadsSummary(r) \/ CompactSelectsSource(r)
    \/ SummaryArrives(r) \/ SummaryFails(r)
    \/ CompactionStored(r) \/ CompactionFails(r)

Next ==
    \/ \E r \in Requests : Step(r)
    \/ PinReads \/ PinWrites
    \/ \E p \in Processes : Crash(p)

Spec == Init /\ [][Next]_vars

\* An event loop runs every task that can go on, and every awaited model call
\* ends: its client has a timeout.
FairSpec == Spec /\ \A r \in Requests : WF_vars(Step(r))

----------------------------------------------------------------------------
(* Properties *)

TypeOK ==
    /\ StoreTypeOK /\ MemoryTypeOK
    /\ stage \in [Requests -> Stages]
    /\ DOMAIN local = Requests
    /\ context \in [Requests -> [through : Nat, quoted : SUBSET (1 .. Len(turns)),
                                 omitted : Nat, before : Nat, loaded : BOOLEAN]]
    /\ \A r \in Requests :
        answer[r] = Raised \/ answer[r].mode \in {"chat", "task", "clarify"}
    /\ recorded \in [Requests -> BOOLEAN]
    /\ lock \in [Processes -> Requests \cup {NoRequest}]
    /\ running \in [Processes -> Requests \cup {NoRequest}]
    /\ crashes \in 0 .. MaxCrashes /\ pins \in 0 .. MaxPins

\* A compaction's row says "summarized through this turn", and its turns are a
\* "contiguous turn prefix" (conversation/types.py): no turn is passed over in the
\* selection and none is lost with a summary that was merged, whatever two
\* processes compacted at once, and however late their summaries came.  (Selected,
\* not read: a prompt above 5,200 tokens is cut, manager.py:329-351.)
SummarySkipsNone == \A c \in compactions : c.sources = 1 .. c.through

\* A request is answered with every turn that was recorded when it asked: in
\* the summary, quoted, or counted as omitted (ConversationManager.prepare).
ContextAccounts ==
    \A r \in Requests : context[r].loaded =>
        /\ context[r].through + Cardinality(context[r].quoted) + context[r].omitted
               >= context[r].before
        /\ \A n \in context[r].quoted : n > context[r].through

\* "recorded" in a result's metadata means the session holds that exchange, and
\* holds it once, although several processes number turns at the same time.
RecordedIsStored ==
    \A r \in Requests :
        LET stored == {n \in 1 .. Len(turns) : turns[n].request = r} IN
        /\ Cardinality(stored) <= 1
        /\ recorded[r] => stored # {}

\* However large the host's own context and the selected skills are: with a limit
\* above 640 characters, all the quoted turns reach the model if they fit their
\* share, and a summary is never crowded out (below, the host's 256 may leave it
\* nothing).  Under any limit all five sources fit.  (Turns that exceed their share
\* are cut at the end, where the latest are: context.py:184-192, types.py:125.)
ConversationIsShown ==
    \A r \in Requests, host \in HostChars, skills \in SkillChars :
        context[r].loaded =>
            LET size == Sizes(r, host, skills)
                shown == Manifest(size)
            IN /\ MaxChars > 640 =>
                    /\ size["recent"] <= LimitsOf(TRUE, skills > 0)["recent"] =>
                            Whole(r, shown["recent"]) = context[r].quoted
                    /\ context[r].through > 0 => shown["summary"] > 0
               /\ shown["host"] + shown["recent"] + shown["skills"] + shown["summary"]
                    + shown["memory"] <= MaxChars

\* Making room for a new memory never archives an entry that somebody pinned,
\* even if the pin came after the victim was chosen (version in _replace); and it
\* makes room: writers that each saw some may pass the limit, but only by one
\* entry for each other process, since add() archives before it inserts.
MemoryKept ==
    /\ [](Cardinality(Active) <= MaxEntries + Cardinality(Processes) - 1)
    /\ [][\A i \in DOMAIN memory :
           memory[i].pinned /\ ~memory[i].archived => ~memory'[i].archived]_vars

\* No admitted model reply costs a phase more than its budget's total, whichever
\* of the usage numbers its provider leaves out; but when it counts the input and
\* nothing else, only the input's and the output's own limits hold, although
\* ROADMAP.md:750 names the total too.
SpendWithinBudget ==
    \A r \in Requests : \A u \in answer[r].over :
        /\ u.input # Unreported /\ u.output = Unreported /\ u.total = Unreported
        /\ u.input + u.out <= MaxInput + MaxOutput

\* Every request ends, with an answer, an exception or its process: no failure
\* of a store or summarizer leaves the session locked.
RequestEnds == <>(\A r \in Requests : stage[r] \in Ended)
=============================================================================
