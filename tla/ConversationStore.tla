------------------------- MODULE ConversationStore -------------------------
(***************************************************************************)
(* The turns and compactions of one session in SqliteConversationStore     *)
(* (conversation/sqlite.py), shared by every process of the host, and what *)
(* ConversationManager computes from them.  Sessions share nothing, so one *)
(* is enough.  A turn's sequence is its position.  A compaction is the     *)
(* prefix its row claims and a ghost, the turns its summary was to be made *)
(* from, those of the summary merged into it included.  What the           *)
(* summarizer's prompt then holds of them is another matter: it cuts long  *)
(* turns and, at 5,200 tokens, its own end (manager.py:329-351).           *)
(***************************************************************************)
EXTENDS Naturals, Sequences, FiniteSetsExt

CONSTANTS
    Cost,               \* request -> tokens of its exchange
    RawRetention, TargetRounds, ExtraRounds, MaxRecentTokens  \* ConversationPolicy

Threshold == TargetRounds + ExtraRounds

ASSUME PolicyAssumption ==
    /\ RawRetention \in Nat /\ TargetRounds \in Nat \ {0} /\ ExtraRounds \in Nat \ {0}
    /\ TargetRounds < RawRetention /\ Threshold <= RawRetention
    /\ MaxRecentTokens \in Nat
    /\ \A r \in DOMAIN Cost : Cost[r] \in Nat \ {0}

VARIABLES turns, compactions

storeVars == <<turns, compactions>>

StoreTypeOK ==
    /\ turns \in Seq([request : DOMAIN Cost, archived : BOOLEAN])
    /\ compactions \subseteq [through : Nat, sources : SUBSET (1 .. Len(turns))]

StoreInit == turns = <<>> /\ compactions = {}

\* The row with the longest prefix; nothing is summarised without one.
Latest ==
    IF compactions = {} THEN [through |-> 0, sources |-> {}]
    ELSE CHOOSE c \in compactions : \A d \in compactions : d.through <= c.through

\* Mutants: archived turns are left out, the last summarised one is let in.
Pending_HotOnly(through) ==
    {n \in 1 .. Len(turns) : n > through /\ ~turns[n].archived}
Pending_Inclusive(through) == {n \in 1 .. Len(turns) : n >= through}

\* list_turns(after_sequence=through, include_archived=True)
Pending(through) == {n \in 1 .. Len(turns) : n > through}

Tokens(sequences) ==
    MapThenSumSet(LAMBDA n : Cost[turns[n].request], sequences)

\* The longest run of latest turns that keeps to both limits.
SelectRecent(sequences, rounds) ==
    LET suffixes == {{n \in sequences : n >= k} : k \in 1 .. Len(turns) + 1}
        fitting == {s \in suffixes : Cardinality(s) <= rounds
                                     /\ Tokens(s) <= MaxRecentTokens}
    IN CHOOSE s \in fitting : \A t \in fitting : t \subseteq s

NeedsCompaction(pending) ==
    Tokens(pending) > MaxRecentTokens \/ Cardinality(pending) >= Threshold

\* The turns before the first one kept; the oldest alone if none is.
SourceTurns(pending) ==
    LET kept == SelectRecent(pending, TargetRounds)
        before == {n \in pending : \A k \in kept : n < k}
    IN IF before # {} THEN before
       ELSE {n \in pending : \A k \in pending : n <= k}

Newest(sequences) == CHOOSE n \in sequences : \A k \in sequences : k <= n

\* What ConversationManager stores of a summary of these turns: it claims them
\* all, also those whose text no longer fitted the prompt.
Compaction(previous, sources) ==
    [through |-> Newest(sources), sources |-> previous.sources \cup sources]

\* Mutant: a turn whose sequence is taken is replaced.
AppendTurn_Replaces(r, sequence) ==
    /\ turns' = [n \in 1 .. IF sequence > Len(turns) THEN sequence ELSE Len(turns) |->
            [request |-> IF n = sequence THEN r ELSE turns[n].request,
             archived |-> n < sequence - RawRetention + 1]]
    /\ UNCHANGED compactions

\* The INSERT and the archiving UPDATE of append_turn, one transaction.  The
\* sequence was read before it; the primary key refuses one that is taken.
AppendTurn(r, sequence) ==
    /\ sequence = Len(turns) + 1
    /\ turns' = [n \in 1 .. sequence |->
            [request |-> IF n = sequence THEN r ELSE turns[n].request,
             archived |-> n < sequence - RawRetention + 1]]
    /\ UNCHANGED compactions

\* The INSERT of append_compaction, under unique (session, through).
AppendCompaction(c) ==
    /\ \A d \in compactions : d.through # c.through
    /\ compactions' = compactions \cup {c}
    /\ UNCHANGED turns
=============================================================================
