---------------------------- MODULE MemoryStore ----------------------------
(***************************************************************************)
(* SqliteMemoryStore (memory/sqlite.py), shared by every process of the    *)
(* host.  An entry is what it says, whether it is pinned or archived and   *)
(* its version; every update names the version it read.  Rows are never    *)
(* deleted.  Recall counters stay 0: nothing but an embedder calls         *)
(* touch_recall, so the compaction takes the entry updated longest ago.    *)
(***************************************************************************)
EXTENDS Naturals, FiniteSets

CONSTANTS
    Facts,          \* what a user may ask to remember
    MaxEntries,     \* active entries add() makes room for
    MaxIds          \* bound: rows

ASSUME MemoryAssumption == MaxEntries \in Nat \ {0} /\ MaxIds \in Nat \ {0}

VARIABLES
    memory,     \* id -> row; ids number the inserts
    updated     \* id -> its place in order of updated_at, longest ago first

memoryVars == <<memory, updated>>

Entry == [fact : Facts, pinned : BOOLEAN, archived : BOOLEAN, version : Nat \ {0}]

MemoryTypeOK ==
    /\ \E n \in 0 .. MaxIds : DOMAIN memory = 1 .. n
    /\ \A i \in DOMAIN memory : memory[i] \in Entry
    /\ updated \in [DOMAIN memory -> 1 .. Cardinality(DOMAIN memory)]
    /\ \A i, j \in DOMAIN memory : updated[i] = updated[j] => i = j

Active == {i \in DOMAIN memory : ~memory[i].archived}

\* _compact_if_needed's candidates and its choice among them.
Compactable == {i \in Active : ~memory[i].pinned}

Victim == CHOOSE i \in Compactable : \A j \in Compactable : updated[i] <= updated[j]

\* Mutant: one more than max_entries.
Full_OffByOne == Cardinality(Active) > MaxEntries

Full == Cardinality(Active) >= MaxEntries

Knows(fact) == \E i \in Active : memory[i].fact = fact

\* The row takes a new updated_at.
Touch(i) ==
    updated' = [j \in DOMAIN memory |->
                  IF j = i THEN Cardinality(DOMAIN memory)
                  ELSE IF updated[j] > updated[i] THEN updated[j] - 1 ELSE updated[j]]

\* Mutant: the row is written whatever its version.
Replace_AnyVersion(i, version, entry) ==
    /\ memory' = [memory EXCEPT ![i] = [entry EXCEPT !.version = version + 1]]
    /\ Touch(i)

\* _replace: the row whose version is still the one that was read.
Replace(i, version, entry) ==
    /\ memory[i].version = version
    /\ memory' = [memory EXCEPT ![i] = [entry EXCEPT !.version = version + 1]]
    /\ Touch(i)

Insert(fact) ==
    LET i == Cardinality(DOMAIN memory) + 1 IN
    /\ i <= MaxIds
    /\ memory' = [n \in 1 .. i |-> IF n < i THEN memory[n]
                                   ELSE [fact |-> fact, pinned |-> FALSE,
                                         archived |-> FALSE, version |-> 1]]
    /\ updated' = [n \in 1 .. i |-> IF n < i THEN updated[n] ELSE i]
=============================================================================
