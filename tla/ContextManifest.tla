-------------------------- MODULE ContextManifest --------------------------
(***************************************************************************)
(* How much of each source reaches the model: the character limits         *)
(* GeneralAgent._prepare_request gives the five sources of a request and   *)
(* ContextManifestBuilder.build (context.py), which fills one budget in    *)
(* their order.                                                            *)
(***************************************************************************)
EXTENDS Naturals

CONSTANT MaxChars       \* max_context_chars

ASSUME ManifestAssumption == MaxChars \in Nat /\ MaxChars >= 256

Sources == <<"host", "recent", "skills", "summary", "memory">>

Percent(n) == (MaxChars * n) \div 100
AtLeast(n, m) == IF m < n THEN n ELSE m
Rest(used) == IF used < MaxChars THEN MaxChars - used ELSE 0

Limits(host, recent, skills, summary) ==
    [host |-> host, recent |-> recent, skills |-> skills, summary |-> summary,
     memory |-> Rest(host + recent + skills + summary)]

\* Mutant: the host's share does not shrink when there is a conversation.
LimitsOf_HostFirst(conversation, skills) ==
    IF conversation
    THEN Limits(AtLeast(256, MaxChars), Percent(40), Percent(20), Percent(12))
    ELSE Limits(AtLeast(256, (MaxChars * 2) \div 3), 0, 0, 0)

LimitsOf(conversation, skills) ==
    CASE conversation /\ skills ->
            Limits(AtLeast(256, Percent(20)), Percent(40), Percent(20), Percent(12))
      [] conversation /\ ~skills ->
            Limits(AtLeast(256, Percent(25)), Percent(45), 0, Percent(15))
      [] ~conversation /\ skills ->
            Limits(AtLeast(256, MaxChars \div 2), 0, Percent(35), 0)
      [] OTHER -> Limits(AtLeast(256, (MaxChars * 2) \div 3), 0, 0, 0)

Least(a, b) == IF a < b THEN a ELSE b

Marker == 26    \* a new line and "[...truncated by host...]"

\* size: source -> its characters.  A text that is too long is cut to its limit,
\* the marker included.
Wanted(size, source) ==
    Least(size[source],
          LimitsOf(size["recent"] + size["summary"] > 0, size["skills"] > 0)[source])

\* What the first n sources take of the budget.
Used(size) ==
    LET used[n \in 0 .. 5] ==
            IF n = 0 THEN 0
            ELSE used[n - 1] + Least(Wanted(size, Sources[n]), MaxChars - used[n - 1])
    IN used

Manifest(size) ==
    [s \in {Sources[n] : n \in 1 .. 5} |->
        LET n == CHOOSE k \in 1 .. 5 : Sources[k] = s
        IN Used(size)[n] - Used(size)[n - 1]]
=============================================================================
