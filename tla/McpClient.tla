----------------------------- MODULE McpClient -----------------------------
(***************************************************************************)
(* LocalMcpClient (mcp/client.py): one per process, with an event loop on  *)
(* a thread of its own.  Every server has an owner task that enters and    *)
(* leaves the transport; a connection is registered when the server has    *)
(* been initialized and exposes its allowlisted tools.  Nothing reconnects *)
(* to a server that has died.                                              *)
(*                                                                         *)
(* start and close block the thread they are called from, which also runs  *)
(* the tool calls: a call is in flight or not when close begins, but none  *)
(* begins during it.                                                       *)
(***************************************************************************)
EXTENDS ToolRegistry, Sequences

CONSTANT Servers        \* sequence: the servers of the configuration

ServerIds == {Servers[i] : i \in DOMAIN Servers}
NoCall == "no call"
Cancelled == "cancelled"

ASSUME McpAssumption ==
    Servers \in Seq(STRING) /\ Servers # <<>> /\ NoCall \notin ServerIds

VARIABLES
    client,         \* process -> phase of its client
    server,         \* process -> server -> its subprocess
    connections,    \* process -> servers registered
    asked           \* process -> the server its call waits for

mcpVars == <<client, server, connections, asked>>

Phases == {"new", "opening", "undoing", "open", "closing", "stopping", "closed"}

McpTypeOK ==
    /\ client \in [HasMcp -> Phases]
    /\ server \in [HasMcp -> [ServerIds -> {"off", "starting", "up", "dead"}]]
    /\ connections \in [HasMcp -> SUBSET ServerIds]
    /\ asked \in [HasMcp -> ServerIds \cup {NoCall}]
    /\ \A p \in HasMcp : /\ asked[p] # NoCall => ~Idle(p)
                         /\ \A s \in connections[p] : server[p][s] \in {"up", "dead"}

NoServer == [s \in ServerIds |-> "off"]

McpInit ==
    /\ client = [p \in HasMcp |-> "new"]
    /\ server = [p \in HasMcp |-> NoServer]
    /\ connections = [p \in HasMcp |-> {}]
    /\ asked = [p \in HasMcp |-> NoCall]

Phase(p, phase) == client' = [client EXCEPT ![p] = phase]

----------------------------------------------------------------------------
(* start *)

McpStarts(p) ==
    /\ client[p] = "new"
    /\ Phase(p, "opening")
    /\ UNCHANGED <<server, connections, asked, outcome>>

\* _open_all opens the servers one after the other.
Opening(p, s) ==
    /\ client[p] = "opening"
    /\ s = Servers[Cardinality(connections[p]) + 1]

ServerSpawns(p, s) ==
    /\ Opening(p, s) /\ server[p][s] = "off"
    /\ server' = [server EXCEPT ![p][s] = "starting"]
    /\ UNCHANGED <<client, connections, asked, outcome>>

ServerConnects(p, s) ==
    /\ Opening(p, s) /\ server[p][s] = "starting"
    /\ server' = [server EXCEPT ![p][s] = "up"]
    /\ connections' = [connections EXCEPT ![p] = @ \cup {s}]
    /\ Phase(p, IF connections'[p] = ServerIds THEN "open" ELSE "opening")
    /\ UNCHANGED <<asked, outcome>>

\* Mutant: the table of connections is not emptied.
OwnersLeave_KeepsTable(p) ==
    /\ server' = [server EXCEPT ![p] =
            [s \in ServerIds |-> IF s \in connections[p] THEN "off" ELSE server[p][s]]]
    /\ UNCHANGED connections

\* Registered owners leave their transports; the others are not asked to.
OwnersLeave(p) ==
    /\ server' = [server EXCEPT ![p] =
            [s \in ServerIds |-> IF s \in connections[p] THEN "off" ELSE server[p][s]]]
    /\ connections' = [connections EXCEPT ![p] = {}]

\* A server cannot be started, does not answer in time, lacks an allowlisted
\* tool or describes too much: its owner leaves...
ServerRefuses(p, s) ==
    /\ Opening(p, s) /\ server[p][s] \in {"off", "starting"}
    /\ server' = [server EXCEPT ![p][s] = "off"]
    /\ Phase(p, "undoing")
    /\ UNCHANGED <<connections, asked, outcome>>

\* ...and _open_all waits for the rest to leave before it raises.
OpenUndone(p) ==
    /\ client[p] = "undoing"
    /\ OwnersLeave(p)
    /\ Phase(p, "closing")
    /\ UNCHANGED <<asked, outcome>>

\* start gives up: cancelling _open_all does not reach the owner it awaits.
StartTimesOut(p) ==
    /\ client[p] \in {"opening", "undoing"}
    /\ Phase(p, "closing")
    /\ UNCHANGED <<server, connections, asked, outcome>>

----------------------------------------------------------------------------
(* close *)

McpCloses(p) ==
    /\ client[p] = "open"
    /\ Phase(p, "closing")
    /\ UNCHANGED <<server, connections, asked>>

\* _close_all within its ten seconds, or not.
CloseAll(p) ==
    /\ client[p] = "closing"
    /\ \/ OwnersLeave(p)
       \/ connections' = [connections EXCEPT ![p] = {}] /\ UNCHANGED server
    /\ Phase(p, "stopping")
    /\ UNCHANGED <<asked, outcome>>

\* Mutant: the loop stops with its tasks still pending.
LoopStops_KeepsTasks(p) ==
    /\ client[p] = "stopping"
    /\ Phase(p, "closed")
    /\ UNCHANGED <<server, connections, asked, outcome>>

\* _run_loop cancels what is pending: owners leave their transports, and a
\* call in flight raises CancelledError through the tool and the registry.
LoopStops(p) ==
    /\ client[p] = "stopping"
    /\ server' = [server EXCEPT ![p] = NoServer]
    /\ asked' = [asked EXCEPT ![p] = NoCall]
    /\ IF asked[p] = NoCall THEN UNCHANGED outcome ELSE Returns(p, Cancelled)
    /\ Phase(p, "closed")
    /\ UNCHANGED connections

----------------------------------------------------------------------------
(* McpProxyTool._execute and call_tool *)

CallMcp(p, s) ==
    /\ Idle(p) /\ client[p] \in {"open", "closed"}
    /\ UNCHANGED <<client, server, connections>>
    /\ IF client[p] = "open" /\ s \in connections[p]
       THEN CallBegins(p) /\ asked' = [asked EXCEPT ![p] = s]
       ELSE Returns(p, "manual_review") /\ UNCHANGED asked

CallEnds(p, result) ==
    /\ asked[p] # NoCall
    /\ asked' = [asked EXCEPT ![p] = NoCall]
    /\ Returns(p, result)
    /\ UNCHANGED <<client, server, connections>>

\* The result, or one with isError.
ServerAnswers(p) ==
    /\ asked[p] # NoCall /\ server[p][asked[p]] = "up"
    /\ \E result \in {"success", "manual_review"} : CallEnds(p, result)

\* The stream is closed under the call.
CallFails(p) ==
    /\ asked[p] # NoCall /\ server[p][asked[p]] # "up"
    /\ CallEnds(p, "manual_review")

\* request_timeout_seconds, on the session and around it.
CallTimesOut(p) == CallEnds(p, "manual_review")

ServerDies(p, s) ==
    /\ server[p][s] = "up"
    /\ server' = [server EXCEPT ![p][s] = "dead"]
    /\ UNCHANGED <<client, connections, asked, outcome>>

\* The pipes of a dead host close and its servers exit.
McpRestarts(p) ==
    /\ Phase(p, "new")
    /\ server' = [server EXCEPT ![p] = NoServer]
    /\ connections' = [connections EXCEPT ![p] = {}]
    /\ asked' = [asked EXCEPT ![p] = NoCall]
=============================================================================
