----------------------------- MODULE McpClient -----------------------------
(***************************************************************************)
(* MCPClientManager of packages/tool-system/src/mcp/client.ts, driven by   *)
(* connectMcpServers of packages/agent-core/src/loop.ts: the configured    *)
(* servers are connected one after the other, the tools each one lists are *)
(* registered once, and calls, list_changed notifications, timeouts,       *)
(* disconnects and exits happen in any order from then on.                 *)
(*                                                                         *)
(* A stdio server answers the requests it was sent in any order, over a    *)
(* pipe that keeps the order of its messages and may still hold some when  *)
(* the exit is reported.  An HTTP server answers each request on its own.  *)
(* A tool list is known by its version, 0 is no list.                      *)
(***************************************************************************)
EXTENDS Naturals, FiniteSets, SequencesExt

CONSTANTS
    Configs,        \* the configured servers, in order
    Transport,      \* [server -> "stdio", "http" or "sse"]
    Broken,         \* servers whose configuration lacks the command or the URL
    MaxVersion,     \* bound of the model: versions of a tool list
    MaxCalls        \* bound of the model: tool calls

Server == ToSet(Configs)
Call == 1..MaxCalls
Version == 1..MaxVersion

ASSUME McpAssumption ==
    /\ Configs \in Seq(Server) /\ IsInjective(Configs)
    /\ MaxVersion \in Nat \ {0} /\ MaxCalls \in Nat
    /\ Transport \in [Server -> {"stdio", "http", "sse"}]
    /\ Broken \subseteq Server

\* A request is known by what it is for: the handshake of a server sends one
\* of each kind, a notification one refresh, a call one request.
Request ==
    [kind : {"init", "list"}, server : Server, n : {0}]
        \cup [kind : {"refresh"}, server : Server, n : Version]
        \cup [kind : {"call"}, server : Server, n : Call]
Message == [notified : BOOLEAN, request : Request, ok : BOOLEAN, version : Version]
Refresh(s, v) == [kind |-> "refresh", server |-> s, n |-> v]
Answer(q, ok, v) == [notified |-> FALSE, request |-> q, ok |-> ok, version |-> v]

\* A notification stands with the request it will cause.
Changed(s, v) == [notified |-> TRUE, request |-> Refresh(s, v), ok |-> TRUE, version |-> v]

VARIABLES
    position,     \* the server connectMcpServers is at
    registered,   \* version of the tools it registered for a server
    state, tools, \* session.state, session.tools
    step,         \* where the handshake of a server stands
    process,      \* the child of a server
    mapped,       \* servers with an entry in processes
    failures,     \* connectionFailures
    pending,      \* pendingRequests
    asked,        \* requests a server has not answered
    out,          \* the pipe from a stdio server: answers and notifications
    list,         \* version of the list a server has
    outcome,      \* of a call
    lost          \* servers one of whose refreshes was rejected

sessionVars == <<state, tools, step>>
serverVars == <<asked, out, list>>
McpVars == <<position, registered, sessionVars, process, mapped, failures, pending, serverVars,
          outcome, lost>>

McpInit ==
    /\ position = 0
    /\ registered = [s \in Server |-> 0]
    /\ state = [s \in Server |-> "none"]
    /\ tools = [s \in Server |-> 0]
    /\ step = [s \in Server |-> "idle"]
    /\ process = [s \in Server |-> "none"]
    /\ mapped = {}
    /\ failures = {}
    /\ pending = {}
    /\ asked = {}
    /\ out = [s \in Server |-> <<>>]
    /\ list = [s \in Server |-> 1]
    /\ outcome = [c \in Call |-> "idle"]
    /\ lost = {}

-----------------------------------------------------------------------------

Handshake(s, kind) == [kind |-> kind, server |-> s, n |-> 0]
CallOf(s, c) == [kind |-> "call", server |-> s, n |-> c]
Stdio(s) == Transport[s] = "stdio"

\* connectMcpServers goes on in the microtask after a handshake ends, before
\* anything else runs.
Waiting == position \in DOMAIN Configs /\ step[Configs[position]] = "done"
Turn == ~ Waiting /\ position > 0

\* Whether sendRequest finds a way to the server: connect() has put the
\* configured transport of an SSE server back into its session by the time
\* its handshake is over.
CanSend(s) ==
    \/ Transport[s] = "http"
    \/ Transport[s] = "sse" /\ step[s] # "done"
    \/ s \in mapped /\ process[s] = "running"

\* The catch blocks of the requests in Q: a handshake ends in error, a call
\* fails, a refresh is logged.
Rejects(Q) ==
    LET failed == {s \in Server : \E kind \in {"init", "list"} : Handshake(s, kind) \in Q}
    IN  /\ step' = [s \in Server |-> IF s \in failed THEN "done" ELSE step[s]]
        /\ outcome' = [c \in Call |->
               IF \E s \in Server : CallOf(s, c) \in Q THEN "failed" ELSE outcome[c]]
        /\ lost' = lost \cup {s \in Server : \E v \in Version : Refresh(s, v) \in Q}

\* Mutated form of StateAfter: a state no session has.
StateAfterFailed(Q) ==
    [s \in Server |-> IF \E kind \in {"init", "list"} : Handshake(s, kind) \in Q
                      THEN "failed" ELSE state[s]]
\* Session states after the requests in Q were rejected.
StateAfter(Q) ==
    [s \in Server |-> IF \E kind \in {"init", "list"} : Handshake(s, kind) \in Q
                      THEN "error" ELSE state[s]]

\* connectMcpServers: the tools of the server that was being connected are
\* registered, and the handshake of the next one begins.
ConnectNext ==
    /\ position = 0 \/ Waiting
    /\ position' = position + 1
    /\ registered' =
           IF position > 0 /\ state[Configs[position]] = "connected"
           THEN [registered EXCEPT ![Configs[position]] = tools[Configs[position]]]
           ELSE registered
    /\ IF position = Len(Configs)
       THEN UNCHANGED <<sessionVars, process, mapped, failures, pending, asked>>
       ELSE LET s == Configs[position + 1]
            IN  IF s \in Broken
                THEN /\ step' = [step EXCEPT ![s] = "done"]
                     /\ failures' = failures \cup {s}
                     /\ UNCHANGED <<state, tools, process, mapped, pending, asked>>
                ELSE /\ step' = [step EXCEPT ![s] = "init"]
                     /\ state' = [state EXCEPT ![s] = "connecting"]
                     /\ process' = [process EXCEPT ![s] = IF Stdio(s) THEN "running" ELSE "none"]
                     /\ mapped' = IF Stdio(s) THEN mapped \cup {s} ELSE mapped
                     /\ pending' = pending \cup {Handshake(s, "init")}
                     /\ asked' = asked \cup {Handshake(s, "init")}
                     /\ UNCHANGED <<tools, failures>>
    /\ UNCHANGED <<out, list, outcome, lost>>

\* A handshake request was answered; initialize is followed by tools/list,
\* over HTTP by a fetch that is not a pending request.
Initialized(s) ==
    /\ IF Stdio(s) /\ ~ CanSend(s)
       THEN /\ step' = [step EXCEPT ![s] = "done"]
            /\ state' = [state EXCEPT ![s] = "error"]
       ELSE /\ step' = [step EXCEPT ![s] = "list"]
            /\ UNCHANGED state
    /\ pending' = (pending \ {Handshake(s, "init")})
                      \cup (IF Stdio(s) /\ CanSend(s) THEN {Handshake(s, "list")} ELSE {})
    /\ UNCHANGED <<tools, failures, outcome, lost>>

Listed(s, v) ==
    /\ pending' = pending \ {Handshake(s, "list")}
    /\ tools' = [tools EXCEPT ![s] = v]
    /\ state' = [state EXCEPT ![s] = "connected"]
    /\ step' = [step EXCEPT ![s] = "done"]
    /\ failures' = IF Stdio(s) THEN failures \ {s} ELSE failures
    /\ UNCHANGED <<outcome, lost>>

\* handleMessage for an answer: a late one finds no pending request.
Answered(q, ok, v) ==
    \/ /\ q \notin pending
       /\ UNCHANGED <<sessionVars, failures, pending, outcome, lost>>
    \/ /\ q \in pending
       /\ ~ ok
       /\ Rejects({q})
       /\ state' = StateAfter({q})
       /\ pending' = pending \ {q}
       /\ UNCHANGED <<tools, failures>>
    \/ /\ q \in pending
       /\ ok
       /\ CASE q.kind = "init" -> Initialized(q.server)
            [] q.kind = "list" -> Listed(q.server, v)
            [] q.kind = "refresh" ->
                   /\ tools' = [tools EXCEPT ![q.server] = v]
                   /\ pending' = pending \ {q}
                   /\ UNCHANGED <<state, step, failures, outcome, lost>>
            [] q.kind = "call" ->
                   /\ outcome' = [outcome EXCEPT ![q.n] = "ok"]
                   /\ pending' = pending \ {q}
                   /\ UNCHANGED <<sessionVars, failures, lost>>

\* The request tools/list that follows initialize is on its way.
AskedAfter(q, ok) ==
    IF q \in pending /\ ok /\ q.kind = "init" /\ Stdio(q.server) /\ CanSend(q.server)
    THEN {Handshake(q.server, "list")} ELSE {}

-----------------------------------------------------------------------------

\* Server side.
ServerAnswers(q, ok) ==
    /\ Turn
    /\ q \in asked
    /\ Stdio(q.server)
    /\ process[q.server] \in {"running", "terminated"}
    /\ asked' = asked \ {q}
    /\ out' = [out EXCEPT ![q.server] =
           Append(@, Answer(q, ok, list[q.server]))]
    /\ UNCHANGED <<position, registered, sessionVars, process, mapped, failures, pending, list,
                   outcome, lost>>

\* An HTTP server has no way to announce a change.
ListChanges(s) ==
    /\ Turn
    /\ list[s] < MaxVersion
    /\ process[s] \in {"running", "terminated"}
    /\ list' = [list EXCEPT ![s] = @ + 1]
    /\ out' = [out EXCEPT ![s] = Append(@, Changed(s, list'[s]))]
    /\ UNCHANGED <<position, registered, sessionVars, process, mapped, failures, pending, asked,
                   outcome, lost>>

\* The next message of the pipe is an answer.
DeliverAnswer(s) ==
    /\ Turn
    /\ out[s] # <<>>
    /\ LET msg == Head(out[s])
       IN  /\ ~ msg.notified
           /\ Answered(msg.request, msg.ok, msg.version)
           /\ asked' = asked \cup AskedAfter(msg.request, msg.ok)
    /\ out' = [out EXCEPT ![s] = Tail(@)]
    /\ UNCHANGED <<position, registered, process, mapped, list>>

\* Mutated form of DeliverChange: the notification is taken for an answer to a
\* request nobody waits for.
DeliverChangeDropped(s) ==
    /\ Turn
    /\ out[s] # <<>>
    /\ Head(out[s]).notified
    /\ out' = [out EXCEPT ![s] = Tail(@)]
    /\ UNCHANGED <<position, registered, sessionVars, process, mapped, failures, pending, asked,
                   list, outcome, lost>>

\* notifications/tools/list_changed: the list is fetched in the background.
DeliverChange(s) ==
    /\ Turn
    /\ out[s] # <<>>
    /\ Head(out[s]).notified
    /\ LET q == Head(out[s]).request
       IN  IF CanSend(s)
           THEN /\ pending' = pending \cup {q}
                /\ asked' = asked \cup {q}
                /\ UNCHANGED lost
           ELSE lost' = lost \cup {s} /\ UNCHANGED <<pending, asked>>
    /\ out' = [out EXCEPT ![s] = Tail(@)]
    /\ UNCHANGED <<position, registered, sessionVars, process, mapped, failures, list, outcome>>

\* The fetch of a pending request returns, or fails.
FetchReturns(q, ok) ==
    /\ Turn
    /\ q \in asked
    /\ ~ Stdio(q.server)
    /\ Answered(q, ok, list[q.server])
    /\ asked' = (asked \ {q})
    /\ UNCHANGED <<position, registered, process, mapped, out, list>>

\* The direct fetch of tools/list of connectHttp, which nothing times out.
FetchList(s, ok) ==
    /\ Turn
    /\ ~ Stdio(s)
    /\ step[s] = "list"
    /\ IF ok THEN Listed(s, list[s])
       ELSE /\ step' = [step EXCEPT ![s] = "done"]
            /\ state' = [state EXCEPT ![s] = "error"]
            /\ UNCHANGED <<tools, failures, pending, outcome, lost>>
    /\ UNCHANGED <<position, registered, process, mapped, serverVars>>

-----------------------------------------------------------------------------

\* Mutated form of Timeout: only a handshake has a timer.
TimeoutHandshake(q) ==
    /\ Turn
    /\ q \in pending
    /\ q.kind \in {"init", "list"}
    /\ pending' = pending \ {q}
    /\ Rejects({q})
    /\ state' = StateAfter({q})
    /\ UNCHANGED <<position, registered, tools, process, mapped, failures, serverVars>>

\* The 30 s timer of a request.
Timeout(q) ==
    /\ Turn
    /\ q \in pending
    /\ pending' = pending \ {q}
    /\ Rejects({q})
    /\ state' = StateAfter({q})
    /\ UNCHANGED <<position, registered, tools, process, mapped, failures, serverVars>>

\* callTool on a registered tool, from the session check to the await.
CallTool(s, c) ==
    /\ Turn
    /\ registered[s] # 0
    /\ outcome[c] = "idle"
    /\ \A d \in Call : d < c => outcome[d] # "idle"
    /\ IF state[s] = "connected" /\ CanSend(s)
       THEN /\ outcome' = [outcome EXCEPT ![c] = "waiting"]
            /\ pending' = pending \cup {CallOf(s, c)}
            /\ asked' = asked \cup {CallOf(s, c)}
       ELSE outcome' = [outcome EXCEPT ![c] = "failed"] /\ UNCHANGED <<pending, asked>>
    /\ UNCHANGED <<position, registered, sessionVars, process, mapped, failures, out, list, lost>>

\* Mutated form of ProcessExits: pending requests are left to their timers.
ProcessExitsQuietly(s) ==
    /\ Turn
    /\ process[s] \in {"running", "terminated", "killed"}
    /\ process' = [process EXCEPT ![s] = "gone"]
    /\ mapped' = mapped \ {s}
    /\ asked' = {q \in asked : q.server # s}
    /\ state' = [state EXCEPT ![s] = "disconnected"]
    /\ UNCHANGED <<position, registered, tools, step, failures, pending, out, list, outcome, lost>>

\* The child exits: whatever is pending is rejected, for every server.
ProcessExits(s) ==
    /\ Turn
    /\ process[s] \in {"running", "terminated", "killed"}
    /\ process' = [process EXCEPT ![s] = "gone"]
    /\ mapped' = mapped \ {s}
    /\ asked' = {q \in asked : q.server # s}
    /\ pending' = {}
    /\ Rejects(pending)
    /\ state' = [StateAfter(pending) EXCEPT ![s] =
           IF @ = "error" /\ step[s] # "done" THEN "error" ELSE "disconnected"]
    /\ UNCHANGED <<position, registered, tools, failures, out, list>>

\* The child could not be spawned: 'error', and no 'exit'.
SpawnFails(s) ==
    /\ Turn
    /\ process[s] = "running"
    /\ Handshake(s, "init") \in asked
    /\ process' = [process EXCEPT ![s] = "failed"]
    /\ state' = [state EXCEPT ![s] = "error"]
    /\ UNCHANGED <<position, registered, tools, step, mapped, failures, pending, serverVars,
                   outcome, lost>>

\* More than MAX_STDIO_LINE_BYTES of output: the child is killed, and every
\* later chunk is dropped.
Overflow(s) ==
    /\ Turn
    /\ out[s] # <<>>
    /\ process[s] \in {"running", "terminated"}
    /\ process' = [process EXCEPT ![s] = "killed"]
    /\ out' = [out EXCEPT ![s] = <<>>]
    /\ state' = [state EXCEPT ![s] = "error"]
    /\ UNCHANGED <<position, registered, tools, step, mapped, failures, pending, asked, list,
                   outcome, lost>>

Disconnect(s) ==
    /\ Turn
    /\ state[s] \notin {"none", "disconnected"}
    /\ state' = [state EXCEPT ![s] = "disconnected"]
    /\ process' = IF s \in mapped /\ process[s] = "running"
                  THEN [process EXCEPT ![s] = "terminated"] ELSE process
    /\ mapped' = mapped \ {s}
    /\ UNCHANGED <<position, registered, tools, step, failures, pending, serverVars, outcome, lost>>

Fetches ==
    \E ok \in BOOLEAN :
        (\E q \in asked : FetchReturns(q, ok)) \/ (\E s \in Server : FetchList(s, ok))

TimersFire == \E q \in pending : Timeout(q)

McpNext ==
    \/ ConnectNext
    \/ Fetches
    \/ \E q \in asked, ok \in BOOLEAN : ServerAnswers(q, ok)
    \/ TimersFire
    \/ \E s \in Server :
           \/ ListChanges(s) \/ DeliverAnswer(s) \/ DeliverChange(s)
           \/ ProcessExits(s) \/ SpawnFails(s) \/ Overflow(s) \/ Disconnect(s)
           \/ \E c \in Call : CallTool(s, c)

\* The event loop goes on, the timers fire, and a fetch ends at the latest
\* when the HTTP client gives up on the connection.
McpFairness ==
    /\ WF_McpVars(ConnectNext)
    /\ WF_McpVars(Fetches)
    /\ WF_McpVars(TimersFire)

McpSpec == McpInit /\ [][McpNext]_McpVars /\ McpFairness

-----------------------------------------------------------------------------

\* Ranges; a request is pending or asked of a server that was connected to.
McpTypeOK ==
    /\ position \in 0..(Len(Configs) + 1)
    /\ registered \in [Server -> 0..MaxVersion]
    /\ state \in [Server -> {"none", "connecting", "connected", "error", "disconnected"}]
    /\ tools \in [Server -> 0..MaxVersion]
    /\ step \in [Server -> {"idle", "init", "list", "done"}]
    /\ process \in [Server -> {"none", "running", "terminated", "killed", "failed", "gone"}]
    /\ mapped \subseteq Server
    /\ failures \subseteq Server
    /\ pending \subseteq Request
    /\ asked \subseteq Request
    /\ out \in [Server -> Seq(Message)]
    /\ list \in [Server -> Version]
    /\ outcome \in [Call -> {"idle", "waiting", "ok", "failed"}]
    /\ lost \subseteq Server

\* "Reject immediately": no request waits for a child whose exit was reported,
\* though calls, refreshes and late output go on around it; and a caller waits
\* exactly as long as its request is pending.
ExitSettles ==
    /\ \A q \in pending : process[q.server] # "gone"
    /\ \A c \in Call : outcome[c] = "waiting" <=> \E s \in Server : CallOf(s, c) \in pending

\* The tools of a connected stdio server are the ones it has, as soon as its
\* pipe is empty and no list is being fetched, unless a fetch was given up:
\* notifications during the handshake, refreshes that overlap and answers that
\* come late never leave an older list.
ToolsFresh ==
    \A s \in Server :
        (/\ Stdio(s) /\ state[s] = "connected" /\ s \notin lost
         /\ out[s] = <<>>
         /\ \A q \in pending : q.server = s => q.kind = "call")
        => tools[s] = list[s]

\* "One bad server shouldn't block the agent": connectMcpServers gets through
\* its list whatever the servers do, and a call always comes back.
NothingHangs ==
    /\ position = 1 ~> position = Len(Configs) + 1
    /\ \A c \in Call : outcome[c] = "waiting" ~> outcome[c] \in {"ok", "failed"}

\* "Falling back to HTTP": a tool of a connected SSE server can be called.
SseReachable ==
    \A s \in Server :
        Transport[s] = "sse" /\ state[s] = "connected" /\ step[s] = "done" => CanSend(s)

\* "Optional callback invoked when a connection attempt fails": what the
\* interface is told of is every attempt that failed.
FailuresSurface ==
    \A s \in Server : step[s] = "done" /\ registered[s] = 0 /\ state[s] = "error" => s \in failures
=============================================================================
