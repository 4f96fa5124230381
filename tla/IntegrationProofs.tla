------------------------- MODULE IntegrationProofs -------------------------
(***************************************************************************)
(* Theorems about the MCP client (McpClient), for every list of servers    *)
(* and every number of calls and of versions of a tool list; about the API *)
(* server (ApiServer), for every number of runs, connections and clients;  *)
(* and about the specification of the two that TLC checks                  *)
(* (MCIntegrations).                                                       *)
(***************************************************************************)
EXTENDS MCIntegrations, Induction, SequenceTheorems, FiniteSetTheorems

-----------------------------------------------------------------------------
(* Requests and messages.                                                  *)

\* What a request is for tells it from every other one.
LEMMA RequestNames ==
    /\ \A s \in Server, k \in {"init", "list"} : Handshake(s, k) \in Request
    /\ \A s \in Server, v \in Version : Refresh(s, v) \in Request
    /\ \A s \in Server, c \in Call : CallOf(s, c) \in Request
BY DEF Request, Handshake, Refresh, CallOf

LEMMA RequestFields ==
    /\ \A s, k : Handshake(s, k).server = s /\ Handshake(s, k).kind = k
    /\ \A s, v : Refresh(s, v).server = s /\ Refresh(s, v).kind = "refresh" /\ Refresh(s, v).n = v
    /\ \A s, c : CallOf(s, c).server = s /\ CallOf(s, c).kind = "call" /\ CallOf(s, c).n = c
BY DEF Handshake, Refresh, CallOf

LEMMA RequestKinds ==
    ASSUME NEW q \in Request
    PROVE  /\ q.server \in Server
           /\ \/ q.kind \in {"init", "list"} /\ q = Handshake(q.server, q.kind)
              \/ q.kind = "refresh" /\ q.n \in Version /\ q = Refresh(q.server, q.n)
              \/ q.kind = "call" /\ q.n \in Call /\ q = CallOf(q.server, q.n)
BY DEF Request, Handshake, Refresh, CallOf

LEMMA MessageFields ==
    /\ \A q \in Request, ok \in BOOLEAN, v \in Version :
           /\ Answer(q, ok, v) \in Message
           /\ Answer(q, ok, v).notified = FALSE /\ Answer(q, ok, v).request = q
           /\ Answer(q, ok, v).ok = ok /\ Answer(q, ok, v).version = v
    /\ \A s \in Server, v \in Version :
           /\ Changed(s, v) \in Message
           /\ Changed(s, v).notified = TRUE /\ Changed(s, v).request = Refresh(s, v)
           /\ Changed(s, v).version = v
    /\ \A m \in Message :
           /\ m.notified \in BOOLEAN /\ m.ok \in BOOLEAN
           /\ m.request \in Request /\ m.version \in Version
BY RequestNames DEF Message, Answer, Changed

LEMMA Constants ==
    /\ Configs \in Seq(Server) /\ Len(Configs) \in Nat /\ DOMAIN Configs = 1..Len(Configs)
    /\ \A i \in 1..Len(Configs) : Configs[i] \in Server
    /\ \A i, j \in 1..Len(Configs) : Configs[i] = Configs[j] => i = j
    /\ MaxVersion \in Nat /\ 1 \in Version /\ Version \subseteq 0..MaxVersion
    /\ \A v \in Version : v \in Nat
BY McpAssumption DEF IsInjective, Version

-----------------------------------------------------------------------------
(* Types.                                                                  *)

LEMMA McpStarts == McpInit => McpTypeOK
BY Constants DEF McpInit, McpTypeOK

\* The variables a delivered answer, a timer or an exit may change.
SessionTypeOK ==
    /\ state \in [Server -> {"none", "connecting", "connected", "error", "disconnected"}]
    /\ tools \in [Server -> 0..MaxVersion]
    /\ step \in [Server -> {"idle", "init", "list", "done"}]
    /\ failures \subseteq Server
    /\ pending \subseteq Request
    /\ outcome \in [Call -> {"idle", "waiting", "ok", "failed"}]
    /\ lost \subseteq Server

OtherTypeOK ==
    /\ position \in 0..(Len(Configs) + 1)
    /\ registered \in [Server -> 0..MaxVersion]
    /\ process \in [Server -> {"none", "running", "terminated", "killed", "failed", "gone"}]
    /\ mapped \subseteq Server
    /\ asked \subseteq Request
    /\ out \in [Server -> Seq(Message)]
    /\ list \in [Server -> Version]

LEMMA TypeParts == McpTypeOK <=> SessionTypeOK /\ OtherTypeOK
BY DEF McpTypeOK, SessionTypeOK, OtherTypeOK

LEMMA RejectsTyped ==
    ASSUME SessionTypeOK, NEW Q, Rejects(Q)
    PROVE  /\ step' \in [Server -> {"idle", "init", "list", "done"}]
           /\ outcome' \in [Call -> {"idle", "waiting", "ok", "failed"}]
           /\ lost' \subseteq Server
BY DEF Rejects, SessionTypeOK

LEMMA StateAfterTyped ==
    ASSUME SessionTypeOK, NEW Q
    PROVE  StateAfter(Q) \in [Server -> {"none", "connecting", "connected", "error", "disconnected"}]
BY DEF StateAfter, SessionTypeOK

LEMMA ListedTyped ==
    ASSUME SessionTypeOK, NEW s \in Server, NEW v \in Version, Listed(s, v)
    PROVE  SessionTypeOK'
BY Constants DEF Listed, SessionTypeOK

LEMMA InitializedTyped ==
    ASSUME SessionTypeOK, NEW s \in Server, Initialized(s)
    PROVE  SessionTypeOK'
BY RequestNames DEF Initialized, SessionTypeOK

LEMMA AnsweredTyped ==
    ASSUME SessionTypeOK, NEW q \in Request, NEW ok \in BOOLEAN, NEW v \in Version,
           Answered(q, ok, v)
    PROVE  SessionTypeOK'
<1>1. CASE q \notin pending /\ UNCHANGED <<sessionVars, failures, pending, outcome, lost>>
  BY <1>1 DEF sessionVars, SessionTypeOK
<1>2. CASE q \in pending /\ ~ ok
  <2>1. Rejects({q}) /\ state' = StateAfter({q}) /\ pending' = pending \ {q}
        /\ UNCHANGED <<tools, failures>>
    BY <1>2 DEF Answered
  <2>. QED  BY <2>1, RejectsTyped, StateAfterTyped DEF SessionTypeOK
<1>3. CASE q \in pending /\ ok
  <2>. USE RequestKinds
  <2>1. CASE q.kind = "init"
    BY <1>3, <2>1, InitializedTyped DEF Answered
  <2>2. CASE q.kind = "list"
    BY <1>3, <2>2, ListedTyped DEF Answered
  <2>3. CASE q.kind = "refresh"
    <3>1. /\ tools' = [tools EXCEPT ![q.server] = v] /\ pending' = pending \ {q}
          /\ UNCHANGED <<state, step, failures, outcome, lost>>
      BY <1>3, <2>3 DEF Answered
    <3>. QED  BY <3>1, Constants DEF SessionTypeOK
  <2>4. CASE q.kind = "call"
    <3>1. /\ outcome' = [outcome EXCEPT ![q.n] = "ok"] /\ pending' = pending \ {q}
          /\ UNCHANGED <<sessionVars, failures, lost>>
      BY <1>3, <2>4 DEF Answered
    <3>. QED  BY <3>1 DEF sessionVars, SessionTypeOK
  <2>. QED  BY <2>1, <2>2, <2>3, <2>4
<1>. QED  BY <1>1, <1>2, <1>3 DEF Answered

\* A message of the pipe is typed, and so is what is left of the pipe.
LEMMA PipeTyped ==
    ASSUME OtherTypeOK, NEW s \in Server, out[s] # <<>>
    PROVE  /\ Head(out[s]) \in Message
           /\ Tail(out[s]) \in Seq(Message)
BY HeadTailProperties DEF OtherTypeOK

LEMMA AskedAfterTyped ==
    ASSUME NEW q \in Request, NEW ok
    PROVE  AskedAfter(q, ok) \subseteq Request
BY RequestKinds, RequestNames DEF AskedAfter

LEMMA ConnectTyped == McpTypeOK /\ ConnectNext => McpTypeOK'
<1>. SUFFICES ASSUME McpTypeOK, ConnectNext PROVE McpTypeOK'
  OBVIOUS
<1>. USE Constants
<1>0. (position = 0 \/ position \in 1..Len(Configs)) /\ position' = position + 1
  BY DEF ConnectNext, Waiting
<1>1. position' \in 0..(Len(Configs) + 1)
  BY <1>0
<1>2. registered' \in [Server -> 0..MaxVersion]
  BY DEF ConnectNext, McpTypeOK, Waiting
<1>3. UNCHANGED <<out, list, outcome, lost>>
  BY DEF ConnectNext
<1>4. CASE position = Len(Configs)
  BY <1>1, <1>2, <1>3, <1>4 DEF ConnectNext, McpTypeOK, sessionVars
<1>5. CASE position # Len(Configs)
  <2>. DEFINE s == Configs[position + 1]
  <2>1. s \in Server
    BY <1>0, <1>5
  <2>2. \/ /\ step' = [step EXCEPT ![s] = "done"]
           /\ failures' = failures \cup {s}
           /\ UNCHANGED <<state, tools, process, mapped, pending, asked>>
        \/ /\ step' = [step EXCEPT ![s] = "init"]
           /\ state' = [state EXCEPT ![s] = "connecting"]
           /\ process' = [process EXCEPT ![s] = IF Stdio(s) THEN "running" ELSE "none"]
           /\ mapped' = IF Stdio(s) THEN mapped \cup {s} ELSE mapped
           /\ pending' = pending \cup {Handshake(s, "init")}
           /\ asked' = asked \cup {Handshake(s, "init")}
           /\ UNCHANGED <<tools, failures>>
    BY <1>5 DEF ConnectNext
  <2>. HIDE DEF s
  <2>3. Handshake(s, "init") \in Request
    BY <2>1, RequestNames
  <2>4. /\ \E x \in {"init", "done"} : step' = [step EXCEPT ![s] = x]
        /\ state' = state \/ state' = [state EXCEPT ![s] = "connecting"]
        /\ \/ process' = process
           \/ \E x \in {"none", "running"} : process' = [process EXCEPT ![s] = x]
        /\ failures' \subseteq failures \cup {s}
        /\ mapped' \subseteq mapped \cup {s}
        /\ pending' \subseteq pending \cup {Handshake(s, "init")}
        /\ asked' \subseteq asked \cup {Handshake(s, "init")}
        /\ tools' = tools
    BY <2>2
  <2>5. step' \in [Server -> {"idle", "init", "list", "done"}]
    BY <2>1, <2>4 DEF McpTypeOK
  <2>6. state' \in [Server -> {"none", "connecting", "connected", "error", "disconnected"}]
    BY <2>1, <2>4 DEF McpTypeOK
  <2>7. process' \in [Server -> {"none", "running", "terminated", "killed", "failed", "gone"}]
    BY <2>1, <2>4 DEF McpTypeOK
  <2>8. pending' \subseteq Request /\ asked' \subseteq Request
        /\ failures' \subseteq Server /\ mapped' \subseteq Server
    BY <2>1, <2>3, <2>4 DEF McpTypeOK
  <2>. QED  BY <1>1, <1>2, <1>3, <2>4, <2>5, <2>6, <2>7, <2>8 DEF McpTypeOK
<1>. QED  BY <1>4, <1>5

LEMMA McpTypeStep == McpTypeOK /\ [McpNext]_McpVars => McpTypeOK'
<1>. SUFFICES ASSUME McpTypeOK, [McpNext]_McpVars PROVE SessionTypeOK' /\ OtherTypeOK'
  BY DEF McpTypeOK, SessionTypeOK, OtherTypeOK
<1>. USE Constants
<1>0. SessionTypeOK /\ OtherTypeOK
  BY TypeParts
<1>1. CASE ConnectNext
  BY <1>1, ConnectTyped DEF McpTypeOK, SessionTypeOK, OtherTypeOK
<1>2. ASSUME NEW q \in asked, NEW ok \in BOOLEAN, FetchReturns(q, ok)
      PROVE  SessionTypeOK' /\ OtherTypeOK'
  <2>1. q \in Request /\ list[q.server] \in Version
    BY <1>0, RequestKinds DEF OtherTypeOK
  <2>2. SessionTypeOK'
    BY <1>0, <1>2, <2>1, AnsweredTyped DEF FetchReturns
  <2>3. OtherTypeOK'
    BY <1>0, <1>2 DEF FetchReturns, OtherTypeOK
  <2>. QED  BY <2>2, <2>3
<1>3. ASSUME NEW s \in Server, NEW ok \in BOOLEAN, FetchList(s, ok)
      PROVE  SessionTypeOK' /\ OtherTypeOK'
  <2>1. SessionTypeOK'
    <3>1. CASE ok
      BY <1>0, <1>3, <3>1, ListedTyped DEF FetchList, OtherTypeOK
    <3>2. CASE ~ ok
      BY <1>0, <1>3, <3>2 DEF FetchList, SessionTypeOK
    <3>. QED  BY <3>1, <3>2
  <2>2. OtherTypeOK'
    BY <1>0, <1>3 DEF FetchList, serverVars, OtherTypeOK
  <2>. QED  BY <2>1, <2>2
<1>4. ASSUME NEW q \in asked, NEW ok \in BOOLEAN, ServerAnswers(q, ok)
      PROVE  SessionTypeOK' /\ OtherTypeOK'
  <2>1. q \in Request /\ q.server \in Server /\ list[q.server] \in Version
    BY <1>0, RequestKinds DEF OtherTypeOK
  <2>2. Answer(q, ok, list[q.server]) \in Message
    BY <2>1, MessageFields
  <2>3. Append(out[q.server], Answer(q, ok, list[q.server])) \in Seq(Message)
    BY <1>0, <2>1, <2>2, AppendProperties DEF OtherTypeOK
  <2>4. OtherTypeOK'
    BY <1>0, <1>4, <2>1, <2>3 DEF ServerAnswers, OtherTypeOK
  <2>5. SessionTypeOK'
    BY <1>0, <1>4 DEF ServerAnswers, sessionVars, SessionTypeOK
  <2>. QED  BY <2>4, <2>5
<1>5. ASSUME NEW q \in pending, Timeout(q)
      PROVE  SessionTypeOK' /\ OtherTypeOK'
  <2>1. Rejects({q}) /\ state' = StateAfter({q}) /\ pending' = pending \ {q}
        /\ UNCHANGED <<tools, failures>>
        /\ UNCHANGED <<position, registered, process, mapped, serverVars>>
    BY <1>5 DEF Timeout
  <2>2. SessionTypeOK'
    BY <1>0, <2>1, RejectsTyped, StateAfterTyped DEF SessionTypeOK
  <2>3. OtherTypeOK'
    BY <1>0, <2>1 DEF serverVars, OtherTypeOK
  <2>. QED  BY <2>2, <2>3
<1>6. ASSUME NEW s \in Server, ListChanges(s)
      PROVE  SessionTypeOK' /\ OtherTypeOK'
  <2>1. list' \in [Server -> Version] /\ list'[s] \in Version
    <3>1. list[s] \in Version /\ list[s] < MaxVersion /\ list' = [list EXCEPT ![s] = @ + 1]
      BY <1>0, <1>6 DEF ListChanges, OtherTypeOK
    <3>2. list[s] + 1 \in Version
      BY <3>1 DEF Version
    <3>. QED  BY <1>0, <3>1, <3>2 DEF OtherTypeOK
  <2>2. Append(out[s], Changed(s, list'[s])) \in Seq(Message)
    BY <1>0, <2>1, MessageFields, AppendProperties DEF OtherTypeOK
  <2>3. OtherTypeOK'
    BY <1>0, <1>6, <2>1, <2>2 DEF ListChanges, OtherTypeOK
  <2>4. SessionTypeOK'
    BY <1>0, <1>6 DEF ListChanges, sessionVars, SessionTypeOK
  <2>. QED  BY <2>3, <2>4
<1>7. ASSUME NEW s \in Server, DeliverAnswer(s)
      PROVE  SessionTypeOK' /\ OtherTypeOK'
  <2>. DEFINE msg == Head(out[s])
  <2>1. msg \in Message /\ Tail(out[s]) \in Seq(Message)
    BY <1>0, <1>7, PipeTyped DEF DeliverAnswer
  <2>2. msg.request \in Request /\ msg.ok \in BOOLEAN /\ msg.version \in Version
    BY <2>1, MessageFields
  <2>3. /\ Answered(msg.request, msg.ok, msg.version)
        /\ asked' = asked \cup AskedAfter(msg.request, msg.ok)
        /\ out' = [out EXCEPT ![s] = Tail(@)]
        /\ UNCHANGED <<position, registered, process, mapped, list>>
    BY <1>7 DEF DeliverAnswer
  <2>. HIDE DEF msg
  <2>4. SessionTypeOK'
    BY <1>0, <2>2, <2>3, AnsweredTyped
  <2>5. OtherTypeOK'
    BY <1>0, <2>1, <2>2, <2>3, AskedAfterTyped DEF OtherTypeOK
  <2>. QED  BY <2>4, <2>5
<1>8. ASSUME NEW s \in Server, DeliverChange(s)
      PROVE  SessionTypeOK' /\ OtherTypeOK'
  <2>1. Head(out[s]).request \in Request /\ Tail(out[s]) \in Seq(Message)
    BY <1>0, <1>8, PipeTyped, MessageFields DEF DeliverChange
  <2>2. SessionTypeOK'
    BY <1>0, <1>8, <2>1 DEF DeliverChange, sessionVars, SessionTypeOK
  <2>3. OtherTypeOK'
    BY <1>0, <1>8, <2>1 DEF DeliverChange, OtherTypeOK
  <2>. QED  BY <2>2, <2>3
<1>9. ASSUME NEW s \in Server, ProcessExits(s)
      PROVE  SessionTypeOK' /\ OtherTypeOK'
  <2>1. Rejects(pending) /\ StateAfter(pending) \in
            [Server -> {"none", "connecting", "connected", "error", "disconnected"}]
    BY <1>0, <1>9, StateAfterTyped DEF ProcessExits
  <2>2. state' \in [Server -> {"none", "connecting", "connected", "error", "disconnected"}]
    BY <1>9, <2>1 DEF ProcessExits
  <2>3. SessionTypeOK'
    BY <1>0, <1>9, <2>1, <2>2, RejectsTyped DEF ProcessExits, SessionTypeOK
  <2>4. OtherTypeOK'
    BY <1>0, <1>9 DEF ProcessExits, OtherTypeOK
  <2>. QED  BY <2>3, <2>4
<1>10. ASSUME NEW s \in Server, SpawnFails(s) \/ Overflow(s) \/ Disconnect(s)
       PROVE  SessionTypeOK' /\ OtherTypeOK'
  <2>1. SessionTypeOK'
    BY <1>0, <1>10 DEF SpawnFails, Overflow, Disconnect, SessionTypeOK
  <2>2. OtherTypeOK'
    <3>1. << >> \in Seq(Message)
      BY EmptySeq
    <3>2. /\ process' = process \/ \E x \in {"failed", "killed", "terminated"} :
                                      process' = [process EXCEPT ![s] = x]
          /\ out' = out \/ out' = [out EXCEPT ![s] = << >>]
          /\ mapped' \subseteq mapped
          /\ UNCHANGED <<position, registered, asked, list>>
      BY <1>10 DEF SpawnFails, Overflow, Disconnect, serverVars
    <3>3. process' \in [Server -> {"none", "running", "terminated", "killed", "failed", "gone"}]
      BY <1>0, <3>2 DEF OtherTypeOK
    <3>4. out' \in [Server -> Seq(Message)]
      BY ZenonT(60), <1>0, <3>1, <3>2 DEF OtherTypeOK
    <3>. QED  BY <1>0, <3>2, <3>3, <3>4 DEF OtherTypeOK
  <2>. QED  BY <2>1, <2>2
<1>11. ASSUME NEW s \in Server, NEW c \in Call, CallTool(s, c)
       PROVE  SessionTypeOK' /\ OtherTypeOK'
  <2>0. CallOf(s, c) \in Request
    BY RequestNames
  <2>1. SessionTypeOK'
    <3>1. /\ \E o \in {"waiting", "failed"} : outcome' = [outcome EXCEPT ![c] = o]
          /\ pending' \subseteq pending \cup {CallOf(s, c)}
          /\ UNCHANGED <<state, tools, step, failures, lost>>
      BY <1>11 DEF CallTool, sessionVars
    <3>. QED  BY <1>0, <2>0, <3>1 DEF SessionTypeOK
  <2>2. OtherTypeOK'
    BY <1>0, <1>11, <2>0 DEF CallTool, OtherTypeOK
  <2>. QED  BY <2>1, <2>2
<1>12. CASE UNCHANGED McpVars
  BY <1>0, <1>12 DEF McpVars, sessionVars, serverVars, SessionTypeOK, OtherTypeOK
<1>. QED
  BY <1>1, <1>2, <1>3, <1>4, <1>5, <1>6, <1>7, <1>8, <1>9, <1>10, <1>11, <1>12
  DEF McpNext, Fetches, TimersFire

\* Sessions, pipes and requests stay within their types.
THEOREM McpTyped == McpSpec => []McpTypeOK
BY McpStarts, McpTypeStep, PTL DEF McpSpec

-----------------------------------------------------------------------------
(* Pipes.                                                                  *)

LEMMA PipeElements ==
    ASSUME NEW p \in Seq(Message)
    PROVE  /\ \A m \in Message : ToSet(Append(p, m)) = ToSet(p) \cup {m}
           /\ p # <<>> => ToSet(p) = {Head(p)} \cup ToSet(Tail(p))
           /\ ToSet(<<>>) = {}
<1>1. ASSUME NEW m \in Message
      PROVE  ToSet(Append(p, m)) = ToSet(p) \cup {m}
  <2>1. Len(p) \in Nat /\ Append(p, m) \in Seq(Message) /\ Len(Append(p, m)) = Len(p) + 1
    BY AppendProperties, LenProperties
  <2>2. \A i \in 1..(Len(p) + 1) : Append(p, m)[i] = IF i = Len(p) + 1 THEN m ELSE p[i]
    BY <2>1, AppendProperties
  <2>. QED  BY <2>1, <2>2, LenProperties DEF ToSet
<1>2. ASSUME p # <<>>
      PROVE  ToSet(p) = {Head(p)} \cup ToSet(Tail(p))
  <2>1. /\ Len(p) \in Nat \ {0} /\ Tail(p) \in Seq(Message) /\ Len(Tail(p)) = Len(p) - 1
        /\ Head(p) = p[1]
    BY <1>2, HeadTailProperties, LenProperties, EmptySeq
  <2>2. \A i \in 1..(Len(p) - 1) : Tail(p)[i] = p[i + 1]
    BY <1>2, HeadTailProperties
  <2>3. \A i \in 2..Len(p) : i - 1 \in 1..(Len(p) - 1) /\ Tail(p)[i - 1] = p[i]
    BY <2>1, <2>2
  <2>4. \A i \in 1..(Len(p) - 1) : i + 1 \in 1..Len(p)
    BY <2>1
  <2>5. DOMAIN p = 1..Len(p) /\ DOMAIN Tail(p) = 1..(Len(p) - 1)
    BY <2>1, LenProperties
  <2>6. \A m : (\E i \in 1..Len(p) : m = p[i])
                  <=> m = p[1] \/ \E i \in 1..(Len(p) - 1) : m = p[i + 1]
    <3>1. \A i \in 1..Len(p) : i = 1 \/ (i - 1 \in 1..(Len(p) - 1) /\ p[i] = p[(i - 1) + 1])
      BY <2>1
    <3>2. 1 \in 1..Len(p)
      BY <2>1
    <3>. QED  BY <2>4, <3>1, <3>2
  <2>7. \A m : m \in ToSet(p) <=> \E i \in 1..Len(p) : m = p[i]
    BY <2>5 DEF ToSet
  <2>8. \A m : m \in ToSet(Tail(p)) <=> \E i \in 1..(Len(p) - 1) : m = p[i + 1]
    BY <2>2, <2>5 DEF ToSet
  <2>. QED  BY <2>1, <2>6, <2>7, <2>8
<1>3. ToSet(<<>>) = {}
  BY EmptySeq DEF ToSet
<1>. QED  BY <1>1, <1>2, <1>3

\* What a step does to the pipes: a server puts an answer or a notification
\* into its own, the client takes the first message out, or drops everything.
PipeAsks(s, q, ok) ==
    /\ q \in asked /\ q.server = s /\ Stdio(s) /\ ok \in BOOLEAN
    /\ process[s] \in {"running", "terminated"}
    /\ out' = [out EXCEPT ![s] = Append(out[s], Answer(q, ok, list[s]))]
    /\ UNCHANGED list
PipeGrows(s) ==
    /\ process[s] \in {"running", "terminated"} /\ list[s] < MaxVersion
    /\ list' = [list EXCEPT ![s] = list[s] + 1]
    /\ out' = [out EXCEPT ![s] = Append(out[s], Changed(s, list[s] + 1))]
PipeTaken(s) ==
    /\ out[s] # <<>>
    /\ out' = [out EXCEPT ![s] = Tail(out[s])]
    /\ UNCHANGED <<process, list>>
PipeDropped(s) ==
    /\ out' = [out EXCEPT ![s] = <<>>]
    /\ UNCHANGED list

LEMMA PipeSteps ==
    ASSUME McpTypeOK, [McpNext]_McpVars
    PROVE  \/ UNCHANGED <<out, list>>
           \/ \E s \in Server :
                 \/ \E q \in Request, ok \in BOOLEAN : PipeAsks(s, q, ok) /\ UNCHANGED process
                 \/ PipeGrows(s) /\ UNCHANGED process
                 \/ PipeTaken(s)
                 \/ PipeDropped(s) /\ process' = [process EXCEPT ![s] = "killed"]
                        /\ process[s] \in {"running", "terminated"}
<1>1. CASE ConnectNext
  BY <1>1 DEF ConnectNext
<1>2. CASE Fetches \/ TimersFire \/ UNCHANGED McpVars
  BY <1>2 DEF Fetches, FetchReturns, FetchList, TimersFire, Timeout, serverVars, McpVars
<1>3. ASSUME NEW q \in asked, NEW ok \in BOOLEAN, ServerAnswers(q, ok)
      PROVE  q \in Request /\ q.server \in Server /\ PipeAsks(q.server, q, ok) /\ UNCHANGED process
  BY <1>3, RequestKinds DEF McpTypeOK, ServerAnswers, PipeAsks
<1>4. ASSUME NEW s \in Server, ListChanges(s)
      PROVE  PipeGrows(s) /\ UNCHANGED process
  <2>1. list' = [list EXCEPT ![s] = list[s] + 1] /\ list'[s] = list[s] + 1
    BY <1>4 DEF ListChanges, McpTypeOK
  <2>. QED  BY <1>4, <2>1 DEF ListChanges, PipeGrows
<1>5. ASSUME NEW s \in Server, DeliverAnswer(s) \/ DeliverChange(s)
      PROVE  PipeTaken(s)
  BY <1>5 DEF DeliverAnswer, DeliverChange, PipeTaken
<1>6. ASSUME NEW s \in Server, Overflow(s)
      PROVE  PipeDropped(s) /\ process' = [process EXCEPT ![s] = "killed"]
             /\ process[s] \in {"running", "terminated"}
  BY <1>6 DEF Overflow, PipeDropped
<1>7. ASSUME NEW s \in Server, NEW c \in Call,
             ProcessExits(s) \/ SpawnFails(s) \/ Disconnect(s) \/ CallTool(s, c)
      PROVE  UNCHANGED <<out, list>>
  BY <1>7 DEF ProcessExits, SpawnFails, Disconnect, CallTool, serverVars
<1>8. ASSUME NEW s \in Server, ProcessExits(s) \/ SpawnFails(s) \/ Disconnect(s)
      PROVE  UNCHANGED <<out, list>>
  BY <1>8 DEF ProcessExits, SpawnFails, Disconnect, serverVars
<1>. QED  BY <1>1, <1>2, <1>3, <1>4, <1>5, <1>6, <1>7, <1>8 DEF McpNext

\* Only a stdio server has a child and a pipe, and what is in a pipe is of its
\* server.
OnlyStdioRuns == \A s \in Server : ~ Stdio(s) => process[s] = "none" /\ out[s] = <<>>
PipesOwn ==
    \A s \in Server : \A m \in ToSet(out[s]) :
        /\ m.request.server = s
        /\ m.notified => m.request = Refresh(s, m.version)
PipeInv == OnlyStdioRuns /\ PipesOwn

LEMMA PipeStarts == McpInit => PipeInv
BY EmptySeq DEF McpInit, PipeInv, OnlyStdioRuns, PipesOwn, ToSet

LEMMA PipeStep == McpTypeOK /\ PipeInv /\ [McpNext]_McpVars => PipeInv'
<1>. SUFFICES ASSUME McpTypeOK, PipeInv, [McpNext]_McpVars PROVE PipeInv'
  OBVIOUS
<1>0. /\ OtherTypeOK /\ OnlyStdioRuns /\ PipesOwn
      /\ out \in [Server -> Seq(Message)] /\ list \in [Server -> Version]
      /\ \A s \in Server : out[s] \in Seq(Message) /\ list[s] \in Version
  BY TypeParts DEF PipeInv, OtherTypeOK
<1>1. PipesOwn'
  <2>1. CASE UNCHANGED <<out, list>>
    BY <1>0, <2>1 DEF PipesOwn
  <2>2. ASSUME NEW s \in Server, NEW m \in Message, m.request.server = s,
               m.notified => m.request = Refresh(s, m.version),
               out' = [out EXCEPT ![s] = Append(out[s], m)]
        PROVE  PipesOwn'
    <3>1. ToSet(out'[s]) = ToSet(out[s]) \cup {m}
      BY <1>0, <2>2, PipeElements
    <3>2. \A t \in Server : t # s => out'[t] = out[t]
      BY <1>0, <2>2
    <3>. QED  BY <1>0, <2>2, <3>1, <3>2 DEF PipesOwn
  <2>3. ASSUME NEW s \in Server, NEW q \in Request, NEW ok \in BOOLEAN, PipeAsks(s, q, ok)
        PROVE  PipesOwn'
    <3>1. Answer(q, ok, list[s]) \in Message
          /\ Answer(q, ok, list[s]).notified = FALSE /\ Answer(q, ok, list[s]).request = q
      BY <1>0, MessageFields
    <3>. QED  BY <2>2, <2>3, <3>1 DEF PipeAsks
  <2>4. ASSUME NEW s \in Server, PipeGrows(s)
        PROVE  PipesOwn'
    <3>1. list[s] + 1 \in Version
      BY <1>0, <2>4, Constants DEF PipeGrows, Version
    <3>2. /\ Changed(s, list[s] + 1) \in Message
          /\ Changed(s, list[s] + 1).request = Refresh(s, list[s] + 1)
          /\ Changed(s, list[s] + 1).version = list[s] + 1
      BY <3>1, MessageFields
    <3>3. Changed(s, list[s] + 1).request.server = s
      BY <3>2, RequestFields
    <3>4. out' = [out EXCEPT ![s] = Append(out[s], Changed(s, list[s] + 1))]
      BY <2>4 DEF PipeGrows
    <3>. QED  BY <2>2, <3>2, <3>3, <3>4
  <2>5. ASSUME NEW s \in Server, PipeTaken(s) \/ PipeDropped(s)
        PROVE  PipesOwn'
    <3>1. ToSet(out'[s]) \subseteq ToSet(out[s])
      BY <1>0, <2>5, PipeElements DEF PipeTaken, PipeDropped
    <3>2. \A t \in Server : t # s => out'[t] = out[t]
      BY <1>0, <2>5 DEF PipeTaken, PipeDropped
    <3>. QED  BY <1>0, <3>1, <3>2 DEF PipesOwn
  <2>. QED  BY <2>1, <2>3, <2>4, <2>5, PipeSteps
<1>2. \A s \in Server : ~ Stdio(s) => process'[s] = "none"
  <2>1. CASE ConnectNext
    <3>1. process' = process \/ \E s \in Server : process' =
              [process EXCEPT ![s] = IF Stdio(s) THEN "running" ELSE "none"]
      <4>1. position = 0 \/ position \in 1..Len(Configs)
        BY <2>1, Constants DEF ConnectNext, Waiting
      <4>2. position # Len(Configs) => Configs[position + 1] \in Server
        BY <4>1, Constants
      <4>. QED  BY <2>1, <4>2 DEF ConnectNext
    <3>. QED  BY <1>0, <3>1 DEF OnlyStdioRuns, OtherTypeOK
  <2>2. ASSUME process' = process \/ \E s \in Server, x \in {"gone", "failed", "killed", "terminated"} :
                   process[s] # "none" /\ process' = [process EXCEPT ![s] = x]
        PROVE  \A s \in Server : ~ Stdio(s) => process'[s] = "none"
    BY <1>0, <2>2 DEF OnlyStdioRuns, OtherTypeOK
  <2>3. CASE Fetches \/ TimersFire \/ UNCHANGED McpVars
    BY <2>2, <2>3 DEF Fetches, FetchReturns, FetchList, TimersFire, Timeout, McpVars
  <2>4. ASSUME NEW q \in asked, NEW ok \in BOOLEAN, ServerAnswers(q, ok)
        PROVE  process' = process
    BY <2>4 DEF ServerAnswers
  <2>5. ASSUME NEW s \in Server,
               \/ ListChanges(s) \/ DeliverAnswer(s) \/ DeliverChange(s)
               \/ \E c \in Call : CallTool(s, c)
        PROVE  process' = process
    BY <2>5 DEF ListChanges, DeliverAnswer, DeliverChange, CallTool
  <2>6. ASSUME NEW s \in Server, ProcessExits(s) \/ SpawnFails(s) \/ Overflow(s) \/ Disconnect(s)
        PROVE  process' = process \/ \E x \in {"gone", "failed", "killed", "terminated"} :
                   process[s] # "none" /\ process' = [process EXCEPT ![s] = x]
    BY <2>6 DEF ProcessExits, SpawnFails, Overflow, Disconnect
  <2>. QED  BY <2>1, <2>2, <2>3, <2>4, <2>5, <2>6 DEF McpNext
<1>3. \A s \in Server : ~ Stdio(s) => out'[s] = <<>>
  <2>1. CASE UNCHANGED <<out, list>>
    BY <1>0, <2>1 DEF OnlyStdioRuns
  <2>2. ASSUME NEW s \in Server, Stdio(s), \A t \in Server : t # s => out'[t] = out[t]
        PROVE  \A t \in Server : ~ Stdio(t) => out'[t] = <<>>
    BY <1>0, <2>2 DEF OnlyStdioRuns
  <2>3. ASSUME NEW s \in Server, NEW q \in Request, NEW ok \in BOOLEAN, PipeAsks(s, q, ok)
        PROVE  Stdio(s) /\ \A t \in Server : t # s => out'[t] = out[t]
    BY <1>0, <2>3 DEF PipeAsks
  <2>4. ASSUME NEW s \in Server, PipeGrows(s)
        PROVE  Stdio(s) /\ \A t \in Server : t # s => out'[t] = out[t]
    BY <1>0, <2>4 DEF PipeGrows, OnlyStdioRuns
  <2>5. ASSUME NEW s \in Server, PipeTaken(s)
        PROVE  Stdio(s) /\ \A t \in Server : t # s => out'[t] = out[t]
    BY <1>0, <2>5 DEF PipeTaken, OnlyStdioRuns
  <2>6. ASSUME NEW s \in Server, PipeDropped(s), process[s] \in {"running", "terminated"}
        PROVE  Stdio(s) /\ \A t \in Server : t # s => out'[t] = out[t]
    BY <1>0, <2>6 DEF PipeDropped, OnlyStdioRuns
  <2>. QED  BY <2>1, <2>2, <2>3, <2>4, <2>5, <2>6, PipeSteps
<1>. QED  BY <1>1, <1>2, <1>3 DEF PipeInv, OnlyStdioRuns, Stdio

-----------------------------------------------------------------------------
(* Exits.                                                                  *)

\* No request waits for a child that has gone, and a call waits for the one
\* server it was made on.
NoneGone == \A q \in pending : process[q.server] # "gone"
CallsTracked ==
    /\ \A c \in Call : outcome[c] = "waiting" <=> \E s \in Server : CallOf(s, c) \in pending
    /\ \A c \in Call, s, t \in Server :
           CallOf(s, c) \in pending /\ CallOf(t, c) \in pending => s = t
ExitInv == NoneGone /\ CallsTracked

LEMMA ExitStarts == McpInit => ExitInv
BY DEF McpInit, ExitInv, NoneGone, CallsTracked

\* The calls are left alone.
LEMMA CallsKept ==
    ASSUME CallsTracked, outcome' = outcome,
           \A s \in Server, c \in Call : CallOf(s, c) \in pending' <=> CallOf(s, c) \in pending
    PROVE  CallsTracked'
BY DEF CallsTracked

\* The catch block of callTool.
LEMMA CallsRejected ==
    ASSUME CallsTracked, NEW Q \in SUBSET pending, pending' = pending \ Q,
           outcome \in [Call -> {"idle", "waiting", "ok", "failed"}],
           NEW o \in {"ok", "failed"},
           outcome' = [c \in Call |->
               IF \E s \in Server : CallOf(s, c) \in Q THEN o ELSE outcome[c]]
    PROVE  CallsTracked'
<1>1. ASSUME NEW c \in Call
      PROVE  outcome'[c] = "waiting" <=> \E s \in Server : CallOf(s, c) \in pending'
  <2>1. CASE \E s \in Server : CallOf(s, c) \in Q
    <3>1. outcome'[c] # "waiting"
      BY <2>1
    <3>2. \A s \in Server : CallOf(s, c) \notin pending'
      BY <2>1 DEF CallsTracked
    <3>. QED  BY <3>1, <3>2
  <2>2. CASE ~ \E s \in Server : CallOf(s, c) \in Q
    <3>1. outcome'[c] = outcome[c]
      BY <2>2
    <3>2. \A s \in Server : CallOf(s, c) \in pending' <=> CallOf(s, c) \in pending
      BY <2>2
    <3>. QED  BY <3>1, <3>2 DEF CallsTracked
  <2>. QED  BY <2>1, <2>2
<1>. QED  BY <1>1 DEF CallsTracked

LEMMA RejectsCalls ==
    ASSUME CallsTracked, SessionTypeOK, NEW Q \in SUBSET pending, pending' = pending \ Q, Rejects(Q)
    PROVE  CallsTracked'
BY CallsRejected DEF Rejects, SessionTypeOK

LEMMA AnsweredCalls ==
    ASSUME CallsTracked, SessionTypeOK, NEW q \in Request, NEW ok \in BOOLEAN, NEW v,
           Answered(q, ok, v)
    PROVE  CallsTracked'
<1>0. \A s \in Server, c \in Call, k \in {"init", "list"}, t \in Server : CallOf(s, c) # Handshake(t, k)
  BY RequestFields
<1>1. CASE q \notin pending
  <2>1. UNCHANGED <<pending, outcome>>
    BY <1>1 DEF Answered
  <2>. QED  BY <2>1, CallsKept
<1>2. CASE q \in pending /\ ~ ok
  BY <1>2, RejectsCalls DEF Answered
<1>3. CASE q \in pending /\ ok
  <2>. USE RequestKinds
  <2>1. CASE q.kind \in {"init", "list"}
    <3>1. q = Handshake(q.server, q.kind) /\ q.server \in Server
      BY <2>1, RequestFields
    <3>2. outcome' = outcome
      BY <1>3, <2>1 DEF Answered, Initialized, Listed
    <3>3. pending \ {q} \subseteq pending' /\ pending' \subseteq pending \cup {Handshake(q.server, "list")}
      BY <1>3, <2>1, <3>1 DEF Answered, Initialized, Listed
    <3>4. \A s \in Server, c \in Call :
              CallOf(s, c) # q /\ CallOf(s, c) # Handshake(q.server, "list")
      BY <1>0, <2>1, <3>1
    <3>5. \A s \in Server, c \in Call : CallOf(s, c) \in pending' <=> CallOf(s, c) \in pending
      BY <3>3, <3>4
    <3>. QED  BY <3>2, <3>5, CallsKept
  <2>2. CASE q.kind = "refresh"
    <3>1. pending' = pending \ {q} /\ outcome' = outcome
      BY <1>3, <2>2 DEF Answered
    <3>2. \A s, c : CallOf(s, c) # q
      BY <2>2, RequestFields
    <3>. QED  BY <3>1, <3>2, CallsKept
  <2>3. CASE q.kind = "call"
    <3>1. /\ outcome' = [outcome EXCEPT ![q.n] = "ok"] /\ pending' = pending \ {q}
      BY <1>3, <2>3 DEF Answered
    <3>2. q.n \in Call /\ q.server \in Server /\ q = CallOf(q.server, q.n)
      BY <2>3, RequestFields
    <3>3. \A c \in Call : (\E s \in Server : CallOf(s, c) \in {q}) <=> c = q.n
      BY <3>2, RequestFields
    <3>4. outcome \in [Call -> {"idle", "waiting", "ok", "failed"}]
      BY DEF SessionTypeOK
    <3>5. outcome' = [c \in Call |-> IF \E s \in Server : CallOf(s, c) \in {q} THEN "ok" ELSE outcome[c]]
      BY <3>1, <3>3, <3>4
    <3>6. {q} \in SUBSET pending /\ pending' = pending \ {q}
      BY <1>3, <3>1
    <3>. HIDE DEF CallsTracked
    <3>. QED  BY <3>4, <3>5, <3>6, CallsRejected
  <2>. QED  BY <2>1, <2>2, <2>3
<1>. QED  BY <1>1, <1>2, <1>3

\* A server that can be reached has not gone.
LEMMA ReachedNotGone ==
    ASSUME OnlyStdioRuns, NEW s \in Server, CanSend(s)
    PROVE  process[s] # "gone"
BY DEF OnlyStdioRuns, CanSend, Stdio

\* What an answer adds to the pending requests goes to a server that is there.
LEMMA AnsweredPending ==
    ASSUME OnlyStdioRuns, NEW q \in Request, NEW ok \in BOOLEAN, NEW v, Answered(q, ok, v)
    PROVE  \A p \in pending' \ pending :
               p = Handshake(q.server, "list") /\ process[p.server] # "gone"
<1>0. q.server \in Server /\ Handshake(q.server, "list").server = q.server
  BY RequestKinds, RequestFields
<1>1. CASE q \notin pending \/ ~ ok
  BY <1>1 DEF Answered
<1>2. CASE q \in pending /\ ok
  <2>. USE RequestKinds
  <2>1. CASE q.kind = "init"
    <3>1. Initialized(q.server)
      BY <1>2, <2>1 DEF Answered
    <3>2. \A p \in pending' \ pending : p = Handshake(q.server, "list") /\ CanSend(q.server)
      BY <3>1 DEF Initialized
    <3>. QED  BY <1>0, <3>2, ReachedNotGone
  <2>2. CASE q.kind = "list"
    BY <1>2, <2>2 DEF Answered, Listed
  <2>3. CASE q.kind = "refresh" \/ q.kind = "call"
    BY <1>2, <2>3 DEF Answered
  <2>. QED  BY <2>1, <2>2, <2>3
<1>. QED  BY <1>1, <1>2

\* No child comes to its end, and what is new among the pending requests goes
\* to a server that is there.
LEMMA NoneGoneKept ==
    ASSUME NoneGone, pending \subseteq Request, \A s \in Server : process'[s] = "gone" => process[s] = "gone",
           \A p \in pending' \ pending : p \in Request /\ process[p.server] # "gone"
    PROVE  NoneGone'
BY RequestKinds DEF NoneGone

LEMMA ExitStep == McpTypeOK /\ PipeInv /\ ExitInv /\ [McpNext]_McpVars => ExitInv'
<1>. SUFFICES ASSUME McpTypeOK, PipeInv, ExitInv, [McpNext]_McpVars PROVE ExitInv'
  OBVIOUS
<1>0. SessionTypeOK /\ OtherTypeOK /\ OnlyStdioRuns /\ PipesOwn /\ NoneGone /\ CallsTracked
      /\ pending \subseteq Request /\ asked \subseteq Request
  BY TypeParts DEF PipeInv, ExitInv, SessionTypeOK, OtherTypeOK
<1>h. \A s \in Server, c \in Call, k \in {"init", "list"}, t \in Server : CallOf(s, c) # Handshake(t, k)
  BY RequestFields
<1>t. \A q \in Request : q.server \in Server
  BY RequestKinds
<1>1. CASE ConnectNext
  <2>1. CASE pending' = pending /\ process' = process
    <3>1. outcome' = outcome
      BY <1>1 DEF ConnectNext
    <3>. QED  BY <1>0, <2>1, <3>1 DEF ExitInv, NoneGone, CallsTracked
  <2>2. CASE ~ (pending' = pending /\ process' = process)
    <3>. DEFINE s == Configs[position + 1]
    <3>1. s \in Server
      <4>1. position = 0 \/ position \in 1..Len(Configs)
        BY <1>1, Constants DEF ConnectNext, Waiting
      <4>2. position # Len(Configs)
        BY <1>1, <2>2 DEF ConnectNext
      <4>. QED  BY <4>1, <4>2, Constants
    <3>2. /\ process' = [process EXCEPT ![s] = IF Stdio(s) THEN "running" ELSE "none"]
          /\ pending' = pending \cup {Handshake(s, "init")}
          /\ outcome' = outcome
      BY <1>1, <2>2 DEF ConnectNext
    <3>. HIDE DEF s
    <3>4. Handshake(s, "init").server = s
      BY RequestFields
    <3>5. \A t \in Server : process'[t] = "gone" => t # s /\ process[t] = "gone"
      BY <1>0, <3>1, <3>2 DEF OtherTypeOK
    <3>6. NoneGone'
      BY <1>0, <1>t, <3>1, <3>2, <3>4, <3>5 DEF NoneGone
    <3>7. CallsTracked'
      BY <1>0, <1>h, <3>1, <3>2, CallsKept
    <3>. QED  BY <3>6, <3>7 DEF ExitInv
  <2>. QED  BY <2>1, <2>2
<1>2. ASSUME NEW q \in Request, NEW ok \in BOOLEAN, NEW v, Answered(q, ok, v), process' = process
      PROVE  ExitInv'
  <2>2. \A p \in pending' \ pending : p \in Request /\ process[p.server] # "gone"
    BY <1>0, <1>2, <1>t, AnsweredPending, RequestNames
  <2>3. NoneGone'
    BY <1>0, <1>2, <2>2, NoneGoneKept
  <2>4. CallsTracked'
    BY <1>0, <1>2, AnsweredCalls
  <2>. QED  BY <2>3, <2>4 DEF ExitInv
<1>3. ASSUME NEW q \in asked, NEW ok \in BOOLEAN, FetchReturns(q, ok)
      PROVE  ExitInv'
  BY <1>0, <1>2, <1>3 DEF FetchReturns
<1>4. ASSUME NEW s \in Server, NEW ok \in BOOLEAN, FetchList(s, ok)
      PROVE  ExitInv'
  <2>1. process' = process /\ outcome' = outcome
        /\ pending \ {Handshake(s, "list")} \subseteq pending' /\ pending' \subseteq pending
    BY <1>4 DEF FetchList, Listed
  <2>2. NoneGone'
    BY <1>0, <2>1 DEF NoneGone
  <2>3. CallsTracked'
    BY <1>0, <1>h, <2>1, CallsKept
  <2>. QED  BY <2>2, <2>3 DEF ExitInv
<1>5. ASSUME UNCHANGED <<process, pending, outcome>>
      PROVE  ExitInv'
  BY <1>0, <1>5 DEF ExitInv, NoneGone, CallsTracked
<1>6. ASSUME NEW q \in pending, Timeout(q)
      PROVE  ExitInv'
  <2>1. process' = process /\ pending' = pending \ {q} /\ Rejects({q})
    BY <1>6 DEF Timeout
  <2>2. NoneGone'
    BY <1>0, <2>1 DEF NoneGone
  <2>3. CallsTracked'
    BY <1>0, <2>1, RejectsCalls
  <2>. QED  BY <2>2, <2>3 DEF ExitInv
<1>7. ASSUME NEW s \in Server, DeliverAnswer(s)
      PROVE  ExitInv'
  <2>1. Head(out[s]) \in Message
    BY <1>0, <1>7, PipeTyped DEF DeliverAnswer
  <2>2. Head(out[s]).request \in Request /\ Head(out[s]).ok \in BOOLEAN
    BY <2>1, MessageFields
  <2>. QED  BY <1>2, <1>7, <2>2 DEF DeliverAnswer
<1>8. ASSUME NEW s \in Server, DeliverChange(s)
      PROVE  ExitInv'
  <2>. DEFINE q == Head(out[s]).request
  <2>1. process' = process /\ outcome' = outcome
        /\ (pending' = pending \/ (CanSend(s) /\ pending' = pending \cup {q}))
    BY <1>8 DEF DeliverChange
  <2>2. out[s] # <<>> /\ Head(out[s]).notified /\ out[s] \in Seq(Message)
    BY <1>0, <1>8 DEF DeliverChange, OtherTypeOK
  <2>3. q.server = s /\ q = Refresh(s, Head(out[s]).version) /\ q \in Request
    <3>1. Head(out[s]) \in ToSet(out[s])
      BY <2>2, PipeElements
    <3>2. Head(out[s]) \in Message
      BY <1>0, <2>2, PipeTyped
    <3>3. q \in Request
      BY <3>2, MessageFields
    <3>4. /\ Head(out[s]).request.server = s
          /\ Head(out[s]).notified => Head(out[s]).request = Refresh(s, Head(out[s]).version)
      BY <1>0, <3>1 DEF PipesOwn
    <3>. QED  BY <2>2, <3>3, <3>4
  <2>. HIDE DEF q
  <2>4. NoneGone'
    BY <1>0, <2>1, <2>3, ReachedNotGone DEF NoneGone
  <2>5. \A t \in Server, c \in Call : CallOf(t, c) # q
    BY <2>3, RequestFields
  <2>6. CallsTracked'
    BY <1>0, <2>1, <2>5, CallsKept
  <2>. QED  BY <2>4, <2>6 DEF ExitInv
<1>9. ASSUME NEW s \in Server, ProcessExits(s)
      PROVE  ExitInv'
  <2>1. pending' = {} /\ pending' = pending \ pending /\ Rejects(pending)
    BY <1>9 DEF ProcessExits
  <2>2. CallsTracked'
    BY <1>0, <2>1, RejectsCalls
  <2>. QED  BY <2>1, <2>2 DEF ExitInv, NoneGone
<1>10. ASSUME NEW s \in Server, SpawnFails(s) \/ Overflow(s) \/ Disconnect(s)
       PROVE  ExitInv'
  <2>1. UNCHANGED <<pending, outcome>>
        /\ (process' = process \/ \E x \in {"failed", "killed", "terminated"} :
                                     process' = [process EXCEPT ![s] = x])
    BY <1>10 DEF SpawnFails, Overflow, Disconnect
  <2>2. \A t \in Server : process'[t] = "gone" => process[t] = "gone"
    BY <1>0, <2>1 DEF OtherTypeOK
  <2>3. NoneGone'
    BY <1>0, <2>1, <2>2, NoneGoneKept
  <2>4. CallsTracked'
    BY <1>0, <2>1, CallsKept
  <2>. QED  BY <2>3, <2>4 DEF ExitInv
<1>11. ASSUME NEW s \in Server, NEW c \in Call, CallTool(s, c)
       PROVE  ExitInv'
  <2>1. outcome[c] = "idle" /\ process' = process
        /\ \/ /\ CanSend(s) /\ outcome' = [outcome EXCEPT ![c] = "waiting"]
              /\ pending' = pending \cup {CallOf(s, c)}
           \/ outcome' = [outcome EXCEPT ![c] = "failed"] /\ pending' = pending
    BY <1>11 DEF CallTool
  <2>2. CallOf(s, c).server = s
    BY RequestFields
  <2>3. NoneGone'
    BY <1>0, <2>1, <2>2, ReachedNotGone DEF NoneGone
  <2>4. \A t \in Server : CallOf(t, c) \notin pending
    BY <1>0, <2>1 DEF CallsTracked
  <2>5. \A t \in Server, d \in Call : CallOf(t, d) = CallOf(s, c) => t = s /\ d = c
    BY RequestFields
  <2>6. outcome \in [Call -> {"idle", "waiting", "ok", "failed"}]
    BY <1>0 DEF SessionTypeOK
  <2>7. CASE outcome' = [outcome EXCEPT ![c] = "failed"] /\ pending' = pending
    <3>1. CallsTracked'
      BY <1>0, <2>1, <2>4, <2>6, <2>7 DEF CallsTracked
    <3>. QED  BY <2>3, <3>1 DEF ExitInv
  <2>8. CASE outcome' = [outcome EXCEPT ![c] = "waiting"] /\ pending' = pending \cup {CallOf(s, c)}
    <3>1. \A d \in Call : outcome'[d] = "waiting" <=> \E t \in Server : CallOf(t, d) \in pending'
      BY <1>0, <2>4, <2>5, <2>6, <2>8 DEF CallsTracked
    <3>2. \A d \in Call, t, u \in Server :
              CallOf(t, d) \in pending' /\ CallOf(u, d) \in pending' => t = u
      BY <1>0, <2>4, <2>5, <2>8 DEF CallsTracked
    <3>. QED  BY <2>3, <3>1, <3>2 DEF ExitInv, CallsTracked
  <2>. QED  BY <2>1, <2>7, <2>8
<1>12. ASSUME NEW s \in Server, ListChanges(s)
       PROVE  ExitInv'
  BY <1>5, <1>12 DEF ListChanges
<1>13. ASSUME NEW q \in asked, NEW ok \in BOOLEAN, ServerAnswers(q, ok)
       PROVE  ExitInv'
  BY <1>5, <1>13 DEF ServerAnswers
<1>14. CASE UNCHANGED McpVars
  BY <1>5, <1>14 DEF McpVars
<1>. QED
  BY <1>1, <1>3, <1>4, <1>6, <1>7, <1>8, <1>9, <1>10, <1>11, <1>12, <1>13, <1>14
  DEF McpNext, Fetches, TimersFire

\* No request waits for a child whose exit was reported, and a caller waits
\* exactly as long as its request is pending ('exit' of connectStdio, and the
\* entries of pendingRequests that sendRequest makes).
THEOREM ExitsSettle == McpSpec => []ExitSettles
<1>1. McpInit => McpTypeOK /\ PipeInv /\ ExitInv
  BY McpStarts, PipeStarts, ExitStarts
<1>2. McpTypeOK /\ PipeInv /\ ExitInv /\ [McpNext]_McpVars => (McpTypeOK /\ PipeInv /\ ExitInv)'
  BY McpTypeStep, PipeStep, ExitStep
<1>3. ExitInv => ExitSettles
  BY DEF ExitInv, NoneGone, CallsTracked, ExitSettles
<1>. QED  BY <1>1, <1>2, <1>3, PTL DEF McpSpec

-----------------------------------------------------------------------------
(* Tool lists.                                                             *)

\* No message of a pipe is of an older list than one before it, none is older
\* than the tools the client has or newer than the list, and the answer to a
\* refresh is not older than the notification that caused it.
Sorted(p) == \A i, j \in 1..Len(p) : i <= j => p[i].version <= p[j].version
Between(m, low, high) ==
    /\ low <= m.version /\ m.version <= high
    /\ m.request.kind = "refresh" => m.request.n <= m.version
PipesOrdered ==
    \A s \in Server :
        /\ tools[s] <= list[s] /\ Sorted(out[s])
        /\ \A m \in ToSet(out[s]) : Between(m, tools[s], list[s])
AskedKnown == \A q \in asked : q.kind = "refresh" => q.n <= list[q.server]
OrderInv == PipesOrdered /\ AskedKnown

LEMMA MessageNumbers == \A m \in Message : m.version \in Version /\ m.version \in Nat
<1>1. \A m \in Message : m.version \in Version
  BY DEF Message
<1>. QED  BY <1>1, Constants

LEMMA SortedEmpty == Sorted(<<>>)
BY EmptySeq DEF Sorted

LEMMA SortedAppend ==
    ASSUME NEW p \in Seq(Message), Sorted(p), NEW m \in Message,
           \A x \in ToSet(p) : x.version <= m.version
    PROVE  Sorted(Append(p, m))
<1>1. Len(p) \in Nat /\ Len(Append(p, m)) = Len(p) + 1 /\ DOMAIN p = 1..Len(p)
  BY AppendProperties, LenProperties
<1>2. \A i \in 1..(Len(p) + 1) : Append(p, m)[i] = IF i = Len(p) + 1 THEN m ELSE p[i]
  BY <1>1, AppendProperties
<1>3. \A i \in 1..Len(p) : p[i].version <= m.version
  BY <1>1 DEF ToSet
<1>4. m.version <= m.version
  BY MessageNumbers
<1>. QED  BY <1>1, <1>2, <1>3, <1>4 DEF Sorted

LEMMA SortedTail ==
    ASSUME NEW p \in Seq(Message), Sorted(p), p # <<>>
    PROVE  /\ Sorted(Tail(p))
           /\ \A x \in ToSet(Tail(p)) : Head(p).version <= x.version
<1>1. /\ Len(p) \in Nat \ {0} /\ Tail(p) \in Seq(Message) /\ Len(Tail(p)) = Len(p) - 1
      /\ Head(p) = p[1] /\ DOMAIN Tail(p) = 1..(Len(p) - 1)
  BY HeadTailProperties, LenProperties, EmptySeq
<1>2. \A i \in 1..(Len(p) - 1) : Tail(p)[i] = p[i + 1]
  BY HeadTailProperties
<1>3. \A i \in 1..(Len(p) - 1) : i + 1 \in 1..Len(p) /\ 1 \in 1..Len(p) /\ 1 <= i + 1
  BY <1>1
<1>4. \A i \in 1..(Len(p) - 1) : Head(p).version <= Tail(p)[i].version
  BY <1>1, <1>2, <1>3 DEF Sorted
<1>5. ASSUME NEW i \in 1..(Len(p) - 1), NEW j \in 1..(Len(p) - 1), i <= j
      PROVE  Tail(p)[i].version <= Tail(p)[j].version
  <2>1. i + 1 <= j + 1
    BY <1>1, <1>5
  <2>. QED  BY <1>2, <1>3, <2>1 DEF Sorted
<1>. QED  BY <1>1, <1>4, <1>5 DEF Sorted, ToSet

LEMMA OrderStarts == McpInit => OrderInv
BY Constants, SortedEmpty, EmptySeq DEF McpInit, OrderInv, PipesOrdered, AskedKnown, ToSet, Version

\* The tools a server has when one of its messages is handled.
LEMMA AnsweredTools ==
    ASSUME NEW q \in Request, NEW ok \in BOOLEAN, NEW v, Answered(q, ok, v)
    PROVE  tools' = tools \/ tools' = [tools EXCEPT ![q.server] = v]
<1>. USE RequestKinds
<1>1. CASE q \notin pending \/ ~ ok
  BY <1>1 DEF Answered, sessionVars
<1>2. CASE q \in pending /\ ok
  <2>1. CASE q.kind = "init"
    BY <1>2, <2>1 DEF Answered, Initialized
  <2>2. CASE q.kind = "list"
    BY <1>2, <2>2 DEF Answered, Listed
  <2>3. CASE q.kind = "refresh" \/ q.kind = "call"
    BY <1>2, <2>3 DEF Answered, sessionVars
  <2>. QED  BY <2>1, <2>2, <2>3
<1>. QED  BY <1>1, <1>2

LEMMA Numbers ==
    ASSUME OtherTypeOK, SessionTypeOK, NEW s \in Server
    PROVE  /\ list[s] \in Version /\ list[s] \in Nat /\ tools[s] \in Nat
           /\ out[s] \in Seq(Message)
           /\ \A m \in ToSet(out[s]) : m \in Message /\ m.version \in Nat
<1>1. list[s] \in Version /\ tools[s] \in 0..MaxVersion /\ out[s] \in Seq(Message)
  BY DEF OtherTypeOK, SessionTypeOK
<1>2. \A m \in ToSet(out[s]) : m \in Message
  BY <1>1, LenProperties DEF ToSet
<1>3. list[s] \in Nat
  BY <1>1, Constants
<1>4. tools[s] \in Nat
  BY <1>1, McpAssumption
<1>. QED  BY <1>1, <1>2, <1>3, <1>4, MessageNumbers

\* A server that has no pipe gets a list no older than the one it has.
LEMMA OrderFetched ==
    ASSUME OtherTypeOK, SessionTypeOK, PipeInv, OrderInv, NEW s \in Server, ~ Stdio(s),
           tools' = tools \/ tools' = [tools EXCEPT ![s] = list[s]],
           UNCHANGED <<out, list>>, asked' \subseteq asked
    PROVE  OrderInv'
<1>1. AskedKnown'
  BY DEF OrderInv, AskedKnown
<1>2. ASSUME NEW t \in Server
      PROVE  /\ tools'[t] <= list[t] /\ Sorted(out[t])
             /\ \A m \in ToSet(out[t]) : Between(m, tools'[t], list[t])
  <2>1. CASE tools'[t] = tools[t]
    BY <2>1 DEF OrderInv, PipesOrdered
  <2>2. CASE t = s /\ tools'[t] = list[t]
    <3>1. out[t] = <<>> /\ list[t] <= list[t]
      BY <2>2, Numbers DEF PipeInv, OnlyStdioRuns
    <3>. QED  BY <2>2, <3>1, SortedEmpty, EmptySeq DEF ToSet
  <2>. QED  BY <2>1, <2>2 DEF SessionTypeOK
<1>. QED  BY <1>1, <1>2 DEF OrderInv, PipesOrdered

\* A message of the current list goes into a pipe.
LEMMA OrderPut ==
    ASSUME OtherTypeOK, SessionTypeOK, OrderInv, NEW s \in Server, NEW m \in Message,
           out' = [out EXCEPT ![s] = Append(out[s], m)], tools' = tools,
           list' = list \/ list' = [list EXCEPT ![s] = list[s] + 1],
           m.version = list'[s],
           m.request.kind = "refresh" => m.request.n <= m.version
    PROVE  PipesOrdered'
<1>0. /\ list'[s] \in Nat /\ list[s] <= list'[s] /\ out[s] \in Seq(Message)
      /\ \A t \in Server : t # s => out'[t] = out[t] /\ list'[t] = list[t]
      /\ out'[s] = Append(out[s], m)
  BY Numbers DEF OtherTypeOK
<1>1. \A x \in ToSet(out[s]) : x.version <= m.version /\ Between(x, tools[s], list'[s])
  BY <1>0, Numbers DEF OrderInv, PipesOrdered, Between
<1>2. Sorted(out'[s])
  BY <1>0, <1>1, SortedAppend DEF OrderInv, PipesOrdered
<1>3. tools[s] <= list'[s]
  BY <1>0, Numbers DEF OrderInv, PipesOrdered
<1>4. Between(m, tools[s], list'[s])
  BY <1>0, <1>3 DEF Between
<1>5. \A x \in ToSet(out'[s]) : Between(x, tools[s], list'[s])
  BY <1>0, <1>1, <1>4, PipeElements
<1>. QED  BY <1>0, <1>2, <1>3, <1>5 DEF OrderInv, PipesOrdered

\* The first message is taken, and the tools may become the ones it brings.
LEMMA OrderTaken ==
    ASSUME OtherTypeOK, SessionTypeOK, OrderInv, NEW s \in Server, PipeTaken(s),
           tools' = tools \/ tools' = [tools EXCEPT ![s] = Head(out[s]).version]
    PROVE  PipesOrdered'
<1>0. /\ out[s] \in Seq(Message) /\ out[s] # <<>> /\ list' = list /\ out'[s] = Tail(out[s])
      /\ \A t \in Server : t # s => out'[t] = out[t] /\ tools'[t] = tools[t]
      /\ tools'[s] = tools[s] \/ tools'[s] = Head(out[s]).version
  BY Numbers DEF PipeTaken, OtherTypeOK, SessionTypeOK
<1>1. Head(out[s]) \in ToSet(out[s]) /\ ToSet(Tail(out[s])) \subseteq ToSet(out[s])
  BY <1>0, PipeElements
<1>2. Sorted(out'[s]) /\ \A x \in ToSet(out'[s]) : Head(out[s]).version <= x.version
  BY <1>0, SortedTail DEF OrderInv, PipesOrdered
<1>3. tools'[s] <= list[s]
  BY <1>0, <1>1 DEF OrderInv, PipesOrdered, Between
<1>4. \A x \in ToSet(out'[s]) : Between(x, tools'[s], list[s])
  BY <1>0, <1>1, <1>2 DEF OrderInv, PipesOrdered, Between
<1>. QED  BY <1>0, <1>2, <1>3, <1>4 DEF OrderInv, PipesOrdered

LEMMA OrderStep == McpTypeOK /\ PipeInv /\ OrderInv /\ [McpNext]_McpVars => OrderInv'
<1>. SUFFICES ASSUME McpTypeOK, PipeInv, OrderInv, [McpNext]_McpVars PROVE OrderInv'
  OBVIOUS
<1>0. /\ SessionTypeOK /\ OtherTypeOK /\ asked \subseteq Request
      /\ PipesOrdered /\ AskedKnown /\ PipesOwn
  BY TypeParts DEF OtherTypeOK, OrderInv, PipeInv
<1>1. ASSUME UNCHANGED <<tools, out, list>>,
             \A q \in asked' \ asked : q.kind # "refresh"
      PROVE  OrderInv'
  BY <1>0, <1>1 DEF OrderInv, PipesOrdered, AskedKnown
<1>2. CASE ConnectNext
  <2>1. UNCHANGED <<tools, out, list>>
    BY <1>2 DEF ConnectNext, sessionVars
  <2>2. \A q \in asked' \ asked : \E s : q = Handshake(s, "init")
    BY <1>2 DEF ConnectNext
  <2>. QED  BY <1>1, <2>1, <2>2, RequestFields
<1>3. ASSUME NEW q \in asked, NEW ok \in BOOLEAN, FetchReturns(q, ok)
      PROVE  OrderInv'
  <2>1. q \in Request /\ q.server \in Server
    BY <1>0, RequestKinds
  <2>2. tools' = tools \/ tools' = [tools EXCEPT ![q.server] = list[q.server]]
    BY <1>3, <2>1, AnsweredTools DEF FetchReturns
  <2>. QED  BY <1>0, <1>3, <2>1, <2>2, OrderFetched DEF FetchReturns
<1>4. ASSUME NEW s \in Server, NEW ok \in BOOLEAN, FetchList(s, ok)
      PROVE  OrderInv'
  BY <1>0, <1>4, OrderFetched DEF FetchList, Listed, serverVars
<1>5. ASSUME NEW q \in asked, NEW ok \in BOOLEAN, ServerAnswers(q, ok)
      PROVE  OrderInv'
  <2>. DEFINE s == q.server
              m == Answer(q, ok, list[s])
  <2>1. q \in Request /\ s \in Server
    BY <1>0, RequestKinds
  <2>2. m \in Message /\ m.version = list[s] /\ m.request = q
    BY <1>0, <2>1, MessageFields, Numbers
  <2>3. out' = [out EXCEPT ![s] = Append(out[s], m)] /\ tools' = tools /\ list' = list
        /\ asked' \subseteq asked
    BY <1>5 DEF ServerAnswers, sessionVars
  <2>4. PipesOrdered'
    BY <1>0, <2>1, <2>2, <2>3, OrderPut DEF AskedKnown
  <2>5. AskedKnown'
    BY <1>0, <2>3 DEF AskedKnown
  <2>. QED  BY <2>4, <2>5 DEF OrderInv
<1>6. ASSUME NEW s \in Server, ListChanges(s)
      PROVE  OrderInv'
  <2>. DEFINE m == Changed(s, list[s] + 1)
  <2>1. list' = [list EXCEPT ![s] = list[s] + 1] /\ list'[s] = list[s] + 1 /\ list[s] + 1 \in Version
    BY <1>0, <1>6, Constants DEF ListChanges, OtherTypeOK, Version
  <2>2. m \in Message /\ m.version = list'[s] /\ m.request.kind = "refresh" /\ m.request.n = m.version
    BY <2>1, MessageFields, RequestFields
  <2>3. out' = [out EXCEPT ![s] = Append(out[s], m)] /\ tools' = tools /\ asked' = asked
    BY <1>6, <2>1 DEF ListChanges, sessionVars
  <2>4. m.request.n <= m.version
    BY <2>2, MessageNumbers
  <2>5. PipesOrdered'
    BY <1>0, <2>1, <2>2, <2>3, <2>4, OrderPut
  <2>6. \A q \in asked : q.server \in Server /\ (q.kind = "refresh" => q.n \in Nat)
    BY <1>0, RequestKinds, Constants
  <2>7. \A t \in Server : list[t] <= list'[t] /\ list[t] \in Nat /\ list'[t] \in Nat
    BY <1>0, <2>1, Numbers DEF OtherTypeOK
  <2>8. AskedKnown'
    BY <1>0, <2>3, <2>6, <2>7 DEF AskedKnown
  <2>. QED  BY <2>5, <2>8 DEF OrderInv
<1>7. ASSUME NEW s \in Server, DeliverAnswer(s)
      PROVE  OrderInv'
  <2>. DEFINE msg == Head(out[s])
  <2>1. PipeTaken(s) /\ out[s] # <<>> /\ out[s] \in Seq(Message)
    BY <1>0, <1>7 DEF DeliverAnswer, PipeTaken, OtherTypeOK
  <2>2. msg \in Message /\ msg.request \in Request /\ msg.ok \in BOOLEAN /\ msg.request.server = s
    <3>1. msg \in Message /\ msg \in ToSet(out[s])
      BY <1>0, <2>1, PipeTyped, PipeElements
    <3>2. msg.request.server = s
      BY <1>0, <3>1 DEF PipesOwn
    <3>. QED  BY <3>1, <3>2, MessageFields
  <2>3. /\ Answered(msg.request, msg.ok, msg.version)
        /\ asked' = asked \cup AskedAfter(msg.request, msg.ok) /\ list' = list
    BY <1>7 DEF DeliverAnswer
  <2>4. tools' = tools \/ tools' = [tools EXCEPT ![s] = msg.version]
    BY <2>2, <2>3, AnsweredTools
  <2>5. PipesOrdered'
    BY <1>0, <2>1, <2>4, OrderTaken
  <2>6. \A q \in AskedAfter(msg.request, msg.ok) : q.kind # "refresh"
    BY RequestFields DEF AskedAfter
  <2>7. AskedKnown'
    BY <1>0, <2>3, <2>6 DEF AskedKnown
  <2>. QED  BY <2>5, <2>7 DEF OrderInv
<1>8. ASSUME NEW s \in Server, DeliverChange(s)
      PROVE  OrderInv'
  <2>. DEFINE q == Head(out[s]).request
  <2>1. PipeTaken(s) /\ out[s] # <<>> /\ out[s] \in Seq(Message) /\ tools' = tools /\ list' = list
        /\ asked' \subseteq asked \cup {q}
    BY <1>0, <1>8 DEF DeliverChange, PipeTaken, OtherTypeOK, sessionVars
  <2>2. PipesOrdered'
    BY <1>0, <2>1, OrderTaken
  <2>3. Head(out[s]) \in ToSet(out[s]) /\ q.server = s
    BY <1>0, <2>1, PipeElements DEF PipesOwn
  <2>4. q.kind = "refresh" => q.n <= list[s]
    <3>1. Between(Head(out[s]), tools[s], list[s])
      BY <1>0, <2>3 DEF PipesOrdered
    <3>2. Head(out[s]).version \in Nat /\ list[s] \in Nat /\ (q.kind = "refresh" => q.n \in Nat)
      BY <1>0, <2>3, Numbers, MessageFields, RequestKinds, Constants
    <3>. QED  BY <3>1, <3>2 DEF Between
  <2>5. AskedKnown'
    BY <1>0, <2>1, <2>3, <2>4 DEF AskedKnown
  <2>. QED  BY <2>2, <2>5 DEF OrderInv
<1>9. ASSUME NEW s \in Server, Overflow(s)
      PROVE  OrderInv'
  <2>1. out' = [out EXCEPT ![s] = <<>>] /\ UNCHANGED <<tools, list, asked>>
    BY <1>9 DEF Overflow
  <2>2. \A t \in Server : out'[t] = out[t] \/ out'[t] = <<>>
    BY <1>0, <2>1 DEF OtherTypeOK
  <2>3. ToSet(<<>>) = {}
    BY EmptySeq DEF ToSet
  <2>4. PipesOrdered'
    BY <1>0, <2>1, <2>2, <2>3, SortedEmpty DEF PipesOrdered
  <2>. QED  BY <1>0, <2>1, <2>4 DEF OrderInv, AskedKnown
<1>10. ASSUME NEW s \in Server, ProcessExits(s) \/ SpawnFails(s) \/ Disconnect(s)
       PROVE  OrderInv'
  BY <1>1, <1>10 DEF ProcessExits, SpawnFails, Disconnect, serverVars
<1>11. ASSUME NEW s \in Server, NEW c \in Call, CallTool(s, c)
       PROVE  OrderInv'
  <2>1. UNCHANGED <<tools, out, list>> /\ asked' \subseteq asked \cup {CallOf(s, c)}
    BY <1>11 DEF CallTool, sessionVars
  <2>. QED  BY <1>1, <2>1, RequestFields
<1>12. ASSUME NEW q \in pending, Timeout(q)
       PROVE  OrderInv'
  BY <1>1, <1>12 DEF Timeout, serverVars
<1>13. CASE UNCHANGED McpVars
  BY <1>1, <1>13 DEF McpVars, sessionVars, serverVars
<1>. QED
  BY <1>2, <1>3, <1>4, <1>5, <1>6, <1>7, <1>8, <1>9, <1>10, <1>11, <1>12, <1>13
  DEF McpNext, Fetches, TimersFire

-----------------------------------------------------------------------------
(* Children.                                                               *)

\* A server whose turn has not come has no child, and a stdio server without
\* a child was asked nothing and sent nothing.
NotYet == \A i \in 1..Len(Configs) : i > position => process[Configs[i]] = "none"
Unborn ==
    \A s \in Server : Stdio(s) /\ process[s] = "none" =>
        /\ out[s] = <<>> /\ list[s] = 1
        /\ \A q \in pending \cup asked : q.server # s

\* A child that has not answered initialize, or was never spawned, is not
\* waited for by tools/list; one that was killed is not listened to; and a
\* connected server has a child and has listed its tools.
Spawning ==
    \A s \in Server : Stdio(s) =>
        /\ Handshake(s, "init") \in asked \/ process[s] = "failed" =>
               Handshake(s, "list") \notin pending
        /\ Handshake(s, "init") \in asked =>
               \A m \in ToSet(out[s]) : m.request # Handshake(s, "init")
Killed == \A s \in Server : process[s] = "killed" => out[s] = <<>>
ConnectedRuns ==
    \A s \in Server : Stdio(s) /\ state[s] = "connected" =>
        process[s] \in {"running", "terminated"} /\ tools[s] >= 1
ChildInv == NotYet /\ Unborn /\ Spawning /\ Killed /\ ConnectedRuns

LEMMA ChildStarts == McpInit => ChildInv
BY Constants, EmptySeq
DEF McpInit, ChildInv, NotYet, Unborn, Spawning, Killed, ConnectedRuns

\* No child changes: what is put into a pipe is put there by a child that
\* runs, what is asked is asked of a child that runs, and who becomes
\* connected has one.
LEMMA ChildKept ==
    ASSUME OtherTypeOK, ChildInv, position' = position, process' = process,
           \A s \in Server : process[s] \notin {"running", "terminated"} /\ out[s] = <<>> =>
               out'[s] = <<>> /\ list'[s] = list[s],
           \A s \in Server : Handshake(s, "init") \in asked' =>
               /\ Handshake(s, "init") \in asked
               /\ \A m \in ToSet(out'[s]) : m \in ToSet(out[s]) \/ m.request # Handshake(s, "init"),
           \A q \in (pending' \cup asked') : q \in pending \cup asked
               \/ (Stdio(q.server) => process[q.server] = "running"),
           \A s \in Server : Stdio(s) /\ Handshake(s, "list") \in pending' =>
               \/ Handshake(s, "list") \in pending
               \/ process[s] # "failed" /\ Handshake(s, "init") \notin asked,
           \A s \in Server : Stdio(s) /\ state'[s] = "connected" =>
               tools'[s] >= 1 /\ (state[s] = "connected" \/ process[s] \in {"running", "terminated"})
    PROVE  ChildInv'
<1>1. NotYet'
  BY DEF ChildInv, NotYet
<1>2. Unborn'
  BY DEF ChildInv, Unborn, Stdio
<1>3. Spawning'
  BY DEF ChildInv, Spawning, Stdio
<1>4. Killed'
  BY DEF ChildInv, Killed
<1>5. ConnectedRuns'
  BY DEF ChildInv, ConnectedRuns, Stdio
<1>. QED  BY <1>1, <1>2, <1>3, <1>4, <1>5 DEF ChildInv

\* A child comes to the end x.
LEMMA ChildEnds ==
    ASSUME OtherTypeOK, ChildInv, position' = position, list' = list, tools' = tools,
           NEW s \in Server, process[s] # "none",
           NEW x \in {"terminated", "gone", "failed", "killed"},
           process' = [process EXCEPT ![s] = x],
           x = "terminated" => process[s] = "running",
           x = "failed" => Handshake(s, "init") \in asked,
           x = "killed" => out'[s] = <<>>,
           x # "terminated" => state'[s] # "connected",
           out' = out \/ out' = [out EXCEPT ![s] = <<>>],
           asked' \subseteq asked, pending' \subseteq pending,
           \A t \in Server : state'[t] = "connected" => state[t] = "connected"
    PROVE  ChildInv'
<1>0. /\ process'[s] = x /\ \A t \in Server : t # s => process'[t] = process[t] /\ out'[t] = out[t]
      /\ out'[s] = out[s] \/ out'[s] = <<>>
      /\ ToSet(<<>>) = {}
  BY EmptySeq DEF OtherTypeOK, ToSet
<1>1. NotYet'
  BY <1>0, Constants DEF ChildInv, NotYet
<1>2. Unborn'
  BY <1>0 DEF ChildInv, Unborn, Stdio
<1>3. Spawning'
  BY <1>0 DEF ChildInv, Spawning, Stdio
<1>4. Killed'
  BY <1>0 DEF ChildInv, Killed
<1>5. ConnectedRuns'
  BY <1>0 DEF ChildInv, ConnectedRuns, Stdio
<1>. QED  BY <1>1, <1>2, <1>3, <1>4, <1>5 DEF ChildInv

\* Rejecting requests connects nobody.
LEMMA RejectedStates ==
    ASSUME SessionTypeOK, NEW Q, NEW s \in Server, StateAfter(Q)[s] = "connected"
    PROVE  state[s] = "connected"
BY DEF StateAfter, SessionTypeOK

\* The first request to a server, and the pipe of the others.
LEMMA ChildConnects == McpTypeOK /\ PipeInv /\ ChildInv /\ ConnectNext => ChildInv'
<1>. SUFFICES ASSUME McpTypeOK, PipeInv, ChildInv, ConnectNext PROVE ChildInv'
  OBVIOUS
<1>0. /\ OtherTypeOK /\ SessionTypeOK /\ NotYet /\ Unborn /\ Spawning /\ Killed /\ ConnectedRuns
      /\ position' = position + 1 /\ position \in Nat
      /\ UNCHANGED <<out, list>>
      /\ position = 0 \/ position \in 1..Len(Configs)
  BY SMTT(40), TypeParts, Constants DEF ChildInv, ConnectNext, OtherTypeOK, Waiting
<1>1. CASE UNCHANGED <<state, tools, process, pending, asked>>
  <2>1. NotYet'
    BY <1>0, <1>1, Constants DEF NotYet
  <2>. QED
    BY <1>0, <1>1, <2>1 DEF ChildInv, Unborn, Spawning, Killed, ConnectedRuns, Stdio
<1>2. CASE ~ UNCHANGED <<state, tools, process, pending, asked>>
  <2>. DEFINE s == Configs[position + 1]
              q == Handshake(s, "init")
  <2>1. position # Len(Configs) /\ position + 1 \in 1..Len(Configs)
    <3>1. position # Len(Configs)
      BY <1>2 DEF ConnectNext, sessionVars
    <3>2. position \in Nat /\ (position = 0 \/ position \in 1..Len(Configs)) /\ Len(Configs) \in Nat
      BY <1>0, Constants
    <3>. QED  BY <3>1, <3>2
  <2>2. /\ state' = [state EXCEPT ![s] = "connecting"]
        /\ process' = [process EXCEPT ![s] = IF Stdio(s) THEN "running" ELSE "none"]
        /\ pending' = pending \cup {q}
        /\ asked' = asked \cup {q}
        /\ tools' = tools
    BY <1>2, <2>1 DEF ConnectNext
  <2>3. s \in Server /\ process[s] = "none" /\ q.server = s /\ q.kind = "init"
        /\ \A i \in 1..Len(Configs) : i > position + 1 => Configs[i] # s
    <3>1. s \in Server /\ position + 1 > position
      <4>1. position \in Nat
        BY <1>0
      <4>2. s \in Server
        BY <2>1, Constants
      <4>. QED  BY <4>1, <4>2
    <3>2. process[s] = "none"
      BY <1>0, <2>1, <3>1 DEF NotYet
    <3>3. \A i \in 1..Len(Configs) : i > position + 1 => Configs[i] # s
      <4>1. position \in Nat
        BY <1>0
      <4>2. \A i \in 1..Len(Configs) : i > position + 1 => i # position + 1
        BY <4>1
      <4>3. \A i, j \in 1..Len(Configs) : Configs[i] = Configs[j] => i = j
        BY Constants
      <4>. QED  BY <2>1, <4>2, <4>3
    <3>. QED  BY <3>1, <3>2, <3>3, RequestFields
  <2>. HIDE DEF s, q
  <2>4. /\ process'[s] = IF Stdio(s) THEN "running" ELSE "none"
        /\ state'[s] = "connecting"
        /\ \A t \in Server : t # s => process'[t] = process[t] /\ state'[t] = state[t]
    BY <1>0, <2>2, <2>3 DEF OtherTypeOK, SessionTypeOK
  <2>5. NotYet'
    BY <1>0, <2>3, <2>4, Constants DEF NotYet
  <2>6. Unborn'
    BY <1>0, <2>2, <2>3, <2>4 DEF Unborn, Stdio
  <2>7. Spawning'
    <3>1. \A t \in Server : t # s => Handshake(t, "init") # q
      BY <2>3, RequestFields
    <3>2. \A t \in Server : Handshake(t, "list") # q
      BY <2>3, RequestFields
    <3>3. Stdio(s) => out[s] = <<>> /\ Handshake(s, "list") \notin pending
      BY <1>0, <2>3, RequestFields DEF Unborn
    <3>4. ToSet(<<>>) = {}
      BY EmptySeq DEF ToSet
    <3>. QED  BY <1>0, <2>2, <2>3, <2>4, <3>1, <3>2, <3>3, <3>4 DEF Spawning, Stdio
  <2>8. Killed'
    BY <1>0, <2>3, <2>4 DEF Killed
  <2>9. ConnectedRuns'
    BY <1>0, <2>2, <2>3, <2>4 DEF ConnectedRuns, Stdio
  <2>. QED  BY <2>5, <2>6, <2>7, <2>8, <2>9 DEF ChildInv
<1>. QED  BY <1>1, <1>2

LEMMA ChildStep == McpTypeOK /\ PipeInv /\ OrderInv /\ ExitInv /\ ChildInv /\ [McpNext]_McpVars => ChildInv'
<1>. SUFFICES ASSUME McpTypeOK, PipeInv, OrderInv, ExitInv, ChildInv, [McpNext]_McpVars
              PROVE  ChildInv'
  OBVIOUS
<1>0. /\ SessionTypeOK /\ OtherTypeOK /\ asked \subseteq Request /\ pending \subseteq Request
      /\ OnlyStdioRuns /\ PipesOwn /\ PipesOrdered /\ NoneGone
      /\ Unborn /\ Spawning /\ Killed /\ ConnectedRuns
  BY TypeParts DEF SessionTypeOK, OtherTypeOK, PipeInv, OrderInv, ExitInv, ChildInv
<1>1. CASE ConnectNext
  BY <1>1, ChildConnects
\* Nothing is put into a pipe, asked or connected.
<1>q. ASSUME position' = position, process' = process, UNCHANGED <<out, list>>,
             asked' \subseteq asked, pending' \subseteq pending,
             \A s \in Server : Stdio(s) => tools'[s] = tools[s],
             \A s \in Server : Stdio(s) /\ state'[s] = "connected" => state[s] = "connected"
      PROVE  ChildInv'
  <2>1. \A s \in Server : Stdio(s) /\ state'[s] = "connected" =>
            tools'[s] >= 1 /\ state[s] = "connected"
    BY <1>0, <1>q DEF ConnectedRuns
  <2>. QED  BY <1>0, <1>q, <2>1, ChildKept
<1>2. ASSUME NEW q \in asked, NEW ok \in BOOLEAN, FetchReturns(q, ok)
      PROVE  ChildInv'
  <2>1. q \in Request /\ q.server \in Server /\ ~ Stdio(q.server)
    BY <1>0, <1>2, RequestKinds DEF FetchReturns
  <2>2. /\ Answered(q, ok, list[q.server])
        /\ UNCHANGED <<position, process, out, list>> /\ asked' \subseteq asked
    BY <1>2 DEF FetchReturns
  <2>3. /\ pending' \subseteq pending
        /\ \A s \in Server : Stdio(s) => tools'[s] = tools[s]
        /\ \A s \in Server : Stdio(s) /\ state'[s] = "connected" => state[s] = "connected"
    <3>0. \A s \in Server : Stdio(s) => s # q.server
      BY <2>1
    <3>1. \A s \in Server : Stdio(s) => tools'[s] = tools[s]
      BY <1>0, <2>1, <2>2, <3>0, AnsweredTools DEF SessionTypeOK
    <3>2. CASE q \notin pending
      BY <2>2, <3>1, <3>2 DEF Answered, sessionVars
    <3>3. CASE q \in pending /\ ~ ok
      BY <1>0, <2>2, <3>1, <3>3, RejectedStates DEF Answered
    <3>4. CASE q \in pending /\ ok
      <4>. USE RequestKinds
      <4>1. CASE q.kind = "init"
        BY <1>0, <2>1, <2>2, <3>0, <3>1, <3>4, <4>1 DEF Answered, Initialized, SessionTypeOK
      <4>2. CASE q.kind = "list"
        BY <1>0, <2>1, <2>2, <3>0, <3>1, <3>4, <4>2 DEF Answered, Listed, SessionTypeOK
      <4>3. CASE q.kind = "refresh" \/ q.kind = "call"
        BY <2>1, <2>2, <3>1, <3>4, <4>3 DEF Answered, sessionVars
      <4>. QED  BY <2>1, <4>1, <4>2, <4>3
    <3>. QED  BY <3>2, <3>3, <3>4
  <2>. QED  BY <1>q, <2>2, <2>3
<1>3. ASSUME NEW s \in Server, NEW ok \in BOOLEAN, FetchList(s, ok)
      PROVE  ChildInv'
  <2>1. /\ \A t \in Server : Stdio(t) => t # s
        /\ UNCHANGED <<position, process, out, list, asked>> /\ pending' \subseteq pending
    BY <1>3 DEF FetchList, Listed, serverVars
  <2>2. /\ tools' = tools \/ tools' = [tools EXCEPT ![s] = list[s]]
        /\ state' = [state EXCEPT ![s] = "error"] \/ state' = [state EXCEPT ![s] = "connected"]
    BY <1>3 DEF FetchList, Listed
  <2>3. /\ \A t \in Server : Stdio(t) => tools'[t] = tools[t]
        /\ \A t \in Server : Stdio(t) /\ state'[t] = "connected" => state[t] = "connected"
    BY <1>0, <2>1, <2>2 DEF SessionTypeOK
  <2>. QED  BY <1>q, <2>1, <2>3
<1>4. ASSUME NEW q \in asked, NEW ok \in BOOLEAN, ServerAnswers(q, ok)
      PROVE  ChildInv'
  <2>. DEFINE s == q.server
              m == Answer(q, ok, list[s])
  <2>1. q \in Request /\ s \in Server /\ m \in Message /\ m.request = q
    BY <1>0, RequestKinds, MessageFields, Numbers
  <2>2. /\ process[s] \in {"running", "terminated"}
        /\ out' = [out EXCEPT ![s] = Append(out[s], m)]
        /\ asked' = asked \ {q}
        /\ UNCHANGED <<position, process, list, pending, state, tools>>
    BY <1>4 DEF ServerAnswers, sessionVars
  <2>. HIDE DEF s, m
  <2>3. /\ \A t \in Server : t # s => out'[t] = out[t]
        /\ ToSet(out'[s]) = ToSet(out[s]) \cup {m}
    BY <1>0, <2>1, <2>2, PipeElements DEF OtherTypeOK
  <2>4. \A t \in Server : Handshake(t, "init") \in asked' =>
            /\ Handshake(t, "init") \in asked
            /\ \A x \in ToSet(out'[t]) : x \in ToSet(out[t]) \/ x.request # Handshake(t, "init")
    BY <2>1, <2>2, <2>3
  <2>5. \A t \in Server : Stdio(t) /\ state'[t] = "connected" =>
            tools'[t] >= 1 /\ state[t] = "connected"
    BY <1>0, <2>2 DEF ConnectedRuns
  <2>. QED  BY <1>0, <2>2, <2>3, <2>4, <2>5, ChildKept
<1>5. ASSUME NEW s \in Server, ListChanges(s)
      PROVE  ChildInv'
  <2>. DEFINE m == Changed(s, list[s] + 1)
  <2>1. list' = [list EXCEPT ![s] = list[s] + 1] /\ list'[s] = list[s] + 1 /\ list[s] + 1 \in Version
    BY <1>0, <1>5, Constants DEF ListChanges, OtherTypeOK, Version
  <2>2. m \in Message /\ \A t \in Server : m.request # Handshake(t, "init")
    BY <2>1, MessageFields, RequestFields
  <2>3. /\ process[s] \in {"running", "terminated"}
        /\ out' = [out EXCEPT ![s] = Append(out[s], m)]
        /\ UNCHANGED <<position, process, asked, pending, state, tools>>
    BY <1>5, <2>1 DEF ListChanges, sessionVars
  <2>. HIDE DEF m
  <2>4. /\ \A t \in Server : t # s => out'[t] = out[t] /\ list'[t] = list[t]
        /\ ToSet(out'[s]) = ToSet(out[s]) \cup {m}
    BY <1>0, <2>1, <2>2, <2>3, PipeElements DEF OtherTypeOK
  <2>5. \A t \in Server : Stdio(t) /\ state'[t] = "connected" =>
            tools'[t] >= 1 /\ state[t] = "connected"
    BY <1>0, <2>3 DEF ConnectedRuns
  <2>. QED  BY <1>0, <2>2, <2>3, <2>4, <2>5, ChildKept
<1>6. ASSUME NEW s \in Server, DeliverAnswer(s)
      PROVE  ChildInv'
  <2>. DEFINE msg == Head(out[s])
              q == msg.request
  <2>1. out[s] # <<>> /\ out[s] \in Seq(Message)
    BY <1>0, <1>6 DEF DeliverAnswer, OtherTypeOK
  <2>2. /\ msg \in Message /\ msg \in ToSet(out[s]) /\ ToSet(Tail(out[s])) \subseteq ToSet(out[s])
        /\ q \in Request /\ q = msg.request /\ msg.ok \in BOOLEAN /\ q.server = s
        /\ msg.version \in Nat /\ msg.version >= 1 /\ Stdio(s)
    <3>1. msg \in Message /\ msg \in ToSet(out[s]) /\ ToSet(Tail(out[s])) \subseteq ToSet(out[s])
      BY <1>0, <2>1, PipeTyped, PipeElements
    <3>2. q.server = s
      BY <1>0, <3>1 DEF PipesOwn
    <3>3. msg.version \in Nat /\ msg.version >= 1
      BY <3>1, MessageNumbers DEF Version
    <3>4. Stdio(s)
      BY <1>0, <2>1 DEF OnlyStdioRuns
    <3>. QED  BY <3>1, <3>2, <3>3, <3>4, MessageFields
  <2>3. /\ Answered(q, msg.ok, msg.version)
        /\ asked' = asked \cup AskedAfter(q, msg.ok)
        /\ out' = [out EXCEPT ![s] = Tail(out[s])]
        /\ UNCHANGED <<position, process, list>>
    BY <1>6 DEF DeliverAnswer
  <2>. HIDE DEF msg, q
  <2>4. /\ \A t \in Server : t # s => out'[t] = out[t]
        /\ ToSet(out'[s]) \subseteq ToSet(out[s])
    BY <1>0, <2>2, <2>3 DEF OtherTypeOK
  <2>5. \A t \in Server : Handshake(t, "init") \in asked' =>
            /\ Handshake(t, "init") \in asked
            /\ \A x \in ToSet(out'[t]) : x \in ToSet(out[t]) \/ x.request # Handshake(t, "init")
    BY <2>3, <2>4, RequestFields DEF AskedAfter
  <2>6. ASSUME NEW p \in pending' \cup asked', p \notin pending \cup asked
        PROVE  q \in pending /\ p = Handshake(s, "list") /\ q.kind = "init" /\ CanSend(s)
    BY ZenonT(60), <2>2, <2>3, <2>6, RequestKinds DEF Answered, AskedAfter, Initialized, Listed
  <2>7. CanSend(s) => process[s] = "running"
    BY <2>2 DEF CanSend, Stdio
  <2>8. \A p \in (pending' \cup asked') : p \in pending \cup asked
            \/ (Stdio(p.server) => process[p.server] = "running")
    BY <2>6, <2>7, RequestFields
  <2>9. ASSUME NEW t \in Server, Stdio(t), Handshake(t, "list") \in pending',
               Handshake(t, "list") \notin pending
        PROVE  process[t] # "failed" /\ Handshake(t, "init") \notin asked
    <3>1. q \in pending /\ msg.ok /\ q.kind = "init"
      BY <2>2, <2>3, <2>9, RequestKinds DEF Answered, Listed
    <3>2. Initialized(s)
      BY <2>2, <2>3, <3>1 DEF Answered
    <3>3. Handshake(t, "list") = Handshake(s, "list") /\ CanSend(s)
      BY <2>9, <3>2 DEF Initialized
    <3>4. t = s
      BY <3>3, RequestFields
    <3>5. q = Handshake(s, "init")
      BY <2>2, <3>1, RequestKinds
    <3>. QED  BY <1>0, <2>2, <2>7, <3>3, <3>4, <3>5 DEF Spawning
  <2>10. ASSUME NEW t \in Server, Stdio(t), state'[t] = "connected"
         PROVE  tools'[t] >= 1 /\ (state[t] = "connected" \/ process[t] \in {"running", "terminated"})
    <3>1. CASE q \in pending /\ msg.ok /\ q.kind = "list" /\ t = s
      <4>1. tools'[t] = msg.version
        BY <1>0, <2>2, <2>3, <3>1 DEF Answered, Listed, SessionTypeOK
      <4>2. q = Handshake(s, "list")
        BY <2>2, <3>1, RequestKinds
      <4>3. process[s] # "gone" /\ process[s] # "none" /\ process[s] # "killed" /\ process[s] # "failed"
        BY <1>0, <2>1, <2>2, <3>1, <4>2 DEF NoneGone, Unborn, Killed, Spawning
      <4>. QED  BY <1>0, <2>2, <3>1, <4>1, <4>3 DEF OtherTypeOK
    <3>2. CASE ~ (q \in pending /\ msg.ok /\ q.kind = "list" /\ t = s)
      <4>1. state[t] = "connected"
        <5>1. CASE q \notin pending
          BY <2>3, <2>10, <5>1 DEF Answered, sessionVars
        <5>2. CASE q \in pending /\ ~ msg.ok
          BY <1>0, <2>3, <2>10, <5>2, RejectedStates DEF Answered
        <5>3. CASE q \in pending /\ msg.ok /\ q.kind = "init"
          BY <1>0, <2>2, <2>3, <2>10, <5>3, RequestKinds DEF Answered, Initialized, SessionTypeOK
        <5>4. CASE q \in pending /\ msg.ok /\ q.kind = "list"
          BY <1>0, <2>2, <2>3, <2>10, <3>2, <5>4 DEF Answered, Listed, SessionTypeOK
        <5>5. CASE q \in pending /\ msg.ok /\ q.kind \in {"refresh", "call"}
          BY <2>3, <2>10, <5>5 DEF Answered, sessionVars
        <5>. QED  BY <2>2, <5>1, <5>2, <5>3, <5>4, <5>5, RequestKinds
      <4>2. tools'[t] = tools[t] \/ tools'[t] = msg.version
        BY <1>0, <2>2, <2>3, AnsweredTools DEF SessionTypeOK
      <4>. QED  BY <1>0, <2>2, <2>10, <4>1, <4>2 DEF ConnectedRuns
    <3>. QED  BY <3>1, <3>2
  <2>11. \A t \in Server : process[t] \notin {"running", "terminated"} /\ out[t] = <<>> =>
             out'[t] = <<>> /\ list'[t] = list[t]
    BY <2>1, <2>3, <2>4
  <2>. QED  BY <1>0, <2>3, <2>5, <2>8, <2>9, <2>10, <2>11, ChildKept
<1>7. ASSUME NEW s \in Server, DeliverChange(s)
      PROVE  ChildInv'
  <2>. DEFINE q == Head(out[s]).request
  <2>1. out[s] # <<>> /\ out[s] \in Seq(Message) /\ Stdio(s) /\ Head(out[s]).notified
    BY <1>0, <1>7 DEF DeliverChange, OtherTypeOK, OnlyStdioRuns
  <2>2. Head(out[s]) \in ToSet(out[s]) /\ ToSet(Tail(out[s])) \subseteq ToSet(out[s])
        /\ q = Refresh(s, Head(out[s]).version)
    <3>1. Head(out[s]) \in ToSet(out[s]) /\ ToSet(Tail(out[s])) \subseteq ToSet(out[s])
      BY <2>1, PipeElements
    <3>. QED  BY <1>0, <2>1, <3>1 DEF PipesOwn
  <2>3. /\ out' = [out EXCEPT ![s] = Tail(out[s])]
        /\ UNCHANGED <<position, process, list, state, tools>>
        /\ \/ UNCHANGED <<pending, asked>>
           \/ CanSend(s) /\ pending' = pending \cup {q} /\ asked' = asked \cup {q}
    BY <1>7 DEF DeliverChange, sessionVars
  <2>. HIDE DEF q
  <2>4. /\ \A t \in Server : t # s => out'[t] = out[t]
        /\ ToSet(out'[s]) \subseteq ToSet(out[s])
    BY <1>0, <2>2, <2>3 DEF OtherTypeOK
  <2>5. q.server = s /\ \A t \in Server : q # Handshake(t, "init") /\ q # Handshake(t, "list")
    BY <2>2, RequestFields
  <2>6. CanSend(s) => process[s] = "running"
    BY <2>1 DEF CanSend, Stdio
  <2>7. \A t \in Server : Stdio(t) /\ state'[t] = "connected" =>
            tools'[t] >= 1 /\ state[t] = "connected"
    BY <1>0, <2>3 DEF ConnectedRuns
  <2>8. \A t \in Server : process[t] \notin {"running", "terminated"} /\ out[t] = <<>> =>
            out'[t] = <<>> /\ list'[t] = list[t]
    BY <2>1, <2>3, <2>4
  <2>9. \A t \in Server : Handshake(t, "init") \in asked' =>
            /\ Handshake(t, "init") \in asked
            /\ \A x \in ToSet(out'[t]) : x \in ToSet(out[t]) \/ x.request # Handshake(t, "init")
    BY <2>3, <2>4, <2>5
  <2>. QED  BY <1>0, <2>3, <2>5, <2>6, <2>7, <2>8, <2>9, ChildKept
<1>8. ASSUME NEW q \in pending, Timeout(q)
      PROVE  ChildInv'
  <2>1. state' = StateAfter({q})
    BY <1>8 DEF Timeout
  <2>. QED  BY <1>0, <1>q, <1>8, <2>1, RejectedStates DEF Timeout, serverVars
<1>9. ASSUME NEW s \in Server, NEW c \in Call, CallTool(s, c)
      PROVE  ChildInv'
  <2>1. /\ UNCHANGED <<position, process, out, list, state, tools>>
        /\ \/ UNCHANGED <<pending, asked>>
           \/ /\ CanSend(s)
              /\ pending' = pending \cup {CallOf(s, c)} /\ asked' = asked \cup {CallOf(s, c)}
    BY <1>9 DEF CallTool, sessionVars
  <2>2. /\ CallOf(s, c).server = s
        /\ \A t \in Server : CallOf(s, c) # Handshake(t, "init") /\ CallOf(s, c) # Handshake(t, "list")
    BY RequestFields
  <2>3. CanSend(s) /\ Stdio(s) => process[s] = "running"
    BY DEF CanSend, Stdio
  <2>4. \A t \in Server : Stdio(t) /\ state'[t] = "connected" =>
            tools'[t] >= 1 /\ state[t] = "connected"
    BY <1>0, <2>1 DEF ConnectedRuns
  <2>. QED  BY <1>0, <2>1, <2>2, <2>3, <2>4, ChildKept
<1>10. ASSUME NEW s \in Server, ProcessExits(s)
       PROVE  ChildInv'
  <2>1. /\ process[s] # "none" /\ process' = [process EXCEPT ![s] = "gone"]
        /\ asked' \subseteq asked /\ pending' \subseteq pending
        /\ UNCHANGED <<position, tools, out, list>>
        /\ state' = [StateAfter(pending) EXCEPT ![s] =
               IF @ = "error" /\ step[s] # "done" THEN "error" ELSE "disconnected"]
    BY <1>10 DEF ProcessExits
  <2>2. state'[s] # "connected" /\ \A t \in Server : state'[t] = "connected" => state[t] = "connected"
    BY <1>0, <2>1, RejectedStates, StateAfterTyped
  <2>. QED  BY <1>0, <2>1, <2>2, ChildEnds
<1>11. ASSUME NEW s \in Server, SpawnFails(s) \/ Overflow(s)
       PROVE  ChildInv'
  <2>1. /\ process[s] # "none" /\ UNCHANGED <<position, tools, list, asked, pending>>
        /\ state' = [state EXCEPT ![s] = "error"]
        /\ \/ process' = [process EXCEPT ![s] = "failed"] /\ out' = out /\ Handshake(s, "init") \in asked
           \/ process' = [process EXCEPT ![s] = "killed"] /\ out' = [out EXCEPT ![s] = <<>>]
    BY <1>11 DEF SpawnFails, Overflow, serverVars
  <2>2. state'[s] # "connected" /\ \A t \in Server : state'[t] = "connected" => state[t] = "connected"
    BY <1>0, <2>1 DEF SessionTypeOK
  <2>3. CASE process' = [process EXCEPT ![s] = "failed"] /\ out' = out /\ Handshake(s, "init") \in asked
    BY <1>0, <2>1, <2>2, <2>3, ChildEnds
  <2>4. CASE process' = [process EXCEPT ![s] = "killed"] /\ out' = [out EXCEPT ![s] = <<>>]
    <3>1. out'[s] = <<>>
      BY <1>0, <2>4 DEF OtherTypeOK
    <3>. QED  BY <1>0, <2>1, <2>2, <2>4, <3>1, ChildEnds
  <2>. QED  BY <2>1, <2>3, <2>4
<1>12. ASSUME NEW s \in Server, Disconnect(s)
       PROVE  ChildInv'
  <2>1. /\ UNCHANGED <<position, tools, out, list, asked, pending>>
        /\ state' = [state EXCEPT ![s] = "disconnected"]
        /\ \/ process' = process
           \/ process[s] = "running" /\ process' = [process EXCEPT ![s] = "terminated"]
    BY <1>12 DEF Disconnect, serverVars
  <2>2. \A t \in Server : state'[t] = "connected" => state[t] = "connected"
    BY <1>0, <2>1 DEF SessionTypeOK
  <2>3. CASE process' = process
    BY <1>q, <2>1, <2>2, <2>3
  <2>4. CASE process[s] = "running" /\ process' = [process EXCEPT ![s] = "terminated"]
    BY <1>0, <2>1, <2>2, <2>4, ChildEnds
  <2>. QED  BY <2>1, <2>3, <2>4
<1>13. CASE UNCHANGED McpVars
  BY <1>q, <1>13 DEF McpVars, sessionVars, serverVars
<1>. QED
  BY <1>1, <1>2, <1>3, <1>4, <1>5, <1>6, <1>7, <1>8, <1>9, <1>10, <1>11, <1>12, <1>13
  DEF McpNext, Fetches, TimersFire

-----------------------------------------------------------------------------
(* Freshness.                                                              *)

\* The newest list of a server is known, or its notification is on the way,
\* or it is being fetched, or a fetch was given up.
Listens(s) == Stdio(s) /\ process[s] \in {"none", "running", "terminated"}
Heard(s) ==
    \/ list[s] = 1
    \/ tools[s] = list[s]
    \/ \E m \in ToSet(out[s]) : m.notified /\ m.version = list[s]
    \/ Refresh(s, list[s]) \in pending
Tracked == \A s \in Server : Listens(s) /\ s \notin lost => Heard(s)

LEMMA TrackedStarts == McpInit => Tracked
BY DEF McpInit, Tracked, Heard

\* What a server that is left alone knows, it still knows.
LEMMA HeardKept ==
    ASSUME Tracked, NEW s \in Server, process'[s] = process[s], lost \subseteq lost',
           tools'[s] = tools[s], list'[s] = list[s],
           ToSet(out[s]) \subseteq ToSet(out'[s]),
           \A v \in Version : Refresh(s, v) \in pending => Refresh(s, v) \in pending' \/ s \in lost',
           list[s] \in Version, Listens(s)', s \notin lost'
    PROVE  Heard(s)'
BY DEF Tracked, Heard, Listens, Stdio

\* A rejected refresh is given up.
LEMMA RejectsLost ==
    ASSUME NEW Q, Rejects(Q), NEW s \in Server, NEW v \in Version, Refresh(s, v) \in Q
    PROVE  s \in lost'
BY DEF Rejects

LEMMA AnsweredLost ==
    ASSUME NEW q \in Request, NEW ok \in BOOLEAN, NEW v, Answered(q, ok, v)
    PROVE  /\ lost \subseteq lost' /\ pending \ {q} \subseteq pending'
           /\ (q \in pending => \A s \in Server, n \in Version : q = Refresh(s, n) =>
                   s \in lost' \/ tools' = [tools EXCEPT ![s] = v])
<1>. USE RequestKinds
<1>1. CASE q \notin pending
  BY <1>1 DEF Answered
<1>2. CASE q \in pending /\ ~ ok
  <2>1. Rejects({q}) /\ pending' = pending \ {q}
    BY <1>2 DEF Answered
  <2>2. lost \subseteq lost'
    BY <2>1 DEF Rejects
  <2>. QED  BY <2>1, <2>2, RejectsLost
<1>3. CASE q \in pending /\ ok
  <2>1. CASE q.kind = "init"
    <3>1. Initialized(q.server) /\ q = Handshake(q.server, "init")
      BY <1>3, <2>1 DEF Answered
    <3>. QED  BY <2>1, <3>1, RequestFields DEF Initialized
  <2>2. CASE q.kind = "list"
    <3>1. Listed(q.server, v) /\ q = Handshake(q.server, "list")
      BY <1>3, <2>2 DEF Answered
    <3>. QED  BY <2>2, <3>1, RequestFields DEF Listed
  <2>3. CASE q.kind = "refresh"
    <3>1. /\ tools' = [tools EXCEPT ![q.server] = v] /\ pending' = pending \ {q} /\ lost' = lost
      BY <1>3, <2>3 DEF Answered
    <3>2. \A s \in Server, n \in Version : q = Refresh(s, n) => s = q.server
      BY RequestFields
    <3>. QED  BY <3>1, <3>2
  <2>4. CASE q.kind = "call"
    BY <1>3, <2>4, RequestFields DEF Answered
  <2>. QED  BY <2>1, <2>2, <2>3, <2>4
<1>. QED  BY <1>1, <1>2, <1>3

LEMMA TrackedStep ==
    McpTypeOK /\ PipeInv /\ OrderInv /\ ChildInv /\ Tracked /\ [McpNext]_McpVars => Tracked'
<1>. SUFFICES ASSUME McpTypeOK, PipeInv, OrderInv, ChildInv, Tracked, [McpNext]_McpVars,
                     NEW s \in Server, Listens(s)', s \notin lost'
              PROVE  Heard(s)'
  BY DEF Tracked
<1>0. /\ SessionTypeOK /\ OtherTypeOK /\ asked \subseteq Request /\ pending \subseteq Request
      /\ OnlyStdioRuns /\ PipesOwn /\ PipesOrdered /\ NotYet
      /\ list[s] \in Version /\ out[s] \in Seq(Message) /\ Stdio(s)
  BY TypeParts DEF SessionTypeOK, OtherTypeOK, PipeInv, OrderInv, ChildInv, Listens, Stdio
\* The server, its pipe and its refreshes are left alone.
<1>k. ASSUME process'[s] = process[s], lost \subseteq lost', tools'[s] = tools[s],
             list'[s] = list[s], out'[s] = out[s],
             \A v \in Version : Refresh(s, v) \in pending => Refresh(s, v) \in pending' \/ s \in lost'
      PROVE  Heard(s)'
  BY <1>0, <1>k, HeardKept
<1>1. CASE ConnectNext
  <2>1. UNCHANGED <<tools, out, list, lost>> /\ pending \subseteq pending'
    BY <1>1 DEF ConnectNext, sessionVars
  <2>2. process'[s] = process[s] \/ process[s] = "none"
    <3>1. CASE process' = process
      BY <3>1
    <3>2. CASE process' # process
      <4>1. position \in Nat /\ (position = 0 \/ position \in 1..Len(Configs)) /\ Len(Configs) \in Nat
        <5>1. position = 0 \/ position \in DOMAIN Configs
          BY <1>1, Zenon DEF ConnectNext, Waiting
        <5>2. DOMAIN Configs = 1..Len(Configs) /\ Len(Configs) \in Nat
          BY Constants
        <5>. QED  BY <5>1, <5>2
      <4>2. position # Len(Configs)
        <5>1. IF position = Len(Configs) THEN process' = process ELSE TRUE
          BY <1>1, Zenon DEF ConnectNext
        <5>. QED  BY <3>2, <5>1
      <4>3. position + 1 \in 1..Len(Configs) /\ position + 1 > position
        BY <4>1, <4>2
      <4>4. process[Configs[position + 1]] = "none"
        BY <1>0, <4>3 DEF NotYet
      <4>5. \E x : process' = [process EXCEPT ![Configs[position + 1]] = x]
        BY <1>1, <3>2, <4>2 DEF ConnectNext
      <4>. QED  BY <1>0, <4>4, <4>5 DEF OtherTypeOK
    <3>. QED  BY <3>1, <3>2
  <2>3. Listens(s) /\ s \notin lost
    BY <1>0, <2>1, <2>2 DEF Listens
  <2>. QED  BY <2>1, <2>3 DEF Tracked, Heard
<1>2. ASSUME NEW q \in asked, NEW ok \in BOOLEAN, FetchReturns(q, ok)
      PROVE  Heard(s)'
  <2>1. q \in Request /\ q.server \in Server /\ q.server # s
    BY <1>0, <1>2, RequestKinds DEF FetchReturns
  <2>2. /\ Answered(q, ok, list[q.server]) /\ UNCHANGED <<process, out, list>>
    BY <1>2 DEF FetchReturns
  <2>3. tools'[s] = tools[s] /\ lost \subseteq lost' /\ pending \ {q} \subseteq pending'
    BY <1>0, <2>1, <2>2, AnsweredTools, AnsweredLost DEF SessionTypeOK
  <2>4. \A v \in Version : Refresh(s, v) # q
    BY <2>1, RequestFields
  <2>. QED  BY <1>k, <2>2, <2>3, <2>4
<1>3. ASSUME NEW t \in Server, NEW ok \in BOOLEAN, FetchList(t, ok)
      PROVE  Heard(s)'
  <2>1. t # s /\ UNCHANGED <<process, out, list, lost>>
    BY <1>0, <1>3 DEF FetchList, Listed, serverVars
  <2>2. /\ tools' = tools \/ tools' = [tools EXCEPT ![t] = list[t]]
        /\ pending \ {Handshake(t, "list")} \subseteq pending'
    BY <1>3 DEF FetchList, Listed
  <2>3. tools'[s] = tools[s]
    BY <1>0, <2>1, <2>2 DEF SessionTypeOK
  <2>4. \A v \in Version : Refresh(s, v) # Handshake(t, "list")
    BY RequestFields
  <2>. QED  BY <1>k, <2>1, <2>2, <2>3, <2>4
<1>4. ASSUME NEW q \in asked, NEW ok \in BOOLEAN, ServerAnswers(q, ok)
      PROVE  Heard(s)'
  <2>. DEFINE t == q.server
              m == Answer(q, ok, list[t])
  <2>1. t \in Server /\ m \in Message /\ out[t] \in Seq(Message)
    BY <1>0, RequestKinds, MessageFields, Numbers
  <2>2. out' = [out EXCEPT ![t] = Append(out[t], m)]
        /\ UNCHANGED <<process, list, pending, tools, lost>>
    BY <1>4 DEF ServerAnswers, sessionVars
  <2>. HIDE DEF t, m
  <2>3. ToSet(out[s]) \subseteq ToSet(out'[s])
    BY <1>0, <2>1, <2>2, PipeElements DEF OtherTypeOK
  <2>. QED  BY <1>0, <2>2, <2>3, HeardKept
<1>5. ASSUME NEW t \in Server, ListChanges(t)
      PROVE  Heard(s)'
  <2>. DEFINE m == Changed(t, list[t] + 1)
  <2>1. list' = [list EXCEPT ![t] = list[t] + 1] /\ list'[t] = list[t] + 1 /\ list[t] + 1 \in Version
    BY <1>0, <1>5, Constants DEF ListChanges, OtherTypeOK, Version
  <2>2. out' = [out EXCEPT ![t] = Append(out[t], m)]
        /\ UNCHANGED <<process, pending, tools, lost>>
    BY <1>5, <2>1 DEF ListChanges, sessionVars
  <2>3. CASE t = s
    <3>1. m \in Message /\ m.notified = TRUE /\ m.version = list'[s]
      BY <2>1, <2>3, MessageFields
    <3>2. m \in ToSet(out'[s])
      BY <1>0, <2>2, <2>3, <3>1, PipeElements DEF OtherTypeOK
    <3>. QED  BY <3>1, <3>2 DEF Heard
  <2>4. CASE t # s
    <3>1. out'[s] = out[s] /\ list'[s] = list[s]
      BY <1>0, <2>1, <2>2, <2>4 DEF OtherTypeOK
    <3>. QED  BY <1>k, <2>2, <3>1
  <2>. QED  BY <2>3, <2>4
<1>6. ASSUME NEW t \in Server, DeliverAnswer(t)
      PROVE  Heard(s)'
  <2>. DEFINE msg == Head(out[t])
              q == msg.request
  <2>1. out[t] # <<>> /\ out[t] \in Seq(Message)
    BY <1>0, <1>6 DEF DeliverAnswer, OtherTypeOK
  <2>2. /\ msg \in Message /\ ToSet(out[t]) = {msg} \cup ToSet(Tail(out[t]))
        /\ q \in Request /\ q = msg.request /\ msg.ok \in BOOLEAN /\ q.server = t
    <3>1. msg \in Message /\ ToSet(out[t]) = {msg} \cup ToSet(Tail(out[t]))
      BY <1>0, <2>1, PipeTyped, PipeElements
    <3>2. q.server = t
      BY <1>0, <3>1 DEF PipesOwn
    <3>. QED  BY <3>1, <3>2, MessageFields
  <2>3. /\ ~ msg.notified
        /\ Answered(q, msg.ok, msg.version)
        /\ out' = [out EXCEPT ![t] = Tail(out[t])]
        /\ UNCHANGED <<process, list>>
    BY <1>6 DEF DeliverAnswer
  <2>. HIDE DEF msg, q
  <2>4. lost \subseteq lost' /\ pending \ {q} \subseteq pending'
    BY <2>2, <2>3, AnsweredLost
  <2>t. tools' = tools \/ tools' = [tools EXCEPT ![t] = msg.version]
    BY <2>2, <2>3, AnsweredTools
  <2>5. CASE t # s
    <3>1. out'[s] = out[s] /\ tools'[s] = tools[s]
      BY <1>0, <2>t, <2>3, <2>5 DEF OtherTypeOK, SessionTypeOK
    <3>2. \A v \in Version : Refresh(s, v) # q
      BY <2>2, <2>5, RequestFields
    <3>. QED  BY <1>k, <2>3, <2>4, <3>1, <3>2
  <2>6. CASE t = s
    <3>1. /\ tools'[s] = tools[s] \/ tools'[s] = msg.version
          /\ out'[s] = Tail(out[s])
      BY <1>0, <2>t, <2>3, <2>6 DEF SessionTypeOK, OtherTypeOK
    <3>2. Between(msg, tools[s], list[s]) /\ msg.version \in Nat /\ list[s] \in Nat /\ tools[s] \in Nat
      BY <1>0, <2>2, <2>6, MessageNumbers, Numbers DEF PipesOrdered
    <3>3. Listens(s) /\ s \notin lost
      BY <1>0, <2>3, <2>4 DEF Listens
    <3>4. CASE list[s] = 1
      BY <2>3, <3>4 DEF Heard
    <3>5. CASE tools[s] = list[s]
      <4>1. tools'[s] = list[s]
        BY <3>1, <3>2, <3>5 DEF Between
      <4>. QED  BY <2>3, <4>1 DEF Heard
    <3>6. ASSUME NEW m \in ToSet(out[s]), m.notified, m.version = list[s]
          PROVE  Heard(s)'
      <4>1. m \in ToSet(out'[s])
        BY <2>2, <2>3, <2>6, <3>1, <3>6
      <4>. QED  BY <2>3, <3>6, <4>1 DEF Heard
    <3>7. CASE Refresh(s, list[s]) \in pending
      <4>1. CASE q # Refresh(s, list[s])
        BY <2>3, <2>4, <3>7, <4>1 DEF Heard
      <4>2. CASE q = Refresh(s, list[s])
        <5>1. tools' = [tools EXCEPT ![s] = msg.version]
          BY <1>0, <2>2, <2>3, <3>7, <4>2, AnsweredLost
        <5>2. tools'[s] = msg.version
          BY <1>0, <5>1 DEF SessionTypeOK
        <5>3. list[s] <= msg.version
          BY <2>2, <3>2, <4>2, RequestFields DEF Between
        <5>4. tools'[s] = list[s]
          BY <3>2, <5>2, <5>3 DEF Between
        <5>. QED  BY <2>3, <5>4 DEF Heard
      <4>. QED  BY <4>1, <4>2
    <3>. QED  BY <3>3, <3>4, <3>5, <3>6, <3>7 DEF Tracked, Heard
  <2>. QED  BY <2>5, <2>6
<1>7. ASSUME NEW t \in Server, DeliverChange(t)
      PROVE  Heard(s)'
  <2>. DEFINE msg == Head(out[t])
              q == msg.request
  <2>1. out[t] # <<>> /\ out[t] \in Seq(Message) /\ msg.notified
    BY <1>0, <1>7 DEF DeliverChange, OtherTypeOK
  <2>2. ToSet(out[t]) = {msg} \cup ToSet(Tail(out[t])) /\ q = Refresh(t, msg.version)
    <3>1. ToSet(out[t]) = {msg} \cup ToSet(Tail(out[t]))
      BY <2>1, PipeElements
    <3>. QED  BY <1>0, <2>1, <3>1 DEF PipesOwn
  <2>3. /\ out' = [out EXCEPT ![t] = Tail(out[t])]
        /\ UNCHANGED <<process, list, tools>>
        /\ pending \subseteq pending' /\ lost \subseteq lost'
        /\ q \in pending' \/ t \in lost'
    BY <1>7 DEF DeliverChange, sessionVars
  <2>. HIDE DEF msg, q
  <2>4. CASE t # s
    <3>1. out'[s] = out[s]
      BY <1>0, <2>3, <2>4 DEF OtherTypeOK
    <3>. QED  BY <1>k, <2>3, <3>1
  <2>5. CASE t = s
    <3>1. out'[s] = Tail(out[s])
      BY <1>0, <2>3, <2>5 DEF OtherTypeOK
    <3>2. Listens(s) /\ s \notin lost
      BY <1>0, <2>3 DEF Listens
    <3>3. CASE list[s] = 1 \/ tools[s] = list[s] \/ Refresh(s, list[s]) \in pending
      BY <2>3, <3>3 DEF Heard
    <3>4. ASSUME NEW m \in ToSet(out[s]), m.notified, m.version = list[s]
          PROVE  Heard(s)'
      <4>1. CASE m = msg
        BY <2>2, <2>3, <2>5, <3>4, <4>1 DEF Heard
      <4>2. CASE m # msg
        <5>1. m \in ToSet(out'[s])
          BY <2>2, <2>5, <3>1, <4>2
        <5>. QED  BY <2>3, <3>4, <5>1 DEF Heard
      <4>. QED  BY <4>1, <4>2
    <3>. QED  BY <3>2, <3>3, <3>4 DEF Tracked, Heard
  <2>. QED  BY <2>4, <2>5
<1>8. ASSUME NEW q \in pending, Timeout(q)
      PROVE  Heard(s)'
  <2>1. /\ UNCHANGED <<process, tools, list, out>>
        /\ pending' = pending \ {q} /\ Rejects({q})
    BY <1>8 DEF Timeout, serverVars
  <2>2. lost \subseteq lost' /\ \A v \in Version : Refresh(s, v) = q => s \in lost'
    BY <2>1, RejectsLost DEF Rejects
  <2>. QED  BY <1>k, <2>1, <2>2
<1>9. ASSUME NEW t \in Server, ProcessExits(t)
      PROVE  Heard(s)'
  <2>1. /\ process' = [process EXCEPT ![t] = "gone"] /\ UNCHANGED <<tools, list, out>>
        /\ Rejects(pending)
    BY <1>9 DEF ProcessExits
  <2>2. process'[s] = process[s]
    BY <1>0, <2>1 DEF Listens, OtherTypeOK
  <2>3. lost \subseteq lost' /\ \A v \in Version : Refresh(s, v) \in pending => s \in lost'
    BY <2>1, RejectsLost DEF Rejects
  <2>. QED  BY <1>k, <2>1, <2>2, <2>3
<1>10. ASSUME NEW t \in Server, SpawnFails(t) \/ Overflow(t)
       PROVE  Heard(s)'
  <2>1. /\ \E x \in {"failed", "killed"} : process' = [process EXCEPT ![t] = x]
        /\ UNCHANGED <<tools, list, pending, lost>>
        /\ out' = out \/ out' = [out EXCEPT ![t] = <<>>]
    BY <1>10 DEF SpawnFails, Overflow, serverVars
  <2>2. t # s /\ process'[s] = process[s]
    BY <1>0, <2>1 DEF Listens, OtherTypeOK
  <2>3. out'[s] = out[s]
    BY <1>0, <2>1, <2>2 DEF OtherTypeOK
  <2>. QED  BY <1>k, <2>1, <2>2, <2>3
<1>11. ASSUME NEW t \in Server, Disconnect(t)
       PROVE  Heard(s)'
  <2>1. /\ UNCHANGED <<tools, list, out, pending, lost>>
        /\ \/ process' = process
           \/ process[t] = "running" /\ process' = [process EXCEPT ![t] = "terminated"]
    BY <1>11 DEF Disconnect, serverVars
  <2>2. Listens(s) /\ s \notin lost
    BY <1>0, <2>1 DEF Listens, OtherTypeOK
  <2>. QED  BY <2>1, <2>2 DEF Tracked, Heard
<1>12. ASSUME NEW t \in Server, NEW c \in Call, CallTool(t, c)
       PROVE  Heard(s)'
  <2>1. UNCHANGED <<process, tools, list, out, lost>> /\ pending \subseteq pending'
    BY <1>12 DEF CallTool, sessionVars
  <2>. QED  BY <1>k, <2>1
<1>13. CASE UNCHANGED McpVars
  BY <1>k, <1>13 DEF McpVars, sessionVars, serverVars
<1>. QED
  BY <1>1, <1>2, <1>3, <1>4, <1>5, <1>6, <1>7, <1>8, <1>9, <1>10, <1>11, <1>12, <1>13
  DEF McpNext, Fetches, TimersFire

LEMMA FreshNow == McpTypeOK /\ OrderInv /\ ChildInv /\ Tracked => ToolsFresh
<1>. SUFFICES ASSUME McpTypeOK, OrderInv, ChildInv, Tracked, NEW s \in Server,
                     Stdio(s), state[s] = "connected", s \notin lost, out[s] = <<>>,
                     \A q \in pending : q.server = s => q.kind = "call"
              PROVE  tools[s] = list[s]
  BY DEF ToolsFresh
<1>1. process[s] \in {"running", "terminated"} /\ tools[s] >= 1
  BY DEF ChildInv, ConnectedRuns
<1>2. tools[s] <= list[s] /\ tools[s] \in Nat /\ list[s] \in Nat
  BY TypeParts, Numbers DEF OrderInv, PipesOrdered
<1>3. ToSet(out[s]) = {} /\ Refresh(s, list[s]) \notin pending
  BY RequestFields, EmptySeq DEF ToSet
<1>4. list[s] = 1 \/ tools[s] = list[s]
  BY <1>1, <1>3 DEF Tracked, Listens, Heard
<1>. QED  BY <1>1, <1>2, <1>4

\* The tools of a connected stdio server are the ones it has as soon as its
\* pipe is empty and no list is being fetched (handleMessage, refreshTools and
\* connectStdio), unless a fetch was given up.
THEOREM ToolsStayFresh == McpSpec => []ToolsFresh
<1>. DEFINE Inv == McpTypeOK /\ PipeInv /\ OrderInv /\ ExitInv /\ ChildInv /\ Tracked
<1>1. McpInit => Inv
  BY McpStarts, PipeStarts, OrderStarts, ExitStarts, ChildStarts, TrackedStarts
<1>2. Inv /\ [McpNext]_McpVars => Inv'
  BY McpTypeStep, PipeStep, OrderStep, ExitStep, ChildStep, TrackedStep
<1>3. Inv => ToolsFresh
  BY FreshNow
<1>. QED  BY <1>1, <1>2, <1>3, PTL DEF McpSpec

-----------------------------------------------------------------------------
(***************************************************************************)
(* Event logs of the API server.                                           *)
(***************************************************************************)

LEMMA PrefixElements ==
    ASSUME NEW S, NEW p \in Seq(S), NEW g \in Seq(S)
    PROVE  IsPrefix(p, g) <=> Len(p) <= Len(g) /\ \A i \in 1..Len(p) : p[i] = g[i]
<1>1. Len(p) \in Nat /\ Len(g) \in Nat /\ SubSeq(p, 1, Len(p)) = p
  BY LenProperties, SubSeqFull
<1>2. ASSUME Len(p) <= Len(g)
      PROVE  /\ SubSeq(g, 1, Len(p)) \in Seq(S) /\ Len(SubSeq(g, 1, Len(p))) = Len(p)
             /\ \A i \in 1..Len(p) : SubSeq(g, 1, Len(p))[i] = g[i]
  <2>1. \A i \in 1..Len(p) : g[i] \in S
    BY <1>1, <1>2, ElementOfSeq
  <2>2. /\ SubSeq(g, 1, Len(p)) \in Seq(S)
        /\ Len(SubSeq(g, 1, Len(p))) = IF 1 <= Len(p) THEN Len(p) - 1 + 1 ELSE 0
        /\ \A i \in 1..(Len(p) - 1 + 1) : SubSeq(g, 1, Len(p))[i] = g[1 + i - 1]
    BY <1>1, <2>1, SubSeqProperties
  <2>. QED  BY <1>1, <2>2
<1>. QED
  <2>1. CASE Len(p) <= Len(g)
    <3>1. SubSeq(g, 1, Len(p)) = p <=> \A i \in 1..Len(p) : p[i] = g[i]
      BY <1>2, <2>1, SeqEqual
    <3>. QED  BY <1>1, <2>1, <3>1 DEF IsPrefix
  <2>2. CASE ~(Len(p) <= Len(g))
    BY <2>2 DEF IsPrefix
  <2>. QED  BY <2>1, <2>2

\* A log and what is appended to it, element by element.
LEMMA Appended ==
    ASSUME NEW S, NEW a \in Seq(S), NEW b \in Seq(S)
    PROVE  /\ a \o b \in Seq(S) /\ Len(a \o b) = Len(a) + Len(b)
           /\ \A i \in 1..Len(a) : (a \o b)[i] = a[i]
           /\ \A i \in 1..Len(b) : (a \o b)[Len(a) + i] = b[i]
           /\ \A i \in 1..Len(a \o b) : i \in 1..Len(a) \/ \E k \in 1..Len(b) : i = Len(a) + k
<1>1. Len(a) \in Nat /\ Len(b) \in Nat
  BY LenProperties
<1>2. /\ a \o b \in Seq(S) /\ Len(a \o b) = Len(a) + Len(b)
      /\ \A i \in 1..(Len(a) + Len(b)) : (a \o b)[i] = IF i <= Len(a) THEN a[i] ELSE b[i - Len(a)]
  BY ConcatProperties
<1>3. \A i \in 1..Len(a) : (a \o b)[i] = a[i]
  BY <1>1, <1>2
<1>4. ASSUME NEW i \in 1..Len(b)
      PROVE  (a \o b)[Len(a) + i] = b[i]
  <2>1. Len(a) + i \in 1..(Len(a) + Len(b)) /\ ~(Len(a) + i <= Len(a)) /\ Len(a) + i - Len(a) = i
    BY <1>1
  <2>. QED  BY <1>2, <2>1
<1>5. ASSUME NEW i \in 1..Len(a \o b), i \notin 1..Len(a)
      PROVE  \E k \in 1..Len(b) : i = Len(a) + k
  <2>1. i - Len(a) \in 1..Len(b) /\ i = Len(a) + (i - Len(a))
    BY <1>1, <1>2, <1>5
  <2>. QED  BY <2>1
<1>. QED  BY <1>2, <1>3, <1>4, <1>5

EndsIn(log) == \E i \in 1..Len(log) : log[i] \in Terminal

LEMMA FirstEnd ==
    ASSUME NEW log \in Seq(EventType), EndsIn(log)
    PROVE  \E e \in 1..Len(log) : log[e] \in Terminal /\ \A i \in 1..(e - 1) : log[i] \notin Terminal
<1>. DEFINE E == {i \in 1..Len(log) : log[i] \in Terminal}
<1>1. Len(log) \in Nat /\ E \in SUBSET Nat /\ E # {}
  BY LenProperties DEF EndsIn
<1>2. PICK e \in E : \A i \in E : e <= i
  BY <1>1, LeastNatural
<1>3. ASSUME NEW i \in 1..(e - 1), log[i] \in Terminal
      PROVE  FALSE
  <2>1. i \in E /\ e \in Nat /\ i < e
    BY <1>1, <1>3
  <2>. QED  BY <1>2, <2>1
<1>. QED  BY <1>2, <1>3

LEMMA ProgressWhole ==
    ASSUME NEW log \in Seq(EventType), ~EndsIn(log)
    PROVE  Progress(log) = log
BY LenProperties DEF Progress, EndsIn

LEMMA ProgressCut ==
    ASSUME NEW log \in Seq(EventType), NEW e \in 1..Len(log), log[e] \in Terminal,
           \A i \in 1..(e - 1) : log[i] \notin Terminal
    PROVE  /\ Progress(log) \in Seq(EventType) /\ Len(Progress(log)) = e - 1
           /\ \A i \in 1..(e - 1) : Progress(log)[i] = log[i]
<1>. DEFINE E == {i \in DOMAIN log : log[i] \in Terminal}
            first == CHOOSE i \in E : \A j \in E : i <= j
<1>1. DOMAIN log = 1..Len(log) /\ Len(log) \in Nat /\ e \in E
  BY LenProperties
<1>2. \A j \in E : e <= j
  BY <1>1
<1>3. first \in E /\ \A j \in E : first <= j
  BY <1>1, <1>2
<1>4. first = e
  BY <1>1, <1>2, <1>3
<1>5. Progress(log) = SubSeq(log, 1, e - 1)
  <2>1. Progress(log) = SubSeq(log, 1, first - 1)
    BY <1>1 DEF Progress
  <2>. QED  BY <1>4, <2>1
<1>6. \A i \in 1..(e - 1) : log[i] \in EventType
  BY <1>1, ElementOfSeq
<1>7. e - 1 \in Int
  BY <1>1
<1>8. /\ SubSeq(log, 1, e - 1) \in Seq(EventType)
      /\ Len(SubSeq(log, 1, e - 1)) = IF 1 <= e - 1 THEN e - 1 - 1 + 1 ELSE 0
      /\ \A i \in 1..(e - 1 - 1 + 1) : SubSeq(log, 1, e - 1)[i] = log[1 + i - 1]
  BY <1>6, <1>7, SubSeqProperties
<1>. QED  BY <1>1, <1>5, <1>8

LEMMA ProgressTyped ==
    ASSUME NEW log \in Seq(EventType)
    PROVE  /\ Progress(log) \in Seq(EventType) /\ Len(Progress(log)) <= Len(log)
           /\ \A i \in 1..Len(Progress(log)) : Progress(log)[i] = log[i]
<1>1. Len(log) \in Nat
  BY LenProperties
<1>2. CASE EndsIn(log)
  <2>1. PICK e \in 1..Len(log) : log[e] \in Terminal /\ \A i \in 1..(e - 1) : log[i] \notin Terminal
    BY <1>2, FirstEnd
  <2>. QED  BY SMTT(40), <1>1, <2>1, ProgressCut
<1>3. CASE ~EndsIn(log)
  BY <1>1, <1>3, ProgressWhole
<1>. QED  BY <1>2, <1>3

\* What is appended to the log of a run that is over leaves its progress alone.
LEMMA ProgressKept ==
    ASSUME NEW log \in Seq(EventType), EndsIn(log), NEW more \in Seq(EventType)
    PROVE  Progress(log \o more) = Progress(log)
<1>1. PICK e \in 1..Len(log) : log[e] \in Terminal /\ \A i \in 1..(e - 1) : log[i] \notin Terminal
  BY FirstEnd
<1>2. /\ log \o more \in Seq(EventType) /\ Len(log \o more) = Len(log) + Len(more)
      /\ \A i \in 1..Len(log) : (log \o more)[i] = log[i]
      /\ Len(log) \in Nat /\ Len(more) \in Nat
  BY Appended, LenProperties
<1>3. e \in 1..Len(log \o more) /\ \A i \in 1..(e - 1) : i \in 1..Len(log)
  BY <1>2
<1>4. (log \o more)[e] \in Terminal /\ \A i \in 1..(e - 1) : (log \o more)[i] \notin Terminal
  BY <1>1, <1>2, <1>3
<1>5. /\ Progress(log \o more) \in Seq(EventType) /\ Len(Progress(log \o more)) = e - 1
      /\ \A i \in 1..(e - 1) : Progress(log \o more)[i] = (log \o more)[i]
  BY <1>2, <1>3, <1>4, ProgressCut
<1>6. /\ Progress(log) \in Seq(EventType) /\ Len(Progress(log)) = e - 1
      /\ \A i \in 1..(e - 1) : Progress(log)[i] = log[i]
  BY <1>1, ProgressCut
<1>7. \A i \in 1..(e - 1) : Progress(log \o more)[i] = Progress(log)[i]
  BY <1>2, <1>3, <1>5, <1>6
<1>. QED  BY <1>5, <1>6, <1>7, SeqEqual

\* The progress of a run that ends is its log so far.
LEMMA ProgressEnds ==
    ASSUME NEW log \in Seq(EventType), ~EndsIn(log),
           NEW more \in Seq(EventType), Len(more) >= 1, more[1] \in Terminal
    PROVE  Progress(log \o more) = log
<1>2. /\ log \o more \in Seq(EventType) /\ Len(log \o more) = Len(log) + Len(more)
      /\ \A i \in 1..Len(log) : (log \o more)[i] = log[i]
      /\ \A i \in 1..Len(more) : (log \o more)[Len(log) + i] = more[i]
      /\ Len(log) \in Nat /\ Len(more) \in Nat
  BY Appended, LenProperties
<1>. DEFINE e == Len(log) + 1
<1>3. e \in 1..Len(log \o more) /\ e - 1 = Len(log) /\ (log \o more)[e] \in Terminal
  BY <1>2
<1>4. \A i \in 1..(e - 1) : (log \o more)[i] \notin Terminal
  BY <1>2, <1>3 DEF EndsIn
<1>. HIDE DEF e
<1>5. /\ Progress(log \o more) \in Seq(EventType) /\ Len(Progress(log \o more)) = e - 1
      /\ \A i \in 1..(e - 1) : Progress(log \o more)[i] = (log \o more)[i]
  BY <1>2, <1>3, <1>4, ProgressCut
<1>6. Len(Progress(log \o more)) = Len(log) /\ \A i \in 1..Len(log) : Progress(log \o more)[i] = log[i]
  BY <1>2, <1>3, <1>5
<1>. QED  BY <1>5, <1>6, SeqEqual
-----------------------------------------------------------------------------
(***************************************************************************)
(* Runs and streams.  ListenersOpen: a stream is on the list of the run it *)
(* was opened on, once, and nothing has closed it.  SleepsRun: a run is in *)
(* a sleep exactly as long as its status says so, and no event has told    *)
(* its end.                                                                *)
(***************************************************************************)

Going(got) == \A k \in 1..Len(got) : got[k] # "end"

ListenersOpen ==
    \A r \in Run :
        /\ \A i \in 1..Len(listeners[r]) :
              watched[listeners[r][i]] = r /\ Going(received[listeners[r][i]])
        /\ \A i, j \in 1..Len(listeners[r]) : listeners[r][i] = listeners[r][j] => i = j

SleepsRun ==
    \A r \in Run :
        /\ status[r] = "running" <=> phase[r] \in {"first", "second", "third"}
        /\ status[r] # "none" <=> r <= created
        /\ status[r] = "running" => ~EndsIn(events[r])

ApiInv == ApiTypeOK /\ SleepsRun /\ ListenersOpen /\ StreamsFaithful /\ RunsAccounted

\* The log of a run in the map tells whether it is over.
LEMMA EndIsLogged ==
    ASSUME ApiInv, NEW r \in runs
    PROVE  /\ r \in Run /\ events[r] \in Seq(EventType)
           /\ EndsIn(events[r]) <=> status[r] \in Terminal
           /\ EndsIn(events[r]) \/ status[r] = "running"
<1>1. /\ r \in Run /\ events[r] \in Seq(EventType) /\ status[r] # "none"
      /\ DOMAIN events[r] = 1..Len(events[r])
  <2>1. /\ created \in 0..MaxCreated /\ runs \subseteq 1..created
        /\ events \in [Run -> Seq(EventType)]
        /\ \A q \in Run : q <= created => status[q] # "none"
    BY DEF ApiInv, ApiTypeOK
  <2>2. r \in Run /\ r <= created
    BY <2>1, ApiAssumption DEF Run
  <2>. QED  BY <2>1, <2>2, LenProperties
<1>2. PICK last \in 1..Len(events[r]) :
        /\ events[r][last] \in {"started"} \cup Terminal
        /\ status[r] = IF events[r][last] = "started" THEN "running" ELSE events[r][last]
  BY <1>1 DEF ApiInv, RunsAccounted, StatusMatchesEvents, Reports
<1>3. status[r] = "running" => ~EndsIn(events[r])
  BY <1>1 DEF ApiInv, SleepsRun
<1>4. events[r][last] # "started" => EndsIn(events[r]) /\ status[r] \in Terminal
  BY <1>2 DEF EndsIn
<1>5. status[r] \in Terminal => status[r] # "running"
  BY DEF Terminal
<1>. QED  BY <1>1, <1>2, <1>3, <1>4, <1>5

\* What emitEvent does to a run of the map: the event is logged, once or
\* twice; some of the listeners are told, all of them unless the event is
\* terminal; and those that are told of an end are removed.
Announced(r, type, more, told) ==
    /\ type \in EventType \ {"started"} /\ (more = <<type>> \/ more = <<type, type>>)
    /\ events' = [events EXCEPT ![r] = @ \o more]
    /\ listeners' \in [Run -> Seq(Stream)]
    /\ \A q \in Run \ {r} : listeners'[q] = listeners[q]
    /\ \A i, j \in 1..Len(listeners'[r]) : listeners'[r][i] = listeners'[r][j] => i = j
    /\ \A i \in 1..Len(listeners'[r]) : \E j \in 1..Len(listeners[r]) : listeners'[r][i] = listeners[r][j]
    /\ told \subseteq Stream
    /\ \A s \in told : \E j \in 1..Len(listeners[r]) : s = listeners[r][j]
    /\ received' = [s \in Stream |-> IF s \in told THEN Written(received[s], type) ELSE received[s]]
    /\ type \in Terminal => \A i \in 1..Len(listeners'[r]) : listeners'[r][i] \notin told
    /\ type \notin Terminal =>
          more = <<type>> /\ \A j \in 1..Len(listeners[r]) : listeners[r][j] \in told

\* Every second element.
LEMMA Halved ==
    ASSUME NEW S, NEW ls \in Seq(S)
    PROVE  LET half == [i \in 1..(Len(ls) \div 2) |-> ls[2 * i]]
           IN  /\ half \in Seq(S) /\ Len(half) = Len(ls) \div 2 /\ Len(half) \in Nat
               /\ \A i \in 1..Len(half) : 2 * i \in 1..Len(ls) /\ half[i] = ls[2 * i]
<1>. DEFINE half == [i \in 1..(Len(ls) \div 2) |-> ls[2 * i]]
            h == Len(ls) \div 2
<1>1. Len(ls) \in Nat
  BY LenProperties
<1>2. h \in Nat /\ 2 * h <= Len(ls)
  BY <1>1
<1>3. \A i \in 1..h : 2 * i \in 1..Len(ls)
  BY <1>1, <1>2
<1>4. \A i \in 1..h : ls[2 * i] \in S
  BY <1>3, ElementOfSeq
<1>5. half \in [1..h -> S]
  BY <1>4
<1>6. half \in Seq(S) /\ Len(half) = h
  <2>. HIDE DEF h
  <2>1. half \in UNION {[1..n -> S] : n \in Nat}
    BY <1>2, <1>5
  <2>2. half \in Seq(S)
    BY <1>2, <1>5
  <2>3. DOMAIN half = 1..h
    BY DEF h
  <2>. QED  BY <1>2, <2>2, <2>3, LenProperties
<1>. QED  BY <1>2, <1>3, <1>6

LEMMA EmitAnnounces ==
    ASSUME ApiTypeOK, ListenersOpen, NEW r \in Run, r \in runs,
           NEW type \in EventType \ {"started"}, Emit(r, type)
    PROVE  \E told : Announced(r, type, <<type>>, told)
<1>. DEFINE ls == listeners[r]
            told == Reached(ls, type)
<1>1. /\ ls \in Seq(Stream) /\ DOMAIN ls = 1..Len(ls) /\ Len(ls) \in Nat
      /\ listeners \in [Run -> Seq(Stream)]
      /\ \A i, j \in 1..Len(ls) : ls[i] = ls[j] => i = j
      /\ \A i \in 1..Len(ls) : ls[i] \in Stream
  BY LenProperties, ElementOfSeq DEF ApiTypeOK, ListenersOpen
<1>2. /\ events' = [events EXCEPT ![r] = Append(@, type)]
      /\ listeners' = [listeners EXCEPT ![r] = Remaining(@, type)]
      /\ received' = [s \in Stream |-> IF s \in told THEN Written(received[s], type) ELSE received[s]]
  BY DEF Emit
<1>3. events' = [events EXCEPT ![r] = @ \o <<type>>]
  <2>1. events[r] \in Seq(EventType) /\ type \in EventType
    BY DEF ApiTypeOK
  <2>2. Append(events[r], type) = events[r] \o <<type>>
    BY <2>1
  <2>. QED  BY <1>2, <2>2 DEF ApiTypeOK
<1>4. told \subseteq Stream /\ \A s \in told : \E j \in 1..Len(ls) : s = ls[j]
  BY <1>1 DEF Reached
<1>5. CASE type \in Terminal
  <2>. DEFINE half == [i \in 1..(Len(ls) \div 2) |-> ls[2 * i]]
  <2>1. listeners'[r] = half /\ \A q \in Run \ {r} : listeners'[q] = listeners[q]
    BY <1>1, <1>2, <1>5 DEF Remaining
  <2>2. /\ half \in Seq(Stream)
        /\ \A i \in 1..Len(half) : 2 * i \in 1..Len(ls) /\ half[i] = ls[2 * i]
        /\ Len(half) \in Nat
    BY <1>1, Halved
  <2>. HIDE DEF half
  <2>3. \A i, j \in 1..Len(half) : half[i] = half[j] => i = j
    BY <1>1, <2>2
  <2>4. ASSUME NEW i \in 1..Len(half), half[i] \in told
        PROVE  FALSE
    <3>1. PICK j \in 1..Len(ls) : half[i] = ls[j] /\ j % 2 = 1
      BY <1>1, <1>5, <2>4 DEF Reached
    <3>2. j = 2 * i
      BY <1>1, <2>2, <3>1
    <3>. QED  BY <2>2, <3>1, <3>2
  <2>5. listeners' \in [Run -> Seq(Stream)]
    BY <1>1, <1>2, <2>1, <2>2
  <2>6. \A i \in 1..Len(half) : \E j \in 1..Len(ls) : half[i] = ls[j]
    BY <2>2
  <2>. HIDE DEF told
  <2>7. /\ \A i, j \in 1..Len(listeners'[r]) : listeners'[r][i] = listeners'[r][j] => i = j
        /\ \A i \in 1..Len(listeners'[r]) : \E j \in 1..Len(ls) : listeners'[r][i] = ls[j]
        /\ \A i \in 1..Len(listeners'[r]) : listeners'[r][i] \notin told
    BY <2>1, <2>3, <2>4, <2>6
  <2>8. \A q \in Run \ {r} : listeners'[q] = listeners[q]
    BY <2>1
  <2>9. Announced(r, type, <<type>>, told)
    BY <1>2, <1>3, <1>4, <1>5, <2>5, <2>7, <2>8 DEF Announced
  <2>. QED  BY <2>9
<1>6. CASE type \notin Terminal
  <2>1. listeners' = listeners
    BY <1>1, <1>2, <1>6 DEF Remaining
  <2>2. \A j \in 1..Len(ls) : ls[j] \in told
    BY <1>1, <1>6 DEF Reached
  <2>. HIDE DEF told
  <2>3. Announced(r, type, <<type>>, told)
    BY <1>1, <1>2, <1>3, <1>4, <1>6, <2>1, <2>2 DEF Announced
  <2>. QED  BY <2>3
<1>. QED  BY <1>5, <1>6

LEMMA TwiceAnnounces ==
    ASSUME ApiTypeOK, ListenersOpen, NEW r \in Run, r \in runs, EmitTwice(r, "stopped")
    PROVE  \E told : Announced(r, "stopped", <<"stopped", "stopped">>, told)
<1>. DEFINE ls == listeners[r]
            half == [i \in 1..(Len(ls) \div 2) |-> ls[2 * i]]
            last == [i \in 1..(Len(half) \div 2) |-> half[2 * i]]
            told == Reached(ls, "stopped") \cup Reached(half, "stopped")
<1>1. /\ ls \in Seq(Stream) /\ DOMAIN ls = 1..Len(ls) /\ Len(ls) \in Nat
      /\ listeners \in [Run -> Seq(Stream)]
      /\ \A i, j \in 1..Len(ls) : ls[i] = ls[j] => i = j
      /\ \A i \in 1..Len(ls) : ls[i] \in Stream
      /\ "stopped" \in Terminal /\ "stopped" \in EventType \ {"started"}
  BY LenProperties, ElementOfSeq DEF ApiTypeOK, ListenersOpen, Terminal, EventType
<1>2. /\ half \in Seq(Stream) /\ Len(half) \in Nat /\ DOMAIN half = 1..Len(half)
      /\ \A i \in 1..Len(half) : 2 * i \in 1..Len(ls) /\ half[i] = ls[2 * i]
  BY <1>1, Halved, LenProperties
<1>3. Remaining(ls, "stopped") = half /\ Remaining(half, "stopped") = last
  BY <1>1 DEF Remaining
<1>. HIDE DEF half
<1>4. /\ last \in Seq(Stream) /\ Len(last) \in Nat
      /\ \A i \in 1..Len(last) : 2 * i \in 1..Len(half) /\ last[i] = half[2 * i]
  BY <1>2, Halved
<1>. HIDE DEF last
<1>5. /\ events' = [events EXCEPT ![r] = @ \o <<"stopped", "stopped">>]
      /\ listeners' = [listeners EXCEPT ![r] = last]
      /\ received' = [s \in Stream |->
             IF s \in Reached(half, "stopped")
             THEN Written([q \in Stream |-> IF q \in Reached(ls, "stopped")
                                            THEN Written(received[q], "stopped")
                                            ELSE received[q]][s], "stopped")
             ELSE [q \in Stream |-> IF q \in Reached(ls, "stopped")
                                    THEN Written(received[q], "stopped")
                                    ELSE received[q]][s]]
  BY <1>3 DEF EmitTwice
<1>6. \A s \in Reached(ls, "stopped") : \E j \in 1..Len(ls) : s = ls[j] /\ j % 2 = 1
  BY <1>1 DEF Reached
<1>7. \A s \in Reached(half, "stopped") : \E i \in 1..Len(half) : s = half[i] /\ i % 2 = 1
  BY <1>1, <1>2 DEF Reached
<1>8. Reached(ls, "stopped") \cap Reached(half, "stopped") = {}
  <2>. SUFFICES ASSUME NEW s \in Reached(ls, "stopped"), s \in Reached(half, "stopped")
                PROVE  FALSE
    OBVIOUS
  <2>1. PICK j \in 1..Len(ls) : s = ls[j] /\ j % 2 = 1
    BY <1>6
  <2>2. PICK i \in 1..Len(half) : s = half[i]
    BY <1>7
  <2>3. 2 * i \in 1..Len(ls) /\ s = ls[2 * i]
    BY <1>2, <2>2
  <2>4. j = 2 * i
    BY <1>1, <2>1, <2>3
  <2>. QED  BY <1>2, <2>1, <2>4
<1>9. received' = [s \in Stream |-> IF s \in told THEN Written(received[s], "stopped") ELSE received[s]]
  <2>. HIDE DEF Reached, Written
  <2>. QED  BY <1>5, <1>8
<1>10. told \subseteq Stream /\ \A s \in told : \E j \in 1..Len(ls) : s = ls[j]
  BY <1>1, <1>2, <1>6, <1>7
<1>11. \A i \in 1..Len(last) : 2 * (2 * i) \in 1..Len(ls) /\ last[i] = ls[2 * (2 * i)]
  BY <1>2, <1>4
<1>12. \A i, j \in 1..Len(last) : last[i] = last[j] => i = j
  BY <1>1, <1>4, <1>11
<1>13. ASSUME NEW i \in 1..Len(last), last[i] \in told
       PROVE  FALSE
  <2>1. CASE last[i] \in Reached(ls, "stopped")
    <3>1. PICK j \in 1..Len(ls) : last[i] = ls[j] /\ j % 2 = 1
      BY <1>6, <2>1
    <3>2. j = 2 * (2 * i)
      BY <1>1, <1>11, <3>1
    <3>. QED  BY <1>4, <3>1, <3>2
  <2>2. CASE last[i] \in Reached(half, "stopped")
    <3>1. PICK j \in 1..Len(half) : last[i] = half[j] /\ j % 2 = 1
      BY <1>7, <2>2
    <3>2. 2 * j \in 1..Len(ls) /\ last[i] = ls[2 * j]
      BY <1>2, <3>1
    <3>3. 2 * j = 2 * (2 * i)
      BY <1>1, <1>11, <3>2
    <3>4. j = 2 * i /\ i \in Nat
      BY <1>4, <3>3
    <3>. QED  BY <3>1, <3>4
  <2>. QED  BY <1>13, <2>1, <2>2
<1>14. /\ listeners'[r] = last /\ \A q \in Run \ {r} : listeners'[q] = listeners[q]
       /\ listeners' \in [Run -> Seq(Stream)]
  BY <1>1, <1>4, <1>5
<1>. HIDE DEF told
<1>15. \A i \in 1..Len(last) : \E j \in 1..Len(ls) : last[i] = ls[j]
  BY <1>11
<1>16. Announced(r, "stopped", <<"stopped", "stopped">>, told)
  BY <1>1, <1>5, <1>9, <1>10, <1>12, <1>13, <1>14, <1>15 DEF Announced
<1>. QED  BY <1>16
Sent == EventType \cup {"end"}

LEMMA PrefixExtends ==
    ASSUME NEW p \in Seq(EventType), NEW g \in Seq(Sent), IsPrefix(p, g), NEW x \in Seq(Sent)
    PROVE  IsPrefix(p, g \o x)
<1>1. p \in Seq(Sent)
  BY SeqMonotonic DEF Sent
<1>2. /\ g \o x \in Seq(Sent) /\ Len(g \o x) = Len(g) + Len(x)
      /\ \A i \in 1..Len(g) : (g \o x)[i] = g[i]
      /\ Len(g) \in Nat /\ Len(x) \in Nat /\ Len(p) \in Nat
  BY <1>1, Appended, LenProperties
<1>3. Len(p) <= Len(g) /\ \A i \in 1..Len(p) : p[i] = g[i]
  BY <1>1, PrefixElements
<1>4. Len(p) <= Len(g \o x) /\ \A i \in 1..Len(p) : i \in 1..Len(g)
  BY <1>2, <1>3
<1>5. \A i \in 1..Len(p) : p[i] = (g \o x)[i]
  BY <1>2, <1>3, <1>4
<1>. QED  BY <1>1, <1>2, <1>4, <1>5, PrefixElements

LEMMA OnList ==
    ASSUME NEW S, NEW ls \in Seq(S), NEW s
    PROVE  s \in ToSet(ls) <=> \E j \in 1..Len(ls) : ls[j] = s
BY LenProperties DEF ToSet

\* A stream without an "end" has not ended.
LEMMA NotEnded ==
    ASSUME ApiTypeOK, NEW s \in Stream, Going(received[s])
    PROVE  ~Ended(s)
<1>1. received[s] \in Seq(Sent)
  BY DEF ApiTypeOK, Sent
<1>2. received[s] # <<>> => Len(received[s]) \in 1..Len(received[s])
  BY <1>1, EmptySeq, LenProperties
<1>. QED  BY <1>2 DEF Ended, Last, Going

\* What is written to a stream for an event.
LEMMA WrittenTyped ==
    ASSUME NEW got \in Seq(Sent), NEW type \in EventType
    PROVE  /\ type \in Terminal => Written(got, type) = got \o <<type, "end">>
           /\ type \notin Terminal => Written(got, type) = got \o <<type>>
           /\ Written(got, type) \in Seq(Sent)
<1>1. type \in Sent /\ "end" \in Sent
  BY DEF Sent
<1>2. <<type, "end">> \in Seq(Sent) /\ <<type>> \in Seq(Sent)
  BY <1>1
<1>3. Append(got, type) = got \o <<type>>
  BY <1>1
<1>. QED  BY <1>2, <1>3, ConcatProperties DEF Written

LEMMA EndWritten ==
    ASSUME NEW got \in Seq(Sent), NEW type \in EventType
    PROVE  /\ got \o <<type, "end">> \in Seq(Sent) /\ Len(got \o <<type, "end">>) = Len(got) + 2
           /\ \A i \in 1..Len(got) : (got \o <<type, "end">>)[i] = got[i]
           /\ \A i \in 1..2 : (got \o <<type, "end">>)[Len(got) + i] = <<type, "end">>[i]
           /\ \A i \in 1..Len(got \o <<type, "end">>) : i \in 1..Len(got) \/ \E k \in 1..2 : i = Len(got) + k
<1>. DEFINE tail == <<type, "end">>
<1>1. tail \in Seq(Sent) /\ Len(tail) = 2
  BY DEF Sent
<1>. HIDE DEF tail
<1>2. /\ got \o tail \in Seq(Sent) /\ Len(got \o tail) = Len(got) + Len(tail)
      /\ \A i \in 1..Len(got) : (got \o tail)[i] = got[i]
      /\ \A i \in 1..Len(tail) : (got \o tail)[Len(got) + i] = tail[i]
      /\ \A i \in 1..Len(got \o tail) : i \in 1..Len(got) \/ \E k \in 1..Len(tail) : i = Len(got) + k
  BY ZenonT(60), <1>1, Appended
<1>3. /\ got \o tail \in Seq(Sent) /\ Len(got \o tail) = Len(got) + 2
      /\ \A i \in 1..Len(got) : (got \o tail)[i] = got[i]
      /\ \A i \in 1..2 : (got \o tail)[Len(got) + i] = tail[i]
      /\ \A i \in 1..Len(got \o tail) : i \in 1..Len(got) \/ \E k \in 1..2 : i = Len(got) + k
  BY <1>1, <1>2
<1>. QED  BY <1>3 DEF tail

LEMMA CopiesTyped ==
    ASSUME NEW type \in EventType, NEW more, more = <<type>> \/ more = <<type, type>>
    PROVE  more \in Seq(EventType) /\ Len(more) >= 1 /\ \A i \in 1..Len(more) : more[i] = type
<1>1. <<type>> \in Seq(EventType) /\ Len(<<type>>) = 1 /\ <<type>>[1] = type
  OBVIOUS
<1>2. <<type, type>> \in Seq(EventType) /\ Len(<<type, type>>) = 2
  OBVIOUS
<1>3. \A i \in 1..2 : <<type, type>>[i] = type
  OBVIOUS
<1>4. CASE more = <<type>>
  BY <1>1, <1>4
<1>5. CASE more = <<type, type>>
  BY <1>2, <1>3, <1>5
<1>. QED  BY <1>4, <1>5

LEMMA AnnouncedStreams ==
    ASSUME ApiInv, NEW r \in runs, NEW type, NEW more, NEW told, Announced(r, type, more, told),
           UNCHANGED watched,
           status' = [status EXCEPT ![r] = IF type \in Terminal THEN type ELSE @]
    PROVE  StreamsFaithful'
<1>1. /\ ApiTypeOK /\ r \in Run /\ events[r] \in Seq(EventType) /\ Run \subseteq Nat \ {0}
      /\ events \in [Run -> Seq(EventType)] /\ listeners \in [Run -> Seq(Stream)]
      /\ status \in [Run -> {"none", "running"} \cup Terminal]
      /\ received \in [Stream -> Seq(Sent)]
      /\ \A s \in Stream : watched[s] # 0 => watched[s] \in Run
  <2>1. watched \in [Stream -> 0..created] /\ created \in 0..MaxCreated
    BY DEF ApiInv, ApiTypeOK
  <2>2. \A s \in Stream : watched[s] # 0 => watched[s] \in Run
    BY <2>1, ApiAssumption DEF Run
  <2>. QED  BY SMTT(40), <2>2, EndIsLogged DEF ApiInv, ApiTypeOK, Run, Sent
<1>2. /\ type \in EventType /\ type # "started" /\ (more = <<type>> \/ more = <<type, type>>)
      /\ events' = [events EXCEPT ![r] = @ \o more]
      /\ listeners' \in [Run -> Seq(Stream)]
      /\ \A q \in Run \ {r} : listeners'[q] = listeners[q]
      /\ \A i \in 1..Len(listeners'[r]) : \E j \in 1..Len(listeners[r]) : listeners'[r][i] = listeners[r][j]
      /\ \A s \in told : \E j \in 1..Len(listeners[r]) : s = listeners[r][j]
      /\ received' = [s \in Stream |-> IF s \in told THEN Written(received[s], type) ELSE received[s]]
      /\ type \in Terminal => \A i \in 1..Len(listeners'[r]) : listeners'[r][i] \notin told
      /\ type \notin Terminal =>
            more = <<type>> /\ \A j \in 1..Len(listeners[r]) : listeners[r][j] \in told
  BY DEF Announced
<1>3. more \in Seq(EventType) /\ Len(more) >= 1 /\ \A i \in 1..Len(more) : more[i] = type
  BY <1>2, CopiesTyped, Zenon
<1>. DEFINE log == events[r]
            newLog == log \o more
<1>4. events'[r] = newLog /\ newLog \in Seq(EventType)
  BY <1>1, <1>2, <1>3, Appended
<1>5. status'[r] = IF type \in Terminal THEN type ELSE status[r]
  BY <1>1
<1>6. \/ EndsIn(log) /\ status[r] \in Terminal /\ Progress(newLog) = Progress(log)
      \/ ~EndsIn(log) /\ status[r] = "running" /\ type \in Terminal /\ Progress(newLog) = log
      \/ ~EndsIn(log) /\ status[r] = "running" /\ type \notin Terminal /\ Progress(newLog) = newLog
  <2>1. EndsIn(log) => Progress(newLog) = Progress(log) /\ status[r] \in Terminal
    BY <1>1, <1>3, ProgressKept, EndIsLogged
  <2>2. ~EndsIn(log) => status[r] = "running"
    BY EndIsLogged
  <2>3. ~EndsIn(log) /\ type \in Terminal => Progress(newLog) = log
    BY <1>1, <1>3, ProgressEnds
  <2>4. ASSUME ~EndsIn(log), type \notin Terminal
        PROVE  Progress(newLog) = newLog
    <3>1. ~EndsIn(newLog)
      BY SMTT(40), <1>1, <1>3, <2>4, Appended DEF EndsIn
    <3>. QED  BY <1>4, <3>1, ProgressWhole
  <2>. QED  BY <2>1, <2>2, <2>3, <2>4
<1>. HIDE DEF newLog
<1>. SUFFICES ASSUME NEW s \in Stream, watched[s] # 0
              PROVE  Faithful(s, watched[s])'
  BY DEF StreamsFaithful
<1>7. Faithful(s, watched[s]) /\ watched[s] \in Run
  BY <1>1 DEF ApiInv, StreamsFaithful
<1>8. \A q \in Run : \A j \in 1..Len(listeners[q]) : watched[listeners[q][j]] = q /\ Going(received[listeners[q][j]])
  BY DEF ApiInv, ListenersOpen
<1>9. CASE watched[s] # r
  <2>1. ASSUME s \in told
        PROVE  FALSE
    <3>1. PICK j \in 1..Len(listeners[r]) : s = listeners[r][j]
      BY <1>2, <2>1
    <3>. QED  BY <1>1, <1>8, <1>9, <3>1
  <2>2. /\ received'[s] = received[s] /\ events'[watched[s]] = events[watched[s]]
        /\ listeners'[watched[s]] = listeners[watched[s]] /\ status'[watched[s]] = status[watched[s]]
    BY <1>1, <1>2, <1>7, <1>9, <2>1
  <2>. QED  BY <1>7, <2>2 DEF Faithful, Ended
<1>. DEFINE got == received[s]
            listening == \E j \in 1..Len(listeners[r]) : listeners[r][j] = s
            listens == \E j \in 1..Len(listeners'[r]) : listeners'[r][j] = s
<1>10. ASSUME watched[s] = r
       PROVE  /\ listening \/ Ended(s) => IsPrefix(Progress(log), got)
              /\ listening /\ status[r] = "running" => got = log
              /\ \A i \in 1..Len(got) : got[i] = "end" => i = Len(got)
              /\ Ended(s) => status[r] \in Terminal
              /\ got \in Seq(Sent) /\ DOMAIN got = 1..Len(got) /\ Len(got) \in Nat
              /\ listening => Going(received[s]) /\ ~Ended(s)
  <2>1. listening <=> s \in ToSet(listeners[r])
    BY <1>1, OnList
  <2>2. got \in Seq(Sent) /\ DOMAIN got = 1..Len(got) /\ Len(got) \in Nat
    BY <1>1, LenProperties
  <2>3. listening => Going(received[s]) /\ ~Ended(s)
    BY <1>1, <1>8, NotEnded
  <2>. QED  BY <1>7, <1>10, <2>1, <2>2, <2>3 DEF Faithful
<1>11. s \in ToSet(listeners'[r]) <=> listens
  BY <1>1, <1>2, OnList
<1>12. listens => listening
  BY SMTT(40), <1>2
<1>13. Progress(log) \in Seq(EventType) /\ log \in Seq(EventType)
  BY <1>1, ProgressTyped
<1>14. CASE watched[s] = r /\ s \notin told
  <2>1. received'[s] = got /\ (Ended(s)' <=> Ended(s))
    BY <1>2, <1>14 DEF Ended
  <2>2. listens => type \in Terminal
    BY <1>2, <1>12, <1>14
  <2>3. listens \/ Ended(s) => IsPrefix(Progress(newLog), got)
    <3>1. CASE EndsIn(log)
      BY <1>6, <1>10, <1>12, <1>14, <3>1 DEF Terminal
    <3>2. CASE ~EndsIn(log)
      <4>1. status[r] = "running" /\ ~Ended(s)
        BY <1>6, <1>10, <1>14, <3>2 DEF Terminal
      <4>2. listens => got = log /\ Progress(newLog) = log
        BY <1>6, <1>10, <1>12, <1>14, <2>2, <3>2, <4>1
      <4>3. IsPrefix(log, log)
        BY <1>13, PrefixElements, LenProperties
      <4>. QED  BY <4>1, <4>2, <4>3
    <3>. QED  BY <3>1, <3>2
  <2>4. listens => status'[r] # "running"
    BY <1>5, <2>2 DEF Terminal
  <2>5. Ended(s) => status'[r] \in Terminal
    BY <1>5, <1>10, <1>14
  <2>. QED  BY <1>4, <1>10, <1>11, <1>14, <2>1, <2>3, <2>4, <2>5 DEF Faithful
<1>15. CASE watched[s] = r /\ s \in told /\ type \in Terminal
  <2>1. listening /\ ~listens
    BY <1>2, <1>15
  <2>2. received'[s] = got \o <<type, "end">>
    <3>1. Written(got, type) = got \o <<type, "end">>
      BY ZenonT(60), <1>2, <1>10, <1>15, WrittenTyped
    <3>. QED  BY <1>2, <1>15, <3>1
  <2>3. IsPrefix(Progress(newLog), got)
    <3>1. IsPrefix(log, log)
      BY <1>13, PrefixElements, LenProperties
    <3>. QED  BY <1>6, <1>10, <1>15, <2>1, <3>1
  <2>4. Progress(newLog) \in Seq(EventType) /\ <<type, "end">> \in Seq(Sent)
    BY <1>2, <1>4, ProgressTyped DEF Sent
  <2>5. IsPrefix(Progress(newLog), received'[s])
    BY <1>10, <1>15, <2>2, <2>3, <2>4, PrefixExtends
  <2>6. /\ received'[s] \in Seq(Sent) /\ Len(received'[s]) = Len(got) + 2
        /\ \A i \in 1..Len(got) : received'[s][i] = got[i]
        /\ \A i \in 1..2 : received'[s][Len(got) + i] = <<type, "end">>[i]
        /\ \A i \in 1..Len(received'[s]) : i \in 1..Len(got) \/ \E k \in 1..2 : i = Len(got) + k
    <3>1. got \in Seq(Sent) /\ type \in EventType
      BY <1>2, <1>10, <1>15
    <3>. DEFINE new == got \o <<type, "end">>
    <3>2. /\ new \in Seq(Sent) /\ Len(new) = Len(got) + 2
          /\ \A i \in 1..Len(got) : new[i] = got[i]
          /\ \A i \in 1..2 : new[Len(got) + i] = <<type, "end">>[i]
          /\ \A i \in 1..Len(new) : i \in 1..Len(got) \/ \E k \in 1..2 : i = Len(got) + k
      BY <3>1, EndWritten
    <3>3. received'[s] = new
      BY <2>2
    <3>. HIDE DEF new
    <3>. QED  BY <3>2, <3>3
  <2>7. \A i \in 1..Len(received'[s]) : received'[s][i] = "end" => i = Len(received'[s])
    <3>1. \A i \in 1..Len(got) : received'[s][i] # "end"
      BY <1>10, <1>15, <2>1, <2>6 DEF Going
    <3>2. received'[s][Len(got) + 1] # "end"
      BY <1>2, <1>15, <2>6 DEF Terminal
    <3>. SUFFICES ASSUME NEW i \in 1..Len(received'[s]), received'[s][i] = "end"
                  PROVE  i = Len(received'[s])
      OBVIOUS
    <3>3. PICK k \in 1..2 : i = Len(got) + k
      BY <2>6, <3>1
    <3>4. k # 1
      BY <3>2, <3>3
    <3>. QED  BY <2>6, <3>3, <3>4
  <2>8. DOMAIN received'[s] = 1..Len(received'[s])
    BY <2>6, LenProperties
  <2>9. status'[r] \in Terminal
    BY <1>5, <1>15
  <2>. QED  BY <1>4, <1>11, <1>15, <2>1, <2>5, <2>7, <2>8, <2>9 DEF Faithful
<1>16. CASE watched[s] = r /\ s \in told /\ type \notin Terminal
  <2>1. listening /\ more = <<type>> /\ status'[r] = status[r]
    BY <1>2, <1>5, <1>16
  <2>2. received'[s] = got \o <<type>> /\ newLog = log \o <<type>>
    BY ZenonT(60), <1>1, <1>2, <1>16, <2>1, WrittenTyped DEF newLog
  <2>3. type \in Sent /\ <<type>> \in Seq(Sent) /\ Len(<<type>>) = 1 /\ type # "end"
    BY <1>2 DEF Sent, EventType, Terminal
  <2>4. status[r] = "running" => received'[s] = newLog
    BY <1>10, <1>16, <2>1, <2>2
  <2>5. IsPrefix(Progress(newLog), received'[s])
    <3>1. CASE EndsIn(log)
      BY <1>6, <1>10, <1>13, <1>16, <2>1, <2>2, <2>3, <3>1, PrefixExtends
    <3>2. CASE ~EndsIn(log)
      <4>1. IsPrefix(newLog, newLog)
        BY <1>4, PrefixElements, LenProperties
      <4>. QED  BY <1>6, <1>16, <2>4, <3>2, <4>1
    <3>. QED  BY <3>1, <3>2
  <2>6. /\ received'[s] \in Seq(Sent) /\ Len(received'[s]) = Len(got) + 1
        /\ \A i \in 1..Len(got) : received'[s][i] = got[i]
        /\ received'[s][Len(got) + 1] = type
    BY <1>10, <1>16, <2>2, <2>3
  <2>7. DOMAIN received'[s] = 1..Len(received'[s]) /\ Len(received'[s]) \in Nat
    BY <2>6, LenProperties
  <2>8. \A i \in 1..Len(received'[s]) : received'[s][i] # "end"
    <3>1. \A i \in 1..Len(got) : received'[s][i] # "end"
      BY <1>10, <1>16, <2>1, <2>6 DEF Going
    <3>. QED  BY <1>10, <1>16, <2>3, <2>6, <3>1
  <2>9. ~Ended(s)'
    <3>1. received'[s] # <<>> => Len(received'[s]) \in 1..Len(received'[s])
      BY <2>6, <2>7, EmptySeq
    <3>. QED  BY <2>8, <3>1 DEF Ended, Last
  <2>. QED  BY <1>4, <1>11, <1>16, <2>1, <2>4, <2>5, <2>7, <2>8, <2>9 DEF Faithful
<1>. QED  BY <1>9, <1>14, <1>15, <1>16
LEMMA AnnouncedStatus ==
    ASSUME ApiInv, NEW r \in runs, NEW type, NEW more, NEW told, Announced(r, type, more, told),
           UNCHANGED <<runs, created, crowd>>,
           status' = [status EXCEPT ![r] = IF type \in Terminal THEN type ELSE @],
           type \in {"completed", "failed"} => status[r] = "running"
    PROVE  RunsAccounted' /\ (EndsIn(events[r])' <=> EndsIn(events[r]) \/ type \in Terminal)
<1>1. /\ r \in Run /\ events[r] \in Seq(EventType) /\ events \in [Run -> Seq(EventType)]
      /\ status \in [Run -> {"none", "running"} \cup Terminal]
      /\ runs \subseteq Run /\ 1..created \subseteq Run
  <2>1. created \in 0..MaxCreated /\ runs \subseteq 1..created
    BY DEF ApiInv, ApiTypeOK
  <2>2. 1..created \subseteq Run
    BY <2>1, ApiAssumption DEF Run
  <2>. QED  BY <2>1, <2>2, EndIsLogged DEF ApiInv, ApiTypeOK
<1>2. /\ type \in EventType /\ type # "started" /\ (more = <<type>> \/ more = <<type, type>>)
      /\ events' = [events EXCEPT ![r] = @ \o more]
      /\ type \notin Terminal => more = <<type>>
  BY DEF Announced
<1>3. more \in Seq(EventType) /\ Len(more) >= 1 /\ \A i \in 1..Len(more) : more[i] = type
  <2>1. type \in EventType /\ (more = <<type>> \/ more = <<type, type>>)
    BY <1>2
  <2>. QED  BY <2>1, CopiesTyped
<1>. DEFINE log == events[r]
            newLog == log \o more
            n == Len(log)
            m == Len(newLog)
<1>4. /\ newLog \in Seq(EventType) /\ m = n + Len(more) /\ n \in Nat /\ Len(more) \in Nat /\ m \in Nat
      /\ \A i \in 1..n : newLog[i] = log[i]
      /\ \A i \in 1..m : i \in 1..n \/ (newLog[i] = type /\ i > n)
      /\ newLog[m] = type /\ m \in 1..m /\ \A i \in 1..n : i < m /\ i \in 1..m
      /\ DOMAIN newLog = 1..m /\ DOMAIN log = 1..n
  <2>1. /\ newLog \in Seq(EventType) /\ m = n + Len(more)
        /\ \A i \in 1..n : newLog[i] = log[i]
        /\ \A i \in 1..Len(more) : newLog[n + i] = more[i]
        /\ \A i \in 1..m : i \in 1..n \/ \E k \in 1..Len(more) : i = n + k
    BY <1>1, <1>3, Appended
  <2>2. n \in Nat /\ Len(more) \in Nat /\ m \in Nat /\ DOMAIN newLog = 1..m /\ DOMAIN log = 1..n
    BY <1>1, <1>3, <2>1, LenProperties
  <2>. HIDE DEF newLog, n, m
  <2>3. \A i \in 1..m : i \in 1..n \/ (newLog[i] = type /\ i > n)
    BY <1>3, <2>1, <2>2
  <2>4. m \in 1..m /\ \A i \in 1..n : i < m /\ i \in 1..m
    BY <1>3, <2>1, <2>2
  <2>5. newLog[m] = type
    BY <1>3, <2>1, <2>2, <2>3
  <2>. QED  BY <2>1, <2>2, <2>3, <2>4, <2>5
<1>5. events'[r] = newLog /\ \A q \in Run : q # r => events'[q] = events[q]
  BY <1>1, <1>2
<1>6. /\ status'[r] = IF type \in Terminal THEN type ELSE status[r]
      /\ \A q \in Run : q # r => status'[q] = status[q]
  BY <1>1
<1>. HIDE DEF newLog, m
<1>7. EndsIn(newLog) <=> EndsIn(log) \/ type \in Terminal
  <2>1. ASSUME EndsIn(newLog) PROVE EndsIn(log) \/ type \in Terminal
    BY <1>4, <2>1 DEF EndsIn, m
  <2>2. ASSUME EndsIn(log) PROVE EndsIn(newLog)
    BY <1>4, <2>2 DEF EndsIn, m
  <2>3. ASSUME type \in Terminal PROVE EndsIn(newLog)
    BY <1>4, <2>3 DEF EndsIn, m
  <2>. QED  BY <2>1, <2>2, <2>3
<1>8. StatusMatchesEvents'
  <2>. SUFFICES ASSUME NEW q \in runs
                PROVE  Reports(events'[q], status'[q])
    BY DEF StatusMatchesEvents
  <2>1. StatusMatchesEvents
    BY DEF ApiInv, RunsAccounted
  <2>2. CASE q # r
    BY <1>1, <1>5, <1>6, <2>1, <2>2 DEF StatusMatchesEvents
  <2>. DEFINE old == {i \in 1..n : log[i] \in {"started"} \cup Terminal}
              life == {i \in 1..m : newLog[i] \in {"started"} \cup Terminal}
  <2>3. /\ \E last \in old :
              /\ \A i \in old : i <= last
              /\ status[r] = IF log[last] = "started" THEN "running" ELSE log[last]
        /\ \A i, j \in old : i < j /\ log[i] = "stopped" => log[j] = "stopped"
    <3>1. Reports(log, status[r])
      BY <2>1 DEF StatusMatchesEvents
    <3>. QED  BY <1>4, <3>1 DEF Reports
  <2>4. \A i \in life : i \in old \/ (newLog[i] = type /\ i > n /\ type \in Terminal)
    BY <1>2, <1>4
  <2>5. \A i \in old : i \in life /\ newLog[i] = log[i] /\ i \in 1..n
    BY <1>4
  <2>6. CASE type \notin Terminal
    <3>1. life = old /\ status'[r] = status[r]
      BY <1>6, <2>4, <2>5, <2>6
    <3>2. /\ \E last \in life :
                /\ \A i \in life : i <= last
                /\ status'[r] = IF newLog[last] = "started" THEN "running" ELSE newLog[last]
          /\ \A i, j \in life : i < j /\ newLog[i] = "stopped" => newLog[j] = "stopped"
      BY <2>3, <2>5, <3>1
    <3>3. Reports(newLog, status'[r])
      BY <1>4, <3>2 DEF Reports, m
    <3>. QED  BY <1>5, <2>2, <3>3
  <2>7. CASE type \in Terminal
    <3>1. m \in life /\ (\A i \in life : i <= m) /\ newLog[m] = type /\ status'[r] = type
      BY <1>4, <1>6, <2>7 DEF m
    <3>2. ASSUME NEW i \in life, NEW j \in life, i < j, newLog[i] = "stopped"
          PROVE  newLog[j] = "stopped"
      <4>1. CASE i \in old /\ j \in old
        BY <2>3, <2>5, <3>2, <4>1
      <4>2. CASE i \in old /\ j \notin old
        <5>1. EndsIn(log) /\ newLog[j] = type
          BY <2>4, <2>5, <3>2, <4>2 DEF EndsIn, Terminal
        <5>2. status[r] # "running"
          BY <1>1, <5>1, EndIsLogged DEF Terminal
        <5>. QED  BY <2>7, <5>1, <5>2 DEF Terminal
      <4>3. CASE i \notin old
        <5>1. newLog[i] = type /\ i > n
          BY <2>4, <4>3
        <5>2. j \notin old
          BY <1>4, <3>2, <5>1
        <5>. QED  BY <2>4, <3>2, <5>1, <5>2
      <4>. QED  BY <4>1, <4>2, <4>3
    <3>3. type # "started" /\ "running" # type
      BY <1>2, <2>7 DEF Terminal
    <3>4. /\ \E last \in life :
                /\ \A i \in life : i <= last
                /\ status'[r] = IF newLog[last] = "started" THEN "running" ELSE newLog[last]
          /\ \A i, j \in life : i < j /\ newLog[i] = "stopped" => newLog[j] = "stopped"
      BY <3>1, <3>2, <3>3
    <3>5. Reports(newLog, status'[r])
      BY <1>4, <3>4 DEF Reports, m
    <3>. QED  BY <1>5, <2>2, <3>5
  <2>. QED  BY <2>6, <2>7
<1>9. RetentionBounded'
  <2>1. RetentionBounded
    BY DEF ApiInv, RunsAccounted
  <2>. QED  BY <1>1, <1>6, <2>1 DEF RetentionBounded
<1>. QED  BY <1>5, <1>7, <1>8, <1>9 DEF RunsAccounted, EndsIn

LEMMA AnnouncedLists ==
    ASSUME ApiInv, NEW r \in runs, NEW type, NEW more, NEW told, Announced(r, type, more, told),
           UNCHANGED watched
    PROVE  /\ ListenersOpen'
           /\ events' \in [Run -> Seq(EventType)] /\ listeners' \in [Run -> Seq(Stream)]
           /\ received' \in [Stream -> Seq(Sent)]
<1>1. /\ r \in Run /\ events \in [Run -> Seq(EventType)] /\ listeners \in [Run -> Seq(Stream)]
      /\ received \in [Stream -> Seq(Sent)]
  BY EndIsLogged DEF ApiInv, ApiTypeOK, Sent
<1>2. /\ type \in EventType /\ (more = <<type>> \/ more = <<type, type>>)
      /\ events' = [events EXCEPT ![r] = @ \o more]
      /\ listeners' \in [Run -> Seq(Stream)]
      /\ \A q \in Run \ {r} : listeners'[q] = listeners[q]
      /\ \A i, j \in 1..Len(listeners'[r]) : listeners'[r][i] = listeners'[r][j] => i = j
      /\ \A i \in 1..Len(listeners'[r]) : \E j \in 1..Len(listeners[r]) : listeners'[r][i] = listeners[r][j]
      /\ \A s \in told : \E j \in 1..Len(listeners[r]) : s = listeners[r][j]
      /\ received' = [s \in Stream |-> IF s \in told THEN Written(received[s], type) ELSE received[s]]
      /\ type \in Terminal => \A i \in 1..Len(listeners'[r]) : listeners'[r][i] \notin told
  BY DEF Announced
<1>3. events' \in [Run -> Seq(EventType)]
  <2>1. events[r] \o more \in Seq(EventType)
    BY <1>1, <1>2, CopiesTyped, ConcatProperties
  <2>. QED  BY <1>1, <1>2, <2>1
<1>4. received' \in [Stream -> Seq(Sent)]
  BY <1>1, <1>2, WrittenTyped
<1>5. \A q \in Run : \A i \in 1..Len(listeners[q]) :
          /\ watched[listeners[q][i]] = q /\ Going(received[listeners[q][i]])
          /\ listeners[q][i] \in Stream
  BY <1>1, ElementOfSeq DEF ApiInv, ListenersOpen
<1>6. \A q \in Run : \A i, j \in 1..Len(listeners[q]) : listeners[q][i] = listeners[q][j] => i = j
  BY DEF ApiInv, ListenersOpen
<1>7. ASSUME NEW q \in Run, NEW i \in 1..Len(listeners'[q])
      PROVE  watched[listeners'[q][i]] = q /\ Going(received'[listeners'[q][i]])
  <2>. DEFINE s == listeners'[q][i]
  <2>1. watched[s] = q /\ Going(received[s]) /\ s \in Stream
    <3>1. PICK j \in 1..Len(listeners[q]) : s = listeners[q][j]
      <4>1. CASE q = r
        BY <1>2, <4>1, Zenon
      <4>2. CASE q # r
        <5>1. listeners'[q] = listeners[q]
          BY <1>2, <4>2, Zenon
        <5>. QED  BY <5>1, Zenon
      <4>. QED  BY <4>1, <4>2, Zenon
    <3>. QED  BY <1>5, <3>1
  <2>. HIDE DEF s
  <2>2. CASE s \notin told
    <3>1. received'[s] = received[s]
      BY <1>2, <2>1, <2>2
    <3>. QED  BY <2>1, <3>1 DEF s
  <2>3. CASE s \in told
    <3>1. q = r
      <4>1. PICK j \in 1..Len(listeners[r]) : s = listeners[r][j]
        BY <1>2, <2>3
      <4>. QED  BY <1>1, <1>5, <2>1, <4>1
    <3>2. type \notin Terminal
      BY <1>2, <2>3, <3>1 DEF s
    <3>3. received'[s] = received[s] \o <<type>> /\ received[s] \in Seq(Sent)
      BY <1>1, <1>2, <2>1, <2>3, <3>2, WrittenTyped
    <3>4. type \in Sent /\ type # "end"
      BY <1>2 DEF Sent, EventType, Terminal
    <3>5. /\ Len(received'[s]) = Len(received[s]) + 1 /\ Len(received[s]) \in Nat
          /\ \A k \in 1..Len(received[s]) : received'[s][k] = received[s][k]
          /\ received'[s][Len(received[s]) + 1] = type
      BY <3>3, <3>4
    <3>6. Going(received'[s])
      BY SMTT(40), <2>1, <3>4, <3>5 DEF Going
    <3>. QED  BY <2>1, <3>6 DEF s
  <2>. QED  BY <2>1, <2>2, <2>3 DEF s
<1>8. ASSUME NEW q \in Run, NEW i \in 1..Len(listeners'[q]), NEW j \in 1..Len(listeners'[q]),
             listeners'[q][i] = listeners'[q][j]
      PROVE  i = j
  BY <1>2, <1>6, <1>8
<1>. QED  BY <1>2, <1>3, <1>4, <1>7, <1>8 DEF ListenersOpen
LEMMA ApiRanges ==
    ASSUME ApiTypeOK
    PROVE  /\ created \in Nat /\ created <= MaxCreated /\ Run \subseteq Nat \ {0}
           /\ 1..created \subseteq Run /\ runs \subseteq 1..created /\ runs \subseteq Run
           /\ \A s \in Stream : watched[s] # 0 => watched[s] \in 1..created
           /\ \A c \in Client : reading[c] # 0 => reading[c] \in 1..created
<1>1. created \in 0..MaxCreated /\ runs \subseteq 1..created /\ watched \in [Stream -> 0..created]
      /\ reading \in [Client -> 0..created]
  BY DEF ApiTypeOK
<1>2. MaxCreated \in Nat
  BY ApiAssumption
<1>. QED  BY <1>1, <1>2 DEF Run

\* A stream is served as well by a shorter list.
LEMMA FaithfulLeft ==
    ASSUME NEW s, NEW r, Faithful(s, r),
           received'[s] = received[s], events'[r] = events[r], status'[r] = status[r],
           s \in ToSet(listeners'[r]) => s \in ToSet(listeners[r])
    PROVE  Faithful(s, r)'
BY DEF Faithful, Ended

Sleeping == {"first", "second", "third"}

\* Events that startRun and the handlers announce, in or out of the map.
LEMMA EmitKeeps ==
    ASSUME ApiInv, NEW r \in 1..created, NEW type \in EventType \ {"started"}, NEW p \in Phase,
           Emit(r, type) \/ (type = "stopped" /\ EmitTwice(r, type)),
           UNCHANGED <<created, runs, crowd, watched>>,
           status' = [status EXCEPT ![r] = IF type \in Terminal THEN type ELSE @],
           phase' = [phase EXCEPT ![r] = p],
           type \in {"completed", "failed"} => status[r] = "running",
           IF type \in Terminal THEN p = "over" ELSE (p \in Sleeping <=> phase[r] \in Sleeping)
    PROVE  /\ StreamsFaithful' /\ RunsAccounted' /\ ListenersOpen' /\ SleepsRun'
           /\ events' \in [Run -> Seq(EventType)] /\ listeners' \in [Run -> Seq(Stream)]
           /\ received' \in [Stream -> Seq(Sent)]
<1>1. /\ ApiTypeOK /\ r \in Run /\ runs \subseteq Run /\ r <= created /\ created \in Nat
      /\ status \in [Run -> {"none", "running"} \cup Terminal] /\ phase \in [Run -> Phase]
      /\ 1..created \subseteq Run /\ Run \subseteq Nat
  BY SMTT(40), ApiRanges DEF ApiInv, ApiTypeOK
<1>2. SleepsRun /\ ListenersOpen /\ StreamsFaithful /\ RunsAccounted
  BY DEF ApiInv
<1>3. status[r] # "none"
  BY <1>1, <1>2 DEF SleepsRun
<1>4. /\ status'[r] = IF type \in Terminal THEN type ELSE status[r]
      /\ \A q \in Run : q # r => status'[q] = status[q]
      /\ phase'[r] = p /\ \A q \in Run : q # r => phase'[q] = phase[q]
  BY <1>1
<1>5. ASSUME \A q \in Run : q # r => EndsIn(events'[q]) = EndsIn(events[q]),
             type \notin Terminal => (EndsIn(events'[r]) <=> EndsIn(events[r]))
      PROVE  SleepsRun'
  <2>. SUFFICES ASSUME NEW q \in Run
                PROVE  /\ status'[q] = "running" <=> phase'[q] \in {"first", "second", "third"}
                       /\ status'[q] # "none" <=> q <= created
                       /\ status'[q] = "running" => ~EndsIn(events'[q])
    BY <1>1 DEF SleepsRun, EndsIn
  <2>1. /\ status[q] = "running" <=> phase[q] \in {"first", "second", "third"}
        /\ status[q] # "none" <=> q <= created
        /\ status[q] = "running" => ~EndsIn(events[q])
    BY <1>2 DEF SleepsRun
  <2>2. CASE q # r
    BY <1>4, <1>5, <2>1, <2>2
  <2>3. CASE q = r /\ type \in Terminal
    BY <1>1, <1>4, <2>3 DEF Terminal
  <2>4. CASE q = r /\ type \notin Terminal
    BY <1>4, <1>5, <2>1, <2>4 DEF Sleeping
  <2>. QED  BY <2>2, <2>3, <2>4
<1>6. CASE r \notin runs
  <2>1. UNCHANGED <<events, listeners, received>>
    BY <1>6 DEF Emit, EmitTwice
  <2>2. status[r] \in Terminal /\ status'[r] \in Terminal
    BY <1>2, <1>4, <1>6 DEF RunsAccounted, RetentionBounded
  <2>3. StreamsFaithful'
    <3>. SUFFICES ASSUME NEW s \in Stream, watched[s] # 0
                  PROVE  Faithful(s, watched[s])'
      BY DEF StreamsFaithful
    <3>1. Faithful(s, watched[s]) /\ watched[s] \in Run
      BY <1>1, <1>2, ApiRanges DEF StreamsFaithful
    <3>2. CASE watched[s] # r
      BY <1>4, <2>1, <3>1, <3>2 DEF Faithful, Ended
    <3>3. CASE watched[s] = r
      <4>1. status[r] # "running" /\ status'[r] # "running"
        BY <2>2 DEF Terminal
      <4>. QED  BY <2>1, <2>2, <3>1, <3>3, <4>1 DEF Faithful, Ended
    <3>. QED  BY <3>2, <3>3
  <2>4. RunsAccounted'
    <3>1. \A q \in runs : q \in Run /\ q # r /\ status'[q] = status[q] /\ events'[q] = events[q]
      BY <1>1, <1>4, <1>6, <2>1
    <3>2. StatusMatchesEvents'
      BY <1>2, <3>1 DEF RunsAccounted, StatusMatchesEvents
    <3>3. RetentionBounded'
      BY <1>1, <1>2, <1>4, <2>2 DEF RunsAccounted, RetentionBounded
    <3>. QED  BY <3>2, <3>3 DEF RunsAccounted
  <2>5. ListenersOpen'
    <3>1. listeners' = listeners /\ received' = received /\ watched' = watched
      BY <2>1
    <3>2. \A q \in Run :
              /\ \A i \in 1..Len(listeners'[q]) :
                    watched'[listeners'[q][i]] = q /\ Going(received'[listeners'[q][i]])
              /\ \A i, j \in 1..Len(listeners'[q]) : listeners'[q][i] = listeners'[q][j] => i = j
      BY <1>2, <3>1, Zenon DEF ListenersOpen
    <3>. QED  BY <3>2, Zenon DEF ListenersOpen
  <2>6. SleepsRun'
    <3>1. events' = events
      BY <2>1
    <3>. QED  BY <1>5, <3>1, Zenon
  <2>7. /\ events' \in [Run -> Seq(EventType)] /\ listeners' \in [Run -> Seq(Stream)]
        /\ received' \in [Stream -> Seq(Sent)]
    BY <1>1, <2>1 DEF ApiTypeOK, Sent
  <2>. QED  BY <2>3, <2>4, <2>5, <2>6, <2>7
<1>7. CASE r \in runs
  <2>1. PICK more, told : Announced(r, type, more, told)
    <3>1. CASE Emit(r, type)
      <4>1. \E told : Announced(r, type, <<type>>, told)
        BY <1>1, <1>2, <1>7, <3>1, EmitAnnounces
      <4>. QED  BY <4>1
    <3>2. CASE type = "stopped" /\ EmitTwice(r, type)
      <4>1. EmitTwice(r, "stopped")
        BY <3>2
      <4>2. \E told : Announced(r, "stopped", <<"stopped", "stopped">>, told)
        BY <1>1, <1>2, <1>7, <4>1, TwiceAnnounces
      <4>. QED  BY <3>2, <4>2
    <3>. QED  BY <3>1, <3>2
  <2>2. RunsAccounted' /\ (EndsIn(events[r])' <=> EndsIn(events[r]) \/ type \in Terminal)
    BY <1>7, <2>1, AnnouncedStatus
  <2>3. StreamsFaithful'
    BY <1>7, <2>1, AnnouncedStreams
  <2>4. /\ ListenersOpen'
        /\ events' \in [Run -> Seq(EventType)] /\ listeners' \in [Run -> Seq(Stream)]
        /\ received' \in [Stream -> Seq(Sent)]
    BY <1>7, <2>1, AnnouncedLists
  <2>5. \A q \in Run : q # r => events'[q] = events[q]
    BY <1>1, <2>1 DEF Announced, ApiTypeOK
  <2>6. SleepsRun'
    <3>1. EndsIn(events[r])' <=> EndsIn(events'[r])
      BY DEF EndsIn
    <3>. QED  BY <1>5, <2>2, <2>5, <3>1
  <2>. QED  BY <2>2, <2>3, <2>4, <2>6
<1>. QED  BY <1>6, <1>7

LEMMA AdvanceKeeps ==
    ASSUME ApiInv, NEW r \in Run, RunAdvances(r) \/ RunCompletes(r) \/ RunFails(r)
    PROVE  ApiInv'
<1>1. /\ ApiTypeOK /\ SleepsRun /\ phase \in [Run -> Phase]
      /\ status \in [Run -> {"none", "running"} \cup Terminal]
  BY DEF ApiInv, ApiTypeOK
<1>2. phase[r] \in Sleeping
  BY DEF RunAdvances, RunCompletes, RunFails, Sleeping
<1>3. status[r] = "running" /\ r \in 1..created
  BY <1>1, <1>2, ApiRanges DEF SleepsRun, Sleeping
<1>4. CASE RunAdvances(r)
  <2>. DEFINE p == IF phase[r] = "first" THEN "second" ELSE "third"
  <2>1. /\ phase' = [phase EXCEPT ![r] = p] /\ Emit(r, "phase")
        /\ UNCHANGED <<created, runs, status, crowd, watched, reading>>
    BY <1>4 DEF RunAdvances
  <2>2. p \in Phase /\ p \in Sleeping /\ "phase" \in EventType \ {"started"} /\ "phase" \notin Terminal
    BY DEF Phase, Sleeping, EventType, Terminal
  <2>3. status' = [status EXCEPT ![r] = IF "phase" \in Terminal THEN "phase" ELSE @]
    BY <1>1, <2>1, <2>2
  <2>. HIDE DEF p
  <2>4. /\ StreamsFaithful' /\ RunsAccounted' /\ ListenersOpen' /\ SleepsRun'
        /\ events' \in [Run -> Seq(EventType)] /\ listeners' \in [Run -> Seq(Stream)]
        /\ received' \in [Stream -> Seq(Sent)]
    BY <1>2, <1>3, <2>1, <2>2, <2>3, EmitKeeps
  <2>5. ApiTypeOK'
    BY <1>1, <2>1, <2>2, <2>4 DEF ApiTypeOK, Sent
  <2>. QED  BY <2>4, <2>5 DEF ApiInv
<1>5. CASE RunCompletes(r) \/ RunFails(r)
  <2>1. PICK type \in {"completed", "failed"} :
            /\ phase' = [phase EXCEPT ![r] = "over"] /\ Emit(r, type)
            /\ status' = [status EXCEPT ![r] = type]
            /\ UNCHANGED <<created, runs, crowd, watched, reading>>
    BY <1>5 DEF RunCompletes, RunFails
  <2>2. "over" \in Phase /\ type \in EventType \ {"started"} /\ type \in Terminal
    BY DEF Phase, EventType, Terminal
  <2>3. status' = [status EXCEPT ![r] = IF type \in Terminal THEN type ELSE @]
    BY <1>1, <2>1, <2>2
  <2>4. /\ StreamsFaithful' /\ RunsAccounted' /\ ListenersOpen' /\ SleepsRun'
        /\ events' \in [Run -> Seq(EventType)] /\ listeners' \in [Run -> Seq(Stream)]
        /\ received' \in [Stream -> Seq(Sent)]
    BY <1>3, <2>1, <2>2, <2>3, EmitKeeps
  <2>5. ApiTypeOK'
    BY <1>1, <2>1, <2>2, <2>4 DEF ApiTypeOK, Sent, Terminal
  <2>. QED  BY <2>4, <2>5 DEF ApiInv
<1>. QED  BY <1>4, <1>5

LEMMA ActionKeeps ==
    ASSUME ApiInv, NEW c \in Client, StopRun(c) \/ ApproveRun(c) \/ RejectAction(c)
    PROVE  ApiInv'
<1>1. /\ ApiTypeOK /\ SleepsRun /\ phase \in [Run -> Phase]
      /\ status \in [Run -> {"none", "running"} \cup Terminal]
      /\ reading \in [Client -> 0..created]
  BY DEF ApiInv, ApiTypeOK
<1>. DEFINE r == reading[c]
<1>2. r \in 1..created /\ r \in Run /\ reading' = [reading EXCEPT ![c] = 0] /\ created \in Nat
  BY <1>1, ApiRanges DEF StopRun, ApproveRun, RejectAction
<1>3. reading' \in [Client -> 0..created]
  BY <1>1, <1>2
<1>. HIDE DEF r
<1>4. CASE StopRun(c)
  <2>1. /\ phase' = [phase EXCEPT ![r] = "over"]
        /\ Emit(r, "stopped") \/ EmitTwice(r, "stopped")
        /\ status' = [status EXCEPT ![r] = "stopped"]
        /\ UNCHANGED <<created, runs, crowd, watched>>
    BY <1>4 DEF StopRun, r
  <2>2. "over" \in Phase /\ "stopped" \in EventType \ {"started"} /\ "stopped" \in Terminal
    BY DEF Phase, EventType, Terminal
  <2>3. status' = [status EXCEPT ![r] = IF "stopped" \in Terminal THEN "stopped" ELSE @]
    BY <1>1, <2>1, <2>2
  <2>4. /\ StreamsFaithful' /\ RunsAccounted' /\ ListenersOpen' /\ SleepsRun'
        /\ events' \in [Run -> Seq(EventType)] /\ listeners' \in [Run -> Seq(Stream)]
        /\ received' \in [Stream -> Seq(Sent)]
    BY <1>2, <2>1, <2>2, <2>3, EmitKeeps
  <2>5. ApiTypeOK'
    BY <1>1, <1>2, <1>3, <2>1, <2>2, <2>4 DEF ApiTypeOK, Sent, Terminal
  <2>. QED  BY <2>4, <2>5 DEF ApiInv
<1>5. CASE ApproveRun(c)
  <2>1. /\ Emit(r, "approval_response")
        /\ UNCHANGED <<created, runs, status, phase, crowd, watched>>
    BY <1>5 DEF ApproveRun, r, runVars
  <2>2. /\ "approval_response" \in EventType \ {"started"} /\ "approval_response" \notin Terminal
        /\ "approval_response" # "completed" /\ phase[r] \in Phase
    BY <1>1, <1>2 DEF EventType, Terminal
  <2>. DEFINE p == phase[r]
  <2>3. /\ status' = [status EXCEPT ![r] = IF "approval_response" \in Terminal THEN "approval_response" ELSE @]
        /\ phase' = [phase EXCEPT ![r] = p]
        /\ p \in Phase /\ (p \in Sleeping <=> phase[r] \in Sleeping)
    BY <1>1, <2>1, <2>2
  <2>. HIDE DEF p
  <2>4. /\ StreamsFaithful' /\ RunsAccounted' /\ ListenersOpen' /\ SleepsRun'
        /\ events' \in [Run -> Seq(EventType)] /\ listeners' \in [Run -> Seq(Stream)]
        /\ received' \in [Stream -> Seq(Sent)]
    BY <1>2, <2>1, <2>2, <2>3, EmitKeeps
  <2>5. ApiTypeOK'
    BY <1>1, <1>2, <1>3, <2>1, <2>4 DEF ApiTypeOK, Sent
  <2>. QED  BY <2>4, <2>5 DEF ApiInv
<1>6. CASE RejectAction(c)
  <2>1. UNCHANGED <<created, runs, status, phase, crowd, events, listeners, watched, received>>
    BY <1>6 DEF RejectAction, runVars, streamVars
  <2>2. ApiTypeOK'
    BY <1>1, <1>3, <2>1 DEF ApiTypeOK
  <2>3. StreamsFaithful' /\ RunsAccounted' /\ ListenersOpen' /\ SleepsRun'
    BY <2>1
    DEF ApiInv, StreamsFaithful, Faithful, Ended, RunsAccounted, StatusMatchesEvents, RetentionBounded,
        ListenersOpen, SleepsRun, EndsIn
  <2>. QED  BY <2>2, <2>3 DEF ApiInv
<1>. QED  BY <1>4, <1>5, <1>6

\* How many runs an eviction leaves: those in progress, and finished ones up
\* to the limit.
LEMMA KeptBounded ==
    ASSUME NEW ids \in SUBSET Run, NEW st
    PROVE  LET kept == Kept(ids, st)
               busy == {r \in kept : st[r] \notin Terminal}
           IN  /\ kept \subseteq ids /\ \A r \in ids : r \in kept \/ st[r] \in Terminal
               /\ Cardinality(busy) \in 0..MaxCreated
               /\ Cardinality(kept) <= IF Cardinality(busy) > MaxRuns THEN Cardinality(busy) ELSE MaxRuns
<1>. DEFINE kept == Kept(ids, st)
            busy == {r \in kept : st[r] \notin Terminal}
            done == {r \in ids : st[r] \in Terminal}
            late == {r \in done : Cardinality({x \in done : x < r}) >= Cardinality(ids) - MaxRuns}
<1>1. MaxRuns \in Nat /\ MaxCreated \in Nat /\ ids \in SUBSET Nat
  BY ApiAssumption DEF Run
<1>2. kept \subseteq ids /\ \A r \in ids : r \in kept \/ st[r] \in Terminal
  BY DEF Kept
<1>3. /\ kept = busy \cup late /\ busy \cap late = {} /\ late \subseteq done
      /\ ids = busy \cup done /\ busy \cap done = {}
  <2>1. \A r \in ids : {x \in ids : x < r /\ st[x] \in Terminal} = {x \in done : x < r}
    OBVIOUS
  <2>. QED  BY <2>1 DEF Kept
<1>4. /\ IsFiniteSet(Run) /\ Cardinality(Run) = MaxCreated
  <2>1. 1 \in Int /\ MaxCreated \in Int
    BY <1>1
  <2>2. IsFiniteSet(1..MaxCreated) /\ Cardinality(1..MaxCreated) = MaxCreated
    BY <1>1, <2>1, FS_Interval
  <2>. QED  BY <2>2 DEF Run
<1>5. /\ IsFiniteSet(ids) /\ IsFiniteSet(kept) /\ IsFiniteSet(busy) /\ IsFiniteSet(done) /\ IsFiniteSet(late)
  <2>1. /\ kept \in SUBSET Run /\ busy \in SUBSET Run /\ done \in SUBSET Run /\ late \in SUBSET Run
    BY <1>2
  <2>. HIDE DEF kept, busy, done, late
  <2>. QED  BY <1>4, <2>1, FS_Subset
<1>6. busy \in SUBSET Run /\ kept \in SUBSET ids
  BY <1>2
<1>. HIDE DEF kept, busy, done
<1>7. /\ Cardinality(ids) \in Nat /\ Cardinality(kept) \in Nat /\ Cardinality(busy) \in Nat
      /\ Cardinality(done) \in Nat /\ Cardinality(late) \in Nat
  BY <1>5, FS_CardinalityType
<1>8. Cardinality(busy) <= MaxCreated /\ Cardinality(kept) <= Cardinality(ids)
  BY <1>4, <1>5, <1>6, FS_Subset
<1>9. /\ Cardinality(kept) = Cardinality(busy) + Cardinality(late)
      /\ Cardinality(ids) = Cardinality(busy) + Cardinality(done)
  <2>1. Cardinality({}) = 0
    BY FS_EmptySet
  <2>2. /\ Cardinality(busy \cup late) = Cardinality(busy) + Cardinality(late) - Cardinality(busy \cap late)
        /\ Cardinality(busy \cup done) = Cardinality(busy) + Cardinality(done) - Cardinality(busy \cap done)
    <3>. HIDE DEF late
    <3>. QED  BY <1>5, FS_Union
  <2>. HIDE DEF late
  <2>3. Cardinality(busy \cap late) = 0 /\ Cardinality(busy \cap done) = 0
    BY <1>3, <2>1, Zenon
  <2>4. Cardinality(busy \cup late) = Cardinality(kept) /\ Cardinality(busy \cup done) = Cardinality(ids)
    BY <1>3, Zenon
  <2>. QED  BY <1>7, <2>2, <2>3, <2>4
<1>10. CASE late = {}
  <2>1. Cardinality(late) = 0
    BY <1>10, FS_EmptySet
  <2>. QED  BY <1>1, <1>2, <1>7, <1>8, <1>9, <2>1 DEF kept, busy
<1>11. CASE late # {}
  <2>1. late \in SUBSET Nat
    BY <1>1 DEF done
  <2>2. PICK m \in late : \A r \in late : m <= r
    <3>. HIDE DEF late
    <3>. QED  BY <1>11, <2>1, LeastNatural
  <2>. DEFINE early == {x \in done : x < m}
  <2>3. Cardinality(early) >= Cardinality(ids) - MaxRuns
    BY <2>2
  <2>4. early \cap late = {}
    <3>1. ASSUME NEW x \in early, x \in late
          PROVE  FALSE
      <4>1. x < m /\ m <= x /\ x \in Nat /\ m \in Nat
        BY <2>1, <2>2, <3>1
      <4>. QED  BY <4>1
    <3>. QED  BY <3>1
  <2>5. early \in SUBSET done /\ late \in SUBSET done /\ early \cup late \in SUBSET done
    OBVIOUS
  <2>. HIDE DEF early, late
  <2>6. IsFiniteSet(early) /\ Cardinality(early) \in Nat
    BY <1>5, <2>5, FS_Subset, FS_CardinalityType
  <2>7. Cardinality(early) + Cardinality(late) <= Cardinality(done)
    <3>1. Cardinality(early \cup late) <= Cardinality(done)
      BY <1>5, <2>5, FS_Subset
    <3>2. Cardinality(early \cup late) = Cardinality(early) + Cardinality(late) - Cardinality(early \cap late)
      BY <1>5, <2>6, FS_Union
    <3>3. Cardinality(early \cap late) = 0
      BY <2>4, FS_EmptySet
    <3>. QED  BY <1>7, <2>6, <3>1, <3>2, <3>3
  <2>8. Cardinality(kept) <= MaxRuns
    BY <1>1, <1>7, <1>9, <2>3, <2>6, <2>7
  <2>. QED  BY <1>1, <1>2, <1>7, <1>8, <2>8 DEF kept, busy
<1>. QED  BY <1>10, <1>11
LEMMA CreateKeeps ==
    ASSUME ApiInv, CreateRun
    PROVE  ApiInv'
<1>. DEFINE r == created + 1
            ids == runs \cup {r}
<1>1. /\ ApiTypeOK /\ SleepsRun /\ ListenersOpen /\ StreamsFaithful /\ RunsAccounted
      /\ created \in Nat /\ runs \subseteq 1..created /\ MaxCreated \in Nat
      /\ status \in [Run -> {"none", "running"} \cup Terminal] /\ phase \in [Run -> Phase]
      /\ events \in [Run -> Seq(EventType)]
  BY ApiRanges, ApiAssumption DEF ApiInv, ApiTypeOK
<1>2. /\ created < MaxCreated /\ created' = r
      /\ status' = [status EXCEPT ![r] = "running"]
      /\ phase' = [phase EXCEPT ![r] = "first"]
      /\ runs' = Kept(ids, status')
      /\ events' = [events EXCEPT ![r] = <<"started">>]
      /\ crowd' = Cardinality({x \in runs' : status'[x] \notin Terminal})
      /\ listeners' = listeners /\ watched' = watched /\ received' = received /\ reading' = reading
  BY DEF CreateRun
<1>3. /\ r \in Run /\ r \in Nat /\ ids \in SUBSET Run /\ ids \subseteq 1..r /\ r \notin 1..created
      /\ created' \in 0..MaxCreated /\ 1..created' = 1..created \cup {r}
  <2>1. r \in 1..MaxCreated /\ r \in Nat /\ r \notin 1..created /\ r \in 1..r
    BY <1>1, <1>2
  <2>2. 1..r = 1..created \cup {r} /\ 1..r \subseteq 1..MaxCreated
    BY <1>1, <1>2
  <2>3. ids \subseteq 1..r
    BY <1>1, <2>1, <2>2
  <2>. HIDE DEF r
  <2>. QED  BY <1>2, <2>1, <2>2, <2>3 DEF Run
<1>4. <<"started">> \in Seq(EventType) /\ Len(<<"started">>) = 1 /\ <<"started">>[1] = "started"
      /\ "first" \in Phase
  BY DEF EventType, Phase
<1>. HIDE DEF r, ids
<1>5. /\ status'[r] = "running" /\ phase'[r] = "first" /\ events'[r] = <<"started">>
      /\ \A q \in Run : q # r => status'[q] = status[q] /\ phase'[q] = phase[q] /\ events'[q] = events[q]
  BY <1>1, <1>2, <1>3
<1>6. "started" \notin Terminal /\ "running" \notin Terminal
  BY DEF Terminal
<1>7. /\ runs' \subseteq ids /\ \A q \in ids : q \in runs' \/ status'[q] \in Terminal
      /\ crowd' \in 0..MaxCreated
      /\ Cardinality(runs') <= IF crowd' > MaxRuns THEN crowd' ELSE MaxRuns
  <2>. DEFINE st == status'
  <2>1. runs' = Kept(ids, st) /\ crowd' = Cardinality({x \in runs' : st[x] \notin Terminal})
    BY <1>2
  <2>2. \A q \in ids : (q \in runs' \/ st[q] \in Terminal) <=> (q \in runs' \/ status'[q] \in Terminal)
    OBVIOUS
  <2>. HIDE DEF st
  <2>. QED  BY <1>3, <2>1, <2>2, KeptBounded
<1>8. ApiTypeOK'
  <2>1. /\ status' \in [Run -> {"none", "running"} \cup Terminal] /\ phase' \in [Run -> Phase]
        /\ events' \in [Run -> Seq(EventType)]
    BY <1>1, <1>2, <1>4
  <2>2. runs' \subseteq 1..created'
    BY <1>2, <1>3, <1>7 DEF ids
  <2>3. \A q \in Run : q <= created' => status'[q] # "none"
    <3>. SUFFICES ASSUME NEW q \in Run, q <= created'
                  PROVE  status'[q] # "none"
      OBVIOUS
    <3>1. CASE q = r
      BY <1>5, <3>1
    <3>2. CASE q # r
      <4>1. q <= created
        BY <1>1, <1>2, <3>2 DEF r, Run
      <4>. QED  BY <1>1, <1>5, <3>2, <4>1 DEF ApiTypeOK
    <3>. QED  BY <3>1, <3>2
  <2>4. watched \in [Stream -> 0..created'] /\ reading \in [Client -> 0..created']
    <3>1. 0..created \subseteq 0..created'
      BY <1>1, <1>2 DEF r
    <3>. QED  BY <1>1, <3>1 DEF ApiTypeOK
  <2>. QED  BY <1>1, <1>2, <1>3, <1>7, <2>1, <2>2, <2>3, <2>4 DEF ApiTypeOK
<1>9. SleepsRun'
  <2>. SUFFICES ASSUME NEW q \in Run
                PROVE  /\ status'[q] = "running" <=> phase'[q] \in {"first", "second", "third"}
                       /\ status'[q] # "none" <=> q <= created'
                       /\ status'[q] = "running" => ~EndsIn(events'[q])
    BY DEF SleepsRun, EndsIn
  <2>1. CASE q = r
    <3>1. ~EndsIn(events'[q])
      BY <1>4, <1>5, <1>6, <2>1 DEF EndsIn
    <3>2. q <= created'
      BY <1>2, <1>3, <2>1
    <3>. QED  BY <1>5, <2>1, <3>1, <3>2
  <2>2. CASE q # r
    <3>1. /\ status[q] = "running" <=> phase[q] \in {"first", "second", "third"}
          /\ status[q] # "none" <=> q <= created
          /\ status[q] = "running" => ~EndsIn(events[q])
      BY <1>1 DEF SleepsRun
    <3>2. q <= created' <=> q <= created
      BY <1>1, <1>2, <2>2 DEF r, Run
    <3>. QED  BY <1>5, <2>2, <3>1, <3>2
  <2>. QED  BY <2>1, <2>2
<1>10. ListenersOpen'
  <2>1. \A q \in Run :
            /\ \A i \in 1..Len(listeners'[q]) :
                  watched'[listeners'[q][i]] = q /\ Going(received'[listeners'[q][i]])
            /\ \A i, j \in 1..Len(listeners'[q]) : listeners'[q][i] = listeners'[q][j] => i = j
    BY <1>1, <1>2, Zenon DEF ListenersOpen
  <2>. QED  BY <2>1, Zenon DEF ListenersOpen
<1>11. StreamsFaithful'
  <2>. SUFFICES ASSUME NEW s \in Stream, watched[s] # 0
                PROVE  Faithful(s, watched[s])'
    BY <1>2 DEF StreamsFaithful
  <2>1. Faithful(s, watched[s]) /\ watched[s] \in Run /\ watched[s] # r
    BY <1>1, <1>3, ApiRanges DEF StreamsFaithful
  <2>2. /\ received'[s] = received[s] /\ listeners'[watched[s]] = listeners[watched[s]]
        /\ events'[watched[s]] = events[watched[s]] /\ status'[watched[s]] = status[watched[s]]
        /\ watched'[s] = watched[s]
    BY <1>2, <1>5, <2>1
  <2>. QED  BY <2>1, <2>2 DEF Faithful, Ended
<1>12. RunsAccounted'
  <2>1. Reports(<<"started">>, "running")
    <3>. DEFINE log == <<"started">>
                life == {i \in DOMAIN log : log[i] \in {"started"} \cup Terminal}
    <3>1. DOMAIN log = {1} /\ log[1] = "started"
      OBVIOUS
    <3>2. life = {1}
      BY <3>1
    <3>. HIDE DEF log
    <3>3. /\ \E last \in life :
                /\ \A i \in life : i <= last
                /\ "running" = IF log[last] = "started" THEN "running" ELSE log[last]
          /\ \A i, j \in life : i < j /\ log[i] = "stopped" => log[j] = "stopped"
      BY <3>1, <3>2
    <3>4. Reports(log, "running")
      BY <3>3 DEF Reports
    <3>. QED  BY <3>4 DEF log
  <2>2. StatusMatchesEvents'
    <3>. SUFFICES ASSUME NEW q \in runs'
                  PROVE  Reports(events'[q], status'[q])
      BY DEF StatusMatchesEvents, Reports
    <3>1. CASE q = r
      BY <1>5, <2>1, <3>1
    <3>2. CASE q # r
      <4>1. q \in runs /\ q \in Run
        BY <1>3, <1>7, <3>2 DEF ids
      <4>2. Reports(events[q], status[q])
        BY <1>1, <4>1 DEF RunsAccounted, StatusMatchesEvents
      <4>. QED  BY <1>5, <3>2, <4>1, <4>2
    <3>. QED  BY <3>1, <3>2
  <2>3. \A q \in 1..created' : q \in runs' \/ status'[q] \in Terminal
    <3>. SUFFICES ASSUME NEW q \in 1..created'
                  PROVE  q \in runs' \/ status'[q] \in Terminal
      OBVIOUS
    <3>1. CASE q \in ids
      BY <1>7, <3>1
    <3>2. CASE q \notin ids
      <4>1. q \in 1..created /\ q # r /\ q \notin runs /\ q \in Run
        BY <1>1, <1>3, <3>2, ApiRanges DEF ids
      <4>. QED  BY <1>1, <1>5, <4>1 DEF RunsAccounted, RetentionBounded
    <3>. QED  BY <3>1, <3>2
  <2>. QED  BY <1>7, <2>2, <2>3 DEF RunsAccounted, RetentionBounded
<1>. QED  BY <1>8, <1>9, <1>10, <1>11, <1>12 DEF ApiInv

LEMMA ReceiveKeeps ==
    ASSUME ApiInv, NEW c \in Client, NEW r \in Run, ReceiveAction(c, r)
    PROVE  ApiInv'
<1>1. /\ reading' = [reading EXCEPT ![c] = r] /\ r \in runs
      /\ UNCHANGED <<created, runs, status, phase, crowd, events, listeners, watched, received>>
  BY DEF ReceiveAction, runVars, streamVars
<1>2. ApiTypeOK'
  <2>1. r \in 0..created /\ reading \in [Client -> 0..created]
    BY <1>1, ApiRanges DEF ApiInv, ApiTypeOK
  <2>2. reading' \in [Client -> 0..created]
    BY <1>1, <2>1
  <2>. QED  BY <1>1, <2>2 DEF ApiInv, ApiTypeOK
<1>3. StreamsFaithful' /\ RunsAccounted' /\ ListenersOpen' /\ SleepsRun'
  BY <1>1
  DEF ApiInv, StreamsFaithful, Faithful, Ended, RunsAccounted, StatusMatchesEvents, RetentionBounded,
      ListenersOpen, SleepsRun, EndsIn
<1>. QED  BY <1>2, <1>3 DEF ApiInv
\* A new stream is sent what has happened, as a replay of the whole log.
LEMMA ReplayIsFaithful ==
    ASSUME NEW log \in Seq(EventType)
    PROVE  /\ log \in Seq(Sent) /\ IsPrefix(Progress(log), log) /\ Going(log)
           /\ log # <<>> => Last(log) # "end"
           /\ Append(log, "end") \in Seq(Sent) /\ IsPrefix(Progress(log), Append(log, "end"))
           /\ \A i \in DOMAIN Append(log, "end") : Append(log, "end")[i] = "end" => i = Len(Append(log, "end"))
<1>1. /\ Len(log) \in Nat /\ DOMAIN log = 1..Len(log) /\ \A i \in 1..Len(log) : log[i] \in EventType
  BY LenProperties, ElementOfSeq
<1>2. \A t \in EventType : t \in Sent /\ t # "end"
  BY DEF Sent, EventType, Terminal
<1>3. "end" \in Sent
  BY DEF Sent
<1>4. log \in Seq(Sent)
  <2>1. EventType \subseteq Sent
    BY <1>2
  <2>. QED  BY <2>1
<1>5. Going(log)
  BY <1>1, <1>2 DEF Going
<1>6. log # <<>> => Last(log) # "end"
  <2>. SUFFICES ASSUME log # <<>>
                PROVE  log[Len(log)] # "end"
    BY DEF Last
  <2>1. Len(log) \in 1..Len(log)
    BY <1>1, EmptySeq
  <2>. QED  BY <1>5, <2>1 DEF Going
<1>. DEFINE got == Append(log, "end")
<1>7. /\ got \in Seq(Sent) /\ Len(got) = Len(log) + 1 /\ DOMAIN got = 1..(Len(log) + 1)
      /\ \A i \in 1..Len(log) : got[i] = log[i]
  BY <1>1, <1>3, <1>4
<1>. HIDE DEF got
<1>8. \A i \in DOMAIN got : got[i] = "end" => i = Len(got)
  <2>. SUFFICES ASSUME NEW i \in 1..(Len(log) + 1), got[i] = "end", i # Len(log) + 1
                PROVE  FALSE
    BY <1>7
  <2>1. i \in 1..Len(log)
    BY <1>1
  <2>. QED  BY <1>5, <1>7, <2>1 DEF Going
<1>9. /\ Progress(log) \in Seq(EventType) /\ Len(Progress(log)) <= Len(log)
      /\ \A i \in 1..Len(Progress(log)) : Progress(log)[i] = log[i]
  BY ProgressTyped
<1>10. Progress(log) \in Seq(Sent) /\ Len(Progress(log)) \in Nat
  <2>1. EventType \subseteq Sent
    BY <1>2
  <2>. QED  BY <1>9, <2>1, LenProperties
<1>11. IsPrefix(Progress(log), log)
  BY <1>4, <1>9, <1>10, PrefixElements
<1>12. IsPrefix(Progress(log), got)
  <2>1. Len(Progress(log)) <= Len(got)
    BY <1>1, <1>7, <1>9, <1>10
  <2>2. \A i \in 1..Len(Progress(log)) : Progress(log)[i] = got[i]
    BY <1>1, <1>7, <1>9, <1>10
  <2>. QED  BY <1>7, <1>10, <2>1, <2>2, PrefixElements
<1>. QED  BY <1>4, <1>5, <1>6, <1>7, <1>8, <1>11, <1>12 DEF got

\* What the lists may become for the other streams to be served as before.
LEMMA OthersServed ==
    ASSUME ApiInv, NEW s \in Stream, NEW q \in Stream, q # s, watched[q] # 0,
           events' = events, status' = status,
           watched'[q] = watched[q], received'[q] = received[q],
           \A w \in Run : q \in ToSet(listeners'[w]) => q \in ToSet(listeners[w])
    PROVE  Faithful(q, watched[q])'
<1>1. Faithful(q, watched[q]) /\ watched[q] \in Run
  BY ApiRanges DEF ApiInv, StreamsFaithful
<1>2. q \in ToSet(listeners'[watched[q]]) => q \in ToSet(listeners[watched[q]])
  BY <1>1
<1>. QED  BY <1>1, <1>2 DEF Faithful, Ended

LEMMA OpenKeeps ==
    ASSUME ApiInv, NEW s \in Stream, NEW r \in Run, OpenStream(s, r)
    PROVE  ApiInv'
<1>. DEFINE log == events[r]
            ls == listeners[r]
<1>1. /\ ApiTypeOK /\ SleepsRun /\ ListenersOpen /\ StreamsFaithful /\ RunsAccounted
      /\ watched \in [Stream -> 0..created] /\ received \in [Stream -> Seq(Sent)]
      /\ listeners \in [Run -> Seq(Stream)] /\ Run \subseteq Nat \ {0}
      /\ log \in Seq(EventType) /\ ls \in Seq(Stream)
  BY ApiRanges DEF ApiInv, ApiTypeOK, Sent
<1>2. /\ watched[s] = 0 /\ r \in runs
      /\ watched' = [watched EXCEPT ![s] = r]
      /\ events' = events /\ status' = status
      /\ UNCHANGED <<created, runs, phase, crowd, reading>>
  BY DEF OpenStream, runVars
<1>3. /\ EndsIn(log) <=> status[r] \in Terminal
      /\ EndsIn(log) \/ status[r] = "running"
  BY <1>2, EndIsLogged
<1>4. \A q \in Run : \A i \in 1..Len(listeners[q]) :
          /\ listeners[q][i] # s /\ listeners[q][i] \in Stream
          /\ watched[listeners[q][i]] = q /\ Going(received[listeners[q][i]])
  BY SMTT(40), <1>1, <1>2, ElementOfSeq DEF ListenersOpen
<1>5. \A q \in Run : \A i, j \in 1..Len(listeners[q]) : listeners[q][i] = listeners[q][j] => i = j
  BY <1>1 DEF ListenersOpen
<1>6. /\ watched'[s] = r /\ \A q \in Stream : q # s => watched'[q] = watched[q]
      /\ watched' \in [Stream -> 0..created']
  <2>1. r \in 0..created
    BY <1>1, <1>2 DEF ApiTypeOK
  <2>. QED  BY <1>1, <1>2, <2>1
<1>7. /\ log \in Seq(Sent) /\ IsPrefix(Progress(log), log) /\ Going(log)
      /\ log # <<>> => Last(log) # "end"
      /\ Append(log, "end") \in Seq(Sent) /\ IsPrefix(Progress(log), Append(log, "end"))
      /\ \A i \in DOMAIN Append(log, "end") : Append(log, "end")[i] = "end" => i = Len(Append(log, "end"))
  BY <1>1, ReplayIsFaithful
<1>8. SleepsRun' /\ RunsAccounted'
  BY <1>1, <1>2 DEF SleepsRun, EndsIn, RunsAccounted, StatusMatchesEvents, RetentionBounded
<1>. HIDE DEF log, ls
<1>9. CASE status[r] \in Terminal
  <2>1. received' = [received EXCEPT ![s] = Append(log, "end")] /\ listeners' = listeners
    BY <1>9 DEF OpenStream, log
  <2>. DEFINE got == Append(log, "end")
  <2>2. received'[s] = got /\ \A q \in Stream : q # s => received'[q] = received[q]
    BY <1>1, <2>1
  <2>. HIDE DEF got
  <2>3. ApiTypeOK'
    <3>1. received' \in [Stream -> Seq(Sent)]
      BY <1>1, <1>7, <2>1
    <3>. QED  BY <1>1, <1>2, <1>6, <2>1, <3>1 DEF ApiTypeOK, Sent
  <2>4. ListenersOpen'
    <3>1. \A q \in Run :
              /\ \A i \in 1..Len(listeners'[q]) :
                    watched'[listeners'[q][i]] = q /\ Going(received'[listeners'[q][i]])
              /\ \A i, j \in 1..Len(listeners'[q]) : listeners'[q][i] = listeners'[q][j] => i = j
      BY <1>4, <1>5, <1>6, <2>1, <2>2
    <3>. QED  BY <3>1, Zenon DEF ListenersOpen
  <2>5. StreamsFaithful'
    <3>. SUFFICES ASSUME NEW q \in Stream, watched'[q] # 0
                  PROVE  Faithful(q, watched[q])'
      BY DEF StreamsFaithful
    <3>1. CASE q # s
      BY <1>2, <1>6, <2>1, <2>2, <3>1, OthersServed
    <3>2. CASE q = s
      <4>1. s \notin ToSet(listeners'[r])
        <5>1. \A j \in 1..Len(ls) : ls[j] # s
          BY <1>4 DEF ls
        <5>. QED  BY <1>1, <2>1, <5>1, OnList DEF ls
      <4>2. /\ IsPrefix(Progress(events'[r]), got) /\ \A i \in DOMAIN got : got[i] = "end" => i = Len(got)
        BY <1>2, <1>7 DEF got, log
      <4>. QED  BY <1>2, <1>6, <1>9, <2>2, <3>2, <4>1, <4>2 DEF Faithful, Ended
    <3>. QED  BY <3>1, <3>2
  <2>. QED  BY <1>8, <2>3, <2>4, <2>5 DEF ApiInv
<1>10. CASE status[r] \notin Terminal
  <2>1. received' = [received EXCEPT ![s] = log] /\ listeners' = [listeners EXCEPT ![r] = Append(@, s)]
    BY <1>10 DEF OpenStream, log
  <2>2. /\ received'[s] = log /\ \A q \in Stream : q # s => received'[q] = received[q]
        /\ listeners'[r] = Append(ls, s) /\ \A q \in Run : q # r => listeners'[q] = listeners[q]
    BY <1>1, <2>1 DEF ls
  <2>3. /\ Append(ls, s) \in Seq(Stream) /\ Len(ls) \in Nat /\ Len(Append(ls, s)) = Len(ls) + 1
        /\ \A i \in 1..Len(ls) : Append(ls, s)[i] = ls[i]
        /\ Append(ls, s)[Len(ls) + 1] = s
    BY <1>1, AppendProperties, LenProperties
  <2>4. ApiTypeOK'
    <3>1. received' \in [Stream -> Seq(Sent)] /\ listeners' \in [Run -> Seq(Stream)]
      BY <1>1, <1>7, <2>1, <2>3 DEF ls
    <3>. QED  BY <1>1, <1>2, <1>6, <3>1 DEF ApiTypeOK, Sent
  <2>5. ListenersOpen'
    <3>1. ASSUME NEW q \in Run, NEW i \in 1..Len(listeners'[q])
          PROVE  /\ watched'[listeners'[q][i]] = q /\ Going(received'[listeners'[q][i]])
                 /\ \A j \in 1..Len(listeners'[q]) : listeners'[q][i] = listeners'[q][j] => i = j
      <4>1. CASE q # r
        BY <1>4, <1>5, <1>6, <2>2, <3>1, <4>1
      <4>2. CASE q = r /\ i = Len(ls) + 1
        <5>1. listeners'[q][i] = s
          BY <2>2, <2>3, <4>2
        <5>2. ASSUME NEW j \in 1..Len(listeners'[q]), listeners'[q][j] = s
              PROVE  i = j
          <6>1. j \in 1..(Len(ls) + 1) /\ Append(ls, s)[j] = s
            BY <2>2, <2>3, <4>2, <5>2
          <6>2. j \in 1..Len(ls) => ls[j] = s
            BY <2>3, <6>1
          <6>3. j \notin 1..Len(ls)
            BY <1>4, <6>2 DEF ls
          <6>. QED  BY <2>3, <4>2, <6>1, <6>3
        <5>. QED  BY <1>6, <1>7, <2>2, <4>2, <5>1, <5>2
      <4>3. CASE q = r /\ i # Len(ls) + 1
        <5>1. i \in 1..Len(ls) /\ listeners'[q][i] = ls[i]
          BY <2>2, <2>3, <4>3
        <5>2. ls[i] # s /\ ls[i] \in Stream /\ watched[ls[i]] = r /\ Going(received[ls[i]])
          BY <1>4, <5>1 DEF ls
        <5>3. ASSUME NEW j \in 1..Len(listeners'[q]), listeners'[q][j] = ls[i]
              PROVE  i = j
          <6>1. j # Len(ls) + 1
            BY <2>2, <2>3, <4>3, <5>2, <5>3
          <6>2. j \in 1..Len(ls) /\ ls[j] = ls[i]
            BY <2>2, <2>3, <4>3, <5>3, <6>1
          <6>. QED  BY <1>5, <5>1, <6>2 DEF ls
        <5>. QED  BY <1>6, <2>2, <4>3, <5>1, <5>2, <5>3
      <4>. QED  BY <4>1, <4>2, <4>3
    <3>. QED  BY <3>1 DEF ListenersOpen
  <2>6. StreamsFaithful'
    <3>. SUFFICES ASSUME NEW q \in Stream, watched'[q] # 0
                  PROVE  Faithful(q, watched[q])'
      BY DEF StreamsFaithful
    <3>1. CASE q # s
      <4>1. ASSUME NEW w \in Run, q \in ToSet(listeners'[w])
            PROVE  q \in ToSet(listeners[w])
        <5>1. CASE w # r
          BY <2>2, <4>1, <5>1
        <5>2. CASE w = r
          <6>1. PICK j \in 1..(Len(ls) + 1) : Append(ls, s)[j] = q
            <7>. DEFINE more == Append(ls, s)
            <7>1. more \in Seq(Stream) /\ Len(more) = Len(ls) + 1 /\ q \in ToSet(more)
              BY <2>2, <2>3, <4>1, <5>2
            <7>. HIDE DEF more
            <7>2. \E j \in 1..Len(more) : more[j] = q
              BY <7>1, OnList
            <7>. QED  BY <7>1, <7>2 DEF more
          <6>2. j \in 1..Len(ls) /\ ls[j] = q
            BY <2>3, <3>1, <6>1
          <6>. QED  BY <1>1, <5>2, <6>2, OnList DEF ls
        <5>. QED  BY <5>1, <5>2
      <4>. QED  BY <1>2, <1>6, <2>2, <3>1, <4>1, OthersServed
    <3>2. CASE q = s
      <4>1. /\ IsPrefix(Progress(events'[r]), log) /\ log = events'[r]
            /\ \A i \in DOMAIN log : log[i] # "end"
        BY <1>1, <1>2, <1>7, LenProperties DEF log, Going
      <4>. QED  BY <1>2, <1>6, <1>7, <2>2, <3>2, <4>1 DEF Faithful, Ended
    <3>. QED  BY <3>1, <3>2
  <2>. QED  BY <1>8, <2>4, <2>5, <2>6 DEF ApiInv
<1>. QED  BY <1>9, <1>10

\* A list with one element removed.
LEMMA Removed ==
    ASSUME NEW S, NEW ls \in Seq(S), NEW k \in 1..Len(ls)
    PROVE  LET rest == RemoveAt(ls, k)
           IN  /\ rest \in Seq(S) /\ Len(rest) = Len(ls) - 1 /\ Len(ls) \in Nat
               /\ \A i \in 1..Len(rest) : rest[i] = IF i < k THEN ls[i] ELSE ls[i + 1]
<1>. DEFINE a == SubSeq(ls, 1, k - 1)
            b == SubSeq(ls, k + 1, Len(ls))
<1>1. Len(ls) \in Nat /\ k \in Nat /\ k >= 1 /\ k <= Len(ls) /\ \A i \in 1..Len(ls) : ls[i] \in S
  BY LenProperties, ElementOfSeq
<1>2. /\ a \in Seq(S) /\ Len(a) = k - 1 /\ \A i \in 1..(k - 1) : a[i] = ls[i]
  <2>1. \A i \in 1..(k - 1) : ls[i] \in S
    BY <1>1
  <2>2. /\ a \in Seq(S) /\ Len(a) = IF 1 <= k - 1 THEN k - 1 - 1 + 1 ELSE 0
        /\ \A i \in 1..(k - 1 - 1 + 1) : a[i] = ls[1 + i - 1]
    BY <1>1, <2>1, SubSeqProperties
  <2>. QED  BY <1>1, <2>2
<1>3. /\ b \in Seq(S) /\ Len(b) = Len(ls) - k /\ \A i \in 1..(Len(ls) - k) : b[i] = ls[k + i]
  <2>1. \A i \in (k + 1)..Len(ls) : ls[i] \in S
    BY <1>1
  <2>2. /\ b \in Seq(S) /\ Len(b) = IF k + 1 <= Len(ls) THEN Len(ls) - (k + 1) + 1 ELSE 0
        /\ \A i \in 1..(Len(ls) - (k + 1) + 1) : b[i] = ls[k + 1 + i - 1]
    BY <1>1, <2>1, SubSeqProperties
  <2>. HIDE DEF b
  <2>. QED  BY <1>1, <2>2
<1>. HIDE DEF a, b
<1>4. /\ a \o b \in Seq(S) /\ Len(a \o b) = Len(a) + Len(b)
      /\ \A i \in 1..Len(a) : (a \o b)[i] = a[i]
      /\ \A i \in 1..Len(b) : (a \o b)[Len(a) + i] = b[i]
  <2>1. a \in Seq(S) /\ b \in Seq(S)
    BY <1>2, <1>3
  <2>. QED  BY <2>1, Appended
<1>5. RemoveAt(ls, k) = a \o b
  BY DEF RemoveAt, a, b
<1>6. Len(a \o b) = Len(ls) - 1
  BY <1>1, <1>2, <1>3, <1>4
<1>7. ASSUME NEW i \in 1..(Len(ls) - 1)
      PROVE  (a \o b)[i] = IF i < k THEN ls[i] ELSE ls[i + 1]
  <2>1. CASE i < k
    <3>1. i \in 1..(k - 1)
      BY <1>1, <2>1
    <3>. QED  BY <1>2, <1>4, <2>1, <3>1
  <2>2. CASE ~(i < k)
    <3>. DEFINE j == i - (k - 1)
    <3>1. j \in 1..(Len(ls) - k) /\ i = (k - 1) + j /\ i + 1 = k + j
      BY <1>1, <2>2
    <3>. HIDE DEF j
    <3>. QED  BY <1>2, <1>3, <1>4, <2>2, <3>1
  <2>. QED  BY <2>1, <2>2
<1>. QED  BY <1>1, <1>4, <1>5, <1>6, <1>7

LEMMA CloseKeeps ==
    ASSUME ApiInv, NEW s \in Stream, CloseStream(s)
    PROVE  ApiInv'
<1>. DEFINE r == watched[s]
            ls == listeners[r]
<1>1. /\ ApiTypeOK /\ SleepsRun /\ ListenersOpen /\ StreamsFaithful /\ RunsAccounted
      /\ listeners \in [Run -> Seq(Stream)] /\ Run \subseteq Nat \ {0}
  BY ApiRanges DEF ApiInv, ApiTypeOK
<1>2. /\ r \in Run /\ ls \in Seq(Stream) /\ DOMAIN ls = 1..Len(ls)
      /\ UNCHANGED <<created, runs, status, phase, crowd, events, watched, received, reading>>
  BY <1>1, ApiRanges, LenProperties DEF CloseStream, runVars
<1>3. PICK k \in 1..Len(ls) : ls[k] = s /\ listeners' = [listeners EXCEPT ![r] = RemoveAt(@, k)]
  BY <1>2 DEF CloseStream
<1>. DEFINE rest == RemoveAt(ls, k)
<1>4. /\ rest \in Seq(Stream) /\ Len(rest) = Len(ls) - 1 /\ Len(ls) \in Nat
      /\ \A i \in 1..Len(rest) : rest[i] = IF i < k THEN ls[i] ELSE ls[i + 1]
  <2>. HIDE DEF ls
  <2>. QED  BY <1>2, Removed
<1>5. /\ listeners'[r] = rest /\ \A q \in Run : q # r => listeners'[q] = listeners[q]
      /\ listeners' \in [Run -> Seq(Stream)]
  BY <1>1, <1>2, <1>3, <1>4
<1>. HIDE DEF rest
<1>6. \A i \in 1..Len(rest) : (i < k => i \in 1..Len(ls)) /\ (~(i < k) => i + 1 \in 1..Len(ls))
  BY <1>3, <1>4
<1>7. /\ \A i \in 1..Len(ls) : watched[ls[i]] = r /\ Going(received[ls[i]])
      /\ \A i, j \in 1..Len(ls) : ls[i] = ls[j] => i = j
  BY <1>1, <1>2 DEF ListenersOpen
<1>. HIDE DEF ls
<1>8. \A i \in 1..Len(rest) : \E j \in 1..Len(ls) : rest[i] = ls[j] /\ j # k
  <2>. SUFFICES ASSUME NEW i \in 1..Len(rest)
                PROVE  \E j \in 1..Len(ls) : rest[i] = ls[j] /\ j # k
    OBVIOUS
  <2>1. CASE i < k
    BY <1>4, <1>6, <2>1
  <2>2. CASE ~(i < k)
    <3>1. i + 1 # k /\ i + 1 \in 1..Len(ls) /\ rest[i] = ls[i + 1]
      BY <1>3, <1>4, <1>6, <2>2
    <3>. QED  BY <3>1
  <2>. QED  BY <2>1, <2>2
<1>9. ASSUME NEW i \in 1..Len(rest), NEW j \in 1..Len(rest), rest[i] = rest[j]
      PROVE  i = j
  <2>. DEFINE x == IF i < k THEN i ELSE i + 1
              y == IF j < k THEN j ELSE j + 1
  <2>1. rest[i] = ls[x] /\ rest[j] = ls[y] /\ x \in 1..Len(ls) /\ y \in 1..Len(ls)
    BY <1>4, <1>6
  <2>2. x = y
    <3>. HIDE DEF x, y
    <3>. QED  BY <1>7, <1>9, <2>1
  <2>. QED  BY <1>3, <1>4, <2>2
<1>. HIDE DEF r
<1>10. ListenersOpen'
  <2>1. ASSUME NEW q \in Run, NEW i \in 1..Len(listeners'[q])
        PROVE  /\ watched'[listeners'[q][i]] = q /\ Going(received'[listeners'[q][i]])
               /\ \A j \in 1..Len(listeners'[q]) : listeners'[q][i] = listeners'[q][j] => i = j
    <3>1. CASE q # r
      <4>1. listeners'[q] = listeners[q] /\ watched' = watched /\ received' = received
        BY <1>2, <1>5, <3>1
      <4>. QED  BY <1>1, <2>1, <4>1 DEF ListenersOpen
    <3>2. CASE q = r
      <4>1. watched'[rest[i]] = r /\ Going(received'[rest[i]])
        BY <1>2, <1>5, <1>7, <1>8, <2>1, <3>2
      <4>. QED  BY <1>5, <1>9, <2>1, <3>2, <4>1
    <3>. QED  BY <3>1, <3>2
  <2>. QED  BY <2>1 DEF ListenersOpen
<1>11. StreamsFaithful'
  <2>. SUFFICES ASSUME NEW q \in Stream, watched[q] # 0
                PROVE  Faithful(q, watched[q])'
    BY <1>2 DEF StreamsFaithful
  <2>1. Faithful(q, watched[q]) /\ watched[q] \in Run
    BY <1>1, ApiRanges DEF StreamsFaithful
  <2>2. ASSUME q \in ToSet(listeners'[watched[q]])
        PROVE  q \in ToSet(listeners[watched[q]])
    <3>1. CASE watched[q] # r
      BY <1>5, <2>1, <2>2, <3>1
    <3>2. CASE watched[q] = r
      <4>1. PICK i \in 1..Len(rest) : rest[i] = q
        BY <1>4, <1>5, <2>2, <3>2, OnList
      <4>2. \E j \in 1..Len(ls) : ls[j] = q
        BY <1>8, <4>1
      <4>. QED  BY <1>2, <3>2, <4>2, OnList DEF ls
    <3>. QED  BY <3>1, <3>2
  <2>. QED  BY <1>2, <2>1, <2>2 DEF Faithful, Ended
<1>12. ApiTypeOK'
  BY <1>1, <1>2, <1>5 DEF ApiTypeOK
<1>13. SleepsRun' /\ RunsAccounted'
  BY <1>1, <1>2 DEF SleepsRun, EndsIn, RunsAccounted, StatusMatchesEvents, RetentionBounded
<1>. QED  BY <1>10, <1>11, <1>12, <1>13 DEF ApiInv
LEMMA ApiStarts == ApiInit => ApiInv
<1>. SUFFICES ASSUME ApiInit PROVE ApiInv
  OBVIOUS
<1>1. /\ created = 0 /\ runs = {} /\ crowd = 0
      /\ status = [r \in Run |-> "none"] /\ phase = [r \in Run |-> "none"]
      /\ events = [r \in Run |-> <<>>] /\ listeners = [r \in Run |-> <<>>]
      /\ watched = [s \in Stream |-> 0] /\ received = [s \in Stream |-> <<>>]
      /\ reading = [c \in Client |-> 0]
  BY DEF ApiInit
<1>2. MaxCreated \in Nat /\ MaxRuns \in Nat /\ 1..0 = {} /\ \A r \in Run : r \in Nat /\ ~(r <= 0)
  BY ApiAssumption DEF Run
<1>3. ApiTypeOK
  BY <1>1, <1>2 DEF ApiTypeOK, Phase
<1>4. SleepsRun /\ ListenersOpen /\ StreamsFaithful
  BY <1>1, <1>2 DEF SleepsRun, ListenersOpen, StreamsFaithful
<1>5. RunsAccounted
  <2>1. Cardinality(runs) = 0
    BY <1>1, FS_EmptySet
  <2>. QED  BY <1>1, <1>2, <2>1 DEF RunsAccounted, StatusMatchesEvents, RetentionBounded
<1>. QED  BY <1>3, <1>4, <1>5 DEF ApiInv

LEMMA ApiStep == ApiInv /\ [ApiNext]_ApiVars => ApiInv'
<1>. SUFFICES ASSUME ApiInv, [ApiNext]_ApiVars
              PROVE  ApiInv'
  OBVIOUS
<1>1. CASE CreateRun
  BY <1>1, CreateKeeps
<1>2. CASE \E r \in Run : RunStep(r)
  BY <1>2, AdvanceKeeps DEF RunStep
<1>3. CASE \E c \in Client : \/ \E r \in Run : ReceiveAction(c, r)
                             \/ StopRun(c) \/ ApproveRun(c) \/ RejectAction(c)
  BY <1>3, ReceiveKeeps, ActionKeeps
<1>4. CASE \E s \in Stream : (\E r \in Run : OpenStream(s, r)) \/ CloseStream(s)
  BY <1>4, OpenKeeps, CloseKeeps
<1>5. CASE UNCHANGED ApiVars
  <2>1. UNCHANGED <<created, runs, status, phase, crowd, events, listeners, watched, received, reading>>
    BY <1>5 DEF ApiVars
  <2>2. ApiTypeOK'
    BY <2>1 DEF ApiInv, ApiTypeOK
  <2>3. StreamsFaithful' /\ RunsAccounted' /\ ListenersOpen' /\ SleepsRun'
    BY <2>1
    DEF ApiInv, StreamsFaithful, Faithful, Ended, RunsAccounted, StatusMatchesEvents, RetentionBounded,
        ListenersOpen, SleepsRun, EndsIn
  <2>. QED  BY <2>2, <2>3 DEF ApiInv
<1>. QED  BY <1>1, <1>2, <1>3, <1>4, <1>5 DEF ApiNext

\* The API server's part of Integrations' type invariant, on its own.
THEOREM ApiTyped == ApiSpec => []ApiTypeOK
<1>1. ApiInv => ApiTypeOK
  BY DEF ApiInv
<1>. QED  BY <1>1, ApiStarts, ApiStep, PTL DEF ApiSpec

\* For every number of runs, connections and stops, and every maxRuns: a
\* subscriber gets the run's events up to its end, each once, whether it
\* connects before, while or after they happen, although emitEvent skips
\* listeners and a stop is announced twice; nothing follows an "end".
THEOREM StreamsAreFaithful == ApiSpec => []StreamsFaithful
<1>1. ApiInv => StreamsFaithful
  BY DEF ApiInv
<1>. QED  BY <1>1, ApiStarts, ApiStep, PTL DEF ApiSpec

\* The status a GET reports is the one the event log tells, a stopped run is
\* neither completed nor failed by its timers, no run in progress is evicted,
\* and the map exceeds maxRuns only by runs in progress.
THEOREM RunsAreAccounted == ApiSpec => []RunsAccounted
<1>1. ApiInv => RunsAccounted
  BY DEF ApiInv
<1>. QED  BY <1>1, ApiStarts, ApiStep, PTL DEF ApiSpec

-----------------------------------------------------------------------------
(***************************************************************************)
(* The two together.  A step of the composition is a step of one of them.  *)
(***************************************************************************)

LEMMA BothStep == ApiInv /\ McpTypeOK /\ [Next]_vars => ApiInv' /\ McpTypeOK'
<1>1. ASSUME [Next]_vars
      PROVE  [ApiNext]_ApiVars /\ [McpNext]_McpVars
  BY <1>1 DEF Next, OnlyApi, OnlyMcp, vars
<1>. QED  BY <1>1, ApiStep, McpTypeStep

\* Type correctness of the specification TLC runs, for every value of its
\* constants.
THEOREM IntegrationsTyped == Spec => []TypeOK
<1>1. Init => ApiInv /\ McpTypeOK
  BY ApiStarts, McpStarts DEF Init
<1>2. ApiInv /\ McpTypeOK => TypeOK
  BY DEF ApiInv, TypeOK
<1>. QED  BY <1>1, <1>2, BothStep, PTL DEF Spec
=============================================================================
