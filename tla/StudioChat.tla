---------------------------- MODULE StudioChat ----------------------------
(***************************************************************************)
(* The web chat of apps/studio: one page (hooks/use-agent-stream.ts,       *)
(* app/page.tsx), the handlers of /api/chat and /api/chat/decision, the    *)
(* permission registry between them, runAgent and the table of messages.   *)
(* A closed connection is noticed by the server later, when the body of    *)
(* the response is cancelled.  What the model says, what is read and where *)
(* a file is written are left out; the intent of a run is what its prompt  *)
(* and its permission mode make of it: talk, ask before writing, or write. *)
(***************************************************************************)
EXTENDS Naturals, FiniteSets, SequencesExt

CONSTANTS
    Session,
    Resumed,              \* sessions of an earlier page: a prompt and its reply
    Intents,              \* which of "talk", "ask" and "yolo" runs may have
    HistoryLimit,         \* earlier messages a model is given at most, 12
    MaxSends              \* bound of the model: prompts sent

ASSUME ChatAssumption ==
    /\ Session # {} /\ Resumed \subseteq Session
    /\ MaxSends \in Nat
    /\ HistoryLimit \in Nat \ {0}
    /\ Intents \subseteq {"talk", "ask", "yolo"}

Chat == 1..MaxSends
Stage == {"none", "posted", "numbered", "saved", "model", "asking", "writing",
          "answered", "replying", "over"}

VARIABLES
    selected,    \* the page: sessionId
    active,      \* the run behind abortRef and isRunning; 0 when not running
    sent,        \* prompts sent so far
    owner,       \* the session a run was sent in
    intent,      \* what the run wants
    cards,       \* runs whose permission card the page shows
    clicked,     \* the answer the user gave to a run's permission card
    posts,       \* runs whose decision is on its way to the server
    cut,         \* runs whose connection the page closed or lost
    stage,       \* the server: where the handler of a run is
    gone,        \* its stream was cancelled: enqueue throws from now on
    said,        \* assistantText is not empty
    number,      \* the sequence number read for the next message of a run
    rows,        \* the messages of a session, in the order of insertion
    history      \* what the model was given, without the prompt

promptVars == <<sent, owner, intent>>
cardVars == <<cards, clicked, posts>>
pageVars == <<selected, active, promptVars, cardVars, cut>>
tableVars == <<number, rows, history>>
handlerVars == <<stage, gone, said, tableVars>>
ChatVars == <<pageVars, handlerVars>>

\* The messages of an earlier page: those of a run 0, which is over.
Before ==
    <<[run |-> 0, role |-> "user", number |-> 0], [run |-> 0, role |-> "assistant", number |-> 1]>>

\* The page opens in some session.
ChatInit ==
    /\ selected \in Session
    /\ active = 0
    /\ sent = 0
    /\ owner = [r \in Chat |-> selected]
    /\ intent = [r \in Chat |-> "talk"]
    /\ cards = {}
    /\ clicked = [r \in Chat |-> "none"]
    /\ posts = {}
    /\ cut = {}
    /\ stage = [r \in Chat |-> "none"]
    /\ gone = {}
    /\ said = [r \in Chat |-> FALSE]
    /\ number = [r \in Chat |-> 0]
    /\ rows = [s \in Session |-> IF s \in Resumed THEN Before ELSE <<>>]
    /\ history = [r \in Chat |-> <<>>]

Goto(r, s) == stage' = [stage EXCEPT ![r] = s]

-----------------------------------------------------------------------------
(* The page. *)

\* send: one run at a time.
SendPrompt(i) ==
    LET r == sent + 1
    IN  /\ active = 0
        /\ sent < MaxSends
        /\ sent' = r
        /\ active' = r
        /\ owner' = [owner EXCEPT ![r] = selected]
        /\ intent' = [intent EXCEPT ![r] = i]
        /\ Goto(r, "posted")
        /\ UNCHANGED <<selected, cardVars, cut, gone, said, tableVars>>

\* Mutated form of CloseChat: the guard on abortRef is dropped.
CloseChatIdle ==
    /\ cut' = cut \cup {active}
    /\ active' = 0
    /\ UNCHANGED <<selected, promptVars, cardVars, handlerVars>>

\* cancel; the same for a connection that breaks, after which sendReal shows
\* an error.  The rejected read runs its finally block before anything else.
CloseChat ==
    /\ active # 0
    /\ cut' = cut \cup {active}
    /\ active' = 0
    /\ UNCHANGED <<selected, promptVars, cardVars, handlerVars>>

\* handleSelectSession: a run goes on, and no prompt is sent before it ends.
\* A selection after the last prompt of the model changes nothing any more.
SelectSession(s) ==
    /\ s # selected /\ sent < MaxSends
    /\ selected' = s
    /\ UNCHANGED <<active, promptVars, cardVars, cut, handlerVars>>

\* Mutated form of ChatDone: the page takes a final event for the end.
ChatDoneEarly ==
    /\ active # 0
    /\ stage[active] \in {"answered", "replying", "over"}
    /\ active' = 0
    /\ UNCHANGED <<selected, promptVars, cardVars, cut, handlerVars>>

\* The stream of the active run ends, or its request was refused.
ChatDone ==
    /\ active # 0
    /\ stage[active] = "over"
    /\ active' = 0
    /\ UNCHANGED <<selected, promptVars, cardVars, cut, handlerVars>>

\* respondToPermission: a card shows its buttons once.  It stays on the page
\* when its run is cancelled.
Respond(r, d) ==
    /\ r \in cards
    /\ clicked[r] = "none"
    /\ clicked' = [clicked EXCEPT ![r] = d]
    /\ posts' = posts \cup {r}
    /\ UNCHANGED <<selected, active, promptVars, cards, cut, handlerVars>>

\* The decision request fails; the page only reports it.
DecisionLost(r) ==
    /\ r \in posts
    /\ posts' = posts \ {r}
    /\ UNCHANGED <<selected, active, promptVars, cards, clicked, cut, handlerVars>>

-----------------------------------------------------------------------------
(* The server. *)

\* A workspace that fails its validation.
Refuse(r) ==
    /\ stage[r] = "posted"
    /\ Goto(r, "over")
    /\ UNCHANGED <<pageVars, gone, said, tableVars>>

NextNumber(s) == Cardinality({rows[s][i].number : i \in DOMAIN rows[s]})

\* appendMessage reads the last number, then inserts.  Numbers are given
\* without gaps, so the next one is the count of those in use.
ReadNumber(r) ==
    /\ \/ stage[r] = "posted" /\ Goto(r, "numbered")
       \/ stage[r] = "answered" /\ said[r] /\ Goto(r, "replying")
    /\ number' = [number EXCEPT ![r] = NextNumber(owner[r])]
    /\ UNCHANGED <<pageVars, gone, said, rows, history>>

Insert(r, role) ==
    rows' = [rows EXCEPT ![owner[r]] = Append(@, [run |-> r, role |-> role, number |-> number[r]])]

SaveMessage(r) ==
    /\ \/ stage[r] = "numbered" /\ Insert(r, "user") /\ Goto(r, "saved")
       \/ stage[r] = "replying" /\ Insert(r, "assistant") /\ Goto(r, "over")
    /\ number' = [number EXCEPT ![r] = 0]
    /\ UNCHANGED <<pageVars, gone, said, history>>

\* getSessionWithMessages: by number, equal numbers as they were inserted.
Place(s, i) ==
    Cardinality({j \in DOMAIN rows[s] :
        \/ rows[s][j].number < rows[s][i].number
        \/ rows[s][j].number = rows[s][i].number /\ j <= i})

Ordered(s) ==
    [k \in DOMAIN rows[s] |-> rows[s][CHOOSE i \in DOMAIN rows[s] : Place(s, i) = k]]

\* Mutated form of Recent: the model is given the oldest messages.
RecentOldest(messages) ==
    SubSeq(messages, 1, IF Len(messages) > HistoryLimit THEN HistoryLimit ELSE Len(messages))

\* runAgent puts only the newest messages before the prompt.
Recent(messages) ==
    SubSeq(messages,
           IF Len(messages) > HistoryLimit THEN Len(messages) - HistoryLimit + 1 ELSE 1,
           Len(messages))

\* The history is everything but the last message; the stream is started,
\* and the model called with what is recent of it.
LoadHistory(r) ==
    /\ stage[r] = "saved"
    /\ history' = [history EXCEPT ![r] = Recent(Front(Ordered(owner[r])))]
    /\ Goto(r, "model")
    /\ UNCHANGED <<pageVars, gone, said, number, rows>>

\* Mutated form of Sends: an event that cannot be sent is dropped.
SendsDropped(r, s) == Goto(r, s)

\* An event is sent on the way to s.  send throws into the for-await loop
\* when the stream is gone, and so does the error the catch block reports:
\* the handler ends, nothing is saved.
Sends(r, s) == Goto(r, IF r \in gone THEN "over" ELSE s)

Token(r) ==
    /\ stage[r] = "model"
    /\ r \in gone \/ ~said[r]
    /\ said' = [said EXCEPT ![r] = TRUE]
    /\ Sends(r, "model")
    /\ UNCHANGED <<pageVars, gone, tableVars>>

\* The model is done: the next event announces a tool or the final text.
ModelEnds(r) ==
    /\ stage[r] = "model"
    /\ Sends(r, CASE intent[r] = "talk" -> "answered"
                  [] intent[r] = "ask" -> "asking"
                  [] intent[r] = "yolo" -> "writing")
    /\ cards' = IF intent[r] = "ask" /\ r \notin cut THEN cards \cup {r} ELSE cards
    /\ UNCHANGED <<selected, active, promptVars, clicked, posts, cut, gone, said, tableVars>>

\* An error is an event, and what was said before it is saved.
ModelFails(r) ==
    /\ stage[r] = "model"
    /\ Sends(r, "answered")
    /\ UNCHANGED <<pageVars, gone, said, tableVars>>

\* The decision handler; no entry, no effect.
Decide(r) ==
    /\ r \in posts
    /\ posts' = posts \ {r}
    /\ IF stage[r] # "asking" THEN UNCHANGED stage
       ELSE Goto(r, IF clicked[r] = "allow" THEN "writing" ELSE "answered")
    /\ UNCHANGED <<selected, active, promptVars, cards, clicked, cut, gone, said, tableVars>>

\* Mutated form of PermissionExpires: an entry never expires.
PermissionKept(r) == FALSE

\* The timer of waitFor: its rejection is reported as an error.
PermissionExpires(r) ==
    /\ stage[r] = "asking"
    /\ Goto(r, "answered")
    /\ UNCHANGED <<pageVars, gone, said, tableVars>>

FileWritten(r) ==
    /\ stage[r] = "writing"
    /\ Sends(r, "answered")
    /\ UNCHANGED <<pageVars, gone, said, tableVars>>

\* Nothing was said, so there is nothing to save.
NoReply(r) ==
    /\ stage[r] = "answered" /\ ~said[r]
    /\ Goto(r, "over")
    /\ UNCHANGED <<pageVars, gone, said, tableVars>>

\* cancel of the response stream: the abort rejects a permission that is
\* waited for, whose error cannot be sent any more.
StreamCancelled(r) ==
    /\ r \in cut \ gone
    /\ stage[r] \in {"model", "asking", "writing", "answered", "replying"}
    /\ gone' = gone \cup {r}
    /\ IF stage[r] = "asking" THEN Goto(r, "over") ELSE UNCHANGED stage
    /\ UNCHANGED <<pageVars, said, tableVars>>

ServerStep(r) ==
    \/ ReadNumber(r) \/ SaveMessage(r) \/ LoadHistory(r)
    \/ Token(r) \/ ModelEnds(r) \/ ModelFails(r)
    \/ PermissionExpires(r) \/ FileWritten(r) \/ NoReply(r)

ChatNext ==
    \/ \E i \in Intents : SendPrompt(i)
    \/ CloseChat \/ ChatDone
    \/ \E s \in Session : SelectSession(s)
    \/ \E r \in Chat : \/ \E d \in {"allow", "deny"} : Respond(r, d)
                       \/ DecisionLost(r) \/ Refuse(r) \/ ServerStep(r)
                       \/ Decide(r) \/ StreamCancelled(r)

\* The server's awaits and its five-minute timer; the page's read loop.
ChatFairness == WF_ChatVars((\E r \in Chat : ServerStep(r)) \/ ChatDone)

ChatSpec == ChatInit /\ [][ChatNext]_ChatVars /\ ChatFairness

-----------------------------------------------------------------------------

Row == [run : 0..MaxSends, role : {"user", "assistant"}, number : 0..(2 * MaxSends + 2)]

\* Ranges; the page runs its newest prompt or none; only a request that is
\* under way can have lost its stream.
ChatTypeOK ==
    /\ selected \in Session
    /\ sent \in 0..MaxSends
    /\ active \in {0, sent}
    /\ owner \in [Chat -> Session]
    /\ intent \in [Chat -> {"talk", "ask", "yolo"}]
    /\ cards \in SUBSET {r \in Chat : intent[r] = "ask"}
    /\ clicked \in [Chat -> {"none", "allow", "deny"}]
    /\ posts \in SUBSET Chat
    /\ cut \in SUBSET (1..sent)
    /\ stage \in [Chat -> Stage]
    /\ gone \subseteq cut
    /\ said \in [Chat -> BOOLEAN]
    /\ number \in [Chat -> 0..(2 * MaxSends + 2)]
    /\ rows \in [Session -> Seq(Row)]
    /\ history \in [Chat -> Seq(Row)]

\* A file is only written by a run in yolo mode or after the user's own
\* "allow" for that very run, whatever times out, is lost or arrives late;
\* and no write begins once the server knows that the page has gone.
WritesPermitted ==
    [][\A r \in Chat : stage[r] # "writing" /\ stage'[r] = "writing" =>
           /\ r \notin gone
           /\ intent[r] = "yolo" \/ clicked[r] = "allow"]_ChatVars

\* The runs of its session up to a run.
UpTo(r) == {q \in 1..r : owner[q] = owner[r]}

\* The messages of the earlier runs of its session that were not cut off.
Settled(r) == {m \in ToSet(rows[owner[r]]) : m.run < r /\ m.run \notin cut}

\* None of them is kept from a model but by as many newer ones.
Recalled(r) ==
    \A m \in Settled(r) \ ToSet(history[r]) :
        /\ Len(history[r]) = HistoryLimit
        /\ \A given \in ToSet(history[r]) : given.number >= m.number

\* A model is given the newest of the n messages of the earlier runs, each
\* once and in the order they were made, and nothing else.
Exact(r) ==
    LET saved == rows[owner[r]]
        given == history[r]
    IN  \E n \in 0..Len(saved) :
            /\ \A i \in DOMAIN saved : saved[i].run < r <=> i <= n
            /\ Len(given) = IF n > HistoryLimit THEN HistoryLimit ELSE n
            /\ \A i \in DOMAIN given : given[i] = saved[n - Len(given) + i]
            /\ \A i, j \in 1..n : i < j =>
                   \/ saved[i].run < saved[j].run
                   \/ saved[i].run = saved[j].run /\ saved[i].role = "user"

\* As long as neither it nor an earlier run of its session was cut off, the
\* model is given exactly what was saved before, up to the limit, and not the
\* prompt itself, although numbers are read and used in two steps and the
\* last message is dropped by position.  Where handlers of runs that were cut
\* off still number and save messages of theirs, the other runs' messages
\* reach the model all the same.
HistoryExact ==
    \A r \in Chat : stage[r] \in {"model", "asking", "writing"} =>
        /\ Recalled(r)
        /\ UpTo(r) \cap cut = {} => Exact(r)

\* The page never stays running: cancelled, answered, refused or left alone
\* with an open permission card, a run ends.
ChatsEnd == \A r \in Chat : active = r ~> active # r

\* route.ts, where the history is cut: "drop the user msg we just appended
\* (it's in `prompt`)".
PromptDropped ==
    \A r \in Chat : \A i \in DOMAIN history[r] : history[r][i].run # r
=============================================================================
