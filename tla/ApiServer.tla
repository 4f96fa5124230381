----------------------------- MODULE ApiServer -----------------------------
(***************************************************************************)
(* The runs and event streams of the ApiServer of                          *)
(* packages/sdk/src/server.ts.  A handler that reads a body looks its run  *)
(* up first and goes on when the body has arrived; everything else is one  *)
(* turn of the event loop.  startRun is the stub of the source: three      *)
(* sleeps that an abort ends early.  A body is parsed and not validated: a *)
(* run may have no prompt to quote in its result, which shows, and fails   *)
(* it, when it comes to that.  'pending' lasts no turn.                    *)
(***************************************************************************)
EXTENDS Naturals, FiniteSets, SequencesExt

CONSTANTS
    Stream,               \* connections that may ask for the events of a run
    Client,               \* connections that may post an action
    MaxRuns,              \* maxRuns
    MaxCreated,           \* bound of the model: runs ever created
    MaxActions            \* bound of the model: stops of a run, approvals in all

ASSUME ApiAssumption ==
    {MaxRuns, MaxCreated} \subseteq Nat \ {0}

Run == 1..MaxCreated
Terminal == {"completed", "failed", "stopped"}
Phase == {"none", "first", "second", "third", "over"}
EventType == {"started", "phase", "approval_response"} \cup Terminal

VARIABLES
    created,     \* runs created so far; ids are given in that order
    runs,        \* the keys of the map, whose insertion order is that of the ids
    status,      \* run.status.status
    phase,       \* the sleep startRun is in
    events,      \* run.events
    listeners,   \* run.eventListeners
    watched,     \* the run a stream was opened on; 0 before
    received,    \* what was written to a stream; "end" closes it
    reading,     \* the run a client's action is about while its body is read
    crowd        \* runs in progress when the last run was created

ApiVars == <<created, runs, status, phase, events, listeners, watched, received, reading, crowd>>
runVars == <<created, runs, status, phase, crowd>>
streamVars == <<events, listeners, watched, received>>

ApiInit ==
    /\ created = 0
    /\ runs = {}
    /\ status = [r \in Run |-> "none"]
    /\ phase = [r \in Run |-> "none"]
    /\ events = [r \in Run |-> <<>>]
    /\ listeners = [r \in Run |-> <<>>]
    /\ watched = [s \in Stream |-> 0]
    /\ received = [s \in Stream |-> <<>>]
    /\ reading = [c \in Client |-> 0]
    /\ crowd = 0

-----------------------------------------------------------------------------

Ended(s) == received[s] # <<>> /\ Last(received[s]) = "end"

\* emitEvent iterates over the listeners with for-of while a listener that
\* sees a terminal event splices itself out: the next one moves to its index
\* and is skipped.
Reached(ls, type) ==
    {ls[i] : i \in {j \in DOMAIN ls : type \in Terminal => j % 2 = 1}}

Remaining(ls, type) ==
    IF type \in Terminal THEN [i \in 1..(Len(ls) \div 2) |-> ls[2 * i]] ELSE ls

Written(got, type) ==
    IF type \in Terminal THEN got \o <<type, "end">> ELSE Append(got, type)

\* emitEvent, once and twice in one turn.  The event of an evicted run is
\* lost: the run is looked up again.
Emit(r, type) ==
    IF r \notin runs THEN UNCHANGED <<events, listeners, received>>
    ELSE /\ events' = [events EXCEPT ![r] = Append(@, type)]
         /\ listeners' = [listeners EXCEPT ![r] = Remaining(@, type)]
         /\ received' = [s \in Stream |->
                IF s \in Reached(listeners[r], type) THEN Written(received[s], type)
                ELSE received[s]]

EmitTwice(r, type) ==
    IF r \notin runs THEN UNCHANGED <<events, listeners, received>>
    ELSE LET rest  == Remaining(listeners[r], type)
             once  == [s \in Stream |->
                 IF s \in Reached(listeners[r], type) THEN Written(received[s], type)
                 ELSE received[s]]
         IN  /\ events' = [events EXCEPT ![r] = @ \o <<type, type>>]
             /\ listeners' = [listeners EXCEPT ![r] = Remaining(rest, type)]
             /\ received' = [s \in Stream |->
                    IF s \in Reached(rest, type) THEN Written(once[s], type) ELSE once[s]]

\* Mutated form of Kept: the oldest runs go, finished or not.
KeptAny(ids, st) ==
    {r \in ids : Cardinality({x \in ids : x < r}) >= Cardinality(ids) - MaxRuns}

\* The oldest finished runs make room; a run in progress is never evicted.
Kept(ids, st) ==
    {r \in ids :
        \/ st[r] \notin Terminal
        \/ Cardinality({x \in ids : x < r /\ st[x] \in Terminal}) >= Cardinality(ids) - MaxRuns}

\* handleCreateRun, which takes any JSON for a request, and the synchronous
\* part of startRun, which does not look into it either.
CreateRun ==
    LET r == created + 1
    IN  /\ created < MaxCreated
        /\ created' = r
        /\ status' = [status EXCEPT ![r] = "running"]
        /\ phase' = [phase EXCEPT ![r] = "first"]
        /\ runs' = Kept(runs \cup {r}, status')
        /\ events' = [events EXCEPT ![r] = <<"started">>]
        /\ crowd' = Cardinality({x \in runs' : status'[x] \notin Terminal})
        /\ UNCHANGED <<listeners, watched, received, reading>>

\* A sleep of startRun ends: after the first two a phase is announced.
RunAdvances(r) ==
    /\ phase[r] \in {"first", "second"}
    /\ phase' = [phase EXCEPT ![r] = IF @ = "first" THEN "second" ELSE "third"]
    /\ Emit(r, "phase")
    /\ UNCHANGED <<created, runs, status, crowd, watched, reading>>

\* The last sleep ends: the result quotes the prompt, request.prompt.slice.
RunCompletes(r) ==
    /\ phase[r] = "third"
    /\ phase' = [phase EXCEPT ![r] = "over"]
    /\ status' = [status EXCEPT ![r] = "completed"]
    /\ Emit(r, "completed")
    /\ UNCHANGED <<created, runs, crowd, watched, reading>>

\* Mutated form of RunFails: the catch block sets no status, and the run
\* keeps the one it was given before its prompt was looked at.
RunFailsCompleted(r) ==
    /\ phase[r] = "third"
    /\ phase' = [phase EXCEPT ![r] = "over"]
    /\ status' = [status EXCEPT ![r] = "completed"]
    /\ Emit(r, "failed")
    /\ UNCHANGED <<created, runs, crowd, watched, reading>>

\* The last sleep of a run that was created without a prompt to quote: the
\* catch block replaces the status, which is "completed" already, in the
\* same turn.
RunFails(r) ==
    /\ phase[r] = "third"
    /\ phase' = [phase EXCEPT ![r] = "over"]
    /\ status' = [status EXCEPT ![r] = "failed"]
    /\ Emit(r, "failed")
    /\ UNCHANGED <<created, runs, crowd, watched, reading>>

-----------------------------------------------------------------------------

Count(r, type) == Cardinality({i \in DOMAIN events[r] : events[r][i] = type})

\* handleRunAction looks the run up and reads the body.
ReceiveAction(c, r) ==
    /\ reading[c] = 0
    /\ r \in runs
    /\ reading' = [reading EXCEPT ![c] = r]
    /\ UNCHANGED <<runVars, streamVars>>

\* Mutated form of StopRun: the status is left to startRun, which leaves it
\* to the handler.
StopRunUnmarked(c) ==
    LET r == reading[c]
    IN  /\ r # 0
        /\ Count(r, "stopped") < MaxActions
        /\ reading' = [reading EXCEPT ![c] = 0]
        /\ phase' = [phase EXCEPT ![r] = "over"]
        /\ Emit(r, "approval_response")
        /\ UNCHANGED <<created, runs, status, crowd, watched>>

\* A second one: the stop of a run that is over is not announced.
StopRunQuiet(c) ==
    LET r == reading[c]
    IN  /\ r # 0
        /\ Count(r, "stopped") < MaxActions
        /\ reading' = [reading EXCEPT ![c] = 0]
        /\ status' = [status EXCEPT ![r] = "stopped"]
        /\ phase' = [phase EXCEPT ![r] = "over"]
        /\ IF phase[r] = "over" THEN UNCHANGED <<events, listeners, received>>
           ELSE Emit(r, "stopped")
        /\ UNCHANGED <<created, runs, crowd, watched>>

\* The stop action: the abort ends the sleep of a run in progress, whose
\* catch block announces the stop a second time before anything else runs.
StopRun(c) ==
    LET r == reading[c]
    IN  /\ r # 0
        /\ Count(r, "stopped") < MaxActions
        /\ reading' = [reading EXCEPT ![c] = 0]
        /\ status' = [status EXCEPT ![r] = "stopped"]
        /\ phase' = [phase EXCEPT ![r] = "over"]
        /\ IF phase[r] = "over" THEN Emit(r, "stopped") ELSE EmitTwice(r, "stopped")
        /\ UNCHANGED <<created, runs, crowd, watched>>

ApproveRun(c) ==
    LET r == reading[c]
    IN  /\ r # 0
        /\ \A x \in Run : Count(x, "approval_response") < MaxActions
        /\ reading' = [reading EXCEPT ![c] = 0]
        /\ Emit(r, "approval_response")
        /\ UNCHANGED <<runVars, watched>>

\* readBody reports an error, or the body is no known action.
RejectAction(c) ==
    /\ reading[c] # 0
    /\ reading' = [reading EXCEPT ![c] = 0]
    /\ UNCHANGED <<runVars, streamVars>>

\* Mutated form of OpenStream: the run's past events are not replayed.
OpenStreamLive(s, r) ==
    /\ watched[s] = 0
    /\ r \in runs
    /\ watched' = [watched EXCEPT ![s] = r]
    /\ IF status[r] \in Terminal
       THEN received' = [received EXCEPT ![s] = <<"end">>] /\ UNCHANGED listeners
       ELSE listeners' = [listeners EXCEPT ![r] = Append(@, s)] /\ UNCHANGED received
    /\ UNCHANGED <<runVars, events, reading>>

\* handleRunEvents: what already happened is replayed, and then the stream
\* ends or subscribes, in one turn.
OpenStream(s, r) ==
    /\ watched[s] = 0
    /\ r \in runs
    /\ watched' = [watched EXCEPT ![s] = r]
    /\ IF status[r] \in Terminal
       THEN /\ received' = [received EXCEPT ![s] = Append(events[r], "end")]
            /\ UNCHANGED listeners
       ELSE /\ received' = [received EXCEPT ![s] = events[r]]
            /\ listeners' = [listeners EXCEPT ![r] = Append(@, s)]
    /\ UNCHANGED <<runVars, events, reading>>

\* The connection of an open stream closes.
CloseStream(s) ==
    LET r == watched[s]
    IN  /\ r # 0
        /\ \E i \in DOMAIN listeners[r] :
              /\ listeners[r][i] = s
              /\ listeners' = [listeners EXCEPT ![r] = RemoveAt(@, i)]
        /\ UNCHANGED <<runVars, events, watched, received, reading>>

RunStep(r) == RunAdvances(r) \/ RunCompletes(r) \/ RunFails(r)

ApiNext ==
    \/ CreateRun
    \/ \E r \in Run : RunStep(r)
    \/ \E c \in Client : \/ \E r \in Run : ReceiveAction(c, r)
                         \/ StopRun(c) \/ ApproveRun(c) \/ RejectAction(c)
    \/ \E s \in Stream : (\E r \in Run : OpenStream(s, r)) \/ CloseStream(s)

\* The timers of startRun fire.
ApiFairness == WF_ApiVars(\E r \in Run : RunStep(r))

ApiSpec == ApiInit /\ [][ApiNext]_ApiVars /\ ApiFairness

-----------------------------------------------------------------------------

\* Ranges; the map holds existing runs, every created run has a status.
ApiTypeOK ==
    /\ created \in 0..MaxCreated
    /\ runs \subseteq 1..created
    /\ status \in [Run -> {"none", "running"} \cup Terminal]
    /\ phase \in [Run -> Phase]
    /\ events \in [Run -> Seq(EventType)]
    /\ listeners \in [Run -> Seq(Stream)]
    /\ watched \in [Stream -> 0..created]
    /\ received \in [Stream -> Seq(EventType \cup {"end"})]
    /\ reading \in [Client -> 0..created]
    /\ crowd \in 0..MaxCreated
    /\ \A r \in Run : r <= created => status[r] # "none"

\* The events of a log before its first terminal one.
Progress(log) ==
    LET ends == {i \in DOMAIN log : log[i] \in Terminal}
    IN  IF ends = {} THEN log
        ELSE SubSeq(log, 1, (CHOOSE i \in ends : \A j \in ends : i <= j) - 1)

\* What stream s of run r was sent, read as below.
Faithful(s, r) ==
    LET got == received[s]
    IN  /\ s \in ToSet(listeners[r]) \/ Ended(s) => IsPrefix(Progress(events[r]), got)
        /\ s \in ToSet(listeners[r]) /\ status[r] = "running" => got = events[r]
        /\ \A i \in DOMAIN got : got[i] = "end" => i = Len(got)
        /\ Ended(s) => status[r] \in Terminal

\* No subscriber loses or repeats progress: whenever it connects, replay and
\* live events together are the run's events up to its end; while the run is
\* in progress an open stream has exactly them; and nothing is written to a
\* stream after its "end", although a stop is announced twice.
StreamsFaithful == \A s \in Stream : watched[s] # 0 => Faithful(s, watched[s])

\* The last lifecycle event of a log tells the status, and nothing but
\* another stop follows a stop.
Reports(log, reported) ==
    LET life == {i \in DOMAIN log : log[i] \in {"started"} \cup Terminal}
    IN  /\ \E last \in life :
              /\ \A i \in life : i <= last
              /\ reported = IF log[last] = "started" THEN "running" ELSE log[last]
        /\ \A i, j \in life : i < j /\ log[i] = "stopped" => log[j] = "stopped"

\* What a GET reports agrees with the event log a subscriber replays: the
\* status of a run in the map is its last lifecycle event, whatever stops,
\* completions, late bodies and evictions came between; and a run that was
\* stopped neither completes nor fails any more, as the sleeps of startRun
\* once made it.
StatusMatchesEvents == \A r \in runs : Reports(events[r], status[r])

\* "Pending/running runs are never evicted": a run missing from the map is
\* over; and the map outgrows maxRuns only by runs that were all in progress
\* when the newest was created.
RetentionBounded ==
    /\ \A r \in 1..created : r \in runs \/ status[r] \in Terminal
    /\ Cardinality(runs) <= IF crowd > MaxRuns THEN crowd ELSE MaxRuns

\* What is known of the runs at any time: a run in the map is reported as its
\* events tell, and one missing from the map is over.
RunsAccounted == StatusMatchesEvents /\ RetentionBounded

\* Every run ends, as completed, as failed or as stopped.
RunsSettle == \A r \in Run : status[r] = "running" ~> status[r] \in Terminal

\* What handleRunEvents says of its listeners: "If this is a terminal event,
\* send `end` and close", so that none is left on a run that is over.
StreamsClosed == \A r \in Run : status[r] \in Terminal => listeners[r] = <<>>
=============================================================================
