----------------------------- MODULE AgentLoop -----------------------------
(***************************************************************************)
(* AgentLoop of packages/agent-core/src/loop.ts: successive calls of run() *)
(* on one instance, each the cycle of compaction, model call with retries, *)
(* stop checks, tool batch.  Composed with it, as the loop uses them:      *)
(*   BudgetTracker and StopEngine (budget.ts, stop-engine.ts), here;       *)
(*   callWithRetry (retry.ts), here;                                       *)
(*   StallDetector and LoopDetector, through the histories of CallHistory; *)
(*   executeToolCallsConcurrent, through the contract of BatchResults;     *)
(*   ToolGuardrailController, by the evidence Guardrails says it needs.    *)
(*                                                                         *)
(* The process is single-threaded.  The run advances through the values of *)
(* pc; the user and the caller's signal act only where run() awaits, or    *)
(* between runs.                                                           *)
(***************************************************************************)
EXTENDS CallHistory, BatchResults, SequencesExt

CONSTANTS
    Call,              \* (tool name, arguments) pairs
    Malformed,         \* calls whose arguments do not parse
    FailingTool,       \* calls whose tool reports an error
    Response,          \* model responses: [calls, content, tokens]
    Headless,          \* a memory curator and a context engine are configured
    MaxIterations, MaxTokens,                \* config.budget
    MaxContextTokens,                        \* config.model
    MaxRetries,                              \* config.retry
    StallThreshold, MaxParseFailures,        \* config.stall
    ContentThreshold, ToolCallThreshold, CycleThreshold, MaxCycleLength,
    BlockAfter,        \* failures a guardrail needs before it may block
    MaxRuns            \* bound of the model: calls of run()

ASSUME LoopAssumption ==
    /\ Malformed \subseteq Call
    /\ FailingTool \subseteq Call
    /\ \A r \in Response : r.calls \in Seq(Call) /\ r.tokens \in Nat
    /\ Headless \in BOOLEAN
    /\ {MaxIterations, StallThreshold, MaxParseFailures, ContentThreshold,
        ToolCallThreshold, CycleThreshold, MaxCycleLength, BlockAfter} \subseteq Nat \ {0}
    /\ {MaxTokens, MaxContextTokens, MaxRetries, MaxRuns} \subseteq Nat

VARIABLES
    pc,               \* where run() is
    runs,             \* calls of run() so far
    indexed,          \* symbolGraphIndexed
    controller,       \* currentAbortController is defined
    signal,           \* its signal is aborted
    caller,           \* input.signal of this run
    engine,           \* stopEngine: "none" before the first run
    stopReason,
    iterations, tokens, timeUp,      \* BudgetTracker
    parseFailures,
    attempt,          \* callWithRetry
    response,
    transcript,       \* turns appended to state.messages
    seen, contents,   \* calls and texts the detectors saw since their reset
    forceCompaction,
    lastResult,
    asked,            \* history: abort() was called during this run
    acceptedLate      \* history: model responses accepted after an abort

vars == <<pc, runs, indexed, controller, signal, caller, engine, stopReason, iterations,
          tokens, timeUp, parseFailures, attempt, response, transcript, seen, contents,
          forceCompaction, lastResult, asked, acceptedLate>>

runVars == <<runs, indexed>>
abortVars == <<controller, signal, caller, engine, asked>>
budgetVars == <<iterations, tokens, timeUp, parseFailures>>
turnVars == <<transcript, seen, contents>>

NoResponse == [calls |-> <<>>, content |-> "", tokens |-> 0]

Awaiting == {"starting", "setup", "compacting", "calling", "backoff", "tools", "curating"}

\* Before the verdict on the run: what a user would call "running".
Deciding == {"starting", "setup", "compacting", "calling", "backoff", "tools"}

Decided == pc \in {"ending", "curating"}

-----------------------------------------------------------------------------

\* The prefixes of the history that end with a call of the new response:
\* the detectors look at the calls one by one.
NewPrefixes(calls) ==
    {SubSeq(seen \o calls, 1, n) : n \in (Len(seen) + 1)..(Len(seen) + Len(calls))}

Stalls(calls) == \E h \in NewPrefixes(calls) : Repeats(h, StallThreshold)

ContentLoops(content) ==
    content # "" /\ Repeats(Append(contents, content), ContentThreshold)

ToolCallLoops(calls) ==
    \E h \in NewPrefixes(calls) :
        Repeats(h, ToolCallThreshold) \/ Cycles(h, MaxCycleLength, CycleThreshold)

\* Mutated form of BudgetExceeded: the limit counts finished iterations only.
BudgetExceededLate == tokens > MaxTokens \/ iterations >= MaxIterations \/ timeUp

\* BudgetTracker.snapshot().exceeded; the cost limit is a second limit on a
\* weighted sum of tokens and is not told apart from MaxTokens.
BudgetExceeded ==
    \/ tokens > MaxTokens
    \/ iterations + 1 >= MaxIterations
    \/ timeUp

\* Mutated form of Verdict: natural completion is looked at first.
VerdictCompletionFirst ==
    IF response.calls = <<>> THEN "completed"
    ELSE IF engine = "aborted" THEN "aborted"
    ELSE IF BudgetExceeded THEN "budget"
    ELSE IF Stalls(response.calls) THEN "stall"
    ELSE IF parseFailures >= MaxParseFailures THEN "error"
    ELSE "none"

\* StopEngine.check, in its order; no provider reports finishReason 'length'
\* (provider-adapter.ts derives it from the tool calls).
Verdict ==
    IF engine = "aborted" THEN "aborted"
    ELSE IF response.calls = <<>> THEN "completed"
    ELSE IF BudgetExceeded THEN "budget"
    ELSE IF Stalls(response.calls) THEN "stall"
    ELSE IF parseFailures >= MaxParseFailures THEN "error"
    ELSE "none"

\* Errors of the model call.  Providers throw a plain Error for an HTTP
\* status, an overflown context included.
CallError == {"network", "abort", "http", "overflow"}

\* isRetryableError and the classifier's shouldRetry.
Retryable(error) == error \in {"network", "abort"}

\* The classifier's shouldCompress.
ShouldCompress(error) == error = "overflow"

\* The results guardrails.check was told were failures.
RecordedFailures ==
    UNION {{<<t, i>> : i \in {k \in DOMAIN transcript[t].calls :
                               transcript[t].results[k] \in {"failed", "aborted", "notExecuted"}}}
           : t \in DOMAIN transcript}

-----------------------------------------------------------------------------

Init ==
    /\ pc = "idle"
    /\ runs = 0
    /\ indexed = FALSE
    /\ controller = FALSE
    /\ signal = FALSE
    /\ caller = "none"
    /\ engine = "none"
    /\ stopReason = "none"
    /\ iterations = 0
    /\ tokens = 0
    /\ timeUp = FALSE
    /\ parseFailures = 0
    /\ attempt = 0
    /\ response = NoResponse
    /\ transcript = <<>>
    /\ seen = <<>>
    /\ contents = <<>>
    /\ forceCompaction = FALSE
    /\ lastResult = "none"
    /\ asked = "no"
    /\ acceptedLate = 0

\* Mutated forms: the StopEngine of the previous run is kept; the detectors
\* are not reset.
EngineKept == IF engine = "none" THEN "clear" ELSE engine
HistoryKept == seen

\* new StopEngine(...), stallDetector.reset() and loopDetector.reset().
NewEngine == "clear"
ResetHistory == <<>>

\* The per-run resets, up to the next await: budget, detectors, guardrails
\* (whose evidence is the transcript), a new controller with the caller's
\* signal attached, a new StopEngine.  forceCompaction is left alone.
Reset(inputSignal) ==
    /\ pc' = IF Headless /\ ~ indexed THEN "setup" ELSE "top"
    /\ controller' = TRUE
    /\ signal' = (inputSignal = "aborted")
    /\ engine' = NewEngine
    /\ stopReason' = "none"
    /\ iterations' = 0 /\ tokens' = 0 /\ timeUp' = FALSE
    /\ parseFailures' = 0
    /\ attempt' = 0
    /\ response' = NoResponse
    /\ transcript' = <<>>
    /\ seen' = ResetHistory
    /\ contents' = <<>>
    /\ acceptedLate' = 0
    /\ UNCHANGED forceCompaction

\* run(input): the first headless run loads the session memory before it
\* resets anything.
StartRun ==
    /\ pc = "idle"
    /\ runs < MaxRuns
    /\ runs' = runs + 1
    /\ lastResult' = "none"
    /\ caller' \in {"none", "live", "aborted"}
    /\ asked' = "no"
    /\ UNCHANGED indexed
    /\ IF Headless /\ runs = 0
       THEN /\ pc' = "starting"
            /\ UNCHANGED <<controller, signal, engine, stopReason, budgetVars, attempt,
                           response, turnVars, forceCompaction, acceptedLate>>
       ELSE Reset(caller')

SessionMemoryLoaded ==
    /\ pc = "starting"
    /\ UNCHANGED <<runVars, caller, lastResult, asked>>
    /\ Reset(caller)

\* initializeSymbolGraph returns, or throws: that is only logged, and the
\* next run tries again.
SymbolGraphReady ==
    /\ pc = "setup"
    /\ pc' = "top"
    /\ indexed' \in BOOLEAN
    /\ UNCHANGED <<runs, abortVars, stopReason, budgetVars, attempt, response, turnVars,
                   forceCompaction, lastResult, acceptedLate>>

NeedsCompaction == tokens > MaxContextTokens \div 2 \/ forceCompaction

HardCap == MaxIterations + 5

\* Mutated forms: a reason of its own for leaving at the head of the loop; no
\* abort check there.
LeaveReasonCancelled == "cancelled"
MayIterateUnchecked == iterations < HardCap

\* The head of the loop: the hard cap ends it without a reason, then the
\* abort check.
LeaveReason == IF iterations >= HardCap THEN stopReason ELSE "aborted"
MayIterate == iterations < HardCap /\ ~ signal

LeaveLoop ==
    /\ pc = "top"
    /\ iterations >= HardCap \/ signal
    /\ stopReason' = LeaveReason
    /\ pc' = "ending"
    /\ UNCHANGED <<runVars, abortVars, budgetVars, attempt, response, turnVars,
                   forceCompaction, lastResult, acceptedLate>>

\* Compaction if the context is half full or it was asked for; the flag is
\* cleared before compress is called.
Iterate ==
    /\ pc = "top"
    /\ MayIterate
    /\ pc' = IF NeedsCompaction THEN "compacting" ELSE "prompt"
    /\ forceCompaction' = FALSE
    /\ UNCHANGED <<runVars, abortVars, stopReason, budgetVars, attempt, response, turnVars,
                   lastResult, acceptedLate>>

\* Mutated form of Compacted: the flag is cleared after the await.
CompactedClearing ==
    /\ pc = "compacting"
    /\ pc' = "prompt"
    /\ forceCompaction' = FALSE
    /\ UNCHANGED <<runVars, abortVars, stopReason, budgetVars, attempt, response, turnVars,
                   lastResult, acceptedLate>>

\* compressor.compress returns, or throws and is only logged.
Compacted ==
    /\ pc = "compacting"
    /\ pc' = "prompt"
    /\ UNCHANGED <<runVars, abortVars, stopReason, budgetVars, attempt, response, turnVars,
                   forceCompaction, lastResult, acceptedLate>>

\* assembler.assemble, then callWithRetry starts its first attempt.
CallModel ==
    /\ pc = "prompt"
    /\ pc' = "calling"
    /\ attempt' = 0
    /\ UNCHANGED <<runVars, abortVars, stopReason, budgetVars, response, turnVars,
                   forceCompaction, lastResult, acceptedLate>>

\* Assembling the prompt throws: the catch around the loop.
PromptThrows ==
    /\ pc = "prompt"
    /\ pc' = "ending"
    /\ stopReason' = "error"
    /\ UNCHANGED <<runVars, abortVars, budgetVars, attempt, response, turnVars,
                   forceCompaction, lastResult, acceptedLate>>

\* client.call resolves; recordCall, recordIteration, parse failures.  The
\* wall clock started with the first response, and is read by the check that
\* follows.
ModelReturns ==
    /\ pc = "calling"
    /\ pc' = "judge"
    /\ response' \in Response
    /\ tokens' = tokens + response'.tokens
    /\ iterations' = iterations + 1
    /\ timeUp' \in (IF iterations = 0 THEN {FALSE} ELSE {timeUp, TRUE})
    /\ parseFailures' =
           LET bad == {i \in DOMAIN response'.calls : response'.calls[i] \in Malformed}
           IN  IF bad = {} THEN 0 ELSE parseFailures + Cardinality(bad)
    /\ acceptedLate' = IF signal THEN acceptedLate + 1 ELSE acceptedLate
    /\ UNCHANGED <<runVars, abortVars, stopReason, attempt, turnVars,
                   forceCompaction, lastResult>>

\* Mutated form of NextAttempt: attempts are not counted.
AttemptKept == attempt

NextAttempt == attempt + 1

\* client.call rejects with an error callWithRetry retries: onRetry, then the
\* backoff sleep, which gets no signal.
CallRetried ==
    /\ pc = "calling"
    /\ attempt < MaxRetries
    /\ \E error \in CallError :
          /\ error = "abort" => signal
          /\ Retryable(error)
          /\ forceCompaction' = (forceCompaction \/ ShouldCompress(error))
    /\ attempt' = NextAttempt
    /\ pc' = "backoff"
    /\ UNCHANGED <<runVars, abortVars, stopReason, budgetVars, response, turnVars,
                   lastResult, acceptedLate>>

BackoffEnds ==
    /\ pc = "backoff"
    /\ pc' = "calling"
    /\ UNCHANGED <<runVars, abortVars, stopReason, budgetVars, attempt, response, turnVars,
                   forceCompaction, lastResult, acceptedLate>>

\* The error is not retryable, or the retries are exhausted.
CallFails(error) ==
    /\ pc = "calling"
    /\ error = "abort" => signal
    /\ ~ Retryable(error) \/ attempt >= MaxRetries
    /\ stopReason' = "error"
    /\ pc' = "ending"
    /\ UNCHANGED <<runVars, abortVars, budgetVars, attempt, response, turnVars,
                   forceCompaction, lastResult, acceptedLate>>

\* stopEngine.check stops the run; the response is not appended.
EngineStops ==
    /\ pc = "judge"
    /\ Verdict # "none"
    /\ stopReason' = Verdict
    /\ pc' = "ending"
    /\ UNCHANGED <<runVars, abortVars, budgetVars, attempt, response, turnVars,
                   forceCompaction, lastResult, acceptedLate>>

\* The assistant message is appended and the loop detector sees its content,
\* then its calls.
Appended(results) ==
    /\ pc = "judge"
    /\ Verdict = "none"
    /\ transcript' = Append(transcript, [calls |-> response.calls, results |-> results])
    /\ seen' = seen \o response.calls
    /\ contents' = IF response.content = "" THEN contents
                   ELSE Append(contents, response.content)
    /\ UNCHANGED <<runVars, abortVars, budgetVars, attempt, response, forceCompaction,
                   lastResult, acceptedLate>>

Unanswered(calls) == [i \in DOMAIN calls |-> "none"]

Loops == ContentLoops(response.content) \/ ToolCallLoops(response.calls)

LoopDetected ==
    /\ Appended(Unanswered(response.calls))
    /\ Loops
    /\ stopReason' = "loop_detected"
    /\ pc' = "ending"

\* guardrails.peek may block calls, which get a synthetic message; the others
\* go to executeToolCallsConcurrent.
StartTools ==
    /\ ~ Loops
    /\ \E blocked \in SUBSET ToSet(response.calls) :
          LET results == [i \in DOMAIN response.calls |->
                  IF response.calls[i] \in blocked THEN "blocked" ELSE "none"]
          IN  /\ blocked # {} => Cardinality(RecordedFailures) >= BlockAfter
              /\ Appended(results)
              /\ pc' = IF ToSet(response.calls) \subseteq blocked THEN "top" ELSE "tools"
    /\ UNCHANGED stopReason

\* executeToolCall catches what a tool reports and returns it as text, so
\* that the executor's promise resolves whatever FailingTool says; it rejects
\* only when something around the tool throws.  guardrails.check gets ok as
\* the executor reported it, and a call without an entry gets no message.
ToolsReturn ==
    /\ pc = "tools"
    /\ LET turn == Last(transcript)
           open == {i \in DOMAIN turn.calls : turn.results[i] = "none"}
       IN  \E result \in [open -> Outcomes] :
              /\ IsResult([i \in open |-> turn.calls[i]], signal, result)
              /\ transcript' = [transcript EXCEPT ![Len(transcript)].results =
                     [i \in DOMAIN turn.calls |->
                         IF i \in open THEN result[i] ELSE turn.results[i]]]
    /\ pc' = "top"
    /\ UNCHANGED <<runVars, abortVars, stopReason, budgetVars, attempt, response, seen,
                   contents, forceCompaction, lastResult, acceptedLate>>

\* The finally block; without memories to curate the result is cached and
\* returned at once.
EndRun ==
    /\ pc = "ending"
    /\ controller' = FALSE
    /\ pc' \in (IF Headless THEN {"curating", "idle"} ELSE {"idle"})
    /\ lastResult' = IF pc' = "idle" THEN stopReason ELSE lastResult
    /\ UNCHANGED <<runVars, signal, caller, engine, asked, stopReason, budgetVars, attempt,
                   response, turnVars, forceCompaction, acceptedLate>>

\* memoryCurator.curate returns, or throws and is only logged.
Curated ==
    /\ pc = "curating"
    /\ pc' = "idle"
    /\ lastResult' = stopReason
    /\ UNCHANGED <<runVars, abortVars, stopReason, budgetVars, attempt, response, turnVars,
                   forceCompaction, acceptedLate>>

\* The user: abort(), /compact.
Abort ==
    /\ pc \in Awaiting \cup {"idle"}
    /\ signal' = (signal \/ controller)
    /\ engine' = IF engine = "none" THEN "none" ELSE "aborted"
    /\ asked' = CASE pc = "starting" -> "early"
                 [] pc \in Deciding \ {"starting"} -> "yes"
                 [] OTHER -> asked
    /\ UNCHANGED <<pc, runVars, controller, caller, stopReason, budgetVars, attempt, response,
                   turnVars, forceCompaction, lastResult, acceptedLate>>

RequestCompaction ==
    /\ pc \in Awaiting \cup {"idle"}
    /\ forceCompaction' = TRUE
    /\ UNCHANGED <<pc, runVars, abortVars, stopReason, budgetVars, attempt, response, turnVars,
                   lastResult, acceptedLate>>

\* The signal passed to run() fires; run() listens from the reset to the end.
CallerAborts ==
    /\ pc \in Awaiting
    /\ caller = "live"
    /\ caller' = "aborted"
    /\ signal' = (signal \/ controller)
    /\ UNCHANGED <<pc, runVars, controller, engine, asked, stopReason, budgetVars, attempt,
                   response, turnVars, forceCompaction, lastResult, acceptedLate>>

Environment == Abort \/ RequestCompaction \/ CallerAborts

Progress ==
    \/ SessionMemoryLoaded \/ SymbolGraphReady
    \/ LeaveLoop \/ Iterate \/ Compacted
    \/ CallModel \/ PromptThrows
    \/ ModelReturns \/ CallRetried \/ BackoffEnds
    \/ \E error \in CallError : CallFails(error)
    \/ EngineStops \/ LoopDetected \/ StartTools \/ ToolsReturn
    \/ EndRun \/ Curated

Next == StartRun \/ Progress \/ Environment

\* Timers fire; the model client, the tools and the curator are assumed to
\* settle one way or the other (each carries its own timeout).
Spec == Init /\ [][Next]_vars /\ WF_vars(Progress)

-----------------------------------------------------------------------------

Reason == {"none", "completed", "budget", "stall", "error", "aborted", "loop_detected"}

Turn == [calls : Seq(Call), results : Seq(Outcomes \cup {"none", "blocked"})]

\* Every variable stays within its range.
TypeOK ==
    /\ pc \in Awaiting \cup {"idle", "top", "prompt", "judge", "ending"}
    /\ runs \in 0..MaxRuns
    /\ indexed \in BOOLEAN /\ forceCompaction \in BOOLEAN
    /\ controller \in BOOLEAN /\ signal \in BOOLEAN
    /\ caller \in {"none", "live", "aborted"}
    /\ engine \in {"none", "clear", "aborted"}
    /\ stopReason \in Reason /\ lastResult \in Reason
    /\ iterations \in Nat /\ tokens \in Nat /\ timeUp \in BOOLEAN
    /\ parseFailures \in Nat
    /\ attempt \in Nat /\ acceptedLate \in Nat
    /\ response \in Response \cup {NoResponse}
    /\ seen \in Seq(Call)
    /\ contents \in Seq({r.content : r \in Response})
    /\ transcript \in Seq(Turn)
    /\ asked \in {"no", "early", "yes"}

\* abort() is never lost once the run has its controller, whatever it awaits:
\* the run ends 'aborted', or with the error of the interrupted model call,
\* but not as if the user had said nothing.
AbortHonoured ==
    Decided /\ asked = "yes" => stopReason \in {"aborted", "error"}

\* abort() outside a run "is a no-op (previously it would set a shared
\* controller to aborted, poisoning all future runs)": a run ends 'aborted'
\* only if it was asked to during that run, by the user or by the caller.
AbortNotInherited ==
    stopReason = "aborted" /\ Decided =>
        asked = "yes" \/ caller = "aborted"

\* What a run reports of aborts is true, whichever await they met and whatever
\* happened to earlier runs of the instance.
AbortReported == AbortHonoured /\ AbortNotInherited

\* After an abort by either route, at most the response already under way is
\* accepted; compaction, backoff and the tool batch lead to no other.
AbortStopsSoon == acceptedLate <= 1

\* The StopEngine alone bounds the run: the model is called again only while
\* the iteration limit leaves room for it, so that the belt-and-suspenders
\* cap of the loop never ends a run and every result carries a reason.
EngineBoundsRun ==
    /\ pc \in {"calling", "backoff"} => iterations = 0 \/ iterations + 1 < MaxIterations
    /\ Decided => stopReason # "none"

\* When the model is called, every distinct call of every earlier turn has
\* its tool message, whatever was blocked, failed, or ran concurrently: an
\* aborted batch, the one case that leaves gaps, is never followed by a call.
\* A repetition of a call in one batch is left out: run one after the other,
\* equal calls get one message.  (What compaction does to the messages is in
\* Compaction.)
AnsweredBeforeNextCall ==
    pc \in {"calling", "backoff"} =>
        \A t \in DOMAIN transcript :
            \A i \in FirstCalls(transcript[t].calls) :
                transcript[t].results[i] \notin {"none", "missing"}

\* The calls of the turns of this run, in order.
Issued == FlattenSeq([t \in DOMAIN transcript |-> transcript[t].calls])

\* No batch is executed when the turns of this run already end in a stall or
\* a cycle, and no run is stopped for one because of an earlier run.
StuckRunsStop ==
    /\ pc = "tools" =>
           /\ ~ Repeats(Issued, StallThreshold)
           /\ ~ Cycles(Issued, MaxCycleLength, CycleThreshold)
    /\ pc = "ending" /\ stopReason = "stall" =>
           \E n \in 1..Len(response.calls) :
               Repeats(Issued \o SubSeq(response.calls, 1, n), StallThreshold)

\* requestCompaction: "the next iteration's shouldCompact check will fire", in
\* this run or the next; only a compaction that starts after it consumes it.
CompactionKept == [][forceCompaction /\ ~ forceCompaction' => pc' = "compacting"]_vars

\* Every run returns, however often the model call fails or is interrupted.
RunReturns == pc # "idle" ~> pc = "idle"

-----------------------------------------------------------------------------

\* "We now reject early if the signal aborts" (retry.ts, sleep): a backoff
\* during which the user aborts is not followed by another model call.
SleepRejects == [][pc = "backoff" /\ signal => pc' # "calling"]_vars

\* "Context too long - forcing compaction on next iteration": an overflowed
\* context is answered by a compaction.
OverflowCompacts == [][CallFails("overflow") => forceCompaction']_vars

\* "@param success - Whether the tool call succeeded": guardrails.check is
\* told of the failure of a tool that failed.
FailuresReachGuardrails ==
    \A t \in DOMAIN transcript : \A i \in DOMAIN transcript[t].calls :
        transcript[t].calls[i] \in FailingTool => transcript[t].results[i] # "ok"
=============================================================================
