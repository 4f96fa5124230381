-------------------------- MODULE AgentLoopProofs --------------------------
(***************************************************************************)
(* The abort, budget, transcript and stuck-run invariants of the agent     *)
(* loop, for all values of the constants.                                  *)
(*                                                                         *)
(* None of them is inductive: each speaks of the run when it has ended or  *)
(* when it calls the model, and holds there because of what the loop knew  *)
(* before.  The strengthening says, for every place of the loop,           *)
(*   - that an abort is recorded both in the signal and in the engine, and *)
(*     that nothing else is (Recorded);                                    *)
(*   - that there is room for the next model call (Room);                  *)
(*   - that a response accepted after an abort leads to no other (Late);   *)
(*   - which turns of the transcript are answered (Answered);              *)
(*   - that the detectors have seen what this run asked for (Tracked).     *)
(***************************************************************************)
EXTENDS AgentLoop, Induction, FiniteSetTheorems, SequenceTheorems, TLAPS

\* Between the reset and the verdict, the model's response aside.
Looping == {"setup", "top", "compacting", "prompt", "calling", "backoff", "tools"}

Active == Looping \cup {"judge"}

Recorded ==
    /\ pc \in Active => controller /\ engine # "none"
    /\ pc \in Active /\ asked = "yes" => signal /\ engine = "aborted"
    /\ pc \in Active /\ engine = "aborted" => asked = "yes"
    /\ pc \in Active /\ signal => asked = "yes" \/ caller = "aborted"
    /\ pc = "starting" => asked # "yes"

Room == pc \in Looping => iterations = 0 \/ iterations + 1 < MaxIterations

BeforeResponse == {"setup", "compacting", "prompt", "calling", "backoff"}

Late == acceptedLate = 0 \/ (acceptedLate = 1 /\ signal /\ pc \notin BeforeResponse)

Complete(turn) ==
    \A i \in FirstCalls(turn.calls) : turn.results[i] \notin {"none", "missing"}

\* What a turn is given to the executor with: whole calls are blocked.
Handed(turn) ==
    /\ \A i \in DOMAIN turn.calls : turn.results[i] \in {"none", "blocked"}
    /\ \A i, j \in DOMAIN turn.calls :
           turn.calls[i] = turn.calls[j] => turn.results[i] = turn.results[j]

Answered ==
    /\ pc \in BeforeResponse \cup {"judge"} \/ (pc = "top" /\ ~ signal)
           => \A t \in DOMAIN transcript : Complete(transcript[t])
    /\ pc = "tools" =>
           /\ transcript # <<>>
           /\ \A t \in DOMAIN transcript : t < Len(transcript) => Complete(transcript[t])
           /\ Handed(Last(transcript))

\* results has an entry per call.
Aligned ==
    \A t \in DOMAIN transcript : DOMAIN transcript[t].results = DOMAIN transcript[t].calls

Reasoned == Decided => stopReason # "none"

IInv ==
    /\ TypeOK /\ Aligned
    /\ Recorded /\ Room /\ Late /\ Answered
    /\ AbortHonoured /\ AbortNotInherited /\ Reasoned

-----------------------------------------------------------------------------

\* The steps that change neither the transcript nor the detectors' histories.

LEMMA Limits ==
    /\ MaxIterations \in Nat \ {0} /\ MaxRuns \in Nat
    /\ \A r \in Response : r.calls \in Seq(Call) /\ r.tokens \in Nat
BY LoopAssumption

Content == {r.content : r \in Response}

LEMMA TypedResponse ==
    ASSUME TypeOK
    PROVE  /\ response.calls \in Seq(Call)
           /\ response.content # "" => response.content \in Content
           /\ DOMAIN response.calls = 1..Len(response.calls)
           /\ Len(response.calls) \in Nat
<1>. SUFFICES /\ response.calls \in Seq(Call)
              /\ response.content # "" => response.content \in Content
  BY LenProperties
<1>1. CASE response \in Response
  BY <1>1, Limits DEF Content
<1>2. CASE response = NoResponse
  <2>1. response.calls = <<>> /\ response.content = ""
    BY <1>2 DEF NoResponse
  <2>. QED  BY <2>1, EmptySeq
<1>. QED  BY <1>1, <1>2 DEF TypeOK

\* A turn with one entry per call is a turn of the transcript.
LEMMA TypedTurn ==
    ASSUME NEW calls \in Seq(Call), NEW results,
           results \in [DOMAIN calls -> Outcomes \cup {"none", "blocked"}]
    PROVE  [calls |-> calls, results |-> results] \in Turn
<1>1. DOMAIN calls = 1..Len(calls) /\ Len(calls) \in Nat
  OBVIOUS
<1>2. results \in Seq(Outcomes \cup {"none", "blocked"})
  BY <1>1
<1>. QED  BY <1>2 DEF Turn

LEMMA TypeReset ==
    ASSUME TypeOK, NEW inputSignal, Reset(inputSignal),
           runs' \in 0..MaxRuns, indexed' \in BOOLEAN, lastResult' \in {"none", lastResult},
           caller' \in {"none", "live", "aborted"}, asked' \in {"no", "early", "yes"}
    PROVE  TypeOK'
<1>1. pc' \in {"setup", "top"} /\ response' = NoResponse
  BY DEF Reset
<1>2. /\ transcript' = <<>> /\ seen' = <<>> /\ contents' = <<>>
      /\ <<>> \in Seq(Turn) /\ <<>> \in Seq(Call) /\ <<>> \in Seq({r.content : r \in Response})
  BY EmptySeq DEF Reset, ResetHistory
<1>3. iterations' = 0 /\ tokens' = 0 /\ parseFailures' = 0 /\ attempt' = 0 /\ acceptedLate' = 0
  BY DEF Reset
<1>4. /\ engine' = "clear" /\ stopReason' = "none"
      /\ controller' = TRUE /\ signal' \in BOOLEAN /\ timeUp' = FALSE
      /\ forceCompaction' = forceCompaction
  BY DEF Reset, NewEngine
<1>. QED  BY <1>1, <1>2, <1>3, <1>4 DEF TypeOK, Awaiting, Reason

LEMMA TypeModelReturns ==
    ASSUME TypeOK, ModelReturns
    PROVE  TypeOK'
<1>1. response' \in Response
  BY DEF ModelReturns
<1>2. response'.calls \in Seq(Call) /\ response'.tokens \in Nat
  BY <1>1, Limits
<1>3. tokens' \in Nat /\ iterations' \in Nat /\ acceptedLate' \in Nat
  BY <1>2 DEF ModelReturns, TypeOK
<1>4. timeUp' \in BOOLEAN
  BY DEF ModelReturns, TypeOK
<1>5. parseFailures' \in Nat
  <2>. DEFINE bad == {i \in DOMAIN response'.calls : response'.calls[i] \in Malformed}
  <2>1. DOMAIN response'.calls = 1..Len(response'.calls) /\ Len(response'.calls) \in Nat
    BY <1>2
  <2>2. IsFiniteSet(bad)
    <3>1. IsFiniteSet(1..Len(response'.calls))
      BY <2>1, FS_Interval
    <3>2. bad \subseteq 1..Len(response'.calls)
      BY <2>1
    <3>. QED  BY <3>1, <3>2, FS_Subset
  <2>3. Cardinality(bad) \in Nat
    BY <2>2, FS_CardinalityType
  <2>4. parseFailures' = IF bad = {} THEN 0 ELSE parseFailures + Cardinality(bad)
    BY DEF ModelReturns
  <2>. QED  BY <2>3, <2>4 DEF TypeOK
<1>. QED  BY <1>1, <1>3, <1>4, <1>5
          DEF ModelReturns, TypeOK, runVars, abortVars, turnVars, Awaiting

LEMMA TypeAppended ==
    ASSUME TypeOK, Aligned,
           NEW results \in [DOMAIN response.calls -> {"none", "blocked"}],
           Appended(results),
           pc' \in {"ending", "top", "tools"}, stopReason' \in {"loop_detected", stopReason}
    PROVE  TypeOK' /\ Aligned'
<1>1. /\ response.calls \in Seq(Call)
      /\ response.content # "" => response.content \in Content
      /\ DOMAIN response.calls = 1..Len(response.calls) /\ Len(response.calls) \in Nat
  BY TypedResponse
<1>. DEFINE turn == [calls |-> response.calls, results |-> results]
<1>2. turn \in Turn
  BY <1>1, TypedTurn
<1>3. transcript \in Seq(Turn) /\ transcript' = Append(transcript, turn)
  BY DEF Appended, TypeOK
<1>4. transcript' \in Seq(Turn)
  BY <1>2, <1>3
<1>5. seen' \in Seq(Call) /\ contents' \in Seq(Content)
  <2>1. seen \in Seq(Call) /\ seen' = seen \o response.calls
    BY DEF Appended, TypeOK
  <2>2. seen' \in Seq(Call)
    BY <1>1, <2>1, ConcatProperties
  <2>3. contents \in Seq(Content)
    BY DEF TypeOK, Content
  <2>4. \/ contents' = contents
        \/ response.content # "" /\ contents' = Append(contents, response.content)
    BY DEF Appended
  <2>5. response.content # "" => Append(contents, response.content) \in Seq(Content)
    BY <1>1, <2>3, AppendProperties
  <2>. QED  BY <2>2, <2>3, <2>4, <2>5
<1>6. TypeOK'
  <2>1. UNCHANGED <<runVars, abortVars, budgetVars, attempt, response, forceCompaction,
                    lastResult, acceptedLate>>
    BY DEF Appended
  <2>2. stopReason' \in Reason /\ pc' \in Awaiting \cup {"idle", "top", "prompt", "judge", "ending"}
    BY DEF TypeOK, Reason, Awaiting
  <2>. QED  BY <1>4, <1>5, <2>1, <2>2
            DEF TypeOK, Content, runVars, abortVars, budgetVars
<1>7. Aligned'
  <2>1. DOMAIN turn.results = DOMAIN turn.calls
    OBVIOUS
  <2>. HIDE DEF turn
  <2>2. \A k \in DOMAIN transcript' :
            transcript'[k] = turn \/ (k \in DOMAIN transcript /\ transcript'[k] = transcript[k])
    BY <1>2, <1>3
  <2>. QED  BY <2>1, <2>2 DEF Aligned
<1>. QED  BY <1>6, <1>7

LEMMA TypeToolsReturn ==
    ASSUME TypeOK, Aligned, Answered, ToolsReturn
    PROVE  TypeOK' /\ Aligned'
<1>. DEFINE last == Len(transcript)
            turn == Last(transcript)
            open == {i \in DOMAIN turn.calls : turn.results[i] = "none"}
            Settled(result) == [i \in DOMAIN turn.calls |->
                                   IF i \in open THEN result[i] ELSE turn.results[i]]
<1>1. transcript \in Seq(Turn) /\ transcript # <<>>
  BY DEF ToolsReturn, Answered, TypeOK
<1>2. last \in Nat \ {0} /\ DOMAIN transcript = 1..last
  BY <1>1
<1>3. turn = transcript[last] /\ turn \in Turn
  BY <1>1, <1>2 DEF Last
<1>4. PICK result \in [open -> Outcomes] :
          transcript' = [transcript EXCEPT ![last].results = Settled(result)]
  BY DEF ToolsReturn
<1>5. turn.calls \in Seq(Call) /\ DOMAIN turn.results = DOMAIN turn.calls
  BY <1>2, <1>3 DEF Aligned, Turn
<1>6. Settled(result) \in [DOMAIN turn.calls -> Outcomes \cup {"none", "blocked"}]
  <2>1. DOMAIN turn.calls = 1..Len(turn.calls)
    BY <1>5
  <2>2. \A i \in DOMAIN turn.calls : turn.results[i] \in Outcomes \cup {"none", "blocked"}
    BY <1>3, <1>5 DEF Turn
  <2>. QED  BY <1>4, <2>2
<1>. HIDE DEF Settled
<1>7. [calls |-> turn.calls, results |-> Settled(result)] \in Turn
  BY <1>5, <1>6, TypedTurn
<1>8. transcript' = [transcript EXCEPT ![last] =
                        [calls |-> turn.calls, results |-> Settled(result)]]
  <2>1. [turn EXCEPT !.results = Settled(result)]
            = [calls |-> turn.calls, results |-> Settled(result)]
    BY <1>3 DEF Turn
  <2>. QED  BY <1>2, <1>3, <1>4, <2>1
<1>9. transcript' \in Seq(Turn)
  BY <1>1, <1>2, <1>7, <1>8
<1>10. TypeOK'
  BY <1>9 DEF ToolsReturn, Reason, TypeOK, runVars, abortVars, budgetVars, Awaiting
<1>11. Aligned'
  <2>1. DOMAIN Settled(result) = DOMAIN turn.calls
    BY <1>6
  <2>. QED  BY <1>1, <1>2, <1>8, <2>1 DEF Aligned
<1>. QED  BY <1>10, <1>11

\* Steps that leave the transcript, the detectors and the response alone.
LEMMA TypeQuiet ==
    ASSUME TypeOK, Aligned,
           \/ SymbolGraphReady \/ LeaveLoop \/ Iterate \/ Compacted \/ CallModel \/ PromptThrows
           \/ CallRetried \/ BackoffEnds \/ (\E error \in CallError : CallFails(error))
           \/ EngineStops \/ EndRun \/ Curated \/ Environment \/ UNCHANGED vars
    PROVE  TypeOK' /\ Aligned'
<1>1. Verdict \in Reason
  BY DEF Verdict, Reason
<1>2. LeaveReason \in Reason
  BY DEF LeaveReason, TypeOK, Reason
<1>3. UNCHANGED <<response, turnVars>>
  BY DEF SymbolGraphReady, LeaveLoop, Iterate, Compacted, CallModel, PromptThrows, CallRetried,
         BackoffEnds, CallFails, EngineStops, EndRun, Curated, Environment, Abort,
         RequestCompaction, CallerAborts, turnVars, vars
<1>4. Aligned'
  BY <1>3 DEF Aligned, turnVars
<1>. USE DEF TypeOK, Reason, Awaiting, runVars, abortVars, budgetVars
<1>5. CASE SymbolGraphReady \/ Iterate \/ Compacted \/ CallModel \/ BackoffEnds
  <2>1. UNCHANGED <<runs, abortVars, stopReason, budgetVars, lastResult, acceptedLate>>
    BY <1>5 DEF SymbolGraphReady, Iterate, Compacted, CallModel, BackoffEnds
  <2>2. pc' \in {"top", "compacting", "prompt", "calling"} /\ attempt' \in Nat
    BY <1>5 DEF SymbolGraphReady, Iterate, Compacted, CallModel, BackoffEnds
  <2>3. indexed' \in BOOLEAN /\ forceCompaction' \in BOOLEAN
    BY <1>5 DEF SymbolGraphReady, Iterate, Compacted, CallModel, BackoffEnds
  <2>. QED  BY <1>3, <1>4, <2>1, <2>2, <2>3 DEF turnVars
<1>6. CASE LeaveLoop \/ PromptThrows \/ EngineStops \/ \E error \in CallError : CallFails(error)
  BY <1>1, <1>2, <1>3, <1>4, <1>6 DEF LeaveLoop, PromptThrows, EngineStops, CallFails, turnVars
<1>7. CASE CallRetried
  BY <1>3, <1>4, <1>7 DEF CallRetried, NextAttempt, turnVars
<1>8. CASE EndRun \/ Curated
  <2>1. UNCHANGED <<runVars, signal, caller, engine, asked, stopReason, budgetVars, attempt,
                    forceCompaction, acceptedLate>>
    BY <1>8 DEF EndRun, Curated
  <2>2. pc' \in {"curating", "idle"} /\ controller' \in BOOLEAN
    BY <1>8 DEF EndRun, Curated
  <2>3. lastResult' \in {stopReason, lastResult}
    BY <1>8 DEF EndRun, Curated
  <2>. QED  BY <1>3, <1>4, <2>1, <2>2, <2>3 DEF turnVars
<1>9. CASE Environment
  <2>1. UNCHANGED <<pc, runVars, controller, stopReason, budgetVars, attempt, lastResult,
                    acceptedLate>>
    BY <1>9 DEF Environment, Abort, RequestCompaction, CallerAborts
  <2>2. /\ signal' \in BOOLEAN /\ forceCompaction' \in BOOLEAN
        /\ caller' \in {caller, "aborted"} /\ engine' \in {engine, "aborted"}
        /\ asked' \in {asked, "early", "yes"}
    BY <1>9 DEF Environment, Abort, RequestCompaction, CallerAborts
  <2>. QED  BY <1>3, <1>4, <2>1, <2>2 DEF turnVars
<1>10. CASE UNCHANGED vars
  BY <1>4, <1>10 DEF vars
<1>. QED  BY <1>4, <1>5, <1>6, <1>7, <1>8, <1>9, <1>10

LEMMA TypeStep == IInv /\ [Next]_vars => TypeOK' /\ Aligned'
<1>. SUFFICES ASSUME IInv, [Next]_vars PROVE TypeOK' /\ Aligned'
  OBVIOUS
<1>0. TypeOK /\ Aligned /\ Answered
  BY DEF IInv
<1>1. ASSUME NEW inputSignal, Reset(inputSignal) PROVE Aligned'
  <2>1. transcript' = <<>>
    BY <1>1 DEF Reset
  <2>. QED  BY <2>1 DEF Aligned
<1>2. CASE StartRun
  <2>1. /\ runs' \in 0..MaxRuns /\ indexed' \in BOOLEAN /\ lastResult' = "none"
        /\ caller' \in {"none", "live", "aborted"} /\ asked' = "no"
    BY <1>0, <1>2, Limits DEF StartRun, TypeOK
  <2>2. CASE Headless /\ runs = 0
    <3>1. /\ pc' = "starting"
          /\ UNCHANGED <<controller, signal, engine, stopReason, budgetVars, attempt,
                         response, turnVars, forceCompaction, acceptedLate>>
      BY <1>2, <2>2 DEF StartRun
    <3>. QED  BY <1>0, <2>1, <3>1
              DEF TypeOK, Aligned, Reason, Awaiting, budgetVars, turnVars
  <2>3. CASE ~ (Headless /\ runs = 0)
    <3>1. Reset(caller')
      BY <1>2, <2>3 DEF StartRun
    <3>. QED  BY <1>0, <1>1, <2>1, <3>1, TypeReset
  <2>. QED  BY <2>2, <2>3
<1>3. CASE SessionMemoryLoaded
  BY <1>0, <1>1, <1>3, TypeReset DEF SessionMemoryLoaded, TypeOK, runVars
<1>4. CASE ModelReturns
  <2>1. transcript' = transcript
    BY <1>4 DEF ModelReturns, turnVars
  <2>. QED  BY <1>0, <1>4, <2>1, TypeModelReturns DEF Aligned
<1>5. CASE LoopDetected
  <2>1. Unanswered(response.calls) \in [DOMAIN response.calls -> {"none", "blocked"}]
    BY DEF Unanswered
  <2>. QED  BY <1>0, <1>5, <2>1, TypeAppended DEF LoopDetected
<1>6. CASE StartTools
  <2>1. PICK blocked \in SUBSET ToSet(response.calls) :
            LET results == [i \in DOMAIN response.calls |->
                               IF response.calls[i] \in blocked THEN "blocked" ELSE "none"]
            IN  Appended(results) /\ pc' \in {"top", "tools"}
    BY <1>6 DEF StartTools
  <2>2. [i \in DOMAIN response.calls |->
             IF response.calls[i] \in blocked THEN "blocked" ELSE "none"]
                \in [DOMAIN response.calls -> {"none", "blocked"}]
    OBVIOUS
  <2>. QED  BY <1>0, <1>6, <2>1, <2>2, TypeAppended DEF StartTools
<1>7. CASE ToolsReturn
  BY <1>0, <1>7, TypeToolsReturn
<1>. QED  BY <1>0, <1>2, <1>3, <1>4, <1>5, <1>6, <1>7, TypeQuiet DEF Next, Progress

-----------------------------------------------------------------------------

\* What the loop knows of aborts, of its budget and of its verdict.
Control == Recorded /\ Room /\ Late /\ AbortHonoured /\ AbortNotInherited /\ Reasoned

LEMMA ControlReset ==
    ASSUME TypeOK, Reset(caller'), asked' # "yes"
    PROVE  Control'
<1>1. pc' \in {"setup", "top"} /\ controller' /\ engine' = "clear" /\ iterations' = 0
  BY DEF Reset, NewEngine
<1>2. signal' = (caller' = "aborted") /\ acceptedLate' = 0
  BY DEF Reset
<1>. QED  BY <1>1, <1>2 DEF Control, Recorded, Room, Late, AbortHonoured, AbortNotInherited,
                            Reasoned, Decided, Active, Looping, BeforeResponse

LEMMA ControlStep == IInv /\ [Next]_vars => Control'
<1>. SUFFICES ASSUME IInv, [Next]_vars PROVE Control'
  OBVIOUS
<1>0. TypeOK /\ Control
  BY DEF IInv, Control
<1>v. Verdict # "none" => \/ Verdict = "aborted" /\ engine = "aborted"
                          \/ Verdict \in {"completed", "budget", "stall", "error"}
                                 /\ engine # "aborted"
  BY DEF Verdict
<1>w. Verdict = "none" => engine # "aborted" /\ iterations + 1 < MaxIterations
  BY <1>0, Limits DEF Verdict, BudgetExceeded, TypeOK
<1>. USE DEF Control, Recorded, Room, Late, AbortHonoured, AbortNotInherited, Reasoned,
             Decided, Active, Looping, BeforeResponse, abortVars, budgetVars, runVars
<1>1. CASE StartRun
  <2>1. CASE Headless /\ runs = 0
    BY <1>0, <1>1, <2>1 DEF StartRun
  <2>2. CASE ~ (Headless /\ runs = 0)
    BY <1>0, <1>1, <2>2, ControlReset DEF StartRun
  <2>. QED  BY <2>1, <2>2
<1>2. CASE SessionMemoryLoaded
  BY <1>0, <1>2, ControlReset DEF SessionMemoryLoaded
<1>3. CASE SymbolGraphReady
  BY <1>0, <1>3 DEF SymbolGraphReady
<1>4. CASE LeaveLoop
  <2>1. iterations < HardCap
    BY <1>0, <1>4, Limits DEF LeaveLoop, HardCap, TypeOK
  <2>2. signal /\ stopReason' = "aborted"
    BY <1>0, <1>4, <2>1, Limits DEF LeaveLoop, LeaveReason, HardCap, TypeOK
  <2>. QED  BY <1>0, <1>4, <2>2 DEF LeaveLoop
<1>5. CASE Iterate
  BY <1>0, <1>5 DEF Iterate, MayIterate
<1>6. CASE Compacted
  BY <1>0, <1>6 DEF Compacted
<1>7. CASE CallModel
  BY <1>0, <1>7 DEF CallModel
<1>8. CASE PromptThrows
  BY <1>0, <1>8 DEF PromptThrows
<1>9. CASE ModelReturns
  BY <1>0, <1>9 DEF ModelReturns
<1>10. CASE CallRetried
  BY <1>0, <1>10 DEF CallRetried
<1>11. CASE BackoffEnds
  BY <1>0, <1>11 DEF BackoffEnds
<1>12. ASSUME NEW error \in CallError, CallFails(error) PROVE Control'
  BY <1>0, <1>12 DEF CallFails
<1>13. CASE EngineStops
  BY <1>0, <1>v, <1>13 DEF EngineStops
<1>14. CASE LoopDetected
  BY <1>0, <1>w, <1>14 DEF LoopDetected, Appended
<1>15. CASE StartTools
  <2>1. /\ pc = "judge" /\ Verdict = "none" /\ pc' \in {"top", "tools"}
        /\ UNCHANGED <<abortVars, budgetVars, acceptedLate, stopReason>>
    BY <1>15 DEF StartTools, Appended
  <2>. QED  BY <1>0, <1>w, <2>1
<1>16. CASE ToolsReturn
  BY <1>0, <1>16 DEF ToolsReturn
<1>17. CASE EndRun
  BY <1>0, <1>17 DEF EndRun
<1>18. CASE Curated
  BY <1>0, <1>18 DEF Curated
<1>19. CASE Abort
  <2>1. asked' = asked \/ (asked' = "yes" /\ pc \in Deciding \ {"starting"})
                     \/ (asked' = "early" /\ pc = "starting")
    BY <1>19 DEF Abort
  <2>2. pc \in Active /\ pc \in Awaiting => asked' = "yes" /\ engine' = "aborted" /\ signal'
    BY <1>0, <1>19 DEF Abort, Deciding, Awaiting
  <2>3. pc \in Awaiting \cup {"idle"} /\ (signal => signal')
    BY <1>19 DEF Abort
  <2>. QED  BY <1>0, <1>19, <2>1, <2>2, <2>3 DEF Abort, Deciding, Awaiting
<1>20. CASE RequestCompaction
  BY <1>0, <1>20 DEF RequestCompaction
<1>21. CASE CallerAborts
  BY <1>0, <1>21 DEF CallerAborts, Awaiting
<1>22. CASE UNCHANGED vars
  BY <1>0, <1>22 DEF vars
<1>. QED  BY <1>1, <1>2, <1>3, <1>4, <1>5, <1>6, <1>7, <1>8, <1>9, <1>10, <1>11, <1>12, <1>13,
             <1>14, <1>15, <1>16, <1>17, <1>18, <1>19, <1>20, <1>21, <1>22
          DEF Next, Progress, Environment

-----------------------------------------------------------------------------

\* The steps between two turns keep every earlier turn answered.
LEMMA AnsweredKept ==
    ASSUME Answered, UNCHANGED transcript,
           \/ pc \in BeforeResponse \cup {"judge"}
           \/ (pc = "top" /\ ~ signal)
           \/ pc' \in {"idle", "starting", "ending", "curating"},
           pc' # "tools"
    PROVE  Answered'
<1>1. CASE pc \in BeforeResponse \cup {"judge"} \/ (pc = "top" /\ ~ signal)
  BY <1>1 DEF Answered, Complete
<1>2. CASE pc' \in {"idle", "starting", "ending", "curating"}
  BY <1>2 DEF Answered, BeforeResponse
<1>. QED  BY <1>1, <1>2

\* The executor leaves no first call of a batch unanswered unless aborted.
LEMMA BatchAnswered ==
    ASSUME NEW batch, NEW stopped, ~ stopped, NEW result, IsResult(batch, stopped, result)
    PROVE  \A i \in FirstCalls(batch) : Ran(result[i])
BY DEF IsResult, SequentialResult, ConcurrentResult

LEMMA AnsweredStep == IInv /\ [Next]_vars => Answered'
<1>. SUFFICES ASSUME IInv, [Next]_vars PROVE Answered'
  OBVIOUS
<1>0. TypeOK /\ Aligned /\ Answered
  BY DEF IInv
<1>1. ASSUME NEW inputSignal, Reset(inputSignal) PROVE Answered'
  <2>1. transcript' = <<>> /\ pc' \in {"setup", "top"}
    BY <1>1 DEF Reset
  <2>2. DOMAIN transcript' = {}
    BY <2>1
  <2>. QED  BY <2>1, <2>2 DEF Answered
<1>2. CASE StartRun
  <2>1. CASE Headless /\ runs = 0
    BY <1>0, <1>2, <2>1, AnsweredKept DEF StartRun, turnVars
  <2>2. CASE ~ (Headless /\ runs = 0)
    BY <1>1, <1>2, <2>2 DEF StartRun
  <2>. QED  BY <2>1, <2>2
<1>3. CASE SessionMemoryLoaded
  BY <1>1, <1>3 DEF SessionMemoryLoaded
<1>4. CASE SymbolGraphReady \/ Compacted \/ CallModel \/ PromptThrows \/ ModelReturns
           \/ CallRetried \/ BackoffEnds \/ EngineStops
  BY <1>0, <1>4, AnsweredKept DEF BeforeResponse, turnVars, SymbolGraphReady, Compacted, CallModel,
         PromptThrows, ModelReturns, CallRetried, BackoffEnds, EngineStops
<1>5. CASE LeaveLoop \/ EndRun \/ Curated \/ \E error \in CallError : CallFails(error)
  BY <1>0, <1>5, AnsweredKept DEF turnVars, LeaveLoop, EndRun, Curated, CallFails
<1>6. CASE Iterate
  BY <1>0, <1>6, AnsweredKept DEF turnVars, Iterate, MayIterate
<1>7. CASE LoopDetected
  BY <1>7 DEF LoopDetected, Answered, BeforeResponse
<1>8. CASE StartTools
  <2>1. PICK blocked \in SUBSET ToSet(response.calls) :
            LET results == [i \in DOMAIN response.calls |->
                               IF response.calls[i] \in blocked THEN "blocked" ELSE "none"]
            IN  /\ Appended(results)
                /\ pc' = IF ToSet(response.calls) \subseteq blocked THEN "top" ELSE "tools"
    BY <1>8 DEF StartTools
  <2>. DEFINE results == [i \in DOMAIN response.calls |->
                             IF response.calls[i] \in blocked THEN "blocked" ELSE "none"]
              turn == [calls |-> response.calls, results |-> results]
  <2>2. pc = "judge" /\ transcript' = Append(transcript, turn) /\ transcript \in Seq(Turn)
    BY <1>0, <2>1 DEF Appended, TypeOK
  <2>3. \A t \in DOMAIN transcript : Complete(transcript[t])
    BY <1>0, <2>2 DEF Answered
  <2>4. turn \in Turn
    <3>1. results \in [DOMAIN response.calls -> Outcomes \cup {"none", "blocked"}]
      OBVIOUS
    <3>. QED  BY <1>0, <3>1, TypedResponse, TypedTurn
  <2>5. Handed(turn)
    BY DEF Handed
  <2>6. ToSet(response.calls) \subseteq blocked => Complete(turn)
    BY DEF Complete, ToSet, FirstCalls
  <2>. HIDE DEF turn
  <2>7. /\ transcript' # <<>> /\ Last(transcript') = turn
        /\ DOMAIN transcript' = 1..Len(transcript')
        /\ Len(transcript') = Len(transcript) + 1 /\ Len(transcript) \in Nat
        /\ DOMAIN transcript = 1..Len(transcript)
        /\ transcript'[Len(transcript')] = turn
        /\ \A t \in DOMAIN transcript : transcript'[t] = transcript[t]
    BY <2>2, <2>4 DEF Last
  <2>8. \A t \in DOMAIN transcript' : t < Len(transcript') => Complete(transcript'[t])
    BY <2>3, <2>7
  <2>9. Complete(turn) => \A t \in DOMAIN transcript' : Complete(transcript'[t])
    BY <2>7, <2>8
  <2>10. \/ pc' = "top" /\ Complete(turn)
         \/ pc' = "tools"
    BY <2>1, <2>6
  <2>. QED  BY <2>5, <2>7, <2>8, <2>9, <2>10 DEF Answered, BeforeResponse, Complete, Handed, FirstCalls
<1>9. CASE ToolsReturn
  <2>. DEFINE last == Len(transcript)
              turn == Last(transcript)
              open == {i \in DOMAIN turn.calls : turn.results[i] = "none"}
              batch == [i \in open |-> turn.calls[i]]
              Settled(result) == [i \in DOMAIN turn.calls |->
                                     IF i \in open THEN result[i] ELSE turn.results[i]]
  <2>1. /\ pc' = "top" /\ UNCHANGED signal /\ transcript # <<>> /\ transcript \in Seq(Turn)
        /\ \A t \in DOMAIN transcript : t < last => Complete(transcript[t])
        /\ Handed(turn)
    BY <1>0, <1>9 DEF ToolsReturn, Answered, TypeOK, abortVars
  <2>2. last \in Nat \ {0} /\ DOMAIN transcript = 1..last /\ turn = transcript[last] /\ turn \in Turn
    BY <2>1 DEF Last
  <2>3. PICK result \in [open -> Outcomes] :
            /\ IsResult(batch, signal, result)
            /\ transcript' = [transcript EXCEPT ![last].results = Settled(result)]
    BY <1>9 DEF ToolsReturn
  <2>4. ASSUME ~ signal, NEW i \in FirstCalls(turn.calls)
        PROVE  Settled(result)[i] \notin {"none", "missing"}
    <3>1. i \in DOMAIN turn.calls /\ turn.results[i] \in {"none", "blocked"}
      BY <2>1, <2>4 DEF FirstCalls, Handed
    <3>2. CASE i \in open
      <4>1. i \in FirstCalls(batch)
        BY <2>4, <3>2 DEF FirstCalls
      <4>2. Ran(result[i])
        BY <2>3, <2>4, <4>1, BatchAnswered
      <4>. QED  BY <3>1, <3>2, <4>2 DEF Ran
    <3>3. CASE i \notin open
      BY <3>1, <3>3
    <3>. QED  BY <3>2, <3>3
  <2>. HIDE DEF Settled, batch, open
  <2>5. /\ DOMAIN transcript' = 1..last
        /\ \A t \in 1..(last - 1) : transcript'[t] = transcript[t]
        /\ transcript'[last] = [turn EXCEPT !.results = Settled(result)]
    BY <2>2, <2>3
  <2>6. /\ transcript'[last].calls = turn.calls
        /\ transcript'[last].results = Settled(result)
    BY <2>2, <2>5 DEF Turn
  <2>7. ~ signal => Complete(transcript'[last])
    BY <2>4, <2>6 DEF Complete
  <2>8. ~ signal => \A t \in DOMAIN transcript' : Complete(transcript'[t])
    BY <2>1, <2>2, <2>5, <2>7
  <2>. QED  BY <2>1, <2>8 DEF Answered, BeforeResponse, Complete
<1>10. CASE Environment
  BY <1>0, <1>10 DEF Answered, BeforeResponse, Complete, Handed, FirstCalls, Environment, Abort,
         RequestCompaction, CallerAborts, Awaiting, turnVars
<1>11. CASE UNCHANGED vars
  BY <1>0, <1>11 DEF Answered, BeforeResponse, Complete, Handed, FirstCalls, vars
<1>. QED  BY <1>2, <1>3, <1>4, <1>5, <1>6, <1>7, <1>8, <1>9, <1>10, <1>11 DEF Next, Progress

-----------------------------------------------------------------------------

LEMMA InitIInv == Init => IInv
<1>. SUFFICES ASSUME Init PROVE IInv
  OBVIOUS
<1>1. /\ transcript = <<>> /\ seen = <<>> /\ contents = <<>>
      /\ <<>> \in Seq(Turn) /\ <<>> \in Seq(Call) /\ <<>> \in Seq({r.content : r \in Response})
  BY EmptySeq DEF Init
<1>2. TypeOK
  <2>1. runs \in 0..MaxRuns /\ iterations \in Nat /\ tokens \in Nat /\ parseFailures \in Nat
        /\ attempt \in Nat /\ acceptedLate \in Nat
    BY Limits DEF Init
  <2>2. /\ indexed \in BOOLEAN /\ forceCompaction \in BOOLEAN /\ controller \in BOOLEAN
        /\ signal \in BOOLEAN /\ timeUp \in BOOLEAN
    BY DEF Init
  <2>3. pc = "idle" /\ caller = "none" /\ engine = "none" /\ stopReason = "none"
        /\ lastResult = "none" /\ asked = "no" /\ response = NoResponse
    BY DEF Init
  <2>. QED  BY <1>1, <2>1, <2>2, <2>3 DEF TypeOK, Reason, Awaiting
<1>3. Aligned
  BY <1>1 DEF Aligned
<1>. QED  BY <1>2, <1>3 DEF Init, IInv, Recorded, Room, Late, Answered, AbortHonoured,
              AbortNotInherited, Reasoned, Decided, Active, Looping, BeforeResponse

LEMMA NextIInv == IInv /\ [Next]_vars => IInv'
BY TypeStep, ControlStep, AnsweredStep DEF IInv, Control

\* Every variable of the loop stays within its range.
THEOREM TypeCorrect == Spec => []TypeOK
<1>1. IInv => TypeOK
  BY DEF IInv
<1>. QED  BY InitIInv, NextIInv, <1>1, PTL DEF Spec

\* abort() during a run ends it 'aborted', or with the error of the call it
\* interrupted, whatever the responses, the budget and the detectors say.
THEOREM AbortsAreHonoured == Spec => []AbortHonoured
<1>1. IInv => AbortHonoured
  BY DEF IInv
<1>. QED  BY InitIInv, NextIInv, <1>1, PTL DEF Spec

\* A run ends 'aborted' only because of an abort during that run.
THEOREM AbortsAreNotInherited == Spec => []AbortNotInherited
<1>1. IInv => AbortNotInherited
  BY DEF IInv
<1>. QED  BY InitIInv, NextIInv, <1>1, PTL DEF Spec

\* What a run reports of aborts is true, for every interleaving with the awaits
\* of the run and every history of the instance.
THEOREM AbortsAreReported == Spec => []AbortReported
<1>. QED  BY AbortsAreHonoured, AbortsAreNotInherited, PTL DEF AbortReported

\* At most one response is accepted after an abort, however many retries and
\* iterations the configuration allows.
THEOREM AbortsStopSoon == Spec => []AbortStopsSoon
<1>1. IInv => AbortStopsSoon
  BY DEF IInv, Late, AbortStopsSoon
<1>. QED  BY InitIInv, NextIInv, <1>1, PTL DEF Spec

\* The iteration budget bounds every run, and the hard cap ends none.
THEOREM BudgetBoundsRun == Spec => []EngineBoundsRun
<1>1. IInv => EngineBoundsRun
  BY DEF IInv, Room, Looping, Reasoned, EngineBoundsRun
<1>. QED  BY InitIInv, NextIInv, <1>1, PTL DEF Spec

\* When the model is called, each distinct call of an earlier turn, the first
\* of equal ones, has its tool message, for all responses, batches and
\* guardrail decisions.  Of repetitions nothing is said: in the sequential
\* part of a batch they get no message of their own.
THEOREM TurnsAnswered == Spec => []AnsweredBeforeNextCall
<1>1. IInv => AnsweredBeforeNextCall
  BY DEF IInv, Answered, BeforeResponse, Complete, AnsweredBeforeNextCall
<1>. QED  BY InitIInv, NextIInv, <1>1, PTL DEF Spec

\* A request to compact is consumed by a compaction that follows it.
THEOREM CompactionRequestsKept == Spec => CompactionKept
<1>1. IInv /\ [Next]_vars => [forceCompaction /\ ~ forceCompaction' => pc' = "compacting"]_vars
  <2>. SUFFICES ASSUME IInv, Next, forceCompaction, ~ forceCompaction'
                PROVE  pc' = "compacting"
    OBVIOUS
  <2>1. forceCompaction' \in {forceCompaction, TRUE} \/ Iterate
    BY DEF Next, Progress, Environment, StartRun, SessionMemoryLoaded, Reset, SymbolGraphReady,
           LeaveLoop, Compacted, CallModel, PromptThrows, ModelReturns, CallRetried, BackoffEnds,
           CallFails, EngineStops, LoopDetected, Appended, StartTools, ToolsReturn, EndRun,
           Curated, Abort, RequestCompaction, CallerAborts
  <2>. QED  BY <2>1 DEF Iterate, NeedsCompaction
<1>. QED  BY InitIInv, NextIInv, <1>1, PTL DEF Spec, CompactionKept

-----------------------------------------------------------------------------
(***************************************************************************)
(* Concatenation.  FlattenSeq is a recursion over a sequence; what the     *)
(* proof needs of it is what it does when the sequence grows by one.       *)
(***************************************************************************)

\* f[i] joins the first i elements of s.
Joins(f, s, k) == \A i \in 1..k : f[i] = IF i = 1 THEN s[i] ELSE f[i - 1] \o s[i]

\* The elements alone determine what is joined.
LEMMA JoinsAgree ==
    ASSUME NEW k \in Nat, NEW f, NEW g, NEW s, NEW t,
           Joins(f, s, k), Joins(g, t, k), \A i \in 1..k : s[i] = t[i]
    PROVE  \A i \in 1..k : f[i] = g[i]
<1>. DEFINE F == {n \in Nat : n \in 1..k => f[n] = g[n]}
<1>1. 0 \in F
  OBVIOUS
<1>2. ASSUME NEW n \in Nat, n \in F
      PROVE  n + 1 \in F
  <2>. SUFFICES ASSUME n + 1 \in 1..k
                PROVE  f[n + 1] = g[n + 1]
    OBVIOUS
  <2>1. CASE n = 0
    BY <2>1 DEF Joins
  <2>2. CASE n # 0
    <3>1. n \in 1..k /\ (n + 1) - 1 = n /\ n + 1 # 1
      BY <2>2
    <3>2. f[n] = g[n]
      BY <1>2, <3>1
    <3>. QED  BY <3>1, <3>2 DEF Joins
  <2>. QED  BY <2>1, <2>2
<1>3. \A n \in Nat : n \in F
  <2>. HIDE DEF F
  <2>. QED  BY <1>1, <1>2, NaturalInduction
<1>. QED  BY <1>3

LEMMA JoinsExist ==
    ASSUME NEW S, NEW s \in Seq(Seq(S))
    PROVE  \E f \in [1..Len(s) -> Seq(S)] : Joins(f, s, Len(s))
<1>. DEFINE F == {n \in Nat : n <= Len(s) => \E f \in [1..n -> Seq(S)] : Joins(f, s, n)}
<1>0. Len(s) \in Nat /\ \A i \in 1..Len(s) : s[i] \in Seq(S)
  BY ElementOfSeq, LenProperties
<1>1. 0 \in F
  <2>1. [i \in 1..0 |-> <<>>] \in [1..0 -> Seq(S)]
    BY EmptySeq
  <2>2. Joins([i \in 1..0 |-> <<>>], s, 0)
    BY DEF Joins
  <2>. QED  BY <2>1, <2>2
<1>2. ASSUME NEW n \in Nat, n \in F
      PROVE  n + 1 \in F
  <2>. SUFFICES ASSUME n + 1 <= Len(s)
                PROVE  \E f \in [1..(n + 1) -> Seq(S)] : Joins(f, s, n + 1)
    OBVIOUS
  <2>1. PICK f \in [1..n -> Seq(S)] : Joins(f, s, n)
    BY <1>0, <1>2
  <2>. DEFINE new == IF n = 0 THEN s[1] ELSE f[n] \o s[n + 1]
              g == [i \in 1..(n + 1) |-> IF i = n + 1 THEN new ELSE f[i]]
  <2>2. new \in Seq(S)
    <3>1. s[n + 1] \in Seq(S)
      BY <1>0
    <3>2. CASE n = 0
      BY <3>1, <3>2
    <3>3. CASE n # 0
      <4>1. f[n] \in Seq(S)
        BY <3>3
      <4>. QED  BY <3>1, <3>3, <4>1, ConcatProperties
    <3>. QED  BY <3>2, <3>3
  <2>3. g \in [1..(n + 1) -> Seq(S)]
    <3>. HIDE DEF new
    <3>. QED  BY <2>2
  <2>4. g[n + 1] = new /\ \A i \in 1..n : g[i] = f[i]
    <3>. HIDE DEF new
    <3>. QED  OBVIOUS
  <2>5. ASSUME NEW i \in 1..(n + 1)
        PROVE  g[i] = IF i = 1 THEN s[i] ELSE g[i - 1] \o s[i]
    <3>. HIDE DEF g
    <3>1. CASE i \in 1..n
      <4>1. i = 1 \/ i - 1 \in 1..n
        BY <3>1
      <4>. QED  BY <2>1, <2>4, <3>1, <4>1 DEF Joins
    <3>2. CASE i = n + 1 /\ n = 0
      BY <2>4, <3>2
    <3>3. CASE i = n + 1 /\ n # 0
      <4>1. i # 1 /\ i - 1 = n /\ n \in 1..n
        BY <3>3
      <4>. QED  BY <2>4, <3>3, <4>1
    <3>. QED  BY <3>1, <3>2, <3>3
  <2>6. Joins(g, s, n + 1)
    BY <2>5 DEF Joins
  <2>. HIDE DEF g
  <2>. QED  BY <2>3, <2>6
<1>3. \A n \in Nat : n \in F
  <2>. HIDE DEF F
  <2>. QED  BY <1>1, <1>2, NaturalInduction
<1>4. Len(s) \in F
  <2>. HIDE DEF F
  <2>. QED  BY <1>0, <1>3
<1>. QED  BY <1>0, <1>4

\* FlattenSeq is what any function that joins the elements says.
LEMMA FlattenIs ==
    ASSUME NEW S, NEW s \in Seq(Seq(S)), Len(s) # 0, NEW g, Joins(g, s, Len(s))
    PROVE  FlattenSeq(s) = g[Len(s)]
<1>. DEFINE n == Len(s)
            f == CHOOSE f : f = [i \in 1..Len(s) |-> IF i = 1 THEN s[i] ELSE f[i - 1] \o s[i]]
<1>0. n \in Nat /\ n \in 1..n
  BY LenProperties
<1>1. FlattenSeq(s) = f[n]
  BY DEF FlattenSeq
<1>2. PICK h \in [1..n -> Seq(S)] : Joins(h, s, n)
  BY JoinsExist
<1>3. h = [i \in 1..n |-> IF i = 1 THEN s[i] ELSE h[i - 1] \o s[i]]
  <2>1. h = [i \in 1..n |-> h[i]]
    BY <1>2
  <2>. QED  BY <1>2, <2>1 DEF Joins
<1>4. f = [i \in 1..n |-> IF i = 1 THEN s[i] ELSE f[i - 1] \o s[i]]
  BY <1>3
<1>5. Joins(f, s, n)
  <2>. HIDE DEF f
  <2>. QED  BY <1>4 DEF Joins
<1>. HIDE DEF f, n
<1>6. \A i \in 1..n : f[i] = g[i]
  BY <1>0, <1>5, JoinsAgree DEF n
<1>. QED  BY <1>0, <1>1, <1>6 DEF n

LEMMA FlattenGrows ==
    ASSUME NEW S, NEW s \in Seq(Seq(S)), NEW x \in Seq(S)
    PROVE  FlattenSeq(Append(s, x)) = FlattenSeq(s) \o x
<1>. DEFINE n == Len(s)
            t == Append(s, x)
<1>1. /\ n \in Nat /\ t \in Seq(Seq(S)) /\ Len(t) = n + 1
      /\ t[n + 1] = x /\ \A i \in 1..n : t[i] = s[i]
  BY AppendProperties, LenProperties
<1>2. PICK g \in [1..Len(t) -> Seq(S)] : Joins(g, t, Len(t))
  BY <1>1, JoinsExist
<1>. HIDE DEF n, t
<1>3. FlattenSeq(t) = g[n + 1]
  <2>1. Len(t) # 0
    BY <1>1
  <2>. QED  BY <1>1, <1>2, <2>1, FlattenIs
<1>4. CASE n = 0
  <2>1. FlattenSeq(t) = x
    BY <1>1, <1>2, <1>3, <1>4 DEF Joins
  <2>2. s = <<>> /\ FlattenSeq(s) = <<>>
    BY <1>4, EmptySeq DEF n, FlattenSeq
  <2>3. <<>> \o x = x
    BY ConcatEmptySeq
  <2>. QED  BY <2>1, <2>2, <2>3 DEF t
<1>5. CASE n # 0
  <2>1. Joins(g, s, n)
    <3>1. \A i \in 1..n : i \in 1..(n + 1)
      BY <1>1
    <3>. QED  BY <1>1, <1>2, <3>1 DEF Joins
  <2>2. FlattenSeq(s) = g[n]
    BY <1>5, <2>1, FlattenIs DEF n
  <2>3. g[n + 1] = g[n] \o x
    <3>1. n + 1 \in 1..(n + 1) /\ n + 1 # 1 /\ (n + 1) - 1 = n
      BY <1>1, <1>5
    <3>. QED  BY <1>1, <1>2, <3>1 DEF Joins
  <2>. QED  BY <1>3, <2>2, <2>3 DEF t
<1>. QED  BY <1>4, <1>5

-----------------------------------------------------------------------------
(***************************************************************************)
(* Stuck runs.  The detectors are told of calls when a turn is appended,   *)
(* and forget them when a run starts: what they have seen is what the      *)
(* turns of this run asked for.                                            *)
(***************************************************************************)

CallsOf(turns) == [t \in DOMAIN turns |-> turns[t].calls]

Tracked == seen = FlattenSeq(CallsOf(transcript))

LEMMA IssuedIs == Issued = FlattenSeq(CallsOf(transcript))
BY DEF Issued, CallsOf

LEMMA CallsTyped ==
    ASSUME NEW turns \in Seq(Turn)
    PROVE  CallsOf(turns) \in Seq(Seq(Call))
<1>1. \A t \in 1..Len(turns) : turns[t].calls \in Seq(Call)
  <2>1. \A u \in Turn : u.calls \in Seq(Call)
    BY DEF Turn
  <2>. QED  BY <2>1, ElementOfSeq
<1>2. DOMAIN turns = 1..Len(turns) /\ Len(turns) \in Nat
  BY LenProperties
<1>. QED  BY <1>1, <1>2, SeqDef DEF CallsOf

LEMMA CallsGrow ==
    ASSUME NEW turns \in Seq(Turn), NEW turn \in Turn
    PROVE  CallsOf(Append(turns, turn)) = Append(CallsOf(turns), turn.calls)
<1>. DEFINE n == Len(turns)
            longer == Append(turns, turn)
<1>1. /\ n \in Nat /\ DOMAIN turns = 1..n /\ DOMAIN longer = 1..(n + 1)
      /\ longer[n + 1] = turn /\ \A t \in 1..n : longer[t] = turns[t]
  BY AppendProperties, LenProperties
<1>2. turn.calls \in Seq(Call)
  BY DEF Turn
<1>3. CallsOf(turns) \in Seq(Seq(Call)) /\ Len(CallsOf(turns)) = n
  <2>1. CallsOf(turns) \in Seq(Seq(Call))
    BY CallsTyped
  <2>2. DOMAIN CallsOf(turns) = 1..n
    BY <1>1 DEF CallsOf
  <2>3. DOMAIN CallsOf(turns) = 1..Len(CallsOf(turns)) /\ Len(CallsOf(turns)) \in Nat
    BY <2>1, LenProperties
  <2>. HIDE DEF n
  <2>. QED  BY <1>1, <2>1, <2>2, <2>3
<1>. DEFINE joined == Append(CallsOf(turns), turn.calls)
<1>4. /\ joined \in Seq(Seq(Call)) /\ Len(joined) = n + 1 /\ DOMAIN joined = 1..(n + 1)
      /\ joined[n + 1] = turn.calls /\ \A t \in 1..n : joined[t] = CallsOf(turns)[t]
  BY <1>1, <1>2, <1>3, AppendProperties, LenProperties
<1>5. \A t \in 1..n : CallsOf(turns)[t] = turns[t].calls
  BY <1>1 DEF CallsOf
<1>. HIDE DEF longer, joined, n
<1>6. CallsOf(longer) = [t \in 1..(n + 1) |-> longer[t].calls]
  BY <1>1 DEF CallsOf
<1>7. joined = [t \in 1..(n + 1) |-> joined[t]]
  BY <1>4, SeqDef
<1>8. \A t \in 1..(n + 1) : longer[t].calls = joined[t]
  <2>1. \A t \in 1..(n + 1) : t = n + 1 \/ t \in 1..n
    BY <1>1
  <2>. QED  BY <1>1, <1>4, <1>5, <2>1
<1>9. CallsOf(longer) = joined
  BY <1>6, <1>7, <1>8
<1>. QED  BY <1>9 DEF longer, joined

\* All the calls of a response, appended to what was seen, are one of the
\* prefixes the detectors look at, unless the response has none.
LEMMA WholePrefix ==
    ASSUME TypeOK, response.calls # <<>>
    PROVE  seen \o response.calls \in NewPrefixes(response.calls)
<1>1. /\ response.calls \in Seq(Call) /\ Len(response.calls) \in Nat
      /\ seen \in Seq(Call) /\ Len(seen) \in Nat
  BY TypedResponse, LenProperties DEF TypeOK
<1>. DEFINE n == Len(seen) + Len(response.calls)
            all == seen \o response.calls
<1>2. all \in Seq(Call) /\ Len(all) = n
  BY <1>1, ConcatProperties
<1>3. Len(response.calls) # 0
  BY <1>1, EmptySeq
<1>4. n \in (Len(seen) + 1)..(Len(seen) + Len(response.calls))
  BY <1>1, <1>3
<1>5. SubSeq(all, 1, n) = all
  <2>. HIDE DEF all
  <2>. QED  BY <1>2, SubSeqFull
<1>. QED  BY <1>4, <1>5 DEF NewPrefixes

\* A prefix that ends in the second of two sequences.
LEMMA PrefixOfJoin ==
    ASSUME NEW S, NEW s \in Seq(S), NEW t \in Seq(S), NEW m \in Nat,
           m - Len(s) \in 1..Len(t)
    PROVE  SubSeq(s \o t, 1, m) = s \o SubSeq(t, 1, m - Len(s))
<1>. DEFINE k == m - Len(s)
<1>1. Len(s) \in Nat /\ Len(t) \in Nat /\ k \in 1..Len(t) /\ m = Len(s) + k
  BY LenProperties
<1>2. s \o t \in Seq(S) /\ Len(s \o t) = Len(s) + Len(t)
  BY ConcatProperties
<1>3. \A i \in 1..(Len(s) + Len(t)) :
          (s \o t)[i] = IF i <= Len(s) THEN s[i] ELSE t[i - Len(s)]
  BY ConcatProperties
<1>4. 1..m \subseteq 1..Len(s \o t)
  BY <1>1, <1>2
<1>5. /\ SubSeq(s \o t, 1, m) \in Seq(S) /\ Len(SubSeq(s \o t, 1, m)) = m
      /\ \A i \in 1..m : SubSeq(s \o t, 1, m)[i] = (s \o t)[i]
  BY <1>1, <1>2
<1>6. /\ SubSeq(t, 1, k) \in Seq(S) /\ Len(SubSeq(t, 1, k)) = k
      /\ \A i \in 1..k : SubSeq(t, 1, k)[i] = t[i]
  BY <1>1
<1>. HIDE DEF k
<1>7. /\ s \o SubSeq(t, 1, k) \in Seq(S) /\ Len(s \o SubSeq(t, 1, k)) = m
      /\ \A i \in 1..m : (s \o SubSeq(t, 1, k))[i] =
             IF i <= Len(s) THEN s[i] ELSE SubSeq(t, 1, k)[i - Len(s)]
  BY <1>1, <1>6, ConcatProperties
<1>8. \A i \in 1..m : SubSeq(s \o t, 1, m)[i] = (s \o SubSeq(t, 1, k))[i]
  <2>. TAKE i \in 1..m
  <2>1. i \in 1..(Len(s) + Len(t))
    BY <1>1
  <2>2. CASE i <= Len(s)
    BY <1>3, <1>5, <1>7, <2>1, <2>2
  <2>3. CASE ~ (i <= Len(s))
    <3>1. i - Len(s) \in 1..k
      BY <1>1, <2>3
    <3>. QED  BY <1>3, <1>5, <1>6, <1>7, <2>1, <2>3, <3>1
  <2>. QED  BY <2>2, <2>3
<1>9. SubSeq(s \o t, 1, m) = s \o SubSeq(t, 1, k)
  BY <1>5, <1>7, <1>8, SeqEqual
<1>. QED  BY <1>9 DEF k

LEMMA TrackedAppended ==
    ASSUME TypeOK, Tracked,
           NEW results \in [DOMAIN response.calls -> {"none", "blocked"}],
           Appended(results)
    PROVE  Tracked'
<1>1. response.calls \in Seq(Call)
  BY TypedResponse
<1>. DEFINE turn == [calls |-> response.calls, results |-> results]
<1>2. turn \in Turn /\ turn.calls = response.calls
  BY <1>1, TypedTurn
<1>3. /\ transcript \in Seq(Turn) /\ transcript' = Append(transcript, turn)
      /\ seen' = seen \o response.calls
  BY DEF Appended, TypeOK
<1>. HIDE DEF turn
<1>4. CallsOf(Append(transcript, turn)) = Append(CallsOf(transcript), turn.calls)
  BY <1>2, <1>3, CallsGrow
<1>5. FlattenSeq(CallsOf(Append(transcript, turn))) = FlattenSeq(CallsOf(transcript)) \o turn.calls
  BY <1>1, <1>2, <1>3, <1>4, CallsTyped, FlattenGrows
<1>6. FlattenSeq(CallsOf(transcript')) = seen'
  BY <1>2, <1>3, <1>5 DEF Tracked
<1>. QED  BY <1>6 DEF Tracked

LEMMA TrackedStep == IInv /\ Tracked /\ [Next]_vars => Tracked'
<1>. SUFFICES ASSUME IInv, Tracked, [Next]_vars PROVE Tracked'
  OBVIOUS
<1>0. TypeOK
  BY DEF IInv
<1>1. CASE UNCHANGED <<seen, transcript>>
  BY <1>1 DEF Tracked
<1>2. CASE seen' = <<>> /\ transcript' = <<>>
  <2>1. CallsOf(<<>>) = <<>>
    <3>1. DOMAIN <<>> = {}
      OBVIOUS
    <3>. QED  BY <3>1 DEF CallsOf
  <2>2. FlattenSeq(<<>>) = <<>>
    BY DEF FlattenSeq
  <2>. QED  BY <1>2, <2>1, <2>2 DEF Tracked
<1>3. CASE LoopDetected
  <2>1. Unanswered(response.calls) \in [DOMAIN response.calls -> {"none", "blocked"}]
    BY DEF Unanswered
  <2>. QED  BY <1>0, <1>3, <2>1, TrackedAppended DEF LoopDetected
<1>4. CASE StartTools
  <2>1. PICK results \in [DOMAIN response.calls -> {"none", "blocked"}] : Appended(results)
    BY <1>4 DEF StartTools
  <2>. QED  BY <1>0, <2>1, TrackedAppended
<1>5. CASE ToolsReturn
  <2>. DEFINE last == Len(transcript)
  <2>1. transcript \in Seq(Turn) /\ seen' = seen /\ DOMAIN transcript = 1..last /\ last \in Nat
    BY <1>0, <1>5, LenProperties DEF ToolsReturn, TypeOK
  <2>2. PICK results : transcript' = [transcript EXCEPT ![last].results = results]
    BY <1>5 DEF ToolsReturn
  <2>3. DOMAIN transcript' = DOMAIN transcript
    BY <2>2
  <2>4. \A t \in DOMAIN transcript : transcript'[t].calls = transcript[t].calls
    <3>1. \A t \in DOMAIN transcript : transcript[t] \in Turn
      BY <2>1, ElementOfSeq
    <3>. QED  BY <2>2, <3>1 DEF Turn
  <2>5. CallsOf(transcript') = CallsOf(transcript)
    BY <2>3, <2>4 DEF CallsOf
  <2>. QED  BY <2>1, <2>5 DEF Tracked
<1>. QED  BY <1>1, <1>2, <1>3, <1>4, <1>5
    DEF Next, Progress, Environment, StartRun, SessionMemoryLoaded, Reset, ResetHistory,
        SymbolGraphReady, LeaveLoop, Iterate, Compacted, CallModel, PromptThrows, ModelReturns,
        CallRetried, BackoffEnds, CallFails, EngineStops, EndRun, Curated, Abort,
        RequestCompaction, CallerAborts, turnVars, vars

\* Where the run is decided by anything but a verdict, or goes on.
LEMMA StuckKept ==
    ASSUME TypeOK, Tracked, StuckRunsStop, UNCHANGED <<transcript, response>>,
           pc' # "tools" \/ pc = "tools",
           pc' # "ending" \/ stopReason' # "stall" \/ (pc = "ending" /\ stopReason = "stall")
    PROVE  StuckRunsStop'
BY DEF StuckRunsStop, Issued

LEMMA StuckStep == IInv /\ Tracked /\ StuckRunsStop /\ [Next]_vars => StuckRunsStop'
<1>. SUFFICES ASSUME IInv, Tracked, StuckRunsStop, [Next]_vars PROVE StuckRunsStop'
  OBVIOUS
<1>0. TypeOK /\ Room
  BY DEF IInv
<1>1. CASE StartTools
  <2>1. /\ pc = "judge" /\ ~ Loops /\ Verdict = "none" /\ UNCHANGED response
        /\ pc' \in {"top", "tools"} /\ seen' = seen \o response.calls
    BY <1>1 DEF StartTools, Appended
  <2>2. response.calls # <<>> /\ ~ Stalls(response.calls)
    BY <2>1 DEF Verdict
  <2>3. seen \o response.calls \in NewPrefixes(response.calls)
    BY <1>0, <2>2, WholePrefix
  <2>4. /\ ~ Repeats(seen \o response.calls, StallThreshold)
        /\ ~ Cycles(seen \o response.calls, MaxCycleLength, CycleThreshold)
    BY <2>1, <2>2, <2>3 DEF Stalls, Loops, ToolCallLoops
  <2>5. Tracked'
    BY <1>1, TrackedStep DEF Next, Progress
  <2>6. seen' = Issued'
    BY <2>5 DEF Tracked, Issued, CallsOf
  <2>. QED  BY <2>1, <2>4, <2>6 DEF StuckRunsStop
<1>2. CASE EngineStops
  <2>1. /\ UNCHANGED <<transcript, response, seen>> /\ pc' = "ending" /\ stopReason' = Verdict
    BY <1>2 DEF EngineStops, turnVars
  <2>2. CASE stopReason' = "stall"
    <3>1. Stalls(response.calls)
      BY <2>1, <2>2 DEF Verdict
    <3>2. PICK m \in (Len(seen) + 1)..(Len(seen) + Len(response.calls)) :
              Repeats(SubSeq(seen \o response.calls, 1, m), StallThreshold)
      BY <3>1 DEF Stalls, NewPrefixes
    <3>3. /\ response.calls \in Seq(Call) /\ Len(response.calls) \in Nat
          /\ seen \in Seq(Call) /\ Len(seen) \in Nat
      BY <1>0, TypedResponse, LenProperties DEF TypeOK
    <3>. DEFINE n == m - Len(seen)
    <3>4. n \in 1..Len(response.calls)
      BY <3>3
    <3>5. SubSeq(seen \o response.calls, 1, m) = seen \o SubSeq(response.calls, 1, n)
      <4>1. m \in Nat /\ m - Len(seen) \in 1..Len(response.calls)
        BY <3>3, <3>4
      <4>. QED  BY <3>3, <4>1, PrefixOfJoin, ZenonT(60)
    <3>6. Repeats(seen \o SubSeq(response.calls, 1, n), StallThreshold)
      BY <3>2, <3>5
    <3>. HIDE DEF n
    <3>7. seen = Issued
      BY IssuedIs DEF Tracked
    <3>8. \E k \in 1..Len(response.calls) :
              Repeats(Issued \o SubSeq(response.calls, 1, k), StallThreshold)
      BY <3>4, <3>6, <3>7
    <3>. QED  BY <2>1, <3>8 DEF StuckRunsStop, Issued
  <2>3. CASE stopReason' # "stall"
    BY <2>1, <2>3 DEF StuckRunsStop
  <2>. QED  BY <2>2, <2>3
<1>3. CASE LeaveLoop
  <2>1. iterations < HardCap
    BY <1>0, <1>3, Limits DEF LeaveLoop, HardCap, TypeOK, Room, Looping
  <2>2. stopReason' = "aborted" /\ pc' = "ending"
    BY <1>0, <1>3, <2>1, Limits DEF LeaveLoop, LeaveReason, HardCap, TypeOK
  <2>. QED  BY <2>2 DEF StuckRunsStop
<1>4. CASE LoopDetected
  BY <1>4 DEF LoopDetected, StuckRunsStop
<1>5. CASE ToolsReturn
  BY <1>5 DEF ToolsReturn, StuckRunsStop
<1>6. CASE StartRun \/ SessionMemoryLoaded
  <2>1. pc' \in {"starting", "setup", "top"}
    BY <1>6 DEF StartRun, SessionMemoryLoaded, Reset
  <2>. QED  BY <2>1 DEF StuckRunsStop
<1>7. CASE ModelReturns
  BY <1>7 DEF ModelReturns, StuckRunsStop
<1>8. CASE PromptThrows \/ \E error \in CallError : CallFails(error)
  BY <1>8 DEF PromptThrows, CallFails, StuckRunsStop
<1>9. CASE \/ SymbolGraphReady \/ Iterate \/ Compacted \/ CallModel \/ CallRetried
           \/ BackoffEnds \/ EndRun \/ Curated
  <2>1. pc' \notin {"tools", "ending"}
    BY <1>9 DEF SymbolGraphReady, Iterate, Compacted, CallModel, CallRetried, BackoffEnds,
                EndRun, Curated
  <2>. QED  BY <2>1 DEF StuckRunsStop
<1>10. CASE Environment \/ UNCHANGED vars
  <2>1. UNCHANGED <<pc, stopReason, transcript, response>>
    BY <1>10 DEF Environment, Abort, RequestCompaction, CallerAborts, vars, turnVars
  <2>. QED  BY <1>0, <2>1, StuckKept
<1>. QED  BY <1>1, <1>2, <1>3, <1>4, <1>5, <1>6, <1>7, <1>8, <1>9, <1>10 DEF Next, Progress

\* No batch is executed when the run's own calls end in a stall or a cycle,
\* and no run is stopped for one by the calls of an earlier run.
THEOREM StuckRunsAreStopped == Spec => []StuckRunsStop
<1>1. Init => Tracked /\ StuckRunsStop
  <2>. SUFFICES ASSUME Init PROVE Tracked /\ StuckRunsStop
    OBVIOUS
  <2>1. seen = <<>> /\ transcript = <<>> /\ pc = "idle"
    BY DEF Init
  <2>2. CallsOf(<<>>) = <<>>
    <3>1. DOMAIN <<>> = {}
      OBVIOUS
    <3>. QED  BY <3>1 DEF CallsOf
  <2>3. FlattenSeq(<<>>) = <<>>
    BY DEF FlattenSeq
  <2>. QED  BY <2>1, <2>2, <2>3 DEF Tracked, StuckRunsStop
<1>2. (IInv /\ Tracked /\ StuckRunsStop) /\ [Next]_vars => (IInv /\ Tracked /\ StuckRunsStop)'
  BY NextIInv, TrackedStep, StuckStep
<1>. QED  BY InitIInv, <1>1, <1>2, PTL DEF Spec
=============================================================================
