---------------------------- MODULE LoopDetector ----------------------------
(***************************************************************************)
(* LoopDetector of packages/agent-core/src/loop-detector.ts: a counter of  *)
(* identical consecutive calls, a bounded window searched for cycles, and  *)
(* a counter of identical consecutive outputs.  Its only caller, the agent *)
(* loop, stops at the first detection; the next run resets it.             *)
(***************************************************************************)
EXTENDS CallHistory

CONSTANTS
    Item,               \* hashes of tool calls and of contents
    ToolCallThreshold,  \* TOOL_CALL_LOOP_THRESHOLD
    ContentThreshold,   \* CONTENT_LOOP_THRESHOLD
    CycleThreshold,     \* repetitions that make a cycle
    MaxCycleLength,
    MaxLoopCalls, MaxLoopTexts  \* bounds of the model: records between two resets

ASSUME LoopConfigAssumption ==
    {ToolCallThreshold, ContentThreshold, CycleThreshold, MaxCycleLength} \subseteq Nat \ {0}

VARIABLES
    toolCalls,    \* lastToolCallHash, consecutiveToolCallCount
    contents,     \* lastContentHash, consecutiveContentCount
    cycleWindow,
    detection,    \* what the last record returned
    callHistory,  \* every call recorded since the reset
    textHistory   \* every content recorded since the reset

LoopVars == <<toolCalls, contents, cycleWindow, detection, callHistory, textHistory>>

NoStreak == [last |-> "null", count |-> 0]

LoopInit ==
    /\ toolCalls = NoStreak
    /\ contents = NoStreak
    /\ cycleWindow = <<>>
    /\ detection = "none"
    /\ callHistory = <<>>
    /\ textHistory = <<>>

Counted(streak, x) ==
    [last |-> x, count |-> IF x = streak.last THEN streak.count + 1 ELSE 1]

\* Mutated form of Pushed: a window one entry short.
PushedShort(window, x) == Newest(Append(window, x), MaxCycleLength * CycleThreshold - 1)

\* cycleWindow.push, then shift when it is too long.
Pushed(window, x) == Newest(Append(window, x), MaxCycleLength * CycleThreshold)

\* detectCycle: the newest entries are CycleThreshold copies of a pattern
\* whose elements are not all the same.
DetectCycle(window) ==
    \E cycleLen \in 2..MaxCycleLength :
        LET needed  == cycleLen * CycleThreshold
            recent  == Newest(window, needed)
            pattern == SubSeq(recent, 1, cycleLen)
        IN  /\ Len(window) >= needed
            /\ \E i \in DOMAIN pattern : pattern[i] # pattern[1]
            /\ \A rep \in 1..(CycleThreshold - 1), i \in 1..cycleLen :
                   recent[rep * cycleLen + i] = pattern[i]

\* A consecutive loop returns before the call reaches the window.
RecordToolCall(call) ==
    /\ detection = "none"
    /\ Len(callHistory) < MaxLoopCalls
    /\ toolCalls' = Counted(toolCalls, call)
    /\ IF toolCalls'.count >= ToolCallThreshold
       THEN detection' = "tool_call" /\ UNCHANGED cycleWindow
       ELSE /\ cycleWindow' = Pushed(cycleWindow, call)
            /\ detection' = IF DetectCycle(cycleWindow') THEN "tool_call_cycle" ELSE "none"
    /\ callHistory' = Append(callHistory, call)
    /\ UNCHANGED <<contents, textHistory>>

RecordContent(content) ==
    /\ detection = "none"
    /\ Len(textHistory) < MaxLoopTexts
    /\ contents' = Counted(contents, content)
    /\ detection' = IF contents'.count >= ContentThreshold THEN "content" ELSE "none"
    /\ textHistory' = Append(textHistory, content)
    /\ UNCHANGED <<toolCalls, cycleWindow, callHistory>>

LoopReset ==
    /\ toolCalls' = NoStreak
    /\ contents' = NoStreak
    /\ cycleWindow' = <<>>
    /\ detection' = "none"
    /\ callHistory' = <<>>
    /\ textHistory' = <<>>

LoopNext == LoopReset \/ \E x \in Item : RecordToolCall(x) \/ RecordContent(x)

LoopSpec == LoopInit /\ [][LoopNext]_LoopVars

-----------------------------------------------------------------------------

\* Every variable stays within its range; the window is bounded.
LoopTypeOK ==
    /\ {toolCalls, contents} \subseteq [last : Item \cup {"null"}, count : Nat]
    /\ cycleWindow \in Seq(Item)
    /\ Len(cycleWindow) <= MaxCycleLength * CycleThreshold
    /\ detection \in {"none", "tool_call", "tool_call_cycle", "content"}
    /\ callHistory \in Seq(Item)
    /\ textHistory \in Seq(Item)

\* The bounded window and the counters decide what the whole history since
\* the reset says: a cycle is reported exactly when the calls end in one of
\* the documented shapes (A B A B ..., A B C A B C ...), no sooner and no
\* later, and never for the plain repetition the counter reports.
LoopExact ==
    /\ detection = "tool_call" <=> Repeats(callHistory, ToolCallThreshold)
    /\ detection = "tool_call_cycle" <=>
           /\ ~ Repeats(callHistory, ToolCallThreshold)
           /\ Cycles(callHistory, MaxCycleLength, CycleThreshold)
    /\ detection = "content" <=> Repeats(textHistory, ContentThreshold)
=============================================================================
