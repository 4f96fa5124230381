----------------------------- MODULE Compaction -----------------------------
(***************************************************************************)
(* What compaction makes of a conversation (advanced-compression.ts, as    *)
(* loop.ts uses it): the first messages are kept as the head, the newest   *)
(* ones that fit the tail's budget as the tail, and what lies between them *)
(* is replaced by one message with a summary.  A tool result is only       *)
(* accepted by the providers behind the assistant message that asked for   *)
(* it, so the tail is found group by group.                                *)
(*                                                                         *)
(* Sizes are left out: every place at which the walk from the end can stop *)
(* is one where some budget stops it.  The text of a summary is the set of *)
(* turns whose messages the summarizer was shown.                          *)
(***************************************************************************)
EXTENDS Naturals, SequencesExt

CONSTANTS
    ProtectFirst,  \* protectFirstN
    EvictAge,      \* evictTurnAge: user messages behind an evicted one
    MaxRuns,       \* bound: runs of one AgentLoop object
    MaxTurns,      \* bound: turns of the model in a run
    MaxCalls       \* bound: tool calls of a turn

ASSUME CompactionAssumption ==
    /\ {ProtectFirst, EvictAge, MaxRuns, MaxTurns, MaxCalls} \subseteq Nat \ {0}

VARIABLES
    conversation,     \* state.messages
    loopRun,          \* the number of the current run, 0 before the first
    modelTurn,        \* the turns the model has taken in it
    mayCompact,       \* the loop is before this iteration's model call
    snapshotOf,       \* the run whose prompt the frozen snapshot holds, 0: none
    previousSummary   \* the gist of the last summary; {} is null here

CompactVars == <<conversation, loopRun, modelTurn, mayCompact, snapshotOf, previousSummary>>

Prompt == [role |-> "user", turn |-> 0, call |-> 0, calls |-> 0, gist |-> {}, task |-> 0]
Assistant(t, n) == [Prompt EXCEPT !.role = "assistant", !.turn = t, !.calls = n]
ToolResult(t, k) == [Prompt EXCEPT !.role = "tool", !.turn = t, !.call = k]
Summary(gist) == [Prompt EXCEPT !.gist = gist, !.task = snapshotOf]

Message ==
    [role : {"user", "assistant", "tool"}, turn : 0..MaxTurns, call : 0..MaxCalls,
     calls : 0..MaxCalls, gist : SUBSET (1..MaxTurns), task : 0..MaxRuns]

\* Every message is one that the loop or the compressor makes, and the
\* snapshot is of a run that has begun.
CompactTypeOK ==
    /\ conversation \in Seq(Message)
    /\ loopRun \in 0..MaxRuns
    /\ modelTurn \in 0..MaxTurns
    /\ mayCompact \in BOOLEAN
    /\ snapshotOf \in 0..loopRun
    /\ previousSummary \subseteq 1..MaxTurns

CompactInit ==
    /\ conversation = << >>
    /\ loopRun = 0
    /\ modelTurn = 0
    /\ mayCompact = FALSE
    /\ snapshotOf = 0
    /\ previousSummary = {}

-----------------------------------------------------------------------------

\* Mutated form of OwnerOf: only a result directly behind the message that
\* asked for it is kept with it.
OwnerPaired(s, i) ==
    IF s[i].role = "tool" /\ i > 1 /\ s[i - 1].role = "assistant" THEN i - 1 ELSE 0

\* The assistant message that the result at i belongs to: the nearest one
\* with calls, with nothing but results in between; 0 when there is none.
OwnerOf(s, i) ==
    LET owners == {j \in 1..(i - 1) :
                      /\ s[j].role = "assistant" /\ s[j].calls > 0
                      /\ \A between \in (j + 1)..(i - 1) : s[between].role = "tool"}
    IN  IF s[i].role = "tool" /\ owners # {} THEN CHOOSE j \in owners : TRUE ELSE 0

\* phase2Boundaries: where the tail of s may start, walking back from its end
\* by whole groups.
TailStarts(s) ==
    LET before[i \in 0..Len(s)] ==
            IF i = 0 THEN {1}
            ELSE LET owner == OwnerOf(s, i)
                 IN  {i + 1} \union before[IF owner > 0 THEN owner - 1 ELSE i - 1]
    IN  before[Len(s)]

\* phaseEvict: nothing before the EvictAge-th user message from the end stays.
Evict(s) ==
    LET cutoffs == {i \in 1..Len(s) :
                       /\ s[i].role = "user"
                       /\ Cardinality({j \in i..Len(s) : s[j].role = "user"}) = EvictAge}
    IN  IF cutoffs = {} THEN s ELSE SubSeq(s, CHOOSE i \in cutoffs : TRUE, Len(s))

\* The turns that the messages of s tell of.
Gist(s) == UNION {IF s[i].role = "assistant" THEN {s[i].turn} ELSE s[i].gist : i \in 1..Len(s)}

\* phase3Summarize: the model is shown the previous summary and as much of
\* the middle, from its beginning, as the budget of the summary allows; when
\* its call fails, the first user message and the last two of the assistant
\* are quoted.
SummariesOf(middle) ==
    IF middle = << >> THEN {{}}
    ELSE LET quoted == {i \in 1..Len(middle) :
                           \/ /\ middle[i].role = "assistant"
                              /\ Cardinality({j \in i..Len(middle) : middle[j].role = "assistant"}) <= 2
                           \/ /\ middle[i].role = "user"
                              /\ \A j \in 1..(i - 1) : middle[j].role # "user"}
         IN  {previousSummary \union Gist(SubSeq(middle, 1, shown)) : shown \in 0..Len(middle)}
                 \union {UNION {Gist(<<middle[i]>>) : i \in quoted}}

\* phaseFreeze and phase4Assemble: the snapshot alone makes a message, too.
Assemble(head, gist, middle, tail) ==
    IF middle = << >> /\ snapshotOf = 0 THEN head \o tail
    ELSE head \o <<Summary(gist)>> \o tail

-----------------------------------------------------------------------------

\* run(): the conversation of a run starts with its prompt alone; the
\* compressor is reset, but the snapshot is only taken when there is none.
StartRun ==
    /\ loopRun < MaxRuns
    /\ loopRun' = loopRun + 1
    /\ modelTurn' = 0
    /\ conversation' = <<Prompt>>
    /\ mayCompact' = TRUE
    /\ previousSummary' = {}
    /\ snapshotOf' = IF snapshotOf = 0 THEN loopRun' ELSE snapshotOf

\* compress(), at the start of an iteration whose budget or a request asks
\* for it; the loop takes the result when it saves tokens, and the compressor
\* remembers the summary in any case.
Compact ==
    /\ mayCompact
    /\ mayCompact' = FALSE
    /\ LET headLength == IF Len(conversation) < ProtectFirst THEN Len(conversation) ELSE ProtectFirst
           head == SubSeq(conversation, 1, headLength)
           rest == SubSeq(conversation, headLength + 1, Len(conversation))
       IN  \E start \in TailStarts(rest) :
             LET middle == Evict(SubSeq(rest, 1, start - 1))
                 tail == SubSeq(rest, start, Len(rest))
             IN  \E gist \in SummariesOf(middle), saves \in BOOLEAN :
                   /\ previousSummary' = gist
                   /\ conversation' = IF saves THEN Assemble(head, gist, middle, tail) ELSE conversation
    /\ UNCHANGED <<loopRun, modelTurn, snapshotOf>>

\* The model answers with n calls; the loop appends its message and, once the
\* batch has returned, one result for every call.
TakeTurn(n) ==
    /\ loopRun > 0 /\ modelTurn < MaxTurns
    /\ modelTurn' = modelTurn + 1
    /\ conversation' = conversation \o <<Assistant(modelTurn', n)>>
                                    \o [k \in 1..n |-> ToolResult(modelTurn', k)]
    /\ mayCompact' = TRUE
    /\ UNCHANGED <<loopRun, snapshotOf, previousSummary>>

CompactNext ==
    \/ StartRun
    \/ Compact
    \/ \E n \in 1..MaxCalls : TakeTurn(n)

CompactSpec == CompactInit /\ [][CompactNext]_CompactVars

-----------------------------------------------------------------------------

\* The head ends between the assistant message at i and its last result.
CutByHead(i) == i <= ProtectFirst /\ i + conversation[i].calls > ProtectFirst

\* The results of the message at i follow it, one for each call.
Answered(i) ==
    \A k \in 1..conversation[i].calls :
        /\ i + k <= Len(conversation)
        /\ conversation[i + k] = ToolResult(conversation[i].turn, k)

GroupAt(i) == conversation[i].role = "assistant"

\* However often a conversation is compacted, wherever the budget cuts it and
\* whether or not the summarizer answers: the run's prompt stays first, the
\* turns stay in order, and the results of every turn directly follow the
\* message that asked for them and no other message has results, except for
\* the turn that the protected head cuts in two.
GroupsWhole ==
    /\ loopRun > 0 => conversation[1] = Prompt
    /\ \A i, j \in 1..Len(conversation) :
           i < j /\ GroupAt(i) /\ GroupAt(j) => conversation[i].turn < conversation[j].turn
    /\ \A i \in 1..Len(conversation) : GroupAt(i) => Answered(i) \/ CutByHead(i)
    /\ \A i \in 1..Len(conversation) : conversation[i].role = "tool" =>
           \E j \in 1..(i - 1) :
               /\ GroupAt(j) /\ conversation[j].turn = conversation[i].turn
               /\ i = j + conversation[i].call \/ CutByHead(j)

\* advanced-compression.ts:552-553: "find the assistant turn that owns the
\* tool result(s) and keep the entire group (assistant + all its tool
\* results) together".
GroupsTogether == \A i \in 1..Len(conversation) : GroupAt(i) => Answered(i)

\* Observed, and part of no run: loop.ts:1040 says that the snapshot is
\* captured once per run, but it is captured once per AgentLoop object.
SnapshotOfRun == snapshotOf = loopRun

\* Observed, and part of no run: the summary tells of every turn that it
\* replaces (advanced-compression.ts:17-18).
TurnsCaptured ==
    \A t \in 1..modelTurn : \E i \in 1..Len(conversation) :
        conversation[i].turn = t \/ t \in conversation[i].gist
=============================================================================
