----------------------------- MODULE Guardrails -----------------------------
(***************************************************************************)
(* ToolGuardrailController of packages/agent-core/src/tool-guardrails.ts   *)
(* as the agent loop drives it: every call of a model turn is peeked at,   *)
(* the calls that are not blocked run, and check() records each result in  *)
(* the order the model issued the calls.  A duplicate inside one turn is   *)
(* not run a second time; its result is a failure ('Not executed') or no   *)
(* result at all, depending on how the batch ran (see ToolBatch).  The     *)
(* loop passes no working-tree hash, so no-progress detection never runs.  *)
(***************************************************************************)
EXTENDS Naturals, FiniteSets, Sequences, SequencesExt

CONSTANTS
    Call,         \* (tool name, arguments hash) pairs: the exact keys
    Tool,
    ToolOf,       \* [Call -> Tool]
    ExactWarn, ExactBlock,    \* exactFailureWarnAfter, exactFailureBlockAfter
    ToolWarn, ToolHalt,       \* sameToolFailureWarnAfter, ...HaltAfter
    MaxTurn,      \* bound of the model: calls in one turn
    MaxFailures   \* bound of the model: failures of one tool in a row

ASSUME GuardrailAssumption ==
    /\ ToolOf \in [Call -> Tool]
    /\ {ExactWarn, ExactBlock, ToolWarn, ToolHalt} \subseteq Nat \ {0}
    /\ ExactWarn <= ExactBlock

VARIABLES
    exactFailureCounts,
    sameToolFailureCounts,
    pending,        \* results of this turn not yet recorded
    callFailures,   \* failures recorded for a call since it last succeeded
    toolFailures    \* failures recorded for a tool since it last succeeded

GuardVars == <<exactFailureCounts, sameToolFailureCounts, pending, callFailures, toolFailures>>

Peek(call) ==
    LET exact == exactFailureCounts[call]
        same  == sameToolFailureCounts[ToolOf[call]]
    IN  CASE exact >= ExactBlock -> "halt"
          [] exact >= ExactWarn /\ exact < ExactBlock -> "warn"
          [] exact < ExactWarn /\ same >= ToolHalt -> "halt"
          [] exact < ExactWarn /\ same >= ToolWarn /\ same < ToolHalt -> "warn"
          [] OTHER -> "allow"

Blocked(call) == Peek(call) = "halt"

GuardInit ==
    /\ exactFailureCounts = [c \in Call |-> 0]
    /\ sameToolFailureCounts = [t \in Tool |-> 0]
    /\ pending = <<>>
    /\ callFailures = [c \in Call |-> 0]
    /\ toolFailures = [t \in Tool |-> 0]

\* The pre-execution pass over the calls of a response, and the results the
\* executor hands back.  A call that is blocked leaves none, so a response is
\* told by its other calls; of those, a batch run concurrently reports the
\* duplicates, and a sequential one omits them as well.
Turn(calls) ==
    LET Repeated(i) == \E j \in 1..(i - 1) : calls[j] = calls[i]
    IN  /\ pending = <<>>
        /\ \A i \in DOMAIN calls : ~ Blocked(calls[i])
        /\ Cardinality(ToSet(calls)) > 1 \/ \A i \in DOMAIN calls : ~ Repeated(i)
        /\ pending' = [i \in DOMAIN calls |-> [call |-> calls[i], duplicate |-> Repeated(i)]]
        /\ UNCHANGED <<exactFailureCounts, sameToolFailureCounts, callFailures, toolFailures>>

\* Mutated form of Succeed: the counters of the call are kept.
SucceedKeepingCounts ==
    /\ pending # <<>>
    /\ ~ Head(pending).duplicate
    /\ LET c == Head(pending).call
       IN  /\ callFailures' = [callFailures EXCEPT ![c] = 0]
           /\ toolFailures' = [toolFailures EXCEPT ![ToolOf[c]] = 0]
    /\ pending' = Tail(pending)
    /\ UNCHANGED <<exactFailureCounts, sameToolFailureCounts>>

\* check(toolCall, true)
Succeed ==
    /\ pending # <<>>
    /\ ~ Head(pending).duplicate
    /\ LET c == Head(pending).call
           t == ToolOf[c]
       IN  /\ exactFailureCounts' = [exactFailureCounts EXCEPT ![c] = 0]
           /\ sameToolFailureCounts' = [sameToolFailureCounts EXCEPT ![t] = 0]
           /\ callFailures' = [callFailures EXCEPT ![c] = 0]
           /\ toolFailures' = [toolFailures EXCEPT ![t] = 0]
    /\ pending' = Tail(pending)

\* check(toolCall, false): an exact-failure warning or halt returns before
\* the same-tool counter is touched.
Fail ==
    /\ pending # <<>>
    /\ LET c == Head(pending).call
           t == ToolOf[c]
       IN  /\ toolFailures[t] < MaxFailures
           /\ exactFailureCounts' = [exactFailureCounts EXCEPT ![c] = @ + 1]
           /\ sameToolFailureCounts' =
                  IF exactFailureCounts'[c] >= ExactWarn THEN sameToolFailureCounts
                  ELSE [sameToolFailureCounts EXCEPT ![t] = @ + 1]
           /\ callFailures' = [callFailures EXCEPT ![c] = @ + 1]
           /\ toolFailures' = [toolFailures EXCEPT ![t] = @ + 1]
    /\ pending' = Tail(pending)

\* A new run starts.
GuardReset ==
    /\ exactFailureCounts' = [c \in Call |-> 0]
    /\ sameToolFailureCounts' = [t \in Tool |-> 0]
    /\ pending' = <<>>
    /\ callFailures' = [c \in Call |-> 0]
    /\ toolFailures' = [t \in Tool |-> 0]

Turns == UNION {[1..n -> Call] : n \in 1..MaxTurn}

GuardNext == Succeed \/ Fail \/ GuardReset \/ \E calls \in Turns : Turn(calls)

GuardSpec == GuardInit /\ [][GuardNext]_GuardVars

-----------------------------------------------------------------------------

\* Counters are naturals, results wait for known calls.
GuardTypeOK ==
    /\ {exactFailureCounts, callFailures} \subseteq [Call -> Nat]
    /\ {sameToolFailureCounts, toolFailures} \subseteq [Tool -> Nat]
    /\ pending \in Seq([call : Call, duplicate : BOOLEAN])

\* A call is blocked exactly on evidence: only when it failed ExactBlock times
\* with the same arguments, or its tool failed ToolHalt times, since the last
\* success; and whenever the former is so, the loop is cut.
BlocksJustified ==
    \A c \in Call :
        /\ Blocked(c) => callFailures[c] >= ExactBlock \/ toolFailures[ToolOf[c]] >= ToolHalt
        /\ callFailures[c] >= ExactBlock => Blocked(c)
=============================================================================
