---------------------------- MODULE ToolDispatch ----------------------------
(***************************************************************************)
(* ToolRegistry.dispatch and the PreToolUse side of HookEngine             *)
(* (packages/tool-system/src): the calls of a batch go through the same    *)
(* registry at the same time, while hooks are registered and removed.      *)
(* Arguments are members of a small set, some of which fit the schema of   *)
(* the tool; a hook may allow, ask, deny or crash, and rewrite them.  What *)
(* a tool returns, and the feedback and truncation of it, are left out.    *)
(***************************************************************************)
EXTENDS Naturals, FiniteSets, SequencesExt

CONSTANTS
    ToolCall,             \* calls that are dispatched
    Hook,                 \* PreToolUse hooks that match the tool
    Priority,             \* their priorities, lower runs first
    Permanent,            \* those that are not disableable
    Args,                 \* argument objects
    ValidArgs,            \* those that fit the input schema
    NotModified           \* what a hook returns that leaves them alone

ASSUME DispatchAssumption ==
    /\ IsFiniteSet(Hook) /\ Priority \in [Hook -> Nat]
    /\ Permanent \subseteq Hook
    /\ ValidArgs \subseteq Args
    /\ NotModified \notin Args

VARIABLES
    hooks,       \* HookEngine.hooks
    cached,      \* checkFnCache: "yes", "no", or "none" when missing or expired
    phase,       \* where the dispatch of a call is
    args,        \* its effective arguments
    pass,        \* 1, and 2 when the hooks run again on rewritten arguments
    todo,        \* hooks of this pass that have not answered
    asks,        \* finalDecision is 'ask'
    modified,    \* this pass has a modifiedInput
    allowedBy,   \* history: the hooks that allowed the present arguments
    rewritten    \* history: calls whose arguments the second pass changed

passVars == <<pass, todo, asks, modified>>
DispatchVars == <<hooks, cached, phase, args, passVars, allowedBy, rewritten>>

Sorted(s) == \A i, j \in DOMAIN s : i < j => Priority[s[i]] <= Priority[s[j]]

\* The engine starts with its permanent hooks, the built-in ones.
DispatchInit ==
    /\ hooks \in SetToSeqs(Permanent) /\ Sorted(hooks)
    /\ cached = "none"
    /\ phase = [c \in ToolCall |-> "queued"]
    /\ args = [c \in ToolCall |-> NotModified]
    /\ pass = [c \in ToolCall |-> 1]
    /\ todo = [c \in ToolCall |-> <<>>]
    /\ asks = [c \in ToolCall |-> FALSE]
    /\ modified = [c \in ToolCall |-> FALSE]
    /\ allowedBy = [c \in ToolCall |-> {}]
    /\ rewritten = {}

-----------------------------------------------------------------------------
(* The list of hooks. *)

\* register: before the first hook of the same or of a later priority.
RegisterHook(h) ==
    /\ h \notin ToSet(hooks)
    /\ \E lo \in 1..(Len(hooks) + 1) :
           /\ \A i \in DOMAIN hooks : i < lo <=> Priority[hooks[i]] < Priority[h]
           /\ hooks' = InsertAt(hooks, lo, h)
    /\ UNCHANGED <<cached, phase, args, passVars, allowedBy, rewritten>>

\* unregister refuses hooks that are not disableable.
UnregisterHook(h) ==
    /\ h \notin Permanent
    /\ \E idx \in DOMAIN hooks : hooks[idx] = h /\ hooks' = RemoveAt(hooks, idx)
    /\ UNCHANGED <<cached, phase, args, passVars, allowedBy, rewritten>>

-----------------------------------------------------------------------------
(* A dispatch. *)

MoveTo(c, p) == phase' = [phase EXCEPT ![c] = p]

\* An unknown tool, an argument string that did not parse, and a schema that
\* does not fit are refused on the spot; a tool without check_fn, or with a
\* fresh answer in the cache, goes on at once; otherwise check_fn is awaited.
BeginDispatch(c, a, gated) ==
    /\ phase[c] = "queued"
    /\ args' = [args EXCEPT ![c] = a]
    /\ MoveTo(c, IF gated /\ cached = "none" THEN "probing"
               ELSE IF (gated /\ cached = "no") \/ a \notin ValidArgs THEN "refused"
               ELSE "hooking")
    /\ todo' = [todo EXCEPT ![c] = hooks]
    /\ UNCHANGED <<hooks, cached, pass, asks, modified, allowedBy, rewritten>>

\* check_fn answers, or throws, and the answer is cached, also over that of a
\* probe which began later.
ProbeAnswers(c, answer) ==
    /\ phase[c] = "probing"
    /\ cached' = answer
    /\ MoveTo(c, IF answer = "yes" /\ args[c] \in ValidArgs THEN "hooking" ELSE "refused")
    /\ todo' = [todo EXCEPT ![c] = hooks]
    /\ UNCHANGED <<hooks, args, pass, asks, modified, allowedBy, rewritten>>

\* The 30 seconds of a cached answer are over.
CacheExpires ==
    /\ cached # "none"
    /\ cached' = "none"
    /\ UNCHANGED <<hooks, phase, args, passVars, allowedBy, rewritten>>

\* runPreToolUse awaits its next hook, which may hand on other arguments; a
\* hook that denies or crashes ends the pass and the dispatch.
HookAnswers(c, decision, input) ==
    LET changed == input \notin {NotModified, args[c]}
        allowed == IF decision = "allow" THEN {Head(todo[c])} ELSE {}
    IN
    /\ phase[c] = "hooking" /\ todo[c] # <<>>
    /\ args' = [args EXCEPT ![c] = IF input = NotModified THEN @ ELSE input]
    /\ modified' = [modified EXCEPT ![c] = @ \/ input # NotModified]
    /\ asks' = [asks EXCEPT ![c] = @ \/ decision = "ask"]
    /\ todo' = [todo EXCEPT ![c] = Tail(@)]
    /\ allowedBy' = [allowedBy EXCEPT ![c] = IF changed THEN {} ELSE @ \cup allowed]
    /\ rewritten' = rewritten \cup (IF pass[c] = 2 /\ changed THEN {c} ELSE {})
    /\ IF decision = "deny" THEN MoveTo(c, "refused") ELSE UNCHANGED phase
    /\ UNCHANGED <<hooks, cached, pass>>

\* Mutated form of PassEnds: rewritten arguments go to the tool at once.
PassEndsForGood(c) ==
    /\ phase[c] = "hooking" /\ todo[c] = <<>>
    /\ MoveTo(c, IF asks[c] THEN "refused" ELSE "running")
    /\ UNCHANGED <<hooks, cached, args, passVars, allowedBy, rewritten>>

\* The hooks of a pass have all answered.  Arguments that the first pass
\* rewrote are validated and go through the hooks again; what the second
\* pass made of them goes to the tool.
PassEnds(c) ==
    /\ phase[c] = "hooking" /\ todo[c] = <<>>
    /\ UNCHANGED <<hooks, cached, args, allowedBy, rewritten>>
    /\ \/ /\ asks[c] \/ (pass[c] = 1 /\ modified[c] /\ args[c] \notin ValidArgs)
          /\ MoveTo(c, "refused")
          /\ UNCHANGED passVars
       \/ /\ ~asks[c] /\ pass[c] = 1 /\ modified[c] /\ args[c] \in ValidArgs
          /\ pass' = [pass EXCEPT ![c] = 2]
          /\ todo' = [todo EXCEPT ![c] = hooks]
          /\ modified' = [modified EXCEPT ![c] = FALSE]
          /\ UNCHANGED <<phase, asks>>
       \/ /\ ~asks[c] /\ (pass[c] = 2 \/ ~modified[c])
          /\ MoveTo(c, "running")
          /\ UNCHANGED passVars

\* The handler returns or throws; either way the call has a result.
HandlerReturns(c) ==
    /\ phase[c] = "running"
    /\ MoveTo(c, "answered")
    /\ UNCHANGED <<hooks, cached, args, passVars, allowedBy, rewritten>>

DispatchNext ==
    \/ \E h \in Hook : RegisterHook(h) \/ UnregisterHook(h)
    \/ CacheExpires
    \/ \E c \in ToolCall :
           \/ \E a \in Args, gated \in BOOLEAN : BeginDispatch(c, a, gated)
           \/ \E answer \in {"yes", "no"} : ProbeAnswers(c, answer)
           \/ \E d \in {"allow", "ask", "deny"}, i \in Args \cup {NotModified} : HookAnswers(c, d, i)
           \/ PassEnds(c)
           \/ HandlerReturns(c)

DispatchSpec == DispatchInit /\ [][DispatchNext]_DispatchVars

-----------------------------------------------------------------------------

\* Ranges; the hooks stay in order of priority, the permanent ones in place.
DispatchTypeOK ==
    /\ hooks \in Seq(Hook) /\ IsInjective(hooks) /\ Sorted(hooks)
    /\ Permanent \subseteq ToSet(hooks)
    /\ cached \in {"yes", "no", "none"}
    /\ phase \in [ToolCall -> {"queued", "probing", "hooking", "running", "refused", "answered"}]
    /\ args \in [ToolCall -> Args \cup {NotModified}]
    /\ pass \in [ToolCall -> 1..2]
    /\ todo \in [ToolCall -> Seq(Hook)]
    /\ asks \in [ToolCall -> BOOLEAN]
    /\ modified \in [ToolCall -> BOOLEAN]
    /\ allowedBy \in [ToolCall -> SUBSET Hook]
    /\ rewritten \subseteq ToolCall

Vetted(c) == args[c] \in ValidArgs /\ Permanent \subseteq allowedBy[c]

\* However hooks come and go while a call is dispatched, its tool runs on
\* arguments that fit the schema and that every permanent hook has allowed
\* as they are; only a hook that changes them in the second pass as well
\* gets past this.
CallsVetted ==
    \A c \in ToolCall : phase[c] = "running" => Vetted(c) \/ c \in rewritten

\* What the comment on that case promises: "any input mutation by a hook must
\* be re-validated against the schema and re-checked against the safety
\* hooks".
AnyRewriteVetted == \A c \in ToolCall : phase[c] = "running" => Vetted(c)
=============================================================================
