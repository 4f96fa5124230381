-------------------------- MODULE TerminalSession --------------------------
(***************************************************************************)
(* The terminal interface of apps/cli around the agent: the hook           *)
(* useAgentLoop (submit, abort), the adapter CliAgentLoop (one AgentLoop   *)
(* per run, requestApproval), the permission flow of AppStateStore and the *)
(* parts of App, PromptInput and the dialogs that drive them.              *)
(*                                                                         *)
(* An agent run is reduced to what the session sees of it: it calls tools  *)
(* (ToolBatch says which overlap, and that none is started after an        *)
(* abort), waits for those it started, and returns (AgentLoop).  A run     *)
(* ends together with the coroutine of submit that consumes it: runStream  *)
(* yields its events only when run() has returned.                         *)
(*                                                                         *)
(* The process is single-threaded: an action is what happens between two   *)
(* awaits, key presses or timer callbacks.                                 *)
(***************************************************************************)
EXTENDS FiniteSets, Naturals

CONSTANTS
    Call,          \* calls that need approval, told apart by allowlist entry
    Parallel,      \* calls that may overlap in a batch
    WithDiff,      \* calls whose request carries a diffEntry
    MaxPrompts     \* bound of the model: prompts typed, queued ones included

ASSUME SessionAssumption ==
    /\ Parallel \subseteq Call
    /\ WithDiff \subseteq Call
    /\ MaxPrompts \in Nat

Run == 1..MaxPrompts

None == <<>>

Request == Run \X Call

VARIABLES
    prompts,       \* prompts typed so far
    submit,        \* each run's coroutine of submit()
    runRef,        \* runRef.current, 0 for null
    latest,        \* CliAgentLoop.loop: the run it belongs to, 0 before any
    aborted,       \* runs in progress whose AgentLoop was aborted
    call,          \* each run's approval-guarded tool calls
    resolver,      \* approvalResolver: the call it answers
    pending,       \* pendingPermission
    allowlist,     \* sessionAllowlist
    reviewing,     \* showDiffReview
    isBusy,
    rendered,      \* isBusy as the key handlers and effects of the last render see it
    effectDue,     \* the queue effect of that render has not run yet
    processing,    \* the run that processQueueRef waits for, 0 for none
    queued         \* queuedMessages

vars == <<prompts, submit, runRef, latest, aborted, call, resolver, pending, allowlist,
          reviewing, isBusy, rendered, effectDue, processing, queued>>

hookVars == <<submit, runRef, latest, aborted, isBusy>>
approvalVars == <<call, resolver, pending, allowlist, reviewing>>
queueVars == <<rendered, effectDue, processing, queued>>

Consuming == {k \in Run : submit[k] = "consuming"}

InFlight(k) == {c \in Call : call[k][c] \in {"entered", "asking", "running"}}

\* The dialog that would show the request is not mounted: PermissionDialog
\* only when no diff is under review, DiffReviewDialog only with a diff.
Hidden == pending # None /\ reviewing /\ pending[2] \notin WithDiff

-----------------------------------------------------------------------------

Init ==
    /\ prompts = 0
    /\ submit = [k \in Run |-> "none"]
    /\ runRef = 0
    /\ latest = 0
    /\ aborted = {}
    /\ call = [k \in Run |-> [c \in Call |-> "unused"]]
    /\ resolver = None
    /\ pending = None
    /\ allowlist = {}
    /\ reviewing = FALSE
    /\ isBusy = FALSE
    /\ rendered = FALSE
    /\ effectDue = FALSE
    /\ processing = 0
    /\ queued = 0

\* CliAgentLoop.abort on the latest AgentLoop, which has a controller only
\* while its run is in progress.  pendingApprovals is always empty: approvals
\* wait in AppStateStore.
LoopAborted == aborted \cup ({latest} \cap Consuming)

\* submit() from setIsBusy to the first await of the new AgentLoop's run.
Start(k) ==
    /\ submit' = [submit EXCEPT ![k] = "consuming"]
    /\ runRef' = k
    /\ latest' = k
    /\ isBusy' = TRUE

\* submit(): an active run is interrupted, and the coroutine yields to it
\* once; otherwise the new run starts at once.
Submit(k) ==
    IF runRef # 0
    THEN /\ aborted' = LoopAborted
         /\ runRef' = 0
         /\ submit' = [submit EXCEPT ![k] = "yielding"]
         /\ UNCHANGED <<latest, isBusy>>
    ELSE Start(k) /\ UNCHANGED aborted

\* The continuation after setImmediate.
Resume(k) ==
    /\ submit[k] = "yielding"
    /\ Start(k)
    /\ UNCHANGED <<prompts, aborted, approvalVars, queueVars>>

\* The prompt accepts keys unless a dialog is open.
PromptActive == pending = None /\ prompts + queued < MaxPrompts

\* Enter with a prompt: while busy PromptInput calls onAbort, then onSubmit.
Enter ==
    /\ PromptActive
    /\ prompts' = prompts + 1
    /\ IF rendered
       THEN aborted' = LoopAborted /\ Start(prompts')
       ELSE Submit(prompts')
    /\ UNCHANGED <<approvalVars, queueVars>>

\* Tab with a prompt while busy: queued prompts get their number when they
\* are submitted.
QueueMessage ==
    /\ PromptActive
    /\ rendered
    /\ queued' = queued + 1
    /\ UNCHANGED <<prompts, hookVars, approvalVars, rendered, effectDue, processing>>

-----------------------------------------------------------------------------

\* A handler is entered: the batch executor has looked at the signal.
StartTool(k, c) ==
    /\ submit[k] = "consuming"
    /\ k \notin aborted
    /\ call[k][c] = "unused"
    /\ InFlight(k) = {} \/ InFlight(k) \cup {c} \subseteq Parallel
    /\ call' = [call EXCEPT ![k][c] = "entered"]
    /\ UNCHANGED <<prompts, hookVars, resolver, pending, allowlist, reviewing, queueVars>>

\* Mutated forms of Denied and Installed: the prior waiter is forgotten; it
\* keeps the resolver.
DeniedNobody == call
InstalledFirst(request) == IF resolver = None THEN request ELSE resolver

\* waitForApproval denies a prior request that nobody answered, and the new
\* one takes its place.
Denied == IF resolver = None THEN call
          ELSE [call EXCEPT ![resolver[1]][resolver[2]] = "done"]
Installed(request) == request

\* requestApproval, reached some awaits after the handler was entered: an
\* allowlisted call runs at once, another one waits for the dialog.
RequestApproval(k, c) ==
    /\ call[k][c] = "entered"
    /\ IF c \in allowlist
       THEN /\ call' = [call EXCEPT ![k][c] = "running"]
            /\ UNCHANGED <<resolver, pending>>
       ELSE /\ call' = [Denied EXCEPT ![k][c] = "asking"]
            /\ resolver' = Installed(<<k, c>>)
            /\ pending' = <<k, c>>
    /\ UNCHANGED <<prompts, hookVars, allowlist, reviewing, queueVars>>

HandlerEnds(k, c) ==
    /\ call[k][c] = "running"
    /\ call' = [call EXCEPT ![k][c] = "done"]
    /\ UNCHANGED <<prompts, hookVars, resolver, pending, allowlist, reviewing, queueVars>>

Current(k) == runRef = k

\* Mutated form of StillBusy: whoever finishes ends the busy phase.
NoLongerBusy(k) == FALSE

StillBusy(k) == isBusy /\ ~ Current(k)

\* The agent's run returns, the loop over its events ends, and the finally
\* block clears the session if the run is still the current one.  Its calls are
\* forgotten.
RunReturns(k) ==
    /\ submit[k] = "consuming"
    /\ InFlight(k) = {}
    /\ submit' = [submit EXCEPT ![k] = "finished"]
    /\ aborted' = aborted \ {k}
    /\ runRef' = IF Current(k) THEN 0 ELSE runRef
    /\ isBusy' = StillBusy(k)
    /\ processing' = IF processing = k THEN 0 ELSE processing
    /\ call' = [call EXCEPT ![k] = [c \in Call |-> "unused"]]
    /\ UNCHANGED <<prompts, latest, resolver, pending, allowlist, reviewing,
                   rendered, effectDue, queued>>

-----------------------------------------------------------------------------

\* resolveApproval.
ResolveApproval(approve, always) ==
    /\ allowlist' = IF approve /\ always THEN allowlist \cup {pending[2]} ELSE allowlist
    /\ call' = [call EXCEPT ![resolver[1]][resolver[2]] =
                   IF approve THEN "running" ELSE "done"]
    /\ resolver' = None
    /\ pending' = None

\* A key of the mounted dialog; DiffReviewDialog is closed by its answer.
Decide ==
    /\ pending # None
    /\ ~ Hidden
    /\ \E approve, always \in BOOLEAN : ResolveApproval(approve, always)
    /\ reviewing' = FALSE
    /\ UNCHANGED <<prompts, hookVars, queueVars>>

\* v: PermissionDialog gives way to DiffReviewDialog.
ViewDiff ==
    /\ pending # None
    /\ pending[2] \in WithDiff
    /\ reviewing' = TRUE
    /\ UNCHANGED <<prompts, hookVars, call, resolver, pending, allowlist, queueVars>>

\* abort() of the hook, by Ctrl+C or Esc.
AbortRun ==
    /\ aborted' = LoopAborted
    /\ runRef' = 0
    /\ isBusy' = FALSE
    /\ UNCHANGED <<submit, latest>>

CtrlC ==
    /\ rendered
    /\ AbortRun
    /\ UNCHANGED <<prompts, approvalVars, queueVars>>

\* Esc reaches the mounted dialog, which denies, and the application, which
\* aborts when busy.
Escape ==
    /\ IF rendered THEN AbortRun ELSE UNCHANGED hookVars
    /\ IF pending # None /\ ~ Hidden
       THEN ResolveApproval(FALSE, FALSE) /\ reviewing' = FALSE
       ELSE UNCHANGED approvalVars
    /\ UNCHANGED <<prompts, queueVars>>

\* Mutated form of Render: the effect only follows the start of a busy phase.
RenderBusy ==
    /\ rendered # isBusy
    /\ ~ effectDue
    /\ rendered' = isBusy
    /\ effectDue' = isBusy
    /\ UNCHANGED <<prompts, hookVars, approvalVars, processing, queued>>

\* React renders a changed isBusy; the effects of an earlier render come first.
Render ==
    /\ rendered # isBusy
    /\ ~ effectDue
    /\ rendered' = isBusy
    /\ effectDue' = TRUE
    /\ UNCHANGED <<prompts, hookVars, approvalVars, processing, queued>>

\* Mutated form of Dequeues: the queue is not looked at.
DequeuesAlways == ~ rendered /\ processing = 0 /\ prompts < MaxPrompts

Dequeues == ~ rendered /\ processing = 0 /\ queued > 0

\* The queue effect, which runs some time after its render.
QueueEffect ==
    /\ effectDue
    /\ effectDue' = FALSE
    /\ IF Dequeues
       THEN /\ prompts' = prompts + 1
            /\ queued' = queued - 1
            /\ processing' = prompts'
            /\ Submit(prompts')
       ELSE UNCHANGED <<prompts, hookVars, queued, processing>>
    /\ UNCHANGED <<approvalVars, rendered>>

Progress(k) ==
    \/ \E c \in Call : RequestApproval(k, c) \/ HandlerEnds(k, c)
    \/ RunReturns(k)

User == Enter \/ QueueMessage \/ Decide \/ ViewDiff \/ CtrlC \/ Escape

Next ==
    \/ User
    \/ Render \/ QueueEffect
    \/ \E k \in Run : Resume(k) \/ Progress(k) \/ \E c \in Call : StartTool(k, c)

\* setImmediate runs what it was given; tools and agents end (RunReturns of
\* AgentLoop, Returns of ToolBatch); the user answers a dialog that is on the
\* screen; React renders what has changed and runs the effects.
Spec ==
    /\ Init /\ [][Next]_vars
    /\ \A k \in Run : WF_vars(Resume(k)) /\ WF_vars(Progress(k))
    /\ WF_vars(Decide)
    /\ WF_vars(Render) /\ WF_vars(QueueEffect)

-----------------------------------------------------------------------------

\* Every variable stays within its range.
TypeOK ==
    /\ prompts \in 0..MaxPrompts /\ queued \in 0..MaxPrompts
    /\ submit \in [Run -> {"none", "yielding", "consuming", "finished"}]
    /\ runRef \in Run \cup {0} /\ latest \in Run \cup {0} /\ processing \in Run \cup {0}
    /\ aborted \subseteq Run
    /\ call \in [Run -> [Call -> {"unused", "entered", "asking", "running", "done"}]]
    /\ resolver \in Request \cup {None} /\ pending \in Request \cup {None}
    /\ allowlist \subseteq Call
    /\ reviewing \in BOOLEAN /\ isBusy \in BOOLEAN
    /\ rendered \in BOOLEAN /\ effectDue \in BOOLEAN

\* The dialog on the screen and the promise behind it belong to the one call
\* that waits: whatever order the calls of one batch, of an aborted run and
\* of its successor ask in, an answer goes to the request it was given for
\* ("Previously ... the previous Promise would then NEVER resolve").
DialogMatchesWaiter ==
    /\ pending = resolver
    /\ \A k \in Run, c \in Call : call[k][c] = "asking" <=> pending = <<k, c>>
    /\ reviewing => pending # None

\* The busy flag, which decides what Esc, Enter and the queue do, describes
\* the current run: a current run is busy, is the one abort() reaches and is
\* in progress; without one the session is busy only while a prompt is about
\* to start.  An aborted run that ends late does not disturb its successor.
BusyMatchesRun ==
    /\ runRef # 0 => isBusy /\ latest = runRef /\ submit[runRef] = "consuming"
    /\ isBusy => runRef # 0 \/ \E k \in Run : submit[k] = "yielding"

\* Every prompt's run starts and ends, with whatever it interrupted and
\* however its approvals were answered or superseded, as long as the dialog
\* that asks for them is on the screen.
RunsFinish ==
    \A k \in Run :
        submit[k] \in {"yielding", "consuming"} ~> submit[k] = "finished" \/ Hidden

\* A prompt that waits behind a run the interface shows as busy does not wait
\* for ever, unless a run taken from the queue was aborted and has not yet
\* returned, whose end no render follows.
QueueDrains ==
    \A n \in 1..MaxPrompts :
        isBusy /\ rendered /\ queued = n ~>
            \/ queued # n \/ Hidden
            \/ processing # 0 /\ runRef # processing

\* Nothing of what the user entered is left behind.
SessionAdvances == RunsFinish /\ QueueDrains

-----------------------------------------------------------------------------

\* CliAgentLoop.abort: "Also rejects any pending approval requests so the
\* PermissionDialog is dismissed": aborting the run that asks takes its
\* request off the screen.
AbortDismisses ==
    [][pending # None /\ pending[1] \in aborted' \ aborted => pending' # pending]_vars

\* bridgeRequestApproval: the gate "doesn't resolve until the user picks ...
\* (or the run is aborted ...)".  Only an answer of the user clears the
\* resolver.
GateBlocks ==
    [][\A k \in Run, c \in Call :
          call[k][c] = "asking" /\ call'[k][c] # "asking" =>
              resolver' = None \/ k \in aborted']_vars
=============================================================================
