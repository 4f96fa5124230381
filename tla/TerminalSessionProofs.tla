----------------------- MODULE TerminalSessionProofs -----------------------
(***************************************************************************)
(* Proofs about TerminalSession, for every set of calls and any number of  *)
(* prompts.                                                                *)
(***************************************************************************)
EXTENDS TerminalSession, TLAPS

\* Queued prompts keep their number free.
QueueFits == prompts + queued <= MaxPrompts

IInv == TypeOK /\ QueueFits /\ DialogMatchesWaiter /\ BusyMatchesRun

-----------------------------------------------------------------------------

LEMMA PendingParts ==
    ASSUME TypeOK, pending # None
    PROVE  /\ pending = <<pending[1], pending[2]>>
           /\ pending[1] \in Run /\ pending[2] \in Call
BY DEF TypeOK, Request

-----------------------------------------------------------------------------

\* The hook: what submit, abort and the end of a run do to its variables.

HookInv ==
    /\ submit \in [Run -> {"none", "yielding", "consuming", "finished"}]
    /\ runRef \in Run \cup {0} /\ latest \in Run \cup {0}
    /\ aborted \subseteq Run
    /\ isBusy \in BOOLEAN
    /\ BusyMatchesRun

LEMMA StartHook ==
    ASSUME HookInv, NEW k \in Run, Start(k),
           aborted' = aborted \/ aborted' = LoopAborted
    PROVE  HookInv'
<1>1. k # 0
  BY DEF Run
<1>. QED  BY <1>1, SMTT(30) DEF HookInv, Start, LoopAborted, Consuming, BusyMatchesRun

LEMMA SubmitHook ==
    ASSUME HookInv, NEW k \in Run, Submit(k)
    PROVE  HookInv'
<1>1. CASE runRef = 0
  BY <1>1, StartHook DEF Submit
<1>2. CASE runRef # 0
  <2>. /\ aborted' = LoopAborted /\ runRef' = 0
       /\ submit' = [submit EXCEPT ![k] = "yielding"]
       /\ UNCHANGED <<latest, isBusy>>
    BY <1>2 DEF Submit
  <2>1. submit'[k] = "yielding"
    BY DEF HookInv
  <2>. QED  BY <2>1 DEF HookInv, LoopAborted, Consuming, BusyMatchesRun
<1>. QED  BY <1>1, <1>2

LEMMA AbortHook ==
    ASSUME HookInv, AbortRun
    PROVE  HookInv'
BY DEF HookInv, AbortRun, LoopAborted, Consuming, BusyMatchesRun

LEMMA ReturnHook ==
    ASSUME HookInv, NEW k \in Run, RunReturns(k)
    PROVE  HookInv'
<1>. DEFINE after == [submit EXCEPT ![k] = "finished"]
<1>1. /\ submit[k] = "consuming" /\ submit' = after
      /\ aborted' = aborted \ {k} /\ latest' = latest
      /\ runRef' = IF runRef = k THEN 0 ELSE runRef
      /\ isBusy' = (isBusy /\ runRef # k)
  BY DEF RunReturns, Current, StillBusy
<1>2. \A j \in Run : j # k => after[j] = submit[j]
  BY DEF HookInv
<1>3. after \in [Run -> {"none", "yielding", "consuming", "finished"}]
  BY DEF HookInv
<1>4. BusyMatchesRun'
  <2>1. CASE runRef = k
    <3>1. runRef' = 0
      BY <1>1, <2>1
    <3>2. ~ isBusy'
      BY <1>1, <2>1, Zenon
    <3>. QED  BY <3>1, <3>2 DEF BusyMatchesRun
  <2>2. CASE runRef # k
    <3>1. runRef' = runRef /\ isBusy' = isBusy
      BY <1>1, <2>2 DEF HookInv
    <3>2. runRef # 0 => after[runRef] = "consuming"
      BY <1>2, <2>2 DEF HookInv, BusyMatchesRun
    <3>3. ASSUME NEW j \in Run, submit[j] = "yielding"
          PROVE  after[j] = "yielding"
      BY <1>1, <1>2, <3>3
    <3>4. BusyMatchesRun
      BY DEF HookInv
    <3>5. isBusy' => runRef' # 0 \/ \E j \in Run : submit'[j] = "yielding"
      BY <1>1, <3>1, <3>3, <3>4, Zenon DEF BusyMatchesRun
    <3>6. runRef' # 0 => isBusy' /\ latest' = runRef' /\ submit'[runRef'] = "consuming"
      BY <1>1, <3>1, <3>2, <3>4 DEF BusyMatchesRun
    <3>. QED  BY <3>5, <3>6, Zenon DEF BusyMatchesRun
  <2>. QED  BY <2>1, <2>2
<1>5. runRef' \in Run \cup {0} /\ isBusy' \in BOOLEAN
  BY <1>1 DEF HookInv
<1>. QED  BY <1>1, <1>3, <1>4, <1>5 DEF HookInv

-----------------------------------------------------------------------------

\* The permission flow.

ApprovalInv ==
    /\ call \in [Run -> [Call -> {"unused", "entered", "asking", "running", "done"}]]
    /\ resolver \in Request \cup {None} /\ pending \in Request \cup {None}
    /\ allowlist \subseteq Call
    /\ reviewing \in BOOLEAN
    /\ DialogMatchesWaiter

Status == {"unused", "entered", "asking", "running", "done"}

LEMMA OneCallChanges ==
    ASSUME call \in [Run -> [Call -> Status]],
           NEW k \in Run, NEW c \in Call, NEW status \in Status
    PROVE  LET after == [call EXCEPT ![k][c] = status]
           IN  /\ after \in [Run -> [Call -> Status]]
               /\ after[k][c] = status
               /\ \A j \in Run, d \in Call : <<j, d>> # <<k, c>> => after[j][d] = call[j][d]
OBVIOUS

LEMMA ResolveApprovalKeeps ==
    ASSUME ApprovalInv, NEW approve \in BOOLEAN, NEW always \in BOOLEAN,
           pending # None, ResolveApproval(approve, always), reviewing' = FALSE
    PROVE  ApprovalInv'
<1>1. PICK k \in Run, c \in Call : pending = <<k, c>> /\ resolver = <<k, c>>
  BY DEF ApprovalInv, Request, DialogMatchesWaiter
<1>. DEFINE status == IF approve THEN "running" ELSE "done"
            after == [call EXCEPT ![k][c] = status]
<1>2. /\ call' = after
      /\ resolver' = None /\ pending' = None
      /\ allowlist' \subseteq Call
  BY <1>1 DEF ResolveApproval, ApprovalInv
<1>3. /\ after \in [Run -> [Call -> Status]]
      /\ after[k][c] = status
      /\ \A j \in Run, d \in Call : <<j, d>> # <<k, c>> => after[j][d] = call[j][d]
  BY OneCallChanges DEF ApprovalInv, Status
<1>4. ASSUME NEW j \in Run, NEW d \in Call
      PROVE  after[j][d] # "asking"
  BY <1>1, <1>3 DEF ApprovalInv, DialogMatchesWaiter
<1>5. ASSUME NEW j, NEW d
      PROVE  None # <<j, d>>
  BY DEF None
<1>. HIDE DEF after
<1>6. DialogMatchesWaiter'
  BY <1>2, <1>4, <1>5 DEF DialogMatchesWaiter
<1>7. reviewing' \in BOOLEAN /\ resolver' \in Request \cup {None}
      /\ pending' \in Request \cup {None}
  BY <1>2
<1>. QED  BY <1>2, <1>3, <1>6, <1>7 DEF ApprovalInv, Status

LEMMA QuietCall ==
    ASSUME ApprovalInv, NEW k \in Run, NEW c \in Call, NEW status \in Status,
           call[k][c] # "asking", status # "asking",
           call' = [call EXCEPT ![k][c] = status],
           UNCHANGED <<resolver, pending, allowlist, reviewing>>
    PROVE  ApprovalInv'
<1>1. /\ call' \in [Run -> [Call -> Status]]
      /\ call'[k][c] = status
      /\ \A j \in Run, d \in Call : <<j, d>> # <<k, c>> => call'[j][d] = call[j][d]
  BY OneCallChanges DEF ApprovalInv, Status
<1>2. ASSUME NEW j \in Run, NEW d \in Call
      PROVE  call'[j][d] = "asking" <=> call[j][d] = "asking"
  <2>1. CASE <<j, d>> = <<k, c>>
    BY <1>1, <2>1
  <2>2. CASE <<j, d>> # <<k, c>>
    BY <1>1, <2>2
  <2>. QED  BY <2>1, <2>2
<1>. QED  BY <1>1, <1>2 DEF ApprovalInv, DialogMatchesWaiter, Status

LEMMA RequestApprovalKeeps ==
    ASSUME ApprovalInv, NEW k \in Run, NEW c \in Call, RequestApproval(k, c)
    PROVE  ApprovalInv'
<1>1. CASE c \in allowlist
  <2>1. /\ call[k][c] = "entered"
        /\ call' = [call EXCEPT ![k][c] = "running"]
        /\ UNCHANGED <<resolver, pending, allowlist, reviewing>>
    BY <1>1 DEF RequestApproval
  <2>. QED  BY <2>1, QuietCall DEF Status
<1>2. CASE c \notin allowlist
  <2>1. /\ call[k][c] = "entered"
        /\ call' = [Denied EXCEPT ![k][c] = "asking"]
        /\ resolver' = <<k, c>> /\ pending' = <<k, c>>
        /\ UNCHANGED <<allowlist, reviewing>>
    BY <1>2 DEF RequestApproval, Installed
  <2>2. /\ Denied \in [Run -> [Call -> Status]]
        /\ \A j \in Run, d \in Call : Denied[j][d] # "asking"
    <3>1. CASE resolver = None
      <4>1. \A j \in Run, d \in Call : <<j, d>> # None
        BY DEF None
      <4>. QED  BY <3>1, <4>1 DEF Denied, ApprovalInv, DialogMatchesWaiter, Status
    <3>2. CASE resolver # None
      <4>1. PICK r \in Run, q \in Call : resolver = <<r, q>>
        BY <3>2 DEF ApprovalInv, Request
      <4>2. Denied = [call EXCEPT ![r][q] = "done"]
        BY <3>2, <4>1 DEF Denied
      <4>3. /\ Denied \in [Run -> [Call -> Status]]
            /\ Denied[r][q] = "done"
            /\ \A j \in Run, d \in Call : <<j, d>> # <<r, q>> => Denied[j][d] = call[j][d]
        BY <4>2, OneCallChanges DEF ApprovalInv, Status
      <4>. QED  BY <4>1, <4>3 DEF ApprovalInv, DialogMatchesWaiter
    <3>. QED  BY <3>1, <3>2
  <2>3. /\ call' \in [Run -> [Call -> Status]]
        /\ \A j \in Run, d \in Call : call'[j][d] = "asking" <=> <<j, d>> = <<k, c>>
    BY <2>1, <2>2 DEF Status
  <2>4. <<k, c>> \in Request /\ <<k, c>> # None
    BY DEF Request, None
  <2>. QED  BY <2>1, <2>3, <2>4 DEF ApprovalInv, DialogMatchesWaiter, Status
<1>. QED  BY <1>1, <1>2

\* The calls of a run that returns were not asking.
LEMMA ReturnApproval ==
    ASSUME ApprovalInv, NEW k \in Run, RunReturns(k)
    PROVE  ApprovalInv'
<1>1. /\ InFlight(k) = {}
      /\ call' = [call EXCEPT ![k] = [c \in Call |-> "unused"]]
      /\ UNCHANGED <<resolver, pending, allowlist, reviewing>>
  BY DEF RunReturns
<1>2. /\ call' \in [Run -> [Call -> Status]]
      /\ \A d \in Call : call'[k][d] = "unused"
      /\ \A j \in Run : j # k => call'[j] = call[j]
  BY <1>1 DEF ApprovalInv, Status
<1>3. \A d \in Call : call[k][d] # "asking"
  BY <1>1 DEF InFlight
<1>4. \A j \in Run, d \in Call : call'[j][d] = "asking" <=> call[j][d] = "asking"
  BY <1>2, <1>3
<1>. QED  BY <1>1, <1>2, <1>4 DEF ApprovalInv, DialogMatchesWaiter, Status

-----------------------------------------------------------------------------

\* The prompts and their queue.

QueueInv ==
    /\ prompts \in 0..MaxPrompts /\ queued \in 0..MaxPrompts
    /\ processing \in Run \cup {0}
    /\ rendered \in BOOLEAN /\ effectDue \in BOOLEAN
    /\ QueueFits

LEMMA Parts == IInv <=> HookInv /\ ApprovalInv /\ QueueInv
BY Zenon DEF IInv, HookInv, ApprovalInv, QueueInv, TypeOK

LEMMA PartsNext == IInv' <=> HookInv' /\ ApprovalInv' /\ QueueInv'
BY Zenon DEF IInv, HookInv, ApprovalInv, QueueInv, TypeOK

LEMMA Unchanged ==
    /\ HookInv /\ UNCHANGED hookVars => HookInv'
    /\ ApprovalInv /\ UNCHANGED approvalVars => ApprovalInv'
    /\ QueueInv /\ UNCHANGED <<prompts, queueVars>> => QueueInv'
BY DEF HookInv, ApprovalInv, QueueInv, hookVars, approvalVars, queueVars, BusyMatchesRun,
       DialogMatchesWaiter, QueueFits

LEMMA NextPrompt ==
    ASSUME QueueInv, prompts + queued < MaxPrompts \/ queued > 0
    PROVE  prompts + 1 \in Run /\ prompts + 1 \in 0..MaxPrompts
BY SessionAssumption DEF QueueInv, QueueFits, Run

LEMMA InitIInv == Init => IInv
<1>. SUFFICES ASSUME Init PROVE IInv
  OBVIOUS
<1>1. TypeOK
  <2>1. /\ prompts \in 0..MaxPrompts /\ queued \in 0..MaxPrompts
        /\ runRef \in Run \cup {0} /\ latest \in Run \cup {0} /\ processing \in Run \cup {0}
        /\ aborted \subseteq Run /\ allowlist \subseteq Call
    BY SessionAssumption DEF Init
  <2>2. /\ submit \in [Run -> {"none", "yielding", "consuming", "finished"}]
        /\ call \in [Run -> [Call -> {"unused", "entered", "asking", "running", "done"}]]
    BY DEF Init
  <2>3. resolver \in Request \cup {None} /\ pending \in Request \cup {None}
    BY DEF Init
  <2>4. /\ reviewing \in BOOLEAN /\ isBusy \in BOOLEAN
        /\ rendered \in BOOLEAN /\ effectDue \in BOOLEAN
    BY Zenon DEF Init
  <2>. QED  BY <2>1, <2>2, <2>3, <2>4, Zenon DEF TypeOK
<1>2. QueueFits
  BY SessionAssumption DEF Init, QueueFits
<1>3. DialogMatchesWaiter
  BY DEF Init, DialogMatchesWaiter, None
<1>4. BusyMatchesRun
  BY DEF Init, BusyMatchesRun
<1>. QED  BY <1>1, <1>2, <1>3, <1>4 DEF IInv

LEMMA UserKeeps == IInv /\ User => IInv'
<1>. SUFFICES ASSUME HookInv, ApprovalInv, QueueInv, User
              PROVE  HookInv' /\ ApprovalInv' /\ QueueInv'
  BY Parts, PartsNext
<1>1. CASE Enter
  <2>1. prompts + 1 \in Run /\ prompts + 1 \in 0..MaxPrompts /\ prompts' = prompts + 1
    BY <1>1, NextPrompt DEF Enter, PromptActive
  <2>2. QueueInv'
    <3>1. UNCHANGED <<rendered, effectDue, processing, queued>>
          /\ prompts + queued < MaxPrompts
      BY <1>1 DEF Enter, PromptActive, queueVars
    <3>2. QueueFits'
      BY <2>1, <3>1, SessionAssumption DEF QueueInv, QueueFits
    <3>. QED  BY <2>1, <3>1, <3>2 DEF QueueInv
  <2>3. HookInv'
    BY <1>1, <2>1, StartHook, SubmitHook DEF Enter
  <2>. QED  BY <1>1, <2>2, <2>3, Unchanged DEF Enter
<1>2. CASE QueueMessage
  <2>1. QueueInv'
    BY <1>2, SessionAssumption DEF QueueMessage, PromptActive, QueueInv, QueueFits
  <2>. QED  BY <1>2, <2>1, Unchanged DEF QueueMessage
<1>3. CASE Decide
  <2>1. ApprovalInv'
    BY <1>3, ResolveApprovalKeeps DEF Decide
  <2>. QED  BY <1>3, <2>1, Unchanged DEF Decide
<1>4. CASE ViewDiff
  <2>1. ApprovalInv'
    BY <1>4 DEF ViewDiff, ApprovalInv, DialogMatchesWaiter
  <2>. QED  BY <1>4, <2>1, Unchanged DEF ViewDiff
<1>5. CASE CtrlC
  BY <1>5, AbortHook, Unchanged DEF CtrlC
<1>6. CASE Escape
  <2>1. HookInv'
    BY <1>6, AbortHook, Unchanged DEF Escape
  <2>2. ApprovalInv'
    <3>1. FALSE \in BOOLEAN
      OBVIOUS
    <3>. QED  BY <1>6, <3>1, ResolveApprovalKeeps, Unchanged DEF Escape
  <2>. QED  BY <1>6, <2>1, <2>2, Unchanged DEF Escape
<1>. QED  BY <1>1, <1>2, <1>3, <1>4, <1>5, <1>6 DEF User

LEMMA SystemKeeps == IInv /\ (Render \/ QueueEffect) => IInv'
<1>. SUFFICES ASSUME HookInv, ApprovalInv, QueueInv, Render \/ QueueEffect
              PROVE  HookInv' /\ ApprovalInv' /\ QueueInv'
  BY Parts, PartsNext
<1>1. CASE Render
  <2>1. QueueInv'
    BY <1>1 DEF Render, QueueInv, QueueFits, HookInv
  <2>. QED  BY <1>1, <2>1, Unchanged DEF Render
<1>2. CASE QueueEffect
  <2>0. ApprovalInv'
    BY <1>2, Unchanged DEF QueueEffect
  <2>1. CASE Dequeues
    <3>1. prompts + 1 \in Run /\ prompts + 1 \in 0..MaxPrompts
      BY <2>1, NextPrompt DEF Dequeues
    <3>2. /\ prompts' = prompts + 1 /\ queued' = queued - 1 /\ processing' = prompts + 1
          /\ effectDue' = FALSE /\ rendered' = rendered /\ queued > 0
          /\ Submit(prompts + 1)
      BY <1>2, <2>1 DEF QueueEffect, Dequeues
    <3>3. HookInv'
      BY <3>1, <3>2, SubmitHook
    <3>4. QueueInv'
      <4>1. prompts' \in 0..MaxPrompts /\ queued' \in 0..MaxPrompts
            /\ processing' \in Run \cup {0} /\ QueueFits'
        BY <3>1, <3>2, SessionAssumption DEF QueueInv, QueueFits
      <4>2. rendered' \in BOOLEAN /\ effectDue' \in BOOLEAN
        BY <3>2, Zenon DEF QueueInv
      <4>. QED  BY <4>1, <4>2, Zenon DEF QueueInv
    <3>. QED  BY <2>0, <3>3, <3>4
  <2>2. CASE ~ Dequeues
    <3>1. UNCHANGED <<prompts, hookVars, queued, processing, rendered>> /\ effectDue' = FALSE
      BY <1>2, <2>2 DEF QueueEffect
    <3>2. QueueInv'
      <4>1. rendered' \in BOOLEAN /\ effectDue' \in BOOLEAN
        BY <3>1, Zenon DEF QueueInv
      <4>. QED  BY <3>1, <4>1 DEF QueueInv, QueueFits
    <3>. QED  BY <2>0, <3>1, <3>2, Unchanged
  <2>. QED  BY <2>1, <2>2
<1>. QED  BY <1>1, <1>2

LEMMA RunKeeps ==
    ASSUME NEW k \in Run
    PROVE  IInv /\ (Resume(k) \/ Progress(k) \/ \E c \in Call : StartTool(k, c)) => IInv'
<1>. SUFFICES ASSUME HookInv, ApprovalInv, QueueInv,
                     Resume(k) \/ Progress(k) \/ \E c \in Call : StartTool(k, c)
              PROVE  HookInv' /\ ApprovalInv' /\ QueueInv'
  BY Parts, PartsNext
<1>1. CASE Resume(k)
  BY <1>1, StartHook, Unchanged DEF Resume
<1>2. CASE RunReturns(k)
  <2>1. QueueInv'
    <3>1. /\ UNCHANGED <<prompts, rendered, effectDue, queued>>
          /\ processing' = IF processing = k THEN 0 ELSE processing
      BY <1>2 DEF RunReturns
    <3>. QED  BY <3>1 DEF QueueInv, QueueFits
  <2>. QED  BY <1>2, <2>1, ReturnHook, ReturnApproval
<1>3. ASSUME NEW c \in Call, StartTool(k, c)
      PROVE  HookInv' /\ ApprovalInv' /\ QueueInv'
  BY <1>3, QuietCall, Unchanged DEF StartTool, Status
<1>4. ASSUME NEW c \in Call, RequestApproval(k, c)
      PROVE  HookInv' /\ ApprovalInv' /\ QueueInv'
  <2>1. UNCHANGED <<prompts, hookVars, queueVars>>
    BY <1>4 DEF RequestApproval
  <2>. QED  BY <1>4, <2>1, RequestApprovalKeeps, Unchanged
<1>5. ASSUME NEW c \in Call, HandlerEnds(k, c)
      PROVE  HookInv' /\ ApprovalInv' /\ QueueInv'
  BY <1>5, QuietCall, Unchanged DEF HandlerEnds, Status
<1>. QED  BY <1>1, <1>2, <1>3, <1>4, <1>5 DEF Progress

LEMMA NextIInv == IInv /\ [Next]_vars => IInv'
<1>1. IInv /\ UNCHANGED vars => IInv'
  BY Parts, PartsNext, Unchanged DEF vars, hookVars, approvalVars, queueVars
<1>. QED  BY <1>1, UserKeeps, SystemKeeps, RunKeeps DEF Next

\* Every variable of the session stays within its range.
THEOREM TypeCorrect == Spec => []TypeOK
<1>1. IInv => TypeOK
  BY DEF IInv
<1>. QED  BY InitIInv, NextIInv, <1>1, PTL DEF Spec

\* However many calls and runs ask for approval, exactly the call on the
\* dialog waits, and the answer goes to it.
THEOREM OneWaiter == Spec => []DialogMatchesWaiter
<1>1. IInv => DialogMatchesWaiter
  BY DEF IInv
<1>. QED  BY InitIInv, NextIInv, <1>1, PTL DEF Spec

\* For any number of prompts, submitted, queued or interrupting one another,
\* the busy flag describes the current run.
THEOREM BusyIsCurrent == Spec => []BusyMatchesRun
<1>1. IInv => BusyMatchesRun
  BY DEF IInv
<1>. QED  BY InitIInv, NextIInv, <1>1, PTL DEF Spec
=============================================================================
