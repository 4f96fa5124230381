---------------------------- MODULE MCSafeguards ----------------------------
(***************************************************************************)
(* What decides whether something may go on, and what it goes on with: the *)
(* detectors and guards between the model and its tools, what compaction   *)
(* leaves of the conversation, the locks, files and stores that processes  *)
(* share, the shells that outlive a call and the breakers of the model     *)
(* router.  The parts share no state, so a behaviour exercises one of      *)
(* them: three signatures and histories longer than the window for the     *)
(* stall detector; cycles of two and three calls and histories that        *)
(* overflow the cycle window for the loop detector; one tool called with   *)
(* three different arguments and a second tool for the guardrails; two     *)
(* runs of four turns for the compaction; two calls and a plugin's hook of *)
(* the priority of a safety hook for the dispatch; three processes that    *)
(* append three lines for the audit log; two shells and two overlapping    *)
(* calls of kill_shell; two processes that run ticks for an entry at two   *)
(* minutes of the hour and a one-shot; two processes that change the cron  *)
(* store; two workspaces of one base name for the checkpoints; two calls   *)
(* of the model router along a cascade of the cloud and one local model.   *)
(***************************************************************************)
EXTENDS StallDetector, LoopDetector, Guardrails, ToolDispatch, AuditLog,
        BackgroundShell, CronTick, CronStore, LlmRouter, Compaction, Checkpoints

VARIABLE part    \* the one this behaviour exercises

MCSignature == {"read", "grep", "raw"}
MCItem == {"a", "b", "c"}
MCCall == {"edit1", "edit2", "edit3", "bash1"}
MCTool == {"edit", "bash"}
MCToolOf == [c \in MCCall |-> IF c = "bash1" THEN "bash" ELSE "edit"]
MCPriority == [h \in {"outside", "plugin"} |-> 30]
MCJobs == <<[enabled |-> TRUE, oneShot |-> FALSE, minutes |-> {0, 2}, period |-> 60],
            [enabled |-> TRUE, oneShot |-> TRUE, minutes |-> {}, period |-> 1440]>>

\* Two processes at work in different directories of one name.
MCRootOf == [m \in {"m1", "m2"} |-> IF m = "m1" THEN "home" ELSE "copy"]
MCProjectOf == [w \in {"home", "copy"} |-> "app"]

\* A prompt for every way through the gate and the cascade: an ordinary one,
\* a sensitive one, one that a local model handles, and one that is too long
\* for any deployment.
MCRank == [d \in {"cloud", "orchestrator"} |-> IF d = "cloud" THEN 1 ELSE 2]
MCProfiles ==
    {[primary |-> "cloud", sensitive |-> FALSE, fits |-> {"cloud", "orchestrator"}],
     [primary |-> "cloud", sensitive |-> TRUE, fits |-> {"cloud", "orchestrator"}],
     [primary |-> "orchestrator", sensitive |-> FALSE, fits |-> {"cloud", "orchestrator"}],
     [primary |-> "cloud", sensitive |-> FALSE, fits |-> {}]}

Init ==
    /\ part \in {"stall", "loop", "guardrails", "dispatch", "audit", "shells", "tick", "store", "router",
                "compaction", "checkpoints"}
    /\ StallInit
    /\ LoopInit
    /\ GuardInit
    /\ DispatchInit
    /\ AuditInit
    /\ ShellInit
    /\ TickInit
    /\ StoreInit
    /\ RouterInit
    /\ CompactInit
    /\ CheckpointInit

detectorVars == <<StallVars, LoopVars, GuardVars>>
modelVars == <<RouterVars, CompactVars>>
toolVars == <<DispatchVars, AuditVars, ShellVars>>
sharedVars == <<TickVars, StoreVars, CheckpointVars>>

OnlyStall == part = "stall" /\ UNCHANGED <<part, LoopVars, GuardVars, toolVars, sharedVars, modelVars>>
OnlyLoop == part = "loop" /\ UNCHANGED <<part, StallVars, GuardVars, toolVars, sharedVars, modelVars>>
OnlyGuard == part = "guardrails" /\ UNCHANGED <<part, StallVars, LoopVars, toolVars, sharedVars, modelVars>>
OnlyDispatch == part = "dispatch" /\ UNCHANGED <<part, detectorVars, AuditVars, ShellVars, sharedVars, modelVars>>
OnlyAudit == part = "audit" /\ UNCHANGED <<part, detectorVars, DispatchVars, ShellVars, sharedVars, modelVars>>
OnlyShells == part = "shells" /\ UNCHANGED <<part, detectorVars, DispatchVars, AuditVars, sharedVars, modelVars>>
OnlyTick == part = "tick" /\ UNCHANGED <<part, detectorVars, toolVars, StoreVars, CheckpointVars, modelVars>>
OnlyStore == part = "store" /\ UNCHANGED <<part, detectorVars, toolVars, TickVars, CheckpointVars, modelVars>>
OnlyRouter == part = "router" /\ UNCHANGED <<part, detectorVars, toolVars, sharedVars, CompactVars>>
OnlyCompaction == part = "compaction" /\ UNCHANGED <<part, detectorVars, toolVars, sharedVars, RouterVars>>
OnlyCheckpoints == part = "checkpoints" /\ UNCHANGED <<part, detectorVars, toolVars, TickVars, StoreVars, modelVars>>

Next ==
    \/ OnlyStall /\ StallNext
    \/ OnlyLoop /\ LoopNext
    \/ OnlyGuard /\ GuardNext
    \/ OnlyDispatch /\ DispatchNext
    \/ OnlyAudit /\ AuditNext
    \/ OnlyShells /\ ShellNext
    \/ OnlyTick /\ TickNext
    \/ OnlyStore /\ StoreNext
    \/ OnlyRouter /\ RouterNext
    \/ OnlyCompaction /\ CompactNext
    \/ OnlyCheckpoints /\ CheckpointNext

Spec == Init /\ [][Next]_<<part, detectorVars, toolVars, sharedVars, modelVars>>

-----------------------------------------------------------------------------

\* Every part stays within its types: the windows are bounded, the counters
\* natural, the results waiting for check() those of known calls, the hooks
\* in order of priority, the lock files and descriptors those of processes
\* that created and opened them, the refs of the checkpoint store those of
\* commits it holds.
TypeOK ==
    /\ StallTypeOK /\ LoopTypeOK /\ GuardTypeOK
    /\ DispatchTypeOK /\ AuditTypeOK /\ ShellTypeOK
    /\ TickTypeOK /\ StoreTypeOK /\ RouterTypeOK
    /\ CompactTypeOK /\ CheckpointTypeOK

\* Repetition is found when it is there and only then: the loop detector's
\* counters and bounded cycle window report what the whole history says, and
\* the guardrails block a call exactly on the failures since its last success.
RepetitionDecided == LoopExact /\ BlocksJustified
=============================================================================
