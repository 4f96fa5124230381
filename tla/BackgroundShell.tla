-------------------------- MODULE BackgroundShell --------------------------
(***************************************************************************)
(* The background shells of packages/tool-system/src/core/                 *)
(* background-shell.ts: their registry, their exits, and kill_shell, whose *)
(* approval is awaited between the lookup of the shell and the signal.     *)
(* Ids are counted up and never used again, so a shell is its id.  The     *)
(* process is external: it may end by itself, ignore SIGTERM, or never     *)
(* have been spawned; SIGKILL ends it.                                     *)
(***************************************************************************)
EXTENDS Naturals, FiniteSets

CONSTANTS
    Kill,                 \* calls of kill_shell
    MaxShells             \* bound of the model: shells started

ASSUME ShellAssumption == MaxShells \in Nat

Shell == 1..MaxShells

VARIABLES
    started,     \* shellCounter
    registered,  \* the keys of `shells`
    process,     \* per shell: its process, as the operating system has it
    exited,      \* shells with `exited` set
    deletion,    \* shells whose entry is deleted 60 s after the exit
    escalation,  \* shells that get SIGKILL 3 s after SIGTERM unless they exited
    asked        \* the shell whose kill a call asks approval for; 0: none

ShellVars == <<started, registered, process, exited, deletion, escalation, asked>>

ShellInit ==
    /\ started = 0
    /\ registered = {}
    /\ process = [s \in Shell |-> "none"]
    /\ exited = {}
    /\ deletion = {}
    /\ escalation = {}
    /\ asked = [k \in Kill |-> 0]

Ends(s) == process' = [process EXCEPT ![s] = "ended"]

-----------------------------------------------------------------------------

\* startBackgroundShell; a command that cannot be spawned is noticed later.
StartShell ==
    /\ started < MaxShells
    /\ started' = started + 1
    /\ registered' = registered \cup {started'}
    /\ \E outcome \in {"running", "failed"} : process' = [process EXCEPT ![started'] = outcome]
    /\ UNCHANGED <<exited, deletion, escalation, asked>>

\* The process ends, by itself or because of a signal.
ProcessEnds(s) ==
    /\ process[s] \in {"running", "terminated"}
    /\ Ends(s)
    /\ UNCHANGED <<started, registered, exited, deletion, escalation, asked>>

\* The 'exit' event, some time after.
ExitReported(s) ==
    /\ process[s] = "ended" /\ s \notin exited
    /\ exited' = exited \cup {s}
    /\ deletion' = deletion \cup {s}
    /\ UNCHANGED <<started, registered, process, escalation, asked>>

\* The 'error' event of a spawn that failed: no timer deletes the entry.
SpawnErrorReported(s) ==
    /\ process[s] = "failed" /\ s \notin exited
    /\ exited' = exited \cup {s}
    /\ UNCHANGED <<started, registered, process, deletion, escalation, asked>>

DeletionDue(s) ==
    /\ s \in deletion
    /\ deletion' = deletion \ {s}
    /\ registered' = registered \ {s}
    /\ UNCHANGED <<started, process, exited, escalation, asked>>

-----------------------------------------------------------------------------

\* Mutated form of Terminate: no second signal.
TerminateOnce(s) ==
    /\ registered' = registered \ {s}
    /\ UNCHANGED escalation
    /\ process' = IF s \notin exited /\ process[s] = "running"
                  THEN [process EXCEPT ![s] = "terminated"] ELSE process

\* What the second half of kill_shell does to a shell looked up before: an
\* entry that exited meanwhile is removed, another is sent SIGTERM.
Terminate(s) ==
    /\ registered' = registered \ {s}
    /\ IF s \in exited THEN UNCHANGED <<process, escalation>>
       ELSE /\ escalation' = escalation \cup {s}
            /\ process' = IF process[s] = "running"
                          THEN [process EXCEPT ![s] = "terminated"] ELSE process

\* kill_shell up to the approval, or through in god and auto mode; an unknown
\* id is an error.
KillShell(k, s) ==
    /\ asked[k] = 0
    /\ s \in registered
    /\ \/ Terminate(s) /\ UNCHANGED asked
       \/ asked' = [asked EXCEPT ![k] = s] /\ UNCHANGED <<registered, process, escalation>>
    /\ UNCHANGED <<started, exited, deletion>>

KillApproved(k) ==
    /\ asked[k] # 0
    /\ Terminate(asked[k])
    /\ asked' = [asked EXCEPT ![k] = 0]
    /\ UNCHANGED <<started, exited, deletion>>

KillDenied(k) ==
    /\ asked[k] # 0
    /\ asked' = [asked EXCEPT ![k] = 0]
    /\ UNCHANGED <<started, registered, process, exited, deletion, escalation>>

\* Three seconds after SIGTERM.
EscalationDue(s) ==
    /\ s \in escalation
    /\ escalation' = escalation \ {s}
    /\ IF s \notin exited /\ process[s] \in {"running", "terminated"}
       THEN Ends(s) ELSE UNCHANGED process
    /\ UNCHANGED <<started, registered, exited, deletion, asked>>

ShellNext ==
    \/ StartShell
    \/ \E s \in Shell :
           \/ ProcessEnds(s) \/ ExitReported(s) \/ SpawnErrorReported(s)
           \/ DeletionDue(s) \/ EscalationDue(s)
           \/ \E k \in Kill : KillShell(k, s)
    \/ \E k \in Kill : KillApproved(k) \/ KillDenied(k)

ShellSpec == ShellInit /\ [][ShellNext]_ShellVars

-----------------------------------------------------------------------------

\* Ranges; only shells that were started are anywhere.
ShellTypeOK ==
    /\ started \in 0..MaxShells
    /\ registered \cup exited \cup deletion \cup escalation \subseteq 1..started
    /\ process \in [Shell -> {"none", "running", "terminated", "ended", "failed"}]
    /\ asked \in [Kill -> 0..started]

\* Whatever order approvals, exits and timers come in, a process that is no
\* longer in the registry, where bash_output and kill_shell could reach it, is
\* over or will be killed; and one that runs with no signal sent is in it.
StraysAreKilled ==
    \A s \in 1..started :
        /\ process[s] = "terminated" => s \in escalation
        /\ process[s] = "running" => s \in registered
=============================================================================
