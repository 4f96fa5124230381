----------------------------- MODULE AuditLog -----------------------------
(***************************************************************************)
(* The append to the audit log of packages/sandbox/src/audit-log.ts by     *)
(* several processes (a session, its subagents, a second terminal): the    *)
(* lock file, its takeover, the hash chain, and what verifyAuditLog        *)
(* recomputes from it.  An append is synchronous within a process, and     *)
(* each file operation is a step of its own between processes.  The hash   *)
(* of an entry is the entry's position in the file, which no two entries   *)
(* share; 0 is GENESIS.  A process that dies in the middle of a write      *)
(* leaves a line that is not ended and that no reader can parse.           *)
(***************************************************************************)
EXTENDS Naturals, FiniteSets, SequencesExt

CONSTANTS
    Process,
    None,                 \* no process
    MaxAppends,           \* bound of the model: lines in the file
    MaxCrashes            \* bound of the model: processes that die

ASSUME AuditAssumption ==
    /\ None \notin Process
    /\ {MaxAppends, MaxCrashes} \subseteq Nat

Genesis == 0
At == {"idle", "locking", "inspecting", "breaking", "holding", "ready", "written", "dead"}

VARIABLES
    at,          \* where a process is in appendAuditLog
    owns,        \* processes that opened the lock file with 'wx': fd >= 0
    lock,        \* the process that created the lock file; None if there is none
    aged,        \* the lock file is older than 30 s
    last,        \* the hash a process read as the last one of the file
    file,        \* the lines: their prevHash, whether they parse and are ended
    forced       \* someone wrote without the lock, removed the lock of a
                 \* living process, or died while writing

AuditVars == <<at, owns, lock, aged, last, file, forced>>

AuditInit ==
    /\ at = [p \in Process |-> "idle"]
    /\ owns = {}
    /\ lock = None
    /\ aged = FALSE
    /\ last = [p \in Process |-> Genesis]
    /\ file = <<>>
    /\ forced = FALSE

Goes(p, to) == at' = [at EXCEPT ![p] = to]

-----------------------------------------------------------------------------

\* An entry is recorded.
BeginAppend(p) ==
    /\ at[p] = "idle"
    /\ Len(file) + Cardinality({q \in Process : at[q] \notin {"idle", "written", "dead"}})
           < MaxAppends
    /\ Goes(p, "locking")
    /\ UNCHANGED <<owns, lock, aged, last, file, forced>>

\* openSync(lockPath, 'wx'): creates the file, or fails because it is there.
TakeLock(p) ==
    /\ at[p] = "locking"
    /\ IF lock = None
       THEN /\ lock' = p
            /\ owns' = owns \cup {p}
            /\ aged' = FALSE
            /\ Goes(p, "holding")
       ELSE Goes(p, "inspecting") /\ UNCHANGED <<lock, owns, aged>>
    /\ UNCHANGED <<last, file, forced>>

\* statSync of the lock that was there: gone meanwhile, the loop is left with
\* no lock; old, it is removed next; else the loop goes round.
InspectLock(p) ==
    /\ at[p] = "inspecting"
    /\ Goes(p, IF lock = None THEN "holding" ELSE IF aged THEN "breaking" ELSE "locking")
    /\ UNCHANGED <<owns, lock, aged, last, file, forced>>

\* unlinkSync of a lock taken for stale; with nothing to remove the loop is
\* left with no lock.
BreakLock(p) ==
    /\ at[p] = "breaking"
    /\ Goes(p, IF lock = None THEN "holding" ELSE "locking")
    /\ lock' = None
    /\ forced' = (forced \/ (lock # None /\ at[lock] # "dead"))
    /\ UNCHANGED <<owns, aged, last, file>>

\* The deadline of one second passes, which takes a lock that nobody will
\* release: the append goes on without it.
GiveUp(p) ==
    /\ at[p] = "locking"
    /\ lock # None /\ at[lock] = "dead"
    /\ Goes(p, "holding")
    /\ UNCHANGED <<owns, lock, aged, last, file, forced>>

\* Mutated form of LastHash: the hash that the last line names.
LastPrev == IF file # <<>> /\ file[Len(file)].ok THEN file[Len(file)].prev ELSE Genesis

\* The hash of the last line; GENESIS for an empty file, and for one whose
\* last line does not parse.
LastHash == IF file # <<>> /\ file[Len(file)].ok THEN Len(file) ELSE Genesis

\* readLastEntryHash.
ReadLast(p) ==
    /\ at[p] = "holding"
    /\ last' = [last EXCEPT ![p] = LastHash]
    /\ Goes(p, "ready")
    /\ UNCHANGED <<owns, lock, aged, file, forced>>

\* What appendFileSync makes of the file: a line that follows one that was
\* not ended is glued to it.
Glued == [file EXCEPT ![Len(file)].ended = TRUE]
WithEntry(hash) ==
    IF file # <<>> /\ ~file[Len(file)].ended THEN Glued
    ELSE Append(file, [prev |-> hash, ok |-> TRUE, ended |-> TRUE])

AppendEntry(p) ==
    /\ at[p] = "ready"
    /\ file' = WithEntry(last[p])
    /\ forced' = (forced \/ p \notin owns)
    /\ Goes(p, "written")
    /\ UNCHANGED <<owns, lock, aged, last>>

\* releaseLock removes the lock file, whoever created it.
ReleaseLock(p) ==
    /\ at[p] = "written"
    /\ lock' = None
    /\ owns' = owns \ {p}
    /\ last' = [last EXCEPT ![p] = Genesis]
    /\ forced' = (forced \/ (lock \notin {None, p} /\ at[lock] # "dead"))
    /\ Goes(p, "idle")
    /\ UNCHANGED <<aged, file>>

\* A process dies; what it wrote of a line stays, and so does its lock file.
Die(p) ==
    /\ at[p] \notin {"idle", "dead"}
    /\ Cardinality({q \in Process : at[q] = "dead"}) < MaxCrashes
    /\ Goes(p, "dead")
    /\ UNCHANGED <<owns, lock, aged, last>>
    /\ \/ UNCHANGED <<file, forced>>
       \/ /\ at[p] = "ready"
          /\ file # <<>> => file[Len(file)].ended
          /\ file' = Append(file, [prev |-> last[p], ok |-> FALSE, ended |-> FALSE])
          /\ forced' = TRUE

\* 30 s pass.  A living process is done with its lock long before.
LockAges ==
    /\ lock # None /\ at[lock] = "dead"
    /\ ~aged
    /\ aged' = TRUE
    /\ UNCHANGED <<at, owns, lock, last, file, forced>>

AuditStep(p) ==
    \/ BeginAppend(p) \/ TakeLock(p) \/ InspectLock(p) \/ BreakLock(p) \/ GiveUp(p)
    \/ ReadLast(p) \/ AppendEntry(p) \/ ReleaseLock(p) \/ Die(p)

AuditNext == (\E p \in Process : AuditStep(p)) \/ LockAges

AuditSpec == AuditInit /\ [][AuditNext]_AuditVars

-----------------------------------------------------------------------------

Line == [prev : Nat, ok : BOOLEAN, ended : BOOLEAN]

\* Ranges; the descriptor of a lock is held from its creation to its release,
\* and a lock file names the process that created it.
AuditTypeOK ==
    /\ at \in [Process -> At]
    /\ owns \subseteq {p \in Process : at[p] \in {"holding", "ready", "written", "dead"}}
    /\ lock \in {None} \cup owns
    /\ aged \in BOOLEAN
    /\ last \in [Process -> Nat]
    /\ file \in Seq(Line)
    /\ forced \in BOOLEAN

\* What verifyAuditLog checks of the lines that readAuditLog can parse: each
\* names the hash of the one before it.
Linked(i) ==
    LET before == {j \in 1..(i - 1) : file[j].ok}
    IN  file[i].prev = IF before = {} THEN Genesis
                       ELSE CHOOSE j \in before : \A k \in before : k <= j
ChainVerifies == \A i \in DOMAIN file : file[i].ok => Linked(i)

\* Waiting, dying with the lock and taking over the lock of a dead process
\* are harmless: the chain verifies unless a process wrote without the lock,
\* a living process lost its lock, or one died in the middle of a write.
ChainUnlessForced == ~forced => ChainVerifies

\* "The hash computation is done INSIDE the lock so concurrent writers form a
\* consistent chain (each new entry's prevHash is the last committed entry's
\* hash)": as long as no process dies.
WritersFormChain == (\A p \in Process : at[p] # "dead") => ChainVerifies
=============================================================================
