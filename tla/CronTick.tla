----------------------------- MODULE CronTick -----------------------------
(***************************************************************************)
(* executeTick of apps/cli/src/commands/cron-tick-runner.ts, run by        *)
(* several processes (a scheduler that starts one every minute, a user):   *)
(* the lock file with its rule for stale locks, the entries in their       *)
(* order, each with its decision to fire, and the hard interrupt.  Between *)
(* processes every file operation is a step.  Time is counted in minutes,  *)
(* the unit of the schedules.  The caller is external: it loads the entries*)
(* and passes them to executeTick, which only then takes the lock; it marks*)
(* an entry as run, perhaps, when its handler is done; its handlers honour *)
(* the signal of the hard interrupt.                                       *)
(***************************************************************************)
EXTENDS Integers, FiniteSets, Sequences

CONSTANTS
    Runner,               \* processes that execute ticks
    Nobody,               \* no process
    Jobs,                 \* the entries, in the order of the store
    HardInterrupt,        \* HARD_INTERRUPT_MS, in minutes
    StaleAfter,           \* the threshold of breakStaleLock
    MinCatchup,           \* MIN_CATCHUP_MS
    MaxCatchup,           \* MAX_CATCHUP_MS
    OneShotGrace,         \* ONE_SHOT_GRACE_MS
    MaxClock,             \* bound of the model: minutes
    MaxDeaths             \* bound of the model: processes that die

\* A job: whether it is enabled and a one-shot, the minutes its schedule
\* matches, and the period its fields suggest.
Job == [enabled : BOOLEAN, oneShot : BOOLEAN, minutes : SUBSET Nat, period : Nat]

ASSUME TickAssumption ==
    /\ Nobody \notin Runner
    /\ Jobs \in Seq(Job)
    /\ {HardInterrupt, StaleAfter, MinCatchup, MaxCatchup, OneShotGrace,
        MaxClock, MaxDeaths} \subseteq Nat

Never == -1
Stage == {"idle", "breaking", "entering", "stamping", "ticking", "handling", "dead"}

VARIABLES
    clock,       \* the time
    tickLock,    \* the process that created the lock file; Nobody: no file
    stamp,       \* the time in the lock file; Never: nothing written yet
    stage,       \* where a process is in executeTick
    position,    \* the entry a process is at
    startedAt,   \* when its handler was called
    lastRun,     \* lastRunAt of each entry in the store; Never: null
    seen,        \* lastRunAt of the entries a process was given
    broken       \* the lock of a living process was removed by another

TickVars == <<clock, tickLock, stamp, stage, position, startedAt, lastRun, seen, broken>>

NeverRun == [j \in DOMAIN Jobs |-> Never]

TickInit ==
    /\ clock = 0
    /\ tickLock = Nobody
    /\ stamp = Never
    /\ stage = [r \in Runner |-> "idle"]
    /\ position = [r \in Runner |-> 1]
    /\ startedAt = [r \in Runner |-> 0]
    /\ lastRun = NeverRun
    /\ seen = [r \in Runner |-> NeverRun]
    /\ broken = FALSE

Enters(r, to) == stage' = [stage EXCEPT ![r] = to]
Loses(r) == tickLock \notin {Nobody, r} /\ stage[tickLock] # "dead"

-----------------------------------------------------------------------------

\* Mutated form of Stale: an age equal to zero is enough.
StaleAtOnce == stamp = Never \/ clock - stamp >= 0

\* What breakStaleLock makes of a lock file: one without a date, as it is
\* between openSync and writeFileSync, is taken for malformed.
Stale == stamp = Never \/ clock - stamp > StaleAfter

\* The caller has loaded the entries; executeTick begins with breakStaleLock,
\* which reads the lock file.
BeginTick(r) ==
    /\ stage[r] = "idle"
    /\ seen' = [seen EXCEPT ![r] = lastRun]
    /\ Enters(r, IF tickLock # Nobody /\ Stale THEN "breaking" ELSE "entering")
    /\ UNCHANGED <<clock, tickLock, stamp, position, startedAt, lastRun, broken>>

\* rmSync of the lock that was read; of whichever is there by now.
BreakTickLock(r) ==
    /\ stage[r] = "breaking"
    /\ broken' = (broken \/ Loses(r))
    /\ tickLock' = Nobody
    /\ stamp' = Never
    /\ Enters(r, "entering")
    /\ UNCHANGED <<clock, position, startedAt, lastRun, seen>>

\* Mutated form of AcquireTickLock: openSync without O_EXCL.
AcquireShared(r) ==
    /\ stage[r] = "entering"
    /\ tickLock' = r
    /\ Enters(r, "stamping")
    /\ UNCHANGED <<clock, stamp, position, startedAt, lastRun, seen, broken>>

\* acquireLock creates the lock file, or the tick is skipped as 'locked'.
AcquireTickLock(r) ==
    /\ stage[r] = "entering"
    /\ IF tickLock = Nobody
       THEN tickLock' = r /\ Enters(r, "stamping") /\ UNCHANGED seen
       ELSE /\ UNCHANGED tickLock
            /\ Enters(r, "idle")
            /\ seen' = [seen EXCEPT ![r] = NeverRun]
    /\ UNCHANGED <<clock, stamp, position, startedAt, lastRun, broken>>

\* The date is written into the file that was opened, which may no longer be
\* the lock.
StampLock(r) ==
    /\ stage[r] = "stamping"
    /\ stamp' = IF tickLock = r THEN clock ELSE stamp
    /\ Enters(r, "ticking")
    /\ UNCHANGED <<clock, tickLock, position, startedAt, lastRun, seen, broken>>

-----------------------------------------------------------------------------

\* shouldFire at a time.
Matches(j, t) == t \in Jobs[j].minutes

\* computeCatchupWindow.
AtMost(a, b) == IF a < b THEN a ELSE b
AtLeast(a, b) == IF a > b THEN a ELSE b
CatchupWindow(j) == AtLeast(MinCatchup, AtMost(Jobs[j].period \div 2, MaxCatchup))

\* isWithinCatchupWindow, whose answer executeEntry takes for "ran recently".
IsWithinCatchupWindow(j, last) == last = Never \/ clock - last >= CatchupWindow(j)

\* The walk back from now, minute by minute, meets a match.
Missed(j, last) == \E t \in (last + 1)..clock : Matches(j, t)

\* The one-shots of this model are created when it begins.
ShouldFireOneShot(last) == last = Never /\ clock <= OneShotGrace

\* executeEntry up to the call of the handler, for an entry with that lastRunAt.
Fires(j, last) ==
    /\ Jobs[j].enabled
    /\ IF Jobs[j].oneShot THEN ShouldFireOneShot(last)
       ELSE \/ Matches(j, clock)
            \/ ~IsWithinCatchupWindow(j, last) /\ Missed(j, last)

FiresFor(r) == Fires(position[r], seen[r][position[r]])

CallHandler(r) ==
    /\ stage[r] = "ticking"
    /\ position[r] <= Len(Jobs) /\ FiresFor(r)
    /\ startedAt' = [startedAt EXCEPT ![r] = clock]
    /\ Enters(r, "handling")
    /\ UNCHANGED <<clock, tickLock, stamp, position, lastRun, seen, broken>>

SkipEntry(r) ==
    /\ stage[r] = "ticking"
    /\ position[r] <= Len(Jobs) /\ ~FiresFor(r)
    /\ position' = [position EXCEPT ![r] = @ + 1]
    /\ UNCHANGED <<clock, tickLock, stamp, stage, startedAt, lastRun, seen, broken>>

\* The handler settles, by itself or by the hard interrupt; the caller has
\* marked the entry (markCronRun) unless it failed or was interrupted.
HandlerSettles(r) ==
    /\ stage[r] = "handling"
    /\ lastRun' \in {lastRun, [lastRun EXCEPT ![position[r]] = clock]}
    /\ position' = [position EXCEPT ![r] = @ + 1]
    /\ startedAt' = [startedAt EXCEPT ![r] = 0]
    /\ Enters(r, "ticking")
    /\ UNCHANGED <<clock, tickLock, stamp, seen, broken>>

\* The finally block of executeTick removes the lock file, whoever's it is.
ReleaseTickLock(r) ==
    /\ stage[r] = "ticking"
    /\ position[r] > Len(Jobs)
    /\ broken' = (broken \/ Loses(r))
    /\ tickLock' = Nobody
    /\ stamp' = Never
    /\ position' = [position EXCEPT ![r] = 1]
    /\ seen' = [seen EXCEPT ![r] = NeverRun]
    /\ Enters(r, "idle")
    /\ UNCHANGED <<clock, startedAt, lastRun>>

-----------------------------------------------------------------------------

RunnerDies(r) ==
    /\ stage[r] \notin {"idle", "dead"}
    /\ Cardinality({q \in Runner : stage[q] = "dead"}) < MaxDeaths
    /\ Enters(r, "dead")
    /\ UNCHANGED <<clock, tickLock, stamp, position, startedAt, lastRun, seen, broken>>

\* A minute passes.  A handler is over when its hard interrupt comes,
\* and file operations take no time.
MinutePasses ==
    /\ clock < MaxClock
    /\ \A r \in Runner :
           \/ stage[r] \in {"idle", "dead"}
           \/ stage[r] = "handling" /\ clock - startedAt[r] < HardInterrupt
    /\ clock' = clock + 1
    /\ UNCHANGED <<tickLock, stamp, stage, position, startedAt, lastRun, seen, broken>>

TickStep(r) ==
    \/ BeginTick(r) \/ BreakTickLock(r) \/ AcquireTickLock(r) \/ StampLock(r)
    \/ CallHandler(r) \/ SkipEntry(r) \/ HandlerSettles(r) \/ ReleaseTickLock(r)
    \/ RunnerDies(r)

TickNext == (\E r \in Runner : TickStep(r)) \/ MinutePasses

TickSpec == TickInit /\ [][TickNext]_TickVars

-----------------------------------------------------------------------------

Inside(r) == stage[r] \in {"stamping", "ticking", "handling"}

\* Ranges; a written stamp is that of a lock file and never of the future.
TickTypeOK ==
    /\ clock \in 0..MaxClock
    /\ tickLock \in Runner \cup {Nobody}
    /\ stamp \in {Never} \cup 0..clock
    /\ tickLock = Nobody => stamp = Never
    /\ stage \in [Runner -> Stage]
    /\ position \in [Runner -> 1..(Len(Jobs) + 1)]
    /\ startedAt \in [Runner -> 0..clock]
    /\ lastRun \in [DOMAIN Jobs -> {Never} \cup 0..clock]
    /\ seen \in [Runner -> [DOMAIN Jobs -> {Never} \cup 0..clock]]
    /\ broken \in BOOLEAN

\* Locked-out ticks, deaths and the takeover of an abandoned lock never let
\* two processes into a tick at once; only the removal of a living process's
\* lock does.
TicksApart ==
    ~broken => \A p, q \in Runner : Inside(p) /\ Inside(q) => p = q

\* "A lockfile at <goliHome>/cron.lock prevents two `goli cron tick` processes
\* from running simultaneously."
TicksExclusive == \A p, q \in Runner : Inside(p) /\ Inside(q) => p = q

\* "If a cron tick missed its scheduled time (e.g. laptop was asleep), the tick
\* fires if the current time is within the catchup window": an enabled entry
\* that ran before a scheduled minute, and is looked at within the window
\* after it, is not skipped.
MissedInWindow(j) ==
    /\ Jobs[j].enabled /\ ~Jobs[j].oneShot /\ lastRun[j] # Never
    /\ \E m \in Jobs[j].minutes :
           lastRun[j] < m /\ m <= clock /\ clock - m <= CatchupWindow(j)
MissedCaughtUp ==
    [][\A r \in Runner : SkipEntry(r) => ~MissedInWindow(position[r])]_TickVars

\* "They fire once within oneShotGraceMs of their scheduled time": no handler
\* is called for a one-shot that the store says has run.
OneShotsFireOnce ==
    [][\A r \in Runner : CallHandler(r) /\ Jobs[position[r]].oneShot
                             => lastRun[position[r]] = Never]_TickVars
=============================================================================
