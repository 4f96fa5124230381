------------------------------ MODULE ToolBatch ------------------------------
(***************************************************************************)
(* executeToolCallsConcurrent of packages/tool-system/src/                 *)
(* parallel-execution.ts: the calls of one model turn are deduplicated,    *)
(* classified, and run: those that may overlap by workers that share       *)
(* MaxConcurrent slots, the others one by one afterwards.                  *)
(*                                                                         *)
(* The code is single-threaded; a step of the model is what runs between   *)
(* two awaits.  The synchronous prefix of the workers                      *)
(* (items.map(() => worker())) takes one step per worker, and no step of   *)
(* another kind is enabled until the last worker has reached its await.    *)
(* A handler may settle either way, in any order; the user may abort       *)
(* between any two steps.                                                  *)
(***************************************************************************)
EXTENDS ToolRequests, BatchResults

CONSTANTS
    MaxConcurrent,  \* MAX_CONCURRENT_TOOLS
    MaxBatch        \* bound of the model: calls in one model turn

ASSUME MaxConcurrentAssumption == MaxConcurrent \in Nat \ {0}

VARIABLES
    batch,     \* toolCalls: a sequence of requests
    phase,     \* where executeToolCallsConcurrent is
    aborted,   \* signal.aborted
    queue,     \* calls no worker has taken yet
    waiting,   \* calls whose worker awaits a slot (slotResolvers)
    granted,   \* calls whose slot promise is resolved, worker not yet resumed
    running,   \* calls whose executor is in progress
    inFlight,  \* the executor's own count of taken slots
    outcome    \* what was pushed to the result arrays

vars == <<batch, phase, aborted, queue, waiting, granted, running, inFlight, outcome>>

Position == DOMAIN batch

\* dedupByArgHash keeps the first call of each request.
Deduped == {i \in Position : \A j \in 1..(i - 1) : batch[j] # batch[i]}

CallsOf(class) == {i \in Deduped : batch[i] \in class}

\* Mutated form of PathOverlaps: no pairwise check.
NoPathOverlaps == FALSE

PathOverlaps ==
    \E i, j \in CallsOf(Scoped) : i # j /\ PathsOverlap(Path[batch[i]], Path[batch[j]])

\* Mutated form of Parallelizable: the overlap check has no effect.
ParallelizableUnchecked == CallsOf(ParallelSafe) \cup CallsOf(Scoped)

Parallelizable ==
    CallsOf(ParallelSafe) \cup (IF PathOverlaps THEN {} ELSE CallsOf(Scoped))

ShouldParallelize ==
    /\ CallsOf(NeverParallel) = {}
    /\ Cardinality(Parallelizable) > 1

ParallelCalls == IF ShouldParallelize THEN Parallelizable ELSE {}

\* Mutated form of SequentialCalls: a batch with workers runs nothing else.
SequentialCallsForgotten == IF ShouldParallelize THEN {} ELSE Deduped

SequentialCalls == Deduped \ ParallelCalls

\* decision.parallelizable and decision.sequential list path-scoped calls
\* last; a batch that is not parallelized at all keeps the model's order.
Rank(i) == IF ShouldParallelize /\ batch[i] \in Scoped THEN Len(batch) + i ELSE i

First(calls) == CHOOSE i \in calls : \A j \in calls : Rank(i) <= Rank(j)

Pending(calls) == {i \in calls : outcome[i] = "none"}

-----------------------------------------------------------------------------

Init ==
    /\ batch \in UNION {[1..n -> Request] : n \in 1..MaxBatch}
    /\ phase = "classify"
    /\ aborted = FALSE
    /\ queue = {}
    /\ waiting = {}
    /\ granted = {}
    /\ running = {}
    /\ inFlight = 0
    /\ outcome = [i \in Position |-> "none"]

\* The user's abort (AgentLoop.abort, or the caller's own signal).
Abort ==
    /\ phase \in {"classify", "parallel", "sequential"}
    /\ ~aborted
    /\ aborted' = TRUE
    /\ UNCHANGED <<batch, phase, queue, waiting, granted, running, inFlight, outcome>>

\* dedupByArgHash and shouldParallelizeToolBatch, then the branch on the
\* decision.  A worker that finds the signal aborted returns before it takes
\* an item, so that an aborted batch launches nothing.
Classify ==
    /\ phase = "classify"
    /\ queue' = IF aborted THEN {} ELSE ParallelCalls
    /\ phase' = IF queue' = {} THEN "sequential" ELSE "launch"
    /\ UNCHANGED <<batch, aborted, waiting, granted, running, inFlight, outcome>>

\* One worker's first turn: queue.shift(), acquireSlot(), drainSlots().
LaunchWorker ==
    /\ phase = "launch"
    /\ LET i == First(queue) IN
        /\ queue' = queue \ {i}
        /\ IF inFlight < MaxConcurrent
           THEN granted' = granted \cup {i} /\ inFlight' = inFlight + 1 /\ UNCHANGED waiting
           ELSE waiting' = waiting \cup {i} /\ UNCHANGED <<granted, inFlight>>
    /\ phase' = IF queue' = {} THEN "parallel" ELSE "launch"
    /\ UNCHANGED <<batch, aborted, running, outcome>>

\* Mutated forms of ReleaseSlot: a free slot is not counted back; the slot is
\* counted back although a waiter takes it over.
ReleaseSlotLeaking(holders) ==
    IF waiting = {}
    THEN granted' = holders /\ UNCHANGED <<inFlight, waiting>>
    ELSE /\ granted' = holders \cup {First(waiting)}
         /\ waiting' = waiting \ {First(waiting)}
         /\ UNCHANGED inFlight
ReleaseSlotTwice(holders) ==
    IF waiting = {}
    THEN granted' = holders /\ inFlight' = inFlight - 1 /\ UNCHANGED waiting
    ELSE /\ granted' = holders \cup {First(waiting)}
         /\ waiting' = waiting \ {First(waiting)}
         /\ inFlight' = inFlight - 1

\* The finally block: inFlight-- and drainSlots(); the oldest waiter, if any,
\* takes the slot over.
ReleaseSlot(holders) ==
    IF waiting = {}
    THEN granted' = holders /\ inFlight' = inFlight - 1 /\ UNCHANGED waiting
    ELSE /\ granted' = holders \cup {First(waiting)}
         /\ waiting' = waiting \ {First(waiting)}
         /\ UNCHANGED inFlight

\* Mutated form of BeginParallel: no abort check after the await.
BeginParallelUnchecked(i) ==
    /\ phase = "parallel"
    /\ i \in granted
    /\ granted' = granted \ {i}
    /\ running' = running \cup {i}
    /\ UNCHANGED <<batch, phase, aborted, queue, waiting, inFlight, outcome>>

\* The worker resumes after its await, sees no abort and calls the executor.
BeginParallel(i) ==
    /\ phase = "parallel"
    /\ i \in granted
    /\ ~aborted
    /\ granted' = granted \ {i}
    /\ running' = running \cup {i}
    /\ UNCHANGED <<batch, phase, aborted, queue, waiting, inFlight, outcome>>

\* The worker resumes after its await and finds the signal aborted.
SkipAborted(i) ==
    /\ phase = "parallel"
    /\ i \in granted
    /\ aborted
    /\ outcome' = [outcome EXCEPT ![i] = "aborted"]
    /\ ReleaseSlot(granted \ {i})
    /\ UNCHANGED <<batch, phase, aborted, queue, running>>

\* The executor's promise settles: ok when it resolves, failed when it throws.
SettleParallel(i) ==
    /\ phase = "parallel"
    /\ i \in running
    /\ running' = running \ {i}
    /\ \E o \in {"ok", "failed"} : outcome' = [outcome EXCEPT ![i] = o]
    /\ ReleaseSlot(granted)
    /\ UNCHANGED <<batch, phase, aborted, queue>>

\* Promise.all(workers) resolves.
JoinWorkers ==
    /\ phase = "parallel"
    /\ waiting \cup granted \cup running = {}
    /\ phase' = "sequential"
    /\ UNCHANGED <<batch, aborted, queue, waiting, granted, running, inFlight, outcome>>

\* One turn of the sequential loop: no abort, the next call's executor runs.
BeginSequential ==
    /\ phase = "sequential"
    /\ running = {}
    /\ ~aborted
    /\ Pending(SequentialCalls) # {}
    /\ running' = {First(Pending(SequentialCalls))}
    /\ UNCHANGED <<batch, phase, aborted, queue, waiting, granted, inFlight, outcome>>

\* Mutated form of SettleSequential: a failure is not recorded.
SettleSequentialRetrying(i) ==
    /\ phase = "sequential"
    /\ i \in running
    /\ running' = running \ {i}
    /\ outcome' \in {outcome, [outcome EXCEPT ![i] = "ok"]}
    /\ UNCHANGED <<batch, phase, aborted, queue, waiting, granted, inFlight>>

SettleSequential(i) ==
    /\ phase = "sequential"
    /\ i \in running
    /\ running' = running \ {i}
    /\ \E o \in {"ok", "failed"} : outcome' = [outcome EXCEPT ![i] = o]
    /\ UNCHANGED <<batch, phase, aborted, queue, waiting, granted, inFlight>>

\* The loop ends, or breaks on an abort; the results are returned.
Return ==
    /\ phase = "sequential"
    /\ running = {}
    /\ aborted \/ Pending(SequentialCalls) = {}
    /\ phase' = "done"
    /\ UNCHANGED <<batch, aborted, queue, waiting, granted, running, inFlight, outcome>>

Progress ==
    \/ Classify \/ LaunchWorker \/ JoinWorkers \/ BeginSequential \/ Return
    \/ \E i \in Position :
          BeginParallel(i) \/ SkipAborted(i) \/ SettleParallel(i) \/ SettleSequential(i)

Done == phase = "done" /\ UNCHANGED vars

Next == Progress \/ Abort \/ Done

\* The event loop runs every resolved promise; a handler's own promise is
\* assumed to settle (tools carry timeouts of their own).
Spec == Init /\ [][Next]_vars /\ WF_vars(Progress)

-----------------------------------------------------------------------------

Executed(i) == Ran(outcome[i])

\* The entry the caller finds for a call: the early return of the sequential
\* mode lists only what it ran, the other one maps over the whole batch.
Result(i) ==
    IF outcome[i] # "none" THEN outcome[i]
    ELSE IF ShouldParallelize THEN "notExecuted" ELSE "missing"

FirstLike(i) == CHOOSE j \in Deduped : batch[j] = batch[i]

-----------------------------------------------------------------------------

\* Every variable stays within its range.
TypeOK ==
    /\ batch \in Seq(Request)
    /\ phase \in {"classify", "launch", "parallel", "sequential", "done"}
    /\ aborted \in BOOLEAN
    /\ queue \in SUBSET Position
    /\ waiting \in SUBSET Position
    /\ granted \in SUBSET Position
    /\ running \in SUBSET Position
    /\ inFlight \in Nat
    /\ outcome \in [Position -> {"none", "ok", "failed", "aborted"}]

\* The slot counter of executeWithConcurrency counts exactly the calls that
\* hold a slot, never exceeds the limit, and no call waits beside a free slot
\* (a leaked slot would strand the rest of the batch).
SlotAccounting ==
    phase \in {"launch", "parallel"} =>
        /\ inFlight = Cardinality(granted \cup running)
        /\ inFlight <= MaxConcurrent
        /\ waiting # {} => inFlight = MaxConcurrent

\* Two file mutations of one batch whose paths overlap take effect in the
\* order the model issued them: the later one does not begin before the
\* earlier one settled.
OverlappingInOrder ==
    \A i, j \in CallsOf(Scoped) :
        /\ i < j
        /\ PathsOverlap(Path[batch[i]], Path[batch[j]])
        /\ j \in running \/ Executed(j)
        => Executed(i)

\* Mutations in progress at the same time never touch one file through two
\* names: pathsOverlap follows the links of every path that exists.
ExistingFilesDisjoint ==
    \A i, j \in running :
        /\ i # j
        /\ {batch[i], batch[j]} \subseteq Scoped
        /\ {Path[batch[i]], Path[batch[j]]} \subseteq Existing
        => ~ SameFiles(Path[batch[i]], Path[batch[j]])

\* Concurrency never reorders or mixes the mutations of one file, whether the
\* batch names it by one path or by two.
MutationsOrdered == OverlappingInOrder /\ ExistingFilesDisjoint

\* Once the signal is aborted no further handler is entered, although workers
\* that already hold a slot still resume.
NoStartAfterAbort == [][aborted => running' \subseteq running]_vars

\* What the agent loop relies on: whatever mix of concurrent and sequential
\* calls the batch was split into and whenever it was aborted, the caller
\* finds a result of the shape BatchResults describes; in particular nothing
\* is left out of a batch that was not aborted, and no duplicate ran.
ResultsExpected ==
    phase = "done" => IsResult(batch, aborted, [i \in Position |-> Result(i)])

\* The executor returns, aborted or not, in whatever order handlers settle.
Returns == <>(phase = "done")

\* The executor keeps the promise stated by SafeBatch.
Abstract == INSTANCE SafeBatch WITH settled <- {i \in Position : Executed(i)}

KeepsSafeBatch == Abstract!ASpec

-----------------------------------------------------------------------------

\* "the skipped calls get the first call's result forwarded": the caller finds
\* the same entry for a duplicate as for the call it duplicates.
DuplicatesForwarded ==
    phase = "done" => \A i \in Position : Result(i) = Result(FirstLike(i))
=============================================================================
