-------------------------- MODULE ToolBatchProofs --------------------------
(***************************************************************************)
(* Theorems about the tool-batch executor, for every set of requests,      *)
(* every classification of them, every slot limit and every batch length:  *)
(* the slot counter is exact, no handler is entered after an abort,        *)
(* mutations of one file keep their order, the results have the shape the  *)
(* agent loop relies on, and the executor implements SafeBatch.            *)
(***************************************************************************)
EXTENDS ToolBatch, Induction, FiniteSetTheorems

\* queue.shift() and slotResolvers.shift() return an element of the list, and
\* none that comes before it is left.
LEMMA FirstIsLeast ==
    ASSUME TypeOK, NEW calls \in SUBSET Position, calls # {}
    PROVE  /\ First(calls) \in calls
           /\ \A j \in calls : Rank(First(calls)) <= Rank(j)
<1>1. Len(batch) \in Nat /\ Position = 1..Len(batch)
  BY DEF TypeOK, Position
<1>2. \A i \in calls : Rank(i) \in Nat
  BY <1>1 DEF Rank
<1>. DEFINE ranks == {Rank(i) : i \in calls}
<1>3. PICK m \in ranks : \A n \in ranks : m <= n
  <2>1. ranks \in SUBSET Nat /\ ranks # {}
    BY <1>2
  <2>. HIDE DEF ranks
  <2>. QED  BY <2>1, LeastNatural
<1>4. \E i \in calls : \A j \in calls : Rank(i) <= Rank(j)
  BY <1>3
<1>. QED  BY <1>4 DEF First

LEMMA FirstIsMember ==
    ASSUME TypeOK, NEW calls \in SUBSET Position, calls # {}
    PROVE  First(calls) \in calls
BY FirstIsLeast

\* Different calls that survive deduplication carry different requests.
LEMMA DedupedDistinct ==
    ASSUME TypeOK, NEW i \in Deduped, NEW j \in Deduped, i # j
    PROVE  batch[i] # batch[j]
<1>1. Position = 1..Len(batch) /\ Len(batch) \in Nat
  BY DEF TypeOK, Position
<1>. QED  BY <1>1 DEF Deduped

\* The classifier never puts two incompatible calls in the parallel part.
LEMMA ParallelCompatible ==
    ASSUME NEW i \in ParallelCalls, NEW j \in ParallelCalls, i # j
    PROVE  Compatible(batch[i], batch[j])
<1>1. i \in Parallelizable /\ j \in Parallelizable
  BY DEF ParallelCalls
<1>2. {batch[i], batch[j]} \subseteq ParallelSafe \cup Scoped
  BY <1>1 DEF Parallelizable, CallsOf
<1>3. ASSUME batch[i] \in Scoped, batch[j] \in Scoped
      PROVE  ~ PathsOverlap(Path[batch[i]], Path[batch[j]])
  <2>1. ~ PathOverlaps /\ i \in CallsOf(Scoped) /\ j \in CallsOf(Scoped)
    BY <1>1, <1>3 DEF Parallelizable, CallsOf, Scoped
  <2>. QED  BY <2>1 DEF PathOverlaps
<1>. QED  BY <1>2, <1>3 DEF Compatible

\* What the classification says is fixed once the batch is.
LEMMA ClassificationStable ==
    ASSUME batch' = batch
    PROVE  /\ Position' = Position
           /\ Deduped' = Deduped
           /\ ParallelCalls' = ParallelCalls
           /\ SequentialCalls' = SequentialCalls
<1>1. Position' = Position /\ Deduped' = Deduped
  BY DEF Position, Deduped
<1>2. ParallelCalls' = ParallelCalls
  BY <1>1 DEF ParallelCalls, ShouldParallelize, Parallelizable, PathOverlaps, CallsOf
<1>. QED  BY <1>1, <1>2 DEF SequentialCalls

-----------------------------------------------------------------------------

\* Which call may be where in each phase.
Placement ==
    /\ queue \cup waiting \cup granted \subseteq Pending(ParallelCalls)
    /\ queue \cap (waiting \cup granted) = {}
    /\ waiting \cap granted = {}
    /\ running \cap (queue \cup waiting \cup granted) = {}
    /\ running \subseteq Pending(Deduped)
    /\ \A i \in Position \ Deduped : outcome[i] = "none"
    /\ phase = "launch" <=> queue # {}
    /\ phase = "parallel" => running \subseteq ParallelCalls
    /\ phase \in {"classify", "sequential", "done"} => waiting \cup granted = {}
    /\ phase \in {"classify", "launch", "done"} => running = {}
    /\ phase = "sequential" => \A i, j \in running : i = j
    /\ phase = "classify" => inFlight = 0 /\ \A i \in Position : outcome[i] = "none"

IInv == TypeOK /\ SlotAccounting /\ Placement

LEMMA CallsArePositions ==
    /\ Deduped \subseteq Position
    /\ ParallelCalls \subseteq Deduped
    /\ SequentialCalls \subseteq Deduped
BY DEF Deduped, ParallelCalls, Parallelizable, SequentialCalls, CallsOf

LEMMA PositionsFinite ==
    ASSUME TypeOK
    PROVE  \A S \in SUBSET Position : IsFiniteSet(S)
<1>1. Position = 1..Len(batch) /\ Len(batch) \in Nat
  BY DEF TypeOK, Position
<1>2. IsFiniteSet(Position)
  BY <1>1, FS_Interval
<1>. QED  BY <1>2, FS_Subset

LEMMA InitIInv == Init => IInv
<1>. SUFFICES ASSUME Init PROVE IInv
  OBVIOUS
<1>1. batch \in Seq(Request)
  BY DEF Init
<1>2. TypeOK
  BY <1>1 DEF Init, TypeOK, Position
<1>3. SlotAccounting /\ Placement
  BY DEF Init, SlotAccounting, Placement, Pending, Position
<1>. QED  BY <1>2, <1>3 DEF IInv

\* drainSlots after a worker gives its slot back keeps the count exact.
LEMMA ReleaseKeepsCount ==
    ASSUME IInv, NEW i \in granted \cup running, phase = "parallel",
           NEW holders, holders \subseteq granted, 
           NEW others, others \subseteq running,
           holders \cup others = (granted \cup running) \ {i},
           ReleaseSlot(holders)
    PROVE  /\ granted' \in SUBSET Position /\ waiting' \in SUBSET Position
           /\ granted' \cup waiting' \subseteq (granted \cup waiting) \ {i}
           /\ granted' \cap waiting' = {}
           /\ inFlight' \in Nat
           /\ inFlight' = Cardinality(granted' \cup others)
           /\ inFlight' <= MaxConcurrent
           /\ waiting' # {} => inFlight' = MaxConcurrent
<1>. DEFINE held == granted \cup running
<1>1. /\ IsFiniteSet(held) /\ inFlight = Cardinality(held) /\ inFlight \in Nat
      /\ MaxConcurrent \in Nat /\ inFlight <= MaxConcurrent
      /\ waiting # {} => inFlight = MaxConcurrent
  BY PositionsFinite, MaxConcurrentAssumption DEF IInv, TypeOK, SlotAccounting
<1>2. /\ IsFiniteSet(held \ {i}) /\ Cardinality(held \ {i}) = inFlight - 1
      /\ inFlight - 1 \in Nat
  <2>1. Cardinality(held \ {i}) = Cardinality(held) - 1
    BY <1>1, FS_RemoveElement
  <2>2. IsFiniteSet(held \ {i}) /\ Cardinality(held \ {i}) \in Nat
    BY <1>1, FS_RemoveElement, FS_CardinalityType
  <2>. QED  BY <1>1, <2>1, <2>2
<1>3. /\ granted \in SUBSET Position /\ waiting \in SUBSET Position
      /\ running \in SUBSET Position
      /\ waiting \cap (granted \cup running) = {}
  BY DEF IInv, TypeOK, Placement
<1>4. CASE waiting = {}
  BY <1>1, <1>2, <1>3, <1>4 DEF ReleaseSlot
<1>5. CASE waiting # {}
  <2>. DEFINE w == First(waiting)
  <2>1. w \in waiting
    BY <1>3, <1>5, FirstIsMember DEF IInv
  <2>2. granted' = holders \cup {w} /\ waiting' = waiting \ {w} /\ inFlight' = inFlight
    BY <1>5 DEF ReleaseSlot
  <2>3. w \notin held \ {i}
    BY <2>1, <1>3
  <2>4. Cardinality((held \ {i}) \cup {w}) = Cardinality(held \ {i}) + 1
    BY <1>2, <2>3, FS_AddElement
  <2>5. granted' \cup others = (held \ {i}) \cup {w}
    BY <2>2
  <2>. HIDE DEF w
  <2>6. inFlight' = Cardinality(granted' \cup others)
    <3>1. Cardinality(granted' \cup others) = Cardinality(held \ {i}) + 1
      BY <2>4, <2>5
    <3>. HIDE DEF held
    <3>. QED  BY <3>1, <2>2, <1>1, <1>2
  <2>. QED  BY <1>1, <1>3, <1>5, <2>1, <2>2, <2>6
<1>. QED  BY <1>4, <1>5

\* A call leaves the pending ones exactly when its result is pushed.
LEMMA SettleOutcome ==
    ASSUME IInv, batch' = batch, NEW i \in Pending(Deduped),
           NEW o \in {"ok", "failed", "aborted"},
           outcome' = [outcome EXCEPT ![i] = o]
    PROVE  /\ outcome' \in [Position' -> {"none", "ok", "failed", "aborted"}]
           /\ Pending(ParallelCalls)' = Pending(ParallelCalls) \ {i}
           /\ Pending(Deduped)' = Pending(Deduped) \ {i}
           /\ \A j \in Position' \ Deduped' : outcome'[j] = "none"
<1>1. outcome \in [Position -> {"none", "ok", "failed", "aborted"}]
  BY DEF TypeOK, IInv
<1>2. \A S \in SUBSET Position : {j \in S : outcome'[j] = "none"} = {j \in S : outcome[j] = "none"} \ {i}
  BY <1>1
<1>3. i \in Deduped /\ i \in Position /\ \A j \in Position \ Deduped : outcome[j] = "none"
  BY CallsArePositions DEF IInv, Placement, Pending
<1>4. \A j \in Position \ Deduped : outcome'[j] = "none"
  BY <1>1, <1>3
<1>. QED  BY <1>1, <1>2, <1>3, <1>4, CallsArePositions, ClassificationStable DEF Pending

\* The invariant is inductive.
LEMMA NextIInv == IInv /\ [Next]_vars => IInv'
<1>. SUFFICES ASSUME IInv, [Next]_vars
              PROVE  IInv'
  OBVIOUS
<1>. USE DEF IInv
<1>0. batch' = batch
  BY DEF Next, Progress, Done, vars, Classify, LaunchWorker, JoinWorkers, BeginSequential,
         Return, Abort, BeginParallel, SkipAborted, SettleParallel, SettleSequential
<1>p. /\ Position' = Position /\ Deduped' = Deduped
      /\ ParallelCalls' = ParallelCalls /\ SequentialCalls' = SequentialCalls
  BY <1>0, ClassificationStable
<1>q. /\ MaxConcurrent \in Nat /\ MaxConcurrent > 0
      /\ ParallelCalls \subseteq Deduped /\ SequentialCalls \subseteq Deduped
      /\ Deduped \subseteq Position
  BY CallsArePositions, MaxConcurrentAssumption
<1>1. CASE UNCHANGED vars
  BY <1>1, <1>p DEF vars, TypeOK, SlotAccounting, Placement, Pending
<1>2. CASE Abort
  BY <1>2, <1>p DEF Abort, TypeOK, SlotAccounting, Placement, Pending
<1>3. CASE Classify
  <2>1. TypeOK'
    BY <1>3, <1>p, <1>q DEF Classify, TypeOK
  <2>2. SlotAccounting'
    <3>1. granted' \cup running' = {} /\ waiting' = {} /\ inFlight' = 0
      BY <1>3 DEF Classify, Placement
    <3>. QED  BY <3>1, <1>q, FS_EmptySet DEF SlotAccounting
  <2>3. queue' \subseteq Pending(ParallelCalls)'
    BY <1>3, <1>p, <1>q DEF Classify, Placement, Pending
  <2>4. Placement'
    BY <1>3, <1>p, <2>3 DEF Classify, Placement, Pending
  <2>. QED  BY <2>1, <2>2, <2>4
<1>4. CASE LaunchWorker
  <2>. DEFINE i == First(queue)
  <2>1. i \in queue
    BY <1>4, FirstIsMember DEF LaunchWorker, Placement, TypeOK
  <2>2. i \in Position /\ i \notin granted \cup waiting /\ running = {}
    BY <2>1, <1>4 DEF LaunchWorker, Placement, TypeOK
  <2>3. /\ queue' = queue \ {i}
        /\ \/ inFlight < MaxConcurrent /\ granted' = granted \cup {i}
              /\ inFlight' = inFlight + 1 /\ waiting' = waiting
           \/ ~ (inFlight < MaxConcurrent) /\ waiting' = waiting \cup {i}
              /\ granted' = granted /\ inFlight' = inFlight
    BY <1>4 DEF LaunchWorker
  <2>4. /\ phase' = IF queue' = {} THEN "parallel" ELSE "launch"
        /\ UNCHANGED <<batch, aborted, running, outcome>>
    BY <1>4 DEF LaunchWorker
  <2>. HIDE DEF i
  <2>5. TypeOK'
    BY <2>2, <2>3, <2>4, <1>p DEF TypeOK
  <2>6. SlotAccounting'
    <3>1. /\ inFlight = Cardinality(granted) /\ inFlight \in Nat /\ inFlight <= MaxConcurrent
          /\ waiting # {} => inFlight = MaxConcurrent
      <4>1. granted \cup running = granted
        BY <2>2
      <4>. QED  BY <4>1, <1>4 DEF LaunchWorker, SlotAccounting, TypeOK
    <3>2. Cardinality(granted \cup {i}) = Cardinality(granted) + 1
      BY <2>2, FS_AddElement, PositionsFinite DEF TypeOK
    <3>3. granted' \cup running' = granted'
      BY <2>2, <2>4
    <3>4. /\ inFlight' = Cardinality(granted') /\ inFlight' <= MaxConcurrent
          /\ waiting' # {} => inFlight' = MaxConcurrent
      <4>1. CASE inFlight < MaxConcurrent /\ granted' = granted \cup {i}
        <5>1. Cardinality(granted') = Cardinality(granted) + 1
          BY <4>1, <3>2
        <5>. QED  BY <4>1, <5>1, <3>1, <2>3, <1>q
      <4>2. CASE ~ (inFlight < MaxConcurrent) /\ granted' = granted
        <5>1. Cardinality(granted') = Cardinality(granted)
          BY <4>2
        <5>. QED  BY <4>2, <5>1, <3>1, <2>3, <1>q
      <4>. QED  BY <4>1, <4>2, <2>3
    <3>5. Cardinality(granted' \cup running') = Cardinality(granted')
      BY <3>3
    <3>. QED  BY <3>4, <3>5 DEF SlotAccounting
  <2>7. Placement'
    BY <2>1, <2>2, <2>3, <2>4, <1>p DEF Placement, Pending
  <2>. QED  BY <2>5, <2>6, <2>7
<1>5. CASE JoinWorkers
  BY <1>5, <1>p DEF JoinWorkers, TypeOK, SlotAccounting, Placement, Pending
<1>6. CASE BeginSequential
  <2>. DEFINE i == First(Pending(SequentialCalls))
  <2>1. i \in Pending(SequentialCalls)
    BY <1>6, <1>q, FirstIsMember DEF BeginSequential, Pending
  <2>2. /\ running' = {i} /\ phase = "sequential"
        /\ UNCHANGED <<batch, phase, aborted, queue, waiting, granted, inFlight, outcome>>
    BY <1>6 DEF BeginSequential
  <2>. HIDE DEF i
  <2>3. i \in Position /\ i \in Pending(Deduped)
    BY <2>1, <1>q DEF Pending
  <2>4. TypeOK'
    BY <2>2, <2>3, <1>p DEF TypeOK
  <2>5. SlotAccounting' /\ Placement'
    BY <2>2, <2>3, <1>p DEF SlotAccounting, Placement, Pending
  <2>. QED  BY <2>4, <2>5
<1>7. CASE Return
  BY <1>7, <1>p DEF Return, TypeOK, SlotAccounting, Placement, Pending
<1>8. ASSUME NEW i \in Position, BeginParallel(i)
      PROVE  IInv'
  <2>1. TypeOK'
    BY <1>8, <1>p DEF BeginParallel, TypeOK
  <2>2. SlotAccounting'
    <3>1. granted' \cup running' = granted \cup running
      BY <1>8 DEF BeginParallel
    <3>. QED  BY <1>8, <3>1 DEF BeginParallel, SlotAccounting
  <2>3. Placement'
    BY <1>8, <1>p, <1>q DEF BeginParallel, Placement, Pending
  <2>. QED  BY <2>1, <2>2, <2>3
<1>9. ASSUME NEW i \in Position, SkipAborted(i)
      PROVE  IInv'
  <2>1. /\ outcome' \in [Position' -> {"none", "ok", "failed", "aborted"}]
        /\ Pending(ParallelCalls)' = Pending(ParallelCalls) \ {i}
        /\ Pending(Deduped)' = Pending(Deduped) \ {i}
        /\ \A j \in Position' \ Deduped' : outcome'[j] = "none"
    <3>1. i \in Pending(Deduped)
      BY <1>9, <1>q DEF SkipAborted, Placement, Pending
    <3>. QED  BY <3>1, <1>9, <1>0, SettleOutcome DEF SkipAborted
  <2>2. /\ phase = "parallel" /\ i \in granted /\ i \notin running
        /\ ReleaseSlot(granted \ {i})
        /\ UNCHANGED <<batch, phase, aborted, queue, running>>
    BY <1>9 DEF SkipAborted, Placement
  <2>3. /\ granted' \in SUBSET Position /\ waiting' \in SUBSET Position
        /\ granted' \cup waiting' \subseteq (granted \cup waiting) \ {i}
        /\ granted' \cap waiting' = {}
        /\ inFlight' \in Nat
        /\ inFlight' = Cardinality(granted' \cup running)
        /\ inFlight' <= MaxConcurrent
        /\ waiting' # {} => inFlight' = MaxConcurrent
    <3>1. (granted \ {i}) \cup running = (granted \cup running) \ {i}
      BY <2>2
    <3>. QED  BY <2>2, <3>1, ReleaseKeepsCount
  <2>4. TypeOK'
    BY <2>1, <2>2, <2>3, <1>p DEF TypeOK
  <2>5. SlotAccounting'
    BY <2>2, <2>3 DEF SlotAccounting
  <2>6. Placement'
    BY <2>1, <2>2, <2>3, <1>p DEF Placement
  <2>. QED  BY <2>4, <2>5, <2>6
<1>10. ASSUME NEW i \in Position, SettleParallel(i)
       PROVE  IInv'
  <2>1. /\ outcome' \in [Position' -> {"none", "ok", "failed", "aborted"}]
        /\ Pending(ParallelCalls)' = Pending(ParallelCalls) \ {i}
        /\ Pending(Deduped)' = Pending(Deduped) \ {i}
        /\ \A j \in Position' \ Deduped' : outcome'[j] = "none"
    <3>1. i \in Pending(Deduped)
      BY <1>10, <1>q DEF SettleParallel, Placement, Pending
    <3>. QED  BY <3>1, <1>10, <1>0, SettleOutcome DEF SettleParallel
  <2>2. /\ phase = "parallel" /\ i \in running /\ i \notin granted
        /\ ReleaseSlot(granted) /\ running' = running \ {i}
        /\ UNCHANGED <<batch, phase, aborted, queue>>
    BY <1>10 DEF SettleParallel, Placement
  <2>3. /\ granted' \in SUBSET Position /\ waiting' \in SUBSET Position
        /\ granted' \cup waiting' \subseteq (granted \cup waiting) \ {i}
        /\ granted' \cap waiting' = {}
        /\ inFlight' \in Nat
        /\ inFlight' = Cardinality(granted' \cup (running \ {i}))
        /\ inFlight' <= MaxConcurrent
        /\ waiting' # {} => inFlight' = MaxConcurrent
    <3>1. granted \cup (running \ {i}) = (granted \cup running) \ {i}
      BY <2>2
    <3>. QED  BY <2>2, <3>1, ReleaseKeepsCount
  <2>4. TypeOK'
    BY <2>1, <2>2, <2>3, <1>p DEF TypeOK
  <2>5. SlotAccounting'
    BY <2>2, <2>3 DEF SlotAccounting
  <2>6. Placement'
    BY <2>1, <2>2, <2>3, <1>p DEF Placement
  <2>. QED  BY <2>4, <2>5, <2>6
<1>11. ASSUME NEW i \in Position, SettleSequential(i)
       PROVE  IInv'
  <2>1. /\ outcome' \in [Position' -> {"none", "ok", "failed", "aborted"}]
        /\ Pending(ParallelCalls)' = Pending(ParallelCalls) \ {i}
        /\ Pending(Deduped)' = Pending(Deduped) \ {i}
        /\ \A j \in Position' \ Deduped' : outcome'[j] = "none"
    <3>1. i \in Pending(Deduped)
      BY <1>11, <1>q DEF SettleSequential, Placement, Pending
    <3>. QED  BY <3>1, <1>11, <1>0, SettleOutcome DEF SettleSequential
  <2>2. /\ phase = "sequential" /\ i \in running /\ running' = running \ {i}
        /\ UNCHANGED <<batch, phase, aborted, queue, waiting, granted, inFlight>>
    BY <1>11 DEF SettleSequential
  <2>3. TypeOK'
    BY <2>1, <2>2, <1>p DEF TypeOK
  <2>4. SlotAccounting' /\ Placement'
    BY <2>1, <2>2, <1>p DEF SlotAccounting, Placement
  <2>. QED  BY <2>3, <2>4
<1>. QED  BY <1>1, <1>2, <1>3, <1>4, <1>5, <1>6, <1>7, <1>8, <1>9, <1>10, <1>11
          DEF Next, Progress, Done

-----------------------------------------------------------------------------

\* Every reachable state of every batch is well-typed.
THEOREM TypeCorrect == Spec => []TypeOK
<1>1. IInv => TypeOK
  BY DEF IInv
<1>. QED  BY InitIInv, NextIInv, <1>1, PTL DEF Spec

\* executeWithConcurrency never leaks or overcommits a slot.
THEOREM SlotsExact == Spec => []SlotAccounting
<1>1. IInv => SlotAccounting
  BY DEF IInv
<1>. QED  BY InitIInv, NextIInv, <1>1, PTL DEF Spec

\* Whatever resumes after an abort enters no handler.
THEOREM AbortStopsBatch == Spec => NoStartAfterAbort
<1>1. [Next]_vars => [aborted => running' \subseteq running]_vars
  BY DEF Next, Progress, Done, vars, Classify, LaunchWorker, JoinWorkers, BeginSequential,
         Return, Abort, BeginParallel, SkipAborted, SettleParallel, SettleSequential
<1>. QED  BY <1>1, PTL DEF Spec, NoStartAfterAbort

-----------------------------------------------------------------------------

\* The sequential part runs in the order of the ranks, one call at a time and
\* without gaps, and only after the workers.
SequentialOrder ==
    /\ \A j \in SequentialCalls : outcome[j] # "aborted"
    /\ phase \in {"classify", "launch", "parallel"} =>
          SequentialCalls \subseteq Pending(Deduped)
    /\ phase = "sequential" => running \subseteq SequentialCalls
    /\ \A i, j \in SequentialCalls :
          Rank(i) < Rank(j) /\ (j \in running \/ Executed(j)) => Executed(i)

\* Every call a worker should have run is somewhere until it has an outcome.
NothingForgotten ==
    /\ phase \in {"launch", "parallel"} =>
          Pending(ParallelCalls) \subseteq queue \cup waiting \cup granted \cup running
    /\ phase \in {"sequential", "done"} /\ ~ aborted => Pending(ParallelCalls) = {}
    /\ phase = "done" /\ ~ aborted => Pending(SequentialCalls) = {}
    /\ \A i \in Position : outcome[i] = "aborted" => aborted

OrderInv == SequentialOrder /\ NothingForgotten

LEMMA RankStable ==
    ASSUME batch' = batch
    PROVE  \A i : Rank(i)' = Rank(i)
<1>1. ShouldParallelize' = ShouldParallelize
  BY ClassificationStable DEF ShouldParallelize, Parallelizable, PathOverlaps, CallsOf
<1>. QED  BY <1>1 DEF Rank

LEMMA InitOrderInv == Init => OrderInv
<1>. SUFFICES ASSUME Init PROVE OrderInv
  OBVIOUS
<1>1. \A i \in Position : outcome[i] = "none" /\ ~ Executed(i)
  BY DEF Init, Executed, Ran
<1>. QED  BY <1>1, CallsArePositions DEF Init, OrderInv, SequentialOrder, NothingForgotten, Pending

\* A call of the parallel part settles: nothing changes for the others.
LEMMA ParallelSettles ==
    ASSUME IInv, OrderInv, batch' = batch, phase' = phase, aborted' = aborted, queue' = queue,
           phase = "parallel",
           NEW i \in ParallelCalls, NEW o \in {"ok", "failed", "aborted"},
           o = "aborted" => aborted,
           outcome' = [outcome EXCEPT ![i] = o],
           running' \subseteq running,
           (waiting \cup granted \cup running) \ {i} \subseteq waiting' \cup granted' \cup running'
    PROVE  OrderInv'
<1>1. /\ Position' = Position /\ Deduped' = Deduped
      /\ ParallelCalls' = ParallelCalls /\ SequentialCalls' = SequentialCalls
      /\ \A k : Rank(k)' = Rank(k)
  BY ClassificationStable, RankStable
<1>2. outcome \in [Position -> {"none", "ok", "failed", "aborted"}]
  BY DEF IInv, TypeOK
<1>3. i \notin SequentialCalls /\ i \in Position /\ SequentialCalls \subseteq Deduped
      /\ Deduped \subseteq Position /\ ParallelCalls \subseteq Deduped
  BY CallsArePositions DEF SequentialCalls
<1>4. \A j \in Position : outcome'[j] = IF j = i THEN o ELSE outcome[j]
  BY <1>2
<1>5. \A j \in SequentialCalls : outcome'[j] = outcome[j] /\ Executed(j)' = Executed(j)
  BY <1>3, <1>4 DEF Executed
<1>6. running' \cap SequentialCalls = {}
  BY DEF IInv, Placement, SequentialCalls
<1>7. SequentialOrder'
  <2>1. SequentialCalls \subseteq Pending(Deduped)'
    BY <1>1, <1>3, <1>5 DEF OrderInv, SequentialOrder, Pending
  <2>. QED  BY <1>1, <1>5, <1>6, <2>1 DEF OrderInv, SequentialOrder
<1>8. NothingForgotten'
  <2>1. Pending(ParallelCalls)' = Pending(ParallelCalls) \ {i}
    BY <1>1, <1>3, <1>4 DEF Pending
  <2>2. Pending(ParallelCalls) \ {i} \subseteq queue \cup waiting' \cup granted' \cup running'
    BY DEF OrderInv, NothingForgotten
  <2>3. \A j \in Position : outcome'[j] = "aborted" => aborted
    BY <1>4 DEF OrderInv, NothingForgotten
  <2>. QED  BY <1>1, <2>1, <2>2, <2>3 DEF NothingForgotten
<1>. QED  BY <1>7, <1>8 DEF OrderInv

\* A step that changes no outcome and starts no call of the sequential part.
LEMMA OrderKept ==
    ASSUME OrderInv, batch' = batch, outcome' = outcome,
           running' \cap SequentialCalls \subseteq running,
           phase' \in {"classify", "launch", "parallel"} =>
               phase \in {"classify", "launch", "parallel"},
           phase' = "sequential" => running' \subseteq SequentialCalls
    PROVE  SequentialOrder'
<1>1. /\ Position' = Position /\ Deduped' = Deduped
      /\ ParallelCalls' = ParallelCalls /\ SequentialCalls' = SequentialCalls
      /\ \A k : Rank(k)' = Rank(k)
  BY ClassificationStable, RankStable
<1>2. \A j : Executed(j)' = Executed(j)
  BY DEF Executed
<1>3. Pending(Deduped)' = Pending(Deduped)
  BY <1>1 DEF Pending
<1>4. \A i, j \in SequentialCalls :
          Rank(i) < Rank(j) /\ (j \in running' \/ Executed(j)) => Executed(i)
  BY DEF OrderInv, SequentialOrder
<1>. QED  BY <1>1, <1>2, <1>3, <1>4 DEF OrderInv, SequentialOrder

LEMMA NextOrderInv == IInv /\ OrderInv /\ [Next]_vars => OrderInv'
<1>. SUFFICES ASSUME IInv, OrderInv, [Next]_vars
              PROVE  OrderInv'
  OBVIOUS
<1>0. batch' = batch
  BY DEF Next, Progress, Done, vars, Classify, LaunchWorker, JoinWorkers, BeginSequential,
         Return, Abort, BeginParallel, SkipAborted, SettleParallel, SettleSequential
<1>p. /\ Position' = Position /\ Deduped' = Deduped
      /\ ParallelCalls' = ParallelCalls /\ SequentialCalls' = SequentialCalls
      /\ \A k : Rank(k)' = Rank(k)
  BY <1>0, ClassificationStable, RankStable
<1>q. /\ ParallelCalls \subseteq Deduped /\ SequentialCalls \subseteq Deduped
      /\ Deduped \subseteq Position /\ ParallelCalls \cap SequentialCalls = {}
  BY CallsArePositions DEF SequentialCalls
<1>1. CASE UNCHANGED vars
  <2>1. SequentialOrder'
    BY <1>0, <1>1, OrderKept DEF vars, OrderInv, SequentialOrder
  <2>2. NothingForgotten'
    BY <1>1, <1>p DEF vars, OrderInv, NothingForgotten, Pending
  <2>. QED  BY <2>1, <2>2 DEF OrderInv
<1>2. CASE Abort
  <2>1. SequentialOrder'
    BY <1>0, <1>2, OrderKept DEF Abort, OrderInv, SequentialOrder
  <2>2. NothingForgotten'
    BY <1>2, <1>p DEF Abort, OrderInv, NothingForgotten, Pending
  <2>. QED  BY <2>1, <2>2 DEF OrderInv
<1>3. CASE Classify
  <2>1. running' = {} /\ outcome' = outcome /\ phase' \in {"launch", "sequential"}
    BY <1>3 DEF Classify, IInv, Placement
  <2>2. SequentialOrder'
    BY <1>0, <1>3, <2>1, OrderKept DEF Classify
  <2>3. NothingForgotten'
    BY <1>3, <1>p DEF Classify, OrderInv, NothingForgotten, Pending
  <2>. QED  BY <2>2, <2>3 DEF OrderInv
<1>4. CASE LaunchWorker
  <2>1. running' = {} /\ outcome' = outcome /\ phase' \in {"launch", "parallel"}
    BY <1>4 DEF LaunchWorker, IInv, Placement
  <2>2. SequentialOrder'
    BY <1>0, <1>4, <2>1, OrderKept DEF LaunchWorker
  <2>3. queue \cup waiting \cup granted \subseteq queue' \cup waiting' \cup granted'
    BY <1>4 DEF LaunchWorker
  <2>4. NothingForgotten'
    BY <1>4, <1>p, <2>1, <2>3 DEF LaunchWorker, OrderInv, NothingForgotten, Pending
  <2>. QED  BY <2>2, <2>4 DEF OrderInv
<1>5. CASE JoinWorkers
  <2>1. running' = {} /\ queue = {}
    BY <1>5 DEF JoinWorkers, IInv, Placement
  <2>2. SequentialOrder'
    BY <1>0, <1>5, <2>1, OrderKept DEF JoinWorkers
  <2>3. NothingForgotten'
    BY <1>5, <1>p, <2>1 DEF JoinWorkers, OrderInv, NothingForgotten, Pending
  <2>. QED  BY <2>2, <2>3 DEF OrderInv
<1>6. CASE BeginSequential
  <2>. DEFINE b == First(Pending(SequentialCalls))
  <2>1. b \in Pending(SequentialCalls) /\ \A j \in Pending(SequentialCalls) : Rank(b) <= Rank(j)
    <3>1. Pending(SequentialCalls) \in SUBSET Position
      BY <1>q DEF Pending
    <3>. QED  BY <1>6, <3>1, FirstIsLeast DEF BeginSequential, IInv
  <2>2. running' = {b} /\ phase = "sequential"
        /\ UNCHANGED <<batch, phase, aborted, queue, waiting, granted, inFlight, outcome>>
    BY <1>6 DEF BeginSequential
  <2>. HIDE DEF b
  <2>3. b \in SequentialCalls /\ b \in Position
    BY <2>1, <1>q DEF Pending
  <2>4. \A i \in SequentialCalls : Rank(i) \in Nat
    <3>1. Position = 1..Len(batch) /\ Len(batch) \in Nat
      BY DEF IInv, TypeOK, Position
    <3>. QED  BY <3>1, <1>q DEF Rank
  <2>5. \A i \in SequentialCalls : Rank(i) < Rank(b) => Executed(i)
    <3>. SUFFICES ASSUME NEW i \in SequentialCalls, Rank(i) < Rank(b)
                  PROVE  Executed(i)
      OBVIOUS
    <3>1. i \notin Pending(SequentialCalls)
      BY <2>1, <2>3, <2>4
    <3>2. outcome[i] \in {"none", "ok", "failed", "aborted"} /\ outcome[i] # "aborted"
      BY <1>q DEF IInv, TypeOK, OrderInv, SequentialOrder
    <3>. QED  BY <3>1, <3>2 DEF Pending, Executed, Ran
  <2>6. SequentialOrder'
    <3>1. \A j : Executed(j)' = Executed(j)
      BY <2>2 DEF Executed
    <3>2. \A i, j \in SequentialCalls :
             Rank(i) < Rank(j) /\ (j \in running' \/ Executed(j)) => Executed(i)
      BY <2>2, <2>5 DEF OrderInv, SequentialOrder
    <3>3. \A j \in SequentialCalls : outcome'[j] # "aborted"
      BY <2>2 DEF OrderInv, SequentialOrder
    <3>. QED  BY <2>2, <2>3, <1>p, <3>1, <3>2, <3>3 DEF SequentialOrder
  <2>7. NothingForgotten'
    BY <2>2, <1>p DEF OrderInv, NothingForgotten, Pending
  <2>. QED  BY <2>6, <2>7 DEF OrderInv
<1>7. CASE Return
  <2>1. SequentialOrder'
    BY <1>0, <1>7, OrderKept DEF Return
  <2>2. NothingForgotten'
    BY <1>7, <1>p DEF Return, OrderInv, NothingForgotten, Pending
  <2>. QED  BY <2>1, <2>2 DEF OrderInv
<1>8. ASSUME NEW i \in Position, BeginParallel(i)
      PROVE  OrderInv'
  <2>1. i \in ParallelCalls
    BY <1>8 DEF BeginParallel, IInv, Placement, Pending
  <2>2. SequentialOrder'
    BY <1>0, <1>8, <1>q, <2>1, OrderKept DEF BeginParallel
  <2>3. waiting \cup granted \cup running \subseteq waiting' \cup granted' \cup running'
    BY <1>8 DEF BeginParallel
  <2>4. NothingForgotten'
    BY <1>8, <1>p, <2>3 DEF BeginParallel, OrderInv, NothingForgotten, Pending
  <2>. QED  BY <2>2, <2>4 DEF OrderInv
<1>9. ASSUME NEW i \in Position, SkipAborted(i)
      PROVE  OrderInv'
  <2>1. i \in ParallelCalls
    BY <1>9 DEF SkipAborted, IInv, Placement, Pending
  <2>2. (waiting \cup granted \cup running) \ {i} \subseteq waiting' \cup granted' \cup running'
    BY <1>9 DEF SkipAborted, ReleaseSlot
  <2>. QED  BY <1>0, <1>9, <2>1, <2>2, ParallelSettles DEF SkipAborted
<1>10. ASSUME NEW i \in Position, SettleParallel(i)
       PROVE  OrderInv'
  <2>1. i \in ParallelCalls
    BY <1>10 DEF SettleParallel, IInv, Placement
  <2>2. (waiting \cup granted \cup running) \ {i} \subseteq waiting' \cup granted' \cup running'
    BY <1>10 DEF SettleParallel, ReleaseSlot
  <2>3. PICK o \in {"ok", "failed"} : outcome' = [outcome EXCEPT ![i] = o]
    BY <1>10 DEF SettleParallel
  <2>. QED  BY <1>0, <1>10, <2>1, <2>2, <2>3, ParallelSettles DEF SettleParallel
<1>11. ASSUME NEW i \in Position, SettleSequential(i)
       PROVE  OrderInv'
  <2>1. PICK o \in {"ok", "failed"} : outcome' = [outcome EXCEPT ![i] = o]
    BY <1>11 DEF SettleSequential
  <2>2. /\ phase = "sequential" /\ i \in running /\ running' = running \ {i}
        /\ UNCHANGED <<batch, phase, aborted, queue, waiting, granted, inFlight>>
    BY <1>11 DEF SettleSequential
  <2>3. i \in SequentialCalls
    BY <2>2 DEF OrderInv, SequentialOrder
  <2>4. \A j \in Position : outcome'[j] = IF j = i THEN o ELSE outcome[j]
    BY <2>1 DEF IInv, TypeOK
  <2>5. \A j \in Position : Executed(j)' = (j = i \/ Executed(j))
    BY <2>4 DEF Executed, Ran
  <2>6. SequentialOrder'
    <3>1. \A j, k \in SequentialCalls :
             Rank(j) < Rank(k) /\ (k \in running' \/ k = i \/ Executed(k)) => j = i \/ Executed(j)
      BY <2>2 DEF OrderInv, SequentialOrder
    <3>2. \A j \in SequentialCalls : outcome'[j] # "aborted"
      BY <2>4, <1>q DEF OrderInv, SequentialOrder
    <3>3. running' \subseteq SequentialCalls
      BY <2>2 DEF OrderInv, SequentialOrder
    <3>. QED  BY <2>2, <2>5, <1>p, <1>q, <3>1, <3>2, <3>3 DEF SequentialOrder
  <2>7. NothingForgotten'
    <3>1. Pending(ParallelCalls)' = Pending(ParallelCalls)
      BY <1>p, <1>q, <2>3, <2>4 DEF Pending
    <3>2. \A j \in Position : outcome'[j] = "aborted" => aborted
      BY <2>4 DEF OrderInv, NothingForgotten
    <3>. QED  BY <2>2, <1>p, <3>1, <3>2 DEF OrderInv, NothingForgotten
  <2>. QED  BY <2>6, <2>7 DEF OrderInv
<1>. QED  BY <1>1, <1>2, <1>3, <1>4, <1>5, <1>6, <1>7, <1>8, <1>9, <1>10, <1>11
          DEF Next, Progress, Done

LEMMA OrderInvariant == Spec => [](IInv /\ OrderInv)
BY InitIInv, NextIInv, InitOrderInv, NextOrderInv, PTL DEF Spec

-----------------------------------------------------------------------------

\* Two mutations of one file are never both in the parallel part, and when one
\* is in the sequential part so is the other.
LEMMA OverlapsSequential ==
    ASSUME NEW i \in CallsOf(Scoped), NEW j \in CallsOf(Scoped), i # j,
           PathsOverlap(Path[batch[i]], Path[batch[j]])
    PROVE  i \in SequentialCalls /\ j \in SequentialCalls
<1>1. PathOverlaps
  BY DEF PathOverlaps
<1>2. CallsOf(Scoped) \cap Parallelizable = {}
  BY <1>1 DEF Parallelizable, CallsOf, Scoped
<1>3. CallsOf(Scoped) \subseteq Deduped
  BY DEF CallsOf
<1>. QED  BY <1>2, <1>3 DEF SequentialCalls, ParallelCalls

LEMMA OrderedImplied == IInv /\ OrderInv => MutationsOrdered
<1>. SUFFICES ASSUME IInv, OrderInv
              PROVE  MutationsOrdered
  OBVIOUS
<1>0. Position = 1..Len(batch) /\ Len(batch) \in Nat
  BY DEF IInv, TypeOK, Position
<1>1. OverlappingInOrder
  <2>. SUFFICES ASSUME NEW i \in CallsOf(Scoped), NEW j \in CallsOf(Scoped), i < j,
                       PathsOverlap(Path[batch[i]], Path[batch[j]]),
                       j \in running \/ Executed(j)
                PROVE  Executed(i)
    BY DEF OverlappingInOrder
  <2>1. i \in Position /\ j \in Position /\ batch[i] \in Scoped /\ batch[j] \in Scoped
    BY DEF CallsOf, Deduped
  <2>2. i # j
    BY <1>0, <2>1
  <2>3. i \in SequentialCalls /\ j \in SequentialCalls
    BY <2>2, OverlapsSequential
  <2>4. Rank(i) < Rank(j)
    BY <1>0, <2>1 DEF Rank
  <2>. QED  BY <2>3, <2>4 DEF OrderInv, SequentialOrder
<1>2. ExistingFilesDisjoint
  <2>. SUFFICES ASSUME NEW i \in running, NEW j \in running, i # j,
                       batch[i] \in Scoped, batch[j] \in Scoped,
                       Path[batch[i]] \in Existing, Path[batch[j]] \in Existing
                PROVE  ~ SameFiles(Path[batch[i]], Path[batch[j]])
    BY DEF ExistingFilesDisjoint
  <2>1. i \in ParallelCalls /\ j \in ParallelCalls
    BY DEF IInv, TypeOK, Placement
  <2>2. ~ PathsOverlap(Path[batch[i]], Path[batch[j]])
    BY <2>1, ParallelCompatible DEF Compatible
  <2>. QED  BY <2>2 DEF PathsOverlap, SameFiles, Resolved
<1>. QED  BY <1>1, <1>2 DEF MutationsOrdered

\* Whatever the batch, its classification and the moment of an abort, two
\* mutations of one file never overlap and never swap.
THEOREM MutationsKeepOrder == Spec => []MutationsOrdered
BY OrderInvariant, OrderedImplied, PTL

LEMMA FirstCallsDeduped ==
    ASSUME TypeOK
    PROVE  FirstCalls(batch) = Deduped /\ DOMAIN batch = Position
<1>1. Position = 1..Len(batch) /\ Len(batch) \in Nat
  BY DEF TypeOK, Position
<1>. QED  BY <1>1 DEF FirstCalls, Deduped, Position

LEMMA ResultsImplied == IInv /\ OrderInv => ResultsExpected
<1>. SUFFICES ASSUME IInv, OrderInv, phase = "done"
              PROVE  IsResult(batch, aborted, [i \in Position |-> Result(i)])
  BY DEF ResultsExpected
<1>. DEFINE result == [i \in Position |-> Result(i)]
<1>1. FirstCalls(batch) = Deduped /\ DOMAIN batch = Position
  BY FirstCallsDeduped DEF IInv
<1>2. /\ \A i \in Position : outcome[i] \in {"none", "ok", "failed", "aborted"}
      /\ \A i \in Position \ Deduped : outcome[i] = "none"
      /\ Deduped \subseteq Position
  BY CallsArePositions DEF IInv, TypeOK, Placement
<1>3. ~ aborted => \A i \in Deduped : outcome[i] \in {"ok", "failed"}
  <2>1. ~ aborted => \A i \in Deduped : outcome[i] # "none" /\ outcome[i] # "aborted"
    BY <1>2 DEF OrderInv, NothingForgotten, Pending, SequentialCalls
  <2>. QED  BY <2>1, <1>2
<1>4. \A i \in Position : result[i] = Result(i)
  OBVIOUS
<1>. HIDE DEF result
<1>5. CASE ShouldParallelize
  <2>1. \A i \in Position : result[i] = IF outcome[i] # "none" THEN outcome[i] ELSE "notExecuted"
    BY <1>4, <1>5 DEF Result
  <2>2. Cardinality(Deduped) > 1
    <3>1. Cardinality(Parallelizable) > 1 /\ Parallelizable \subseteq Deduped
      BY <1>5 DEF ShouldParallelize, Parallelizable, CallsOf
    <3>2. IsFiniteSet(Deduped) /\ Cardinality(Parallelizable) <= Cardinality(Deduped)
          /\ Cardinality(Parallelizable) \in Nat /\ Cardinality(Deduped) \in Nat
      BY <3>1, <1>2, PositionsFinite, FS_Subset, FS_CardinalityType DEF IInv
    <3>. QED  BY <3>1, <3>2
  <2>3. ConcurrentResult(batch, aborted, result)
    BY <1>1, <1>2, <1>3, <2>1, <2>2 DEF ConcurrentResult, Ran
  <2>. QED  BY <2>3 DEF IsResult, result
<1>6. CASE ~ ShouldParallelize
  <2>1. SequentialCalls = Deduped /\ \A i \in Position : Rank(i) = i
    BY <1>6 DEF SequentialCalls, ParallelCalls, Rank
  <2>2. \A i \in Position : result[i] = IF outcome[i] # "none" THEN outcome[i] ELSE "missing"
    BY <1>4, <1>6 DEF Result
  <2>3. \A i \in Position : outcome[i] \in {"none", "ok", "failed"}
    BY <1>2, <2>1 DEF OrderInv, SequentialOrder
  <2>4. \A i, j \in Deduped : j < i /\ Ran(outcome[i]) => Ran(outcome[j])
    BY <1>2, <2>1 DEF OrderInv, SequentialOrder, Executed
  <2>5. \A i \in Position : Ran(result[i]) <=> Ran(outcome[i])
    BY <2>2, <2>3 DEF Ran
  <2>6. SequentialResult(batch, aborted, result)
    <3>1. \A i \in Position : Ran(result[i]) \/ result[i] = "missing"
      BY <2>2, <2>3 DEF Ran
    <3>2. \A i \in Position : Ran(result[i]) => i \in Deduped
      BY <2>5, <1>2 DEF Ran
    <3>3. \A i, j \in Deduped : j < i /\ Ran(result[i]) => Ran(result[j])
      BY <2>4, <2>5, <1>2
    <3>4. ~ aborted => \A i \in Deduped : Ran(result[i])
      BY <2>5, <1>2, <1>3 DEF Ran
    <3>. QED  BY <1>1, <3>1, <3>2, <3>3, <3>4 DEF SequentialResult
  <2>. QED  BY <2>6 DEF IsResult, result
<1>. QED  BY <1>5, <1>6

\* The agent loop finds a result of the promised shape for every batch: an
\* entry for every call it may look up, and nothing dropped without an abort.
THEOREM ResultsAsExpected == Spec => []ResultsExpected
BY OrderInvariant, ResultsImplied, PTL

-----------------------------------------------------------------------------

Settled == {i \in Position : Executed(i)}

\* A step that pushes a handler's result ends the call in the abstraction.
LEMMA SettleEnds ==
    ASSUME IInv, batch' = batch, NEW i \in running, running' = running \ {i},
           NEW o \in {"ok", "failed"}, outcome' = [outcome EXCEPT ![i] = o]
    PROVE  Abstract!End(i)
<1>1. outcome \in [Position -> {"none", "ok", "failed", "aborted"}] /\ i \in Position
  BY DEF IInv, TypeOK
<1>2. Settled' = Settled \cup {i}
  BY <1>1, ClassificationStable DEF Settled, Executed, Ran
<1>. QED  BY <1>2 DEF Abstract!End, Settled

\* A step that leaves handlers and handler results alone is a stutter.
LEMMA IdleStutters ==
    ASSUME IInv, batch' = batch, running' = running, Settled' = Settled
    PROVE  UNCHANGED Abstract!avars
BY DEF Abstract!avars, Settled

\* The abstraction is instantiated on the same constants.
LEMMA SameCompatible ==
    ASSUME NEW r, NEW s
    PROVE  Abstract!Compatible(r, s) <=> Compatible(r, s)
<1>1. \A p, q : Abstract!PathsOverlap(p, q) <=> PathsOverlap(p, q)
  BY DEF Abstract!PathsOverlap, PathsOverlap, Abstract!Inside, Inside,
         Abstract!Resolved, Resolved, Abstract!IsPrefix, IsPrefix
<1>. QED  BY <1>1 DEF Abstract!Compatible, Compatible, Abstract!Scoped, Scoped

\* It also counts alike, although it instantiates FiniteSets itself.
LEMMA SameCardinality ==
    ASSUME NEW S
    PROVE  Abstract!Cardinality(S) = Cardinality(S)
BY DEF Abstract!Cardinality, Cardinality

\* A call begins beside compatible, different requests, below the limit.
LEMMA BeginBegins ==
    ASSUME IInv, batch' = batch, outcome' = outcome,
           NEW i \in Pending(Deduped), i \notin running, running' = running \cup {i},
           \A j \in running : Compatible(batch[i], batch[j]),
           Cardinality(running) < MaxConcurrent
    PROVE  Abstract!Begin(i)
<1>1. i \in Position /\ i \in Deduped /\ ~ Executed(i)
  BY CallsArePositions DEF Pending, Executed, Ran
<1>2. \A j \in running \cup Settled : batch[j] # batch[i]
  <2>1. running \cup Settled \subseteq Deduped /\ i \notin running \cup Settled
    BY <1>1 DEF IInv, Placement, Pending, Settled, Executed, Ran
  <2>. QED  BY <2>1, <1>1, DedupedDistinct DEF IInv
<1>3. Settled' = Settled
  BY ClassificationStable DEF Settled, Executed, Ran
<1>4. \A j \in running : Abstract!Compatible(batch[i], batch[j])
  BY SameCompatible
<1>. DEFINE settled == {k \in Position : Executed(k)}
<1>5. i \in DOMAIN batch \ (running \cup settled)
  BY <1>1 DEF Position
<1>6. \A j \in running \cup settled : batch[j] # batch[i]
  BY <1>2 DEF Settled
<1>7. settled' = settled
  BY <1>3 DEF Settled
<1>. HIDE DEF settled
<1>8. /\ i \in DOMAIN batch \ (running \cup settled)
      /\ \A j \in running \cup settled : batch[j] # batch[i]
      /\ \A j \in running : Abstract!Compatible(batch[i], batch[j])
      /\ Abstract!Cardinality(running) < MaxConcurrent
      /\ running' = running \cup {i}
      /\ UNCHANGED <<batch, settled>>
  BY SameCardinality, <1>4, <1>5, <1>6, <1>7
<1>. USE DEF settled
<1>. QED  BY <1>8 DEF Abstract!Begin

\* Init and Next are simulated by the abstraction.
LEMMA InitSimulated == Init => Abstract!AInit
<1>. SUFFICES ASSUME Init PROVE Abstract!AInit
  OBVIOUS
<1>1. {i \in Position : Executed(i)} = {}
  BY DEF Init, Executed, Ran
<1>. QED  BY <1>1 DEF Init, Abstract!AInit

LEMMA NextSimulated == IInv /\ [Next]_vars => [Abstract!ANext]_Abstract!avars
<1>. SUFFICES ASSUME IInv, [Next]_vars
              PROVE  [Abstract!ANext]_Abstract!avars
  OBVIOUS
<1>1. batch' = batch
  BY DEF Next, Progress, Done, vars, Classify, LaunchWorker, JoinWorkers, BeginSequential,
         Return, Abort, BeginParallel, SkipAborted, SettleParallel, SettleSequential
<1>2. CASE UNCHANGED <<outcome, running>>
  <2>1. Settled' = Settled
    BY <1>1, <1>2 DEF Settled, Executed, Ran, Position
  <2>. QED  BY <1>1, <1>2, <2>1, IdleStutters
<1>3. CASE UNCHANGED vars \/ Abort \/ Classify \/ LaunchWorker \/ JoinWorkers \/ Return
  BY <1>2, <1>3 DEF vars, Abort, Classify, LaunchWorker, JoinWorkers, Return
<1>4. CASE BeginSequential
  <2>. DEFINE i == First(Pending(SequentialCalls))
  <2>1. i \in Pending(SequentialCalls)
    BY <1>4, CallsArePositions, FirstIsMember DEF BeginSequential, Pending, IInv
  <2>2. running = {} /\ running' = {i} /\ outcome' = outcome
    BY <1>4 DEF BeginSequential
  <2>. HIDE DEF i
  <2>3. Cardinality(running) < MaxConcurrent
    BY <2>2, FS_EmptySet, MaxConcurrentAssumption
  <2>4. i \in Pending(Deduped) /\ i \in Position
    BY <2>1, CallsArePositions DEF Pending
  <2>5. Abstract!Begin(i)
    BY <1>1, <2>2, <2>3, <2>4, BeginBegins
  <2>. QED  BY <2>4, <2>5 DEF Abstract!ANext, Position
<1>5. ASSUME NEW i \in Position, BeginParallel(i)
      PROVE  Abstract!ANext
  <2>1. /\ i \in granted /\ i \notin running /\ i \in Pending(ParallelCalls)
        /\ running \subseteq ParallelCalls
    BY <1>5 DEF BeginParallel, IInv, Placement
  <2>2. i \in ParallelCalls /\ i \in Pending(Deduped)
    BY <2>1, CallsArePositions DEF Pending
  <2>3. \A j \in running : Compatible(batch[i], batch[j])
    BY <2>1, <2>2, ParallelCompatible
  <2>4. Cardinality(running) < MaxConcurrent
    <3>1. IsFiniteSet(granted \cup running) /\ IsFiniteSet(running)
      BY PositionsFinite DEF IInv, TypeOK
    <3>2. running \cup {i} \subseteq granted \cup running
      BY <2>1
    <3>3. Cardinality(running \cup {i}) = Cardinality(running) + 1
      BY <3>1, <2>1, FS_AddElement
    <3>4. Cardinality(running \cup {i}) <= Cardinality(granted \cup running)
      BY <3>1, <3>2, FS_Subset
    <3>5. Cardinality(granted \cup running) = inFlight /\ inFlight <= MaxConcurrent
      BY <1>5 DEF BeginParallel, IInv, SlotAccounting
    <3>. QED  BY <3>1, <3>3, <3>4, <3>5, FS_CardinalityType, MaxConcurrentAssumption
              DEF IInv, TypeOK
  <2>5. Abstract!Begin(i)
    BY <1>1, <1>5, <2>1, <2>2, <2>3, <2>4, BeginBegins DEF BeginParallel
  <2>. QED  BY <2>5 DEF Abstract!ANext, Position
<1>6. ASSUME NEW i \in Position, SettleParallel(i) \/ SettleSequential(i)
      PROVE  Abstract!ANext
  <2>1. Abstract!End(i)
    BY <1>1, <1>6, SettleEnds DEF SettleParallel, SettleSequential
  <2>. QED  BY <2>1 DEF Abstract!ANext, Position
<1>7. ASSUME NEW i \in Position, SkipAborted(i)
      PROVE  UNCHANGED Abstract!avars
  <2>1. outcome' = [outcome EXCEPT ![i] = "aborted"] /\ running' = running
    BY <1>7 DEF SkipAborted
  <2>2. outcome \in [Position -> {"none", "ok", "failed", "aborted"}] /\ outcome[i] = "none"
    BY <1>7 DEF SkipAborted, IInv, TypeOK, Placement, Pending
  <2>3. Settled' = Settled
    BY <1>1, <2>1, <2>2 DEF Settled, Executed, Ran, Position
  <2>. QED  BY <1>1, <2>1, <2>3, IdleStutters
<1>. QED  BY <1>3, <1>4, <1>5, <1>6, <1>7 DEF Next, Progress, Done

\* The executor implements SafeBatch: whatever the batch, calls in progress at
\* the same time are compatible and at most MaxConcurrent, and no request is
\* served twice.
THEOREM ImplementsSafeBatch == Spec => KeepsSafeBatch
BY InitSimulated, NextSimulated, InitIInv, NextIInv, PTL DEF Spec, KeepsSafeBatch, Abstract!ASpec
=============================================================================
