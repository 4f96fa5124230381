--------------------------- MODULE ProcessProofs ---------------------------
(***************************************************************************)
(* Proofs about what several processes share: the lock of the cron ticks   *)
(* (CronTick), the store of the cron entries (CronStore), the background   *)
(* shells with the registry that reaches them (BackgroundShell), the store *)
(* of the checkpoints (Checkpoints) and the audit log (AuditLog).  Each of *)
(* the five invariants needs more than it says to be inductive; what is    *)
(* added is named below.                                                   *)
(***************************************************************************)
EXTENDS CronTick, CronStore, BackgroundShell, Checkpoints, AuditLog, SequenceTheorems, TLAPS

-----------------------------------------------------------------------------
(* The ticks.                                                              *)

\* A handler runs for an entry there is; as long as no living process lost
\* its lock, whoever is inside a tick holds the lock.
HandlersHaveEntries == \A r \in Runner : stage[r] = "handling" => position[r] <= Len(Jobs)
InsiderHolds == ~broken => \A r \in Runner : Inside(r) => tickLock = r
TickInv == TickTypeOK /\ HandlersHaveEntries /\ InsiderHolds

LEMMA TickConstants ==
    /\ Nobody \notin Runner
    /\ Len(Jobs) \in Nat /\ DOMAIN Jobs = 1..Len(Jobs)
    /\ MaxClock \in Nat
  BY TickAssumption

LEMMA NeverRunTyped == \A c : NeverRun \in [DOMAIN Jobs -> {Never} \cup 0..c]
  BY DEF NeverRun

LEMMA TickStarts == TickInit => TickInv
<1> SUFFICES ASSUME TickInit
             PROVE  TickInv
  OBVIOUS
<1>1. /\ clock \in 0..MaxClock
      /\ tickLock \in Runner \cup {Nobody}
      /\ stamp \in {Never} \cup 0..clock
      /\ tickLock = Nobody => stamp = Never
  BY TickConstants DEF TickInit
<1>2. broken \in BOOLEAN
  BY DEF TickInit
<1>3. stage \in [Runner -> Stage] /\ startedAt \in [Runner -> 0..clock]
  BY DEF TickInit, Stage
<1>4. position \in [Runner -> 1..(Len(Jobs) + 1)]
  BY TickConstants DEF TickInit
<1>5. /\ lastRun \in [DOMAIN Jobs -> {Never} \cup 0..clock]
      /\ seen \in [Runner -> [DOMAIN Jobs -> {Never} \cup 0..clock]]
  BY NeverRunTyped DEF TickInit
<1>6. HandlersHaveEntries /\ InsiderHolds
  BY DEF TickInit, HandlersHaveEntries, InsiderHolds, Inside
<1> QED
  BY <1>1, <1>2, <1>3, <1>4, <1>5, <1>6 DEF TickInv, TickTypeOK

\* One field of a function is set.
LEMMA FieldSet ==
    ASSUME NEW D, NEW S, NEW f \in [D -> S], NEW j \in D, NEW e \in S
    PROVE  [f EXCEPT ![j] = e] \in [D -> S]
  OBVIOUS

\* The steps of one process.
LEMMA TickStepKeeps ==
    ASSUME TickInv, NEW r \in Runner, TickStep(r)
    PROVE  TickInv'
<1> DEFINE Times == [DOMAIN Jobs -> {Never} \cup 0..clock]
<1>0. [seen EXCEPT ![r] = NeverRun] \in [Runner -> Times]
  <2>1. NeverRun \in Times /\ seen \in [Runner -> Times]
    BY NeverRunTyped DEF TickInv, TickTypeOK
  <2> HIDE DEF Times
  <2> QED
    BY <2>1
<1> USE TickConstants DEF TickInv, TickTypeOK, HandlersHaveEntries, InsiderHolds, Inside,
                          Stage, Enters, Never
<1>1. CASE BeginTick(r)
  BY <1>1 DEF BeginTick
<1>2. CASE BreakTickLock(r)
  BY <1>2 DEF BreakTickLock, Loses
<1>3. CASE AcquireTickLock(r)
  <2>1. seen' \in [Runner -> Times] /\ clock' = clock
    BY <1>0, <1>3 DEF AcquireTickLock
  <2>2. /\ tickLock' \in Runner \cup {Nobody} /\ stamp' \in {Never} \cup 0..clock
        /\ tickLock' = Nobody => stamp' = Never
        /\ stage' \in [Runner -> Stage] /\ broken' \in BOOLEAN
        /\ UNCHANGED <<position, startedAt, lastRun>>
    BY <1>3 DEF AcquireTickLock
  <2>3. HandlersHaveEntries' /\ InsiderHolds'
    BY <1>3 DEF AcquireTickLock
  <2> QED
    BY <2>1, <2>2, <2>3
<1>4. CASE StampLock(r)
  BY <1>4 DEF StampLock
<1>5. CASE CallHandler(r)
  BY <1>5 DEF CallHandler
<1>6. CASE SkipEntry(r)
  BY <1>6 DEF SkipEntry
<1>7. CASE HandlerSettles(r)
  <2> USE <1>7 DEF HandlerSettles
  <2>1. position[r] \in 1..Len(Jobs)
    OBVIOUS
  <2>2. position' \in [Runner -> 1..(Len(Jobs) + 1)]
    BY <2>1
  <2>3. lastRun' \in [DOMAIN Jobs -> {Never} \cup 0..clock]
    <3>1. lastRun \in [DOMAIN Jobs -> {Never} \cup 0..clock] /\ clock \in {Never} \cup 0..clock
      OBVIOUS
    <3>2. lastRun' \in {lastRun, [lastRun EXCEPT ![position[r]] = clock]}
      OBVIOUS
    <3> HIDE <1>7 DEF HandlerSettles, TickInv, TickTypeOK, Never, InsiderHolds, HandlersHaveEntries
    <3> QED
      BY <3>1, <3>2, <2>1, FieldSet
  <2>4. stage' \in [Runner -> Stage] /\ startedAt' \in [Runner -> 0..clock]
    OBVIOUS
  <2>5. HandlersHaveEntries' /\ InsiderHolds'
    OBVIOUS
  <2> QED
    BY <2>2, <2>3, <2>4, <2>5
<1>8. CASE ReleaseTickLock(r)
  <2>1. seen' \in [Runner -> Times] /\ clock' = clock
    BY <1>0, <1>8 DEF ReleaseTickLock
  <2>2. /\ tickLock' \in Runner \cup {Nobody} /\ stamp' = Never
        /\ stage' \in [Runner -> Stage] /\ broken' \in BOOLEAN
        /\ position' \in [Runner -> 1..(Len(Jobs) + 1)]
        /\ UNCHANGED <<startedAt, lastRun>>
    BY <1>8 DEF ReleaseTickLock
  <2>3. HandlersHaveEntries' /\ InsiderHolds'
    BY <1>8 DEF ReleaseTickLock, Loses
  <2> QED
    BY <2>1, <2>2, <2>3
<1>9. CASE RunnerDies(r)
  BY <1>9 DEF RunnerDies
<1> QED
  BY <1>1, <1>2, <1>3, <1>4, <1>5, <1>6, <1>7, <1>8, <1>9, TickStep(r) DEF TickStep

LEMMA TickNextKeeps == TickInv /\ [TickNext]_TickVars => TickInv'
<1> SUFFICES ASSUME TickInv, [TickNext]_TickVars
             PROVE  TickInv'
  OBVIOUS
<1>1. CASE \E r \in Runner : TickStep(r)
  BY <1>1, TickStepKeeps
<1>2. CASE MinutePasses
  BY <1>2, TickConstants
  DEF MinutePasses, TickInv, TickTypeOK, HandlersHaveEntries, InsiderHolds, Inside, Never
<1>3. CASE UNCHANGED TickVars
  BY <1>3 DEF TickVars, TickInv, TickTypeOK, HandlersHaveEntries, InsiderHolds, Inside
<1> QED
  BY <1>1, <1>2, <1>3 DEF TickNext

LEMMA TickInvHolds == TickSpec => []TickInv
  BY TickStarts, TickNextKeeps, PTL DEF TickSpec

\* Every field of the ticks of cron-tick-runner.ts stays in its range,
\* whatever the processes, the entries and the limits.
THEOREM TicksTyped == TickSpec => []TickTypeOK
  BY TickInvHolds, PTL DEF TickInv

\* Any number of processes, dying wherever they like: two are inside a tick
\* only after breakStaleLock or a release removed a living process's lock.
THEOREM TicksStayApart == TickSpec => []TicksApart
<1>1. TickInv => TicksApart
  BY DEF TickInv, InsiderHolds, TicksApart
<1> QED
  BY <1>1, TickInvHolds, PTL

-----------------------------------------------------------------------------
(* The store.                                                              *)

\* Who is in a change has one; unless changes overlapped, one process is in
\* one at a time, it will write what was acknowledged with its change made,
\* and the temporary file is its own and not the store.
ChangersChange == \A p \in Editor : Active(p) => change[p] \in Changes
OneActive == \A p, q \in Editor : Active(p) /\ Active(q) => p = q
ActiveLoaded ==
    \A p \in Editor : Active(p) => loaded[p] = Changed(promised, change[p])
TempOwned ==
    /\ temp # NoFile => temp # store
    /\ \A p \in Editor :
           /\ doing[p] \in {"writing", "renaming"} => temp # NoFile /\ fd[p] = temp
           /\ doing[p] = "writing" => content[temp] = Empty
           /\ doing[p] = "renaming" => content[temp] = Whole(loaded[p])
StoreSaved ==
    IF store = NoFile THEN promised = NoEntries ELSE content[store] = Whole(promised)
StoreInv ==
    /\ StoreTypeOK /\ ChangersChange
    /\ ~overlapped => OneActive /\ ActiveLoaded /\ TempOwned /\ StoreSaved

LEMMA StoreStarts == StoreInit => StoreInv
<1> SUFFICES ASSUME StoreInit
             PROVE  StoreInv
  OBVIOUS
<1>1. NoEntries \in Entries
  BY DEF NoEntries, Entries
<1>2. content \in Seq(Contents) /\ Len(content) = 0
  BY DEF StoreInit
<1>3. StoreTypeOK
  <2>1. NoChange \in Changes \cup {NoChange} /\ 0 \in 0..MaxEdits /\ 0 \in 0..Len(content)
    BY <1>2, StoreAssumption
  <2> QED
    BY <1>1, <1>2, <2>1 DEF StoreInit, StoreTypeOK, NoFile
<1>4. ChangersChange /\ OneActive /\ ActiveLoaded /\ TempOwned /\ StoreSaved
  BY DEF StoreInit, ChangersChange, OneActive, ActiveLoaded, TempOwned, StoreSaved, Active, NoFile
<1> QED
  BY <1>3, <1>4 DEF StoreInv

\* What a change begins with is a store.
LEMMA LoadTyped ==
    ASSUME StoreTypeOK
    PROVE  Load \in Entries
  BY DEF StoreTypeOK, Load, Entries, NoEntries, NoFile, Contents, Empty, Torn, Whole

\* A store that was saved is loaded as it was saved.
LEMMA LoadSaved ==
    ASSUME StoreSaved
    PROVE  Load = promised
  BY DEF StoreSaved, Load, Whole

LEMMA ChangedTyped ==
    ASSUME NEW es \in Entries, NEW c \in Changes
    PROVE  Changed(es, c) \in Entries
  BY DEF Changed, Entries, Changes

\* What a file holds is replaced; a name of no file changes nothing.
LEMMA FileReplaced ==
    ASSUME NEW S, NEW files \in Seq(S), NEW n, NEW e \in S
    PROVE  /\ [files EXCEPT ![n] = e] \in Seq(S)
           /\ Len([files EXCEPT ![n] = e]) = Len(files)
           /\ \A i \in 1..Len(files) : i # n => [files EXCEPT ![n] = e][i] = files[i]
           /\ n \in 1..Len(files) => [files EXCEPT ![n] = e][n] = e
<1>1. CASE n \in 1..Len(files)
  BY <1>1, ExceptSeq
<1>2. CASE n \notin 1..Len(files)
  <2>1. [files EXCEPT ![n] = e] = files
    BY <1>2
  <2> QED
    BY <1>2, <2>1
<1> QED
  BY <1>1, <1>2

LEMMA ContentsKnown ==
    Empty \in Contents /\ Torn \in Contents /\ \A es \in Entries : Whole(es) \in Contents
  BY DEF Contents

\* A step opens a new file, or replaces what one file holds, or neither.
LEMMA FilesTyped ==
    ASSUME StoreTypeOK, NEW p \in Editor, StoreStep(p)
    PROVE  content' \in Seq(Contents) /\ Len(content') >= Len(content)
<1>1. content \in Seq(Contents) /\ Whole(loaded[p]) \in Contents /\ Len(content) \in Nat
  BY ContentsKnown DEF StoreTypeOK
<1>2. \A n : \A e \in Contents :
         [content EXCEPT ![n] = e] \in Seq(Contents) /\ Len([content EXCEPT ![n] = e]) = Len(content)
  BY <1>1, FileReplaced
<1>3. Append(content, Empty) \in Seq(Contents) /\ Len(Append(content, Empty)) = Len(content) + 1
  BY <1>1, ContentsKnown, AppendProperties
<1>4. \/ content' = content
      \/ content' = Append(content, Empty)
      \/ content' = [content EXCEPT ![temp] = Empty]
      \/ content' = [content EXCEPT ![fd[p]] = Whole(loaded[p])]
      \/ content' = [content EXCEPT ![fd[p]] = Torn]
  BY StoreStep(p) DEF StoreStep, BeginChange, OpenTemp, WriteTemp, RenameTemp, EditorDies
<1> QED
  BY <1>1, <1>2, <1>3, <1>4, ContentsKnown

\* The steps of one process keep the types.
LEMMA StoreStepTyped ==
    ASSUME StoreTypeOK, ChangersChange, NEW p \in Editor, StoreStep(p)
    PROVE  StoreTypeOK'
<1>0. content' \in Seq(Contents) /\ Len(content') >= Len(content)
  BY FilesTyped
<1> USE <1>0 DEF StoreTypeOK, Does, NoFile
<1>1. ASSUME NEW c \in Changes, BeginChange(p, c)
      PROVE  StoreTypeOK'
  <2>1. Changed(Load, c) \in Entries
    BY LoadTyped, ChangedTyped
  <2>2. overlapped' \in BOOLEAN /\ edits' \in 0..MaxEdits
    BY <1>1, StoreAssumption DEF BeginChange
  <2> QED
    BY <1>1, <2>1, <2>2 DEF BeginChange
<1>2. CASE OpenTemp(p)
  <2>1. Len(Append(content, Empty)) = Len(content) + 1
    BY ContentsKnown, AppendProperties
  <2>2. temp' \in 0..Len(content')
    BY <1>2, <2>1 DEF OpenTemp
  <2>3. fd' = [fd EXCEPT ![p] = temp'] /\ fd \in [Editor -> 0..Len(content')]
    BY <1>2 DEF OpenTemp
  <2>4. fd' \in [Editor -> 0..Len(content')]
    BY <2>2, <2>3
  <2>5. store' \in 0..Len(content')
    BY <1>2 DEF OpenTemp
  <2>6. /\ doing' \in [Editor -> {"idle", "opening", "writing", "renaming", "dead"}]
        /\ change' = change /\ loaded' = loaded /\ edits' = edits
        /\ promised' = promised /\ overlapped' = overlapped
    BY <1>2 DEF OpenTemp
  <2>7. {temp', store'} \subseteq 0..Len(content')
    BY <2>2, <2>5
  <2> QED
    BY <2>4, <2>6, <2>7
<1>3. CASE WriteTemp(p)
  BY <1>3 DEF WriteTemp
<1>4. CASE RenameTemp(p)
  <2>1. NoEntries \in Entries
    BY DEF NoEntries, Entries
  <2>2. change[p] \in Changes
    BY <1>4 DEF RenameTemp, ChangersChange, Active
  <2>3. promised' \in Entries
    BY <1>4, <2>2, ChangedTyped DEF RenameTemp
  <2> QED
    BY <1>4, <2>1, <2>3 DEF RenameTemp
<1>5. CASE EditorDies(p)
  BY <1>5 DEF EditorDies
<1> QED
  BY <1>1, <1>2, <1>3, <1>4, <1>5 DEF StoreStep

LEMMA StoreStepChanges ==
    ASSUME StoreTypeOK, ChangersChange, NEW p \in Editor, StoreStep(p)
    PROVE  ChangersChange'
  BY DEF StoreStep, BeginChange, OpenTemp, WriteTemp, RenameTemp, EditorDies,
         StoreTypeOK, ChangersChange, Active, Does

LEMMA StoreNextTyped ==
    StoreTypeOK /\ ChangersChange /\ [StoreNext]_StoreVars => StoreTypeOK' /\ ChangersChange'
<1> SUFFICES ASSUME StoreTypeOK, ChangersChange, [StoreNext]_StoreVars
             PROVE  StoreTypeOK' /\ ChangersChange'
  OBVIOUS
<1>1. CASE StoreNext
  BY <1>1, StoreStepTyped, StoreStepChanges DEF StoreNext
<1>2. CASE UNCHANGED StoreVars
  BY <1>2 DEF StoreVars, StoreTypeOK, ChangersChange, Active
<1> QED
  BY <1>1, <1>2

\* What holds while no two changes overlapped.
StoreKept == OneActive /\ ActiveLoaded /\ TempOwned /\ StoreSaved

\* A change that overlaps none begins with what was acknowledged.
LEMMA BeginKeeps ==
    ASSUME StoreTypeOK, StoreKept, NEW p \in Editor, NEW c \in Changes,
           BeginChange(p, c), ~overlapped'
    PROVE  StoreKept'
<1>1. \A q \in Editor : ~Active(q)
  BY DEF BeginChange
<1>2. \A q \in Editor : Active(q)' => q = p
  BY <1>1 DEF BeginChange, Active, Does, StoreTypeOK
<1>3. change'[p] = c /\ loaded'[p] = Changed(promised, c)
  BY LoadSaved DEF BeginChange, StoreKept, StoreTypeOK
<1>4. OneActive'
  BY <1>2 DEF OneActive
<1>5. ActiveLoaded'
  BY <1>2, <1>3 DEF ActiveLoaded, BeginChange, Changed
<1>6. TempOwned'
  BY <1>1 DEF TempOwned, StoreKept, BeginChange, Active, Does, StoreTypeOK
<1>7. StoreSaved'
  BY DEF StoreSaved, StoreKept, BeginChange
<1> QED
  BY <1>4, <1>5, <1>6, <1>7 DEF StoreKept

\* Opening the temporary file leaves the store's alone.
LEMMA OpenKeeps ==
    ASSUME StoreTypeOK, StoreKept, NEW p \in Editor, OpenTemp(p)
    PROVE  StoreKept'
<1> DEFINE n == Len(content) + 1
<1>1. /\ Len(content) \in Nat /\ temp \in 0..Len(content) /\ store \in 0..Len(content)
      /\ content \in Seq(Contents)
  BY DEF StoreTypeOK
<1>2. /\ \A i \in 1..Len(content) : Append(content, Empty)[i] = content[i]
      /\ Append(content, Empty)[n] = Empty
  BY <1>1, ContentsKnown, AppendProperties
<1>3. temp # NoFile =>
        /\ [content EXCEPT ![temp] = Empty][temp] = Empty
        /\ \A i \in 1..Len(content) : i # temp => [content EXCEPT ![temp] = Empty][i] = content[i]
  BY <1>1, ContentsKnown, FileReplaced DEF NoFile
<1>4. /\ temp' # NoFile /\ temp' # store /\ content'[temp'] = Empty
      /\ store # NoFile => content'[store] = content[store]
  BY <1>1, <1>2, <1>3 DEF OpenTemp, StoreKept, TempOwned, NoFile
<1>5. \A q \in Editor : Active(q) => q = p
  BY DEF OpenTemp, StoreKept, OneActive, Active
<1>6. OneActive'
  BY <1>5 DEF OneActive, Active, OpenTemp, Does, StoreTypeOK
<1>7. ActiveLoaded'
  BY <1>5 DEF StoreKept, ActiveLoaded, Active, OpenTemp, Does, StoreTypeOK
<1>8. TempOwned'
  BY <1>4, <1>5 DEF TempOwned, Active, OpenTemp, Does, StoreTypeOK
<1>9. StoreSaved'
  BY <1>4 DEF StoreKept, StoreSaved, OpenTemp
<1> QED
  BY <1>6, <1>7, <1>8, <1>9 DEF StoreKept

\* The writer replaces what its own temporary file holds.
LEMMA WriteKeeps ==
    ASSUME StoreTypeOK, StoreKept, NEW p \in Editor, WriteTemp(p)
    PROVE  StoreKept'
<1>1. /\ content \in Seq(Contents) /\ temp \in 0..Len(content) /\ store \in 0..Len(content)
      /\ Len(content) \in Nat /\ Whole(loaded[p]) \in Contents
  BY ContentsKnown DEF StoreTypeOK
<1>2. temp # NoFile /\ fd[p] = temp /\ content[temp] = Empty /\ temp # store
  BY DEF WriteTemp, StoreKept, TempOwned
<1>3. content' = [content EXCEPT ![temp] = Whole(loaded[p])]
  BY <1>2 DEF WriteTemp
<1>4. /\ content'[temp] = Whole(loaded[p])
      /\ store # NoFile => content'[store] = content[store]
  BY <1>1, <1>2, <1>3, FileReplaced DEF NoFile
<1>5. \A q \in Editor : Active(q) => q = p
  BY DEF WriteTemp, StoreKept, OneActive, Active
<1>6. OneActive'
  BY <1>5 DEF OneActive, Active, WriteTemp, Does, StoreTypeOK
<1>7. ActiveLoaded'
  BY <1>5 DEF StoreKept, ActiveLoaded, Active, WriteTemp, Does, StoreTypeOK
<1>8. TempOwned'
  BY <1>2, <1>4, <1>5 DEF TempOwned, Active, WriteTemp, Does, StoreTypeOK
<1>9. StoreSaved'
  BY <1>4 DEF StoreKept, StoreSaved, WriteTemp
<1> QED
  BY <1>6, <1>7, <1>8, <1>9 DEF StoreKept

\* The rename makes the change and its acknowledgement one step.
LEMMA RenameKeeps ==
    ASSUME StoreTypeOK, StoreKept, NEW p \in Editor, RenameTemp(p)
    PROVE  StoreKept'
<1>1. temp # NoFile /\ content[temp] = Whole(Changed(promised, change[p]))
  BY DEF RenameTemp, StoreKept, TempOwned, ActiveLoaded, Active
<1>2. store' = temp /\ temp' = NoFile /\ promised' = Changed(promised, change[p]) /\ content' = content
  BY <1>1 DEF RenameTemp
<1>3. \A q \in Editor : ~Active(q)'
  BY DEF RenameTemp, StoreKept, OneActive, Active, Does, StoreTypeOK
<1>4. OneActive' /\ ActiveLoaded' /\ TempOwned'
  BY <1>2, <1>3 DEF OneActive, ActiveLoaded, TempOwned, Active, RenameTemp, Does, StoreTypeOK
<1>5. StoreSaved'
  BY <1>1, <1>2 DEF StoreSaved
<1> QED
  BY <1>4, <1>5 DEF StoreKept

\* What a process that dies leaves behind is not the store.
LEMMA DeathKeeps ==
    ASSUME StoreTypeOK, StoreKept, NEW p \in Editor, EditorDies(p)
    PROVE  StoreKept'
<1>1. /\ content \in Seq(Contents) /\ temp \in 0..Len(content) /\ store \in 0..Len(content)
      /\ Len(content) \in Nat
  BY DEF StoreTypeOK
<1>2. \/ content' = content
      \/ /\ temp # NoFile /\ temp # store
         /\ content' = [content EXCEPT ![temp] = Torn]
  BY DEF EditorDies, StoreKept, TempOwned
<1>3. store # NoFile => content'[store] = content[store]
  BY <1>1, <1>2, ContentsKnown, FileReplaced DEF NoFile
<1>4. \A q \in Editor : ~Active(q)'
  BY DEF EditorDies, StoreKept, OneActive, Active, Does, StoreTypeOK
<1>5. OneActive' /\ ActiveLoaded' /\ TempOwned'
  BY <1>4 DEF OneActive, ActiveLoaded, TempOwned, Active, EditorDies, Does, StoreTypeOK, StoreKept
<1>6. StoreSaved'
  BY <1>3 DEF EditorDies, StoreKept, StoreSaved
<1> QED
  BY <1>5, <1>6 DEF StoreKept

LEMMA StoreNextKeeps == StoreInv /\ [StoreNext]_StoreVars => StoreInv'
<1> SUFFICES ASSUME StoreInv, [StoreNext]_StoreVars
             PROVE  StoreInv'
  OBVIOUS
<1>1. StoreTypeOK /\ StoreTypeOK' /\ ChangersChange'
  BY StoreNextTyped DEF StoreInv
<1>2. ASSUME ~overlapped'
      PROVE  StoreKept'
  <2>1. ASSUME NEW p \in Editor, StoreStep(p)
        PROVE  StoreKept'
    <3>1. ~overlapped
      BY <1>2, <2>1 DEF StoreStep, BeginChange, OpenTemp, WriteTemp, RenameTemp, EditorDies
    <3>2. StoreKept
      BY <3>1 DEF StoreInv, StoreKept
    <3>3. ASSUME NEW c \in Changes, BeginChange(p, c)
          PROVE  StoreKept'
      BY <1>1, <1>2, <3>2, <3>3, BeginKeeps
    <3> QED
      BY <1>1, <2>1, <3>2, <3>3, OpenKeeps, WriteKeeps, RenameKeeps, DeathKeeps DEF StoreStep
  <2>2. CASE UNCHANGED StoreVars
    BY <1>2, <2>2
    DEF StoreVars, StoreInv, StoreKept, OneActive, ActiveLoaded, TempOwned, StoreSaved, Active
  <2> QED
    BY <2>1, <2>2 DEF StoreNext
<1> QED
  BY <1>1, <1>2 DEF StoreInv, StoreKept

\* Every field of the store's model stays in its range.
THEOREM StoreTyped == StoreSpec => []StoreTypeOK
<1>1. StoreInv => StoreTypeOK
  BY DEF StoreInv
<1> QED
  BY <1>1, StoreStarts, StoreNextKeeps, PTL DEF StoreSpec

\* Any number of processes that change the cron store and may die anywhere in
\* the write: as long as no two changes overlapped, cron.json holds exactly
\* the acknowledged changes.
THEOREM ChangesAreSaved == StoreSpec => []SavedUnlessOverlapped
<1>1. StoreInv => SavedUnlessOverlapped
  BY DEF StoreInv, StoreSaved, SavedUnlessOverlapped
<1> QED
  BY <1>1, StoreStarts, StoreNextKeeps, PTL DEF StoreSpec

-----------------------------------------------------------------------------
(* The background shells.                                                  *)

\* An exit is only reported of a process that is over, or could not be
\* spawned; an entry's deletion is due only after its exit; a shell that was
\* not started has no process.
ExitsAreReal ==
    /\ \A s \in exited : process[s] \in {"ended", "failed"}
    /\ deletion \subseteq exited
    /\ \A s \in Shell : s > started => process[s] = "none"
ShellInv == ShellTypeOK /\ ExitsAreReal /\ StraysAreKilled

LEMMA ShellStarts == ShellInit => ShellInv
  BY ShellAssumption
  DEF ShellInit, ShellInv, ShellTypeOK, ExitsAreReal, StraysAreKilled, Shell

\* SIGTERM goes to a shell that was looked up, whatever it is by now.
LEMMA TerminateKeeps ==
    ASSUME ShellInv, NEW s \in 1..started, Terminate(s),
           started' = started, exited' = exited, deletion' = deletion,
           asked' \in [Kill -> 0..started]
    PROVE  ShellInv'
<1> USE ShellAssumption DEF ShellInv, ShellTypeOK, Shell
<1>1. ShellTypeOK'
  BY DEF Terminate
<1>2. ExitsAreReal' /\ StraysAreKilled'
  BY SMTT(40) DEF Terminate, ExitsAreReal, StraysAreKilled
<1> QED
  BY <1>1, <1>2

LEMMA ShellNextKeeps == ShellInv /\ [ShellNext]_ShellVars => ShellInv'
<1> SUFFICES ASSUME ShellInv, [ShellNext]_ShellVars
             PROVE  ShellInv'
  OBVIOUS
<1> USE ShellAssumption DEF ShellInv, ShellTypeOK, ExitsAreReal, StraysAreKilled, Shell, Ends
<1>1. CASE StartShell
  BY <1>1 DEF StartShell
<1>2. ASSUME NEW s \in Shell, ProcessEnds(s)
      PROVE  ShellInv'
  BY <1>2 DEF ProcessEnds
<1>3. ASSUME NEW s \in Shell, ExitReported(s) \/ SpawnErrorReported(s)
      PROVE  ShellInv'
  BY <1>3 DEF ExitReported, SpawnErrorReported
<1>4. ASSUME NEW s \in Shell, DeletionDue(s)
      PROVE  ShellInv'
  BY <1>4 DEF DeletionDue
<1>5. ASSUME NEW s \in Shell, EscalationDue(s)
      PROVE  ShellInv'
  BY <1>5 DEF EscalationDue
<1>6. ASSUME NEW k \in Kill, NEW s \in Shell, KillShell(k, s)
      PROVE  ShellInv'
  BY <1>6, TerminateKeeps DEF KillShell
<1>7. ASSUME NEW k \in Kill, KillApproved(k)
      PROVE  ShellInv'
  BY <1>7, TerminateKeeps DEF KillApproved
<1>8. ASSUME NEW k \in Kill, KillDenied(k)
      PROVE  ShellInv'
  BY <1>8 DEF KillDenied
<1>9. CASE UNCHANGED ShellVars
  BY <1>9 DEF ShellVars
<1> QED
  BY <1>1, <1>2, <1>3, <1>4, <1>5, <1>6, <1>7, <1>8, <1>9 DEF ShellNext

\* Any number of shells and of overlapping calls of kill_shell: no process
\* that runs is out of the registry's reach without its SIGKILL on the way.
THEOREM StraysAlwaysKilled == ShellSpec => []StraysAreKilled
<1>1. ShellInv => StraysAreKilled
  BY DEF ShellInv
<1> QED
  BY <1>1, ShellStarts, ShellNextKeeps, PTL DEF ShellSpec

-----------------------------------------------------------------------------
(* The checkpoints.                                                        *)

\* A commit is its own ancestor, and the ancestors of its ancestors are its own.
Made == 1..Len(commits)
PastsClosed ==
    /\ Len(commits) <= MaxCommits
    /\ \A c \in Made :
         /\ c \in commits[c].past /\ commits[c].past \subseteq Made
         /\ \A d \in commits[c].past : commits[d].past \subseteq commits[c].past

\* The store holds the ancestors and the trees of what it holds.
StoreClosed ==
    \A c \in stored : commits[c].past \subseteq stored /\ commits[c].tree \in trees

\* A commit belongs to one process: it is listed by at most one, for its own
\* workspace, and the one a process is about to list is newer than those it has
\* listed, and nobody else's.
Making(m) == ckptStage[m] \in {"ref", "record"}
CommitsOwned ==
    /\ \A m \in Manager : \A e \in listed[m] : e.root = RootOf[m] /\ e.commit \in Made
    /\ \A m, n \in Manager : \A e \in listed[m], d \in listed[n] : m # n => e.commit # d.commit
    /\ \A m \in Manager : Making(m) =>
         /\ commitSha[m] \in Made
         /\ \A n \in Manager : \A d \in listed[n] : d.commit # commitSha[m]
         /\ \A d \in listed[m] : d.commit <= commitSha[m]
         /\ \A n \in Manager : n # m /\ Making(n) => commitSha[n] # commitSha[m]

\* What a process is about to commit is what git add saw, unless another
\* process used the index; and a ref keeps what it is about to list.
ContentSeen ==
    \A m \in Manager :
        /\ ckptStage[m] = "tree" => shadowIndex[IndexOf(m)] = captured[m] \/ intruded[m]
        /\ ckptStage[m] = "commit" => treeSha[m] = captured[m] \/ intruded[m]
        /\ Making(m) => commits[commitSha[m]].tree = captured[m] \/ intruded[m]
        /\ ckptStage[m] = "record" => commitSha[m] \in refs

\* A turn that counts as checkpointed has its commit, behind a ref.
TurnsKept ==
    \A m \in Manager : turnDone[m] =>
        /\ ckptStage[m] \in {"idle", "gc", "save"}
        /\ \E e \in Latest(listed[m]) :
              e.commit \in refs /\ (commits[e.commit].tree = captured[m] \/ intruded[m])

CheckpointInv ==
    CheckpointTypeOK /\ PastsClosed /\ StoreClosed /\ CommitsOwned /\ ContentSeen /\ TurnsKept

LEMMA CheckpointStarts == CheckpointInit => CheckpointInv
<1> SUFFICES ASSUME CheckpointInit PROVE CheckpointInv
  OBVIOUS
<1> USE CheckpointAssumption DEF CheckpointInit
<1>1. CheckpointTypeOK
  BY DEF CheckpointTypeOK, Tree, Project
<1>2. PastsClosed /\ StoreClosed /\ CommitsOwned /\ ContentSeen /\ TurnsKept
  BY DEF PastsClosed, StoreClosed, CommitsOwned, ContentSeen, TurnsKept, Making, Made
<1> QED
  BY <1>1, <1>2 DEF CheckpointInv

\* The places a process writes to.
LEMMA CheckpointPlaces ==
    /\ \A m \in Manager : RootOf[m] \in Workspace /\ IndexOf(m) \in Project
    /\ \A w \in Workspace, v \in 0..MaxVersion : <<w, v>> \in Tree
  BY CheckpointAssumption DEF IndexOf, Project, Tree

\* A commit that is added is the last; the earlier ones stay.
LEMMA CommitAdded ==
    ASSUME NEW S, NEW s \in Seq(S), NEW e \in S
    PROVE  /\ Append(s, e) \in Seq(S) /\ Len(Append(s, e)) = Len(s) + 1
           /\ Append(s, e)[Len(s) + 1] = e
           /\ \A c \in 1..Len(s) : Append(s, e)[c] = s[c]
  BY AppendProperties

LEMMA CommitsTyped ==
    ASSUME CheckpointTypeOK, PastsClosed, NEW c \in Made
    PROVE  commits[c].tree \in Tree /\ commits[c].past \subseteq Made
<1>1. commits[c] \in [tree : Tree, past : SUBSET (1..MaxCommits)]
  BY ElementOfSeq DEF CheckpointTypeOK, Made
<1> QED
  BY <1>1 DEF PastsClosed

\* The latest of a list is the one no other is newer than.
LEMMA LatestListed ==
    ASSUME NEW L PROVE Latest(L) \subseteq L
  BY DEF Latest

LEMMA CheckpointTypesKept ==
    ASSUME CheckpointInv, NEW m \in Manager, CheckpointStep(m)
    PROVE  CheckpointTypeOK'
<1> USE CheckpointPlaces DEF CheckpointInv, CheckpointTypeOK, Enter, Happens
<1>0. MaxEvents \in Nat /\ MaxCommits \in Nat /\ events + 1 \in Nat
  BY CheckpointAssumption
<1> HIDE DEF Tree, Checkpoint
<1>1. CASE StartManager(m)
  BY <1>1 DEF StartManager, storeVars
<1>2. CASE StartTurn(m)
  BY <1>2 DEF StartTurn, storeVars
<1>3. CASE AddAll(m)
  <2>1. shadowIndex' \in [Project -> Tree \union {NoTree}] /\ trees' \subseteq Tree /\ captured' \in [Manager -> Tree \union {NoTree}]
    BY <1>3 DEF AddAll
  <2>2. intruded' \in [Manager -> BOOLEAN]
    BY <1>3 DEF AddAll
  <2> QED
    BY <1>3, <2>1, <2>2 DEF AddAll
<1>4. CASE WriteTree(m)
  BY <1>4 DEF WriteTree, storeVars
<1>5. CASE CommitTree(m)
  <2> USE <1>5 DEF CommitTree
  <2> DEFINE new == Len(commits) + 1
             past == {new} \union UNION {commits[c].past : c \in {e.commit : e \in Latest(listed[m])}}
             commit == [tree |-> treeSha[m],
                        past |-> past]
             Commit == [tree : Tree, past : SUBSET (1..MaxCommits)]
  <2>1. commits' = Append(commits, commit) /\ Len(commits) < MaxCommits
    OBVIOUS
  <2>2. commit \in Commit
    <3>1. new \in 1..MaxCommits
      BY <1>0, <2>1
    <3>2. \A c \in {e.commit : e \in Latest(listed[m])} : c \in stored
      OBVIOUS
    <3>3. \A c \in stored : commits[c].past \subseteq 1..MaxCommits
      <4>1. \A c \in stored : c \in Made
        BY DEF Made
      <4>2. Made \subseteq 1..MaxCommits
        BY <1>0, <2>1 DEF Made
      <4>3. \A c \in stored : commits[c].past \subseteq Made
        BY <4>1, CommitsTyped
      <4> QED
        BY <4>2, <4>3
    <3>4. treeSha[m] \in Tree
      OBVIOUS
    <3>5. past \subseteq 1..MaxCommits
      BY ZenonT(60), <3>1, <3>2, <3>3
    <3> HIDE DEF past
    <3> QED
      BY <3>4, <3>5
  <2>3. commits' \in Seq(Commit) /\ Len(commits') = Len(commits) + 1
    <3> HIDE DEF commit, Commit, CommitTree
    <3>1. commits \in Seq(Commit)
      BY DEF Commit
    <3> QED
      BY <2>1, <2>2, <3>1, CommitAdded
  <2>4. stored' \subseteq 1..Len(commits') /\ refs' \subseteq stored' /\ headLog' \subseteq stored'
    <3>1. stored' = stored \union {Len(commits) + 1} /\ refs' = refs /\ headLog' = headLog
      OBVIOUS
    <3>2. Len(commits) \in Nat
      OBVIOUS
    <3> HIDE DEF CommitTree, CheckpointTypeOK
    <3>3. stored \subseteq 1..Len(commits) /\ refs \subseteq stored /\ headLog \subseteq stored
      BY DEF CheckpointTypeOK
    <3>4. 1..Len(commits') = 1..Len(commits) \union {Len(commits) + 1}
      BY <2>3, <3>2
    <3> QED
      BY <3>1, <3>3, <3>4
  <2>5. commitSha' \in [Manager -> 0..Len(commits')]
    BY <2>3
  <2>6. treeSha' \in [Manager -> Tree \union {NoTree}]
    OBVIOUS
  <2>7. ckptStage' \in [Manager -> {"off", "idle", "tree", "commit", "ref", "record", "gc", "save"}]
    OBVIOUS
  <2> QED
    BY <2>3, <2>4, <2>5, <2>6, <2>7
<1>6. CASE UpdateRef(m)
  BY <1>6 DEF UpdateRef
<1>7. CASE RecordCheckpoint(m)
  <2>1. [commit |-> commitSha[m], root |-> RootOf[m], ref |-> RefPrefix] \in Checkpoint
    BY <1>7, <1>0 DEF RecordCheckpoint, Checkpoint, CommitsOwned, Making, Made, PastsClosed
  <2>2. listed' \in [Manager -> SUBSET Checkpoint]
    BY <2>1, <1>7 DEF RecordCheckpoint
  <2> QED
    BY <2>2, <1>7 DEF RecordCheckpoint
<1>8. CASE GitFails(m)
  BY <1>8, <1>0 DEF GitFails, Forget, storeVars
<1>9. CASE Restore(m)
  <2>1. PICK e \in listed[m] : e.commit \in stored
          /\ workTree' = [workTree EXCEPT ![RootOf[m]] = commits[e.commit].tree]
          /\ shadowIndex' = [shadowIndex EXCEPT ![IndexOf(m)] = commits[e.commit].tree]
          /\ headLog' = headLog \union {e.commit}
    BY <1>9 DEF Restore
  <2>2. commits[e.commit].tree \in Tree
    BY <2>1, CommitsTyped DEF Made
  <2>3. workTree' \in [Workspace -> Tree] /\ shadowIndex' \in [Project -> Tree \union {NoTree}]
    BY <2>1, <2>2
  <2>4. intruded' \in [Manager -> BOOLEAN]
    BY <1>9 DEF Restore, Intrude
  <2>5. headLog' \subseteq stored /\ events' \in 0..MaxEvents
    <3>1. headLog' \subseteq stored
      BY <2>1
    <3>2. events < MaxEvents /\ events' = events + 1
      BY <1>9 DEF Restore
    <3> QED
      BY <3>1, <3>2, <1>0
  <2>6. UNCHANGED <<trees, commits, stored, refs, manifest, parsed, captured,
                    ckptStage, listed, turnDone, treeSha, commitSha>>
    BY <1>9 DEF Restore, managerVars
  <2>7. /\ trees' \subseteq Tree /\ refs' \subseteq stored' /\ stored' \subseteq 1..Len(commits')
        /\ headLog' \subseteq stored' /\ manifest' \subseteq Checkpoint
        /\ commits' \in Seq([tree : Tree, past : SUBSET (1..MaxCommits)])
    BY <2>5, <2>6
  <2>8. /\ ckptStage' \in [Manager -> {"off", "idle", "tree", "commit", "ref", "record", "gc", "save"}]
        /\ listed' \in [Manager -> SUBSET Checkpoint]
        /\ turnDone' \in [Manager -> BOOLEAN]
        /\ treeSha' \in [Manager -> Tree \union {NoTree}]
        /\ commitSha' \in [Manager -> 0..Len(commits')]
        /\ parsed' \in [Manager -> SUBSET Checkpoint]
        /\ captured' \in [Manager -> Tree \union {NoTree}]
    BY <2>6
  <2> QED
    BY <2>3, <2>4, <2>5, <2>7, <2>8
<1>10. CASE PruneRefs(m)
  <2>1. refs' \subseteq refs
    BY <1>10 DEF PruneRefs
  <2>2. listed' \in [Manager -> SUBSET Checkpoint]
    BY <1>10 DEF PruneRefs
  <2>3. /\ events' \in 0..MaxEvents
        /\ ckptStage' \in [Manager -> {"off", "idle", "tree", "commit", "ref", "record", "gc", "save"}]
        /\ parsed' \in [Manager -> SUBSET Checkpoint]
    BY <1>10, <1>0 DEF PruneRefs
  <2>4. UNCHANGED <<workTree, shadowIndex, trees, commits, stored, headLog, manifest,
                    turnDone, treeSha, commitSha, captured, intruded>>
    BY <1>10 DEF PruneRefs
  <2> QED
    BY <2>1, <2>2, <2>3, <2>4
<1>11. CASE CollectGarbage(m)
  <2>1. refs \union headLog \subseteq Reached
    BY DEF Reached, PastsClosed, Made
  <2>2. trees' \subseteq Tree /\ stored' \subseteq stored /\ refs \subseteq stored' /\ headLog \subseteq stored'
    <3>1. \A c \in stored : commits[c].tree \in Tree
      BY CommitsTyped DEF Made
    <3>2. stored' \subseteq stored /\ refs \subseteq stored' /\ headLog \subseteq stored'
      BY <1>11, <2>1 DEF CollectGarbage
    <3>3. commits' = commits
      BY <1>11 DEF CollectGarbage
    <3> QED
      BY <1>11, <3>1, <3>2, <3>3 DEF CollectGarbage
  <2> QED
    BY <2>2, <1>11 DEF CollectGarbage
<1>12. CASE SavePruned(m)
  BY <1>12 DEF SavePruned
<1>13. CASE ManagerDies(m)
  BY <1>13, <1>0 DEF ManagerDies, Forget, storeVars
<1> QED
  BY <1>1, <1>2, <1>3, <1>4, <1>5, <1>6, <1>7, <1>8, <1>9, <1>10, <1>11, <1>12, <1>13 DEF CheckpointStep

\* The commit that a process adds.
ParentsOf(m) == {e.commit : e \in Latest(listed[m])}
LEMMA CommitMade ==
    ASSUME CheckpointInv, NEW m \in Manager, CommitTree(m)
    PROVE  /\ Made' = Made \union {Len(commits) + 1} /\ Len(commits) + 1 \notin Made
           /\ Len(commits') <= MaxCommits
           /\ \A c \in Made : commits'[c] = commits[c]
           /\ commits'[Len(commits) + 1].tree = treeSha[m]
           /\ commits'[Len(commits) + 1].past =
                  {Len(commits) + 1} \union UNION {commits[c].past : c \in ParentsOf(m)}
<1> DEFINE past == {Len(commits) + 1} \union UNION {commits[c].past : c \in ParentsOf(m)}
           commit == [tree |-> treeSha[m], past |-> past]
           Commit == [tree : Tree, past : SUBSET (1..MaxCommits)]
<1>1. /\ commits' = Append(commits, commit) /\ Len(commits) < MaxCommits
      /\ treeSha[m] \in Tree /\ ParentsOf(m) \subseteq stored
  BY DEF CommitTree, ParentsOf, CheckpointInv, CheckpointTypeOK
<1>2. MaxCommits \in Nat /\ Len(commits) \in Nat /\ stored \subseteq Made
  BY CheckpointAssumption DEF CheckpointInv, CheckpointTypeOK, Made
<1>3. \A c \in ParentsOf(m) : commits[c].past \subseteq 1..MaxCommits
  <2>1. \A c \in ParentsOf(m) : commits[c].past \subseteq Made
    BY <1>1, <1>2, CommitsTyped DEF CheckpointInv
  <2> QED
    BY <2>1, <1>1, <1>2 DEF Made
<1>4. past \subseteq 1..MaxCommits
  BY <1>1, <1>2, <1>3
<1>5. commit \in Commit /\ commit.tree = treeSha[m] /\ commit.past = past
  <2> HIDE DEF past
  <2> QED
    BY <1>1, <1>4
<1>6. commits \in Seq(Commit)
  BY DEF CheckpointInv, CheckpointTypeOK
<1> HIDE DEF commit, Commit
<1>7. /\ Len(commits') = Len(commits) + 1
      /\ commits'[Len(commits) + 1] = commit
      /\ \A c \in 1..Len(commits) : commits'[c] = commits[c]
  BY <1>1, <1>5, <1>6, CommitAdded
<1>8. Made' = Made \union {Len(commits) + 1} /\ Len(commits) + 1 \notin Made
  BY <1>2, <1>7 DEF Made
<1> QED
  BY <1>1, <1>2, <1>5, <1>7, <1>8 DEF Made

LEMMA StoreStaysClosed ==
    ASSUME CheckpointInv, NEW m \in Manager, CheckpointStep(m)
    PROVE  PastsClosed' /\ StoreClosed'
<1>0. stored \subseteq Made
  BY DEF CheckpointInv, CheckpointTypeOK, Made
<1>1. CASE UNCHANGED <<commits, stored>> /\ trees \subseteq trees'
  BY <1>1 DEF CheckpointInv, PastsClosed, StoreClosed, Made
<1>2. CASE CommitTree(m)
  <2> DEFINE new == Len(commits) + 1
  <2>1. /\ Made' = Made \union {new} /\ new \notin Made
        /\ Len(commits') <= MaxCommits
        /\ \A c \in Made : commits'[c] = commits[c]
        /\ commits'[new].tree = treeSha[m]
        /\ commits'[new].past = {new} \union UNION {commits[c].past : c \in ParentsOf(m)}
    BY <1>2, CommitMade
  <2>2. /\ ParentsOf(m) \subseteq stored /\ treeSha[m] \in trees
        /\ stored' = stored \union {new} /\ trees' = trees
    BY <1>2 DEF CommitTree, ParentsOf
  <2> HIDE DEF new
  <2>3. ASSUME NEW c \in Made'
        PROVE  /\ c \in commits'[c].past /\ commits'[c].past \subseteq Made'
               /\ \A d \in commits'[c].past : commits'[d].past \subseteq commits'[c].past
    <3>1. CASE c \in Made
      BY <3>1, <2>1 DEF CheckpointInv, PastsClosed
    <3>2. CASE c = new
      <4>1. \A p \in ParentsOf(m) : p \in Made /\ commits[p].past \subseteq Made
        BY <1>0, <2>2 DEF CheckpointInv, PastsClosed
      <4>2. commits'[c].past \subseteq Made'
        BY <3>2, <2>1, <4>1
      <4>3. ASSUME NEW d \in commits'[c].past PROVE commits'[d].past \subseteq commits'[c].past
        <5>1. CASE d = new
          BY <5>1, <3>2
        <5>2. CASE \E p \in ParentsOf(m) : d \in commits[p].past
          <6>1. PICK p \in ParentsOf(m) : d \in commits[p].past
            BY <5>2
          <6>2. d \in Made /\ commits[d].past \subseteq commits[p].past
            BY <6>1, <4>1 DEF CheckpointInv, PastsClosed
          <6> QED
            BY <6>1, <6>2, <2>1, <3>2
        <5> QED
          BY <5>1, <5>2, <3>2, <2>1
      <4> QED
        BY <4>2, <4>3, <3>2, <2>1
    <3> QED
      BY <3>1, <3>2, <2>1
  <2>4. PastsClosed'
    BY <2>1, <2>3 DEF PastsClosed
  <2>5. ASSUME NEW c \in stored'
        PROVE  commits'[c].past \subseteq stored' /\ commits'[c].tree \in trees'
    <3>1. CASE c \in stored
      BY <3>1, <1>0, <2>1, <2>2 DEF CheckpointInv, StoreClosed
    <3>2. CASE c = new
      <4>1. \A p \in ParentsOf(m) : commits[p].past \subseteq stored
        BY <2>2 DEF CheckpointInv, StoreClosed
      <4> QED
        BY <4>1, <3>2, <2>1, <2>2
    <3> QED
      BY <3>1, <3>2, <2>2
  <2> QED
    BY <2>4, <2>5 DEF StoreClosed
<1>3. CASE CollectGarbage(m)
  <2>1. commits' = commits
    BY <1>3 DEF CollectGarbage
  <2>2. CASE stored' = stored \intersect Reached /\ trees' = {commits[c].tree : c \in stored'}
    <3>1. ASSUME NEW c \in stored' PROVE commits[c].past \subseteq stored'
      <4>1. PICK r \in refs \union headLog : c \in commits[r].past
        BY <2>2 DEF Reached
      <4>2. r \in Made /\ c \in stored
        BY <1>0, <2>2 DEF CheckpointInv, CheckpointTypeOK
      <4>3. commits[c].past \subseteq commits[r].past
        BY <4>1, <4>2 DEF CheckpointInv, PastsClosed
      <4>4. commits[c].past \subseteq stored
        BY <4>2 DEF CheckpointInv, StoreClosed
      <4> QED
        BY <4>1, <4>3, <4>4, <2>2 DEF Reached
    <3> QED
      BY <3>1, <2>1, <2>2 DEF CheckpointInv, PastsClosed, StoreClosed, Made
  <2> QED
    BY <1>1, <2>1, <2>2, <1>3 DEF CollectGarbage
<1>4. CASE AddAll(m)
  BY <1>1, <1>4 DEF AddAll
<1> QED
  BY <1>1, <1>2, <1>3, <1>4
     DEF CheckpointStep, StartManager, StartTurn, WriteTree, UpdateRef, RecordCheckpoint,
         GitFails, Restore, PruneRefs, SavePruned, ManagerDies, storeVars

\* Nothing that was written to the manifest is accepted when it is read.
LEMMA NothingLoaded ==
    ASSUME CheckpointTypeOK PROVE {e \in manifest : ValidEntry(e)} = {}
<1>1. \A e \in manifest : e.ref = RefPrefix
  BY DEF CheckpointTypeOK, Checkpoint
<1> QED
  BY <1>1 DEF ValidEntry, RefPrefix

\* Lists that only lose entries, and processes that do not come to have a
\* commit in the making, leave every commit with its owner.
LEMMA OwnersStay ==
    ASSUME CheckpointInv, Made \subseteq Made',
           \A n \in Manager : listed'[n] \subseteq listed[n],
           \A n \in Manager : Making(n)' => Making(n) /\ commitSha'[n] = commitSha[n]
    PROVE  CommitsOwned'
  BY DEF CheckpointInv, CommitsOwned

LEMMA OwnersKept ==
    ASSUME CheckpointInv, NEW m \in Manager, CheckpointStep(m)
    PROVE  CommitsOwned'
<1>0. /\ ckptStage \in [Manager -> {"off", "idle", "tree", "commit", "ref", "record", "gc", "save"}]
      /\ listed \in [Manager -> SUBSET Checkpoint]
      /\ commitSha \in [Manager -> 0..Len(commits)]
  BY DEF CheckpointInv, CheckpointTypeOK
<1> USE <1>0 DEF Making, Enter
<1>1. CASE StartManager(m)
  <2>1. \A n \in Manager : listed'[n] \subseteq listed[n]
    BY <1>1, NothingLoaded DEF StartManager, CheckpointInv
  <2> QED
    BY <1>1, <2>1, OwnersStay DEF StartManager, storeVars, Made
<1>2. CASE StartTurn(m)
  BY <1>2, OwnersStay DEF StartTurn, storeVars, Made
<1>3. CASE AddAll(m)
  BY <1>3, OwnersStay DEF AddAll, Made
<1>4. CASE WriteTree(m)
  BY <1>4, OwnersStay DEF WriteTree, storeVars, Made
<1>5. CASE CommitTree(m)
  <2> DEFINE new == Len(commits) + 1
  <2>1. Made' = Made \union {new} /\ new \notin Made /\ \A c \in Made : c <= new
    BY <1>5, CommitMade DEF Made, CheckpointInv, CheckpointTypeOK
  <2>2. /\ listed' = listed
        /\ commitSha' = [commitSha EXCEPT ![m] = new]
        /\ ckptStage' = [ckptStage EXCEPT ![m] = "ref"]
    BY <1>5 DEF CommitTree
  <2> HIDE DEF new
  <2> QED
    BY <2>1, <2>2 DEF CheckpointInv, CommitsOwned
<1>6. CASE UpdateRef(m)
  BY <1>6, OwnersStay DEF UpdateRef, Made
<1>7. CASE RecordCheckpoint(m)
  <2> DEFINE entry == [commit |-> commitSha[m], root |-> RootOf[m], ref |-> RefPrefix]
  <2>1. /\ ckptStage[m] = "record" /\ ckptStage' = [ckptStage EXCEPT ![m] = "idle"]
        /\ listed' = [listed EXCEPT ![m] = @ \union {entry}]
        /\ commitSha' = [commitSha EXCEPT ![m] = 0]
        /\ Made' = Made
    BY <1>7 DEF RecordCheckpoint, Made
  <2>2. entry.commit = commitSha[m] /\ entry.root = RootOf[m]
    OBVIOUS
  <2> HIDE DEF entry
  <2>3. \A n \in Manager : \A e \in listed'[n] : e \in listed[n] \/ (n = m /\ e = entry)
    BY <2>1
  <2>4. \A n \in Manager : Making(n)' => n # m /\ Making(n) /\ commitSha'[n] = commitSha[n]
    BY <2>1
  <2>5. \A n \in Manager : \A e \in listed'[n] : e.root = RootOf[n] /\ e.commit \in Made'
    BY <2>1, <2>2, <2>3 DEF CheckpointInv, CommitsOwned
  <2>6. \A n, k \in Manager : \A e \in listed'[n], d \in listed'[k] : n # k => e.commit # d.commit
    BY <2>1, <2>2, <2>3 DEF CheckpointInv, CommitsOwned
  <2>7. ASSUME NEW n \in Manager, Making(n)'
        PROVE  /\ commitSha'[n] \in Made'
               /\ \A k \in Manager : \A d \in listed'[k] : d.commit # commitSha'[n]
               /\ \A d \in listed'[n] : d.commit <= commitSha'[n]
               /\ \A k \in Manager : k # n /\ Making(k)' => commitSha'[k] # commitSha'[n]
    <3>1. n # m /\ Making(n) /\ commitSha'[n] = commitSha[n]
      BY <2>4, <2>7
    <3>2. \A d \in listed'[n] : d \in listed[n]
      BY <2>3, <3>1
    <3>3. \A k \in Manager : \A d \in listed'[k] : d.commit # commitSha'[n]
      BY <2>1, <2>2, <2>3, <3>1 DEF CheckpointInv, CommitsOwned
    <3> QED
      BY <2>1, <2>4, <3>1, <3>2, <3>3 DEF CheckpointInv, CommitsOwned
  <2> QED
    BY <2>5, <2>6, <2>7 DEF CommitsOwned
<1>8. CASE GitFails(m)
  BY <1>8, OwnersStay DEF GitFails, Forget, storeVars, Made
<1>9. CASE Restore(m)
  BY <1>9, OwnersStay DEF Restore, managerVars, Made
<1>10. CASE PruneRefs(m)
  <2>1. \A n \in Manager : listed'[n] \subseteq listed[n]
    BY <1>10 DEF PruneRefs
  <2> QED
    BY <1>10, <2>1, OwnersStay DEF PruneRefs, Made
<1>11. CASE CollectGarbage(m)
  BY <1>11, OwnersStay DEF CollectGarbage, Made
<1>12. CASE SavePruned(m)
  BY <1>12, OwnersStay DEF SavePruned, Made
<1>13. CASE ManagerDies(m)
  BY <1>13, OwnersStay DEF ManagerDies, Forget, storeVars, Made
<1> QED
  BY <1>1, <1>2, <1>3, <1>4, <1>5, <1>6, <1>7, <1>8, <1>9, <1>10, <1>11, <1>12, <1>13 DEF CheckpointStep

\* What is in the making is in the store's numbering.
LEMMA MakingMade ==
    ASSUME CheckpointInv, NEW n \in Manager, Making(n) PROVE commitSha[n] \in Made
  BY DEF CheckpointInv, CommitsOwned

LEMMA ContentKept ==
    ASSUME CheckpointInv, NEW m \in Manager, CheckpointStep(m)
    PROVE  ContentSeen'
<1>0. /\ ckptStage \in [Manager -> {"off", "idle", "tree", "commit", "ref", "record", "gc", "save"}]
      /\ shadowIndex \in [Project -> Tree \union {NoTree}]
      /\ treeSha \in [Manager -> Tree \union {NoTree}]
      /\ commitSha \in [Manager -> 0..Len(commits)]
      /\ captured \in [Manager -> Tree \union {NoTree}]
      /\ intruded \in [Manager -> BOOLEAN]
      /\ listed \in [Manager -> SUBSET Checkpoint]
  BY DEF CheckpointInv, CheckpointTypeOK
<1>i. \A n \in Manager : IndexOf(n)' = IndexOf(n) /\ IndexOf(n) \in Project
  BY CheckpointPlaces DEF IndexOf
<1> USE <1>0, <1>i DEF Making, Enter
<1> HIDE DEF IndexOf
<1>1. CASE StartManager(m)
  BY <1>1 DEF StartManager, storeVars, CheckpointInv, ContentSeen
<1>2. CASE StartTurn(m)
  BY <1>2 DEF StartTurn, storeVars, CheckpointInv, ContentSeen
<1>3. CASE AddAll(m)
  BY <1>3 DEF AddAll, CheckpointInv, ContentSeen
<1>4. CASE WriteTree(m)
  BY <1>4 DEF WriteTree, storeVars, CheckpointInv, ContentSeen
<1>5. CASE CommitTree(m)
  <2> DEFINE new == Len(commits) + 1
  <2>1. /\ \A c \in Made : commits'[c] = commits[c]
        /\ commits'[new].tree = treeSha[m]
    BY <1>5, CommitMade
  <2>2. /\ commitSha' = [commitSha EXCEPT ![m] = new] /\ ckptStage[m] = "commit"
        /\ ckptStage' = [ckptStage EXCEPT ![m] = "ref"]
        /\ treeSha' = [treeSha EXCEPT ![m] = NoTree]
        /\ UNCHANGED <<shadowIndex, refs, captured, intruded>>
    BY <1>5 DEF CommitTree
  <2> HIDE DEF new
  <2>3. \A n \in Manager : Making(n) => commitSha[n] \in Made
    BY MakingMade
  <2> QED
    BY <2>1, <2>2, <2>3 DEF CheckpointInv, ContentSeen
<1>6. CASE UpdateRef(m)
  BY <1>6 DEF UpdateRef, CheckpointInv, ContentSeen
<1>7. CASE RecordCheckpoint(m)
  BY <1>7 DEF RecordCheckpoint, CheckpointInv, ContentSeen
<1>8. CASE GitFails(m)
  BY <1>8 DEF GitFails, Forget, storeVars, CheckpointInv, ContentSeen
<1>9. CASE Restore(m)
  <2>1. PICK e \in listed[m] :
          shadowIndex' = [shadowIndex EXCEPT ![IndexOf(m)] = commits[e.commit].tree]
    BY <1>9 DEF Restore
  <2>2. /\ ckptStage[m] = "idle" /\ ckptStage' = ckptStage
        /\ intruded' = [n \in Manager |->
              intruded[n] \/ (n # m /\ ckptStage[n] = "tree" /\ IndexOf(n) = IndexOf(m))]
        /\ UNCHANGED <<commits, refs, treeSha, commitSha, captured>>
    BY <1>9 DEF Restore, Intrude, managerVars
  <2> QED
    BY <2>1, <2>2 DEF CheckpointInv, ContentSeen
<1>10. CASE PruneRefs(m)
  <2>1. /\ ckptStage[m] = "idle" /\ ckptStage' = [ckptStage EXCEPT ![m] = "gc"]
        /\ UNCHANGED <<shadowIndex, commits, treeSha, commitSha, captured, intruded>>
        /\ \E old \in SUBSET listed[m] : refs \ refs' \subseteq {e.commit : e \in old}
    BY <1>10 DEF PruneRefs
  <2>2. \A n \in Manager : Making(n) => \A d \in listed[m] : d.commit # commitSha[n]
    BY DEF CheckpointInv, CommitsOwned
  <2>3. \A n \in Manager : Making(n) /\ commitSha[n] \in refs => commitSha[n] \in refs'
    BY <2>1, <2>2
  <2>4. \A n \in Manager : n # m => ckptStage'[n] = ckptStage[n]
    BY <2>1
  <2>5. ckptStage'[m] = "gc"
    BY <2>1
  <2> QED
    BY <2>1, <2>3, <2>4, <2>5 DEF CheckpointInv, ContentSeen
<1>11. CASE CollectGarbage(m)
  BY <1>11 DEF CollectGarbage, CheckpointInv, ContentSeen
<1>12. CASE SavePruned(m)
  BY <1>12 DEF SavePruned, CheckpointInv, ContentSeen
<1>13. CASE ManagerDies(m)
  BY <1>13 DEF ManagerDies, Forget, storeVars, CheckpointInv, ContentSeen
<1> QED
  BY <1>1, <1>2, <1>3, <1>4, <1>5, <1>6, <1>7, <1>8, <1>9, <1>10, <1>11, <1>12, <1>13 DEF CheckpointStep

\* A turn keeps its checkpoint when the process lists what it listed, and the
\* ref is still there.
LEMMA TurnStays ==
    ASSUME CheckpointInv, NEW n \in Manager, turnDone[n], turnDone'[n],
           ckptStage'[n] \in {"idle", "gc", "save"}, listed'[n] = listed[n],
           captured'[n] = captured[n], intruded[n] => intruded'[n],
           \A c \in Made : commits'[c] = commits[c],
           \A e \in listed[n] : e.commit \in refs => e.commit \in refs'
    PROVE  \E e \in Latest(listed'[n]) :
              e.commit \in refs' /\ (commits'[e.commit].tree = captured'[n] \/ intruded'[n])
<1>1. PICK e \in Latest(listed[n]) :
         e.commit \in refs /\ (commits[e.commit].tree = captured[n] \/ intruded[n])
  BY DEF CheckpointInv, TurnsKept
<1>2. e \in listed[n] /\ e.commit \in Made
  BY <1>1, LatestListed DEF CheckpointInv, CommitsOwned
<1> QED
  BY <1>1, <1>2

LEMMA TurnsStayKept ==
    ASSUME CheckpointInv, NEW m \in Manager, CheckpointStep(m)
    PROVE  TurnsKept'
<1> SUFFICES ASSUME NEW n \in Manager, turnDone'[n]
             PROVE  /\ ckptStage'[n] \in {"idle", "gc", "save"}
                    /\ \E e \in Latest(listed'[n]) :
                          e.commit \in refs' /\ (commits'[e.commit].tree = captured'[n] \/ intruded'[n])
  BY DEF TurnsKept, Latest
<1>0. /\ ckptStage \in [Manager -> {"off", "idle", "tree", "commit", "ref", "record", "gc", "save"}]
      /\ commitSha \in [Manager -> 0..Len(commits)]
      /\ captured \in [Manager -> Tree \union {NoTree}]
      /\ turnDone \in [Manager -> BOOLEAN] /\ intruded \in [Manager -> BOOLEAN]
      /\ listed \in [Manager -> SUBSET Checkpoint]
  BY DEF CheckpointInv, CheckpointTypeOK
<1>t. turnDone[n] => ckptStage[n] \in {"idle", "gc", "save"}
  BY DEF CheckpointInv, TurnsKept
<1> USE <1>0, <1>t DEF Enter
<1>1. CASE StartManager(m)
  BY <1>1, TurnStays DEF StartManager, storeVars
<1>2. CASE StartTurn(m)
  BY <1>2, TurnStays DEF StartTurn, storeVars
<1>3. CASE AddAll(m)
  BY <1>3, TurnStays DEF AddAll
<1>4. CASE WriteTree(m)
  BY <1>4, TurnStays DEF WriteTree, storeVars
<1>5. CASE CommitTree(m)
  BY <1>5, TurnStays, CommitMade DEF CommitTree
<1>6. CASE UpdateRef(m)
  BY <1>6, TurnStays DEF UpdateRef
<1>7. CASE RecordCheckpoint(m)
  <2>1. CASE n # m
    BY <1>7, <2>1, TurnStays DEF RecordCheckpoint
  <2>2. CASE n = m
    <3> DEFINE entry == [commit |-> commitSha[m], root |-> RootOf[m], ref |-> RefPrefix]
    <3>1. /\ ckptStage[m] = "record" /\ ckptStage' = [ckptStage EXCEPT ![m] = "idle"]
          /\ listed' = [listed EXCEPT ![m] = @ \union {entry}]
          /\ UNCHANGED <<commits, refs, captured, intruded>>
      BY <1>7 DEF RecordCheckpoint
    <3>2. entry.commit = commitSha[m]
      OBVIOUS
    <3>3. /\ \A d \in listed[m] : d.commit <= commitSha[m]
          /\ commitSha[m] \in refs
          /\ commits[commitSha[m]].tree = captured[m] \/ intruded[m]
          /\ commitSha[m] <= commitSha[m]
      BY <3>1 DEF CheckpointInv, CommitsOwned, ContentSeen, Making
    <3> HIDE DEF entry
    <3>4. listed'[m] = listed[m] \union {entry}
      BY <3>1
    <3>5. entry \in Latest(listed'[m])
      BY <3>2, <3>3, <3>4 DEF Latest
    <3> QED
      BY <2>2, <3>1, <3>2, <3>3, <3>5
  <2> QED
    BY <2>1, <2>2
<1>8. CASE GitFails(m)
  BY <1>8, TurnStays DEF GitFails, Forget, storeVars
<1>9. CASE Restore(m)
  BY <1>9, TurnStays DEF Restore, Intrude, managerVars
<1>10. CASE PruneRefs(m)
  <2>1. /\ ckptStage[m] = "idle" /\ ckptStage' = [ckptStage EXCEPT ![m] = "gc"]
        /\ UNCHANGED <<commits, turnDone, captured, intruded>>
    BY <1>10 DEF PruneRefs
  <2>2. CASE n # m
    <3>1. \E old \in SUBSET listed[m] : refs \ refs' \subseteq {e.commit : e \in old}
      BY <1>10 DEF PruneRefs
    <3>2. \A e \in listed[n], d \in listed[m] : e.commit # d.commit
      BY <2>2 DEF CheckpointInv, CommitsOwned
    <3>3. \A e \in listed[n] : e.commit \in refs => e.commit \in refs'
      BY <3>1, <3>2
    <3>4. listed'[n] = listed[n]
      BY <1>10, <2>2 DEF PruneRefs
    <3> QED
      BY <2>1, <2>2, <3>3, <3>4, TurnStays
  <2>3. CASE n = m
    <3>1. PICK e \in Latest(listed[m]) :
             e.commit \in refs /\ (commits[e.commit].tree = captured[m] \/ intruded[m])
      BY <2>1, <2>3 DEF CheckpointInv, TurnsKept
    <3>2. PICK old \in SUBSET (listed[m] \ Latest(listed[m])) :
             /\ listed' = [listed EXCEPT ![m] = @ \ old]
             /\ refs \ refs' \subseteq {d.commit : d \in old}
      BY <1>10, <2>1, <2>3 DEF PruneRefs
    <3>3. e \in listed'[m] /\ \A d \in listed'[m] : d.commit <= e.commit
      BY <3>1, <3>2 DEF Latest
    <3>4. ASSUME NEW d \in old PROVE d.commit # e.commit
      BY <3>1, <3>2 DEF Latest
    <3>5. e.commit \in refs'
      BY <3>1, <3>2, <3>4
    <3>6. e \in Latest(listed'[m])
      BY <3>3 DEF Latest
    <3>7. ckptStage'[m] = "gc"
      BY <2>1
    <3> QED
      BY <2>1, <2>3, <3>1, <3>5, <3>6, <3>7
  <2> QED
    BY <2>2, <2>3
<1>11. CASE CollectGarbage(m)
  BY <1>11, TurnStays DEF CollectGarbage
<1>12. CASE SavePruned(m)
  BY <1>12, TurnStays DEF SavePruned
<1>13. CASE ManagerDies(m)
  BY <1>13, TurnStays DEF ManagerDies, Forget, storeVars
<1> QED
  BY <1>1, <1>2, <1>3, <1>4, <1>5, <1>6, <1>7, <1>8, <1>9, <1>10, <1>11, <1>12, <1>13 DEF CheckpointStep

\* A change of files and a step in which nothing happens.
LEMMA FilesChange ==
    ASSUME CheckpointInv, NEW w \in Workspace, ChangeFiles(w)
    PROVE  CheckpointInv'
<1>1. workTree' \in [Workspace -> Tree] /\ events' \in 0..MaxEvents
  <2>1. PICK v \in 0..MaxVersion : workTree' = [workTree EXCEPT ![w] = <<w, v>>]
    BY DEF ChangeFiles
  <2>2. workTree' \in [Workspace -> Tree]
    <3>1. <<w, v>> \in Tree /\ workTree \in [Workspace -> Tree]
      BY CheckpointPlaces DEF CheckpointInv, CheckpointTypeOK
    <3> HIDE DEF Tree
    <3> QED
      BY <2>1, <3>1
  <2>3. events' \in 0..MaxEvents
    BY CheckpointAssumption DEF ChangeFiles, Happens, CheckpointInv, CheckpointTypeOK
  <2> QED
    BY <2>2, <2>3
<1>2. UNCHANGED <<shadowIndex, trees, commits, stored, refs, headLog, manifest,
                  managerVars, parsed, captured, intruded>>
  BY DEF ChangeFiles
<1>3. CheckpointTypeOK'
  BY <1>1, <1>2 DEF CheckpointInv, CheckpointTypeOK, managerVars
<1>4. /\ PastsClosed' /\ StoreClosed' /\ CommitsOwned' /\ TurnsKept'
  BY <1>2 DEF CheckpointInv, PastsClosed, StoreClosed, CommitsOwned, TurnsKept, Making, Made,
              managerVars, Latest
<1>5. ContentSeen'
  BY <1>2 DEF CheckpointInv, ContentSeen, Making, managerVars, IndexOf
<1> QED
  BY <1>3, <1>4, <1>5 DEF CheckpointInv

LEMMA CheckpointInvKept == CheckpointInv /\ [CheckpointNext]_CheckpointVars => CheckpointInv'
<1> SUFFICES ASSUME CheckpointInv, [CheckpointNext]_CheckpointVars
             PROVE  CheckpointInv'
  OBVIOUS
<1>1. ASSUME NEW m \in Manager, CheckpointStep(m) PROVE CheckpointInv'
  BY <1>1, CheckpointTypesKept, StoreStaysClosed, OwnersKept, ContentKept, TurnsStayKept
     DEF CheckpointInv
<1>2. ASSUME NEW w \in Workspace, ChangeFiles(w) PROVE CheckpointInv'
  BY <1>2, FilesChange
<1>3. CASE UNCHANGED CheckpointVars
  <2> USE <1>3 DEF CheckpointVars, storeVars, managerVars
  <2>1. CheckpointTypeOK'
    BY DEF CheckpointInv, CheckpointTypeOK
  <2>2. PastsClosed' /\ StoreClosed' /\ CommitsOwned' /\ TurnsKept'
    BY DEF CheckpointInv, PastsClosed, StoreClosed, CommitsOwned, TurnsKept, Making, Made, Latest
  <2>3. ContentSeen'
    BY DEF CheckpointInv, ContentSeen, Making, IndexOf
  <2> QED
    BY <2>1, <2>2, <2>3 DEF CheckpointInv
<1> QED
  BY <1>1, <1>2, <1>3 DEF CheckpointNext

LEMMA RollbackFollows == CheckpointInv => RollbackExists
<1> SUFFICES ASSUME CheckpointInv, NEW m \in Manager, turnDone[m]
             PROVE  \E e \in Latest(listed[m]) :
                       /\ e.root = RootOf[m]
                       /\ e.commit \in refs
                       /\ commits[e.commit].past \subseteq stored
                       /\ \A c \in commits[e.commit].past : commits[c].tree \in trees
                       /\ commits[e.commit].tree = captured[m] \/ intruded[m]
  BY DEF RollbackExists
<1>1. PICK e \in Latest(listed[m]) :
         e.commit \in refs /\ (commits[e.commit].tree = captured[m] \/ intruded[m])
  BY DEF CheckpointInv, TurnsKept
<1>2. e.root = RootOf[m]
  BY <1>1, LatestListed DEF CheckpointInv, CommitsOwned
<1>3. e.commit \in stored
  BY <1>1 DEF CheckpointInv, CheckpointTypeOK
<1>4. commits[e.commit].past \subseteq stored
  BY <1>3 DEF CheckpointInv, StoreClosed
<1>5. \A c \in commits[e.commit].past : commits[c].tree \in trees
  BY <1>4 DEF CheckpointInv, StoreClosed
<1> QED
  BY <1>1, <1>2, <1>4, <1>5

\* Rollback points exist, for any number of processes and workspaces, whether
\* or not their names collide, and wherever git fails, a process dies, or
\* another one restores, prunes or collects garbage (checkpoint-manager.ts):
\* a turn counts as checkpointed only while its commit, its ancestors and
\* their content are in the store behind a ref.
THEOREM RollbacksExist == CheckpointSpec => []RollbackExists
<1>1. CheckpointSpec => []CheckpointInv
  BY CheckpointStarts, CheckpointInvKept, PTL DEF CheckpointSpec
<1> QED
  BY <1>1, RollbackFollows, PTL

-----------------------------------------------------------------------------
(* The audit log.  As long as nothing was forced, a living process that    *)
(* created the lock file still has it, so that there is at most one; what  *)
(* it read is the hash of the last line until it has written its own; and  *)
(* the lines are whole, each naming the one before it.  ChainUnlessForced  *)
(* alone says nothing of the hash a process is about to write.             *)

Alive(p) == at[p] # "dead"

Exclusive == \A p \in owns : Alive(p) => lock = p
Fresh == \A p \in owns : at[p] = "ready" => last[p] = LastHash
LinesWhole ==
    \A i \in DOMAIN file : file[i].ok /\ file[i].ended /\ file[i].prev = i - 1

AuditInv == AuditTypeOK /\ (~forced => Exclusive /\ Fresh /\ LinesWhole)

-----------------------------------------------------------------------------

\* The hash of the last line is a position of the file, or GENESIS.
LEMMA LastHashRange ==
    ASSUME file \in Seq(Line)
    PROVE  LastHash \in Nat
BY DEF LastHash, Genesis, Line

\* In a file of whole lines it is the position of the last one.
LEMMA LastHashOfWhole ==
    ASSUME file \in Seq(Line), LinesWhole
    PROVE  LastHash = Len(file)
<1>1. Len(file) \in Nat /\ DOMAIN file = 1..Len(file)
  OBVIOUS
<1>2. CASE file = <<>>
  BY <1>2 DEF LastHash, Genesis
<1>3. CASE file # <<>>
  <2>1. Len(file) \in DOMAIN file
    BY <1>1, <1>3
  <2>. QED  BY <1>3, <2>1 DEF LastHash, LinesWhole
<1>. QED  BY <1>2, <1>3

\* LinesWhole lines form a chain that verifies.
LEMMA WholeVerifies ==
    ASSUME file \in Seq(Line), LinesWhole
    PROVE  ChainVerifies
<1>. SUFFICES ASSUME NEW i \in DOMAIN file
              PROVE  Linked(i)
  BY DEF ChainVerifies
<1>1. i \in Nat /\ i >= 1 /\ \A j \in 1..(i - 1) : j \in DOMAIN file
  OBVIOUS
<1>. DEFINE before == {j \in 1..(i - 1) : file[j].ok}
<1>2. before = 1..(i - 1)
  BY <1>1 DEF LinesWhole
<1>3. file[i].prev = i - 1
  BY DEF LinesWhole
<1>4. CASE i = 1
  BY <1>2, <1>3, <1>4 DEF Linked, Genesis
<1>5. CASE i # 1
  <2>. DEFINE latest == CHOOSE j \in before : \A k \in before : k <= j
  <2>1. i - 1 \in before /\ \A k \in before : k <= i - 1
    BY <1>1, <1>2, <1>5
  <2>2. latest \in before /\ \A k \in before : k <= latest
    BY <2>1
  <2>3. latest = i - 1
    BY <1>1, <1>2, <2>1, <2>2
  <2>. QED  BY <1>3, <2>1, <2>3 DEF Linked
<1>. QED  BY <1>4, <1>5

\* An entry after whole lines that names the last of them leaves them whole.
LEMMA AppendKeepsWhole ==
    ASSUME file \in Seq(Line), LinesWhole, file' = WithEntry(LastHash)
    PROVE  LinesWhole'
<1>1. Len(file) \in Nat /\ DOMAIN file = 1..Len(file)
  OBVIOUS
<1>2. file # <<>> => file[Len(file)].ended
  BY <1>1 DEF LinesWhole
<1>. DEFINE entry == [prev |-> Len(file), ok |-> TRUE, ended |-> TRUE]
<1>3. file' = Append(file, entry)
  BY <1>2, LastHashOfWhole DEF WithEntry
<1>4. entry \in Line
  BY <1>1 DEF Line
<1>5. /\ Len(file') = Len(file) + 1 /\ DOMAIN file' = 1..(Len(file) + 1)
      /\ file'[Len(file) + 1] = entry
      /\ \A i \in 1..Len(file) : file'[i] = file[i]
  BY <1>3, <1>4, AppendProperties
<1>. QED
  <2>. SUFFICES ASSUME NEW i \in DOMAIN file'
                PROVE  file'[i].ok /\ file'[i].ended /\ file'[i].prev = i - 1
    BY DEF LinesWhole
  <2>1. CASE i = Len(file) + 1
    BY <1>1, <1>5, <2>1
  <2>2. CASE i # Len(file) + 1
    <3>1. i \in 1..Len(file)
      BY <1>1, <1>5, <2>2
    <3>. QED  BY <1>1, <1>5, <3>1 DEF LinesWhole
  <2>. QED  BY <2>1, <2>2

\* What an append makes of the file are lines.
LEMMA WithEntryRange ==
    ASSUME file \in Seq(Line), NEW hash \in Nat
    PROVE  WithEntry(hash) \in Seq(Line)
<1>. DEFINE entry == [prev |-> hash, ok |-> TRUE, ended |-> TRUE]
<1>1. CASE file # <<>> /\ ~file[Len(file)].ended
  <2>1. Len(file) \in DOMAIN file /\ file[Len(file)] \in Line
    BY <1>1
  <2>2. [file[Len(file)] EXCEPT !.ended = TRUE] \in Line
    BY <2>1 DEF Line
  <2>3. Glued = [file EXCEPT ![Len(file)] = [file[Len(file)] EXCEPT !.ended = TRUE]]
    BY DEF Glued
  <2>4. Glued \in Seq(Line)
    BY <2>1, <2>2, <2>3, ExceptSeq
  <2>. QED  BY <1>1, <2>4 DEF WithEntry
<1>2. CASE ~(file # <<>> /\ ~file[Len(file)].ended)
  <2>1. entry \in Line
    BY DEF Line
  <2>. QED  BY <1>2, <2>1, AppendProperties DEF WithEntry
<1>. QED  BY <1>1, <1>2

-----------------------------------------------------------------------------

LEMMA AuditStarts == AuditInit => AuditInv
<1>. SUFFICES ASSUME AuditInit
              PROVE  AuditInv
  OBVIOUS
<1>. USE DEF AuditInit, Genesis
<1>1. file \in Seq(Line) /\ DOMAIN file = {}
  OBVIOUS
<1>2. AuditTypeOK
  BY <1>1 DEF AuditTypeOK, At
<1>. QED  BY <1>1, <1>2 DEF AuditInv, Exclusive, Fresh, LinesWhole

\* One step of a process keeps the ranges.
LEMMA StepKeepsType ==
    ASSUME AuditTypeOK, NEW p \in Process, AuditStep(p)
    PROVE  AuditTypeOK'
<1>. USE AuditAssumption DEF AuditTypeOK, At, Goes
<1>1. CASE BeginAppend(p) \/ TakeLock(p) \/ InspectLock(p) \/ BreakLock(p) \/ GiveUp(p)
  BY <1>1 DEF BeginAppend, TakeLock, InspectLock, BreakLock, GiveUp
<1>2. CASE ReadLast(p)
  BY <1>2, LastHashRange DEF ReadLast
<1>3. CASE AppendEntry(p)
  <2>1. file' \in Seq(Line)
    BY <1>3, WithEntryRange DEF AppendEntry
  <2>. QED  BY <1>3, <2>1 DEF AppendEntry
<1>4. CASE ReleaseLock(p)
  BY <1>4 DEF ReleaseLock, Genesis
<1>5. CASE Die(p)
  <2>1. file' \in Seq(Line)
    <3>. DEFINE torn == [prev |-> last[p], ok |-> FALSE, ended |-> FALSE]
    <3>1. torn \in Line
      BY DEF Line
    <3>2. Append(file, torn) \in Seq(Line)
      BY <3>1, AppendProperties
    <3>3. file' = file \/ file' = Append(file, torn)
      BY <1>5 DEF Die
    <3>. QED  BY <3>2, <3>3
  <2>2. at' \in [Process -> At] /\ owns' = owns /\ lock' = lock /\ aged' = aged /\ last' = last
    BY <1>5 DEF Die
  <2>3. owns \subseteq {q \in Process : at'[q] \in {"holding", "ready", "written", "dead"}}
    BY <1>5 DEF Die
  <2>4. forced' \in BOOLEAN
    BY <1>5 DEF Die
  <2>. QED  BY <2>1, <2>2, <2>3, <2>4
<1>. QED  BY <1>1, <1>2, <1>3, <1>4, <1>5 DEF AuditStep

\* The steps that leave the file alone.
LEMMA QuietStep ==
    ASSUME AuditTypeOK, Exclusive, Fresh, LinesWhole, file' = file, ~forced',
           NEW p \in Process,
           \/ BeginAppend(p) \/ TakeLock(p) \/ InspectLock(p) \/ BreakLock(p) \/ GiveUp(p)
           \/ ReadLast(p) \/ ReleaseLock(p) \/ Die(p)
    PROVE  Exclusive' /\ Fresh' /\ LinesWhole'
<1>1. LinesWhole' /\ LastHash' = LastHash
  BY DEF LinesWhole, LastHash
<1>. USE AuditAssumption DEF AuditTypeOK, At, Goes, Alive, Exclusive, Fresh
<1>2. CASE BeginAppend(p) \/ InspectLock(p) \/ GiveUp(p)
  BY <1>1, <1>2 DEF BeginAppend, InspectLock, GiveUp
<1>3. CASE TakeLock(p)
  BY <1>1, <1>3 DEF TakeLock
<1>4. CASE BreakLock(p)
  BY <1>1, <1>4 DEF BreakLock
<1>5. CASE ReadLast(p)
  BY <1>1, <1>5 DEF ReadLast
<1>6. CASE ReleaseLock(p)
  BY <1>1, <1>6 DEF ReleaseLock
<1>7. CASE Die(p)
  BY <1>1, <1>7 DEF Die
<1>. QED  BY <1>2, <1>3, <1>4, <1>5, <1>6, <1>7

\* An append with the lock.
LEMMA AppendStep ==
    ASSUME AuditTypeOK, Exclusive, Fresh, LinesWhole, NEW p \in Process, AppendEntry(p), ~forced'
    PROVE  Exclusive' /\ Fresh' /\ LinesWhole'
<1>. USE AuditAssumption DEF AuditTypeOK, At, Goes, Alive, Exclusive, Fresh, AppendEntry
<1>1. p \in owns /\ lock = p
  OBVIOUS
<1>2. \A q \in owns : q # p => ~Alive(q)
  BY <1>1
<1>3. Exclusive'
  BY <1>2
<1>4. Fresh'
  BY <1>2
<1>5. last[p] = LastHash
  BY <1>1
<1>6. LinesWhole'
  BY <1>5, AppendKeepsWhole
<1>. QED  BY <1>3, <1>4, <1>6

LEMMA AuditInvStep == AuditInv /\ [AuditNext]_AuditVars => AuditInv'
<1>. SUFFICES ASSUME AuditInv, [AuditNext]_AuditVars
              PROVE  AuditInv'
  OBVIOUS
<1>. USE DEF AuditInv
<1>1. ASSUME NEW p \in Process, AuditStep(p)
      PROVE  AuditInv'
  <2>1. AuditTypeOK'
    BY <1>1, StepKeepsType
  <2>2. SUFFICES ASSUME ~forced'
                 PROVE  Exclusive' /\ Fresh' /\ LinesWhole'
    BY <2>1
  <2>3. ~forced
    BY <1>1, <2>2 DEF AuditStep, BeginAppend, TakeLock, InspectLock, BreakLock, GiveUp, ReadLast,
                      AppendEntry, ReleaseLock, Die
  <2>4. CASE AppendEntry(p)
    BY <2>2, <2>3, <2>4, AppendStep
  <2>5. CASE ~AppendEntry(p)
    <3>1. \/ BeginAppend(p) \/ TakeLock(p) \/ InspectLock(p) \/ BreakLock(p) \/ GiveUp(p)
          \/ ReadLast(p) \/ ReleaseLock(p) \/ Die(p)
      BY <1>1, <2>5 DEF AuditStep
    <3>2. file' = file
      BY <2>2, <3>1 DEF BeginAppend, TakeLock, InspectLock, BreakLock, GiveUp, ReadLast,
                        ReleaseLock, Die
    <3>. QED  BY <2>2, <2>3, <3>1, <3>2, QuietStep
  <2>. QED  BY <2>4, <2>5
<1>2. CASE LockAges
  BY <1>2 DEF LockAges, AuditTypeOK, Exclusive, Fresh, LinesWhole, Alive, LastHash
<1>3. CASE UNCHANGED AuditVars
  BY <1>3 DEF AuditVars, AuditTypeOK, Exclusive, Fresh, LinesWhole, Alive, LastHash
<1>. QED  BY <1>1, <1>2, <1>3 DEF AuditNext

-----------------------------------------------------------------------------

\* The chain verifies unless someone wrote without the lock, a living process
\* lost its lock, or one died while it was writing: for every number of
\* processes, appends and deaths.
THEOREM ChainHolds == AuditSpec => []ChainUnlessForced
<1>1. AuditInv => ChainUnlessForced
  BY WholeVerifies DEF AuditInv, ChainUnlessForced, AuditTypeOK
<1>. QED  BY AuditStarts, AuditInvStep, <1>1, PTL DEF AuditSpec
=============================================================================
