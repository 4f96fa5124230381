----------------------------- MODULE CronStore -----------------------------
(***************************************************************************)
(* The store of apps/cli/src/commands/cron.ts, changed by several          *)
(* processes: `goli cron add`, `remove`, `enable`, `disable`, and the mark *)
(* of a run.  A change loads the whole store, writes it to one temporary   *)
(* file, whose name all processes share, and renames that over the store.  *)
(* Each file operation is a step.  A file is an inode, which a process     *)
(* that opened it keeps writing to whatever its name is by then.           *)
(***************************************************************************)
EXTENDS Naturals, Sequences

CONSTANTS
    Editor,               \* processes that change the store
    Task,                 \* the ids of entries
    MaxEdits              \* bound of the model

ASSUME StoreAssumption == MaxEdits \in Nat

\* A store says of each task whether it is an entry, and in which of two
\* states, that enable, disable and a mark switch between.
Entries == [Task -> {"none", "on", "off"}]
NoEntries == [i \in Task |-> "none"]

NoFile == 0
Empty == [kind |-> "empty"]      \* opened for writing, and nothing written
Torn == [kind |-> "torn"]        \* cut short, or of two writers
Whole(es) == [kind |-> "whole", entries |-> es]
Contents == {Empty, Torn} \cup {Whole(es) : es \in Entries}
Changes == [task : Task, to : {"none", "on", "off"}]
NoChange == [to |-> "nothing"]

VARIABLES
    doing,       \* where a process is in a change
    change,      \* what it changes
    loaded,      \* the entries it will write
    fd,          \* the inode it opened
    temp,        \* the inode named cron.json.tmp
    store,       \* the inode named cron.json
    content,     \* what each inode holds
    edits,       \* the number of changes begun
    promised,    \* the entries that the acknowledged changes amount to
    overlapped   \* a change began while another was under way

StoreVars == <<doing, change, loaded, fd, temp, store, content, edits, promised, overlapped>>

StoreInit ==
    /\ doing = [p \in Editor |-> "idle"]
    /\ change = [p \in Editor |-> NoChange]
    /\ loaded = [p \in Editor |-> NoEntries]
    /\ fd = [p \in Editor |-> NoFile]
    /\ temp = NoFile
    /\ store = NoFile
    /\ content = <<>>
    /\ edits = 0
    /\ promised = NoEntries
    /\ overlapped = FALSE

Active(p) == doing[p] \notin {"idle", "dead"}
Does(p, what) == doing' = [doing EXCEPT ![p] = what]

-----------------------------------------------------------------------------

\* loadCronEntries: no file is an empty store, and so, with a warning, is one
\* that does not parse.
Load == IF store # NoFile /\ content[store].kind = "whole"
        THEN content[store].entries ELSE NoEntries

\* addCronEntry adds what is not there; removeCronEntry, setCronEnabled and
\* markCronRun change what is, and otherwise save nothing.
Possible(es, c) == es[c.task] # c.to /\ (es[c.task] = "none" => c.to = "on")
Changed(es, c) == [es EXCEPT ![c.task] = c.to]

BeginChange(p, c) ==
    /\ doing[p] = "idle"
    /\ edits < MaxEdits
    /\ Possible(Load, c)
    /\ edits' = edits + 1
    /\ change' = [change EXCEPT ![p] = c]
    /\ loaded' = [loaded EXCEPT ![p] = Changed(Load, c)]
    /\ overlapped' = (overlapped \/ \E q \in Editor : Active(q))
    /\ Does(p, "opening")
    /\ UNCHANGED <<fd, temp, store, content, promised>>

\* Mutated form of OpenTemp: the store itself is opened for writing.
OpenStore(p) ==
    /\ doing[p] = "opening"
    /\ IF store = NoFile
       THEN store' = Len(content) + 1 /\ content' = Append(content, Empty)
       ELSE store' = store /\ content' = [content EXCEPT ![store] = Empty]
    /\ fd' = [fd EXCEPT ![p] = store']
    /\ Does(p, "writing")
    /\ UNCHANGED <<change, loaded, temp, edits, promised, overlapped>>

\* writeFileSync opens the temporary file, which truncates the one that is
\* there, whoever writes it.
OpenTemp(p) ==
    /\ doing[p] = "opening"
    /\ IF temp = NoFile
       THEN temp' = Len(content) + 1 /\ content' = Append(content, Empty)
       ELSE temp' = temp /\ content' = [content EXCEPT ![temp] = Empty]
    /\ fd' = [fd EXCEPT ![p] = temp']
    /\ Does(p, "writing")
    /\ UNCHANGED <<change, loaded, store, edits, promised, overlapped>>

\* It writes from the start of the file: what another wrote there and is longer
\* stays at the end.
WriteTemp(p) ==
    /\ doing[p] = "writing"
    /\ \/ content' = [content EXCEPT ![fd[p]] = Whole(loaded[p])]
       \/ content[fd[p]] # Empty /\ content' = [content EXCEPT ![fd[p]] = Torn]
    /\ Does(p, "renaming")
    /\ UNCHANGED <<change, loaded, fd, temp, store, edits, promised, overlapped>>

\* renameSync throws if another has renamed the file already; else the change
\* is acknowledged.
RenameTemp(p) ==
    /\ doing[p] = "renaming"
    /\ IF temp = NoFile THEN UNCHANGED <<temp, store, promised>>
       ELSE /\ store' = temp
            /\ temp' = NoFile
            /\ promised' = Changed(promised, change[p])
    /\ Does(p, "idle")
    /\ change' = [change EXCEPT ![p] = NoChange]
    /\ loaded' = [loaded EXCEPT ![p] = NoEntries]
    /\ fd' = [fd EXCEPT ![p] = NoFile]
    /\ UNCHANGED <<content, edits, overlapped>>

\* A process is killed, in the middle of its write perhaps.
EditorDies(p) ==
    /\ Active(p)
    /\ \/ UNCHANGED content
       \/ doing[p] = "writing" /\ content' = [content EXCEPT ![fd[p]] = Torn]
    /\ Does(p, "dead")
    /\ UNCHANGED <<change, loaded, fd, temp, store, edits, promised, overlapped>>

StoreStep(p) ==
    \/ \E c \in Changes : BeginChange(p, c)
    \/ OpenTemp(p) \/ WriteTemp(p) \/ RenameTemp(p) \/ EditorDies(p)

StoreNext == \E p \in Editor : StoreStep(p)

StoreSpec == StoreInit /\ [][StoreNext]_StoreVars

-----------------------------------------------------------------------------

\* Ranges; the names and the descriptors are of files that exist.
StoreTypeOK ==
    /\ doing \in [Editor -> {"idle", "opening", "writing", "renaming", "dead"}]
    /\ change \in [Editor -> Changes \cup {NoChange}]
    /\ loaded \in [Editor -> Entries]
    /\ content \in Seq(Contents)
    /\ fd \in [Editor -> 0..Len(content)]
    /\ {temp, store} \subseteq 0..Len(content)
    /\ edits \in 0..MaxEdits
    /\ promised \in Entries
    /\ overlapped \in BOOLEAN

\* "Use atomic write (temp file + rename) so a process crash mid-write doesn't
\* corrupt cron.json": wherever processes die, and whatever they leave in the
\* temporary file, the store holds exactly the changes that were acknowledged,
\* unless two changes were under way at once.
SavedUnlessOverlapped ==
    ~overlapped =>
        IF store = NoFile THEN promised = NoEntries ELSE content[store] = Whole(promised)

\* "Atomic rename - readers never see a half-written file."
ReadersSeeWhole == store # NoFile => content[store].kind = "whole"
=============================================================================
