---------------------------- MODULE Checkpoints ----------------------------
(***************************************************************************)
(* The checkpoint manager (checkpoint-manager.ts): before the first change *)
(* of a turn the workspace is committed to a shadow git store that all     *)
(* processes and projects share, so that it can be rolled back.  A         *)
(* checkpoint takes four git commands and a write of the manifest;         *)
(* processes interleave between them, git may fail, and a process may die. *)
(*                                                                         *)
(* Of git the module has what the manager relies on: an index file per     *)
(* project name, trees, commits with their ancestors, refs, a HEAD that    *)
(* checkout detaches, its reflog, and a gc that only keeps what refs and   *)
(* the reflog reach: the index files of the projects do not count.  The    *)
(* content of a workspace is that of the files git add sees.               *)
(***************************************************************************)
EXTENDS Naturals, Sequences

CONSTANTS
    Manager,      \* processes with a CheckpointManager
    Workspace,
    RootOf,       \* [Manager -> Workspace]
    ProjectOf,    \* [Workspace -> names]: the base name that names the index
    NoTree,       \* an index file that is not there
    MaxVersion,   \* bound of the model: contents of a workspace
    MaxCommits,   \* bound of the model: commits ever made
    MaxEvents     \* bound of the model: changes of files, restores, prunes,
                  \* failures of git and deaths of processes

ASSUME CheckpointAssumption ==
    /\ RootOf \in [Manager -> Workspace]
    /\ DOMAIN ProjectOf = Workspace
    /\ {MaxVersion, MaxCommits, MaxEvents} \subseteq Nat

VARIABLES
    workTree,     \* the content of each workspace
    shadowIndex,  \* the tree in the index file of each project
    trees,        \* the trees in the store, with their blobs
    commits,      \* every commit made: its tree, itself and its ancestors
    stored,       \* the commits in the store
    refs,         \* those a ref under refs/checkpoints points to
    headLog,      \* the commits HEAD is or was detached at
    manifest,     \* manifest.json
    ckptStage,    \* where a process is in checkpoint() or prune()
    listed,       \* checkpoints; their order is that of their commits
    turnDone,     \* checkpointThisTurn
    treeSha, commitSha,  \* what the git commands of a checkpoint returned
    parsed,       \* history: the manifest a process read when it started, until
                  \* it takes its first checkpoint or prunes
    captured,     \* history: the content that git add saw this turn
    intruded,     \* history: another used the index before the tree was written
    events

storeVars == <<workTree, shadowIndex, trees, commits, stored, refs, headLog, manifest>>
managerVars == <<ckptStage, listed, turnDone, treeSha, commitSha>>
CheckpointVars == <<storeVars, managerVars, parsed, captured, intruded, events>>

\* What createShadowCheckpoint names refs with, and what the manifest's
\* entries must have to be loaded (validateCheckpointEntry).
RefPrefix == "refs/checkpoints/"
ValidEntry(e) == e.ref = "refs/goli/"

Tree == Workspace \X (0..MaxVersion)
Project == {ProjectOf[w] : w \in Workspace}
IndexOf(m) == ProjectOf[RootOf[m]]
\* The last of a list of checkpoints, if there is one.
Latest(list) == {e \in list : \A d \in list : d.commit <= e.commit}

Checkpoint == [commit : 1..MaxCommits, root : Workspace, ref : {RefPrefix}]

\* The store only refers to what it holds, every list to checkpoints that were
\* made, and a process is between two commands of one operation.
CheckpointTypeOK ==
    /\ workTree \in [Workspace -> Tree]
    /\ shadowIndex \in [Project -> Tree \union {NoTree}]
    /\ trees \subseteq Tree
    /\ commits \in Seq([tree : Tree, past : SUBSET (1..MaxCommits)])
    /\ refs \subseteq stored /\ stored \subseteq 1..Len(commits)
    /\ headLog \subseteq stored
    /\ manifest \subseteq Checkpoint
    /\ ckptStage \in [Manager -> {"off", "idle", "tree", "commit", "ref", "record", "gc", "save"}]
    /\ listed \in [Manager -> SUBSET Checkpoint]
    /\ turnDone \in [Manager -> BOOLEAN]
    /\ treeSha \in [Manager -> Tree \union {NoTree}]
    /\ commitSha \in [Manager -> 0..Len(commits)]
    /\ parsed \in [Manager -> SUBSET Checkpoint]
    /\ captured \in [Manager -> Tree \union {NoTree}]
    /\ intruded \in [Manager -> BOOLEAN]
    /\ events \in 0..MaxEvents

CheckpointInit ==
    /\ workTree = [w \in Workspace |-> <<w, 0>>]
    /\ shadowIndex = [p \in Project |-> NoTree]
    /\ trees = {}
    /\ commits = << >>
    /\ stored = {}
    /\ refs = {}
    /\ headLog = {}
    /\ manifest = {}
    /\ ckptStage = [m \in Manager |-> "off"]
    /\ listed = [m \in Manager |-> {}]
    /\ turnDone = [m \in Manager |-> FALSE]
    /\ treeSha = [m \in Manager |-> NoTree]
    /\ commitSha = [m \in Manager |-> 0]
    /\ parsed = [m \in Manager |-> {}]
    /\ captured = [m \in Manager |-> NoTree]
    /\ intruded = [m \in Manager |-> FALSE]
    /\ events = 0

-----------------------------------------------------------------------------

Happens == events < MaxEvents /\ events' = events + 1
Enter(m, stage) == ckptStage' = [ckptStage EXCEPT ![m] = stage]
Forget(m) ==
    /\ treeSha' = [treeSha EXCEPT ![m] = NoTree]
    /\ commitSha' = [commitSha EXCEPT ![m] = 0]
    /\ captured' = [captured EXCEPT ![m] = NoTree]
    /\ intruded' = [intruded EXCEPT ![m] = FALSE]

\* Those in the middle of a checkpoint whose index m changes.
Intrude(m) ==
    intruded' = [n \in Manager |->
        intruded[n] \/ (n # m /\ ckptStage[n] = "tree" /\ IndexOf(n) = IndexOf(m))]

\* init(): what the manifest holds and validation accepts is listed.
StartManager(m) ==
    /\ ckptStage[m] = "off"
    /\ Enter(m, "idle")
    /\ listed' = [listed EXCEPT ![m] = {e \in manifest : ValidEntry(e)}]
    /\ parsed' = [parsed EXCEPT ![m] = manifest]
    /\ UNCHANGED <<storeVars, turnDone, treeSha, commitSha, captured, intruded, events>>

StartTurn(m) ==
    /\ ckptStage[m] = "idle"
    /\ turnDone[m]
    /\ turnDone' = [turnDone EXCEPT ![m] = FALSE]
    /\ captured' = [captured EXCEPT ![m] = NoTree]
    /\ intruded' = [intruded EXCEPT ![m] = FALSE]
    /\ UNCHANGED <<storeVars, ckptStage, listed, treeSha, commitSha, parsed, events>>

\* checkpoint(), once a turn.  git add writes blobs for the files that are not
\* as the index has them, and only for those.
AddAll(m) ==
    /\ ckptStage[m] = "idle" /\ ~turnDone[m]
    /\ LET content == workTree[RootOf[m]]
       IN  /\ shadowIndex' = [shadowIndex EXCEPT ![IndexOf(m)] = content]
           /\ trees' = IF shadowIndex[IndexOf(m)] = content THEN trees ELSE trees \union {content}
           /\ captured' = [captured EXCEPT ![m] = content]
    /\ intruded' = [n \in Manager |->
           n # m /\ (intruded[n] \/ (ckptStage[n] = "tree" /\ IndexOf(n) = IndexOf(m)))]
    /\ parsed' = [parsed EXCEPT ![m] = {}]
    /\ Enter(m, "tree")
    /\ UNCHANGED <<workTree, commits, stored, refs, headLog, manifest,
                   listed, turnDone, treeSha, commitSha, events>>

\* git write-tree refuses an index whose blobs are not in the store.
WriteTree(m) ==
    /\ ckptStage[m] = "tree"
    /\ shadowIndex[IndexOf(m)] \in trees
    /\ treeSha' = [treeSha EXCEPT ![m] = shadowIndex[IndexOf(m)]]
    /\ Enter(m, "commit")
    /\ UNCHANGED <<storeVars, listed, turnDone, commitSha, parsed, captured, intruded, events>>

\* git commit-tree, with the last checkpoint listed as the parent.
CommitTree(m) ==
    LET parent == {e.commit : e \in Latest(listed[m])}
        new == Len(commits) + 1
    IN  /\ ckptStage[m] = "commit" /\ Len(commits) < MaxCommits
        /\ treeSha[m] \in trees /\ parent \subseteq stored
        /\ commits' = Append(commits, [tree |-> treeSha[m],
                                       past |-> {new} \union UNION {commits[c].past : c \in parent}])
        /\ stored' = stored \union {new}
        /\ commitSha' = [commitSha EXCEPT ![m] = new]
        /\ treeSha' = [treeSha EXCEPT ![m] = NoTree]
        /\ Enter(m, "ref")
        /\ UNCHANGED <<workTree, shadowIndex, trees, refs, headLog, manifest,
                       listed, turnDone, parsed, captured, intruded, events>>

\* git update-ref refuses a commit that is not in the store.
UpdateRef(m) ==
    /\ ckptStage[m] = "ref"
    /\ commitSha[m] \in stored
    /\ refs' = refs \union {commitSha[m]}
    /\ Enter(m, "record")
    /\ UNCHANGED <<workTree, shadowIndex, trees, commits, stored, headLog, manifest,
                   listed, turnDone, treeSha, commitSha, parsed, captured, intruded, events>>

\* The checkpoint is listed and the manifest replaced, which may fail with a
\* warning; only now the turn counts as checkpointed.
RecordCheckpoint(m) ==
    /\ ckptStage[m] = "record"
    /\ listed' = [listed EXCEPT ![m] =
           @ \union {[commit |-> commitSha[m], root |-> RootOf[m], ref |-> RefPrefix]}]
    /\ manifest' \in {manifest, listed'[m]}
    /\ turnDone' = [turnDone EXCEPT ![m] = TRUE]
    /\ commitSha' = [commitSha EXCEPT ![m] = 0]
    /\ Enter(m, "idle")
    /\ UNCHANGED <<workTree, shadowIndex, trees, commits, stored, refs, headLog,
                   treeSha, parsed, captured, intruded, events>>

\* Mutated form of GitFails: the flag was set before the commands ran.
FailMarked(m) ==
    /\ ckptStage[m] \in {"tree", "commit", "ref"}
    /\ Happens
    /\ turnDone' = [turnDone EXCEPT ![m] = TRUE]
    /\ Forget(m)
    /\ Enter(m, "idle")
    /\ UNCHANGED <<storeVars, listed, parsed>>

\* A git command fails, by itself or after its timeout: no checkpoint, and
\* the turn does not count as checkpointed.
GitFails(m) ==
    /\ ckptStage[m] \in {"tree", "commit", "ref"}
    /\ Happens
    /\ Forget(m)
    /\ Enter(m, "idle")
    /\ UNCHANGED <<storeVars, listed, turnDone, parsed>>

\* restore(): the tracked files get the content of the commit.
Restore(m) ==
    /\ ckptStage[m] = "idle"
    /\ Happens
    /\ \E e \in listed[m] :
         /\ e.root = RootOf[m] /\ e.commit \in stored
         /\ workTree' = [workTree EXCEPT ![RootOf[m]] = commits[e.commit].tree]
         /\ shadowIndex' = [shadowIndex EXCEPT ![IndexOf(m)] = commits[e.commit].tree]
         /\ headLog' = headLog \union {e.commit}
    /\ Intrude(m)
    /\ UNCHANGED <<trees, commits, stored, refs, manifest, managerVars, parsed, captured>>

\* prune(): the checkpoints that are older than the retention, which no turn
\* outlasts, are dropped, and their refs deleted as far as git does it.
PruneRefs(m) ==
    /\ ckptStage[m] = "idle"
    /\ Happens
    /\ LET young == IF turnDone[m] THEN Latest(listed[m]) ELSE {}
       IN  \E old \in SUBSET (listed[m] \ young) :
             /\ listed' = [listed EXCEPT ![m] = @ \ old]
             /\ \E kept \in SUBSET {e.commit : e \in old} :
                  refs' = refs \ ({e.commit : e \in old} \ kept)
    /\ parsed' = [parsed EXCEPT ![m] = {}]
    /\ Enter(m, "gc")
    /\ UNCHANGED <<workTree, shadowIndex, trees, commits, stored, headLog, manifest,
                   turnDone, treeSha, commitSha, captured, intruded>>

\* git gc --prune=now, best effort.
Reached == UNION {commits[c].past : c \in refs \union headLog}
CollectGarbage(m) ==
    /\ ckptStage[m] = "gc"
    /\ \/ stored' = stored \intersect Reached /\ trees' = {commits[c].tree : c \in stored'}
       \/ UNCHANGED <<stored, trees>>
    /\ Enter(m, "save")
    /\ UNCHANGED <<workTree, shadowIndex, commits, refs, headLog, manifest,
                   listed, turnDone, treeSha, commitSha, parsed, captured, intruded, events>>

SavePruned(m) ==
    /\ ckptStage[m] = "save"
    /\ manifest' \in {manifest, listed[m]}
    /\ Enter(m, "idle")
    /\ UNCHANGED <<workTree, shadowIndex, trees, commits, stored, refs, headLog,
                   listed, turnDone, treeSha, commitSha, parsed, captured, intruded, events>>

ManagerDies(m) ==
    /\ ckptStage[m] # "off"
    /\ Happens
    /\ Enter(m, "off")
    /\ Forget(m)
    /\ listed' = [listed EXCEPT ![m] = {}]
    /\ turnDone' = [turnDone EXCEPT ![m] = FALSE]
    /\ parsed' = [parsed EXCEPT ![m] = {}]
    /\ UNCHANGED storeVars

\* The agent or its user changes files.
ChangeFiles(w) ==
    /\ Happens
    /\ \E v \in 0..MaxVersion : workTree' = [workTree EXCEPT ![w] = <<w, v>>]
    /\ UNCHANGED <<shadowIndex, trees, commits, stored, refs, headLog, manifest,
                   managerVars, parsed, captured, intruded>>

CheckpointStep(m) ==
    \/ StartManager(m) \/ StartTurn(m)
    \/ AddAll(m) \/ WriteTree(m) \/ CommitTree(m) \/ UpdateRef(m) \/ RecordCheckpoint(m)
    \/ GitFails(m) \/ Restore(m)
    \/ PruneRefs(m) \/ CollectGarbage(m) \/ SavePruned(m)
    \/ ManagerDies(m)

CheckpointNext ==
    \/ \E m \in Manager : CheckpointStep(m)
    \/ \E w \in Workspace : ChangeFiles(w)

CheckpointSpec == CheckpointInit /\ [][CheckpointNext]_CheckpointVars

-----------------------------------------------------------------------------

\* checkpoint-manager.ts:230-239, where the agent proceeded "believing a
\* rollback point existed when none did": a turn only counts as checkpointed
\* while the process lists a checkpoint whose commit, with all its ancestors
\* and their content, is kept by a ref through every gc of every process, and
\* which has the content the workspace had, unless another process used the
\* index of the same project name while it was taken.
RollbackExists ==
    \A m \in Manager : turnDone[m] =>
        \E e \in Latest(listed[m]) :
            /\ e.root = RootOf[m]
            /\ e.commit \in refs
            /\ commits[e.commit].past \subseteq stored
            /\ \A c \in commits[e.commit].past : commits[c].tree \in trees
            /\ commits[e.commit].tree = captured[m] \/ intruded[m]

\* checkpoint-manager.ts:27-29: checkpoints "survive process restarts and
\* restore() works across sessions": what a process reads from the manifest
\* for its workspace when it starts is listed.
CheckpointsSurvive ==
    \A m \in Manager : \A e \in parsed[m] : e.root = RootOf[m] => e \in listed[m]
=============================================================================
