---------------------------- MODULE ToolRequests ----------------------------
(***************************************************************************)
(* The vocabulary shared by the modules about tool batches: what the       *)
(* batch executor of packages/tool-system/src/parallel-execution.ts can    *)
(* tell about a tool call before it runs it.                               *)
(*                                                                         *)
(* A request stands for one (tool name, arguments) pair: two calls of the  *)
(* same batch carry the same request exactly when dedupByArgHash hashes    *)
(* them alike.  A path is a sequence of segments; the empty sequence is an *)
(* argument object with neither file_path nor path.                        *)
(***************************************************************************)
EXTENDS Naturals, FiniteSets, Sequences, SequencesExt

CONSTANTS
    Request,        \* distinct (tool name, arguments) pairs
    ParallelSafe,   \* requests whose tool is in PARALLEL_SAFE_TOOLS
    PathScoped,     \* requests whose tool is in PATH_SCOPED_TOOLS
    NeverParallel,  \* requests whose tool is in NEVER_PARALLEL_TOOLS
    Path,           \* [Request -> path], <<>> when the call names no file
    Existing,       \* paths present on disk when the batch is classified
    RealPath        \* what a path denotes once its symbolic links are followed

ASSUME ClassesAssumption ==
    /\ ParallelSafe \subseteq Request
    /\ PathScoped \subseteq Request
    /\ NeverParallel \subseteq Request
    /\ NeverParallel \cap (ParallelSafe \cup PathScoped) = {}

\* Mutated form of Resolved: paths are compared as they are written.
LexicalPath(p) == p

\* realpathSync, with the fall-back to the lexical path when it throws.
Resolved(p) == IF p \in Existing THEN RealPath[p] ELSE p

Inside(p, q) == IsPrefix(p, q) \/ IsPrefix(q, p)

\* pathsOverlap: the same file, or one of the two contains the other.
PathsOverlap(p, q) == Inside(Resolved(p), Resolved(q))

\* What the two paths really denote, whether or not the files exist yet.
SameFiles(p, q) == Inside(RealPath[p], RealPath[q])

\* Requests the classifier compares by path: a tool of PARALLEL_SAFE_TOOLS is
\* taken as parallel-safe before its path is looked at.
Scoped == {r \in PathScoped \ ParallelSafe : Path[r] # <<>>}

\* The promise of the module's header ("Safety rules"): two requests may be
\* in progress at the same time only if neither is interactive or unknown and
\* they are not two file mutations on overlapping paths.
Compatible(r, s) ==
    /\ {r, s} \subseteq ParallelSafe \cup Scoped
    /\ ~ (r \in Scoped /\ s \in Scoped /\ PathsOverlap(Path[r], Path[s]))
=============================================================================
