# Goli CLI: a TLA+ model of the agent's core

Goli CLI is a terminal coding agent. A user's prompt starts a *run*: the agent
loop calls a language model, executes the tools the model asks for, and repeats
until a stop condition holds. The code is single-threaded TypeScript, but almost
nothing in it is sequential: the loop suspends at awaits, where the user may
abort, ask for a compaction or submit another prompt; the tools of one model
turn run concurrently; model calls fail and are retried; approvals are asked for
while a batch is in progress. Around that core stand an API server, a web chat, a
client of MCP servers, and files that several processes share: a cron store, a lock
per tick, an audit log. This directory models those parts, checks them with
TLC and proves what matters most with TLAPS.

## Inventory

| part | source | state it keeps | operations | what is hard |
|---|---|---|---|---|
| agent loop | `agent-core/src/loop.ts` | the abort controller, the stop engine, the compaction flag, the conversation | `run`, `abort`, `requestCompaction`, `executeToolCall` | aborts and compaction requests at any await; state that survives from one run to the next |
| budget, stop engine | `budget.ts`, `stop-engine.ts` | token and iteration counters, parse failures, abort flag | `recordCall`, `recordIteration`, `check` | the order of the checks, off-by-one limits |
| retry layer | `retry.ts`, `error-classifier.ts` | the attempt | `callWithRetry`, `sleep` | an abort during a backoff, errors that must not be retried |
| stall detector | `stall-detector.ts` | a window of call signatures | `recordAndCheck`, `reset` | a bounded window must answer for the whole history |
| loop detector | `loop-detector.ts` | two streak counters, a window | `recordToolCall`, `recordContent`, `reset` | cycles and repetitions told apart |
| guardrails | `tool-guardrails.ts` | failures per call and per tool | `peek`, `check`, `reset` | which failure counts towards which block |
| tool batch executor | `tool-system/src/parallel-execution.ts` | a queue, slots, result lists | `executeToolCallsConcurrent` | concurrent handlers, abort between any two awaits, file overlap |
| terminal session | `apps/cli` `useAgentLoop.ts`, `CliAgentLoop.ts`, `AppStateStore.ts` | the current run, the pending approval | `submit`, `abort`, `waitForApproval`, `resolveApproval` | a second prompt while the first run winds down; an abort while a dialog is open |
| tool dispatch, hooks | `tool-system/src/registry.ts`, `hooks/engine.ts` | the hooks by priority, the cache of availability checks | `dispatch`, `register`, `unregister` | arguments rewritten after others have approved them |
| audit log | `sandbox/src/audit-log.ts` | a hash-chained file, a lock file | `appendAuditLog`, `verifyAuditLog` | several processes, a lock taken over, a death in the middle of a line |
| model router | `agent-core/src/local-llms-router.ts` | a circuit breaker per deployment | `call`, `isDeploymentAvailable`, `recordSuccess`, `recordFailure` | calls that outlive the state they were routed in; probes claimed and not made |
| MCP client | `tool-system/src/mcp/client.ts`, driven by `loop.ts` | sessions, processes, a table of pending requests, tool lists | `connect`, `callTool`, `disconnect`, notifications, exits | late answers, a server that dies or floods its pipe, lists that change while they are fetched |
| background shells | `tool-system/src/core/background-shell.ts` | processes, timers | `startBackgroundShell`, `kill_shell` | a kill, delayed by its approval, racing the exit |
| cron | `apps/cli` `cron.ts`, `cron-tick-runner.ts` | a store file, a temporary file, a lock file | `executeTick`, `markCronRun`, the commands that edit the store | several processes, stale locks, missed ticks, a death anywhere |
| API server | `sdk/src/server.ts` | a map of runs, the listeners of each | create, stop, approve, reject, event streams | a subscriber in the middle of a run, an action whose body arrives late, eviction |
| web chat | `apps/studio` | the page's run and cards, the permission registry, the table of messages | send, decide, cancel | connections that are cut, permissions that expire, two handlers of one session |
| credential pool, callback streaming | `agent-core/src` | cooldowns per key; a bounded queue | `markError`, `push`, `drain` | (see *What is not modelled*) |
| blackboard, swarm pipeline, worktrees | `orchestration/src` | proposals with a status, a file; git worktrees | `propose`, `commit`, `runSwarm` | (see *What is not modelled*) |
| compaction | `agent-core/src/advanced-compression.ts` | the frozen snapshot, the last summary | `compress`, `reset` | results parted from their calls; compacting what was compacted |
| checkpoints | `tool-system/src/checkpoint-manager.ts` | a shadow git store with an index per project, a manifest | `checkpoint`, `restore`, `prune` | several git commands per checkpoint, each of which may fail; several processes, a gc among them |
| session store | `memory-engine/src` | append-only files | `appendMessage` | (see *What is not modelled*) |

Paths are relative to `packages/` or to the repository root.

`PROJECT.json` lists every component, the ones left out too, and the hazards with
the line where each one bites.

How they interact: `useAgentLoop.submit` runs a `CliAgentLoop`, which creates an
`AgentLoop` per run and hands it `requestApproval`. `AgentLoop.run` owns the
budget, the stop engine and the detectors, calls the model through
`callWithRetry`, and gives each turn's calls to `executeToolCallsConcurrent`,
whose handlers go through the tool registry with its hooks and, for guarded tools, wait for
the user's approval. The same loop connects the configured MCP servers and registers their
tools. `run_background_shell` leaves processes behind that outlive the run, and
every executed tool appends to the audit log, which subagents and other terminals share.
The model router, the cron commands, the API server and the web chat are beside the
loop: the first is a provider, the second starts runs from outside, and the last two are
other front ends, with runs of their own.

What makes each part correct, in one line each (the properties themselves are
below, by module):

- *agent loop*: an abort ends the run it was given for and no other; the model is
  never called while a distinct call of an earlier turn has no tool message; every run returns.
- *budget, stop engine, detectors*: the loop stops exactly when the documented
  condition holds of the whole run, although each part only keeps a bounded
  summary of it.
- *guardrails*: a call is refused on evidence only, and a call that keeps failing
  is always refused.
- *tool batch executor*: concurrency is invisible: compatible calls only overlap,
  overlapping mutations keep their order, no slot leaks, an abort starts nothing.
- *terminal session*: an answer reaches the request it was given for; the busy
  flag is the current run's; no run waits forever.
- *tool dispatch*: a handler gets arguments that every hook which is always there has
  allowed.
- *audit log*: the chain verifies, unless somebody had to write without the lock.
- *model router*: flag, state and failure record of a breaker fit together.
- *MCP client*: an exit settles exactly what waited for it; a tool list is not left
  stale; nobody hangs on a silent server.
- *background shells*: no process is out of the registry and alive.
- *cron*: one tick at a time; the store holds what was acknowledged; a missed tick fires
  once.
- *API server*: a stream is the run's events without a gap; only finished runs are evicted;
  every run settles.
- *compaction*: every result stays behind the call it answers, in the order of the turns.
- *checkpoints*: a turn that counts as checkpointed can be rolled back.
- *web chat*: nothing is written without permission; the model is given the newest part of the
  conversation that the user had.

## Modules

Modules, what they stand for, and how they are put together:

| module | of | rests on |
|---|---|---|
| `ToolRequests` | what the executor can tell about a call before running it: classes, paths, overlap | |
| `BatchResults` | the contract between executor and loop: the shape of the results of a batch | |
| `SafeBatch` | the abstract executor: what the header of `parallel-execution.ts` promises | `ToolRequests` |
| `ToolBatch` | `executeToolCallsConcurrent` | `ToolRequests`, `BatchResults`; implements `SafeBatch` |
| `CallHistory` | what "repeats" and "cycles" mean, on whole histories | |
| `StallDetector`, `LoopDetector` | the two detectors, each with its bounded memory | `CallHistory` |
| `Guardrails` | `ToolGuardrailController` | |
| `AgentLoop` | `AgentLoop.run` with budget, stop engine and retry layer | `CallHistory`, `BatchResults` |
| `TerminalSession` | hook, adapter, permission flow and message queue of the terminal | |
| `ToolDispatch` | `ToolRegistry.dispatch` and the `PreToolUse` side of `HookEngine` | |
| `AuditLog` | `appendAuditLog` with its lock, `verifyAuditLog` | |
| `LlmRouter` | the router of local models with its circuit breakers | |
| `BackgroundShell` | registry, exits and `kill_shell` | |
| `CronTick`, `CronStore` | `executeTick`; the changes of the cron store | |
| `ApiServer` | runs, actions and event streams of the API server | |
| `McpClient` | `MCPClientManager` and the registration of its tools | |
| `StudioChat` | the web chat, from the page to the table of messages | |
| `Compaction` | what `AdvancedCompressor` makes of a conversation | |
| `Checkpoints` | `CheckpointManager` and what it relies on of git | |
| `MCToolBatch`, `MCAgentLoop`, `MCTerminalSession` | the instance TLC checks | the module it is named after |
| `MCSafeguards` | the detectors, `Guardrails`, `ToolDispatch`, `AuditLog`, `BackgroundShell`, `CronTick`, `CronStore`, `LlmRouter`, `Compaction`, `Checkpoints`, side by side | all of them |
| `MCIntegrations` | `ApiServer` and `McpClient`, side by side | both |
| `ToolBatchProofs`, `AgentLoopProofs`, `TerminalSessionProofs`, `StudioChatProofs` | the theorems about one component | the module they are named after |
| `SafeguardProofs` | the theorems about detectors, guardrails, dispatch, router, compaction, and about `MCSafeguards` | `MCSafeguards`, `ProcessProofs` |
| `ProcessProofs` | the theorems about the cron modules, the shells, the audit log and the checkpoints | those modules |
| `IntegrationProofs` | the theorems about the API server, the MCP client, and about `MCIntegrations` | `MCIntegrations` |
| `Induction` | least elements, induction and recursion on the naturals | |

`MCSafeguards` and `MCIntegrations` are sums: their parts share no state, and a behaviour picks
one of them (`part`, `component`) and exercises it alone. That checks each part as a run of its
own would, in one instance. Where a module is meant for such a sum its definitions
carry a prefix (`StallInit`, `TickNext`, `McpSpec`).

The composition is by contract. `AgentLoop` does not contain the executor's
workers: it takes any result that `BatchResults!IsResult` allows, and
`ToolBatch` is checked to return nothing else (`ResultsExpected`). It does not
contain the detectors' windows either: it asks `CallHistory` about the whole
history of the run, and `StallExact` and `LoopExact` say that the windows give the
same verdicts. `TerminalSession` reduces a run to what the session can see of it;
that a run returns, and starts no tool after an abort, are properties of the modules
below it. Every module says in its header what a step is: the code that runs
between two awaits (or timer callbacks, or key presses) is one action, and
whatever may be interleaved there is an action of its own.

### ToolBatch

State: the batch, the phase of `executeToolCallsConcurrent`, the queue of the workers,
`waiting`/`granted` for the two sides of a slot promise (pending in
`slotResolvers`, resolved but its worker not yet resumed), the running handlers,
the counter `inFlight`, and the outcome of every position. `Classify` is
`dedupByArgHash` with `shouldParallelizeToolBatch`; `LaunchWorker` the synchronous prefix of
a worker; `BeginParallel`, `SkipAborted` the worker resumed with a slot;
`SettleParallel` the handler's promise with the `finally` block that hands the slot
on; `JoinWorkers` `Promise.all`; `BeginSequential`, `SettleSequential`, `Return` the
sequential loop; `Abort` the signal, at any await.

Paths are sequences of segments; a symbolic link is a path whose `RealPath` is
another one; what exists is fixed while a batch is classified.

### StallDetector, LoopDetector, Guardrails

One action per method, prefixed with the part it belongs to: record and reset for
the detectors; the `peek` pass over a response, `check` with either result, and reset
for the guardrails. Each keeps, beside the code's variables, the history that
the code does not keep (`history`, `callHistory`, `textHistory`, `callFailures`,
`toolFailures`): the properties compare the two.

### AgentLoop

State: `pc`, the abort machinery (`controller`, `signal`, `caller`, `engine`), the
budget counters, the retry attempt, the transcript of turns with the result of each
call, the histories of the detectors, the compaction flag. Two history variables,
`asked` and `acceptedLate`, only serve the properties. `StartRun`,
`SessionMemoryLoaded` and `SymbolGraphReady` are the head of `run`; `LeaveLoop`, `Iterate`,
`Compacted`, `CallModel` an iteration up to the model call; `ModelReturns`, `CallRetried`,
`BackoffEnds`, `CallFails`, `PromptThrows` the call and `callWithRetry`;
`EngineStops`, `LoopDetected`, `StartTools`, `ToolsReturn` the rest of the
iteration; `EndRun` and `Curated` the `finally` block and what follows. `Abort`,
`RequestCompaction` and `CallerAborts` come from outside, wherever the run awaits.

Choices worth knowing:

- `finishReason === 'length'` is not modelled: `provider-adapter.ts:134` derives the
  reason from the tool calls and never yields it.
- The cost limit is a second limit on a weighted sum of tokens; it is folded into
  `MaxTokens`. The wall clock may be found to have run out at any check.
- Guardrails block any call for which there is the evidence that `HaltJustified` says
  a block needs, and block it or not. No-progress detection is left
  out: the loop never passes the working-tree hash it needs.
- Runs of one instance do not overlap: every caller creates an instance per run or
  awaits the previous run (`CliAgentLoop.ts:240`, `index.ts:756`, `wakeup.ts:166`, and the
  subagents at `loop.ts:2053`).
- Identifiers of tool calls are taken to be unique within a response.
- `AnsweredBeforeNextCall` is about distinct calls, the first of equal ones. The executor runs
  equal calls once, and the sequential part of a batch returns nothing for a repetition
  (`parallel-execution.ts:293-310`), so that `loop.ts:1550` finds no result for its id and adds no tool message.
  `BatchResults` has that outcome (`missing`), the property does not exclude it for a repetition, and
  neither does the theorem; `DuplicatesForwarded`, below, is what the code says of it.
- The stall history is used in place of the window, which `StallExact`
  justifies for `StallThreshold` at most the window size.
- An abort while the first headless run still awaits `loadSessionMemory` meets no
  controller and is lost; `asked` is then `"early"`, and `AbortHonoured` does not
  speak of it. A rejection of `loadSessionMemory` is not modelled.

### TerminalSession

State: each run's `submit` coroutine and guarded calls, `runRef`, the run that
`CliAgentLoop.loop` belongs to, which runs were aborted, `approvalResolver`,
`pendingPermission`, `sessionAllowlist`, `showDiffReview`, `isBusy`, and the message
queue with what React adds to it: `rendered` is the value of `isBusy` that the handlers and
effects of the last render close over, `effectDue` says that its passive
effect has not run (Ink runs React in its legacy root: effects run some time after the
render, and before the next one). `Enter`, `QueueMessage`, `Decide`, `ViewDiff`, `CtrlC`,
`Escape` are the keys; `Resume` the continuation after `setImmediate`; `Render` and
`QueueEffect` React; `StartTool`, `RequestApproval`, `HandlerEnds`, `RunReturns` the
agent, reduced.

Choices worth knowing:

- A run and the coroutine that consumes it end in one step: `runStream` yields
  nothing before `run` has returned.
- A handler is entered only if its run is not aborted (`NoStartAfterAbort` of
  `ToolBatch`), but the approval request may come after the abort: handlers await other
  things first. `Parallel` says which calls may be in flight together.
- The dialog shows the request that is pending; the frame between a request and its
  rendering is left out (a hazard names it).
- `confirmationQueue` is declared by the store and not used by any code.

### ToolDispatch

State: the hooks in the order of their priority, the cached answer of `check_fn`, and for each call
of a batch where its `dispatch` is, its arguments, the hooks of this pass that have not
answered, and what they have decided so far. `BeginDispatch`, `ProbeAnswers`, `CacheExpires` are
the head of `dispatch`; `HookAnswers` one hook; `PassEnds` the end of a pass, which validates, denies,
asks, or goes round once more if the arguments were rewritten; `RegisterHook`, `UnregisterHook`
come from plugins at any await. `allowedBy` and `rewritten` are history. A hook may
allow, ask, deny, crash (which denies) and rewrite.

### AuditLog, BackgroundShell

Processes share a file system, so every file operation of `AuditLog` is a step: open the lock with
`wx` (`TakeLock`), `stat` it (`InspectLock`), take a stale one over (`BreakLock`), give up at the deadline
(`GiveUp`), read the last hash, append, unlink. Within one process they are synchronous. `Die` is
a death anywhere; in the middle of the append it leaves a torn line. `LockAges` stands for thirty
seconds going by. `forced` records that the exclusion was given up by design: somebody wrote
without the lock or removed a living process's lock, or died while writing.

`BackgroundShell` is one process: a step is a turn of its event loop. The operating system ends a
process (`ProcessEnds`) before the exit event is reported (`ExitReported`); `KillShell` looks a shell up and asks,
`KillApproved` comes an approval later. A shell whose spawn failed is reported by an error event, which
sets no deletion timer: its entry stays (observed, and harmless to the property).

### LlmRouter

State: per deployment the breaker (state, recent failures, `openedAt`, `probeInFlight`), per call the
deployments it may still try, in order, and when it was routed. `RouteCall` is `route` with
`tryOrder`, including what `isDeploymentAvailable` *does* (it opens half a breaker and claims the probe);
`CallAnswered`, `DeploymentFails`, `AbortCall` the attempts. The scorer is a profile: where it
would send a prompt, whether that is sensitive, whose window it fits.

### CronTick, CronStore

Both are about several processes. `CronTick`: `BeginTick` to `ReleaseTickLock` are `executeTick`, lock file
first: it is created empty and stamped in two steps (`AcquireTickLock`, `StampLock`), and judged stale by age or by
being malformed (`BreakTickLock`). `Fires` is the decision for an entry: its schedule matches,
or it missed one and `isWithinCatchupWindow` has its way, or it is a one-shot in its grace time. Time is in minutes,
the unit of schedules; that a tick may find the same minute twice is therefore not told. `executeTick`
is given its entries and marks nothing: loading them before the tick (`seen`) and marking an
entry when its handler is done are the caller's, which the repository documents
(`docs/cli/cron.md`) and does not contain, so the handler may end without a mark. `RunnerDies` is a death
anywhere.

`CronStore`: a change loads the store, writes all of it to `cron.json.tmp` and renames that. Files are inodes:
a process that opened the temporary file keeps writing to it after another has renamed it.
`promised` is what the acknowledged changes amount to, `overlapped` that two of them overlapped,
for which the code has no protection and makes no promise.

### Compaction

State: the conversation, the run and turn it has reached, the frozen snapshot and the last summary. `StartRun` is the
head of `run`, `TakeTurn` one iteration: the assistant message and one result per call, which is what `AgentLoop`
shows of the distinct calls of every batch (`AnsweredBeforeNextCall`). `Compact` is `compress` and the loop's decision to take its
result: `TailStarts` is the walk of phase 2 with all the places where a budget can end it, `OwnerOf` its search for
the message a result belongs to, then `Evict`, `SummariesOf` (phase 3, the failing summarizer included) and
`Assemble`. A message is who sent it, the turn, the call, and for a summary the turns it tells of. Layers that only
replace a message's text (deduplication, pruning) are left out.

### Checkpoints

Processes share a shadow store, so every git command is a step: `AddAll`, `WriteTree`, `CommitTree`, `UpdateRef`,
then `RecordCheckpoint`, which lists the checkpoint, writes the manifest and sets the flag of the turn; `GitFails`
between any two. `Restore` and `PruneRefs`, `CollectGarbage`, `SavePruned` are the other methods; `ManagerDies` is a
death anywhere, `ChangeFiles` the agent or its user at work. What git does was tried out with git: `add` writes no
blob for a file that the index already has, `gc` keeps what refs and the reflog of a detached HEAD reach and nothing
for the index files of the projects, `write-tree`, `commit-tree` and `update-ref` refuse what is not in the
store. Versions stand for the content of a workspace. `captured`, `intruded` and `parsed` are history.

### ApiServer, McpClient

`ApiServer`: the runs in the map (numbered as they are created, which is the map's order), per run its status, events and listeners, the sleeps of
`startRun` (a stub of the source: three timers that an abort ends early). `handleCreateRun` parses a body and does not
validate it. Whether there is a prompt to quote shows after the third sleep, when the status is `completed` already:
either it is announced (`RunCompletes`), or `slice` throws and the catch block reports `failed` in the same turn
(`RunFails`). The model does not remember which runs have a prompt: a run that sleeps may be one or the other. A handler that reads a body
looks the run up before (`ReceiveAction`) and goes on when the body is there. `Reached` and `Remaining` are
`emitEvent`'s walk over a list from which its listeners remove themselves.

`McpClient`: three servers, one of each transport and one whose configuration is incomplete, are
connected in order (`ConnectNext`); the handshake, tool lists and calls are entries of one table
`pending`; `out` is the pipe of a stdio server, which may hold answers when its exit is
reported. Versions stand for tool lists. `Timeout...` are the timers, `ProcessExits`, `SpawnFails`,
`Overflow` what ends a server.

### StudioChat

State: the page (`selected`, `active`, `cards`, `posts`), the network (`cut`, `gone`), and per run the stage of its handler,
then the table of messages with the number each was given. `SendPrompt` to `CloseChat` are the page;
`ReadNumber`, `SaveMessage`, `LoadHistory`, `Sends` the handler of `/api/chat`, each up to its next await;
`Ordered` is what the database returns: rows by number, those of one number as inserted, each at its `Place`;
`Recent` is `opts.history.slice(-12)` of the agent (`lib/agent/loop.ts:89`), with the constant `HistoryLimit` for 12,
and `history` what is left, so what the model really gets. The sessions of `Resumed` are of an earlier page and begin with a
prompt and its reply (`Before`), as if of a run 0 that is over;
`Token`, `ModelEnds`, `Decide`, `PermissionExpires`, `FileWritten` the run; `StreamCancelled` the moment the server notices
that the page is gone, after which `enqueue` throws.

## What is checked

Six runs show properties, six a disagreement between the code and what it
says of itself.

| run | distinct states | properties beyond the types |
|---|---|---|
| `tool_batch` | 351,540 | `SlotAccounting`, `MutationsOrdered`, `ResultsExpected`, `NoStartAfterAbort`, `KeepsSafeBatch`, `Returns` |
| `safeguards` | 1,591,299 | `StallExact`, `RepetitionDecided`, `GroupsWhole`, `CallsVetted`, `ChainUnlessForced`, `BreakersHold`, `StraysAreKilled`, `TicksApart`, `SavedUnlessOverlapped`, `RollbackExists` |
| `agent_loop` | 684,612 | `AbortReported`, `AbortStopsSoon`, `EngineBoundsRun`, `AnsweredBeforeNextCall`, `StuckRunsStop`, `CompactionKept`, `RunReturns` |
| `terminal_session` | 253,378 | `DialogMatchesWaiter`, `BusyMatchesRun`, `SessionAdvances` |
| `integrations` | 432,833 | `StreamsFaithful`, `RunsAccounted`, `ExitSettles`, `ToolsFresh`, `EverythingSettles` |
| `studio_chat` | 398,604 | `HistoryExact`, `WritesPermitted`, `ChatsEnd` |

**tool_batch.** Every batch of up to four calls over seven requests: two reads, three
mutations (two names of one file, one of them a link; another file in the same
directory), an unknown tool, an interactive one. With two slots and four calls, two
workers wait while two run, which is what a leaked or doubled slot needs; three
calls of one batch give every relation between overlap, order and class, the fourth lets
a duplicate or an incompatible call join. `MutationsOrdered` is two invariants: overlapping
mutations run in the order of the batch, and two names of one existing file are never written
at the same time. Which names are one file is a constant (`Existing`): the code resolves links when it classifies the batch
(`parallel-execution.ts:231`), and a link that one call of the batch makes for another is not modelled. `KeepsSafeBatch` is the refinement: `settled` of `SafeBatch` is the set of
positions that ran. Note what `SafeBatch!Compatible` does *not* promise: `read_file` is in
`PARALLEL_SAFE_TOOLS`, which is looked at first (`parallel-execution.ts:134`), so a read runs beside a
mutation of the same file although the comment at line 59 lists it among the tools compared by path.

**safeguards**, part by part:

- *Detectors.* Histories longer than the windows (eight calls against
  windows of five and six), three values: the least with which a cycle of
  three, or an interrupted one, exists. `StallExact` also says that a window smaller than the
  threshold, which the schema accepts, silently disables the detector. In the default
  configuration the stall detector's three identical calls always come before
  the loop detector's five.
- `RepetitionDecided` is two invariants, `LoopExact` of the loop detector and `BlocksJustified` of the guardrails.
- *Guardrails.* Two tools, one with three argument lists, thresholds 2 and 3, turns of
  up to three calls. `BlocksJustified` has both directions: a block has the failures it
  claims behind it, and an exact call that failed often enough since its last success is blocked. One call repeated does not drive the
  same-tool counter past `ExactWarn - 1`, and a same-tool halt can be masked by an exact
  warning for the call at hand (`tool-guardrails.ts:262`), so for that counter only the first direction holds.
- *Dispatch.* Two calls, a permanent safety hook and a plugin's hook that registers with the same priority,
  arguments that fit the schema and others. A plugin's hook that runs after the safety hook is what makes the
  second pass necessary; two calls share the cached `check_fn`.
- *Audit log.* Three processes, three lines, one death. Three is what it takes for one writer to
  remove the lock of a second while a third appends.
- *Model router.* Two calls along a cascade of the cloud and one local model, profiles for every way
  through the gate. A second call is what outlives a breaker that opens; the clock runs two ticks beyond window
  and cooldown.
- *Background shells.* Two shells, two overlapping kills: a kill for a shell that has exited, is already killed,
  or whose entry is gone.
- *Cron.* Two processes, an entry at minutes 0 and 2 of the hour and a one-shot, one death, six minutes against a
  hard interrupt of 3 and a stale age of 4: time for a dead holder's lock to go stale, for an entry to be missed,
  and for a one-shot to leave its grace time. `MaxCatchup` is 3 so that both late cases lie within the clock.
- *Cron store.* Two processes, two tasks, four changes, one death in any of the file operations.
- *Compaction.* Two runs of four turns with one or two calls, a compaction before every model call, a protected head of
  three messages (the default) and eviction after two user messages: enough for a summary to be compacted again, for
  the head to cut a turn and for a summary to be evicted. `GroupsWhole` excepts the turn that the head cuts; that
  there is none is `GroupsTogether`, below.
- *Checkpoints.* Two processes in two workspaces of one base name, which share an index file; two commits, two events
  (a failure, a death, a restore, a prune, a change of files): a gc or another `git add` in the middle of a checkpoint.

**agent_loop.** Two runs on one instance (what one leaves behind meets the next),
up to three model calls each, one retry, four responses: final text, two
different calls, a duplicate with a failing tool and large cost, a malformed call with
another one. With these limits every stop reason is reached, and so is every order of
an abort by the user or the caller, a compaction request, a retry and a batch.
`AbortReported` is two invariants, `AbortHonoured` and `AbortNotInherited`.
`MaxIterations = 4` gives three model calls: the check at `budget.ts:192` adds one to a count
that `run` has already incremented, where the comment above it says that it
runs first. The hard cap of `maxIterations + 5` never ends a run; that is half
of `EngineBoundsRun`.

**terminal_session.** Two prompts, typed or queued, two guarded calls that may overlap,
one of which has a diff, and a command that never overlaps. Two prompts are
what superseding, late ends and the queue need; the safety properties
were also checked once with three prompts and two calls (2,395,521 states), and are proved for
any number. `CHECK_DEADLOCK FALSE`: prompts are bounded, and a session with nothing
to do waits for its user.

**integrations.** API server: two runs beside a cap of one (so that creating the second looks for one to evict), each of
which may complete, fail or be stopped, two
streams, which is what it takes for one listener to be skipped while another removes itself, one action
whose body is under way. MCP: three servers and two versions of the list, one call at a time, each of which may be
answered, time out, or be cut off by an exit. With two versions `ToolsFresh` meets one refresh beside the list of the
handshake. Two refreshes that overlap after the handshake need a third version: the MCP client alone with
`MaxVersion = 3` (244,643 states) satisfies the same properties, and takes four minutes by itself, which is
why the configuration keeps two; `ToolsStayFresh` is for any number.
`CHECK_DEADLOCK FALSE`: counts are bounded and both components wait for requests.

**studio_chat.** Two prompts in two sessions, of which one holds a prompt and a reply of an earlier page, with a limit
of two messages and the three intents: talk, ask before writing, write. The second prompt of the old session finds four
earlier messages, two more than the limit; the second of the new one finds exactly two. Two handlers of one session are what
a wrong history needs. `HistoryExact` says two things of it. Where no run of the session was cut off, the model is given
exactly the end of the conversation (`Exact`). That without a cut no two handlers of a session overlap is the page's doing,
which is why page and handlers are one module. After a cut the next prompt is handled beside the old one, the number
read and the number used may differ (`session.ts:166`), and the row taken for the prompt may be another's (`route.ts:101`):
messages of the run that was cut off may then be missing, or out of place, and the prompt may be given twice (`PromptDropped`, below).
What still holds there is that every message of an earlier run that was not cut off is given, unless the limit is full of
messages with no smaller number (`Recalled`). Three prompts of intent talk in one old session (4.2 million states, beside the regular
runs) satisfy it as well; the theorem is for any sessions, prompts and limit.

The other six each find one property violated, which a comment of the code states:

| run | what the code says | what it does |
|---|---|---|
| `overflow_not_compacted` | an overflown context forces a compaction | the error is rethrown before `onRetry` |
| `guardrails_blind` | `check` is told whether the call succeeded | `executeToolCall` returns errors as text: always success |
| `abort_keeps_dialog` | abort dismisses the pending dialog | it resolves a map nothing is put into; the dialog stays |
| `audit_chain_forks` | concurrent writers form a consistent chain | a lock released between a writer's open and its `stat` makes that writer append without one, and unlink the next holder's |
| `probe_stranded` | no dangling probe flag | routing claims the probe of fallbacks that are never tried |
| `groups_split` | an assistant turn and all its results stay together | the protected head is cut by count, in the middle of a first turn with two calls |

They use the instance of the passing run of their module, `agent_loop` without the
headless services.

Further disagreements are stated as properties of the modules and belong to no run; adding one to the
`cfg` of its module's run shows it violated:

| property | of | what the code says, and does |
|---|---|---|
| `DuplicatesForwarded` | `ToolBatch` | a duplicate call "gets the first call's result forwarded": it gets none, or "Not executed" |
| `SleepRejects` | `AgentLoop` | `sleep` rejects early if the signal aborts: `callWithRetry` never passes the signal |
| `GateBlocks` | `TerminalSession` | a request waits until the user answers it: the next request of the batch denies it |
| `AnyRewriteVetted` | `ToolDispatch` | any rewritten input is checked again: not what the second pass rewrites |
| `TicksExclusive` | `CronTick` | the header (lines 13-15) promises one tick at a time: a lock that is created and not yet written is taken for malformed, and a tick of several slow entries outlives the age at which its lock counts as stale |
| `MissedCaughtUp` | `CronTick` | a missed tick is caught up within its window (lines 16-18): the sense of `isWithinCatchupWindow` is turned round, so that it is skipped unless the entry has just run |
| `CheckpointsSurvive` | `Checkpoints` | checkpoints survive restarts (`checkpoint-manager.ts:28-30`): refs are named `refs/checkpoints/...` (line 559) and only entries with `refs/goli/` are loaded (line 531), so none does |
| `SnapshotOfRun` | `Compaction` | the snapshot is captured once per run (`loop.ts:1040`): once per `AgentLoop`, so that a second run is reminded of the task of the first |
| `TurnsCaptured` | `Compaction` | evicted messages are captured by the summary (`advanced-compression.ts:457-460`): the summarizer sees what is left after the eviction, and of that only the oldest part within its budget |
| `OneShotsFireOnce` | `CronTick` | a one-shot fires once (`cron-tick-runner.ts:474`): a process given its entries before another's tick calls it again |
| `ReadersSeeWhole` | `CronStore` | the rename keeps readers from partial writes (`cron.ts:114`): with two writers, one renames what the other is writing |
| `StreamsClosed` | `ApiServer` | a stream ends with its run: a listener that removes itself makes `emitEvent` skip the next one |
| `SseReachable` | `McpClient` | an SSE server falls back to HTTP: it is marked connected, and no tool of it can be called |
| `FailuresSurface` | `McpClient` | a failed connection attempt is reported to the callback: not every way to fail reaches it |
| `PromptDropped` | `StudioChat` | the message that was just appended is dropped from the history, because it is in the prompt: after a cut the last row may be another handler's, which is dropped in place of the prompt |

### Fairness

`ToolBatch`, `AgentLoop`: weak fairness of `Progress`, the disjunction of the
steps the event loop takes by itself. The event loop runs every resolved promise and
expired timer; what is assumed beyond it is that a handler's and a provider's promise
settles, which their own timeouts are for. Nothing the user does is fair: `Abort`, prompts
and keys may never come.

`TerminalSession`: weak fairness of `Resume` (setImmediate) and of the `Progress` of each run
(the two properties above, `Returns` and `RunReturns`), of `Render` and `QueueEffect` (React renders a changed state
and runs the effects of a render), and of `Decide`: the
user eventually answers a dialog that is on the screen. Without the last nothing could be
said, since an approval has no timeout. `SessionAdvances` is two properties: `RunsFinish`, every run starts and ends,
and `QueueDrains`, a queued prompt is taken up. The second starts from a busy flag that has been rendered
and excepts a run of the queue that was aborted; both exceptions are real: the effect depends on the
rendered flag and never sees a run that came and went between two renders, and it skips while
`processQueueRef` is set by the aborted run, whose end no render follows. Both except `Hidden`: if
the request under diff review is superseded by one without a diff (a `write_file` and a
`spawn_subagent` of one batch), `App.tsx:792` mounts neither dialog, and only
Ctrl+C or Esc remain.

`ApiServer`: weak fairness of the steps of the runs, which are timers of the server. Clients
need not read, act or disconnect.

`EverythingSettles` is `RunsSettle` of the API server (a run ends as completed, failed or stopped) and `NothingHangs` of the client.

`McpClient`: weak fairness of the connecting loop, of fetches that end (at the latest when the HTTP client
gives up) and of the timers. No server is fair: it may never answer, which is what the
timeouts are for.

`StudioChat`: weak fairness of the server's steps (its awaits of the database and of the model, and the
five-minute timer of a permission) and of the loop in which the page reads its stream. The user need
not answer, and a connection may be lost without the page being told.

Every property of a passing run has a mutant in `PROJECT.json`: a plausible error in the
code, under which TLC finds the property violated. Mutated forms stand beside the
definition they are of, commented as such.

## What is proved

Every invariant and every step property that a passing run checks is a theorem, and so is the refinement;
the theorems hold for all values of the constants. They rest on the
`ASSUME`s of the modules alone (classes are subsets of the requests, limits are naturals, responses are
sequences of calls, a server or hook is configured under one name), which TLC evaluates on the
instances. The property is seldom inductive; what
was added to it is named here.

**Induction.** The library's induction theorems quantify over an operator, which none of the provers
can instantiate. Here the property is a set and a recursion step is a function:
`NaturalInduction`, `LeastNatural`, `GreatestNatural`, `RecursionExists`, `StrongRecursionExists`.
All proofs about sequences of any length rest on them.

**ToolBatchProofs.** `TypeCorrect`, `SlotsExact`, `AbortStopsBatch`, `MutationsKeepOrder`, `ResultsAsExpected`,
`ImplementsSafeBatch`. `Placement` says where each call of the batch
may be: the places a call passes through are disjoint, hold first calls
only, and hold parallel calls while the workers run. With it a release that hands its slot to the
oldest waiter keeps the counter equal to the number of holders, and so does one
that frees it. `SequentialOrder` says that the rest runs in the order of its ranks without gaps, after the
workers; `NothingForgotten` that a call without an outcome is still in one of the places. From the first,
overlapping mutations are in order (two of them never both run in parallel, since their paths overlap); from both,
the results of a batch that returns are those `BatchResults` promises the loop. The refinement
goes action by action: the steps that enter a handler map to `Begin`, those that settle one to
`End`, the others stutter; the slot limit of `Begin` is `SlotAccounting`.

**AgentLoopProofs.** `TypeCorrect`, `AbortsAreReported`,
`AbortsStopSoon`, `BudgetBoundsRun`, `TurnsAnswered`, `CompactionRequestsKept`, `StuckRunsAreStopped`. Most properties
speak of the end of a run or of a model call, and hold there because of what
was true earlier: an abort is in the signal and in the
engine, or was never made (`Recorded`); the iteration under way still fits
(`Room`); a response accepted late leads to no other (`Late`); all turns but the
one being executed are answered (`Answered`, with `Aligned`: results and
calls of a turn correspond); what the detectors have seen is what the turns of this run asked for (`Tracked`). The last
is about a concatenation of any number of turns: `FlattenGrows` says by induction what `FlattenSeq` does when one
is added. `TurnsAnswered` uses the contract `BatchResults`, and like its property speaks of distinct calls only.

**TerminalSessionProofs.** `TypeCorrect`, `OneWaiter` (`DialogMatchesWaiter`) and `BusyIsCurrent`
(`BusyMatchesRun`), for any number of prompts, calls and relation between
them. The invariant splits into three that share no variable but through their actions: the hook
(`HookInv`), the approvals (`ApprovalInv`) and the queue (`QueueInv`, which bounds prompts and
queue together); each action touches one or two of them.

**StudioChatProofs.** `WritesArePermitted`, `ChatTyped`, `HistoryIsExact`, for any sessions and prompts. What carries the
first: a handler that waits for a decision still has its stream, since the cancellation that takes the stream away
also ends the wait. The other two share `ChatInv`: of the runs the page still follows, all but the active one are over (`RunsOver`);
a session holds messages of its own runs and of an earlier page, one of each kind, written at the stages that write them (`RowsOwned`,
`RowsDistinct`, from which the type invariant has its bound on the numbers); where none of its runs was cut off,
messages are inserted as they are numbered (`WholeRows`), and what the active run has saved comes last (`Current`). That reading a session by number
gives a permutation of its rows, and for such a session the rows themselves, is a lemma about stable sorting (`PlacesFilled`).
For a session with runs that were cut off none of this orders the rows. There `KeptInv` does the work: numbers have no gaps, so
that the next one is above all in use, whoever else has read it too (`Gapless`); a prompt is numbered, then saved, above every
message it has to come behind (`KeptRun`), and none of those comes in later, because a run that was not cut off and is not
over is the newest. Sorted by number such a message is before the prompt, so that dropping the last row never drops it.

**SafeguardProofs**, part by part, and `SafeguardsTyped` for their sum:

- *Stall detector* (`WindowBounded`, `WindowDecidesStall`). `StallExact` speaks of the
  last verdict; with `WindowIsNewest` (the window is the newest part of the history) it is inductive. Trimming at every call
  is trimming the whole history (`NewestOfAppend`), and the newest `Threshold`
  of the window are those of the history if the window is large enough (`VerdictOnWindow`).
- *Loop detector and guardrails* (`LoopsAreFound`, `BlocksAreJustified`, together `RepetitionIsDecided`). The streaks of the loop detector are
  the last run of equal elements of the histories (`RunOf`); its window is the newest part of the calls until a
  call was kept out (`WindowOfCalls`). The code compares every
  repetition of a block with the first one, `Periodic` every element with the one a period
  later: that these agree is an induction (`Copies`, `Steps`). For the guardrails, the exact counters are the failures since
  the last success (`CountsExact`), those per tool at most that (`CountsBelow`).
- *Dispatch* (`CallsAreVetted`). `OnTheWay`: while hooks are being asked, every permanent safety hook is still to be asked in this pass
  or has judged these arguments. The hooks stay sorted and distinct whatever plugins
  insert or remove (`InOrder`), so that none is passed over.
- *Router* (`BreakersAlwaysHold`). A breaker that
  opened at some time has only callers that were routed before it; the failure record of a closed one is
  bounded because each failure that would fill it opens the breaker in the same step.
- *Compaction* (`GroupsStayWhole`). `CompactInv`: the prompt is first, turns are in order and were taken, every
  message that asks for calls is followed by its results and every result stands where its call says, except
  where the protected head divides a group (`GroupsAnswered`, `ResultsOwned`). The evictions filter a conversation of any length; what they keep is described by a function
  whose existence `StrongRecursionExists` gives.

**ProcessProofs.** `TicksStayApart` (`TicksApart`), for any processes, entries and deaths: unless a living process's
lock was broken, who is inside a tick is the process the lock file names (`InsiderHolds`).
`ChangesAreSaved` (`SavedUnlessOverlapped`): as long as no two changes overlapped, one process
at most is active, what it loaded is the store, and the temporary file is its own
(`OneActive`, `ActiveLoaded`, `TempOwned`). `StraysAlwaysKilled` (`StraysAreKilled`): an exit is only reported of a process that has ended
(`ExitsAreReal`), so that a kill which finds `exited` set may do nothing.
`ChainHolds` (`ChainUnlessForced`): the chain is about the file alone; while nothing was `forced` a
living process that created the lock file still has it, so that there is one at most (`Exclusive`), the hash it has read is still the
last one (`Fresh`), and the lines are whole, each naming the one before (`Whole`).
`RollbacksExist` (`RollbackExists`), for any processes, workspaces and projects: `CheckpointInv` says that the store is closed
under what its refs need (`PastsClosed`, `StoreClosed`), that a commit is listed by one process at
most (`CommitsOwned`), so that no other's prune takes it (which rests on no process loading another's entries: see
`CheckpointsSurvive`), that a tree under way is what was captured unless somebody
intruded (`ContentSeen`), and that a checkpointed turn has its commit listed last and kept by a ref (`TurnsKept`). `TicksTyped` and `StoreTyped` are the
type invariants they rest on.

**IntegrationProofs**, and `IntegrationsTyped` for the sum of the two:

- *MCP client* (`McpTyped`, `ExitsSettle`, `ToolsStayFresh`), for any servers, calls and versions. A child that has gone has no request pending
  (`NoneGone`), and a caller waits for one server (`CallsTracked`). Freshness needs the order of the pipe: a
  process that runs is the one its configuration started (`ChildInv`), only a stdio server has a pipe (`PipeInv`), and
  versions in it do not decrease, nor pass those already asked for (`OrderInv`); then the newest version is known, notified
  or being fetched, unless a fetch was given up (`Tracked`).
- *API server* (`ApiTyped`, `StreamsAreFaithful`, `RunsAreAccounted`), for any runs, connections and `maxRuns`. `ApiInv` adds that a run sleeps
  exactly while its status is `running`, and its log then holds no end, completed, failed or stopped (`SleepsRun`), and that a listener is on the list of
  the run it was opened on, once, with nothing closed (`ListenersOpen`). `emitEvent` walks the list by index while the listeners it
  ends remove themselves; that every listener it skips is ended by what follows is a lemma about
  that walk.

Model-checked only: liveness (`Returns`, `RunReturns`, `SessionAdvances`, `EverythingSettles`, `ChatsEnd`), which needs ENABLED
and is out of the prover's reach; and that the six disagreements are reachable, which is not a matter of proof.
What a theorem says of `AgentLoop` it says under the contracts through which the loop uses its parts; those of the executor and of
the detectors are theorems too, so the composition is proved but for the fact that it is made by hand.

## What is not modelled

Texts: prompts, summaries, rendering, formatting of messages. Services outside the
repository: the providers, the database and the operating system appear as the
outcomes the code distinguishes. `PROJECT.json` gives the reason for every component that is
left out. The larger ones:

- *Code that no part of the program uses.* `CredentialPool` (`AgentLoop` takes one in its options and never reads it),
  the streaming queue of `callback-streaming.ts`, the swarm pipeline with its
  blackboard and worktrees, `JsonlSessionStore`: classes with tests and without a caller. What they owe to whom is
  not in the repository; a model would be of their unit tests. `executeTick` and `CheckpointManager` have no caller
  either, but what a caller may rely on is documented in full, and is modelled.
- *Pure functions of one call*: the approval engine, path validation, the classifier of efforts, the schema
  validator. They have no state that a sequence of steps could corrupt, and their unit tests
  enumerate what they decide.
- *Rendering*: the components of the terminal interface, the theme, the markdown and the
  studio's console, but for the keys that change what an agent does.
- *Operating-system interfaces*: the sandbox executor with seatbelt, landlock and cgroups.
- *Indexing and ranking*: the context engine, the search store, persistent memory.

Observed while modelling, and not the subject of a run: `runStream` reports a
result for calls that never ran (`loop.ts:1682`, `2326-2327`); three prompts entered around the
`setImmediate` of `submit` leave two runs in progress, of which an abort reaches the
later one (`useAgentLoop.ts:182`); queued messages wait after an abort of a run from the queue, or behind a run that ended before it was rendered, until the
next change of the busy flag (`App.tsx:312`); after a gc a checkpoint of an unchanged workspace can fail in `write-tree` until a
file changes, because `git add` writes no blob again; two workspaces of one base name share an index file
(`checkpoint-manager.ts:652`); the size cap of the shadow store (lines 20-21) is not implemented; a request without a diff hides both dialogs (`App.tsx:792`);
`cron add` rejects the `@once` schedules that `executeTick` supports; the entry of a background shell whose spawn
failed is never deleted, and `cleanupAllShells` has no caller.

## Plan

Done, in this order: the executor with its abstract specification and refinement; the
detectors and guardrails; the agent loop that rests on them; the terminal session; the shared files
(audit log, cron); tool dispatch, the model router and background shells; the API server, the MCP client
and the web chat; compaction, checkpoints, and the liveness of the prompt queue.

What is left, the most valuable first:

1. Three prompts in `TerminalSession` with a property about the two live runs they can leave.
2. The rest of the API server (chat completions with their per-session history, the gateway), and deletion and export
   of sessions in the web chat.
3. `PostToolUse` and session hooks in `ToolDispatch`.

Theorems to add: that the two parallel modes of the executor agree in their results when nothing aborts; that
`AgentLoop` with the detectors' own windows in place of `CallHistory` implements `AgentLoop`; an abstract chat
session (a list of turns) that `StudioChat` implements while no run is cut off, and an abstract event
log that `ApiServer` implements for every subscriber.
