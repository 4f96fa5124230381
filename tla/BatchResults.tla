---------------------------- MODULE BatchResults ----------------------------
(***************************************************************************)
(* What executeToolCallsConcurrent hands back to the agent loop, call by   *)
(* call: the contract between ToolBatch, which establishes it, and         *)
(* AgentLoop, which relies on it.                                          *)
(*                                                                         *)
(*   "ok", "failed"   the executor resolved, or threw                      *)
(*   "aborted"        a worker found the signal aborted                    *)
(*   "notExecuted"    filled in for a call the concurrent mode did not run *)
(*   "missing"        the sequential mode has no entry for the call        *)
(***************************************************************************)
EXTENDS Naturals, FiniteSets, Sequences

Outcomes == {"ok", "failed", "aborted", "notExecuted", "missing"}

Ran(outcome) == outcome \in {"ok", "failed"}

\* The first call of every request.  A batch maps positions in the model's
\* response, not necessarily all of them, to requests.
FirstCalls(batch) ==
    {i \in DOMAIN batch : \A j \in DOMAIN batch : j < i => batch[j] # batch[i]}

\* One call at a time: an abort leaves a prefix, duplicates get no entry.
SequentialResult(batch, stopped, result) ==
    /\ \A i \in DOMAIN batch : Ran(result[i]) \/ result[i] = "missing"
    /\ \A i \in DOMAIN batch : Ran(result[i]) => i \in FirstCalls(batch)
    /\ \A i, j \in FirstCalls(batch) : j < i /\ Ran(result[i]) => Ran(result[j])
    /\ ~ stopped => \A i \in FirstCalls(batch) : Ran(result[i])

\* Workers, then the rest one by one: there are at least two requests, every
\* call has an entry, duplicates are never run.
ConcurrentResult(batch, stopped, result) ==
    /\ Cardinality(FirstCalls(batch)) > 1
    /\ \A i \in DOMAIN batch : result[i] # "missing"
    /\ \A i \in DOMAIN batch \ FirstCalls(batch) : result[i] = "notExecuted"
    /\ ~ stopped => \A i \in FirstCalls(batch) : Ran(result[i])

IsResult(batch, stopped, result) ==
    \/ SequentialResult(batch, stopped, result)
    \/ ConcurrentResult(batch, stopped, result)
=============================================================================
