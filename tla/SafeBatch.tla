------------------------------ MODULE SafeBatch ------------------------------
(***************************************************************************)
(* What the executor of a tool batch promises its caller, without saying   *)
(* how: the safety rules in the header of                                  *)
(* packages/tool-system/src/parallel-execution.ts.  Calls of the batch     *)
(* begin and end; a call begins only beside compatible ones, at most       *)
(* MaxConcurrent are in progress, a request is served by its first call    *)
(* only, and each call is served at most once.                             *)
(***************************************************************************)
EXTENDS ToolRequests

CONSTANT MaxConcurrent

VARIABLES
    batch,     \* the calls of one model turn, in the order the model gave them
    running,   \* positions in batch whose handler is in progress
    settled    \* positions in batch whose handler returned or threw

avars == <<batch, running, settled>>

AInit ==
    /\ batch \in Seq(Request)
    /\ running = {}
    /\ settled = {}

Begin(i) ==
    /\ i \in DOMAIN batch \ (running \cup settled)
    /\ \A j \in running \cup settled : batch[j] # batch[i]
    /\ \A j \in running : Compatible(batch[i], batch[j])
    /\ Cardinality(running) < MaxConcurrent
    /\ running' = running \cup {i}
    /\ UNCHANGED <<batch, settled>>

End(i) ==
    /\ i \in running
    /\ running' = running \ {i}
    /\ settled' = settled \cup {i}
    /\ UNCHANGED batch

ANext == \E i \in DOMAIN batch : Begin(i) \/ End(i)

ASpec == AInit /\ [][ANext]_avars
=============================================================================
