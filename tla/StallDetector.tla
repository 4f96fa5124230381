--------------------------- MODULE StallDetector ---------------------------
(***************************************************************************)
(* StallDetector of packages/agent-core/src/stall-detector.ts: a sliding   *)
(* window of call signatures, of which the newest identicalCallThreshold   *)
(* are compared.  A signature stands for the tool name with its sorted     *)
(* arguments, or with the raw text when the arguments did not parse.       *)
(***************************************************************************)
EXTENDS CallHistory

CONSTANTS
    Signature,
    StallThreshold,    \* identicalCallThreshold
    StallWindow,   \* windowSize
    MaxStallHistory    \* bound of the model: calls between two resets

\* StallConfigSchema only asks for positive integers.
ASSUME StallConfigAssumption ==
    /\ StallThreshold \in Nat \ {0}
    /\ StallWindow \in Nat \ {0}

VARIABLES
    signatures,  \* the window
    detected,    \* what the last recordAndCheck returned
    history      \* every signature since the last reset

StallVars == <<signatures, detected, history>>

StallInit ==
    /\ signatures = <<>>
    /\ detected = FALSE
    /\ history = <<>>

Stalled(window) ==
    /\ Len(window) >= StallThreshold
    /\ LET tail == Newest(window, StallThreshold)
       IN  \A i \in DOMAIN tail : tail[i] = tail[1]

\* Mutated form of RecordAndCheck: the window is not trimmed.
RecordUntrimmed(sig) ==
    /\ Len(history) < MaxStallHistory
    /\ signatures' = Append(signatures, sig)
    /\ detected' = Stalled(signatures')
    /\ history' = Append(history, sig)

RecordAndCheck(sig) ==
    /\ Len(history) < MaxStallHistory
    /\ signatures' = Newest(Append(signatures, sig), StallWindow)
    /\ detected' = Stalled(signatures')
    /\ history' = Append(history, sig)

\* Mutated form of StallReset: the window survives.
StallResetNothing ==
    /\ detected' = FALSE
    /\ history' = <<>>
    /\ UNCHANGED signatures

StallReset ==
    /\ signatures' = <<>>
    /\ detected' = FALSE
    /\ history' = <<>>

StallNext == StallReset \/ \E sig \in Signature : RecordAndCheck(sig)

StallSpec == StallInit /\ [][StallNext]_StallVars

-----------------------------------------------------------------------------

\* The window is bounded and holds signatures.
StallTypeOK ==
    /\ signatures \in Seq(Signature)
    /\ Len(signatures) <= StallWindow
    /\ detected \in BOOLEAN
    /\ history \in Seq(Signature)

\* "Returns true if a stall is detected (3+ identical calls in a row)": the
\* verdict on a window of a few calls is the verdict on the whole history
\* since the reset, at every call and whatever came before.  The schema also
\* accepts a window smaller than the threshold; no stall is reported then.
StallExact == detected <=> StallThreshold <= StallWindow /\ Repeats(history, StallThreshold)
=============================================================================
