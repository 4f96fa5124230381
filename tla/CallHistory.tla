---------------------------- MODULE CallHistory ----------------------------
(***************************************************************************)
(* What the agent's loop detectors are meant to recognise, said of a whole *)
(* history of calls (or of texts) rather than of the windows and counters  *)
(* the detectors keep.  StallDetector and LoopDetector show that the code  *)
(* computes exactly these; AgentLoop uses them in place of the windows.    *)
(***************************************************************************)
EXTENDS Naturals, Sequences

\* The n newest elements of s, all of s when it is shorter.
Newest(s, n) == SubSeq(s, IF Len(s) > n THEN Len(s) - n + 1 ELSE 1, Len(s))

Constant(s) == \A i, j \in DOMAIN s : s[i] = s[j]

\* The history ends with the same element n times in a row.
Repeats(s, n) == Len(s) >= n /\ Constant(Newest(s, n))

\* The history ends with a block of the given period, reps times over.
Periodic(s, period, reps) ==
    LET tail == Newest(s, period * reps)
    IN  /\ Len(s) >= period * reps
        /\ \A i \in 1..(period * (reps - 1)) : tail[i] = tail[i + period]

\* ... for some period from 2 to longest, the elements not all the same.
Cycles(s, longest, reps) ==
    \E period \in 2..longest :
        Periodic(s, period, reps) /\ ~ Constant(Newest(s, period * reps))
=============================================================================
