-------------------------- MODULE SafeguardProofs --------------------------
(***************************************************************************)
(* Proofs about what decides whether something may go on: the detectors    *)
(* and guards between the model and its tools (StallDetector, LoopDetector,*)
(* Guardrails, ToolDispatch), the breakers of the model router (LlmRouter) *)
(* and what compaction leaves of a conversation (Compaction), for every    *)
(* threshold, window, set of calls, hooks and prompts.                     *)
(***************************************************************************)
EXTENDS MCSafeguards, ProcessProofs, Induction, FiniteSetTheorems

-----------------------------------------------------------------------------
(* The stall detector.  StallExact speaks of the last verdict only and     *)
(* says nothing of the signatures the next verdict is computed from: they  *)
(* are the newest part of the history.                                     *)

WindowIsNewest == signatures = Newest(history, StallWindow)

StallInv == StallTypeOK /\ WindowIsNewest /\ StallExact

-----------------------------------------------------------------------------

Kept(s, n) == IF Len(s) > n THEN n ELSE Len(s)

\* Newest(s, n), element by element.
NewestOf(S, s, n) ==
    /\ Kept(s, n) \in Nat /\ Kept(s, n) <= Len(s)
    /\ Newest(s, n) \in Seq(S)
    /\ Len(Newest(s, n)) = Kept(s, n)
    /\ \A i \in 1..Kept(s, n) : Newest(s, n)[i] = s[i + (Len(s) - Kept(s, n))]

LEMMA NewestElements ==
    ASSUME NEW S, NEW s \in Seq(S), NEW n \in Nat
    PROVE  NewestOf(S, s, n)
<1>. DEFINE m == IF Len(s) > n THEN Len(s) - n + 1 ELSE 1
            t == SubSeq(s, m, Len(s))
<1>1. Len(s) \in Nat /\ \A i \in 1..Len(s) : s[i] \in S
  OBVIOUS
<1>2. /\ Kept(s, n) \in Nat /\ Kept(s, n) <= Len(s)
      /\ m \in Nat \ {0} /\ m <= Len(s) + 1
      /\ Kept(s, n) = Len(s) - m + 1
  BY <1>1 DEF Kept
<1>3. Newest(s, n) = t
  BY DEF Newest
<1>. HIDE DEF m
<1>4. \A i \in m..Len(s) : s[i] \in S
  BY <1>1, <1>2
<1>5. /\ t \in Seq(S)
      /\ Len(t) = IF m <= Len(s) THEN Len(s) - m + 1 ELSE 0
      /\ \A i \in 1..(Len(s) - m + 1) : t[i] = s[m + i - 1]
  <2>1. m \in Int /\ Len(s) \in Int
    BY <1>1, <1>2
  <2>. QED  BY <1>4, <2>1, SubSeqProperties
<1>. HIDE DEF t
<1>6. Len(t) = Kept(s, n)
  BY <1>1, <1>2, <1>5
<1>7. ASSUME NEW i \in 1..Kept(s, n) PROVE t[i] = s[i + (Len(s) - Kept(s, n))]
  <2>1. t[i] = s[m + i - 1] /\ i \in Nat
    BY <1>1, <1>2, <1>5
  <2>2. m + i - 1 = i + (Len(s) - Kept(s, n))
    BY <1>1, <1>2, <2>1
  <2>. QED  BY <2>1, <2>2
<1>. QED  BY <1>2, <1>3, <1>5, <1>6, <1>7 DEF NewestOf

\* Two sequences of the same length and elements are equal.
LEMMA SameElements ==
    ASSUME NEW S, NEW s \in Seq(S), NEW t \in Seq(S), Len(s) = Len(t),
           \A i \in 1..Len(s) : s[i] = t[i]
    PROVE  s = t
OBVIOUS

\* Trimming the window at every call keeps what trimming the history would.
LEMMA NewestOfAppend ==
    ASSUME NEW S, NEW s \in Seq(S), NEW x \in S, NEW n \in Nat \ {0}
    PROVE  Newest(Append(Newest(s, n), x), n) = Newest(Append(s, x), n)
<1>. DEFINE w == Newest(s, n)
            a == Append(w, x)
            h == Append(s, x)
            kept == Kept(s, n)
            size == Kept(h, n)
<1>1. /\ w \in Seq(S) /\ Len(w) = kept /\ kept \in Nat /\ kept <= Len(s) /\ Len(s) \in Nat
      /\ \A i \in 1..kept : w[i] = s[i + (Len(s) - kept)]
  <2>1. NewestOf(S, s, n) /\ Len(s) \in Nat
    BY NewestElements
  <2>. QED  BY <2>1 DEF NewestOf
<1>. HIDE DEF w
<1>2. a \in Seq(S) /\ Len(a) = kept + 1 /\ h \in Seq(S) /\ Len(h) = Len(s) + 1
  BY <1>1
<1>3. \A i \in 1..(kept + 1) : a[i] = h[i + (Len(s) - kept)]
  BY <1>1
<1>. HIDE DEF a, h
<1>4. Kept(a, n) = size /\ size \in Nat /\ size <= kept + 1
  BY <1>1, <1>2 DEF Kept
<1>. HIDE DEF kept, size
<1>5. /\ Newest(a, n) \in Seq(S) /\ Len(Newest(a, n)) = size
      /\ \A i \in 1..size : Newest(a, n)[i] = a[i + (kept + 1 - size)]
  <2>1. NewestOf(S, a, n)
    BY <1>2, NewestElements
  <2>2. /\ Newest(a, n) \in Seq(S) /\ Len(Newest(a, n)) = size
        /\ \A i \in 1..size : Newest(a, n)[i] = a[i + (Len(a) - size)]
    BY <1>4, <2>1, Zenon DEF NewestOf
  <2>. QED  BY <1>1, <1>2, <1>4, <2>2
<1>6. /\ Newest(h, n) \in Seq(S) /\ Len(Newest(h, n)) = size
      /\ \A i \in 1..size : Newest(h, n)[i] = h[i + (Len(s) + 1 - size)]
  <2>1. NewestOf(S, h, n)
    BY <1>2, NewestElements
  <2>2. /\ Newest(h, n) \in Seq(S) /\ Len(Newest(h, n)) = size
        /\ \A i \in 1..size : Newest(h, n)[i] = h[i + (Len(h) - size)]
    BY <2>1, Zenon DEF NewestOf, size
  <2>. QED  BY <1>1, <1>2, <1>4, <2>2
<1>7. ASSUME NEW i \in 1..size PROVE Newest(a, n)[i] = Newest(h, n)[i]
  <2>1. i + (kept + 1 - size) \in 1..(kept + 1)
    BY <1>1, <1>4
  <2>2. a[i + (kept + 1 - size)] = h[i + (kept + 1 - size) + (Len(s) - kept)]
    BY <1>3, <2>1
  <2>3. i + (kept + 1 - size) + (Len(s) - kept) = i + (Len(s) + 1 - size)
    BY <1>1, <1>4
  <2>. QED  BY <1>5, <1>6, <2>2, <2>3
<1>8. Newest(a, n) = Newest(h, n)
  BY <1>5, <1>6, <1>7, SameElements
<1>. QED  BY <1>8 DEF a, h, w

\* A part no longer than the window is read from it as from the history.
LEMMA NewestOfNewest ==
    ASSUME NEW S, NEW s \in Seq(S), NEW n \in Nat, NEW m \in Nat, m <= n
    PROVE  Newest(Newest(s, n), m) = Newest(s, m)
<1>. DEFINE w == Newest(s, n)
            kept == Kept(s, n)
            size == Kept(s, m)
<1>1. /\ w \in Seq(S) /\ Len(w) = kept /\ kept \in Nat /\ kept <= Len(s) /\ Len(s) \in Nat
      /\ \A i \in 1..kept : w[i] = s[i + (Len(s) - kept)]
  <2>1. NewestOf(S, s, n) /\ Len(s) \in Nat
    BY NewestElements
  <2>. QED  BY <2>1 DEF NewestOf
<1>. HIDE DEF w
<1>2. Kept(w, m) = size /\ size \in Nat /\ size <= kept
  BY <1>1 DEF Kept
<1>3. /\ Newest(w, m) \in Seq(S) /\ Len(Newest(w, m)) = size
      /\ \A i \in 1..size : Newest(w, m)[i] = w[i + (kept - size)]
  <2>1. NewestOf(S, w, m)
    BY <1>1, NewestElements
  <2>. QED  BY <1>1, <1>2, <2>1 DEF NewestOf
<1>4. /\ Newest(s, m) \in Seq(S) /\ Len(Newest(s, m)) = size
      /\ \A i \in 1..size : Newest(s, m)[i] = s[i + (Len(s) - size)]
  <2>1. NewestOf(S, s, m)
    BY NewestElements
  <2>. QED  BY <2>1 DEF NewestOf
<1>. HIDE DEF kept, size
<1>5. ASSUME NEW i \in 1..size PROVE Newest(w, m)[i] = Newest(s, m)[i]
  <2>1. i + (kept - size) \in 1..kept
    BY <1>1, <1>2
  <2>2. w[i + (kept - size)] = s[i + (kept - size) + (Len(s) - kept)]
    BY <1>1, <2>1
  <2>3. i + (kept - size) + (Len(s) - kept) = i + (Len(s) - size)
    BY <1>1, <1>2
  <2>. QED  BY <1>3, <1>4, <2>2, <2>3
<1>6. Newest(w, m) = Newest(s, m)
  BY <1>3, <1>4, <1>5, SameElements
<1>. QED  BY <1>6 DEF w

\* The comparison with the first element, as the code makes it, is constancy.
LEMMA VerdictOnWindow ==
    ASSUME NEW S, NEW s \in Seq(S)
    PROVE  Stalled(Newest(s, StallWindow))
               <=> StallThreshold <= StallWindow /\ Repeats(s, StallThreshold)
<1>. DEFINE w == Newest(s, StallWindow)
<1>1. StallThreshold \in Nat \ {0} /\ StallWindow \in Nat \ {0}
  BY StallConfigAssumption
<1>2. /\ w \in Seq(S) /\ Len(s) \in Nat
      /\ Len(w) = IF Len(s) > StallWindow THEN StallWindow ELSE Len(s)
  <2>1. NewestOf(S, s, StallWindow) /\ Len(s) \in Nat
    BY <1>1, NewestElements
  <2>. QED  BY <2>1 DEF NewestOf, Kept
<1>. HIDE DEF w
<1>3. CASE Len(w) < StallThreshold
  BY <1>1, <1>2, <1>3 DEF Stalled, Repeats, w
<1>4. CASE Len(w) >= StallThreshold
  <2>1. StallThreshold <= StallWindow /\ Len(s) >= StallThreshold
    BY <1>1, <1>2, <1>4
  <2>2. Newest(w, StallThreshold) = Newest(s, StallThreshold)
    BY <1>1, <2>1, NewestOfNewest DEF w
  <2>3. Newest(s, StallThreshold) \in Seq(S) /\ Len(Newest(s, StallThreshold)) = StallThreshold
    <3>1. NewestOf(S, s, StallThreshold)
      BY <1>1, NewestElements
    <3>. QED  BY <1>1, <1>2, <2>1, <3>1 DEF NewestOf, Kept
  <2>. DEFINE tail == Newest(s, StallThreshold)
  <2>4. DOMAIN tail = 1..StallThreshold /\ 1 \in DOMAIN tail
    BY <1>1, <2>3
  <2>. HIDE DEF tail
  <2>5. (\A i \in DOMAIN tail : tail[i] = tail[1]) <=> Constant(tail)
    BY <2>4 DEF Constant
  <2>6. Stalled(w) <=> \A i \in DOMAIN tail : tail[i] = tail[1]
    BY <1>4, <2>2 DEF Stalled, tail
  <2>7. Repeats(s, StallThreshold) <=> Constant(tail)
    BY <2>1 DEF Repeats, tail
  <2>. QED  BY <2>1, <2>5, <2>6, <2>7 DEF w
<1>5. Len(w) \in Nat
  BY <1>2
<1>. QED  BY <1>1, <1>3, <1>4, <1>5

-----------------------------------------------------------------------------

LEMMA StallStarts ==
    ASSUME signatures = <<>>, detected = FALSE, history = <<>>
    PROVE  StallInv
<1>1. StallThreshold \in Nat \ {0} /\ StallWindow \in Nat \ {0}
  BY StallConfigAssumption
<1>2. Newest(<<>>, StallWindow) = <<>>
  BY <1>1 DEF Newest
<1>3. ~ Repeats(<<>>, StallThreshold)
  BY <1>1 DEF Repeats
<1>4. <<>> \in Seq(Signature) /\ Len(<<>>) <= StallWindow
  BY <1>1
<1>5. StallTypeOK /\ WindowIsNewest
  BY <1>2, <1>4 DEF StallTypeOK, WindowIsNewest
<1>6. StallExact
  BY <1>3 DEF StallExact
<1>. QED  BY <1>5, <1>6 DEF StallInv

LEMMA StallStep == StallInv /\ [StallNext]_StallVars => StallInv'
<1>. SUFFICES ASSUME StallInv, [StallNext]_StallVars PROVE StallInv'
  OBVIOUS
<1>1. StallThreshold \in Nat \ {0} /\ StallWindow \in Nat \ {0}
  BY StallConfigAssumption
<1>2. ASSUME NEW sig \in Signature, RecordAndCheck(sig) PROVE StallInv'
  <2>1. history \in Seq(Signature) /\ signatures = Newest(history, StallWindow)
    BY DEF StallInv, StallTypeOK, WindowIsNewest
  <2>2. history' = Append(history, sig) /\ history' \in Seq(Signature)
    BY <1>2, <2>1 DEF RecordAndCheck
  <2>3. signatures' = Newest(history', StallWindow)
    BY <1>1, <1>2, <2>1, <2>2, NewestOfAppend DEF RecordAndCheck
  <2>4. signatures' \in Seq(Signature) /\ Len(signatures') <= StallWindow
    <3>1. history' \in Seq(Signature) /\ StallWindow \in Nat
      BY <1>1, <2>2
    <3>2. Len(history') \in Nat
      BY <3>1
    <3>3. NewestOf(Signature, history', StallWindow)
      BY <3>1, NewestElements
    <3>. QED  BY <1>1, <2>3, <3>2, <3>3 DEF NewestOf, Kept
  <2>5. detected' <=> Stalled(signatures')
    BY <1>2 DEF RecordAndCheck
  <2>6. detected' \in BOOLEAN
    BY <1>2 DEF RecordAndCheck, Stalled
  <2>7. detected' <=> StallThreshold <= StallWindow /\ Repeats(history', StallThreshold)
    BY <2>2, <2>3, <2>5, VerdictOnWindow
  <2>. QED  BY <2>2, <2>3, <2>4, <2>6, <2>7 DEF StallInv, StallTypeOK, WindowIsNewest, StallExact
<1>3. CASE StallReset
  <2>1. Newest(<<>>, StallWindow) = <<>> /\ ~ Repeats(<<>>, StallThreshold)
    BY <1>1 DEF Newest, Repeats
  <2>2. <<>> \in Seq(Signature) /\ Len(<<>>) <= StallWindow
    BY <1>1
  <2>3. StallTypeOK' /\ WindowIsNewest'
    BY <1>3, <2>1, <2>2 DEF StallReset, StallTypeOK, WindowIsNewest
  <2>4. StallExact'
    BY <1>3, <2>1 DEF StallReset, StallExact
  <2>. QED  BY <2>3, <2>4 DEF StallInv
<1>4. CASE UNCHANGED StallVars
  BY <1>4 DEF StallVars, StallInv, StallTypeOK, WindowIsNewest, StallExact
<1>. QED  BY <1>2, <1>3, <1>4 DEF StallNext

\* recordAndCheck returns true exactly when the calls since the last reset end
\* in StallThreshold identical ones, for every threshold and every window that can
\* hold them; with a smaller window it never does.
THEOREM WindowDecidesStall == StallSpec => []StallExact
<1>1. StallInit => StallInv
  BY StallStarts DEF StallInit
<1>2. StallInv => StallExact
  BY DEF StallInv
<1>. QED  BY <1>1, <1>2, StallStep, PTL DEF StallSpec

\* The window holds signatures and never more than StallWindow of them.
THEOREM WindowBounded == StallSpec => []StallTypeOK
<1>1. StallInit => StallInv
  BY StallStarts DEF StallInit
<1>2. StallInv => StallTypeOK
  BY DEF StallInv
<1>. QED  BY <1>1, <1>2, StallStep, PTL DEF StallSpec

-----------------------------------------------------------------------------
(* The model router.  The strengthening is the type invariant alone: it    *)
(* says that no call was routed, and no breaker opened, in the future.     *)

RouterInv == RouterTypeOK /\ BreakerSound /\ CooldownKept

State == {"CLOSED", "OPEN", "HALF_OPEN"}

-----------------------------------------------------------------------------

\* The recent failures are times up to now.
LEMMA RecentRange ==
    ASSUME RouterTypeOK, NEW d \in Deployment
    PROVE  Recent(d) \in Seq(0..now)
<1>. DEFINE s == failedAt[d]
            old == {i \in DOMAIN s : now - s[i] >= Window}
            m == Cardinality(old) + 1
<1>1. s \in Seq(0..now) /\ now \in 0..now /\ now \in Nat
  BY RouterAssumption DEF RouterTypeOK
<1>2. m \in Nat \ {0}
  <2>1. IsFiniteSet(1..Len(s))
    <3>1. 1 \in Int /\ Len(s) \in Int
      BY <1>1
    <3>. QED  BY <3>1, FS_Interval
  <2>2. old \subseteq 1..Len(s)
    BY <1>1
  <2>3. IsFiniteSet(old)
    BY <2>1, <2>2, FS_Subset
  <2>. QED  BY <2>3, FS_CardinalityType
<1>. HIDE DEF m
<1>3. SubSeq(s, m, Len(s)) \in Seq(0..now)
  BY <1>1, <1>2, SubSeqProperties
<1>4. Append(SubSeq(s, m, Len(s)), now) \in Seq(0..now)
  BY <1>1, <1>3, AppendProperties
<1>. QED  BY <1>4 DEF Recent, m

\* Primary and chain of a prompt are deployments.
LEMMA PrimaryRange ==
    ASSUME NEW k \in Profiles
    PROVE  Primary(k) \in Deployment /\ Chain(k) \subseteq Deployment
BY RouterAssumption DEF Primary, Chain

-----------------------------------------------------------------------------

LEMMA RouterStarts == RouterInit => RouterInv
<1>. SUFFICES ASSUME RouterInit
              PROVE  RouterInv
  OBVIOUS
<1>. USE RouterAssumption DEF RouterInit
<1>1. RouterTypeOK
  BY DEF RouterTypeOK
<1>2. BreakerSound /\ CooldownKept
  BY DEF BreakerSound, CooldownKept
<1>. QED  BY <1>1, <1>2 DEF RouterInv

\* A call is routed: what it may try is available, hence not OPEN any more.
LEMMA RouteStep ==
    ASSUME RouterInv, NEW c \in Caller, NEW k \in Profiles, RouteCall(c, k)
    PROVE  RouterInv'
<1>. DEFINE wanted == {Primary(k)} \cup Chain(k)
<1>. USE RouterAssumption, PrimaryRange DEF RouterInv, RouteCall, Claim
<1>1. /\ now' = now /\ failedAt' = failedAt /\ openedAt' = openedAt /\ cancelled' = cancelled
      /\ TryOrder(k) \subseteq wanted /\ wanted \subseteq Deployment
      /\ now \in Nat /\ now \in 0..now
  BY DEF TryOrder, RouterTypeOK
<1>2. /\ circuit' \in [Deployment -> State]
      /\ probing' \in [Deployment -> BOOLEAN]
      /\ \A d \in Deployment :
             /\ circuit'[d] = IF d \in wanted /\ Probed(d) THEN "HALF_OPEN" ELSE circuit[d]
             /\ probing'[d] <=> probing[d] \/ (d \in wanted /\ Probed(d))
  BY DEF RouterTypeOK, State
<1>3. /\ tries' = [tries EXCEPT ![c] = TryOrder(k)]
      /\ routedAt' \in [Caller -> 0..now]
      /\ first' \in [Caller -> SUBSET Deployment]
      /\ \A e \in Caller : e # c => routedAt'[e] = routedAt[e]
  BY <1>1 DEF Continues, RouterTypeOK
<1>4. RouterTypeOK'
  BY <1>1, <1>2, <1>3 DEF RouterTypeOK, State
<1>5. BreakerSound'
  BY <1>1, <1>2 DEF BreakerSound, Probed, Cooled, RouterTypeOK
<1>6. CooldownKept'
  <2>. SUFFICES ASSUME NEW e \in Caller, NEW d \in Deployment,
                       circuit'[d] = "OPEN", d \in tries'[e]
                PROVE  routedAt'[e] <= openedAt[d]
    BY <1>1 DEF CooldownKept
  <2>1. circuit[d] = "OPEN" /\ ~(d \in wanted /\ Probed(d))
    BY <1>2
  <2>2. CASE e # c
    BY <1>3, <2>1, <2>2 DEF CooldownKept, RouterTypeOK
  <2>3. CASE e = c
    <3>1. d \in TryOrder(k)
      BY <1>3, <2>3 DEF RouterTypeOK
    <3>. QED  BY <1>1, <2>1, <3>1 DEF TryOrder, Available
  <2>. QED  BY <2>2, <2>3
<1>. QED  BY <1>4, <1>5, <1>6

\* What a call goes on with is part of what it had.
LEMMA ContinueStep ==
    ASSUME RouterTypeOK, NEW c \in Caller, NEW left, left \subseteq tries[c],
           Continues(c, first[c], left, routedAt[c])
    PROVE  /\ tries' \in [Caller -> SUBSET Deployment]
           /\ first' \in [Caller -> SUBSET Deployment]
           /\ routedAt' \in [Caller -> 0..now]
           /\ \A e \in Caller : tries'[e] \subseteq tries[e] /\ routedAt'[e] <= routedAt[e]
BY RouterAssumption DEF RouterTypeOK, Continues

LEMMA AnswerStep ==
    ASSUME RouterInv, NEW c \in Caller, NEW d \in Deployment, CallAnswered(c, d)
    PROVE  RouterInv'
<1>. USE RouterAssumption DEF RouterInv
<1>1. /\ tries' \in [Caller -> SUBSET Deployment]
      /\ first' \in [Caller -> SUBSET Deployment]
      /\ routedAt' \in [Caller -> 0..now]
      /\ \A e \in Caller : tries'[e] \subseteq tries[e] /\ routedAt'[e] <= routedAt[e]
  <2>1. Continues(c, first[c], {}, routedAt[c]) /\ {} \subseteq tries[c]
    BY DEF CallAnswered
  <2>. QED  BY SMTT(40), <2>1, ContinueStep
<1>2. /\ circuit' = [circuit EXCEPT ![d] = "CLOSED"]
      /\ failedAt' = [failedAt EXCEPT ![d] = <<>>]
      /\ openedAt' = [openedAt EXCEPT ![d] = 0]
      /\ probing' = [probing EXCEPT ![d] = FALSE]
      /\ now' = now /\ cancelled' = cancelled /\ now \in Nat
  BY DEF CallAnswered, Close, RouterTypeOK
<1>3. RouterTypeOK'
  BY <1>1, <1>2 DEF RouterTypeOK
<1>4. BreakerSound'
  BY <1>2 DEF BreakerSound, RouterTypeOK
<1>5. CooldownKept'
  BY <1>1, <1>2 DEF CooldownKept, RouterTypeOK
<1>. QED  BY <1>3, <1>4, <1>5

\* A breaker that opens, opens now: no call was routed later.
LEMMA FailStep ==
    ASSUME RouterInv, NEW c \in Caller, NEW d \in Deployment, DeploymentFails(c, d)
    PROVE  RouterInv'
<1>. DEFINE opens == circuit[d] = "HALF_OPEN" \/ Len(Recent(d)) >= FailThreshold
<1>. USE RouterAssumption DEF RouterInv
<1>1. /\ tries' \in [Caller -> SUBSET Deployment]
      /\ first' \in [Caller -> SUBSET Deployment]
      /\ routedAt' \in [Caller -> 0..now]
      /\ \A e \in Caller : tries'[e] \subseteq tries[e] /\ routedAt'[e] <= routedAt[e]
  <2>1. Continues(c, first[c], tries[c] \ {d}, routedAt[c]) /\ tries[c] \ {d} \subseteq tries[c]
    BY DEF DeploymentFails
  <2>. QED  BY <2>1, ContinueStep
<1>2. Recent(d) \in Seq(0..now) /\ Len(Recent(d)) \in Nat
  BY RecentRange
<1>3. /\ circuit' = [circuit EXCEPT ![d] = IF opens THEN "OPEN" ELSE circuit[d]]
      /\ failedAt' = [failedAt EXCEPT ![d] = Recent(d)]
      /\ openedAt' = [openedAt EXCEPT ![d] = IF opens THEN now ELSE openedAt[d]]
      /\ probing' = [probing EXCEPT ![d] = probing[d] /\ circuit[d] # "HALF_OPEN"]
      /\ now' = now /\ cancelled' \subseteq cancelled /\ now \in Nat
  BY DEF DeploymentFails, RecordFailure, RouterTypeOK
<1>4. RouterTypeOK'
  BY <1>1, <1>2, <1>3 DEF RouterTypeOK
<1>5. BreakerSound'
  <2>. SUFFICES ASSUME NEW e \in Deployment
                PROVE  /\ probing'[e] <=> circuit'[e] = "HALF_OPEN"
                       /\ circuit'[e] = "CLOSED" => Len(failedAt'[e]) < FailThreshold
    BY DEF BreakerSound
  <2>1. /\ probing[e] <=> circuit[e] = "HALF_OPEN"
        /\ circuit[e] = "CLOSED" => Len(failedAt[e]) < FailThreshold
    BY DEF BreakerSound
  <2>2. CASE e # d
    <3>1. /\ circuit'[e] = circuit[e] /\ failedAt'[e] = failedAt[e]
          /\ probing'[e] = probing[e]
      BY <1>3, <2>2 DEF RouterTypeOK
    <3>. QED  BY <2>1, <3>1
  <2>3. CASE e = d
    <3>1. /\ circuit'[d] = IF opens THEN "OPEN" ELSE circuit[d]
          /\ failedAt'[d] = Recent(d)
          /\ probing'[d] = (probing[d] /\ circuit[d] # "HALF_OPEN")
      BY <1>3 DEF RouterTypeOK
    <3>2. ~probing'[d] /\ circuit'[d] # "HALF_OPEN"
      BY <2>1, <2>3, <3>1
    <3>3. circuit'[d] = "CLOSED" => Len(failedAt'[d]) < FailThreshold
      BY <1>2, <3>1
    <3>. QED  BY <2>3, <3>2, <3>3
  <2>. QED  BY <2>2, <2>3
<1>6. CooldownKept'
  BY SMTT(40), <1>1, <1>3 DEF CooldownKept, RouterTypeOK
<1>. QED  BY <1>4, <1>5, <1>6

LEMMA RouterStep == RouterInv /\ [RouterNext]_RouterVars => RouterInv'
<1>. SUFFICES ASSUME RouterInv, [RouterNext]_RouterVars
              PROVE  RouterInv'
  OBVIOUS
<1>1. ASSUME NEW c \in Caller, AbortCall(c)
      PROVE  RouterInv'
  BY <1>1 DEF AbortCall, breakerVars, RouterInv, RouterTypeOK, BreakerSound, CooldownKept
<1>2. CASE ClockTicks
  <2>. USE <1>2, RouterAssumption DEF ClockTicks, breakerVars, callVars, RouterInv
  <2>1. now \in Nat /\ now' = now + 1 /\ 0..now \subseteq 0..now'
    BY DEF RouterTypeOK
  <2>2. failedAt' \in [Deployment -> Seq(0..now')]
    <3>1. \A d \in Deployment : failedAt[d] \in Seq(0..now')
      BY <2>1 DEF RouterTypeOK
    <3>. QED  BY <3>1 DEF RouterTypeOK
  <2>3. RouterTypeOK'
    BY <2>1, <2>2 DEF RouterTypeOK
  <2>4. BreakerSound' /\ CooldownKept'
    BY DEF BreakerSound, CooldownKept
  <2>. QED  BY <2>3, <2>4
<1>3. CASE UNCHANGED RouterVars
  BY <1>3 DEF RouterVars, breakerVars, callVars, RouterInv, RouterTypeOK, BreakerSound,
              CooldownKept
<1>. QED  BY <1>1, <1>2, <1>3, RouteStep, AnswerStep, FailStep DEF RouterNext

-----------------------------------------------------------------------------

\* However calls overlap, fail late or are aborted, the probe flag is up
\* exactly in HALF_OPEN, a CLOSED breaker has fewer failures on record than
\* would have opened it, and the calls that may still try an OPEN deployment
\* were routed before it opened: for all deployments, calls, thresholds and
\* cooldowns.
THEOREM BreakersAlwaysHold == RouterSpec => []BreakersHold
<1>1. RouterInv => BreakersHold
  BY DEF RouterInv, BreakersHold
<1>. QED  BY RouterStarts, RouterStep, <1>1, PTL DEF RouterSpec

-----------------------------------------------------------------------------
(* The guardrails.  The counters of the calls are the failures since their *)
(* last success; those of the tools may be fewer, since an exact warning   *)
(* returns before they are touched.                                        *)

CountsExact == \A c \in Call : exactFailureCounts[c] = callFailures[c]
CountsBelow == \A t \in Tool : sameToolFailureCounts[t] <= toolFailures[t]
GuardInv == GuardTypeOK /\ CountsExact /\ CountsBelow

LEMMA GuardStarts == GuardInit => GuardInv
BY GuardrailAssumption DEF GuardInit, GuardInv, GuardTypeOK, CountsExact, CountsBelow

\* The result that check() records next.
LEMMA NextResult ==
    ASSUME GuardTypeOK, pending # <<>>
    PROVE  /\ Head(pending).call \in Call /\ ToolOf[Head(pending).call] \in Tool
           /\ Tail(pending) \in Seq([call : Call, duplicate : BOOLEAN])
<1>1. Head(pending) \in [call : Call, duplicate : BOOLEAN]
      /\ Tail(pending) \in Seq([call : Call, duplicate : BOOLEAN])
  BY HeadTailProperties DEF GuardTypeOK
<1>. QED  BY <1>1, GuardrailAssumption

\* A counter goes up by one.
LEMMA CountedUp ==
    ASSUME NEW S, NEW counts \in [S -> Nat], NEW s \in S
    PROVE  [counts EXCEPT ![s] = @ + 1] \in [S -> Nat]
OBVIOUS

LEMMA GuardStep == GuardInv /\ [GuardNext]_GuardVars => GuardInv'
<1>. SUFFICES ASSUME GuardInv, [GuardNext]_GuardVars
              PROVE  GuardInv'
  OBVIOUS
<1>0. /\ exactFailureCounts \in [Call -> Nat] /\ callFailures \in [Call -> Nat]
      /\ sameToolFailureCounts \in [Tool -> Nat] /\ toolFailures \in [Tool -> Nat]
      /\ GuardTypeOK /\ CountsExact /\ CountsBelow
  BY DEF GuardInv, GuardTypeOK
<1>1. CASE Succeed
  <2>. DEFINE c == Head(pending).call
  <2>1. c \in Call /\ ToolOf[c] \in Tool /\ pending' \in Seq([call : Call, duplicate : BOOLEAN])
    BY <1>0, <1>1, NextResult DEF Succeed
  <2>2. /\ exactFailureCounts' = [exactFailureCounts EXCEPT ![c] = 0]
        /\ sameToolFailureCounts' = [sameToolFailureCounts EXCEPT ![ToolOf[c]] = 0]
        /\ callFailures' = [callFailures EXCEPT ![c] = 0]
        /\ toolFailures' = [toolFailures EXCEPT ![ToolOf[c]] = 0]
    BY <1>1 DEF Succeed
  <2>. HIDE DEF c
  <2>3. GuardTypeOK'
    <3>1. exactFailureCounts' \in [Call -> Nat] /\ callFailures' \in [Call -> Nat]
      BY <1>0, <2>1, <2>2
    <3>2. sameToolFailureCounts' \in [Tool -> Nat]
      <4>1. sameToolFailureCounts \in [Tool -> Nat]
        BY <1>0
      <4>. QED  BY <2>1, <2>2, <4>1
    <3>3. toolFailures' \in [Tool -> Nat]
      <4>1. toolFailures \in [Tool -> Nat]
        BY <1>0
      <4>. QED  BY <2>1, <2>2, <4>1
    <3>. QED  BY <2>1, <3>1, <3>2, <3>3 DEF GuardTypeOK
  <2>4. CountsExact' /\ CountsBelow'
    BY <1>0, <2>1, <2>2 DEF CountsExact, CountsBelow
  <2>. QED  BY <2>3, <2>4 DEF GuardInv
<1>2. CASE Fail
  <2>. DEFINE c == Head(pending).call
              t == ToolOf[c]
  <2>1. c \in Call /\ t \in Tool /\ pending' \in Seq([call : Call, duplicate : BOOLEAN])
    BY <1>0, <1>2, NextResult DEF Fail
  <2>2. /\ exactFailureCounts' = [exactFailureCounts EXCEPT ![c] = @ + 1]
        /\ \/ sameToolFailureCounts' = sameToolFailureCounts
           \/ sameToolFailureCounts' = [sameToolFailureCounts EXCEPT ![t] = @ + 1]
        /\ callFailures' = [callFailures EXCEPT ![c] = @ + 1]
        /\ toolFailures' = [toolFailures EXCEPT ![t] = @ + 1]
    BY <1>2 DEF Fail
  <2>. HIDE DEF c, t
  <2>3. GuardTypeOK'
    <3>1. exactFailureCounts' \in [Call -> Nat] /\ callFailures' \in [Call -> Nat]
      BY <1>0, <2>1, <2>2, CountedUp
    <3>2. CASE sameToolFailureCounts' = sameToolFailureCounts
      <4>1. sameToolFailureCounts' \in [Tool -> Nat] /\ toolFailures' \in [Tool -> Nat]
        BY <1>0, <2>1, <2>2, <3>2, CountedUp
      <4>. QED  BY <2>1, <3>1, <4>1 DEF GuardTypeOK
    <3>3. CASE sameToolFailureCounts' = [sameToolFailureCounts EXCEPT ![t] = @ + 1]
      <4>1. sameToolFailureCounts' \in [Tool -> Nat] /\ toolFailures' \in [Tool -> Nat]
        BY <1>0, <2>1, <2>2, <3>3, CountedUp
      <4>. QED  BY <2>1, <3>1, <4>1 DEF GuardTypeOK
    <3>. QED  BY <2>2, <3>2, <3>3
  <2>4. CountsExact' /\ CountsBelow'
    BY <1>0, <2>1, <2>2 DEF CountsExact, CountsBelow
  <2>. QED  BY <2>3, <2>4 DEF GuardInv
<1>3. CASE GuardReset
  BY <1>3, GuardrailAssumption
  DEF GuardReset, GuardInv, GuardTypeOK, CountsExact, CountsBelow
<1>4. ASSUME NEW calls \in Turns, Turn(calls)
      PROVE  GuardInv'
  <2>1. PICK n \in 1..MaxTurn : calls \in [1..n -> Call]
    BY DEF Turns
  <2>2. /\ pending' = [i \in 1..n |-> [call |-> calls[i],
                                       duplicate |-> \E j \in 1..(i - 1) : calls[j] = calls[i]]]
        /\ UNCHANGED <<exactFailureCounts, sameToolFailureCounts, callFailures, toolFailures>>
    BY <1>4, <2>1 DEF Turn
  <2>3. pending' \in [1..n -> [call : Call, duplicate : BOOLEAN]]
    BY <2>1, <2>2
  <2>4. n \in Nat
    BY <2>1
  <2>5. pending' \in Seq([call : Call, duplicate : BOOLEAN])
    BY <2>3, <2>4, SeqDef
  <2>. QED  BY <1>0, <2>2, <2>5 DEF GuardInv, GuardTypeOK, CountsExact, CountsBelow
<1>5. CASE UNCHANGED GuardVars
  BY <1>0, <1>5 DEF GuardVars, GuardInv, GuardTypeOK, CountsExact, CountsBelow
<1>. QED  BY <1>1, <1>2, <1>3, <1>4, <1>5 DEF GuardNext

LEMMA GuardDecides == GuardInv => BlocksJustified
<1>. SUFFICES ASSUME GuardInv, NEW c \in Call
              PROVE  /\ Blocked(c) => callFailures[c] >= ExactBlock
                                          \/ toolFailures[ToolOf[c]] >= ToolHalt
                     /\ callFailures[c] >= ExactBlock => Blocked(c)
  BY DEF BlocksJustified
<1>. DEFINE exact == exactFailureCounts[c]
            same == sameToolFailureCounts[ToolOf[c]]
<1>1. /\ exact \in Nat /\ same \in Nat /\ toolFailures[ToolOf[c]] \in Nat
      /\ exact = callFailures[c] /\ same <= toolFailures[ToolOf[c]]
      /\ {ExactWarn, ExactBlock, ToolWarn, ToolHalt} \subseteq Nat /\ ExactWarn <= ExactBlock
  BY GuardrailAssumption DEF GuardInv, GuardTypeOK, CountsExact, CountsBelow
<1>2. /\ exact >= ExactBlock => Peek(c) = "halt"
      /\ Peek(c) = "halt" => exact >= ExactBlock \/ same >= ToolHalt
  BY <1>1 DEF Peek
<1>. QED  BY <1>1, <1>2 DEF Blocked

\* A call is blocked only when it failed ExactBlock times, or its tool
\* ToolHalt times, since the last success, and always when the former is so
\* (peek and check of ToolGuardrailController), whatever the thresholds.
THEOREM BlocksAreJustified == GuardSpec => []BlocksJustified
BY GuardStarts, GuardStep, GuardDecides, PTL DEF GuardSpec

-----------------------------------------------------------------------------
(* The dispatch of a call through the hooks.  While hooks are asked, every  *)
(* permanent one has allowed the present arguments or is still to answer;   *)
(* else the call will not run, or its arguments are looked at once more, or *)
(* a hook changed them in the second pass.                                  *)

AskedOrAllowed(c) ==
    \/ asks[c]
    \/ pass[c] = 1 /\ modified[c]
    \/ c \in rewritten
    \/ args[c] \in ValidArgs /\ Permanent \subseteq allowedBy[c] \cup ToSet(todo[c])

OnTheWay == \A c \in ToolCall : phase[c] = "hooking" => AskedOrAllowed(c)
DispatchInv == DispatchTypeOK /\ OnTheWay /\ CallsVetted

-----------------------------------------------------------------------------

\* What is in a sequence, position by position, after an insertion.
LEMMA Inserted ==
    ASSUME NEW S, NEW s \in Seq(S), NEW e \in S, NEW k \in 1..(Len(s) + 1)
    PROVE  /\ InsertAt(s, k, e) \in Seq(S)
           /\ Len(InsertAt(s, k, e)) = Len(s) + 1
           /\ \A i \in 1..(Len(s) + 1) :
                  InsertAt(s, k, e)[i] = IF i < k THEN s[i] ELSE IF i = k THEN e ELSE s[i - 1]
<1>. DEFINE front == SubSeq(s, 1, k - 1)
            back == SubSeq(s, k, Len(s))
            begun == front \o <<e>>
            t == begun \o back
<1>1. Len(s) \in Nat /\ k \in Nat /\ k - 1 \in Nat /\ \A i \in 1..Len(s) : s[i] \in S
  OBVIOUS
<1>2. front \in Seq(S) /\ Len(front) = k - 1 /\ \A i \in 1..(k - 1) : front[i] = s[i]
  <2>1. \A i \in 1..(k - 1) : s[i] \in S
    BY <1>1
  <2>2. Len(front) = IF 1 <= k - 1 THEN k - 1 - 1 + 1 ELSE 0
    BY <1>1, <2>1, SubSeqProperties
  <2>3. front \in Seq(S) /\ \A i \in 1..(k - 1 - 1 + 1) : front[i] = s[1 + i - 1]
    BY <1>1, <2>1, SubSeqProperties
  <2>. QED  BY <1>1, <2>2, <2>3
<1>3. back \in Seq(S) /\ Len(back) = Len(s) - k + 1
      /\ \A i \in 1..(Len(s) - k + 1) : back[i] = s[k + i - 1]
  <2>1. \A i \in k..Len(s) : s[i] \in S
    BY <1>1
  <2>2. Len(back) = IF k <= Len(s) THEN Len(s) - k + 1 ELSE 0
    BY <1>1, <2>1, SubSeqProperties
  <2>3. back \in Seq(S) /\ \A i \in 1..(Len(s) - k + 1) : back[i] = s[k + i - 1]
    BY <1>1, <2>1, SubSeqProperties
  <2>. QED  BY <1>1, <2>2, <2>3
<1>. HIDE DEF front, back
<1>4. begun \in Seq(S) /\ Len(begun) = k
      /\ \A i \in 1..k : begun[i] = IF i < k THEN s[i] ELSE e
  <2>1. <<e>> \in Seq(S) /\ Len(<<e>>) = 1 /\ <<e>>[1] = e
    OBVIOUS
  <2>. QED  BY <1>1, <1>2, <2>1, ConcatProperties
<1>. HIDE DEF begun
<1>5. t \in Seq(S) /\ Len(t) = Len(s) + 1
      /\ \A i \in 1..(Len(s) + 1) : t[i] = IF i <= k THEN begun[i] ELSE back[i - k]
  <2>1. /\ t \in Seq(S) /\ Len(t) = Len(begun) + Len(back)
        /\ \A i \in 1..(Len(begun) + Len(back)) :
               t[i] = IF i <= Len(begun) THEN begun[i] ELSE back[i - Len(begun)]
    BY <1>3, <1>4, ConcatProperties
  <2>2. Len(begun) + Len(back) = Len(s) + 1
    BY <1>1, <1>3, <1>4
  <2>. QED  BY <1>4, <2>1, <2>2
<1>6. ASSUME NEW i \in 1..(Len(s) + 1)
      PROVE  t[i] = IF i < k THEN s[i] ELSE IF i = k THEN e ELSE s[i - 1]
  <2>1. CASE i <= k
    BY <1>1, <1>4, <1>5, <2>1
  <2>2. CASE i > k
    <3>1. i - k \in 1..(Len(s) - k + 1) /\ k + (i - k) - 1 = i - 1
      BY <1>1, <2>2
    <3>2. back[i - k] = s[i - 1]
      BY <1>3, <3>1
    <3>. QED  BY SMTT(40), <1>1, <1>5, <2>2, <3>2
  <2>3. i <= k \/ i > k
    BY <1>1
  <2>. QED  BY <2>1, <2>2, <2>3
<1>7. InsertAt(s, k, e) = t
  BY DEF InsertAt, t, begun, front, back
<1>. QED  BY <1>5, <1>6, <1>7

\* ... and after a removal.
LEMMA Removed ==
    ASSUME NEW S, NEW s \in Seq(S), NEW k \in 1..Len(s)
    PROVE  /\ RemoveAt(s, k) \in Seq(S)
           /\ Len(RemoveAt(s, k)) = Len(s) - 1
           /\ \A i \in 1..(Len(s) - 1) :
                  RemoveAt(s, k)[i] = IF i < k THEN s[i] ELSE s[i + 1]
<1>. DEFINE front == SubSeq(s, 1, k - 1)
            back == SubSeq(s, k + 1, Len(s))
            t == front \o back
<1>1. Len(s) \in Nat /\ k \in Nat /\ k - 1 \in Nat /\ \A i \in 1..Len(s) : s[i] \in S
  OBVIOUS
<1>2. front \in Seq(S) /\ Len(front) = k - 1 /\ \A i \in 1..(k - 1) : front[i] = s[i]
  <2>1. \A i \in 1..(k - 1) : s[i] \in S
    BY <1>1
  <2>2. Len(front) = IF 1 <= k - 1 THEN k - 1 - 1 + 1 ELSE 0
    BY <1>1, <2>1, SubSeqProperties
  <2>3. front \in Seq(S) /\ \A i \in 1..(k - 1 - 1 + 1) : front[i] = s[1 + i - 1]
    BY <1>1, <2>1, SubSeqProperties
  <2>. QED  BY <1>1, <2>2, <2>3
<1>3. back \in Seq(S) /\ Len(back) = Len(s) - k
      /\ \A i \in 1..(Len(s) - k) : back[i] = s[k + i]
  <2>1. \A i \in (k + 1)..Len(s) : s[i] \in S
    BY <1>1
  <2>2. Len(back) = IF k + 1 <= Len(s) THEN Len(s) - (k + 1) + 1 ELSE 0
    BY <1>1, <2>1, SubSeqProperties
  <2>3. back \in Seq(S) /\ \A i \in 1..(Len(s) - (k + 1) + 1) : back[i] = s[(k + 1) + i - 1]
    BY <1>1, <2>1, SubSeqProperties
  <2>. QED  BY <1>1, <2>2, <2>3
<1>. HIDE DEF front, back
<1>4. t \in Seq(S) /\ Len(t) = Len(s) - 1
      /\ \A i \in 1..(Len(s) - 1) : t[i] = IF i <= k - 1 THEN front[i] ELSE back[i - (k - 1)]
  <2>1. /\ t \in Seq(S) /\ Len(t) = Len(front) + Len(back)
        /\ \A i \in 1..(Len(front) + Len(back)) :
               t[i] = IF i <= Len(front) THEN front[i] ELSE back[i - Len(front)]
    BY <1>2, <1>3, ConcatProperties
  <2>2. Len(front) + Len(back) = Len(s) - 1
    BY <1>1, <1>2, <1>3
  <2>. QED  BY <1>2, <2>1, <2>2
<1>5. ASSUME NEW i \in 1..(Len(s) - 1)
      PROVE  t[i] = IF i < k THEN s[i] ELSE s[i + 1]
  <2>1. CASE i < k
    BY <1>1, <1>2, <1>4, <2>1
  <2>2. CASE i >= k
    <3>1. i - (k - 1) \in 1..(Len(s) - k) /\ k + (i - (k - 1)) = i + 1
      BY <1>1, <2>2
    <3>2. back[i - (k - 1)] = s[i + 1]
      BY <1>3, <3>1
    <3>. QED  BY <1>1, <1>4, <2>2, <3>2
  <2>3. i < k \/ i >= k
    BY <1>1
  <2>. QED  BY <2>1, <2>2, <2>3
<1>6. RemoveAt(s, k) = t
  BY DEF RemoveAt, t, front, back
<1>. QED  BY <1>4, <1>5, <1>6

\* A list of hooks that is in order, without a second copy of any.
InOrder(s) == s \in Seq(Hook) /\ IsInjective(s) /\ Sorted(s)

\* A set of hooks, enumerated.
LEMMA EnumeratedHooks ==
    ASSUME NEW s \in SetToSeqs(Permanent)
    PROVE  s \in Seq(Hook) /\ IsInjective(s) /\ Permanent \subseteq ToSet(s)
<1>. DEFINE n == Cardinality(Permanent)
<1>1. IsFiniteSet(Permanent) /\ n \in Nat /\ Permanent \subseteq Hook
  BY DispatchAssumption, FS_Subset, FS_CardinalityType
<1>2. s \in [1..n -> Permanent] /\ \A i, j \in 1..n : i # j => s[i] # s[j]
  BY DEF SetToSeqs
<1>. HIDE DEF n
<1>3. s \in Seq(Permanent) /\ DOMAIN s = 1..n
  BY <1>1, <1>2, SeqDef
<1>4. s \in Seq(Hook)
  BY <1>1, <1>3, SeqMonotonic
<1>5. IsInjective(s)
  BY <1>2, <1>3 DEF IsInjective
<1>6. s \in Injection(1..n, Permanent)
  BY <1>2, <1>5 DEF Injection
<1>7. IsFiniteSet(1..n) /\ Cardinality(1..n) = n
  <2>1. 1 \in Int /\ n \in Int
    BY <1>1
  <2>. QED  BY <1>1, <2>1, FS_Interval
<1>8. s \in Surjection(1..n, Permanent)
  BY <1>1, <1>6, <1>7, FS_Injection DEF n
<1>9. Permanent \subseteq ToSet(s)
  BY <1>3, <1>8 DEF Surjection, ToSet
<1>. QED  BY <1>4, <1>5, <1>9

\* register: what it puts in stands behind the hooks of an earlier priority
\* and before all others.
LEMMA RegisterKeepsOrder ==
    ASSUME NEW s, InOrder(s), NEW h \in Hook, h \notin ToSet(s), NEW lo \in 1..(Len(s) + 1),
           \A i \in DOMAIN s : i < lo <=> Priority[s[i]] < Priority[h]
    PROVE  InOrder(InsertAt(s, lo, h)) /\ ToSet(s) \subseteq ToSet(InsertAt(s, lo, h))
<1>. DEFINE t == InsertAt(s, lo, h)
            n == Len(s)
<1>1. /\ s \in Seq(Hook) /\ n \in Nat /\ DOMAIN s = 1..n /\ lo \in Nat
      /\ \A i \in 1..n : s[i] \in Hook /\ s[i] # h
      /\ \A i, j \in 1..n : s[i] = s[j] => i = j
      /\ \A i, j \in 1..n : i < j => Priority[s[i]] <= Priority[s[j]]
      /\ \A g \in Hook : Priority[g] \in Nat
  <2>1. s \in Seq(Hook) /\ n \in Nat /\ DOMAIN s = 1..n /\ lo \in Nat /\ \A i \in 1..n : s[i] \in Hook
    BY DEF InOrder
  <2>2. \A i \in 1..n : s[i] # h
    BY <2>1 DEF ToSet
  <2>3. /\ \A i, j \in 1..n : s[i] = s[j] => i = j
        /\ \A i, j \in 1..n : i < j => Priority[s[i]] <= Priority[s[j]]
    BY <2>1 DEF InOrder, IsInjective, Sorted
  <2>. QED  BY <2>1, <2>2, <2>3, DispatchAssumption
<1>2. /\ t \in Seq(Hook) /\ DOMAIN t = 1..(n + 1)
      /\ \A i \in 1..(n + 1) : t[i] = IF i < lo THEN s[i] ELSE IF i = lo THEN h ELSE s[i - 1]
  BY SMTT(40), <1>1, Inserted
<1>. HIDE DEF t, n
<1>3. \A i \in 1..(n + 1) :
         /\ i < lo => i \in 1..n /\ t[i] = s[i]
         /\ i = lo => t[i] = h
         /\ i > lo => i - 1 \in 1..n /\ t[i] = s[i - 1]
  BY <1>1, <1>2 DEF n
<1>4. IsInjective(t)
  <2>. SUFFICES ASSUME NEW i \in 1..(n + 1), NEW j \in 1..(n + 1), t[i] = t[j]
                PROVE  i = j
    BY <1>2 DEF IsInjective
  <2>. QED  BY SMTT(40), <1>1, <1>3
<1>5. Sorted(t)
  <2>. SUFFICES ASSUME NEW i \in 1..(n + 1), NEW j \in 1..(n + 1), i < j
                PROVE  Priority[t[i]] <= Priority[t[j]]
    BY <1>2 DEF Sorted
  <2>1. \A k \in 1..n : k < lo <=> Priority[s[k]] < Priority[h]
    BY <1>1
  <2>2. CASE j < lo
    BY <1>1, <1>3, <2>2
  <2>3. CASE j = lo
    BY <1>1, <1>3, <2>1, <2>3
  <2>4. CASE j > lo /\ i < lo
    <3>1. i \in 1..n /\ j - 1 \in 1..n /\ t[i] = s[i] /\ t[j] = s[j - 1] /\ i <= j - 1
      BY <1>1, <1>3, <2>4
    <3>. QED  BY <1>1, <3>1
  <2>5. CASE j > lo /\ i = lo
    <3>1. j - 1 \in 1..n /\ t[j] = s[j - 1] /\ t[i] = h /\ ~(j - 1 < lo)
      BY <1>1, <1>3, <2>5
    <3>2. ~(Priority[s[j - 1]] < Priority[h])
      BY <2>1, <3>1
    <3>. QED  BY <1>1, <3>1, <3>2
  <2>6. CASE j > lo /\ i > lo
    <3>1. /\ i - 1 \in 1..n /\ j - 1 \in 1..n /\ i - 1 < j - 1
          /\ t[i] = s[i - 1] /\ t[j] = s[j - 1]
      BY <1>1, <1>3, <2>6
    <3>. QED  BY <1>1, <3>1
  <2>. QED  BY <1>1, <2>2, <2>3, <2>4, <2>5, <2>6
<1>6. ASSUME NEW i \in 1..n
      PROVE  \E k \in 1..(n + 1) : t[k] = s[i]
  <2>1. CASE i < lo
    <3>1. i \in 1..(n + 1)
      BY <1>1
    <3>. QED  BY <1>3, <2>1, <3>1
  <2>2. CASE i >= lo
    <3>1. i + 1 \in 1..(n + 1) /\ i + 1 > lo /\ (i + 1) - 1 = i
      BY <1>1, <2>2
    <3>. QED  BY <1>3, <3>1
  <2>. QED  BY <1>1, <2>1, <2>2
<1>7. ToSet(s) \subseteq ToSet(t)
  <2>1. ToSet(s) = {s[i] : i \in 1..n} /\ ToSet(t) = {t[i] : i \in 1..(n + 1)}
    BY <1>1, <1>2 DEF ToSet
  <2>. QED  BY <1>6, <2>1
<1>. QED  BY <1>2, <1>4, <1>5, <1>7 DEF InOrder, t

\* unregister: every other hook keeps its place in the order.
LEMMA UnregisterKeepsOrder ==
    ASSUME NEW s, InOrder(s), NEW k \in DOMAIN s
    PROVE  InOrder(RemoveAt(s, k)) /\ ToSet(s) \ {s[k]} \subseteq ToSet(RemoveAt(s, k))
<1>. DEFINE t == RemoveAt(s, k)
            n == Len(s)
<1>1. /\ s \in Seq(Hook) /\ n \in Nat /\ DOMAIN s = 1..n /\ k \in 1..n
      /\ \A i \in 1..n : s[i] \in Hook
      /\ \A i, j \in 1..n : s[i] = s[j] => i = j
      /\ \A i, j \in 1..n : i < j => Priority[s[i]] <= Priority[s[j]]
  BY DEF InOrder, IsInjective, Sorted
<1>2. /\ t \in Seq(Hook) /\ DOMAIN t = 1..(n - 1)
      /\ \A i \in 1..(n - 1) : t[i] = IF i < k THEN s[i] ELSE s[i + 1]
  BY <1>1, Removed
<1>. HIDE DEF t, n
<1>. DEFINE old(i) == IF i < k THEN i ELSE i + 1
<1>3. \A i \in 1..(n - 1) : old(i) \in 1..n /\ t[i] = s[old(i)]
  BY <1>1, <1>2
<1>4. \A i, j \in 1..(n - 1) : i < j => old(i) < old(j)
  BY <1>1
<1>. HIDE DEF old
<1>5. IsInjective(t)
  <2>. SUFFICES ASSUME NEW i \in 1..(n - 1), NEW j \in 1..(n - 1), t[i] = t[j], i < j
                PROVE  FALSE
    BY <1>2 DEF IsInjective
  <2>. QED  BY <1>1, <1>3, <1>4
<1>6. Sorted(t)
  BY <1>1, <1>2, <1>3, <1>4 DEF Sorted
<1>7. ASSUME NEW i \in 1..n, i # k
      PROVE  \E j \in 1..(n - 1) : t[j] = s[i]
  <2>1. CASE i < k
    <3>1. i \in 1..(n - 1)
      BY <1>1, <2>1
    <3>. QED  BY <1>2, <2>1, <3>1
  <2>2. CASE i > k
    <3>1. i - 1 \in 1..(n - 1) /\ ~(i - 1 < k) /\ (i - 1) + 1 = i
      BY <1>1, <2>2
    <3>. QED  BY <1>2, <3>1
  <2>. QED  BY <1>1, <1>7, <2>1, <2>2
<1>8. ToSet(s) \ {s[k]} \subseteq ToSet(t)
  <2>1. ToSet(s) = {s[i] : i \in 1..n} /\ ToSet(t) = {t[i] : i \in 1..(n - 1)}
    BY <1>1, <1>2 DEF ToSet
  <2>. QED  BY <1>7, <2>1
<1>. QED  BY <1>2, <1>5, <1>6, <1>8 DEF InOrder, t

\* The hook that answers, and those that are left.
LEMMA AnsweredHook ==
    ASSUME NEW s \in Seq(Hook), s # <<>>
    PROVE  /\ Head(s) \in Hook /\ Tail(s) \in Seq(Hook)
           /\ ToSet(s) \subseteq {Head(s)} \cup ToSet(Tail(s))
<1>1. /\ Head(s) \in Hook /\ Tail(s) \in Seq(Hook) /\ Head(s) = s[1]
      /\ Len(s) \in Nat /\ Len(Tail(s)) = Len(s) - 1 /\ DOMAIN s = 1..Len(s)
      /\ \A i \in 1..(Len(s) - 1) : Tail(s)[i] = s[i + 1]
  <2>1. Len(s) \in Nat /\ Len(s) # 0 /\ DOMAIN s = 1..Len(s)
    BY EmptySeq, LenProperties
  <2>2. /\ Head(s) \in Hook /\ Tail(s) \in Seq(Hook) /\ Len(Tail(s)) = Len(s) - 1
        /\ \A i \in 1..Len(Tail(s)) : Tail(s)[i] = s[i + 1]
    BY HeadTailProperties
  <2>3. Head(s) = s[1]
    BY <2>1
  <2>. QED  BY <2>1, <2>2, <2>3
<1>2. ASSUME NEW i \in 1..Len(s), i # 1
      PROVE  s[i] \in ToSet(Tail(s))
  <2>1. i - 1 \in 1..(Len(s) - 1) /\ (i - 1) + 1 = i
    BY <1>1, <1>2
  <2>2. DOMAIN Tail(s) = 1..(Len(s) - 1)
    BY <1>1
  <2>. QED  BY <1>1, <2>1, <2>2 DEF ToSet
<1>. QED  BY <1>1, <1>2 DEF ToSet

LEMMA DispatchStarts == DispatchInit => DispatchInv
<1>. SUFFICES ASSUME DispatchInit
              PROVE  DispatchInv
  OBVIOUS
<1>1. InOrder(hooks) /\ Permanent \subseteq ToSet(hooks)
  BY EnumeratedHooks DEF DispatchInit, InOrder
<1>2. <<>> \in Seq(Hook)
  OBVIOUS
<1>3. DispatchTypeOK
  BY <1>1, <1>2 DEF DispatchInit, DispatchTypeOK, InOrder
<1>4. OnTheWay /\ CallsVetted
  BY DEF DispatchInit, OnTheWay, CallsVetted
<1>. QED  BY <1>3, <1>4 DEF DispatchInv

Phases == {"queued", "probing", "hooking", "running", "refused", "answered"}

LEMMA DispatchTyped ==
    ASSUME DispatchInv
    PROVE  /\ InOrder(hooks) /\ hooks \in Seq(Hook) /\ Permanent \subseteq ToSet(hooks)
           /\ cached \in {"yes", "no", "none"}
           /\ phase \in [ToolCall -> Phases]
           /\ args \in [ToolCall -> Args \cup {NotModified}]
           /\ pass \in [ToolCall -> 1..2]
           /\ todo \in [ToolCall -> Seq(Hook)]
           /\ asks \in [ToolCall -> BOOLEAN]
           /\ modified \in [ToolCall -> BOOLEAN]
           /\ allowedBy \in [ToolCall -> SUBSET Hook]
           /\ rewritten \subseteq ToolCall
           /\ ValidArgs \subseteq Args /\ Permanent \subseteq Hook
BY DispatchAssumption DEF DispatchInv, DispatchTypeOK, InOrder, Phases

\* Hooks come and go.
LEMMA HooksStep ==
    ASSUME DispatchInv, NEW h \in Hook, RegisterHook(h) \/ UnregisterHook(h)
    PROVE  DispatchInv'
<1>0. InOrder(hooks) /\ hooks \in Seq(Hook) /\ Permanent \subseteq ToSet(hooks)
  BY DispatchTyped
<1>1. UNCHANGED <<cached, phase, args, passVars, allowedBy, rewritten>>
  BY DEF RegisterHook, UnregisterHook
<1>2. CASE RegisterHook(h)
  <2>1. PICK lo \in 1..(Len(hooks) + 1) :
           /\ \A i \in DOMAIN hooks : i < lo <=> Priority[hooks[i]] < Priority[h]
           /\ hooks' = InsertAt(hooks, lo, h)
    BY <1>2 DEF RegisterHook
  <2>2. h \notin ToSet(hooks)
    BY <1>2 DEF RegisterHook
  <2>3. InOrder(hooks') /\ Permanent \subseteq ToSet(hooks')
    BY <1>0, <2>1, <2>2, RegisterKeepsOrder
  <2>. QED  BY <1>1, <2>3
    DEF passVars, DispatchInv, DispatchTypeOK, InOrder, Sorted, OnTheWay, AskedOrAllowed,
        CallsVetted, Vetted
<1>3. CASE UnregisterHook(h)
  <2>1. PICK idx \in DOMAIN hooks : hooks[idx] = h /\ hooks' = RemoveAt(hooks, idx)
    BY <1>3 DEF UnregisterHook
  <2>2. h \notin Permanent
    BY <1>3 DEF UnregisterHook
  <2>3. InOrder(hooks') /\ ToSet(hooks) \ {h} \subseteq ToSet(hooks')
    BY <1>0, <2>1, UnregisterKeepsOrder
  <2>4. Permanent \subseteq ToSet(hooks')
    BY <1>0, <2>2, <2>3
  <2>. QED  BY <1>1, <2>3, <2>4
    DEF passVars, DispatchInv, DispatchTypeOK, InOrder, Sorted, OnTheWay, AskedOrAllowed,
        CallsVetted, Vetted
<1>. QED  BY <1>2, <1>3

\* What one call's step leaves of the others: their part of the invariant.
LEMMA OtherCalls ==
    ASSUME DispatchInv, NEW c \in ToolCall, NEW e \in ToolCall, e # c,
           /\ phase'[e] = phase[e] /\ args'[e] = args[e] /\ pass'[e] = pass[e]
           /\ todo'[e] = todo[e] /\ asks'[e] = asks[e] /\ modified'[e] = modified[e]
           /\ allowedBy'[e] = allowedBy[e] /\ (e \in rewritten => e \in rewritten')
    PROVE  /\ phase'[e] = "hooking" => AskedOrAllowed(e)'
           /\ phase'[e] = "running" => Vetted(e)' \/ e \in rewritten'
BY DEF DispatchInv, OnTheWay, AskedOrAllowed, CallsVetted, Vetted

\* The call goes on to its hooks: all of them are still to answer.
LEMMA HookingStep ==
    ASSUME DispatchInv, NEW c \in ToolCall,
           \/ \E a \in Args, gated \in BOOLEAN : BeginDispatch(c, a, gated)
           \/ \E answer \in {"yes", "no"} : ProbeAnswers(c, answer)
    PROVE  DispatchInv'
<1>0. /\ hooks \in Seq(Hook) /\ Permanent \subseteq ToSet(hooks)
      /\ cached \in {"yes", "no", "none"}
      /\ phase \in [ToolCall -> Phases]
      /\ args \in [ToolCall -> Args \cup {NotModified}]
      /\ todo \in [ToolCall -> Seq(Hook)]
  BY DispatchTyped
<1>1. /\ \E p \in Phases \ {"running"} : phase' = [phase EXCEPT ![c] = p]
      /\ \E a \in Args \cup {NotModified} : args' = [args EXCEPT ![c] = a]
      /\ cached' \in {"yes", "no", "none"}
      /\ todo' = [todo EXCEPT ![c] = hooks]
      /\ UNCHANGED <<hooks, pass, asks, modified, allowedBy, rewritten>>
      /\ phase'[c] = "hooking" => args'[c] \in ValidArgs
  <2>1. ASSUME NEW a \in Args, NEW gated \in BOOLEAN, BeginDispatch(c, a, gated)
        PROVE  /\ \E p \in Phases \ {"running"} : phase' = [phase EXCEPT ![c] = p]
               /\ \E b \in Args \cup {NotModified} : args' = [args EXCEPT ![c] = b]
               /\ cached' \in {"yes", "no", "none"}
               /\ phase'[c] = "hooking" => args'[c] \in ValidArgs
    BY <1>0, <2>1 DEF BeginDispatch, MoveTo, Phases
  <2>2. ASSUME NEW answer \in {"yes", "no"}, ProbeAnswers(c, answer)
        PROVE  /\ \E p \in Phases \ {"running"} : phase' = [phase EXCEPT ![c] = p]
               /\ \E b \in Args \cup {NotModified} : args' = [args EXCEPT ![c] = b]
               /\ cached' \in {"yes", "no", "none"}
               /\ phase'[c] = "hooking" => args'[c] \in ValidArgs
    <3>1. args[c] \in Args \cup {NotModified} /\ args' = [args EXCEPT ![c] = args[c]]
      BY <1>0, <2>2 DEF ProbeAnswers
    <3>2. phase' = [phase EXCEPT ![c] = IF answer = "yes" /\ args[c] \in ValidArgs
                                         THEN "hooking" ELSE "refused"]
      BY <2>2 DEF ProbeAnswers, MoveTo
    <3>. QED  BY <1>0, <2>2, <3>1, <3>2 DEF ProbeAnswers, Phases
  <2>3. /\ todo' = [todo EXCEPT ![c] = hooks]
        /\ UNCHANGED <<hooks, pass, asks, modified, allowedBy, rewritten>>
    BY DEF BeginDispatch, ProbeAnswers
  <2>. QED  BY <2>1, <2>2, <2>3
<1>2. /\ phase' \in [ToolCall -> Phases] /\ args' \in [ToolCall -> Args \cup {NotModified}]
      /\ todo' \in [ToolCall -> Seq(Hook)]
  BY <1>0, <1>1
<1>3. DispatchTypeOK'
  BY <1>1, <1>2 DEF DispatchInv, DispatchTypeOK, Sorted, Phases
<1>4. ASSUME NEW e \in ToolCall
      PROVE  /\ phase'[e] = "hooking" => AskedOrAllowed(e)'
             /\ phase'[e] = "running" => Vetted(e)' \/ e \in rewritten'
  <2>1. CASE e # c
    <3>1. phase'[e] = phase[e] /\ args'[e] = args[e] /\ todo'[e] = todo[e]
      BY <1>0, <1>1, <2>1
    <3>. QED  BY <1>1, <2>1, <3>1, OtherCalls
  <2>2. CASE e = c
    <3>1. phase'[c] # "running" /\ todo'[c] = hooks
      BY <1>0, <1>1
    <3>2. phase'[c] = "hooking" => args'[c] \in ValidArgs /\ Permanent \subseteq ToSet(todo'[c])
      BY <1>0, <1>1, <3>1
    <3>. QED  BY <2>2, <3>1, <3>2 DEF AskedOrAllowed
  <2>. QED  BY <2>1, <2>2
<1>. QED  BY <1>3, <1>4 DEF DispatchInv, OnTheWay, CallsVetted

\* A hook answers: what it leaves alone it allowed, asked about or denied.
LEMMA AnswersStep ==
    ASSUME DispatchInv, NEW c \in ToolCall, NEW d \in {"allow", "ask", "deny"},
           NEW input \in Args \cup {NotModified}, HookAnswers(c, d, input)
    PROVE  DispatchInv'
<1>. DEFINE changed == input \notin {NotModified, args[c]}
            h == Head(todo[c])
            allowed == IF d = "allow" THEN {h} ELSE {}
<1>0. /\ phase \in [ToolCall -> Phases]
      /\ args \in [ToolCall -> Args \cup {NotModified}]
      /\ pass \in [ToolCall -> 1..2]
      /\ todo \in [ToolCall -> Seq(Hook)]
      /\ asks \in [ToolCall -> BOOLEAN]
      /\ modified \in [ToolCall -> BOOLEAN]
      /\ allowedBy \in [ToolCall -> SUBSET Hook]
      /\ rewritten \subseteq ToolCall
      /\ ValidArgs \subseteq Args /\ NotModified \notin Args
  BY DispatchTyped, DispatchAssumption
<1>1. /\ phase[c] = "hooking" /\ todo[c] # <<>>
      /\ args' = [args EXCEPT ![c] = IF input = NotModified THEN @ ELSE input]
      /\ modified' = [modified EXCEPT ![c] = @ \/ input # NotModified]
      /\ asks' = [asks EXCEPT ![c] = @ \/ d = "ask"]
      /\ todo' = [todo EXCEPT ![c] = Tail(@)]
      /\ allowedBy' = [allowedBy EXCEPT ![c] = IF changed THEN {} ELSE @ \cup allowed]
      /\ rewritten' = rewritten \cup (IF pass[c] = 2 /\ changed THEN {c} ELSE {})
      /\ phase' = IF d = "deny" THEN [phase EXCEPT ![c] = "refused"] ELSE phase
      /\ UNCHANGED <<hooks, cached, pass>>
  BY DEF HookAnswers, MoveTo
<1>2. h \in Hook /\ Tail(todo[c]) \in Seq(Hook)
      /\ ToSet(todo[c]) \subseteq {h} \cup ToSet(Tail(todo[c]))
  BY <1>0, <1>1, AnsweredHook
<1>. HIDE DEF h
<1>3. DispatchTypeOK'
  <2>1. args' \in [ToolCall -> Args \cup {NotModified}]
    BY <1>0, <1>1
  <2>2. asks' \in [ToolCall -> BOOLEAN] /\ modified' \in [ToolCall -> BOOLEAN]
    BY <1>0, <1>1
  <2>3. todo' \in [ToolCall -> Seq(Hook)]
    BY <1>0, <1>1, <1>2
  <2>4. allowedBy' \in [ToolCall -> SUBSET Hook]
    BY <1>0, <1>1, <1>2
  <2>5. phase' \in [ToolCall -> Phases] /\ rewritten' \subseteq ToolCall
    BY <1>0, <1>1 DEF Phases
  <2>. QED  BY <1>1, <2>1, <2>2, <2>3, <2>4, <2>5 DEF DispatchInv, DispatchTypeOK, Sorted, Phases
<1>4. ASSUME NEW e \in ToolCall
      PROVE  /\ phase'[e] = "hooking" => AskedOrAllowed(e)'
             /\ phase'[e] = "running" => Vetted(e)' \/ e \in rewritten'
  <2>1. CASE e # c
    <3>1. /\ phase'[e] = phase[e] /\ args'[e] = args[e] /\ pass'[e] = pass[e]
          /\ todo'[e] = todo[e] /\ asks'[e] = asks[e] /\ modified'[e] = modified[e]
          /\ allowedBy'[e] = allowedBy[e] /\ (e \in rewritten => e \in rewritten')
      BY <1>0, <1>1, <2>1
    <3>. QED  BY <2>1, <3>1, OtherCalls
  <2>2. CASE e = c
    <3>1. /\ phase'[c] = (IF d = "deny" THEN "refused" ELSE "hooking")
          /\ args'[c] = (IF input = NotModified THEN args[c] ELSE input)
          /\ pass'[c] = pass[c] /\ todo'[c] = Tail(todo[c])
          /\ asks'[c] = (asks[c] \/ d = "ask")
          /\ modified'[c] = (modified[c] \/ input # NotModified)
          /\ allowedBy'[c] = (IF changed THEN {} ELSE allowedBy[c] \cup allowed)
      BY <1>0, <1>1
    <3>2. AskedOrAllowed(c) /\ pass[c] \in 1..2
      BY <1>0, <1>1 DEF DispatchInv, OnTheWay
    <3>3. ASSUME d = "allow"
          PROVE  AskedOrAllowed(c)'
      <4>1. CASE changed
        <5>1. CASE pass[c] = 1
          <6>1. pass'[c] = 1 /\ modified'[c]
            BY <3>1, <4>1, <5>1
          <6>. QED  BY <6>1 DEF AskedOrAllowed
        <5>2. CASE pass[c] = 2
          <6>1. c \in rewritten'
            BY <1>1, <4>1, <5>2
          <6>. QED  BY <6>1 DEF AskedOrAllowed
        <5>. QED  BY <3>2, <5>1, <5>2
      <4>2. CASE ~changed
        <5>1. args'[c] = args[c] /\ allowedBy'[c] = allowedBy[c] \cup {h}
          BY <3>1, <3>3, <4>2
        <5>2. CASE asks[c] \/ (pass[c] = 1 /\ modified[c]) \/ c \in rewritten
          <6>1. asks'[c] \/ (pass'[c] = 1 /\ modified'[c]) \/ c \in rewritten'
            BY <1>1, <3>1, <5>2
          <6>. QED  BY <6>1 DEF AskedOrAllowed
        <5>3. CASE args[c] \in ValidArgs /\ Permanent \subseteq allowedBy[c] \cup ToSet(todo[c])
          <6>1. args'[c] \in ValidArgs /\ Permanent \subseteq allowedBy'[c] \cup ToSet(todo'[c])
            BY <1>2, <3>1, <5>1, <5>3
          <6>. QED  BY <6>1 DEF AskedOrAllowed
        <5>. QED  BY <3>2, <5>2, <5>3 DEF AskedOrAllowed
      <4>. QED  BY <4>1, <4>2
    <3>4. d = "ask" => AskedOrAllowed(c)'
      BY <3>1 DEF AskedOrAllowed
    <3>. QED  BY <2>2, <3>1, <3>3, <3>4
  <2>. QED  BY <2>1, <2>2
<1>. QED  BY <1>3, <1>4 DEF DispatchInv, OnTheWay, CallsVetted

\* A pass ends: the call is refused, goes through the hooks again, or runs.
LEMMA PassEndsStep ==
    ASSUME DispatchInv, NEW c \in ToolCall, PassEnds(c)
    PROVE  DispatchInv'
<1>0. /\ hooks \in Seq(Hook) /\ Permanent \subseteq ToSet(hooks)
      /\ phase \in [ToolCall -> Phases]
      /\ pass \in [ToolCall -> 1..2]
      /\ todo \in [ToolCall -> Seq(Hook)]
      /\ modified \in [ToolCall -> BOOLEAN]
  BY DispatchTyped
<1>1. /\ phase[c] = "hooking" /\ todo[c] = <<>>
      /\ UNCHANGED <<hooks, cached, args, allowedBy, rewritten>>
  BY DEF PassEnds
<1>2. AskedOrAllowed(c)
  BY <1>1 DEF DispatchInv, OnTheWay
<1>3. ASSUME phase' = [phase EXCEPT ![c] = "refused"], UNCHANGED passVars
      PROVE  DispatchInv'
  <2>1. phase' \in [ToolCall -> Phases]
    BY <1>0, <1>3 DEF Phases
  <2>2. DispatchTypeOK'
    BY <1>1, <1>3, <2>1 DEF DispatchInv, DispatchTypeOK, Sorted, Phases, passVars
  <2>3. OnTheWay' /\ CallsVetted'
    BY <1>0, <1>1, <1>3
    DEF DispatchInv, OnTheWay, AskedOrAllowed, CallsVetted, Vetted, passVars
  <2>. QED  BY <2>2, <2>3 DEF DispatchInv
<1>4. ASSUME args[c] \in ValidArgs, pass' = [pass EXCEPT ![c] = 2],
             todo' = [todo EXCEPT ![c] = hooks], modified' = [modified EXCEPT ![c] = FALSE],
             UNCHANGED <<phase, asks>>
      PROVE  DispatchInv'
  <2>1. pass' \in [ToolCall -> 1..2] /\ modified' \in [ToolCall -> BOOLEAN]
        /\ todo' \in [ToolCall -> Seq(Hook)]
    BY <1>0, <1>4
  <2>2. DispatchTypeOK'
    BY <1>1, <1>4, <2>1 DEF DispatchInv, DispatchTypeOK, Sorted, Phases
  <2>3. ASSUME NEW e \in ToolCall
        PROVE  /\ phase'[e] = "hooking" => AskedOrAllowed(e)'
               /\ phase'[e] = "running" => Vetted(e)' \/ e \in rewritten'
    <3>1. CASE e # c
      <4>1. pass'[e] = pass[e] /\ todo'[e] = todo[e] /\ modified'[e] = modified[e]
        BY <1>0, <1>4, <3>1
      <4>. QED  BY <1>1, <1>4, <3>1, <4>1, OtherCalls
    <3>2. CASE e = c
      <4>1. /\ args'[c] \in ValidArgs /\ Permanent \subseteq ToSet(todo'[c])
            /\ phase'[c] = "hooking"
        BY <1>0, <1>1, <1>4
      <4>. QED  BY <3>2, <4>1 DEF AskedOrAllowed
    <3>. QED  BY <3>1, <3>2
  <2>. QED  BY <2>2, <2>3 DEF DispatchInv, OnTheWay, CallsVetted
<1>5. ASSUME ~asks[c], pass[c] = 2 \/ ~modified[c], phase' = [phase EXCEPT ![c] = "running"],
             UNCHANGED passVars
      PROVE  DispatchInv'
  <2>1. phase' \in [ToolCall -> Phases]
    BY <1>0, <1>5 DEF Phases
  <2>2. DispatchTypeOK'
    BY <1>1, <1>5, <2>1 DEF DispatchInv, DispatchTypeOK, Sorted, Phases, passVars
  <2>3. Vetted(c) \/ c \in rewritten
    <3>1. ToSet(todo[c]) = {}
      BY <1>1 DEF ToSet
    <3>2. c \in rewritten \/ (args[c] \in ValidArgs /\ Permanent \subseteq allowedBy[c] \cup ToSet(todo[c]))
      BY <1>2, <1>5 DEF AskedOrAllowed
    <3>. QED  BY <3>1, <3>2 DEF Vetted
  <2>4. ASSUME NEW e \in ToolCall
        PROVE  /\ phase'[e] = "hooking" => AskedOrAllowed(e)'
               /\ phase'[e] = "running" => Vetted(e)' \/ e \in rewritten'
    <3>1. CASE e # c
      <4>1. phase'[e] = phase[e]
        BY <1>0, <1>5, <3>1
      <4>. QED  BY <1>1, <1>5, <3>1, <4>1, OtherCalls DEF passVars
    <3>2. CASE e = c
      <4>1. phase'[c] = "running"
        BY <1>0, <1>5
      <4>. QED  BY <1>1, <2>3, <3>2, <4>1 DEF Vetted
    <3>. QED  BY <3>1, <3>2
  <2>. QED  BY <2>2, <2>4 DEF DispatchInv, OnTheWay, CallsVetted
<1>. QED  BY <1>3, <1>4, <1>5 DEF PassEnds, MoveTo

LEMMA DispatchStep == DispatchInv /\ [DispatchNext]_DispatchVars => DispatchInv'
<1>. SUFFICES ASSUME DispatchInv, [DispatchNext]_DispatchVars
              PROVE  DispatchInv'
  OBVIOUS
<1>1. CASE CacheExpires
  BY <1>1
  DEF CacheExpires, passVars, DispatchInv, DispatchTypeOK, Sorted, OnTheWay, AskedOrAllowed,
      CallsVetted, Vetted
<1>2. ASSUME NEW c \in ToolCall, HandlerReturns(c)
      PROVE  DispatchInv'
  <2>1. phase' = [phase EXCEPT ![c] = "answered"] /\ phase \in [ToolCall -> Phases]
    BY <1>2, DispatchTyped DEF HandlerReturns, MoveTo
  <2>2. UNCHANGED <<hooks, cached, args, pass, todo, asks, modified, allowedBy, rewritten>>
    BY <1>2 DEF HandlerReturns, passVars
  <2>3. phase' \in [ToolCall -> Phases]
    BY <2>1 DEF Phases
  <2>4. DispatchTypeOK'
    BY <2>2, <2>3 DEF DispatchInv, DispatchTypeOK, Sorted, Phases
  <2>5. OnTheWay' /\ CallsVetted'
    BY <2>1, <2>2 DEF DispatchInv, OnTheWay, AskedOrAllowed, CallsVetted, Vetted
  <2>. QED  BY <2>4, <2>5 DEF DispatchInv
<1>3. CASE UNCHANGED DispatchVars
  BY <1>3
  DEF DispatchVars, passVars, DispatchInv, DispatchTypeOK, Sorted, OnTheWay, AskedOrAllowed,
      CallsVetted, Vetted
<1>. QED
  BY <1>1, <1>2, <1>3, HooksStep, HookingStep, AnswersStep, PassEndsStep DEF DispatchNext

\* However many hooks are registered and removed while calls are dispatched,
\* and whatever they answer: a tool runs only on arguments that fit its
\* schema and that every permanent hook allowed as they are (dispatch of
\* ToolRegistry, runPreToolUse of HookEngine), unless a hook changed them in
\* the second pass too.
THEOREM CallsAreVetted == DispatchSpec => []CallsVetted
<1>1. DispatchInv => CallsVetted
  BY DEF DispatchInv
<1>. QED  BY DispatchStarts, DispatchStep, <1>1, PTL DEF DispatchSpec

-----------------------------------------------------------------------------
(* The loop detector.  Its counters are the length of the last constant run *)
(* of the history, its window the newest part of it as long as no           *)
(* consecutive loop kept a call out; the search for cycles compares every   *)
(* repetition with the first, the definition of a period every element      *)
(* with the one a period later.                                             *)

RunOf(streak, s) ==
    /\ streak.count <= Len(s)
    /\ streak.count = 0 => Len(s) = 0
    /\ \A i \in (Len(s) - streak.count + 1)..Len(s) : s[i] = streak.last
    /\ streak.count < Len(s) => s[Len(s) - streak.count] # streak.last

WindowOfCalls ==
    detection # "tool_call" =>
        cycleWindow = Newest(callHistory, MaxCycleLength * CycleThreshold)

LoopInv ==
    /\ LoopTypeOK /\ LoopExact /\ WindowOfCalls
    /\ RunOf(toolCalls, callHistory) /\ RunOf(contents, textHistory)

Streak(S) == [last : S \cup {"null"}, count : Nat]

-----------------------------------------------------------------------------

LEMMA TimesKeepsOrder ==
    ASSUME NEW a \in Nat, NEW b \in Nat, NEW c \in Nat, a <= b
    PROVE  a * c <= b * c
<1>1. PICK d \in Nat : b = a + d
  <2>1. b - a \in Nat /\ b = a + (b - a)
    OBVIOUS
  <2>. QED  BY <2>1
<1>2. b * c = a * c + d * c
  BY <1>1
<1>3. d * c \in Nat /\ a * c \in Nat
  OBVIOUS
<1>. QED  BY <1>2, <1>3

\* Counting one more call or text keeps the counter exact.
LEMMA CountedRun ==
    ASSUME NEW S, NEW streak \in Streak(S), NEW s \in Seq(S), NEW x \in S, RunOf(streak, s)
    PROVE  Counted(streak, x) \in Streak(S) /\ RunOf(Counted(streak, x), Append(s, x))
<1>. DEFINE n == Len(s)
            c == streak.count
            t == Append(s, x)
            next == Counted(streak, x)
<1>1. /\ n \in Nat /\ c \in Nat /\ c <= n /\ (c = 0 => n = 0)
      /\ \A i \in (n - c + 1)..n : s[i] = streak.last
      /\ c < n => s[n - c] # streak.last
  BY DEF RunOf, Streak
<1>2. t \in Seq(S) /\ Len(t) = n + 1 /\ t[n + 1] = x /\ \A i \in 1..n : t[i] = s[i]
  BY AppendProperties
<1>3. next.last = x /\ next.count = (IF x = streak.last THEN c + 1 ELSE 1)
  BY DEF Counted
<1>4. next \in Streak(S)
  BY <1>1 DEF Counted, Streak
<1>. HIDE DEF n, c, t, next
<1>5. CASE x = streak.last
  <2>1. next.count = c + 1
    BY <1>3, <1>5
  <2>2. ASSUME NEW i \in (n + 1 - (c + 1) + 1)..(n + 1)
        PROVE  t[i] = x
    <3>1. CASE i = n + 1
      BY <1>2, <3>1
    <3>2. CASE i # n + 1
      <4>1. i \in (n - c + 1)..n /\ i \in 1..n
        BY <1>1, <3>2
      <4>. QED  BY <1>1, <1>2, <1>5, <4>1
    <3>. QED  BY <3>1, <3>2
  <2>3. c + 1 < n + 1 => t[n + 1 - (c + 1)] # x
    <3>. SUFFICES ASSUME c + 1 < n + 1 PROVE t[n + 1 - (c + 1)] # x
      OBVIOUS
    <3>1. c < n /\ n + 1 - (c + 1) = n - c /\ n - c \in 1..n
      BY <1>1
    <3>. QED  BY <1>1, <1>2, <1>5, <3>1
  <2>4. c + 1 <= n + 1 /\ c + 1 # 0
    BY <1>1
  <2>5. RunOf(next, t)
    <3>1. next.count <= Len(t) /\ (next.count = 0 => Len(t) = 0)
      BY <1>2, <2>1, <2>4
    <3>2. \A i \in (Len(t) - next.count + 1)..Len(t) : t[i] = next.last
      BY <1>1, <1>2, <1>3, <2>1, <2>2
    <3>3. next.count < Len(t) => t[Len(t) - next.count] # next.last
      BY <1>1, <1>2, <1>3, <2>1, <2>3
    <3>. QED  BY <3>1, <3>2, <3>3, Zenon DEF RunOf
  <2>. QED  BY <1>4, <2>5 DEF next, t
<1>6. CASE x # streak.last
  <2>1. next.count = 1
    BY <1>3, <1>6
  <2>2. \A i \in (n + 1 - 1 + 1)..(n + 1) : t[i] = x
    BY <1>1, <1>2
  <2>3. 1 < n + 1 => t[n + 1 - 1] # x
    <3>. SUFFICES ASSUME 1 < n + 1 PROVE t[n + 1 - 1] # x
      OBVIOUS
    <3>1. n + 1 - 1 = n /\ n \in 1..n /\ n \in (n - c + 1)..n
      BY <1>1
    <3>. QED  BY <1>1, <1>2, <1>6, <3>1
  <2>4. 1 <= n + 1
    BY <1>1
  <2>5. RunOf(next, t)
    <3>1. next.count <= Len(t) /\ (next.count = 0 => Len(t) = 0)
      BY <1>2, <2>1, <2>4
    <3>2. \A i \in (Len(t) - next.count + 1)..Len(t) : t[i] = next.last
      BY <1>1, <1>2, <1>3, <2>1, <2>2
    <3>3. next.count < Len(t) => t[Len(t) - next.count] # next.last
      BY <1>1, <1>2, <1>3, <2>1, <2>3
    <3>. QED  BY <3>1, <3>2, <3>3, Zenon DEF RunOf
  <2>. QED  BY <1>4, <2>5 DEF next, t
<1>. QED  BY <1>5, <1>6

\* The history ends in a run of n exactly when the counter has reached n.
LEMMA RunDecides ==
    ASSUME NEW S, NEW streak \in Streak(S), NEW s \in Seq(S), RunOf(streak, s),
           NEW k \in Nat \ {0}
    PROVE  Repeats(s, k) <=> streak.count >= k
<1>. DEFINE n == Len(s)
            c == streak.count
            t == Newest(s, k)
<1>1. /\ n \in Nat /\ c \in Nat /\ c <= n /\ (c = 0 => n = 0)
      /\ \A i \in (n - c + 1)..n : s[i] = streak.last
      /\ c < n => s[n - c] # streak.last
  BY DEF RunOf, Streak
<1>2. n >= k => DOMAIN t = 1..k /\ \A i \in 1..k : t[i] = s[i + (n - k)]
  <2>1. NewestOf(S, s, k)
    BY NewestElements
  <2>2. n >= k => Kept(s, k) = k
    BY <1>1 DEF Kept
  <2>. QED  BY <2>1, <2>2 DEF NewestOf
<1>3. Repeats(s, k) <=> n >= k /\ \A i, j \in DOMAIN t : t[i] = t[j]
  BY DEF Repeats, Constant
<1>. HIDE DEF n, c, t
<1>4. ASSUME c >= k
      PROVE  n >= k /\ \A i, j \in DOMAIN t : t[i] = t[j]
  <2>1. n >= k
    BY <1>1, <1>4
  <2>2. ASSUME NEW i \in 1..k
        PROVE  t[i] = streak.last
    <3>1. i + (n - k) \in (n - c + 1)..n
      BY <1>1, <1>4
    <3>. QED  BY <1>1, <1>2, <2>1, <3>1
  <2>. QED  BY <1>2, <2>1, <2>2
<1>5. ASSUME n >= k, \A i, j \in DOMAIN t : t[i] = t[j], ~(c >= k)
      PROVE  FALSE
  <2>1. k - c \in 1..k /\ k \in 1..k /\ c < n /\ c >= 1
    BY <1>1, <1>5
  <2>2. t[k - c] = s[(k - c) + (n - k)] /\ t[k] = s[k + (n - k)] /\ t[k - c] = t[k]
    BY <1>2, <1>5, <2>1
  <2>3. (k - c) + (n - k) = n - c /\ k + (n - k) = n /\ n \in (n - c + 1)..n
    BY <1>1, <2>1
  <2>. QED  BY <1>1, <2>1, <2>2, <2>3
<1>. QED  BY <1>3, <1>4, <1>5 DEF c

\* Every position is in some repetition.
LEMMA Decomposed ==
    ASSUME NEW p \in Nat \ {0}
    PROVE  \A i \in Nat \ {0} : \E r \in Nat, k \in 1..p : i = r * p + k
<1>. DEFINE F == {n \in Nat : \E r \in Nat, k \in 1..p : n + 1 = r * p + k}
<1>1. 0 \in F
  <2>1. 1 \in 1..p /\ 0 + 1 = 0 * p + 1 /\ 0 \in Nat
    OBVIOUS
  <2>. QED  BY <2>1
<1>2. ASSUME NEW n \in Nat, n \in F
      PROVE  n + 1 \in F
  <2>1. PICK r \in Nat, k \in 1..p : n + 1 = r * p + k
    BY <1>2
  <2>2. CASE k < p
    <3>1. k + 1 \in 1..p /\ (n + 1) + 1 = r * p + (k + 1)
      BY <2>1, <2>2
    <3>. QED  BY <3>1
  <2>3. CASE k = p
    <3>1. 1 \in 1..p /\ r + 1 \in Nat /\ (n + 1) + 1 = (r + 1) * p + 1
      BY <2>1, <2>3
    <3>2. \E q \in Nat, k2 \in 1..p : (n + 1) + 1 = q * p + k2
      BY <3>1, Zenon
    <3>. QED  BY <3>2
  <2>. QED  BY <2>2, <2>3
<1>3. \A n \in Nat : n \in F
  <2>. HIDE DEF F
  <2>. QED  BY <1>1, <1>2, NaturalInduction
<1>4. ASSUME NEW i \in Nat \ {0}
      PROVE  \E r \in Nat, k \in 1..p : i = r * p + k
  <2>1. i - 1 \in Nat /\ i - 1 \in F
    <3>. HIDE DEF F
    <3>1. i - 1 \in Nat
      OBVIOUS
    <3>. QED  BY <1>3, <3>1
  <2>2. PICK r \in Nat, k \in 1..p : (i - 1) + 1 = r * p + k
    BY <2>1
  <2>. QED  BY <2>2
<1>. QED  BY <1>4

\* Every repetition is the first one, element by element.
Copies(t, p, c) == \A rep \in 1..(c - 1), i \in 1..p : t[rep * p + i] = t[i]
Steps(t, p, c) == \A i \in 1..(p * (c - 1)) : t[i] = t[i + p]

\* In which repetition a position of c periods is.
LEMMA Located ==
    ASSUME NEW p \in Nat \ {0}, NEW c \in Nat, NEW i \in 1..(p * c)
    PROVE  \E r \in 0..(c - 1), k \in 1..p : i = r * p + k
<1>1. PICK r \in Nat, k \in 1..p : i = r * p + k
  <2>1. i \in Nat \ {0}
    OBVIOUS
  <2>. QED  BY <2>1, Decomposed
<1>2. r <= c - 1
  <2>. SUFFICES ASSUME c <= r PROVE FALSE
    OBVIOUS
  <2>1. c * p <= r * p /\ p * c = c * p /\ c * p \in Nat /\ r * p \in Nat
    BY TimesKeepsOrder
  <2>. QED  BY <1>1, <2>1
<1>. QED  BY <1>1, <1>2

LEMMA CopiesAreSteps ==
    ASSUME NEW p \in Nat \ {0}, NEW c \in Nat \ {0}, NEW t
    PROVE  Copies(t, p, c) <=> Steps(t, p, c)
<1>1. ASSUME Copies(t, p, c), NEW i \in 1..(p * (c - 1))
      PROVE  t[i] = t[i + p]
  <2>1. c - 1 \in Nat
    OBVIOUS
  <2>2. PICK r \in 0..((c - 1) - 1), k \in 1..p : i = r * p + k
    BY <2>1, Located
  <2>3. i + p = (r + 1) * p + k /\ r + 1 \in 1..(c - 1)
    BY <2>2
  <2>4. t[i + p] = t[k]
    BY <1>1, <2>3 DEF Copies
  <2>5. CASE r = 0
    BY <2>2, <2>4, <2>5
  <2>6. CASE r # 0
    <3>1. r \in 1..(c - 1)
      BY <2>6
    <3>. QED  BY <1>1, <2>2, <2>4, <3>1 DEF Copies
  <2>. QED  BY <2>5, <2>6
<1>2. ASSUME Steps(t, p, c)
      PROVE  Copies(t, p, c)
  <2>. DEFINE F == {r \in Nat : r <= c - 1 => \A i \in 1..p : t[r * p + i] = t[i]}
  <2>1. 0 \in F
    <3>1. \A i \in 1..p : 0 * p + i = i
      OBVIOUS
    <3>. QED  BY <3>1
  <2>2. ASSUME NEW r \in Nat, r \in F
        PROVE  r + 1 \in F
    <3>. SUFFICES ASSUME r + 1 <= c - 1, NEW i \in 1..p
                  PROVE  t[(r + 1) * p + i] = t[i]
      OBVIOUS
    <3>1. t[r * p + i] = t[i]
      BY <2>2
    <3>2. (r + 1) * p <= (c - 1) * p /\ (c - 1) * p = p * (c - 1) /\ r * p \in Nat
      <4>1. r + 1 \in Nat /\ c - 1 \in Nat
        OBVIOUS
      <4>. QED  BY <4>1, TimesKeepsOrder
    <3>3. (r + 1) * p = r * p + p
      OBVIOUS
    <3>4. r * p + i \in 1..(p * (c - 1)) /\ (r * p + i) + p = (r + 1) * p + i
      BY <3>2, <3>3
    <3>. QED  BY <1>2, <3>1, <3>4 DEF Steps
  <2>3. \A r \in Nat : r \in F
    <3>. HIDE DEF F
    <3>. QED  BY <2>1, <2>2, NaturalInduction
  <2>. SUFFICES ASSUME NEW rep \in 1..(c - 1)
                PROVE  \A i \in 1..p : t[rep * p + i] = t[i]
    BY DEF Copies
  <2>4. rep \in Nat /\ rep <= c - 1
    OBVIOUS
  <2>5. rep \in F
    <3>. HIDE DEF F
    <3>. QED  BY <2>3, <2>4
  <2>. QED  BY <2>4, <2>5
<1>. QED  BY <1>1, <1>2 DEF Steps

\* The window and the comparison of repetitions find the cycles that the
\* history has.
LEMMA WindowFindsCycles ==
    ASSUME NEW S, NEW s \in Seq(S)
    PROVE  DetectCycle(Newest(s, MaxCycleLength * CycleThreshold))
               <=> Cycles(s, MaxCycleLength, CycleThreshold)
<1>. DEFINE M == MaxCycleLength
            c == CycleThreshold
            w == Newest(s, M * c)
            tail(p) == Newest(s, p * c)
            Found(p) == /\ Len(w) >= p * c
                        /\ \E i \in DOMAIN SubSeq(Newest(w, p * c), 1, p) :
                               SubSeq(Newest(w, p * c), 1, p)[i] # SubSeq(Newest(w, p * c), 1, p)[1]
                        /\ \A rep \in 1..(c - 1), i \in 1..p :
                               Newest(w, p * c)[rep * p + i] = SubSeq(Newest(w, p * c), 1, p)[i]
            Cycle(p) == Periodic(s, p, c) /\ ~ Constant(tail(p))
<1>1. M \in Nat \ {0} /\ c \in Nat \ {0} /\ Len(s) \in Nat /\ M * c \in Nat
  BY LoopConfigAssumption
<1>2. Len(w) = IF Len(s) > M * c THEN M * c ELSE Len(s)
  <2>1. NewestOf(S, s, M * c)
    BY <1>1, NewestElements
  <2>. QED  BY <2>1 DEF NewestOf, Kept
<1>3. DetectCycle(w) <=> \E p \in 2..M : Found(p)
  BY DEF DetectCycle
<1>4. Cycles(s, M, c) <=> \E p \in 2..M : Cycle(p)
  BY DEF Cycles
<1>5. ASSUME NEW p \in 2..M
      PROVE  Found(p) <=> Cycle(p)
  <2>1. p \in Nat \ {0} /\ p * c \in Nat /\ p * c <= M * c /\ p <= p * c
    <3>1. p \in Nat /\ 1 <= c /\ p <= M
      BY <1>1
    <3>2. p * c <= M * c
      BY <1>1, <3>1, TimesKeepsOrder
    <3>3. 1 * p <= c * p /\ 1 * p = p /\ c * p = p * c
      BY <1>1, <3>1, TimesKeepsOrder
    <3>. QED  BY <1>1, <3>1, <3>2, <3>3
  <2>2. Len(w) >= p * c <=> Len(s) >= p * c
    BY <1>1, <1>2, <2>1
  <2>3. Newest(w, p * c) = tail(p)
    BY <1>1, <2>1, NewestOfNewest
  <2>4. CASE ~(Len(s) >= p * c)
    BY <2>2, <2>4 DEF Periodic
  <2>5. CASE Len(s) >= p * c
    <3>. DEFINE t == tail(p)
                pattern == SubSeq(t, 1, p)
    <3>1. t \in Seq(S) /\ Len(t) = p * c
      <4>1. NewestOf(S, s, p * c)
        BY <2>1, NewestElements
      <4>2. Kept(s, p * c) = p * c
        BY <1>1, <2>1, <2>5 DEF Kept
      <4>. QED  BY <4>1, <4>2 DEF NewestOf
    <3>2. /\ Found(p) <=> /\ \E i \in DOMAIN pattern : pattern[i] # pattern[1]
                          /\ \A rep \in 1..(c - 1), i \in 1..p : t[rep * p + i] = pattern[i]
      BY <2>2, <2>3, <2>5
    <3>3. Cycle(p) <=> Steps(t, p, c) /\ ~ Constant(t)
      BY <2>5 DEF Periodic, Steps
    <3>. HIDE DEF t, tail, Found, Cycle
    <3>4. DOMAIN t = 1..(p * c)
      BY <3>1
    <3>5. DOMAIN pattern = 1..p /\ \A i \in 1..p : pattern[i] = t[i]
      <4>1. \A i \in 1..p : t[i] \in S
        <5>1. \A i \in 1..p : i \in 1..(p * c)
          BY <2>1
        <5>. QED  BY <3>1, <5>1
      <4>2. /\ pattern \in Seq(S) /\ Len(pattern) = (IF 1 <= p THEN p - 1 + 1 ELSE 0)
            /\ \A i \in 1..(p - 1 + 1) : pattern[i] = t[1 + i - 1]
        BY <2>1, <3>1, <4>1, SubSeqProperties
      <4>. QED  BY <2>1, <4>2
    <3>. HIDE DEF pattern
    <3>6. Found(p) <=> (\E i \in 1..p : t[i] # t[1]) /\ Copies(t, p, c)
      <4>1. 1 \in 1..p
        BY <2>1
      <4>. QED  BY <3>2, <3>5, <4>1 DEF Copies
    <3>7. Copies(t, p, c) <=> Steps(t, p, c)
      BY <1>1, <2>1, CopiesAreSteps
    <3>8. ASSUME Copies(t, p, c)
          PROVE  (\E i \in 1..p : t[i] # t[1]) <=> ~ Constant(t)
      <4>1. ASSUME NEW i \in 1..p, t[i] # t[1]
            PROVE  ~ Constant(t)
        <5>1. i \in 1..(p * c) /\ 1 \in 1..(p * c)
          BY <2>1
        <5>. QED  BY <3>4, <4>1, <5>1 DEF Constant
      <4>2. ASSUME \A i \in 1..p : t[i] = t[1], NEW j \in 1..(p * c)
            PROVE  t[j] = t[1]
        <5>1. PICK r \in 0..(c - 1), k \in 1..p : j = r * p + k
          BY <1>1, <2>1, Located
        <5>2. CASE r = 0
          <6>1. j = k
            BY <2>1, <5>1, <5>2
          <6>. QED  BY <4>2, <6>1
        <5>3. CASE r # 0
          <6>1. r \in 1..(c - 1)
            BY <1>1, <5>3
          <6>2. t[j] = t[k]
            BY <3>8, <5>1, <6>1 DEF Copies
          <6>. QED  BY <4>2, <6>2
        <5>. QED  BY <5>2, <5>3
      <4>. QED  BY <3>4, <4>1, <4>2 DEF Constant
    <3>. QED  BY <3>3, <3>6, <3>7, <3>8
  <2>. QED  BY <2>4, <2>5
<1>. HIDE DEF Found, Cycle
<1>6. DetectCycle(w) <=> Cycles(s, M, c)
  BY <1>3, <1>4, <1>5
<1>. QED  BY <1>6

\* Nothing recorded, nothing found.
LEMMA NothingFound ==
    /\ Newest(<<>>, MaxCycleLength * CycleThreshold) = <<>>
    /\ ~ Repeats(<<>>, ToolCallThreshold) /\ ~ Repeats(<<>>, ContentThreshold)
    /\ ~ Cycles(<<>>, MaxCycleLength, CycleThreshold)
    /\ <<>> \in Seq(Item) /\ Len(<<>>) <= MaxCycleLength * CycleThreshold
    /\ NoStreak \in Streak(Item) /\ RunOf(NoStreak, <<>>)
<1>1. /\ MaxCycleLength \in Nat /\ CycleThreshold \in Nat \ {0}
      /\ ToolCallThreshold \in Nat \ {0} /\ ContentThreshold \in Nat \ {0}
  BY LoopConfigAssumption
<1>2. MaxCycleLength * CycleThreshold \in Nat /\ Len(<<>>) = 0
  BY <1>1
<1>3. Newest(<<>>, MaxCycleLength * CycleThreshold) = <<>>
  BY <1>2 DEF Newest
<1>4. ~ Repeats(<<>>, ToolCallThreshold) /\ ~ Repeats(<<>>, ContentThreshold)
  BY <1>1, <1>2 DEF Repeats
<1>5. ~ Cycles(<<>>, MaxCycleLength, CycleThreshold)
  <2>. SUFFICES ASSUME NEW p \in 2..MaxCycleLength, 0 >= p * CycleThreshold
                PROVE  FALSE
    BY <1>2 DEF Cycles, Periodic
  <2>1. p \in Nat /\ 2 <= p /\ 1 <= CycleThreshold
    BY <1>1
  <2>2. 1 * p <= CycleThreshold * p
    BY <1>1, <2>1, TimesKeepsOrder
  <2>3. 1 * p = p /\ CycleThreshold * p = p * CycleThreshold /\ p * CycleThreshold \in Nat
    BY <1>1, <2>1
  <2>. QED  BY <2>1, <2>2, <2>3
<1>6. <<>> \in Seq(Item) /\ Len(<<>>) <= MaxCycleLength * CycleThreshold
  BY <1>2
<1>7. NoStreak \in Streak(Item)
  BY DEF NoStreak, Streak
<1>8. RunOf(NoStreak, <<>>)
  <2>1. NoStreak.count = 0
    BY DEF NoStreak
  <2>. QED  BY <1>2, <2>1 DEF RunOf
<1>. QED  BY <1>3, <1>4, <1>5, <1>6, <1>7, <1>8

LEMMA LoopStarts == LoopInit => LoopInv
BY NothingFound
DEF LoopInit, LoopInv, LoopTypeOK, LoopExact, WindowOfCalls, Streak

LEMMA ToolCallStep ==
    ASSUME LoopInv, NEW call \in Item, RecordToolCall(call)
    PROVE  LoopInv'
<1>. DEFINE W == MaxCycleLength * CycleThreshold
            calls == Append(callHistory, call)
            streak == Counted(toolCalls, call)
<1>1. W \in Nat \ {0} /\ ToolCallThreshold \in Nat \ {0}
  <2>1. MaxCycleLength \in Nat \ {0} /\ CycleThreshold \in Nat \ {0} /\ ToolCallThreshold \in Nat \ {0}
    BY LoopConfigAssumption
  <2>2. 1 * CycleThreshold <= MaxCycleLength * CycleThreshold
    BY <2>1, TimesKeepsOrder
  <2>. QED  BY <2>1, <2>2
<1>2. /\ toolCalls \in Streak(Item) /\ contents \in Streak(Item)
      /\ cycleWindow \in Seq(Item) /\ Len(cycleWindow) <= W
      /\ callHistory \in Seq(Item) /\ textHistory \in Seq(Item)
      /\ RunOf(toolCalls, callHistory) /\ RunOf(contents, textHistory)
      /\ LoopExact /\ WindowOfCalls
  BY DEF LoopInv, LoopTypeOK, Streak
<1>3. /\ detection = "none" /\ toolCalls' = streak /\ callHistory' = calls
      /\ contents' = contents /\ textHistory' = textHistory
      /\ IF streak.count >= ToolCallThreshold
         THEN detection' = "tool_call" /\ cycleWindow' = cycleWindow
         ELSE /\ cycleWindow' = Newest(Append(cycleWindow, call), W)
              /\ detection' = IF DetectCycle(cycleWindow') THEN "tool_call_cycle" ELSE "none"
  BY DEF RecordToolCall, Pushed
<1>. HIDE DEF W, streak
<1>4. streak \in Streak(Item) /\ RunOf(streak, calls) /\ calls \in Seq(Item)
  BY <1>2, CountedRun DEF streak
<1>. HIDE DEF calls
<1>5. Repeats(calls, ToolCallThreshold) <=> streak.count >= ToolCallThreshold
  BY <1>1, <1>4, RunDecides
<1>6. /\ ~ Repeats(textHistory, ContentThreshold)
      /\ cycleWindow = Newest(callHistory, W)
  BY <1>2, <1>3 DEF LoopExact, WindowOfCalls, W
<1>7. Newest(Append(cycleWindow, call), W) = Newest(calls, W)
  BY <1>1, <1>2, <1>6, NewestOfAppend DEF calls
<1>8. Newest(calls, W) \in Seq(Item) /\ Len(Newest(calls, W)) <= W
  <2>1. NewestOf(Item, calls, W) /\ Len(calls) \in Nat
    BY <1>1, <1>4, NewestElements
  <2>. QED  BY <1>1, <2>1 DEF NewestOf, Kept
<1>9. DetectCycle(Newest(calls, W)) <=> Cycles(calls, MaxCycleLength, CycleThreshold)
  BY <1>4, WindowFindsCycles DEF W
<1>10. LoopTypeOK'
  <2>1. cycleWindow' \in Seq(Item) /\ Len(cycleWindow') <= W
    BY <1>2, <1>3, <1>7, <1>8
  <2>2. detection' \in {"none", "tool_call", "tool_call_cycle", "content"}
    BY <1>3
  <2>. QED  BY <1>2, <1>3, <1>4, <2>1, <2>2 DEF LoopTypeOK, Streak, W
<1>11. CASE streak.count >= ToolCallThreshold
  <2>1. detection' = "tool_call" /\ Repeats(calls, ToolCallThreshold)
    BY <1>3, <1>5, <1>11
  <2>2. LoopExact' /\ WindowOfCalls'
    BY <1>3, <1>6, <2>1 DEF LoopExact, WindowOfCalls
  <2>. QED  BY <1>2, <1>3, <1>4, <1>10, <2>2 DEF LoopInv
<1>12. CASE ~(streak.count >= ToolCallThreshold)
  <2>1. cycleWindow' = Newest(calls, W)
    BY <1>3, <1>7, <1>12
  <2>2. /\ detection' = (IF DetectCycle(cycleWindow') THEN "tool_call_cycle" ELSE "none")
        /\ ~ Repeats(calls, ToolCallThreshold)
    BY <1>3, <1>5, <1>12
  <2>3. detection' = IF Cycles(calls, MaxCycleLength, CycleThreshold) THEN "tool_call_cycle" ELSE "none"
    BY <1>9, <2>1, <2>2
  <2>4. LoopExact'
    BY <1>3, <1>6, <2>2, <2>3 DEF LoopExact
  <2>5. WindowOfCalls'
    BY <1>3, <2>1 DEF WindowOfCalls, W
  <2>. QED  BY <1>2, <1>3, <1>4, <1>10, <2>4, <2>5 DEF LoopInv
<1>. QED  BY <1>11, <1>12

LEMMA ContentStep ==
    ASSUME LoopInv, NEW content_ \in Item, RecordContent(content_)
    PROVE  LoopInv'
<1>. DEFINE texts == Append(textHistory, content_)
            streak == Counted(contents, content_)
<1>1. ContentThreshold \in Nat \ {0}
  BY LoopConfigAssumption
<1>2. /\ toolCalls \in Streak(Item) /\ contents \in Streak(Item)
      /\ textHistory \in Seq(Item)
      /\ RunOf(toolCalls, callHistory) /\ RunOf(contents, textHistory)
      /\ LoopTypeOK /\ LoopExact /\ WindowOfCalls
  BY DEF LoopInv, LoopTypeOK, Streak
<1>3. /\ detection = "none" /\ contents' = streak /\ textHistory' = texts
      /\ detection' = (IF streak.count >= ContentThreshold THEN "content" ELSE "none")
      /\ UNCHANGED <<toolCalls, cycleWindow, callHistory>>
  BY DEF RecordContent
<1>. HIDE DEF streak
<1>4. streak \in Streak(Item) /\ RunOf(streak, texts) /\ texts \in Seq(Item)
  BY <1>2, CountedRun DEF streak
<1>. HIDE DEF texts
<1>5. Repeats(texts, ContentThreshold) <=> streak.count >= ContentThreshold
  BY <1>1, <1>4, RunDecides
<1>6. LoopTypeOK'
  BY <1>2, <1>3, <1>4 DEF LoopTypeOK, Streak
<1>7. LoopExact'
  BY <1>2, <1>3, <1>5 DEF LoopExact
<1>8. WindowOfCalls'
  BY <1>2, <1>3 DEF WindowOfCalls
<1>. QED  BY <1>2, <1>3, <1>4, <1>6, <1>7, <1>8 DEF LoopInv

LEMMA LoopStep == LoopInv /\ [LoopNext]_LoopVars => LoopInv'
<1>. SUFFICES ASSUME LoopInv, [LoopNext]_LoopVars
              PROVE  LoopInv'
  OBVIOUS
<1>1. CASE LoopReset
  BY <1>1, NothingFound
  DEF LoopReset, LoopInv, LoopTypeOK, LoopExact, WindowOfCalls, Streak
<1>2. CASE UNCHANGED LoopVars
  BY <1>2 DEF LoopVars, LoopInv, LoopTypeOK, LoopExact, WindowOfCalls
<1>. QED  BY <1>1, <1>2, ToolCallStep, ContentStep DEF LoopNext

\* The bounded window and the two counters of LoopDetector report what the
\* whole history since the reset says, for every threshold and cycle length:
\* a consecutive loop, a cycle that is none, or a repeated text, no sooner
\* and no later than it is there.
THEOREM LoopsAreFound == LoopSpec => []LoopExact
<1>1. LoopInv => LoopExact
  BY DEF LoopInv
<1>. QED  BY LoopStarts, LoopStep, <1>1, PTL DEF LoopSpec

-----------------------------------------------------------------------------
(* Compaction.  GroupsWhole needs to know that turns are numbered in the    *)
(* order they were taken and that a result's number is that of one of the   *)
(* calls of its message; and the walk that looks for a place to cut never   *)
(* leaves a result behind without the message it belongs to.                *)

Places == 1..Len(conversation)
RunUnderWay ==
    /\ mayCompact => loopRun > 0
    /\ loopRun > 0 => Len(conversation) >= 1 /\ snapshotOf # 0
PromptFirst == loopRun > 0 => conversation[1] = Prompt
TurnsTaken == \A i \in Places : GroupAt(i) => conversation[i].turn \in 1..modelTurn
TurnsInOrder ==
    \A i, j \in Places :
        i < j /\ GroupAt(i) /\ GroupAt(j) => conversation[i].turn < conversation[j].turn
GroupsAnswered == \A i \in Places : GroupAt(i) => Answered(i) \/ CutByHead(i)
OwnedBy(i, j) ==
    /\ GroupAt(j) /\ conversation[j].turn = conversation[i].turn
    /\ conversation[i].call \in 1..conversation[j].calls
    /\ i = j + conversation[i].call \/ CutByHead(j)
ResultsOwned ==
    \A i \in Places : conversation[i].role = "tool" => \E j \in 1..(i - 1) : OwnedBy(i, j)
CompactInv ==
    /\ CompactTypeOK /\ RunUnderWay /\ PromptFirst /\ TurnsTaken /\ TurnsInOrder
    /\ GroupsAnswered /\ ResultsOwned

LEMMA GroupsKept == CompactInv => GroupsWhole
BY DEF CompactInv, PromptFirst, TurnsInOrder, GroupsAnswered, ResultsOwned, OwnedBy, Places,
       GroupsWhole

-----------------------------------------------------------------------------

\* The message that OwnerOf finds, and that there is no other.
LEMMA OwnerFound ==
    ASSUME NEW s \in Seq(Message), NEW i \in 1..Len(s)
    PROVE  /\ OwnerOf(s, i) \in 0..(i - 1)
           /\ OwnerOf(s, i) > 0 =>
                  /\ s[i].role = "tool" /\ s[OwnerOf(s, i)].role = "assistant"
                  /\ \A k \in (OwnerOf(s, i) + 1)..(i - 1) : s[k].role = "tool"
           /\ \A j \in 1..(i - 1) :
                  /\ s[i].role = "tool" /\ s[j].role = "assistant" /\ s[j].calls > 0
                  /\ \A k \in (j + 1)..(i - 1) : s[k].role = "tool"
                  => OwnerOf(s, i) = j
<1>. DEFINE owners == {j \in 1..(i - 1) :
                          /\ s[j].role = "assistant" /\ s[j].calls > 0
                          /\ \A k \in (j + 1)..(i - 1) : s[k].role = "tool"}
            o == CHOOSE j \in owners : TRUE
<1>1. OwnerOf(s, i) = IF s[i].role = "tool" /\ owners # {} THEN o ELSE 0
  BY DEF OwnerOf
<1>2. owners # {} => o \in owners
  OBVIOUS
<1>. HIDE DEF o
<1>3. \A j1, j2 \in owners : j1 = j2
  OBVIOUS
<1>4. \A j \in owners : j \in 1..(i - 1) /\ s[j].role = "assistant"
                         /\ \A k \in (j + 1)..(i - 1) : s[k].role = "tool"
  OBVIOUS
<1>5. i \in Nat
  OBVIOUS
<1>6. ASSUME NEW j \in 1..(i - 1), s[i].role = "tool", s[j].role = "assistant", s[j].calls > 0,
             \A k \in (j + 1)..(i - 1) : s[k].role = "tool"
      PROVE  OwnerOf(s, i) = j
  <2>1. j \in owners
    BY <1>6
  <2>. HIDE DEF owners
  <2>. QED  BY <1>1, <1>2, <1>3, <1>6, <2>1
<1>. HIDE DEF owners
<1>7. OwnerOf(s, i) \in 0..(i - 1)
  BY <1>1, <1>2, <1>4, <1>5
<1>8. ASSUME OwnerOf(s, i) > 0
      PROVE  /\ s[i].role = "tool" /\ s[OwnerOf(s, i)].role = "assistant"
             /\ \A k \in (OwnerOf(s, i) + 1)..(i - 1) : s[k].role = "tool"
  <2>1. s[i].role = "tool" /\ owners # {} /\ OwnerOf(s, i) = o
    BY <1>1, <1>8
  <2>. QED  BY <1>2, <1>4, <2>1
<1>. QED  BY <1>6, <1>7, <1>8

\* phase2Boundaries: wherever the walk stops, every result in the tail that
\* belongs to a message has that message in the tail, too.
LEMMA WalkKeepsGroups ==
    ASSUME NEW s \in Seq(Message), NEW start \in TailStarts(s)
    PROVE  /\ start \in 1..(Len(s) + 1)
           /\ \A k \in start..Len(s) : OwnerOf(s, k) = 0 \/ OwnerOf(s, k) >= start
<1>. DEFINE n == Len(s)
            T == SUBSET Nat
            next(i) == IF OwnerOf(s, i) > 0 THEN OwnerOf(s, i) - 1 ELSE i - 1
            Walk(b) == b = [i \in 0..n |-> IF i = 0 THEN {1} ELSE {i + 1} \union b[next(i)]]
            before == CHOOSE b : Walk(b)
<1>1. n \in Nat /\ \A i \in 1..n : OwnerOf(s, i) \in 0..(i - 1)
  BY OwnerFound
<1>2. \A i \in 1..n : next(i) \in 0..(i - 1)
  BY <1>1
<1>3. TailStarts(s) = before[n]
  BY Zenon DEF TailStarts
<1>. HIDE DEF n, next
<1>4. Walk(before)
  <2>. DEFINE step == [i \in 0..n |-> [f \in [0..n -> T] |->
                          IF i = 0 THEN {1} ELSE {i + 1} \union f[next(i)]]]
  <2>1. step \in [0..n -> [[0..n -> T] -> T]]
    <3>. SUFFICES ASSUME NEW i \in 0..n, NEW f \in [0..n -> T], i # 0
                  PROVE  {i + 1} \union f[next(i)] \in T
      OBVIOUS
    <3>1. next(i) \in 0..n /\ i + 1 \in Nat
      BY <1>1, <1>2
    <3>. QED  BY <3>1
  <2>2. ASSUME NEW i \in 0..n, NEW f \in [0..n -> T], NEW g \in [0..n -> T],
               \A j \in 0..(i - 1) : f[j] = g[j]
        PROVE  step[i][f] = step[i][g]
    <3>1. i # 0 => next(i) \in 0..(i - 1)
      BY <1>1, <1>2
    <3>. QED  BY <2>2, <3>1
  <2>3. {1} \in T
    OBVIOUS
  <2>4. PICK g : Solves(T, n, step, g)
    <3>1. LooksBelow(T, n, step)
      BY <2>2 DEF LooksBelow
    <3>2. step \in RulesOn(T, n)
      BY <2>1 DEF RulesOn
    <3>3. n \in Nat
      BY <1>1
    <3>. HIDE DEF T, step
    <3>. QED  BY <2>3, <3>1, <3>2, <3>3, StrongRecursionExists
  <2>5. Walk(g)
    BY <2>4 DEF Solves
  <2>. HIDE DEF Walk
  <2>. QED  BY <2>5
<1>. HIDE DEF before
<1>5. before[0] = {1} /\ \A i \in 1..n : before[i] = {i + 1} \union before[next(i)]
  <2>1. \A i \in 0..n : before[i] = IF i = 0 THEN {1} ELSE {i + 1} \union before[next(i)]
    BY <1>4, Zenon
  <2>2. 0 \in 0..n /\ \A i \in 1..n : i \in 0..n /\ i # 0
    BY <1>1
  <2>. QED  BY <2>1, <2>2
<1>. DEFINE Clean(x) == \A k \in x..n : OwnerOf(s, k) = 0 \/ OwnerOf(s, k) >= x
            F == {i \in 0..n : Clean(i + 1) => \A x \in before[i] : x \in 1..(n + 1) /\ Clean(x)}
<1>6. ASSUME NEW i \in 1..n, Clean(i + 1)
      PROVE  Clean(next(i) + 1)
  <2>1. CASE OwnerOf(s, i) = 0
    <3>1. next(i) + 1 = i
      BY <1>1, <2>1 DEF next
    <3>. QED  BY <1>1, <1>6, <2>1, <3>1
  <2>2. CASE OwnerOf(s, i) > 0
    <3>. DEFINE o == OwnerOf(s, i)
    <3>1. next(i) + 1 = o /\ o \in 1..(i - 1)
      BY <1>1, <2>2 DEF next
    <3>2. s[o].role = "assistant" /\ \A k \in (o + 1)..(i - 1) : s[k].role = "tool"
      BY <2>2, OwnerFound DEF n
    <3>3. ASSUME NEW k \in o..n
          PROVE  OwnerOf(s, k) = 0 \/ OwnerOf(s, k) >= o
      <4>1. CASE k > i
        <5>1. k \in (i + 1)..n
          BY <1>1, <4>1
        <5>2. OwnerOf(s, k) = 0 \/ OwnerOf(s, k) >= i + 1
          BY <1>6, <5>1
        <5>3. k \in 1..n /\ OwnerOf(s, k) \in Nat
          BY <1>1, <3>1
        <5>. QED  BY <1>1, <3>1, <5>2, <5>3
      <4>2. CASE k = i
        BY <1>1, <3>1, <4>2
      <4>3. CASE k < i
        <5>. DEFINE p == OwnerOf(s, k)
        <5>1. k \in 1..n /\ p \in 0..(k - 1)
          BY <1>1, <3>1
        <5>2. p > 0 => \A m \in (p + 1)..(k - 1) : s[m].role = "tool"
          BY <5>1, OwnerFound DEF n
        <5>3. p > 0 => s[k].role = "tool"
          BY <5>1, OwnerFound DEF n
        <5>. HIDE DEF p, o
        <5>4. ASSUME p > 0, p < o
              PROVE  FALSE
          <6>1. CASE k = o
            BY <3>2, <5>3, <5>4, <6>1
          <6>2. CASE k # o
            <7>1. o \in (p + 1)..(k - 1)
              BY <3>1, <5>1, <5>4, <6>2
            <7>. QED  BY <3>2, <5>2, <5>4, <7>1
          <6>. QED  BY <6>1, <6>2
        <5>. QED  BY <3>1, <5>1, <5>4 DEF p
      <4>. QED  BY <1>1, <3>1, <4>1, <4>2, <4>3
    <3>. QED  BY <3>1, <3>3
  <2>. QED  BY <1>1, <2>1, <2>2
<1>7. ASSUME NEW i \in 0..n, \A j \in 0..(i - 1) : j \in F
      PROVE  i \in F
  <2>. SUFFICES ASSUME Clean(i + 1), NEW x \in before[i]
                PROVE  x \in 1..(n + 1) /\ Clean(x)
    OBVIOUS
  <2>1. CASE i = 0
    BY <1>1, <1>5, <2>1
  <2>2. CASE i # 0
    <3>1. i \in 1..n /\ next(i) \in 0..(i - 1) /\ next(i) \in F
      <4>1. i \in 1..n /\ next(i) \in 0..(i - 1)
        BY <1>1, <1>2, <2>2
      <4>. HIDE DEF F
      <4>. QED  BY <1>7, <4>1
    <3>2. CASE x = i + 1
      BY <1>1, <3>1, <3>2
    <3>3. CASE x # i + 1
      <4>1. x \in before[next(i)]
        BY <1>5, <3>1, <3>3
      <4>2. Clean(next(i) + 1)
        BY <1>6, <3>1
      <4>. HIDE DEF Clean
      <4>. QED  BY <3>1, <4>1, <4>2
    <3>. QED  BY <3>2, <3>3
  <2>. QED  BY <2>1, <2>2
<1>8. n \in F
  <2>. HIDE DEF F
  <2>. SUFFICES ASSUME n \notin F
                PROVE  FALSE
    OBVIOUS
  <2>. DEFINE Missing == {j \in 0..n : j \notin F}
  <2>1. Missing \in SUBSET Nat /\ Missing # {}
    BY <1>1
  <2>2. PICK i \in Missing : \A m \in Missing : i <= m
    <3>. HIDE DEF Missing
    <3>. QED  BY <2>1, LeastNatural
  <2>3. \A j \in 0..(i - 1) : j \in F
    BY <1>1, <2>2
  <2>. QED  BY <1>7, <2>2, <2>3
<1>9. Clean(n + 1)
  BY <1>1
<1>. QED  BY <1>3, <1>8, <1>9 DEF n

\* A part of a sequence, element by element.
LEMMA PartOf ==
    ASSUME NEW S, NEW s \in Seq(S), NEW a \in Nat \ {0}, NEW b \in 0..Len(s), a <= b + 1
    PROVE  /\ SubSeq(s, a, b) \in Seq(S) /\ Len(SubSeq(s, a, b)) = b - a + 1
           /\ \A i \in 1..(b - a + 1) : SubSeq(s, a, b)[i] = s[a + i - 1]
<1>1. Len(s) \in Nat /\ \A i \in 1..Len(s) : s[i] \in S
  OBVIOUS
<1>2. \A i \in a..b : s[i] \in S
  BY <1>1
<1>3. /\ SubSeq(s, a, b) \in Seq(S)
      /\ Len(SubSeq(s, a, b)) = IF a <= b THEN b - a + 1 ELSE 0
      /\ \A i \in 1..(b - a + 1) : SubSeq(s, a, b)[i] = s[a + i - 1]
  <2>1. a \in Int /\ b \in Int
    BY <1>1
  <2>. QED  BY <1>2, <2>1, SubSeqProperties
<1>. QED  BY <1>1, <1>3

\* Messages whose turn, if they have one, the summaries may tell of.
Known == {m \in Message : m.role = "assistant" => m.turn \in 1..MaxTurns}

LEMMA MessageRanges ==
    /\ 0 \in 0..MaxTurns /\ 1..MaxTurns \subseteq 0..MaxTurns
    /\ 0 \in 0..MaxCalls /\ 0 \in 0..MaxRuns /\ {} \in SUBSET (1..MaxTurns)
    /\ MaxTurns \in Nat /\ MaxCalls \in Nat /\ MaxRuns \in Nat
BY CompactionAssumption

LEMMA PromptTyped == Prompt \in Message /\ Prompt.role = "user"
BY MessageRanges DEF Prompt, Message

LEMMA MessagesTyped ==
    ASSUME NEW t \in 1..MaxTurns
    PROVE  /\ \A n \in 0..MaxCalls :
                  /\ Assistant(t, n) \in Message /\ Assistant(t, n).role = "assistant"
                  /\ Assistant(t, n).turn = t /\ Assistant(t, n).calls = n
           /\ \A k \in 0..MaxCalls :
                  /\ ToolResult(t, k) \in Message /\ ToolResult(t, k).role = "tool"
                  /\ ToolResult(t, k).turn = t /\ ToolResult(t, k).call = k
<1>1. t \in 0..MaxTurns
  BY MessageRanges
<1>2. ASSUME NEW n \in 0..MaxCalls
      PROVE  /\ Assistant(t, n) \in Message /\ Assistant(t, n).role = "assistant"
             /\ Assistant(t, n).turn = t /\ Assistant(t, n).calls = n
  <2>1. Prompt \in Message /\ n \in 0..MaxCalls
    BY PromptTyped
  <2>. QED  BY <1>1, <2>1 DEF Assistant, Message
<1>3. ASSUME NEW k \in 0..MaxCalls
      PROVE  /\ ToolResult(t, k) \in Message /\ ToolResult(t, k).role = "tool"
             /\ ToolResult(t, k).turn = t /\ ToolResult(t, k).call = k
  <2>1. Prompt \in Message /\ k \in 0..MaxCalls
    BY PromptTyped
  <2>. QED  BY <1>1, <2>1 DEF ToolResult, Message
<1>. QED  BY <1>2, <1>3

LEMMA SummaryTyped ==
    ASSUME CompactTypeOK, NEW gist \in SUBSET (1..MaxTurns)
    PROVE  Summary(gist) \in Message /\ Summary(gist).role = "user"
<1>1. snapshotOf \in 0..MaxRuns
  BY MessageRanges DEF CompactTypeOK
<1>2. Prompt \in Message /\ Prompt.role = "user"
  BY PromptTyped
<1>. QED  BY <1>1, <1>2 DEF Summary, Message

LEMMA GistTyped ==
    ASSUME NEW s \in Seq(Known)
    PROVE  Gist(s) \subseteq 1..MaxTurns
<1>1. \A i \in 1..Len(s) : s[i] \in Known
  OBVIOUS
<1>2. \A m \in Known : (IF m.role = "assistant" THEN {m.turn} ELSE m.gist) \subseteq 1..MaxTurns
  BY DEF Known, Message
<1>. QED  BY <1>1, <1>2 DEF Gist

LEMMA EvictTyped ==
    ASSUME NEW s \in Seq(Known)
    PROVE  Evict(s) \in Seq(Known)
<1>. DEFINE cutoffs == {i \in 1..Len(s) :
                           /\ s[i].role = "user"
                           /\ Cardinality({j \in i..Len(s) : s[j].role = "user"}) = EvictAge}
            c == CHOOSE i \in cutoffs : TRUE
<1>1. Evict(s) = IF cutoffs = {} THEN s ELSE SubSeq(s, c, Len(s))
  BY DEF Evict
<1>2. cutoffs # {} => c \in 1..Len(s)
  OBVIOUS
<1>. HIDE DEF c, cutoffs
<1>3. CASE cutoffs # {}
  <2>1. c \in Nat \ {0} /\ Len(s) \in 0..Len(s) /\ c <= Len(s) + 1
    BY <1>2, <1>3
  <2>. QED  BY <1>1, <1>3, <2>1, PartOf
<1>. QED  BY <1>1, <1>3

LEMMA SummariesTyped ==
    ASSUME CompactTypeOK, NEW s \in Seq(Known), NEW gist \in SummariesOf(s)
    PROVE  gist \subseteq 1..MaxTurns
<1>1. previousSummary \subseteq 1..MaxTurns
  BY DEF CompactTypeOK
<1>2. \A shown \in 0..Len(s) : Gist(SubSeq(s, 1, shown)) \subseteq 1..MaxTurns
  <2>. SUFFICES ASSUME NEW shown \in 0..Len(s)
                PROVE  SubSeq(s, 1, shown) \in Seq(Known)
    BY GistTyped
  <2>1. 1 \in Nat \ {0} /\ 1 <= shown + 1
    OBVIOUS
  <2>. QED  BY <2>1, PartOf
<1>3. \A i \in 1..Len(s) : Gist(<<s[i]>>) \subseteq 1..MaxTurns
  <2>. SUFFICES ASSUME NEW i \in 1..Len(s)
                PROVE  <<s[i]>> \in Seq(Known)
    BY GistTyped
  <2>. QED  OBVIOUS
<1>. DEFINE quoted == {i \in 1..Len(s) :
                          \/ /\ s[i].role = "assistant"
                             /\ Cardinality({j \in i..Len(s) : s[j].role = "assistant"}) <= 2
                          \/ /\ s[i].role = "user"
                             /\ \A j \in 1..(i - 1) : s[j].role # "user"}
<1>4. \/ gist = {}
      \/ \E shown \in 0..Len(s) : gist = previousSummary \union Gist(SubSeq(s, 1, shown))
      \/ gist = UNION {Gist(<<s[i]>>) : i \in quoted}
  BY DEF SummariesOf
<1>5. quoted \subseteq 1..Len(s)
  OBVIOUS
<1>. HIDE DEF quoted
<1>6. UNION {Gist(<<s[i]>>) : i \in quoted} \subseteq 1..MaxTurns
  BY <1>3, <1>5
<1>. QED  BY <1>1, <1>2, <1>4, <1>6

-----------------------------------------------------------------------------

LEMMA CompactStarts == CompactInit => CompactInv
<1>. SUFFICES ASSUME CompactInit
              PROVE  CompactInv
  OBVIOUS
<1>1. conversation = <<>> /\ Len(conversation) = 0 /\ Places = {}
  BY DEF CompactInit, Places
<1>2. CompactTypeOK
  <2>1. conversation \in Seq(Message) /\ loopRun \in 0..MaxRuns /\ snapshotOf \in 0..loopRun
    BY <1>1, MessageRanges DEF CompactInit
  <2>. QED  BY <2>1, MessageRanges DEF CompactInit, CompactTypeOK
<1>. QED  BY <1>1, <1>2
  DEF CompactInit, CompactInv, RunUnderWay, PromptFirst, TurnsTaken, TurnsInOrder,
      GroupsAnswered, ResultsOwned

LEMMA RunStep ==
    ASSUME CompactInv, StartRun
    PROVE  CompactInv'
<1>1. /\ loopRun \in 0..MaxRuns /\ loopRun < MaxRuns /\ snapshotOf \in 0..loopRun
      /\ MaxRuns \in Nat /\ MaxTurns \in Nat
  BY CompactionAssumption DEF CompactInv, CompactTypeOK, StartRun
<1>2. /\ loopRun' = loopRun + 1 /\ modelTurn' = 0 /\ conversation' = <<Prompt>>
      /\ mayCompact' = TRUE /\ previousSummary' = {}
      /\ snapshotOf' = IF snapshotOf = 0 THEN loopRun' ELSE snapshotOf
  BY DEF StartRun
<1>3. conversation' \in Seq(Message) /\ Len(conversation') = 1 /\ conversation'[1] = Prompt
  BY <1>2, PromptTyped
<1>4. snapshotOf' \in 0..loopRun' /\ snapshotOf' # 0 /\ loopRun' \in 0..MaxRuns
  BY <1>1, <1>2
<1>5. CompactTypeOK'
  BY <1>1, <1>2, <1>3, <1>4 DEF CompactTypeOK
<1>6. RunUnderWay' /\ PromptFirst'
  BY <1>1, <1>2, <1>3, <1>4 DEF RunUnderWay, PromptFirst
<1>7. \A i \in Places' : i = 1 /\ conversation'[i].role = "user"
  BY <1>3, PromptTyped DEF Places
<1>8. TurnsTaken' /\ TurnsInOrder' /\ GroupsAnswered' /\ ResultsOwned'
  BY <1>7 DEF TurnsTaken, TurnsInOrder, GroupsAnswered, ResultsOwned, GroupAt
<1>. QED  BY <1>5, <1>6, <1>8 DEF CompactInv

\* The loop appends a message with calls and a result for each.
LEMMA TurnStep ==
    ASSUME CompactInv, NEW n \in 1..MaxCalls, TakeTurn(n)
    PROVE  CompactInv'
<1>. DEFINE N == Len(conversation)
            t == modelTurn + 1
            results == [k \in 1..n |-> ToolResult(t, k)]
            begun == conversation \o <<Assistant(t, n)>>
<1>1. /\ conversation \in Seq(Message) /\ N \in Nat /\ modelTurn \in Nat /\ t \in 1..MaxTurns
      /\ n \in Nat \ {0} /\ n \in 0..MaxCalls /\ \A k \in 1..n : k \in 0..MaxCalls
      /\ loopRun \in Nat /\ loopRun > 0 /\ N >= 1
  BY CompactionAssumption DEF CompactInv, CompactTypeOK, TakeTurn, RunUnderWay
<1>2. /\ modelTurn' = t /\ mayCompact' = TRUE /\ conversation' = begun \o results
      /\ UNCHANGED <<loopRun, snapshotOf, previousSummary>>
  BY DEF TakeTurn
<1>. HIDE DEF t
<1>3. /\ Assistant(t, n) \in Message /\ Assistant(t, n).role = "assistant"
      /\ Assistant(t, n).turn = t /\ Assistant(t, n).calls = n
      /\ \A k \in 1..n : /\ ToolResult(t, k) \in Message /\ ToolResult(t, k).role = "tool"
                         /\ ToolResult(t, k).turn = t /\ ToolResult(t, k).call = k
  BY <1>1, MessagesTyped
<1>4. results \in Seq(Message) /\ Len(results) = n /\ \A k \in 1..n : results[k] = ToolResult(t, k)
  <2>1. results \in [1..n -> Message]
    BY <1>3
  <2>2. results \in Seq(Message)
    BY <1>1, <2>1, SeqDef
  <2>. QED  BY <1>1, <2>1, <2>2
<1>. HIDE DEF results, N
<1>5. begun \in Seq(Message) /\ Len(begun) = N + 1
      /\ \A i \in 1..(N + 1) : begun[i] = IF i <= N THEN conversation[i] ELSE Assistant(t, n)
  <2>. DEFINE e == Assistant(t, n)
  <2>. HIDE DEF e
  <2>1. <<e>> \in Seq(Message) /\ Len(<<e>>) = 1 /\ <<e>>[1] = e
    BY <1>3 DEF e
  <2>. QED  BY <1>1, <2>1, ConcatProperties DEF N, e
<1>. HIDE DEF begun
<1>6. conversation' \in Seq(Message) /\ Len(conversation') = N + 1 + n
      /\ \A i \in 1..(N + 1 + n) :
             conversation'[i] = IF i <= N + 1 THEN begun[i] ELSE results[i - (N + 1)]
  <2>1. /\ begun \o results \in Seq(Message) /\ Len(begun \o results) = Len(begun) + Len(results)
        /\ \A i \in 1..(Len(begun) + Len(results)) :
               (begun \o results)[i] = IF i <= Len(begun) THEN begun[i] ELSE results[i - Len(begun)]
    BY <1>4, <1>5, ConcatProperties
  <2>. QED  BY <1>2, <1>4, <1>5, <2>1, Zenon
<1>7. /\ \A i \in 1..N : conversation'[i] = conversation[i]
      /\ conversation'[N + 1] = Assistant(t, n)
      /\ \A k \in 1..n : conversation'[N + 1 + k] = ToolResult(t, k)
  <2>1. \A i \in 1..N : i \in 1..(N + 1 + n) /\ i \in 1..(N + 1)
    BY <1>1
  <2>2. N + 1 \in 1..(N + 1 + n) /\ N + 1 \in 1..(N + 1)
    BY <1>1
  <2>3. ASSUME NEW k \in 1..n
        PROVE  conversation'[N + 1 + k] = ToolResult(t, k)
    <3>1. N + 1 + k \in 1..(N + 1 + n) /\ ~(N + 1 + k <= N + 1) /\ (N + 1 + k) - (N + 1) = k
      BY <1>1
    <3>. QED  BY <1>4, <1>6, <3>1
  <2>. QED  BY <1>1, <1>5, <1>6, <2>1, <2>2, <2>3
<1>8. Places = 1..N /\ Places' = 1..(N + 1 + n)
  BY <1>6 DEF Places, N
<1>9. ASSUME NEW i \in 1..(N + 1 + n)
      PROVE  \/ i \in 1..N /\ conversation'[i] = conversation[i]
             \/ i = N + 1 /\ conversation'[i] = Assistant(t, n)
             \/ \E k \in 1..n : i = N + 1 + k /\ conversation'[i] = ToolResult(t, k)
  <2>1. CASE i > N + 1
    <3>1. i - (N + 1) \in 1..n /\ i = N + 1 + (i - (N + 1))
      BY <1>1, <2>1
    <3>. QED  BY <1>7, <3>1
  <2>2. CASE i <= N + 1
    BY <1>1, <1>7, <2>2
  <2>. QED  BY <1>1, <2>1, <2>2
<1>10. CompactTypeOK'
  <2>1. t \in 0..MaxTurns
    BY <1>1
  <2>. QED  BY <1>2, <1>6, <2>1 DEF CompactInv, CompactTypeOK
<1>11. RunUnderWay' /\ PromptFirst'
  BY SMTT(40), <1>1, <1>2, <1>6, <1>7 DEF CompactInv, RunUnderWay, PromptFirst
<1>12. \A i \in 1..(N + 1 + n) :
          GroupAt(i)' => (i \in 1..N /\ GroupAt(i) /\ conversation[i].turn \in 1..modelTurn
                            /\ conversation'[i] = conversation[i])
                         \/ (i = N + 1 /\ conversation'[i] = Assistant(t, n))
  BY <1>3, <1>8, <1>9 DEF GroupAt, CompactInv, TurnsTaken
<1>13. TurnsTaken'
  <2>. SUFFICES ASSUME NEW i \in 1..(N + 1 + n), GroupAt(i)'
                PROVE  conversation'[i].turn \in 1..t
    BY <1>2, <1>8 DEF TurnsTaken
  <2>1. 1..modelTurn \subseteq 1..t /\ t \in 1..t
    BY <1>1 DEF t
  <2>. QED  BY <1>3, <1>12, <2>1
<1>14. TurnsInOrder'
  <2>. SUFFICES ASSUME NEW i \in 1..(N + 1 + n), NEW j \in 1..(N + 1 + n), i < j,
                       GroupAt(i)', GroupAt(j)'
                PROVE  conversation'[i].turn < conversation'[j].turn
    BY <1>8 DEF TurnsInOrder
  <2>1. /\ i \in 1..N /\ GroupAt(i) /\ conversation[i].turn \in 1..modelTurn
        /\ conversation'[i] = conversation[i]
    BY <1>1, <1>12
  <2>2. CASE j \in 1..N /\ GroupAt(j) /\ conversation'[j] = conversation[j]
    BY <1>8, <2>1, <2>2 DEF CompactInv, TurnsInOrder
  <2>3. CASE conversation'[j] = Assistant(t, n)
    BY <1>1, <1>3, <2>1, <2>3 DEF t
  <2>. QED  BY <1>12, <2>2, <2>3
<1>15. GroupsAnswered'
  <2>. SUFFICES ASSUME NEW i \in 1..(N + 1 + n), GroupAt(i)'
                PROVE  Answered(i)' \/ CutByHead(i)'
    BY <1>8 DEF GroupsAnswered
  <2>1. CASE i \in 1..N /\ GroupAt(i) /\ conversation'[i] = conversation[i]
    <3>1. CASE CutByHead(i)
      BY <2>1, <3>1 DEF CutByHead
    <3>2. CASE Answered(i)
      <4>. SUFFICES ASSUME NEW k \in 1..conversation[i].calls
                    PROVE  /\ i + k <= N + 1 + n
                           /\ conversation'[i + k] = ToolResult(conversation[i].turn, k)
        BY <1>6, <2>1 DEF Answered
      <4>1. i + k <= N /\ conversation[i + k] = ToolResult(conversation[i].turn, k)
        BY <3>2 DEF Answered, N
      <4>2. i + k \in 1..N
        BY <1>1, <2>1, <4>1
      <4>. QED  BY SMTT(40), <1>1, <1>7, <4>1, <4>2
    <3>. QED  BY <1>8, <2>1, <3>1, <3>2 DEF CompactInv, GroupsAnswered
  <2>2. CASE i = N + 1
    <3>. SUFFICES ASSUME NEW k \in 1..conversation'[i].calls
                  PROVE  /\ i + k <= N + 1 + n
                         /\ conversation'[i + k] = ToolResult(conversation'[i].turn, k)
      BY <1>6 DEF Answered
    <3>1. conversation'[i].calls = n /\ conversation'[i].turn = t
      BY <1>3, <1>7, <2>2
    <3>. QED  BY <1>1, <1>7, <2>2, <3>1
  <2>. QED  BY <1>12, <2>1, <2>2
<1>16. ResultsOwned'
  <2>. SUFFICES ASSUME NEW i \in 1..(N + 1 + n), conversation'[i].role = "tool"
                PROVE  \E j \in 1..(i - 1) : OwnedBy(i, j)'
    BY <1>8 DEF ResultsOwned
  <2>1. CASE i \in 1..N /\ conversation'[i] = conversation[i]
    <3>1. PICK j \in 1..(i - 1) : OwnedBy(i, j)
      BY <1>8, <2>1 DEF CompactInv, ResultsOwned
    <3>2. j \in 1..N
      BY <1>1, <2>1
    <3>3. OwnedBy(i, j)'
      BY <1>7, <2>1, <3>1, <3>2 DEF OwnedBy, GroupAt, CutByHead
    <3>. QED  BY <3>3
  <2>2. ASSUME NEW k \in 1..n, i = N + 1 + k, conversation'[i] = ToolResult(t, k)
        PROVE  \E j \in 1..(i - 1) : OwnedBy(i, j)'
    <3>1. N + 1 \in 1..(i - 1)
      BY <1>1, <2>2
    <3>2. PICK j \in 1..(i - 1) : j = N + 1
      BY <3>1
    <3>3. /\ conversation'[j] = Assistant(t, n)
          /\ conversation'[i].turn = t /\ conversation'[i].call = k
      BY <1>3, <1>7, <2>2, <3>2
    <3>4. i = j + k
      BY <1>1, <2>2, <3>2
    <3>5. OwnedBy(i, j)'
      BY <1>3, <3>3, <3>4 DEF OwnedBy, GroupAt
    <3>. QED  BY <3>5
  <2>3. CASE conversation'[i] = Assistant(t, n)
    BY <1>3, <2>3
  <2>. QED  BY <1>9, <2>1, <2>2, <2>3
<1>. QED  BY <1>10, <1>11, <1>13, <1>14, <1>15, <1>16 DEF CompactInv

LEMMA ConversationKnown ==
    ASSUME CompactTypeOK, TurnsTaken
    PROVE  conversation \in Seq(Known)
<1>1. conversation \in Seq(Message) /\ Len(conversation) \in Nat /\ modelTurn \in 0..MaxTurns
  BY DEF CompactTypeOK
<1>2. \A i \in 1..Len(conversation) : conversation[i] \in Known
  <2>. SUFFICES ASSUME NEW i \in 1..Len(conversation), conversation[i].role = "assistant"
                PROVE  conversation[i].turn \in 1..MaxTurns
    BY <1>1 DEF Known
  <2>1. conversation[i].turn \in 1..modelTurn
    BY DEF TurnsTaken, Places, GroupAt
  <2>. QED  BY <1>1, <2>1, MessageRanges
<1>3. conversation \in [1..Len(conversation) -> Known]
  BY <1>1, <1>2
<1>. QED  BY <1>1, <1>3, SeqDef

\* What compress() makes of the conversation, message by message: the first
\* h, a summary, and those from start on of the rest, where no result is
\* without the message that it belongs to.
Rebuilt(h, start, gist) ==
    /\ Len(conversation') = Len(conversation) - start + 2
    /\ \A i \in 1..h : conversation'[i] = conversation[i]
    /\ conversation'[h + 1] = Summary(gist)
    /\ \A i \in (h + 2)..(Len(conversation) - start + 2) :
           conversation'[i] = conversation[i + start - 2]
CleanCut(h, start) ==
    \A j \in (h + 1)..Len(conversation) : \A i \in (h + start)..Len(conversation) :
        /\ conversation[i].role = "tool" /\ j < i
        /\ conversation[j].role = "assistant" /\ conversation[j].calls > 0
        /\ \A k \in (j + 1)..(i - 1) : conversation[k].role = "tool"
        => j >= h + start

HeadLength == IF Len(conversation) < ProtectFirst THEN Len(conversation) ELSE ProtectFirst

LEMMA CompactEffect ==
    ASSUME CompactInv, Compact
    PROVE  \E gist \in SUBSET (1..MaxTurns) :
              /\ previousSummary' = gist
              /\ mayCompact' = FALSE /\ UNCHANGED <<loopRun, modelTurn, snapshotOf>>
              /\ \/ conversation' = conversation
                 \/ /\ conversation' \in Seq(Message)
                    /\ \E start \in 1..(Len(conversation) - HeadLength + 1) :
                           Rebuilt(HeadLength, start, gist) /\ CleanCut(HeadLength, start)
<1>. DEFINE n == Len(conversation)
            h == HeadLength
            head == SubSeq(conversation, 1, h)
            rest == SubSeq(conversation, h + 1, n)
            middle(start) == Evict(SubSeq(rest, 1, start - 1))
            tail(start) == SubSeq(rest, start, Len(rest))
<1>1. /\ CompactTypeOK /\ conversation \in Seq(Message) /\ conversation \in Seq(Known)
      /\ n \in Nat /\ h \in 0..n /\ h \in Nat /\ ProtectFirst \in Nat
  BY CompactionAssumption, ConversationKnown DEF CompactInv, CompactTypeOK, HeadLength
<1>2. snapshotOf # 0
  BY DEF CompactInv, RunUnderWay, Compact, CompactTypeOK
<1>3. PICK start \in TailStarts(rest) : \E gist \in SummariesOf(middle(start)), saves \in BOOLEAN :
        /\ previousSummary' = gist
        /\ conversation' = IF saves THEN Assemble(head, gist, middle(start), tail(start))
                                    ELSE conversation
  BY DEF Compact, HeadLength
<1>4. PICK gist \in SummariesOf(middle(start)), saves \in BOOLEAN :
        /\ previousSummary' = gist
        /\ conversation' = IF saves THEN Assemble(head, gist, middle(start), tail(start))
                                    ELSE conversation
  BY <1>3
<1>5. mayCompact' = FALSE /\ UNCHANGED <<loopRun, modelTurn, snapshotOf>>
  BY DEF Compact
<1>. HIDE DEF n, h
<1>6. head \in Seq(Message) /\ Len(head) = h /\ \A i \in 1..h : head[i] = conversation[i]
  <2>1. 1 \in Nat \ {0} /\ h \in 0..Len(conversation) /\ 1 <= h + 1 /\ h - 1 + 1 = h
    BY <1>1 DEF n
  <2>2. /\ head \in Seq(Message) /\ Len(head) = h - 1 + 1
        /\ \A i \in 1..(h - 1 + 1) : head[i] = conversation[1 + i - 1]
    BY <1>1, <2>1, PartOf
  <2>. QED  BY <1>1, <2>1, <2>2
<1>7. /\ rest \in Seq(Message) /\ rest \in Seq(Known) /\ Len(rest) = n - h
      /\ \A i \in 1..(n - h) : rest[i] = conversation[h + i]
  <2>1. h + 1 \in Nat \ {0} /\ n \in 0..Len(conversation) /\ h + 1 <= n + 1
        /\ n - (h + 1) + 1 = n - h
    BY <1>1 DEF n
  <2>2. /\ rest \in Seq(Message) /\ Len(rest) = n - (h + 1) + 1
        /\ \A i \in 1..(n - (h + 1) + 1) : rest[i] = conversation[(h + 1) + i - 1]
    BY <1>1, <2>1, PartOf
  <2>3. rest \in Seq(Known)
    BY <1>1, <2>1, PartOf
  <2>. QED  BY <1>1, <2>1, <2>2, <2>3
<1>. HIDE DEF head, rest
<1>8. /\ start \in 1..(n - h + 1)
      /\ \A k \in start..(n - h) : OwnerOf(rest, k) = 0 \/ OwnerOf(rest, k) >= start
  BY <1>7, WalkKeepsGroups
<1>9. gist \in SUBSET (1..MaxTurns)
  <2>1. 1 \in Nat \ {0} /\ start - 1 \in 0..Len(rest) /\ 1 <= (start - 1) + 1
    BY <1>1, <1>7, <1>8
  <2>2. SubSeq(rest, 1, start - 1) \in Seq(Known)
    BY <1>7, <2>1, PartOf
  <2>3. middle(start) \in Seq(Known)
    BY <2>2, EvictTyped
  <2>. HIDE DEF middle
  <2>. QED  BY <1>1, <1>4, <2>3, SummariesTyped
<1>10. /\ tail(start) \in Seq(Message) /\ Len(tail(start)) = n - h - start + 1
      /\ \A i \in 1..(n - h - start + 1) : tail(start)[i] = conversation[h + (start + i - 1)]
  <2>1. start \in Nat \ {0} /\ Len(rest) \in 0..Len(rest) /\ start <= Len(rest) + 1
    BY <1>1, <1>7, <1>8
  <2>2. /\ tail(start) \in Seq(Message) /\ Len(tail(start)) = Len(rest) - start + 1
        /\ \A i \in 1..(Len(rest) - start + 1) : tail(start)[i] = rest[start + i - 1]
    BY <1>7, <2>1, PartOf
  <2>3. ASSUME NEW i \in 1..(n - h - start + 1)
        PROVE  tail(start)[i] = conversation[h + (start + i - 1)]
    <3>1. start + i - 1 \in 1..(n - h)
      BY <1>1, <1>8
    <3>. QED  BY <1>7, <2>2, <3>1
  <2>. QED  BY <1>7, <2>2, <2>3
<1>11. CleanCut(h, start)
  <2>. SUFFICES ASSUME NEW j \in (h + 1)..n, NEW i \in (h + start)..n,
                       conversation[i].role = "tool", j < i,
                       conversation[j].role = "assistant", conversation[j].calls > 0,
                       \A k \in (j + 1)..(i - 1) : conversation[k].role = "tool"
                PROVE  j >= h + start
    BY DEF CleanCut, n
  <2>. DEFINE jr == j - h
              ir == i - h
  <2>1. /\ jr \in 1..(ir - 1) /\ ir \in 1..(n - h) /\ ir \in start..(n - h)
        /\ h + jr = j /\ h + ir = i /\ jr > 0
    BY <1>1, <1>8
  <2>2. rest[ir].role = "tool" /\ rest[jr].role = "assistant" /\ rest[jr].calls > 0
    <3>1. jr \in 1..(n - h)
      BY <1>1, <2>1
    <3>. QED  BY <1>7, <2>1, <3>1
  <2>3. \A k \in (jr + 1)..(ir - 1) : rest[k].role = "tool"
    <3>. SUFFICES ASSUME NEW k \in (jr + 1)..(ir - 1)
                  PROVE  rest[k].role = "tool"
      OBVIOUS
    <3>1. h + k \in (j + 1)..(i - 1) /\ k \in 1..(n - h)
      BY <1>1, <2>1
    <3>. QED  BY <1>7, <3>1
  <2>4. OwnerOf(rest, ir) = jr
    BY <1>7, <2>1, <2>2, <2>3, OwnerFound
  <2>5. jr >= start
    BY <1>8, <2>1, <2>4
  <2>. QED  BY <1>1, <1>8, <2>5
<1>12. ASSUME saves
       PROVE  conversation' \in Seq(Message) /\ Rebuilt(h, start, gist)
  <2>. DEFINE back == tail(start)
              m == Summary(gist)
              begun == head \o <<m>>
  <2>1. conversation' = begun \o back
    BY <1>2, <1>4, <1>12 DEF Assemble
  <2>2. m \in Message
    BY <1>1, <1>9, SummaryTyped
  <2>. HIDE DEF tail, m
  <2>3. begun \in Seq(Message) /\ Len(begun) = h + 1
        /\ \A i \in 1..(h + 1) : begun[i] = IF i <= h THEN head[i] ELSE m
    <3>1. <<m>> \in Seq(Message) /\ Len(<<m>>) = 1 /\ <<m>>[1] = m
      BY <2>2
    <3>. QED  BY <1>1, <1>6, <3>1, ConcatProperties
  <2>. HIDE DEF begun, back
  <2>4. /\ conversation' \in Seq(Message)
        /\ Len(conversation') = (h + 1) + (n - h - start + 1)
        /\ \A i \in 1..((h + 1) + (n - h - start + 1)) :
               conversation'[i] = IF i <= h + 1 THEN begun[i] ELSE back[i - (h + 1)]
    <3>1. /\ begun \o back \in Seq(Message) /\ Len(begun \o back) = Len(begun) + Len(back)
          /\ \A i \in 1..(Len(begun) + Len(back)) :
                 (begun \o back)[i] = IF i <= Len(begun) THEN begun[i] ELSE back[i - Len(begun)]
      BY <1>10, <2>3, ConcatProperties DEF back
    <3>2. Len(back) = n - h - start + 1
      BY <1>10 DEF back
    <3>. QED  BY <2>1, <2>3, <3>1, <3>2, Zenon
  <2>5. (h + 1) + (n - h - start + 1) = n - start + 2
    BY <1>1, <1>8
  <2>6. ASSUME NEW i \in 1..h
        PROVE  conversation'[i] = conversation[i]
    <3>1. i \in 1..((h + 1) + (n - h - start + 1)) /\ i \in 1..(h + 1) /\ i <= h + 1 /\ i <= h
      BY <1>1, <1>8
    <3>. QED  BY <1>6, <2>3, <2>4, <3>1
  <2>7. conversation'[h + 1] = m
    <3>1. h + 1 \in 1..((h + 1) + (n - h - start + 1)) /\ h + 1 \in 1..(h + 1) /\ ~(h + 1 <= h)
          /\ h + 1 <= h + 1
      BY <1>1, <1>8
    <3>. QED  BY <2>3, <2>4, <3>1
  <2>8. ASSUME NEW i \in (h + 2)..(n - start + 2)
        PROVE  conversation'[i] = conversation[i + start - 2]
    <3>1. i \in 1..((h + 1) + (n - h - start + 1)) /\ ~(i <= h + 1)
      BY <1>1, <1>8
    <3>2. i - (h + 1) \in 1..(n - h - start + 1) /\ h + (start + (i - (h + 1)) - 1) = i + start - 2
      BY <1>1, <1>8
    <3>3. conversation'[i] = back[i - (h + 1)]
      BY <2>4, <3>1
    <3>4. back[i - (h + 1)] = conversation[h + (start + (i - (h + 1)) - 1)]
      BY <1>10, <3>2 DEF back
    <3>. QED  BY <3>2, <3>3, <3>4
  <2>. QED  BY <2>4, <2>5, <2>6, <2>7, <2>8 DEF Rebuilt, m, n
<1>13. start \in 1..(Len(conversation) - HeadLength + 1)
  BY <1>8 DEF n, h
<1>14. \/ conversation' = conversation
       \/ conversation' \in Seq(Message) /\ Rebuilt(h, start, gist)
  BY <1>4, <1>12
<1>. QED  BY <1>4, <1>5, <1>9, <1>11, <1>13, <1>14 DEF h

\* A conversation rebuilt with a clean cut keeps every group together, but
\* the one that the end of the head divides.
LEMMA OffsetWithin ==
    ASSUME NEW j \in Nat, NEW k \in Nat, NEW o \in Nat, NEW c \in Nat, NEW d \in Nat,
           o = j + c, c <= d, j < k, k < o
    PROVE  k - j \in 1..d /\ j + (k - j) = k
OBVIOUS

LEMMA ReachesPast ==
    ASSUME NEW j \in Nat, NEW o, NEW c \in Nat, NEW d \in Nat, NEW p,
           o = j + c, c <= d, p \in Nat, o > p
    PROVE  j + d > p
OBVIOUS

LEMMA RebuiltKeeps ==
    ASSUME CompactInv, NEW start \in 1..(Len(conversation) - HeadLength + 1),
           NEW gist \in SUBSET (1..MaxTurns),
           Rebuilt(HeadLength, start, gist), CleanCut(HeadLength, start),
           loopRun > 0, UNCHANGED <<loopRun, modelTurn, snapshotOf>>
    PROVE  /\ RunUnderWay' /\ PromptFirst' /\ TurnsTaken' /\ TurnsInOrder'
           /\ GroupsAnswered' /\ ResultsOwned'
<1>. DEFINE n == Len(conversation)
            h == HeadLength
            m == n - start + 2
            old(i) == IF i <= h THEN i ELSE i + start - 2
<1>1. /\ CompactTypeOK /\ conversation \in Seq(Message) /\ n \in Nat /\ n >= 1
      /\ ProtectFirst \in Nat /\ ProtectFirst >= 1 /\ h \in 1..n /\ snapshotOf # 0
      /\ h < n => h = ProtectFirst
      /\ h <= ProtectFirst
  BY CompactionAssumption DEF CompactInv, CompactTypeOK, RunUnderWay, HeadLength
<1>2. /\ Len(conversation') = m
      /\ \A i \in 1..h : conversation'[i] = conversation[i]
      /\ conversation'[h + 1] = Summary(gist)
      /\ \A i \in (h + 2)..m : conversation'[i] = conversation[i + start - 2]
  BY DEF Rebuilt
<1>3. start \in 1..(n - h + 1) /\ CleanCut(h, start)
  OBVIOUS
<1>. HIDE DEF h, n
<1>4. Summary(gist).role = "user"
  BY <1>1, SummaryTyped
<1>. HIDE DEF m
<1>5. m \in Nat /\ m = n - start + 2 /\ m >= h + 1 /\ Places = 1..n /\ Places' = 1..m
  BY <1>1, <1>2, <1>3 DEF Places, n, m
<1>6. \A i \in 1..m : i # h + 1 =>
         /\ old(i) \in 1..n /\ conversation'[i] = conversation[old(i)]
         /\ i > h => old(i) = i + start - 2 /\ old(i) >= h + start /\ i >= h + 2
         /\ i <= h => old(i) = i
  <2>. SUFFICES ASSUME NEW i \in 1..m, i # h + 1
                PROVE  /\ old(i) \in 1..n /\ conversation'[i] = conversation[old(i)]
                       /\ i > h => old(i) = i + start - 2 /\ old(i) >= h + start /\ i >= h + 2
                       /\ i <= h => old(i) = i
    OBVIOUS
  <2>1. CASE i <= h
    <3>1. i \in 1..h /\ old(i) = i
      BY <1>1, <1>5, <2>1
    <3>. QED  BY <1>1, <1>2, <2>1, <3>1
  <2>2. CASE i > h
    <3>1. i \in (h + 2)..m /\ old(i) = i + start - 2
      BY <1>1, <1>5, <2>2
    <3>. QED  BY <1>1, <1>2, <1>3, <1>5, <2>2, <3>1
  <2>. QED  BY <1>1, <1>5, <2>1, <2>2
<1>7. \A i, j \in 1..m : i # h + 1 /\ j # h + 1 /\ i < j => old(i) < old(j)
  <2>. SUFFICES ASSUME NEW i \in 1..m, NEW j \in 1..m, i # h + 1, j # h + 1, i < j
                PROVE  old(i) < old(j)
    OBVIOUS
  <2>. QED  BY <1>1, <1>3, <1>5
<1>. HIDE DEF old
<1>8. conversation'[h + 1].role = "user"
  BY <1>2, <1>4
<1>9. \A i \in 1..m : GroupAt(i)' => i # h + 1 /\ GroupAt(old(i))
  BY <1>6, <1>8 DEF GroupAt
<1>10. RunUnderWay' /\ PromptFirst'
  <2>1. 1 \in 1..h
    BY <1>1
  <2>2. conversation'[1] = conversation[1]
    BY <1>2, <2>1
  <2>. QED  BY <1>1, <1>2, <1>5, <2>2 DEF CompactInv, RunUnderWay, PromptFirst
<1>11. TurnsTaken'
  BY <1>5, <1>6, <1>9 DEF CompactInv, TurnsTaken
<1>12. TurnsInOrder'
  <2>. SUFFICES ASSUME NEW i \in 1..m, NEW j \in 1..m, i < j, GroupAt(i)', GroupAt(j)'
                PROVE  conversation'[i].turn < conversation'[j].turn
    BY <1>5 DEF TurnsInOrder
  <2>1. /\ old(i) \in 1..n /\ old(j) \in 1..n /\ old(i) < old(j)
        /\ GroupAt(old(i)) /\ GroupAt(old(j))
        /\ conversation'[i] = conversation[old(i)] /\ conversation'[j] = conversation[old(j)]
    BY <1>6, <1>7, <1>9
  <2>. QED  BY <1>5, <2>1 DEF CompactInv, TurnsInOrder
<1>13. GroupsAnswered'
  <2>. SUFFICES ASSUME NEW i \in 1..m, GroupAt(i)'
                PROVE  Answered(i)' \/ CutByHead(i)'
    BY <1>5 DEF GroupsAnswered
  <2>. DEFINE o == old(i)
  <2>1. /\ i # h + 1 /\ o \in 1..n /\ GroupAt(o) /\ conversation'[i] = conversation[o]
        /\ i > h => o = i + start - 2 /\ o >= h + start /\ i >= h + 2
        /\ i <= h => o = i
    BY <1>6, <1>9
  <2>2. Answered(o) \/ CutByHead(o)
    BY <1>5, <2>1 DEF CompactInv, GroupsAnswered
  <2>. HIDE DEF o
  <2>3. conversation[o].calls \in Nat
    <3>1. conversation[o] \in Message
      BY <1>1, <2>1 DEF n
    <3>. QED  BY <3>1, MessageRanges DEF Message
  <2>4. CASE i <= h /\ CutByHead(o)
    BY <2>1, <2>4 DEF CutByHead
  <2>5. CASE i <= h /\ Answered(o)
    <3>1. CASE i + conversation[i].calls <= h
      <4>. SUFFICES ASSUME NEW k \in 1..conversation[o].calls
                    PROVE  /\ i + k <= m
                           /\ conversation'[i + k] = ToolResult(conversation[o].turn, k)
        BY <1>2, <2>1 DEF Answered
      <4>1. i + k \in 1..h /\ i + k <= m /\ o + k = i + k
        BY <1>1, <1>5, <2>1, <2>3, <2>5, <3>1
      <4>2. conversation[o + k] = ToolResult(conversation[o].turn, k)
        BY <2>5 DEF Answered
      <4>. QED  BY <1>2, <4>1, <4>2
    <3>2. CASE ~(i + conversation[i].calls <= h)
      <4>1. h = ProtectFirst
        <5>1. CASE conversation[o].calls >= 1
          <6>1. conversation[o].calls \in 1..conversation[o].calls
            BY <2>3, <5>1
          <6>2. o + conversation[o].calls <= n
            BY <2>5, <6>1 DEF Answered, n
          <6>. QED  BY <1>1, <2>1, <2>3, <2>5, <3>2, <6>2
        <5>2. CASE conversation[o].calls = 0
          BY <1>1, <2>1, <2>5, <3>2, <5>2
        <5>. QED  BY <2>3, <5>1, <5>2
      <4>2. i <= ProtectFirst /\ i + conversation'[i].calls > ProtectFirst
        BY <1>1, <2>1, <2>3, <2>5, <3>2, <4>1
      <4>. QED  BY <4>2 DEF CutByHead
    <3>. QED  BY <3>1, <3>2
  <2>6. CASE i > h
    <3>1. h < n /\ h = ProtectFirst /\ o > ProtectFirst
      BY SMTT(40), <1>1, <1>3, <2>1, <2>6
    <3>2. Answered(o)
      BY <1>1, <2>1, <2>2, <3>1 DEF CutByHead
    <3>. SUFFICES ASSUME NEW k \in 1..conversation[o].calls
                  PROVE  /\ i + k <= m
                         /\ conversation'[i + k] = ToolResult(conversation[o].turn, k)
      BY <1>2, <2>1 DEF Answered
    <3>3. o + k <= n /\ conversation[o + k] = ToolResult(conversation[o].turn, k)
      BY <3>2 DEF Answered, n
    <3>4. i + k \in (h + 2)..m /\ (i + k) + start - 2 = o + k
      BY <1>1, <1>3, <1>5, <2>1, <2>3, <2>6, <3>3
    <3>5. i + k <= m
      BY <1>5, <3>4
    <3>. QED  BY <1>2, <3>3, <3>4, <3>5
  <2>. QED  BY <1>1, <1>5, <2>2, <2>4, <2>5, <2>6, <2>1
<1>14. ResultsOwned'
  <2>. SUFFICES ASSUME NEW i \in 1..m, conversation'[i].role = "tool"
                PROVE  \E j \in 1..(i - 1) : OwnedBy(i, j)'
    BY <1>5 DEF ResultsOwned
  <2>. DEFINE o == old(i)
  <2>1. /\ i # h + 1 /\ o \in 1..n /\ conversation'[i] = conversation[o]
        /\ conversation[o].role = "tool"
        /\ i > h => o = i + start - 2 /\ o >= h + start /\ i >= h + 2
        /\ i <= h => o = i
    BY <1>6, <1>8
  <2>. HIDE DEF o
  <2>2. PICK j \in 1..(o - 1) : OwnedBy(o, j)
    BY <1>5, <2>1 DEF CompactInv, ResultsOwned
  <2>3. /\ j \in 1..n /\ GroupAt(j) /\ conversation[j].turn = conversation[o].turn
        /\ conversation[o].call \in 1..conversation[j].calls
        /\ o = j + conversation[o].call \/ CutByHead(j)
    BY <1>1, <2>1, <2>2 DEF OwnedBy
  <2>4. conversation[j].calls \in Nat /\ conversation[o].call \in Nat
    <3>1. conversation[j] \in Message
      BY <1>1, <2>3 DEF n
    <3>2. conversation[j].calls \in 0..MaxCalls
      BY <3>1 DEF Message
    <3>3. conversation[j].calls \in Nat
      BY <3>2, MessageRanges
    <3>. QED  BY <2>3, <3>3
  <2>5. CASE i <= h
    <3>1. j \in 1..(i - 1) /\ j \in 1..h
      BY <1>1, <2>1, <2>2, <2>5
    <3>2. conversation'[j] = conversation[j]
      BY <1>2, <3>1
    <3>3. OwnedBy(i, j)'
      BY <2>1, <2>3, <2>5, <3>2 DEF OwnedBy, GroupAt, CutByHead
    <3>. QED  BY <3>1, <3>3
  <2>6. CASE i > h /\ j <= h
    <3>1. j \in 1..(i - 1) /\ j \in 1..h
      BY <1>1, <2>2, <2>6
    <3>2. conversation'[j] = conversation[j]
      BY <1>2, <3>1
    <3>3. h = ProtectFirst /\ o > ProtectFirst
      BY <1>1, <1>3, <2>1, <2>6
    <3>4. CutByHead(j)
      <4>1. CASE o = j + conversation[o].call
        <5>1. conversation[o].call <= conversation[j].calls
          BY <2>3, <2>4
        <5>2. j + conversation[j].calls > ProtectFirst
          BY SMTT(40), <1>1, <2>3, <2>4, <3>3, <4>1, <5>1, ReachesPast
        <5>. QED  BY <3>1, <3>3, <5>2 DEF CutByHead
      <4>2. CASE CutByHead(j)
        BY <4>2
      <4>. QED  BY <2>3, <4>1, <4>2
    <3>5. OwnedBy(i, j)'
      BY <2>1, <2>3, <3>2, <3>4 DEF OwnedBy, GroupAt, CutByHead
    <3>. QED  BY <3>1, <3>5
  <2>7. CASE i > h /\ j > h
    <3>1. h = ProtectFirst /\ j > ProtectFirst /\ j \in (h + 1)..n /\ o \in (h + start)..n
      BY <1>1, <1>3, <2>1, <2>3, <2>7
    <3>2. o = j + conversation[o].call /\ Answered(j)
      <4>1. ~ CutByHead(j)
        BY <1>1, <2>3, <3>1 DEF CutByHead
      <4>. QED  BY <1>5, <2>3, <4>1 DEF CompactInv, GroupsAnswered
    <3>3. ASSUME NEW k \in (j + 1)..(o - 1)
          PROVE  conversation[k].role = "tool"
      <4>1. k - j \in 1..conversation[j].calls /\ j + (k - j) = k
        <5>1. o = j + conversation[o].call /\ conversation[o].call <= conversation[j].calls
          BY <2>3, <2>4, <3>2
        <5>2. j \in Nat /\ k \in Nat /\ o \in Nat /\ j < k /\ k < o
          BY <1>1, <2>1, <2>3, <2>2 DEF n
        <5>. QED  BY <2>4, <5>1, <5>2, OffsetWithin
      <4>2. conversation[k] = ToolResult(conversation[j].turn, k - j)
        BY <3>2, <4>1 DEF Answered
      <4>3. conversation[j].turn \in 1..MaxTurns
        <5>1. conversation[j].turn \in 1..modelTurn /\ modelTurn \in 0..MaxTurns
          BY <1>1, <1>5, <2>3 DEF CompactInv, TurnsTaken, CompactTypeOK
        <5>. QED  BY <5>1, MessageRanges
      <4>4. k - j \in 0..MaxCalls
        <5>1. conversation[j] \in Message
          BY <1>1, <2>3 DEF n
        <5>2. conversation[j].calls \in 0..MaxCalls
          BY <5>1 DEF Message
        <5>. QED  BY <4>1, <5>2, MessageRanges
      <4>. QED  BY <4>2, <4>3, <4>4, MessagesTyped
    <3>4. j >= h + start
      <4>1. j < o /\ conversation[j].role = "assistant" /\ conversation[j].calls > 0
        BY <2>3, <2>4, <3>2 DEF GroupAt
      <4>. QED  BY <1>3, <2>1, <3>1, <3>3, <4>1 DEF CleanCut, n
    <3>. DEFINE q == j - start + 2
    <3>5. /\ q \in (h + 2)..m /\ q + start - 2 = j /\ q \in 1..(i - 1)
          /\ i = q + conversation[o].call
      <4>1. PICK c \in Nat : c = conversation[o].call
        BY <2>4
      <4>2. /\ j \in Nat /\ start \in Nat /\ i \in Nat /\ h \in Nat /\ n \in Nat
            /\ j >= h + start /\ j < o /\ o = j + c /\ o = i + start - 2 /\ i <= m
        BY <1>1, <1>3, <1>5, <2>1, <2>2, <2>3, <2>7, <3>2, <3>4, <4>1
      <4>3. q \in Nat /\ q + start - 2 = j /\ q >= h + 2 /\ i = q + c /\ q < i
        BY <4>2
      <4>. HIDE DEF q
      <4>4. m \in Nat
        BY <1>5
      <4>5. q \in (h + 2)..m /\ q \in 1..(i - 1)
        BY <4>2, <4>3, <4>4
      <4>. QED  BY <4>1, <4>3, <4>5
    <3>6. conversation'[q] = conversation[j]
      BY <1>2, <3>5
    <3>. HIDE DEF q
    <3>7. OwnedBy(i, q)'
      BY <2>1, <2>3, <3>5, <3>6 DEF OwnedBy, GroupAt
    <3>8. PICK r \in 1..(i - 1) : r = q
      BY <3>5
    <3>9. conversation'[r] = conversation[j] /\ i = r + conversation[o].call
      BY <3>5, <3>6, <3>8
    <3>10. OwnedBy(i, r)'
      BY <2>1, <2>3, <3>9 DEF OwnedBy, GroupAt
    <3>. QED  BY <3>10
  <2>. QED  BY <1>1, <1>5, <2>2, <2>1, <2>5, <2>6, <2>7
<1>. QED  BY <1>10, <1>11, <1>12, <1>13, <1>14

LEMMA CompressStep ==
    ASSUME CompactInv, Compact
    PROVE  CompactInv'
<1>1. PICK gist \in SUBSET (1..MaxTurns) :
        /\ previousSummary' = gist
        /\ mayCompact' = FALSE /\ UNCHANGED <<loopRun, modelTurn, snapshotOf>>
        /\ \/ conversation' = conversation
           \/ /\ conversation' \in Seq(Message)
              /\ \E start \in 1..(Len(conversation) - HeadLength + 1) :
                     Rebuilt(HeadLength, start, gist) /\ CleanCut(HeadLength, start)
  BY CompactEffect
<1>2. loopRun > 0 /\ CompactTypeOK
  BY DEF CompactInv, RunUnderWay, Compact
<1>3. CompactTypeOK'
  BY <1>1, <1>2 DEF CompactTypeOK
<1>4. CASE conversation' = conversation
  BY <1>1, <1>2, <1>3, <1>4
  DEF CompactInv, RunUnderWay, PromptFirst, TurnsTaken, TurnsInOrder, GroupsAnswered,
      ResultsOwned, OwnedBy, Places, GroupAt, Answered, CutByHead
<1>5. CASE \E start \in 1..(Len(conversation) - HeadLength + 1) :
              Rebuilt(HeadLength, start, gist) /\ CleanCut(HeadLength, start)
  <2>1. /\ RunUnderWay' /\ PromptFirst' /\ TurnsTaken' /\ TurnsInOrder'
        /\ GroupsAnswered' /\ ResultsOwned'
    BY <1>1, <1>2, <1>5, RebuiltKeeps
  <2>. QED  BY <1>3, <2>1 DEF CompactInv
<1>. QED  BY <1>1, <1>4, <1>5

LEMMA CompactStep == CompactInv /\ [CompactNext]_CompactVars => CompactInv'
<1>. SUFFICES ASSUME CompactInv, [CompactNext]_CompactVars
              PROVE  CompactInv'
  OBVIOUS
<1>1. CASE UNCHANGED CompactVars
  BY <1>1
  DEF CompactVars, CompactInv, CompactTypeOK, RunUnderWay, PromptFirst, TurnsTaken,
      TurnsInOrder, GroupsAnswered, ResultsOwned, OwnedBy, Places, GroupAt, Answered, CutByHead
<1>. QED  BY <1>1, RunStep, TurnStep, CompressStep DEF CompactNext

\* However often a conversation is compacted and wherever the tail is cut
\* (compress and phase2Boundaries of advanced-compression.ts), the prompt
\* stays first, the turns stay in order and the results of a turn stay with
\* the message that asked for them, but for the turn that the protected head
\* divides: for every length of the head, age of eviction and number of calls.
THEOREM GroupsStayWhole == CompactSpec => []GroupsWhole
BY CompactStarts, CompactStep, GroupsKept, PTL DEF CompactSpec

-----------------------------------------------------------------------------

(***************************************************************************)
(* The parts together.  A step of the sum is a step of one part, and every *)
(* other part stutters, so each invariant is kept by its own lemma.        *)
(***************************************************************************)

PartsInv ==
    /\ StallInv /\ LoopInv /\ GuardInv
    /\ DispatchInv /\ AuditInv /\ ShellInv
    /\ TickInv /\ StoreInv /\ RouterInv
    /\ CompactInv /\ CheckpointInv

LEMMA PartsStart == Init => PartsInv
<1>. SUFFICES ASSUME Init
              PROVE  PartsInv
  OBVIOUS
<1>1. StallInv /\ LoopInv /\ GuardInv /\ CompactInv
  BY StallStarts, LoopStarts, GuardStarts, CompactStarts DEF Init, StallInit
<1>2. DispatchInv /\ AuditInv /\ ShellInv /\ CheckpointInv
  BY DispatchStarts, AuditStarts, ShellStarts, CheckpointStarts DEF Init
<1>3. TickInv /\ StoreInv /\ RouterInv
  BY TickStarts, StoreStarts, RouterStarts DEF Init
<1>. QED  BY <1>1, <1>2, <1>3 DEF PartsInv

LEMMA PartsStutter ==
    ASSUME [Next]_<<part, detectorVars, toolVars, sharedVars, modelVars>>
    PROVE  /\ [StallNext]_StallVars /\ [LoopNext]_LoopVars /\ [GuardNext]_GuardVars
           /\ [DispatchNext]_DispatchVars /\ [AuditNext]_AuditVars /\ [ShellNext]_ShellVars
           /\ [TickNext]_TickVars /\ [StoreNext]_StoreVars /\ [RouterNext]_RouterVars
           /\ [CompactNext]_CompactVars /\ [CheckpointNext]_CheckpointVars
<1>. USE DEF detectorVars, toolVars, sharedVars, modelVars
<1>0. CASE UNCHANGED <<part, detectorVars, toolVars, sharedVars, modelVars>>
  BY <1>0
<1>1. CASE OnlyStall /\ StallNext
  BY <1>1 DEF OnlyStall
<1>2. CASE OnlyLoop /\ LoopNext
  BY <1>2 DEF OnlyLoop
<1>3. CASE OnlyGuard /\ GuardNext
  BY <1>3 DEF OnlyGuard
<1>4. CASE OnlyDispatch /\ DispatchNext
  BY <1>4 DEF OnlyDispatch
<1>5. CASE OnlyAudit /\ AuditNext
  BY <1>5 DEF OnlyAudit
<1>6. CASE OnlyShells /\ ShellNext
  BY <1>6 DEF OnlyShells
<1>7. CASE OnlyTick /\ TickNext
  BY <1>7 DEF OnlyTick
<1>8. CASE OnlyStore /\ StoreNext
  BY <1>8 DEF OnlyStore
<1>9. CASE OnlyRouter /\ RouterNext
  BY <1>9 DEF OnlyRouter
<1>10. CASE OnlyCompaction /\ CompactNext
  BY <1>10 DEF OnlyCompaction
<1>11. CASE OnlyCheckpoints /\ CheckpointNext
  BY <1>11 DEF OnlyCheckpoints
<1>. QED
  BY <1>0, <1>1, <1>2, <1>3, <1>4, <1>5, <1>6, <1>7, <1>8, <1>9, <1>10, <1>11 DEF Next

LEMMA PartsStep ==
    PartsInv /\ [Next]_<<part, detectorVars, toolVars, sharedVars, modelVars>> => PartsInv'
<1>. SUFFICES ASSUME PartsInv, [Next]_<<part, detectorVars, toolVars, sharedVars, modelVars>>
              PROVE  PartsInv'
  OBVIOUS
<1>1. /\ StallInv /\ LoopInv /\ GuardInv
      /\ DispatchInv /\ AuditInv /\ ShellInv
      /\ TickInv /\ StoreInv /\ RouterInv
      /\ CompactInv /\ CheckpointInv
  BY DEF PartsInv
<1>2. StallInv' /\ LoopInv' /\ GuardInv' /\ CompactInv'
  BY <1>1, PartsStutter, StallStep, LoopStep, GuardStep, CompactStep
<1>3. DispatchInv' /\ AuditInv' /\ ShellInv' /\ CheckpointInv'
  BY <1>1, PartsStutter, DispatchStep, AuditInvStep, ShellNextKeeps, CheckpointInvKept
<1>4. TickInv' /\ StoreInv' /\ RouterInv'
  BY <1>1, PartsStutter, TickNextKeeps, StoreNextKeeps, RouterStep
<1>. QED  BY <1>2, <1>3, <1>4 DEF PartsInv

LEMMA PartsInvHolds == Spec => []PartsInv
BY PartsStart, PartsStep, PTL DEF Spec

\* Every part stays within its types, whatever the number of calls, hooks,
\* processes, deployments and turns: in particular the windows of stall.ts
\* and loop-detector.ts stay bounded, the hooks of hook-engine.ts sorted and
\* the lock of the audit log and of the ticks with a process that took it.
THEOREM SafeguardsTyped == Spec => []TypeOK
<1>1. PartsInv => TypeOK
  BY DEF PartsInv, TypeOK, StallInv, LoopInv, GuardInv, DispatchInv, AuditInv, ShellInv,
         TickInv, StoreInv, RouterInv, CompactInv, CheckpointInv
<1>. QED  BY <1>1, PartsInvHolds, PTL

\* The loop detector (loop-detector.ts) reports a repetition exactly when the
\* whole history of calls has one of the kind it looks for, and the
\* guardrails (tool-guardrails.ts) block a call exactly on the failures since
\* its last success, for every number of calls, tools and thresholds.
THEOREM RepetitionIsDecided == Spec => []RepetitionDecided
<1>1. PartsInv => RepetitionDecided
  BY GuardDecides DEF PartsInv, RepetitionDecided, LoopInv
<1>. QED  BY <1>1, PartsInvHolds, PTL

=============================================================================
