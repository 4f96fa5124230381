----------------------------- MODULE LlmRouter -----------------------------
(***************************************************************************)
(* The router of packages/agent-core/src/local-llms-router.ts: the         *)
(* sensitivity gate, the choice of a deployment and its fallback chain,    *)
(* the circuit breaker of every deployment, and the cascade of a call      *)
(* along the deployments that were available when it was routed.  What a   *)
(* prompt is worth to the scorer is its profile: the primary it leads to,  *)
(* whether it is sensitive, and the deployments whose window it fits.      *)
(* Time is counted in ticks; Window and Cooldown are numbers of them.      *)
(***************************************************************************)
EXTENDS Naturals, FiniteSets, Sequences

CONSTANTS
    Caller,               \* calls that may be under way at the same time
    Deployment,           \* "cloud" and the local models
    Rank,                 \* their order in the cascade
    Local,                \* those in the chain of a sensitive prompt
    Profiles,             \* the prompts: [primary, sensitive, fits]
    GatingOff,            \* piiGatingMode = 'off'
    FailThreshold,        \* circuitBreakerFailThreshold
    Window,               \* circuitBreakerWindowMs
    Cooldown,             \* circuitBreakerCooldownMs
    MaxTime               \* bound of the model: ticks of the clock

ASSUME RouterAssumption ==
    /\ Rank \in [Deployment -> Nat]
    /\ Local \subseteq Deployment
    /\ "orchestrator" \in Deployment
    /\ Profiles \subseteq [primary : Deployment, sensitive : BOOLEAN, fits : SUBSET Deployment]
    /\ GatingOff \in BOOLEAN
    /\ FailThreshold \in Nat \ {0} /\ Window \in Nat \ {0}
    /\ Cooldown \in Nat /\ MaxTime \in Nat

VARIABLES
    now,
    circuit,     \* CLOSED, OPEN or HALF_OPEN
    failedAt,    \* the times of recent failures
    openedAt,    \* 0 when undefined
    probing,     \* probeInFlight
    tries,       \* what is left of the try order of a call
    first,       \* its primary, while that and others are left
    routedAt,    \* when a call under way was routed
    cancelled    \* calls whose signal is aborted

breakerVars == <<circuit, failedAt, openedAt, probing>>
callVars == <<tries, first, routedAt, cancelled>>
RouterVars == <<now, breakerVars, callVars>>

RouterInit ==
    /\ now = 0
    /\ circuit = [d \in Deployment |-> "CLOSED"]
    /\ failedAt = [d \in Deployment |-> <<>>]
    /\ openedAt = [d \in Deployment |-> 0]
    /\ probing = [d \in Deployment |-> FALSE]
    /\ tries = [c \in Caller |-> {}]
    /\ first = [c \in Caller |-> {}]
    /\ routedAt = [c \in Caller |-> 0]
    /\ cancelled = {}

-----------------------------------------------------------------------------

\* isDeploymentAvailable: a closed breaker, or one that lets a probe through.
Cooled(d) == circuit[d] = "OPEN" /\ now - openedAt[d] >= Cooldown
Probed(d) == ~probing[d] /\ (Cooled(d) \/ circuit[d] = "HALF_OPEN")
Available(d) == circuit[d] = "CLOSED" \/ Probed(d)

CloudAllowed(k) == GatingOff \/ ~k.sensitive

\* pickPrimary, and its downgrade by the gate.
Primary(k) == IF k.primary = "cloud" /\ ~CloudAllowed(k) THEN "orchestrator" ELSE k.primary

\* buildFallbackChain.
Chain(k) == (IF CloudAllowed(k) THEN Deployment ELSE Local) \ {Primary(k)}

\* The deployments that the cascade tries: those available when the call is
\* routed, without the ones that the loop skips.
TryOrder(k) ==
    {d \in {Primary(k)} \cup Chain(k) :
        Available(d) /\ d \in k.fits /\ (d = "cloud" => CloudAllowed(k))}

\* The one that is tried now: the primary first, then in cascade order.
Target(c, d) ==
    /\ d \in tries[c]
    /\ \A e \in tries[c] : d = e \/ d \in first[c] \/ (e \notin first[c] /\ Rank[d] < Rank[e])

\* Mutated form of Claim: a cooled breaker lets the call through as it is.
ClaimNothing(asked) == UNCHANGED <<circuit, probing>>

\* The side effect of asking: a breaker that lets a probe through is
\* HALF_OPEN, and its probe is in flight, whether it will be tried or not.
Claim(asked) ==
    /\ circuit' = [d \in Deployment |->
           IF d \in asked /\ Probed(d) THEN "HALF_OPEN" ELSE circuit[d]]
    /\ probing' = [d \in Deployment |-> probing[d] \/ (d \in asked /\ Probed(d))]

\* A call goes on with the deployments in left, or is over.
Continues(c, prim, left, at) ==
    /\ tries' = [tries EXCEPT ![c] = left]
    /\ first' = [first EXCEPT ![c] = IF left = prim THEN {} ELSE prim \cap left]
    /\ routedAt' = [routedAt EXCEPT ![c] = IF left = {} THEN 0 ELSE at]

\* call, up to its first await; a call with nothing to try throws.
RouteCall(c, k) ==
    /\ tries[c] = {}
    /\ Claim({Primary(k)} \cup Chain(k))
    /\ Continues(c, {Primary(k)}, TryOrder(k), now)
    /\ UNCHANGED <<now, failedAt, openedAt, cancelled>>

\* Mutated form of Close: the failures that opened the breaker are kept.
CloseOnly(d) ==
    /\ circuit' = [circuit EXCEPT ![d] = "CLOSED"]
    /\ openedAt' = [openedAt EXCEPT ![d] = 0]
    /\ probing' = [probing EXCEPT ![d] = FALSE]
    /\ UNCHANGED failedAt

\* recordSuccess, by a probe and by any other call.
Close(d) ==
    /\ circuit' = [circuit EXCEPT ![d] = "CLOSED"]
    /\ failedAt' = [failedAt EXCEPT ![d] = <<>>]
    /\ openedAt' = [openedAt EXCEPT ![d] = 0]
    /\ probing' = [probing EXCEPT ![d] = FALSE]

\* A deployment answers; a call that was aborted gets no answer.
CallAnswered(c, d) ==
    /\ Target(c, d) /\ c \notin cancelled
    /\ Close(d)
    /\ Continues(c, first[c], {}, routedAt[c])
    /\ UNCHANGED <<now, cancelled>>

\* The failures inside the rolling window, and this one; the older ones come
\* first.
Recent(d) ==
    LET stale == Cardinality({i \in DOMAIN failedAt[d] : now - failedAt[d][i] >= Window})
    IN  Append(SubSeq(failedAt[d], stale + 1, Len(failedAt[d])), now)

\* recordFailure: any failure while HALF_OPEN counts as the probe's.
RecordFailure(d) ==
    LET opens == circuit[d] = "HALF_OPEN" \/ Len(Recent(d)) >= FailThreshold
    IN  /\ failedAt' = [failedAt EXCEPT ![d] = Recent(d)]
        /\ circuit' = [circuit EXCEPT ![d] = IF opens THEN "OPEN" ELSE @]
        /\ openedAt' = [openedAt EXCEPT ![d] = IF opens THEN now ELSE @]
        /\ probing' = [probing EXCEPT ![d] = @ /\ circuit[d] # "HALF_OPEN"]

\* A deployment fails and the call cascades to the next one; an abort fails
\* every one that is left.
DeploymentFails(c, d) ==
    /\ Target(c, d)
    /\ RecordFailure(d)
    /\ Continues(c, first[c], tries[c] \ {d}, routedAt[c])
    /\ cancelled' = IF tries[c] = {d} THEN cancelled \ {c} ELSE cancelled
    /\ UNCHANGED now

AbortCall(c) ==
    /\ tries[c] # {} /\ c \notin cancelled
    /\ cancelled' = cancelled \cup {c}
    /\ UNCHANGED <<now, breakerVars, tries, first, routedAt>>

ClockTicks ==
    /\ now < MaxTime
    /\ now' = now + 1
    /\ UNCHANGED <<breakerVars, callVars>>

RouterNext ==
    \/ \E c \in Caller :
           \/ \E k \in Profiles : RouteCall(c, k)
           \/ \E d \in Deployment : CallAnswered(c, d) \/ DeploymentFails(c, d)
           \/ AbortCall(c)
    \/ ClockTicks

RouterSpec == RouterInit /\ [][RouterNext]_RouterVars

-----------------------------------------------------------------------------

\* Ranges; no time lies in the future.
RouterTypeOK ==
    /\ now \in 0..MaxTime
    /\ circuit \in [Deployment -> {"CLOSED", "OPEN", "HALF_OPEN"}]
    /\ failedAt \in [Deployment -> Seq(0..now)]
    /\ openedAt \in [Deployment -> 0..now]
    /\ probing \in [Deployment -> BOOLEAN]
    /\ tries \in [Caller -> SUBSET Deployment]
    /\ first \in [Caller -> SUBSET Deployment]
    /\ routedAt \in [Caller -> 0..now]
    /\ cancelled \subseteq Caller

\* The probe flag is up exactly in HALF_OPEN, so that none survives a breaker
\* that closed or opened again; and a CLOSED breaker has fewer failures on
\* record than would have opened it.
BreakerSound ==
    \A d \in Deployment :
        /\ probing[d] <=> circuit[d] = "HALF_OPEN"
        /\ circuit[d] = "CLOSED" => Len(failedAt[d]) < FailThreshold

\* The calls that may still try an OPEN deployment were all routed before it
\* opened.
CooldownKept ==
    \A c \in Caller, d \in Deployment :
        circuit[d] = "OPEN" /\ d \in tries[c] => routedAt[c] <= openedAt[d]

\* What calls that overlap, fail late or are aborted never break: state, probe
\* flag and failure record of a breaker fit together, and a deployment in its
\* cooldown is left alone.
BreakersHold == BreakerSound /\ CooldownKept

\* What recordSuccess says of its predecessor, "leaving a dangling flag that
\* would block all future probes", is over: a probe in flight belongs to a
\* call that will try the deployment.
ProbeOwned ==
    \A d \in Deployment : probing[d] => \E c \in Caller : d \in tries[c]
=============================================================================
