--------------------------- MODULE CircuitBreaker ---------------------------
(* One circuit breaker of the scraper engine: workers/circuit_breaker.py.    *)
(* Calls under way at once share it; its recovery time has passed or not.    *)
EXTENDS Naturals

CONSTANTS
    Call,               \* the calls that can be under way at once
    FailureThreshold, SuccessThreshold, HalfOpenMaxProbes,
    MaxCuts             \* calls cancelled before they report

ASSUME BreakerAssumption ==
    /\ FailureThreshold \in Nat \ {0} /\ SuccessThreshold \in Nat \ {0}
    /\ HalfOpenMaxProbes \in Nat \ {0} /\ MaxCuts \in Nat

VARIABLES
    rawState,       \* _state, the stored one
    recovered,      \* recovery_timeout has passed since _opened_at
    failureCount, successCount, probeInFlight,
    underWay,       \* the calls inside `async with`
    cuts,           \* calls cancelled so far
    probesAdmitted  \* calls let through since the circuit last opened

breakerVars == <<rawState, recovered, failureCount, successCount, probeInFlight,
                 underWay, cuts, probesAdmitted>>

BreakerTypeOK ==
    /\ rawState \in {"closed", "open", "half_open"} /\ recovered \in BOOLEAN
    /\ failureCount \in 0..FailureThreshold /\ successCount \in 0..SuccessThreshold
    /\ probeInFlight \in 0..HalfOpenMaxProbes
    /\ underWay \subseteq Call /\ cuts \in 0..MaxCuts
    /\ probesAdmitted \in Nat

BreakerInit ==
    /\ rawState = "closed" /\ recovered = FALSE
    /\ failureCount = 0 /\ successCount = 0 /\ probeInFlight = 0
    /\ underWay = {} /\ cuts = 0 /\ probesAdmitted = 0

-----------------------------------------------------------------------------
(* The `state` property: half open is only ever computed, never stored. *)
BreakerState == IF rawState = "open" /\ recovered THEN "half_open" ELSE rawState

ProbeCounted(n) == n + 1

(* Whether another probe fits; before it, the form that is off by one. *)
MayProbeOneMore == BreakerState = "half_open" /\ probeInFlight <= HalfOpenMaxProbes
MayProbe == BreakerState = "half_open" /\ probeInFlight < HalfOpenMaxProbes

(* __call__ lets a call through, or raises CircuitOpenError: no step.        *)
Admit(c) ==
    /\ c \notin underWay /\ underWay' = underWay \cup {c}
    /\ \/ BreakerState = "closed" /\ UNCHANGED <<probeInFlight, probesAdmitted>>
       \/ /\ MayProbe
          /\ probeInFlight' = ProbeCounted(probeInFlight)
          /\ probesAdmitted' = probesAdmitted + 1
    /\ UNCHANGED <<rawState, recovered, failureCount, successCount, cuts>>

OpenCircuit ==
    /\ rawState' = "open" /\ recovered' = FALSE
    /\ failureCount' = 0 /\ successCount' = 0 /\ probeInFlight' = 0 /\ probesAdmitted' = 0

CloseCircuit ==
    /\ rawState' = "closed"
    /\ failureCount' = 0 /\ successCount' = 0 /\ probeInFlight' = 0
    /\ UNCHANGED <<recovered, probesAdmitted>>

ProbeEnds == IF probeInFlight > 0 THEN probeInFlight - 1 ELSE 0

(* _record_success and _record_failure look at the stored state. *)
Succeed(c) ==
    /\ c \in underWay /\ underWay' = underWay \ {c}
    /\ CASE rawState = "half_open" /\ successCount + 1 >= SuccessThreshold -> CloseCircuit
         [] rawState = "half_open" /\ successCount + 1 < SuccessThreshold ->
               /\ successCount' = successCount + 1 /\ probeInFlight' = ProbeEnds
               /\ UNCHANGED <<rawState, recovered, failureCount, probesAdmitted>>
         [] rawState = "closed" /\ failureCount > 0 ->
               /\ failureCount' = failureCount - 1
               /\ UNCHANGED <<rawState, recovered, successCount, probeInFlight, probesAdmitted>>
         [] OTHER -> UNCHANGED <<rawState, recovered, failureCount, successCount,
                                 probeInFlight, probesAdmitted>>
    /\ UNCHANGED cuts

Fail(c) ==
    /\ c \in underWay /\ underWay' = underWay \ {c}
    /\ CASE rawState = "half_open" -> OpenCircuit
         [] rawState = "closed" /\ failureCount + 1 >= FailureThreshold -> OpenCircuit
         [] rawState = "closed" /\ failureCount + 1 < FailureThreshold ->
               /\ failureCount' = failureCount + 1
               /\ UNCHANGED <<rawState, recovered, successCount, probeInFlight, probesAdmitted>>
         [] OTHER -> UNCHANGED <<rawState, recovered, failureCount, successCount,
                                 probeInFlight, probesAdmitted>>
    /\ UNCHANGED cuts

(* CancelledError is no Exception: a cancelled call reports nothing. *)
Cut(c) ==
    /\ c \in underWay /\ cuts < MaxCuts
    /\ underWay' = underWay \ {c} /\ cuts' = cuts + 1
    /\ UNCHANGED <<rawState, recovered, failureCount, successCount, probeInFlight, probesAdmitted>>

Recover ==
    /\ rawState = "open" /\ ~recovered /\ recovered' = TRUE
    /\ UNCHANGED <<rawState, failureCount, successCount, probeInFlight, underWay, cuts, probesAdmitted>>

(* POST /circuit-breakers/{service}/reset *)
ResetBreaker == CloseCircuit /\ UNCHANGED <<underWay, cuts>>

BreakerNext ==
    \/ Recover \/ ResetBreaker
    \/ \E c \in Call : Admit(c) \/ Succeed(c) \/ Fail(c) \/ Cut(c)

BreakerSpec == BreakerInit /\ [][BreakerNext]_breakerVars

-----------------------------------------------------------------------------
(* A service that is down gets no more calls per opening than the probes     *)
(* allowed, whatever calls from before the opening answer meanwhile.         *)
ProbesBounded == rawState = "open" => probesAdmitted <= HalfOpenMaxProbes

(* "HALF_OPEN One probe call allowed - success closes circuit, failure       *)
(* re-opens" (circuit_breaker.py:10): once the recovery time has passed and  *)
(* every call has reported, the next call is let through as a probe. The     *)
(* code counts the first probe as in flight for ever.                        *)
ProbesAgain == rawState = "open" /\ recovered /\ underWay = {} => MayProbe
=============================================================================
