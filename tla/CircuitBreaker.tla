--------------------------- MODULE CircuitBreaker ---------------------------
(***************************************************************************)
(* The circuit breaker of one target (TransferCore/CircuitBreaker.cpp).    *)
(* Each operation runs under the breaker's mutex and is one step; time is  *)
(* only whether resetTimeout has elapsed since lastFailure.                *)
(***************************************************************************)
EXTENDS Naturals

CONSTANT Threshold  \* failureThreshold

ASSUME ThresholdAssumption == Threshold \in Nat \ {0}

VARIABLES
  state,         \* "CLOSED", "OPEN" or "HALF_OPEN"
  failureCount,  \* saturates at Threshold: beyond it nothing tells it apart
  elapsed        \* resetTimeout has passed since lastFailure

breaker == <<state, failureCount, elapsed>>

BreakerInit == state = "CLOSED" /\ failureCount = 0 /\ elapsed = FALSE

\* Mutant of shouldAttempt: the timeout admits calls but moves nothing.
AdmitStaysOpen == UNCHANGED <<state, failureCount, elapsed>>

\* shouldAttempt, and whether it admits the call.
Admits == state # "OPEN" \/ elapsed
shouldAttempt ==
  /\ state' = IF state = "OPEN" /\ elapsed THEN "HALF_OPEN" ELSE state
  /\ UNCHANGED <<failureCount, elapsed>>

reportSuccess ==
  /\ failureCount' = 0
  /\ state' = "CLOSED"
  /\ UNCHANGED elapsed

\* A failure restarts the timeout in any state, also when the circuit is open.
reportFailure ==
  /\ failureCount' = IF failureCount < Threshold THEN failureCount + 1
                                                 ELSE failureCount
  /\ elapsed' = FALSE
  /\ state' = IF state = "HALF_OPEN" \/
                 (state = "CLOSED" /\ failureCount + 1 >= Threshold)
              THEN "OPEN" ELSE state

\* resetTimeout passes.
Elapse ==
  /\ state = "OPEN" /\ ~elapsed
  /\ elapsed' = TRUE
  /\ UNCHANGED <<state, failureCount>>

BreakerType ==
  /\ state \in {"CLOSED", "OPEN", "HALF_OPEN"}
  /\ failureCount \in 0..Threshold
  /\ elapsed \in BOOLEAN

=============================================================================
