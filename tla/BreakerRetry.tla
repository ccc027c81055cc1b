---------------------------- MODULE BreakerRetry ----------------------------
(***************************************************************************)
(* The circuit breaker with an observer that notes when the proxy was last *)
(* found to deserve death, also when it was dead already.                  *)
(***************************************************************************)
EXTENDS CircuitBreaker

VARIABLES
  tripped,    \* history: the time at which a recorder last made the breaker dead,
              \* whatever it had been
  seenTrip    \* history: tripped, as it was when checker t found the breaker dead,
              \* 0 if a change was being written down

retryVars == <<vars, tripped, seenTrip>>

RetryInit == Init /\ tripped = 0 /\ seenTrip = [t \in Checkers |-> 0]

(* A step of shouldTrip's caller through transitionTo(StateDead). *)
Trips(t)    == pc[t] = "swap" /\ target[t] = "dead" /\ pc'[t] # "swap"
FindsDead(t) == pc[t] = "idle" /\ pc'[t] = "load"

RetryNext ==
  /\ Next
  /\ tripped' = IF \E t \in Recorders : Trips(t) THEN clock ELSE tripped
  /\ seenTrip' = [t \in Checkers |->
                   IF ~ FindsDead(t) THEN seenTrip[t]
                   ELSE IF Stamping THEN 0 ELSE tripped]

RetrySpec == RetryInit /\ [][RetryNext]_retryVars

(* What the documentation says: if the error rate reaches FailureThreshold *)
(* the proxy is marked as dead and not used, again for RecoveryTimeout:    *)
(* also when it is the retry of a dead proxy that fails, before a checker  *)
(* asks.                                                                   *)
FailedRetryWaits ==
  [][ \A t \in Checkers : Retries(t) => clock - seenTrip[t] > RecoveryTimeout
    ]_retryVars
============================================================================
