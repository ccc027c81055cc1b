-------------------------- MODULE MCCircuitBreaker --------------------------
(* Constants for model checking the circuit breaker. *)
EXTENDS CircuitBreaker, TLC

(* Recorders are interchangeable. *)
RecorderSymmetry == Permutations(Recorders)
=============================================================================
