---------------------------- MODULE MCCircuitBreaker ---------------------------
(* Three callers, two failures to open, two trial successes to close: late      *)
(* outcomes of calls admitted before the circuit opened meet every later state. *)
EXTENDS CircuitBreaker
===============================================================================
