-------------------------- MODULE MCCircuitBreaker --------------------------
(* CircuitBreaker for TLC: the senders are model values of the .cfg. *)
EXTENDS CircuitBreaker
=============================================================================
