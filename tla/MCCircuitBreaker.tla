-------------------------- MODULE MCCircuitBreaker --------------------------
(***************************************************************************)
(* TLC instance of CircuitBreaker.  The calls are not symmetric for TLC,   *)
(* which also checks liveness here.                                        *)
(***************************************************************************)
EXTENDS CircuitBreaker
=============================================================================
