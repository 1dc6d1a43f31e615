---------------------------- MODULE MCGoBreaker ----------------------------
(***************************************************************************)
(* TLC instance of GoBreaker, with liveness and so without symmetry.       *)
(***************************************************************************)
EXTENDS GoBreaker
=============================================================================
