------------------------ MODULE MCResilientSelector ------------------------
(***************************************************************************)
(* TLC instance of ResilientSelector.  Clients are interchangeable and the *)
(* run checks invariants only, so symmetry is sound.                       *)
(***************************************************************************)
EXTENDS ResilientSelector, TLC

Symmetry == Permutations(Clients)
=============================================================================
