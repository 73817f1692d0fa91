------------------------------- MODULE MCIdle -------------------------------
(* Instances of Idle.tla for TLC: the windows are interchangeable. *)
EXTENDS Idle

CONSTANTS v1, v2, l1

Symmetry == Permutations(Views)
=============================================================================
