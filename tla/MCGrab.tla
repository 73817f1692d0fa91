------------------------------- MODULE MCGrab -------------------------------
(* Instances of Grab.tla for TLC. *)
EXTENDS Grab

CONSTANTS v1, v2, p1, p2, s1
=============================================================================
