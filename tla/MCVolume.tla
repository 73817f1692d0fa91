------------------------------ MODULE MCVolume ------------------------------
(* An instance of Volume.tla for TLC. *)
EXTENDS Volume

CONSTANTS s1, s2
=============================================================================
