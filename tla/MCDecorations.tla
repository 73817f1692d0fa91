---------------------------- MODULE MCDecorations ----------------------------
(* Instances of Decorations.tla for TLC. *)
EXTENDS Decorations

CONSTANTS v1, v2
=============================================================================
