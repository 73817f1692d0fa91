------------------------------ MODULE MCDesktop ------------------------------
(* Instances of Desktop.tla for TLC: the windows are interchangeable.      *)
EXTENDS Desktop

Symmetry == Permutations(Views)

(* No layer surface, no locker, a keyboard at all times: the part of the   *)
(* desktop that three windows can be explored in.                          *)
WindowsSpec == Init /\ [][WindowNext \/ UserNext]_vars
=============================================================================
