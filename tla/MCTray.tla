------------------------------- MODULE MCTray -------------------------------
(* Instance of Tray.tla for TLC: two applications with an item each. *)
EXTENDS Tray, TLC

CONSTANTS a1, a2, s1, s2, m1, m2, p1, p2, b1

MCOwner == [s \in Services |-> IF s = s1 THEN a1 ELSE a2]

Pixmap(icon) == [pixmap |-> icon, name |-> NoImage]
Named(icon)  == [pixmap |-> NoImage, name |-> icon]
Both(icon, other) == [pixmap |-> icon, name |-> other]

(* The icon of the first has a pixmap beside another name, a name, or      *)
(* nothing to be drawn.                                                    *)
MCLooks == [s \in Services |-> IF s = s1 THEN {Both(m1, m2), Named(m2), Named(NoImage)}
                               ELSE {Pixmap(m1)}]
MCChanges == [s \in Services |-> IF s = s1 THEN 1 ELSE 0]

Symmetry == Permutations(Addrs)
=============================================================================
