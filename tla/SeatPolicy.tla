----------------------------- MODULE SeatPolicy -----------------------------
(***************************************************************************)
(* What the session lock of steppewm promises about the keyboard, whatever *)
(* windows, workspaces and panels do: from the moment the session is       *)
(* secured only the surfaces of a living locker own the keyboard, and that *)
(* ends only while a locker lives.  A session without one stays secured,   *)
(* with nobody at the keyboard, until another locker takes over.           *)
(* Desktop.tla implements it.                                              *)
(***************************************************************************)
CONSTANTS Regular, LockSurfaces, NoSurface

VARIABLES secured, locker, owner

vars == <<secured, locker, owner>>

Init == secured = FALSE /\ locker = FALSE /\ owner = NoSurface

Lock ==
  /\ ~locker
  /\ secured' = TRUE /\ locker' = TRUE /\ owner' = NoSurface

(* Unlocking gives the keyboard back, or leaves it where it is. *)
Unlock ==
  /\ secured /\ locker
  /\ secured' = FALSE /\ locker' = FALSE
  /\ owner' \in Regular \cup {NoSurface, owner}

Crash ==
  /\ secured /\ locker
  /\ locker' = FALSE /\ owner' = NoSurface
  /\ UNCHANGED secured

Give ==
  /\ \/ ~secured /\ owner' \in Regular
     \/ secured /\ locker /\ owner' \in LockSurfaces
     \/ owner' = NoSurface
  /\ UNCHANGED <<secured, locker>>

Next == Lock \/ Unlock \/ Crash \/ Give

Spec == Init /\ [][Next]_vars
=============================================================================
