------------------------------ MODULE Switcher ------------------------------
(***************************************************************************)
(* The Alt+Tab overlay of steppewm (src/src/switcher.cc): a snapshot of    *)
(* the windows of the current workspace, taken at the first press, and the *)
(* highlighted position in it.  Windows may go while the overlay is up.    *)
(* The drawing of the panel is left out.                                   *)
(***************************************************************************)
EXTENDS Windows, Lists

(* server::sw; open is "sw is not null".  The vector's first index is 0.   *)
Overlay == [open: BOOLEAN, views: Seq(Views), selected: Nat]

Closed == [open |-> FALSE, views |-> <<>>, selected |-> 0]

(* The windows the first press collects, in list order.  Minimized windows *)
(* are in; a pinned window that belongs to another workspace is not.       *)
Snapshot(s) ==
  Kept(s.views, { i \in DOMAIN s.views :
                    /\ s.views[i] \in s.mapped
                    /\ s.workspace[s.views[i]] = s.current_workspace })

(* Fault: a step backwards from the first window does not wrap around. *)
CycleWithoutWrap(s, sw, step) ==
  LET up == IF sw.open THEN sw
            ELSE [open |-> TRUE, views |-> Snapshot(s), selected |-> 0]
  IN  IF up.views = <<>> THEN sw
      ELSE [up EXCEPT !.selected = IF step = 1 THEN (@ + 1) % Len(up.views)
                                               ELSE @ - 1]

(* switcher::cycle and switcher::advance; step is 1, or -1 backwards. *)
Cycle(s, sw, step) ==
  LET up == IF sw.open THEN sw
            ELSE [open |-> TRUE, views |-> Snapshot(s), selected |-> 0]
  IN  IF up.views = <<>> THEN sw
      ELSE [up EXCEPT !.selected = (@ + step) % Len(up.views)]

(* The window a commit focuses. *)
Highlighted(sw) == sw.views[sw.selected + 1]

(* Fault: the highlight does not follow its window to the left. *)
ViewRemovedInPlace(sw, v) ==
  LET rest == RemoveFirst(sw.views, v)
  IN  IF v \notin ToSet(sw.views) THEN sw
      ELSE IF rest = <<>>         THEN Closed
      ELSE [sw EXCEPT !.views = rest,
                      !.selected = IF @ >= Len(rest) THEN Len(rest) - 1 ELSE @]

(* switcher::view_removed *)
ViewRemoved(sw, v) ==
  LET rest == RemoveFirst(sw.views, v)
      hole == Min({ i \in DOMAIN sw.views : sw.views[i] = v }) - 1
  IN  IF v \notin ToSet(sw.views) THEN sw
      ELSE IF rest = <<>>         THEN Closed
      ELSE [sw EXCEPT !.views = rest,
                      !.selected = IF @ > hole THEN @ - 1
                                   ELSE IF @ >= Len(rest) THEN Len(rest) - 1
                                   ELSE @]
=============================================================================
