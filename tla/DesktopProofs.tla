---------------------------- MODULE DesktopProofs ----------------------------
(***************************************************************************)
(* Theorems about the desktop, for any windows, layer surfaces, lockers    *)
(* and number of workspaces: what every function of Windows.tla and        *)
(* Switcher.tla keeps, every handler of Desktop.tla keeps.                 *)
(*                                                                         *)
(* First the overlay, then the session: types and the lock, which          *)
(* implements SeatPolicy; the window list, the focused window, the overlay *)
(* and the focused layer surface; and that no handler takes the keyboard   *)
(* from a window without need or to nobody.                                *)
(***************************************************************************)
EXTENDS Desktop, WindowsProofs

-----------------------------------------------------------------------------
(* The Alt+Tab overlay stays well formed: its snapshot is a sequence of    *)
(* windows and its highlight is a position in it.                          *)

(* The windows the first Alt+Tab collects form a sequence of windows.      *)
LEMMA SnapshotType ==
  ASSUME NEW s \in Server
  PROVE  Snapshot(s) \in Seq(Views)
<1> DEFINE I == { i \in DOMAIN s.views :
                    /\ s.views[i] \in s.mapped
                    /\ s.workspace[s.views[i]] = s.current_workspace }
<1>1. s.views \in Seq(Views) /\ I \in SUBSET (DOMAIN s.views)
  BY DEF Server
<1>2. Snapshot(s) = Kept(s.views, I)
  BY DEF Snapshot
<1> HIDE DEF I
<1>3. QED BY <1>1, <1>2, KeptProperties

(* The highlight of an open overlay is a position of its snapshot.         *)
HighlightInRange(o) == o.open => o.selected < Len(o.views)

(* switcher::cycle keeps the overlay well formed: the step wraps around at *)
(* both ends.                                                              *)
LEMMA CycleType ==
  ASSUME NEW s \in Server, NEW o \in Overlay, NEW step \in {1, -1},
         HighlightInRange(o)
  PROVE  Cycle(s, o, step) \in Overlay /\ HighlightInRange(Cycle(s, o, step))
<1> DEFINE up == IF o.open THEN o
                 ELSE [open |-> TRUE, views |-> Snapshot(s), selected |-> 0]
           next == (up.selected + step) % Len(up.views)
<1>1. up \in Overlay
  BY SnapshotType DEF Overlay
<1>2. Cycle(s, o, step) = IF up.views = <<>> THEN o
                          ELSE [up EXCEPT !.selected = next]
  BY DEF Cycle
<1> HIDE DEF up
<1>3. ASSUME up.views # <<>>
      PROVE  next \in Nat /\ next < Len(up.views)
  <2>1. up.views \in Seq(Views) /\ up.selected \in Nat
    BY <1>1 DEF Overlay
  <2>2. Len(up.views) \in Nat /\ Len(up.views) # 0
    BY <1>3, <2>1, LenProperties, EmptySeq
  <2>3. QED BY <2>1, <2>2
<1> HIDE DEF next
<1>4. QED BY <1>1, <1>2, <1>3 DEF Overlay, HighlightInRange

(* switcher::view_removed keeps the overlay well formed: when the last     *)
(* position goes, the highlight moves into range.                          *)
LEMMA ViewRemovedType ==
  ASSUME NEW o \in Overlay, NEW v \in Views, HighlightInRange(o)
  PROVE  ViewRemoved(o, v) \in Overlay /\ HighlightInRange(ViewRemoved(o, v))
<1> DEFINE rest == RemoveFirst(o.views, v)
           here == { i \in DOMAIN o.views : o.views[i] = v }
           hole == Min(here) - 1
           next == IF o.selected > hole THEN o.selected - 1
                   ELSE IF o.selected >= Len(rest) THEN Len(rest) - 1
                   ELSE o.selected
<1>1. o.views \in Seq(Views) /\ o.selected \in Nat
  BY DEF Overlay
<1>2. rest \in Seq(Views)
  BY <1>1, RemoveFirstProperties
<1>3. CASE v \notin ToSet(o.views)
  BY <1>3 DEF ViewRemoved
<1>4. CASE v \in ToSet(o.views) /\ rest = <<>>
  <2>1. ViewRemoved(o, v) = Closed
    BY <1>4 DEF ViewRemoved
  <2>2. QED BY <2>1, EmptySeq DEF Closed, Overlay, HighlightInRange
<1>5. CASE v \in ToSet(o.views) /\ rest # <<>>
  <2>1. here \in SUBSET Nat /\ here # {} /\ 0 \notin here
    BY <1>1, <1>5, LenProperties DEF ToSet
  <2>2. Min(here) \in Nat \ {0}
    BY <2>1, MinExists
  <2>3. Len(rest) \in Nat \ {0}
    BY <1>2, <1>5, LenProperties, EmptySeq
  <2>4. Len(rest) = Len(o.views) - 1 /\ Len(o.views) \in Nat
    <3>1. \E i \in 1 .. Len(o.views) : o.views[i] = v
      BY <1>1, <1>5, LenProperties DEF ToSet
    <3>2. QED BY <1>1, <3>1, RemoveFirstProperties, LenProperties
  <2>5. ViewRemoved(o, v) = [o EXCEPT !.views = rest, !.selected = next]
    BY <1>5 DEF ViewRemoved
  <2>6. next \in Nat /\ (o.open => next < Len(rest))
    <3> HIDE DEF here, rest
    <3>1. hole \in Nat
      BY <2>2
    <3> HIDE DEF hole
    <3>2. next \in Nat
      BY <1>1, <2>3, <3>1
    <3>3. ASSUME o.open
          PROVE  next < Len(rest)
      <4>1. o.selected < Len(o.views)
        BY <3>3 DEF HighlightInRange
      <4>2. QED BY <1>1, <2>3, <2>4, <3>1, <4>1
    <3>4. QED BY <3>2, <3>3
  <2> HIDE DEF next, rest
  <2>7. QED BY <1>2, <2>5, <2>6 DEF Overlay, HighlightInRange
<1>6. QED BY <1>3, <1>4, <1>5

(* The commit of a well-formed overlay focuses a window.                   *)
LEMMA HighlightedType ==
  ASSUME NEW o \in Overlay, o.open, HighlightInRange(o)
  PROVE  Highlighted(o) \in Views
<1>1. o.views \in Seq(Views) /\ o.selected \in Nat
  BY DEF Overlay
<1>2. o.selected + 1 \in 1 .. Len(o.views)
  BY <1>1, LenProperties DEF HighlightInRange
<1>3. QED BY <1>1, <1>2, ElementOfSeq DEF Highlighted

(* The closed overlay is well formed.                                      *)
LEMMA ClosedType == Closed \in Overlay /\ HighlightInRange(Closed)
  BY EmptySeq DEF Closed, Overlay, HighlightInRange

-----------------------------------------------------------------------------

(* An open overlay has no window twice, and each of them is mapped and on  *)
(* the current workspace still.                                            *)
OverlayLive(s, o) ==
  o.open =>
    /\ LinkedOnce(o.views, ToSet(o.views))
    /\ \A u \in ToSet(o.views) :
         u \in s.mapped /\ s.workspace[u] = s.current_workspace

(* A closed overlay names nobody.                                          *)
LEMMA ClosedLive == \A s : OverlayLive(s, Closed)
  BY DEF OverlayLive, Closed

(* The first press collects each window of the current workspace once.     *)
LEMMA SnapshotLive ==
  ASSUME NEW s \in Server, Listed(s)
  PROVE  /\ LinkedOnce(Snapshot(s), ToSet(Snapshot(s)))
         /\ \A u \in ToSet(Snapshot(s)) :
              u \in s.mapped /\ s.workspace[u] = s.current_workspace
<1> DEFINE I == { i \in DOMAIN s.views :
                    /\ s.views[i] \in s.mapped
                    /\ s.workspace[s.views[i]] = s.current_workspace }
           w == Kept(s.views, I)
<1>1. s.views \in Seq(Views) /\ DOMAIN s.views = 1 .. Len(s.views)
  BY LenProperties DEF Server
<1>2. Snapshot(s) = w
  BY DEF Snapshot
<1>3. \A i \in I : /\ i \in DOMAIN s.views
                   /\ s.views[i] \in s.mapped
                   /\ s.workspace[s.views[i]] = s.current_workspace
  OBVIOUS
<1>4. \A i, j \in DOMAIN s.views : s.views[i] = s.views[j] => i = j
  BY DEF Listed, LinkedOnce
<1>5. I \in SUBSET (DOMAIN s.views)
  OBVIOUS
<1> HIDE DEF I
<1>6. /\ w \in Seq(Views)
      /\ \A k \in DOMAIN w : Nth(I, k) \in I /\ w[k] = s.views[Nth(I, k)]
      /\ \A a, b \in DOMAIN w : a < b => Nth(I, a) < Nth(I, b)
  BY <1>1, <1>5, KeptProperties
<1> HIDE DEF w
<1>7. Len(w) \in Nat /\ DOMAIN w = 1 .. Len(w)
  BY <1>6, LenProperties
<1>8. ASSUME NEW a \in DOMAIN w, NEW b \in DOMAIN w, w[a] = w[b]
      PROVE  a = b
  <2>1. /\ Nth(I, a) \in I /\ Nth(I, b) \in I
        /\ Nth(I, a) \in Int /\ Nth(I, b) \in Int
    BY <1>1, <1>5, <1>6
  <2>2. Nth(I, a) = Nth(I, b)
    BY <1>3, <1>4, <1>6, <1>8, <2>1
  <2>3. ~ (a < b) /\ ~ (b < a)
    BY <1>6, <2>1, <2>2
  <2>4. QED BY <1>7, <2>3
<1>9. \A k \in DOMAIN w : /\ w[k] \in s.mapped
                         /\ s.workspace[w[k]] = s.current_workspace
  BY <1>3, <1>6
<1>10. LinkedOnce(w, ToSet(w))
  BY <1>7, <1>8 DEF LinkedOnce, ToSet
<1>11. QED BY <1>2, <1>7, <1>9, <1>10 DEF ToSet

(* switcher::cycle changes the list only when it collects it.              *)
LEMMA CycleLive ==
  ASSUME NEW s \in Server, NEW o \in Overlay, NEW step, Listed(s), OverlayLive(s, o)
  PROVE  OverlayLive(s, Cycle(s, o, step))
<1> DEFINE up == IF o.open THEN o
                 ELSE [open |-> TRUE, views |-> Snapshot(s), selected |-> 0]
           next == (up.selected + step) % Len(up.views)
<1>1. up \in Overlay
  BY SnapshotType DEF Overlay
<1>2. Cycle(s, o, step) = IF up.views = <<>> THEN o
                          ELSE [up EXCEPT !.selected = next]
  BY DEF Cycle
<1>3. OverlayLive(s, up)
  BY SnapshotLive DEF OverlayLive
<1> HIDE DEF up, next
<1>4. OverlayLive(s, [up EXCEPT !.selected = next])
  BY <1>1, <1>3 DEF Overlay, OverlayLive
<1>5. QED BY <1>2, <1>4

(* A step that leaves the windows of the current workspace there.          *)
LEMMA StaysLive ==
  ASSUME NEW s, NEW t, NEW o, OverlayLive(s, o), StaysHere(s, t, {})
  PROVE  OverlayLive(t, o)
  BY DEF OverlayLive, StaysHere

(* A step that takes one window away, which switcher::view_removed takes   *)
(* out of the overlay.                                                     *)
LEMMA ViewRemovedLive ==
  ASSUME NEW s, NEW t, NEW v \in Views, NEW o \in Overlay,
         OverlayLive(s, o), StaysHere(s, t, {v})
  PROVE  OverlayLive(t, ViewRemoved(o, v))
<1> DEFINE rest == RemoveFirst(o.views, v)
           hole == Min({ i \in DOMAIN o.views : o.views[i] = v }) - 1
           next == IF o.selected > hole THEN o.selected - 1
                   ELSE IF o.selected >= Len(rest) THEN Len(rest) - 1
                   ELSE o.selected
<1>1. o.views \in Seq(Views)
  BY DEF Overlay
<1>2. ViewRemoved(o, v) =
        IF v \notin ToSet(o.views) THEN o
        ELSE IF rest = <<>> THEN Closed
        ELSE [o EXCEPT !.views = rest, !.selected = next]
  BY DEF ViewRemoved
<1>3. rest \in Seq(Views)
  BY <1>1, RemoveFirstProperties
<1>4. o.open => LinkedOnce(rest, ToSet(o.views) \ {v})
  BY <1>1, RemoveUnlinks DEF OverlayLive
<1> HIDE DEF rest, next
<1>5. \A i \in DOMAIN rest : rest[i] \in Views
  BY <1>3, ElementOfSeq, LenProperties
<1>6. o.open => ToSet(rest) \subseteq ToSet(o.views) \ {v} /\ LinkedOnce(rest, ToSet(rest))
  BY <1>4, <1>5 DEF LinkedOnce, ToSet
<1>7. v \notin ToSet(o.views) => OverlayLive(t, o)
  BY DEF OverlayLive, StaysHere
<1>8. OverlayLive(t, [o EXCEPT !.views = rest, !.selected = next])
  BY <1>6 DEF Overlay, OverlayLive, StaysHere
<1>9. QED BY <1>2, <1>7, <1>8, ClosedLive

-----------------------------------------------------------------------------
(* The session *)

(* TypeOK is not inductive: the commit of the overlay focuses the          *)
(* highlighted window, which exists only if the highlight is in range.     *)
TypeInv == TypeOK /\ HighlightInRange(sw)

(* Entering a lock surface keeps the type.                                 *)
LEMMA EnterLockSurfaceType ==
  ASSUME NEW s \in Server, NEW ls \in LockSurfaces
  PROVE  EnterLockSurface(s, ls) \in Server
  BY DEF Server, Surfaces, EnterLockSurface

(* Updates of the seat alone keep the type.                                *)
LEMMA ServerUpdates ==
  ASSUME NEW s \in Server, NEW b \in BOOLEAN
  PROVE  /\ [s EXCEPT !.locked = b] \in Server
         /\ [s EXCEPT !.keyboard = b] \in Server
         /\ [s EXCEPT !.focused_surface = NoSurface] \in Server
         /\ [s EXCEPT !.locked = b, !.focused_surface = NoSurface] \in Server
  BY DEF Server, Surfaces

(* The initial states satisfy the inductive type invariant.                *)
LEMMA TypeInit == Init => TypeInv
  BY ClosedType, InitServerType DEF Init, TypeInv, TypeOK

(* What windows, panels and the user do to the session: a seat step that   *)
(* leaves the lock and the layer surfaces alone.                           *)
ClientStep ==
  /\ SeatStep(srv, srv')
  /\ UNCHANGED <<lockVars, layers>>

(* Two seat steps in a row are one.                                        *)
LEMMA SeatStepTransitive ==
  ASSUME NEW r, NEW s, NEW t, SeatStep(r, s), SeatStep(s, t)
  PROVE  SeatStep(r, t)
  BY DEF SeatStep

(* Leaving the seat alone is a seat step.                                  *)
LEMMA SeatKeptIsStep ==
  ASSUME NEW s, NEW t, SeatKept(s, t)
  PROVE  SeatStep(s, t)
  BY DEF SeatStep, SeatKept

(* Switching to the workspace of a window and focusing it is a seat step   *)
(* and at most closes the overlay.                                         *)
LEMMA ShowWorkspaceOfStep ==
  ASSUME TypeInv, NEW v \in Views, ShowWorkspaceOf(v)
  PROVE  /\ srv' \in Server /\ SeatStep(srv, srv')
         /\ sw' \in Overlay /\ HighlightInRange(sw')
<1> DEFINE t == WorkspaceSwitch(srv, srv.workspace[v])
<1>1. t \in Server /\ SeatStep(srv, t)
  BY WorkspaceSwitchType, WorkspaceSwitchSeat DEF TypeInv, TypeOK
<1>2. srv' = Focus(t, v) /\ sw' \in {sw, Closed}
  BY DEF ShowWorkspaceOf
<1> HIDE DEF t
<1>3. srv' \in Server /\ SeatStep(srv, srv')
  BY <1>1, <1>2, FocusType, FocusSeat, SeatStepTransitive
<1>4. QED BY <1>2, <1>3, ClosedType DEF TypeInv, TypeOK

(* A click on the minimize button, which focuses the window first, is a    *)
(* seat step.                                                              *)
LEMMA MinimizeAfterFocusStep ==
  ASSUME NEW s \in Server, NEW v \in Views
  PROVE  /\ MinimizeAndMoveOn(Focus(s, v), v) \in Server
         /\ SeatStep(s, MinimizeAndMoveOn(Focus(s, v), v))
  BY FocusType, FocusSeat, MinimizeAndMoveOnType, MinimizeAndMoveOnSeat,
     SeatStepTransitive

(* A restore from a panel, which focuses the window afterwards, is a seat  *)
(* step.                                                                   *)
LEMMA FocusAfterRestoreStep ==
  ASSUME NEW s \in Server, NEW v \in Views
  PROVE  /\ Focus(Minimize(s, v, FALSE), v) \in Server
         /\ SeatStep(s, Focus(Minimize(s, v, FALSE), v))
  BY FocusType, FocusSeat, MinimizeType, MinimizeSeat, SeatKeptIsStep,
     SeatStepTransitive

(* Every request of a client or panel and every click on a window keeps    *)
(* the types and is a client step.                                         *)
LEMMA WindowStep ==
  ASSUME TypeInv, WindowNext
  PROVE  TypeInv' /\ ClientStep
<1> USE DEF TypeInv, TypeOK, lockVars, ClientStep
<1>1. PICK v \in Views :
         \/ Map(v) \/ Unmap(v) \/ Destroy(v) \/ RequestMinimize(v)
         \/ ActivationRequest(v)
         \/ ForeignActivate(v) \/ ForeignMinimize(v) \/ ForeignRestore(v)
         \/ ClickWindow(v) \/ ClickMinimizeButton(v) \/ ClickTaskButton(v)
  BY DEF WindowNext
<1>2. SUFFICES /\ srv' \in Server /\ SeatStep(srv, srv')
               /\ sw' \in Overlay /\ HighlightInRange(sw')
               /\ UNCHANGED <<lockVars, layers>>
  OBVIOUS
<1>3. CASE Map(v)
  BY <1>3, HandleMapType, HandleMapSeat DEF Map
<1>4. CASE Unmap(v)
  BY <1>4, HandleUnmapType, HandleUnmapSeat, ViewRemovedType DEF Unmap
<1>5. CASE Destroy(v)
  <2>1. SeatStep(srv, HandleDestroy(srv, v))
    BY DEF HandleDestroy, SeatStep, Server
  <2>2. QED BY <1>5, <2>1, HandleDestroyType DEF Destroy
<1>6. CASE RequestMinimize(v)
  BY <1>6, MinimizeAndMoveOnType, MinimizeAndMoveOnSeat DEF RequestMinimize
<1>7. CASE ActivationRequest(v)
  <2>1. CASE ShowWorkspaceOf(v)
    BY <1>7, <2>1, ShowWorkspaceOfStep DEF ActivationRequest
  <2>2. CASE /\ srv' = IF srv.focused_surface = v THEN srv
                       ELSE [srv EXCEPT !.urgent = @ \cup {v}]
             /\ UNCHANGED sw
    <3> DEFINE u == [srv EXCEPT !.urgent = @ \cup {v}]
    <3>1. u \in Server /\ SeatStep(srv, u) /\ SeatStep(srv, srv)
      BY DEF Server, SeatStep
    <3>2. srv' \in {srv, u}
      BY <2>2
    <3> HIDE DEF u
    <3>3. QED BY <1>7, <2>2, <3>1, <3>2 DEF ActivationRequest
  <2>3. QED BY <1>7, <2>1, <2>2 DEF ActivationRequest
<1>8. CASE ForeignActivate(v)
  BY <1>8, ShowWorkspaceOfStep DEF ForeignActivate
<1>9. CASE ForeignMinimize(v)
  BY <1>9, MinimizeAndMoveOnType, MinimizeAndMoveOnSeat DEF ForeignMinimize
<1>10. CASE ForeignRestore(v)
  BY <1>10, FocusAfterRestoreStep DEF ForeignRestore
<1>11. CASE ClickWindow(v)
  BY <1>11, FocusType, FocusSeat DEF ClickWindow
<1>12. CASE ClickMinimizeButton(v)
  BY <1>12, MinimizeAfterFocusStep DEF ClickMinimizeButton
<1>13. CASE ClickTaskButton(v)
  <2>1. CASE v \in srv.pinned
    BY <1>13, <2>1, FocusType, FocusSeat DEF ClickTaskButton
  <2>2. CASE v \notin srv.pinned
    BY <1>13, <2>2, ShowWorkspaceOfStep DEF ClickTaskButton
  <2>3. QED BY <2>1, <2>2
<1>14. QED BY <1>1, <1>3, <1>4, <1>5, <1>6, <1>7, <1>8, <1>9, <1>10, <1>11,
              <1>12, <1>13

(* A switch of the workspace keeps the types and is a client step.         *)
LEMMA SwitchToStep ==
  ASSUME TypeInv, NEW w, SwitchTo(w)
  PROVE  TypeInv' /\ ClientStep
  BY WorkspaceSwitchType, WorkspaceSwitchSeat, ClosedType
     DEF SwitchTo, TypeInv, TypeOK, lockVars, ClientStep

(* Every bound action keeps the types and is a client step.                *)
LEMMA UserStep ==
  ASSUME TypeInv, UserNext
  PROVE  TypeInv' /\ ClientStep
<1> USE DEF TypeInv, TypeOK, lockVars, ClientStep
<1>0. SeatStep(srv, srv)
  BY DEF SeatStep
<1>1. FocusedView # NoSurface => FocusedView \in Views
  BY DEF FocusedView
<1>2. ASSUME NEW w \in Workspaces, ClickWorkspaceButton(w)
      PROVE  TypeInv' /\ ClientStep
  BY <1>2, SwitchToStep DEF ClickWorkspaceButton
<1>3. ASSUME NEW w \in Workspaces, ActionWorkspace(w)
      PROVE  TypeInv' /\ ClientStep
  BY <1>3, SwitchToStep DEF ActionWorkspace
<1>4. ASSUME NEW w \in Workspaces, ActionMoveToWorkspace(w)
      PROVE  TypeInv' /\ ClientStep
  BY <1>1, <1>4, MoveToWorkspaceType, MoveToWorkspaceSeat, ViewRemovedType
     DEF ActionMoveToWorkspace
<1>5. ASSUME NEW step \in {1, -1}, ActionCycle(step)
      PROVE  TypeInv' /\ ClientStep
  BY <1>0, <1>5, CycleType DEF ActionCycle
<1>6. CASE ActionMinimize
  BY <1>1, <1>6, MinimizeAndMoveOnType, MinimizeAndMoveOnSeat DEF ActionMinimize
<1>7. CASE ActionPin
  BY <1>1, <1>7, TogglePinType, TogglePinSeat DEF ActionPin
<1>8. CASE CommitSwitcher
  <2>1. Highlighted(sw) \in Views
    BY <1>8, HighlightedType DEF CommitSwitcher
  <2>2. QED BY <1>8, <2>1, FocusType, FocusSeat, ClosedType DEF CommitSwitcher
<1>9. CASE CancelSwitcher
  BY <1>0, <1>9, ClosedType DEF CancelSwitcher
<1>10. QED BY <1>2, <1>3, <1>4, <1>5, <1>6, <1>7, <1>8, <1>9 DEF UserNext

(* Layer surfaces, lockers and the seat keep the types.                    *)
LEMMA OtherStepType ==
  ASSUME TypeInv, LayerNext \/ LockNext \/ SeatNext
  PROVE  TypeInv'
<1> USE DEF TypeInv, TypeOK, lockVars
<1>1. ASSUME NEW l \in Layers, LayerMap(l)
      PROVE  TypeInv'
  BY <1>1, FocusLayerType DEF LayerMap
<1>2. ASSUME NEW l \in Layers, LayerUnmap(l)
      PROVE  TypeInv'
  BY <1>2, UnmapLayerType DEF LayerUnmap
<1>3. ASSUME NEW ls \in LockSurfaces, NewLockSurface(ls)
      PROVE  TypeInv'
  BY <1>3, EnterLockSurfaceType DEF NewLockSurface
<1>4. ASSUME NEW ls \in LockSurfaces, LockSurfaceDestroyed(ls)
      PROVE  TypeInv'
  <2>1. srv' \in Server
    <3>1. [srv EXCEPT !.focused_surface = NoSurface] \in Server
      BY ServerUpdates
    <3>2. \A other \in lock_surfaces' : EnterLockSurface(srv, other) \in Server
      BY <1>4, EnterLockSurfaceType DEF LockSurfaceDestroyed
    <3>3. QED BY <1>4, <3>1, <3>2 DEF LockSurfaceDestroyed
  <2>2. QED BY <1>4, <2>1 DEF LockSurfaceDestroyed
<1>5. CASE Lock
  BY <1>5, ServerUpdates, ClosedType DEF Lock
<1>6. CASE Unlock
  <2>1. [srv EXCEPT !.locked = FALSE] \in Server
    BY ServerUpdates
  <2>2. QED BY <1>6, <2>1, FocusNextType DEF Unlock
<1>7. CASE LockerCrash
  <2>1. [srv EXCEPT !.focused_surface =
           IF @ \in lock_surfaces THEN NoSurface ELSE @] \in Server
    BY DEF Server, Surfaces
  <2>2. QED BY <1>7, <2>1 DEF LockerCrash
<1>8. CASE KeyWhileLocked
  BY <1>8, EnterLockSurfaceType DEF KeyWhileLocked
<1>9. CASE KeyboardAttached
  BY <1>9, ServerUpdates DEF KeyboardAttached
<1>10. CASE KeyboardGone
  BY <1>10, ServerUpdates DEF KeyboardGone
<1>11. CASE SurfaceGone
  BY <1>11, ServerUpdates DEF SurfaceGone
<1>12. QED BY <1>1, <1>2, <1>3, <1>4, <1>5, <1>6, <1>7, <1>8, <1>9, <1>10, <1>11
              DEF LayerNext, LockNext, SeatNext

(* Type correctness: every variable keeps its type through every handler,  *)
(* and the commit of the overlay always finds a window.                    *)
THEOREM TypeCorrect == Spec => []TypeOK
<1>1. TypeInv /\ [Next]_vars => TypeInv'
  <2>1. ASSUME TypeInv, Next
        PROVE  TypeInv'
    BY <2>1, WindowStep, UserStep, OtherStepType DEF Next
  <2>2. ASSUME TypeInv, UNCHANGED vars
        PROVE  TypeInv'
    BY <2>2 DEF vars, lockVars, TypeInv, TypeOK
  <2>3. QED BY <2>1, <2>2
<1>2. TypeInv => TypeOK
  BY DEF TypeInv
<1>3. QED BY TypeInit, <1>1, <1>2, PTL DEF Spec

-----------------------------------------------------------------------------

(* The inductive invariant behind the session lock. LockedFocus needs the  *)
(* bookkeeping (a lock surface has a live, hence locked, session) and the  *)
(* types.                                                                  *)
LockInv == TypeInv /\ LockBookkeeping /\ LockedFocus

(* The session starts unlocked.                                            *)
LEMMA LockInit == Init => LockInv
<1>1. ASSUME Init PROVE LockBookkeeping /\ LockedFocus
  <2>1. PICK k : srv = InitServer(k)
    BY <1>1 DEF Init
  <2>2. srv.locked = FALSE
    BY <2>1 DEF InitServer
  <2>3. QED BY <1>1, <2>2 DEF Init, LockBookkeeping, LockedFocus
<1>2. QED BY <1>1, TypeInit DEF LockInv

(* What windows, panels and the user do keeps the lock invariant and is a  *)
(* step of SeatPolicy or none.                                             *)
LEMMA ClientStepLock ==
  ASSUME LockInv, TypeInv', ClientStep
  PROVE  LockInv' /\ [Seat!Next]_(Seat!vars)
<1> USE DEF LockInv, ClientStep, lockVars, LockBookkeeping, LockedFocus, SeatStep
<1>1. LockInv'
  OBVIOUS
<1>2. \/ UNCHANGED Seat!vars
      \/ Seat!Give
  BY DEF Seat!vars, Seat!Give
<1>3. QED BY <1>1, <1>2 DEF Seat!Next

(* So is what layer surfaces do: focus is refused in a locked session.     *)
LEMMA LayerStepLock ==
  ASSUME LockInv, LayerNext
  PROVE  LockInv' /\ [Seat!Next]_(Seat!vars)
<1>0. TypeInv'
  BY OtherStepType DEF LockInv
<1>1. ASSUME NEW l \in Layers, LayerMap(l)
      PROVE  LockInv' /\ [Seat!Next]_(Seat!vars)
  <2>1. UNCHANGED lockVars
    BY <1>1 DEF LayerMap
  <2>2. \/ srv' = srv
        \/ /\ ~srv.locked /\ srv'.locked = srv.locked
           /\ srv'.focused_surface \in {srv.focused_surface, l}
    BY <1>1 DEF LayerMap, FocusLayer, LockInv, TypeInv, TypeOK, Server
  <2>3. LockInv'
    BY <1>0, <2>1, <2>2 DEF lockVars, LockInv, LockBookkeeping, LockedFocus
  <2>4. UNCHANGED Seat!vars \/ Seat!Give
    BY <2>1, <2>2 DEF lockVars, Seat!vars, Seat!Give
  <2>5. QED BY <2>3, <2>4 DEF Seat!Next
<1>2. ASSUME NEW l \in Layers, LayerUnmap(l)
      PROVE  LockInv' /\ [Seat!Next]_(Seat!vars)
  <2>1. UNCHANGED lockVars /\ SeatStep(srv, srv')
    BY <1>2, UnmapLayerSeat DEF LayerUnmap, LockInv, TypeInv, TypeOK
  <2>2. LockInv'
    BY <1>0, <2>1 DEF lockVars, LockInv, LockBookkeeping, LockedFocus, SeatStep
  <2>3. UNCHANGED Seat!vars \/ Seat!Give
    BY <2>1 DEF lockVars, SeatStep, Seat!vars, Seat!Give
  <2>4. QED BY <2>2, <2>3 DEF Seat!Next
<1>3. QED BY <1>1, <1>2 DEF LayerNext

(* So is what a locker does, living or dying.                              *)
LEMMA LockerStep ==
  ASSUME LockInv, LockNext
  PROVE  LockInv' /\ [Seat!Next]_(Seat!vars)
<1> USE DEF LockBookkeeping, LockedFocus
<1>0. TypeInv' /\ TypeOK /\ srv \in Server /\ LockBookkeeping /\ LockedFocus
  BY OtherStepType DEF LockInv, TypeInv, TypeOK
<1>1. SUFFICES /\ LockBookkeeping' /\ LockedFocus'
               /\ UNCHANGED Seat!vars \/ Seat!Next
  BY <1>0 DEF LockInv
<1>2. \A ls \in LockSurfaces :
        LET e == EnterLockSurface(srv, ls)
        IN  /\ e.locked = srv.locked
            /\ e.focused_surface \in {srv.focused_surface, ls}
  BY <1>0 DEF EnterLockSurface, Server
<1>3. /\ [srv EXCEPT !.focused_surface = NoSurface].locked = srv.locked
      /\ [srv EXCEPT !.focused_surface = NoSurface].focused_surface = NoSurface
  BY <1>0 DEF Server
<1>4. ASSUME NEW ls \in LockSurfaces, NewLockSurface(ls)
      PROVE  /\ LockBookkeeping' /\ LockedFocus'
             /\ UNCHANGED Seat!vars \/ Seat!Next
  <2>1. /\ srv'.locked = srv.locked /\ cur_lock' = cur_lock
        /\ srv'.focused_surface \in {srv.focused_surface, ls}
        /\ cur_lock /\ lock_surfaces' = lock_surfaces \cup {ls}
        /\ broken_msg' = broken_msg
    BY <1>2, <1>4 DEF NewLockSurface
  <2>2. UNCHANGED Seat!vars \/ Seat!Give
    BY <1>0, <2>1 DEF Seat!vars, Seat!Give
  <2>3. QED BY <1>0, <2>1, <2>2 DEF Seat!Next
<1>5. ASSUME NEW ls \in LockSurfaces, LockSurfaceDestroyed(ls)
      PROVE  /\ LockBookkeeping' /\ LockedFocus'
             /\ UNCHANGED Seat!vars \/ Seat!Next
  <2>1. lock_surfaces \subseteq LockSurfaces /\ lock_surfaces' \subseteq LockSurfaces
    BY <1>0, <1>5 DEF TypeOK, LockSurfaceDestroyed
  <2>2. /\ cur_lock' = cur_lock /\ broken_msg' = broken_msg
        /\ cur_lock /\ lock_surfaces' = lock_surfaces \ {ls}
    BY <1>0, <1>5 DEF LockSurfaceDestroyed
  <2>3. /\ srv'.locked = srv.locked
        /\ \/ srv'.focused_surface = srv.focused_surface /\ srv.focused_surface # ls
           \/ srv'.focused_surface \in lock_surfaces' \cup {NoSurface}
    <3>1. CASE srv.focused_surface # ls
      BY <1>5, <3>1 DEF LockSurfaceDestroyed
    <3>2. CASE srv.focused_surface = ls /\ lock_surfaces' # {} /\ srv.keyboard
      <4>1. PICK other \in lock_surfaces' : srv' = EnterLockSurface(srv, other)
        BY <1>5, <3>2 DEF LockSurfaceDestroyed
      <4>2. srv'.focused_surface = other /\ srv'.locked = srv.locked
        BY <1>0, <3>2, <4>1 DEF EnterLockSurface, Server
      <4>3. QED BY <4>2
    <3>3. CASE srv.focused_surface = ls /\ ~ (lock_surfaces' # {} /\ srv.keyboard)
      <4>1. srv.locked
        BY <1>0, <2>2
      <4>2. srv' = [srv EXCEPT !.focused_surface = NoSurface]
        BY <1>5, <3>3, <4>1 DEF LockSurfaceDestroyed
      <4>3. QED BY <1>3, <4>2
    <3>4. QED BY <3>1, <3>2, <3>3
  <2>4. UNCHANGED Seat!vars \/ Seat!Give
    BY <1>0, <2>1, <2>2, <2>3 DEF Seat!vars, Seat!Give
  <2>5. QED BY <1>0, <2>2, <2>3, <2>4 DEF Seat!Next
<1>6. CASE Lock
  <2>1. srv'.locked = TRUE /\ srv'.focused_surface = NoSurface
    BY <1>0, <1>6 DEF Lock, Server
  <2>2. Seat!Lock
    BY <1>6, <2>1 DEF Lock, Seat!Lock
  <2>3. QED BY <1>0, <1>6, <2>1, <2>2 DEF Lock, Seat!Next
<1>7. CASE Unlock
  <2> DEFINE t == [srv EXCEPT !.locked = FALSE]
  <2>1. /\ t \in Server /\ t.locked = FALSE
        /\ t.focused_surface = srv.focused_surface
    BY <1>0 DEF Server
  <2>2. srv' = FocusNext(t, NoSurface)
    BY <1>7 DEF Unlock
  <2> HIDE DEF t
  <2>3. /\ srv'.locked = FALSE
        /\ srv'.focused_surface \in {srv.focused_surface, NoSurface} \cup Views
    BY <2>1, <2>2, FocusNextSeat DEF SeatStep
  <2>4. Seat!Unlock
    BY <1>0, <1>7, <2>3 DEF Unlock, Seat!Unlock
  <2>5. QED BY <1>0, <1>7, <2>3, <2>4 DEF Unlock, Seat!Next
<1>8. CASE LockerCrash
  <2>1. /\ srv'.locked = srv.locked /\ srv'.focused_surface = NoSurface
    BY <1>0, <1>8 DEF LockerCrash, Server
  <2>2. Seat!Crash
    BY <1>0, <1>8, <2>1 DEF LockerCrash, Seat!Crash
  <2>3. QED BY <1>0, <1>8, <2>1, <2>2 DEF LockerCrash, Seat!Next
<1>9. CASE KeyWhileLocked
  <2>1. PICK ls \in lock_surfaces : srv' = EnterLockSurface(srv, ls)
    BY <1>9 DEF KeyWhileLocked
  <2>2. ls \in LockSurfaces
    BY <1>0 DEF TypeOK
  <2>3. /\ srv'.locked = srv.locked /\ srv.locked /\ cur_lock
        /\ srv'.focused_surface \in {srv.focused_surface, ls}
        /\ UNCHANGED lockVars
    BY <1>2, <1>9, <2>1, <2>2 DEF KeyWhileLocked
  <2>4. UNCHANGED Seat!vars \/ Seat!Give
    BY <2>2, <2>3 DEF Seat!vars, Seat!Give, lockVars
  <2>5. QED BY <1>0, <2>3, <2>4 DEF Seat!Next, lockVars
<1>10. QED BY <1>4, <1>5, <1>6, <1>7, <1>8, <1>9 DEF LockNext

(* So is what keyboards and dying surfaces do to the seat.                 *)
LEMMA SeatDeviceStep ==
  ASSUME LockInv, SeatNext
  PROVE  LockInv' /\ [Seat!Next]_(Seat!vars)
<1>1. /\ srv'.locked = srv.locked
      /\ srv'.focused_surface \in {srv.focused_surface, NoSurface}
      /\ UNCHANGED lockVars
  BY DEF SeatNext, KeyboardAttached, KeyboardGone, SurfaceGone,
         LockInv, TypeInv, TypeOK, Server
<1>2. LockInv'
  BY <1>1, OtherStepType DEF lockVars, LockInv, LockBookkeeping, LockedFocus
<1>3. UNCHANGED Seat!vars \/ Seat!Give
  BY <1>1 DEF lockVars, Seat!vars, Seat!Give
<1>4. QED BY <1>2, <1>3 DEF Seat!Next

(* Every step of the desktop keeps the lock invariant and maps to a step   *)
(* of SeatPolicy or to none.                                               *)
LEMMA LockStep == LockInv /\ [Next]_vars => LockInv' /\ [Seat!Next]_(Seat!vars)
<1>1. ASSUME LockInv, WindowNext \/ UserNext
      PROVE  LockInv' /\ [Seat!Next]_(Seat!vars)
  BY <1>1, WindowStep, UserStep, ClientStepLock DEF LockInv
<1>2. ASSUME LockInv, UNCHANGED vars
      PROVE  LockInv' /\ [Seat!Next]_(Seat!vars)
  BY <1>2 DEF vars, lockVars, LockInv, LockBookkeeping, LockedFocus,
              TypeInv, TypeOK, Seat!vars
<1>3. QED BY <1>1, <1>2, LayerStepLock, LockerStep, SeatDeviceStep DEF Next

(* While the session is locked the keyboard belongs to a live lock surface *)
(* or to nobody, for any number of windows, panels and lockers.            *)
THEOREM LockedFocusHolds == Spec => []LockedFocus
<1>1. LockInv => LockedFocus
  BY DEF LockInv
<1>2. QED BY LockInit, LockStep, <1>1, PTL DEF Spec

(* A living locker has the session locked, lock surfaces have a living     *)
(* locker, and the crash message is up exactly while nobody can unlock.    *)
THEOREM LockBookkeepingHolds == Spec => []LockBookkeeping
<1>1. LockInv => LockBookkeeping
  BY DEF LockInv
<1>2. QED BY LockInit, LockStep, <1>1, PTL DEF Spec

(* The desktop implements SeatPolicy: once secured, the session is handed  *)
(* back by a living locker only, and no window or panel owns the keyboard  *)
(* meanwhile.                                                              *)
THEOREM SeatRefined == Spec => SeatSpec
<1>1. Init => Seat!Init
  <2>1. ASSUME Init PROVE Seat!Init
    <3>1. PICK k : srv = InitServer(k)
      BY <2>1 DEF Init
    <3>2. srv.locked = FALSE /\ srv.focused_surface = NoSurface
      BY <3>1 DEF InitServer
    <3>3. QED BY <2>1, <3>2 DEF Init, Seat!Init
  <2>2. QED BY <2>1
<1>2. QED BY LockInit, LockStep, <1>1, PTL DEF Spec, SeatSpec, Seat!Spec

-----------------------------------------------------------------------------
(* Windows, focus and overlay through every handler *)

(* A change of the seat that gives no window the keyboard, takes no        *)
(* keyboard away and locks only with the focus cleared.                    *)
LEMMA SeatUpdateKeeps ==
  ASSUME NEW s, NEW t, Consistent(s),
         t.mapped = s.mapped, t.views = s.views, t.workspace = s.workspace,
         t.current_workspace = s.current_workspace,
         t.max_visible_workspace = s.max_visible_workspace,
         t.shown = s.shown, t.pinned = s.pinned, t.minimized = s.minimized,
         t.activated = s.activated, t.urgent = s.urgent,
         t.focused_layer = s.focused_layer,
         s.keyboard => t.keyboard,
         \/ t.focused_surface \notin Views
         \/ t.focused_surface = s.focused_surface /\ t.locked = s.locked
  PROVE  Keeps(s, t)
<1>1. Consistent(t)
  BY SameConsistent DEF Consistent
<1>2. FocusSound(s) => FocusSound(t)
  BY DEF FocusSound, SeatSound, UsableExcept
<1>3. QED BY <1>1, <1>2 DEF Keeps

(* Switching to the workspace of a window and focusing the window.         *)
LEMMA ShowWorkspaceOfKeeps ==
  ASSUME TypeInv, Consistent(srv), NEW v \in Views, ShowWorkspaceOf(v)
  PROVE  Keeps(srv, srv')
<1> DEFINE t == WorkspaceSwitch(srv, srv.workspace[v])
<1>0. srv \in Server
  BY DEF TypeInv, TypeOK
<1>1. t \in Server /\ Keeps(srv, t)
  BY <1>0, WorkspaceSwitchType, WorkspaceSwitchKeeps
<1>2. srv' = Focus(t, v)
  BY DEF ShowWorkspaceOf
<1> HIDE DEF t
<1>3. Consistent(t)
  BY <1>1 DEF Keeps
<1>4. Keeps(t, Focus(t, v))
  BY <1>1, <1>3, FocusKeeps
<1>5. QED BY <1>1, <1>2, <1>4, KeepsTransitive

(* A click on the minimize button focuses the window first.                *)
LEMMA MinimizeAfterFocusKeeps ==
  ASSUME NEW s \in Server, NEW v \in Views, Consistent(s)
  PROVE  Keeps(s, MinimizeAndMoveOn(Focus(s, v), v))
<1> DEFINE t == Focus(s, v)
<1>1. t \in Server /\ Keeps(s, t)
  BY FocusType, FocusKeeps
<1> HIDE DEF t
<1>2. Consistent(t)
  BY <1>1 DEF Keeps
<1>3. Keeps(t, MinimizeAndMoveOn(t, v))
  BY <1>1, <1>2, MinimizeAndMoveOnKeeps
<1>4. QED BY <1>1, <1>3, KeepsTransitive DEF t

(* Every request of a client or panel and every click on a window.         *)
LEMMA WindowKeeps ==
  ASSUME TypeInv, Consistent(srv), WindowNext
  PROVE  Keeps(srv, srv')
<1>0. srv \in Server /\ Keeps(srv, srv)
  BY DEF TypeInv, TypeOK, Keeps
<1>1. PICK v \in Views :
         \/ Map(v) \/ Unmap(v) \/ Destroy(v) \/ RequestMinimize(v)
         \/ ActivationRequest(v)
         \/ ForeignActivate(v) \/ ForeignMinimize(v) \/ ForeignRestore(v)
         \/ ClickWindow(v) \/ ClickMinimizeButton(v) \/ ClickTaskButton(v)
  BY DEF WindowNext
<1>2. CASE Map(v)
  BY <1>0, <1>2, HandleMapKeeps DEF Map
<1>3. CASE Unmap(v)
  BY <1>0, <1>3, HandleUnmapKeeps DEF Unmap
<1>4. CASE Destroy(v)
  BY <1>0, <1>4, HandleDestroyKeeps DEF Destroy
<1>5. CASE RequestMinimize(v)
  BY <1>0, <1>5, MinimizeAndMoveOnKeeps DEF RequestMinimize
<1>6. CASE ActivationRequest(v)
  <2>1. CASE ShowWorkspaceOf(v)
    BY <2>1, ShowWorkspaceOfKeeps
  <2>2. CASE srv' = IF srv.focused_surface = v THEN srv
                    ELSE [srv EXCEPT !.urgent = @ \cup {v}]
    <3> DEFINE u == [srv EXCEPT !.urgent = @ \cup {v}]
    <3>1. /\ u.mapped = srv.mapped /\ u.views = srv.views
          /\ u.workspace = srv.workspace
          /\ u.current_workspace = srv.current_workspace
          /\ u.max_visible_workspace = srv.max_visible_workspace
          /\ u.shown = srv.shown /\ u.pinned = srv.pinned
          /\ u.minimized = srv.minimized /\ u.activated = srv.activated
          /\ u.urgent = srv.urgent \cup {v}
          /\ u.focused_surface = srv.focused_surface
          /\ u.focused_layer = srv.focused_layer
          /\ u.keyboard = srv.keyboard /\ u.locked = srv.locked
      BY <1>0 DEF Server
    <3>2. srv.focused_surface = v => srv' = srv
      BY <2>2
    <3>3. srv.focused_surface # v => srv' = u
      BY <2>2
    <3> HIDE DEF u
    <3>4. Consistent(u)
      BY <3>1, SameConsistent DEF Consistent
    <3>5. srv.focused_surface # v /\ FocusSound(srv) => FocusSound(u)
      BY <3>1 DEF FocusSound, SeatSound, UsableExcept
    <3>6. QED BY <1>0, <3>2, <3>3, <3>4, <3>5 DEF Keeps
  <2>3. QED BY <1>6, <2>1, <2>2 DEF ActivationRequest
<1>7. CASE ForeignActivate(v)
  BY <1>7, ShowWorkspaceOfKeeps DEF ForeignActivate
<1>8. CASE ForeignMinimize(v)
  BY <1>0, <1>8, MinimizeAndMoveOnKeeps DEF ForeignMinimize
<1>9. CASE ForeignRestore(v)
  BY <1>0, <1>9, FocusAfterRestoreKeeps DEF ForeignRestore
<1>10. CASE ClickWindow(v)
  BY <1>0, <1>10, FocusKeeps DEF ClickWindow
<1>11. CASE ClickMinimizeButton(v)
  BY <1>0, <1>11, MinimizeAfterFocusKeeps DEF ClickMinimizeButton
<1>12. CASE ClickTaskButton(v)
  <2>1. CASE v \in srv.pinned
    BY <1>0, <1>12, <2>1, FocusKeeps DEF ClickTaskButton
  <2>2. CASE v \notin srv.pinned
    BY <1>12, <2>2, ShowWorkspaceOfKeeps DEF ClickTaskButton
  <2>3. QED BY <2>1, <2>2
<1>13. QED BY <1>1, <1>2, <1>3, <1>4, <1>5, <1>6, <1>7, <1>8, <1>9, <1>10, <1>11, <1>12

(* Every bound action, the overlay and the workspace buttons.              *)
LEMMA UserKeeps ==
  ASSUME TypeInv, Consistent(srv), UserNext
  PROVE  Keeps(srv, srv')
<1>0. srv \in Server /\ Keeps(srv, srv)
  BY DEF TypeInv, TypeOK, Keeps
<1>1. FocusedView # NoSurface => FocusedView \in Views
  BY DEF FocusedView
<1>2. ASSUME NEW w \in Workspaces, ClickWorkspaceButton(w) \/ ActionWorkspace(w)
      PROVE  Keeps(srv, srv')
  BY <1>0, <1>2, WorkspaceSwitchKeeps
     DEF ClickWorkspaceButton, ActionWorkspace, SwitchTo
<1>3. ASSUME NEW w \in Workspaces, ActionMoveToWorkspace(w)
      PROVE  Keeps(srv, srv')
  BY <1>0, <1>1, <1>3, MoveToWorkspaceKeeps DEF ActionMoveToWorkspace
<1>4. ASSUME NEW step \in {1, -1}, ActionCycle(step)
      PROVE  Keeps(srv, srv')
  BY <1>0, <1>4 DEF ActionCycle
<1>5. CASE ActionMinimize
  BY <1>0, <1>1, <1>5, MinimizeAndMoveOnKeeps DEF ActionMinimize
<1>6. CASE ActionPin
  BY <1>0, <1>1, <1>6, TogglePinKeeps DEF ActionPin
<1>7. CASE CommitSwitcher
  <2>1. Highlighted(sw) \in Views
    BY <1>7, HighlightedType DEF CommitSwitcher, TypeInv, TypeOK
  <2>2. QED BY <1>0, <1>7, <2>1, FocusKeeps DEF CommitSwitcher
<1>8. CASE CancelSwitcher
  BY <1>0, <1>8 DEF CancelSwitcher
<1>9. QED BY <1>2, <1>3, <1>4, <1>5, <1>6, <1>7, <1>8 DEF UserNext

(* Entering a lock surface gives no window the keyboard.                   *)
LEMMA EnterLockSurfaceKeeps ==
  ASSUME NEW s \in Server, NEW ls \in LockSurfaces, Consistent(s)
  PROVE  Keeps(s, EnterLockSurface(s, ls))
<1> DEFINE t == EnterLockSurface(s, ls)
<1>1. /\ t.mapped = s.mapped /\ t.views = s.views /\ t.workspace = s.workspace
      /\ t.current_workspace = s.current_workspace
      /\ t.max_visible_workspace = s.max_visible_workspace
      /\ t.shown = s.shown /\ t.pinned = s.pinned /\ t.minimized = s.minimized
      /\ t.activated = s.activated /\ t.urgent = s.urgent
      /\ t.focused_layer = s.focused_layer /\ t.keyboard = s.keyboard
      /\ t.locked = s.locked
      /\ t.focused_surface \in {s.focused_surface, ls}
  BY DEF EnterLockSurface, Server
<1> HIDE DEF t
<1>2. ls \notin Views
  BY WindowsAssumption
<1>3. QED BY <1>1, <1>2, SeatUpdateKeeps DEF t

(* Clearing the focus, with the session locked or not afterwards.          *)
LEMMA ClearFocusKeeps ==
  ASSUME NEW s \in Server, NEW b \in BOOLEAN, Consistent(s)
  PROVE  Keeps(s, [s EXCEPT !.locked = b, !.focused_surface = NoSurface])
<1> DEFINE t == [s EXCEPT !.locked = b, !.focused_surface = NoSurface]
<1>1. /\ t.mapped = s.mapped /\ t.views = s.views /\ t.workspace = s.workspace
      /\ t.current_workspace = s.current_workspace
      /\ t.max_visible_workspace = s.max_visible_workspace
      /\ t.shown = s.shown /\ t.pinned = s.pinned /\ t.minimized = s.minimized
      /\ t.activated = s.activated /\ t.urgent = s.urgent
      /\ t.focused_layer = s.focused_layer /\ t.keyboard = s.keyboard
      /\ t.focused_surface = NoSurface
  BY DEF Server
<1> HIDE DEF t
<1>2. QED BY <1>1, SeatUpdateKeeps, WindowsAssumption DEF t

(* The focus cleared and nothing else.                                     *)
LEMMA NoFocusKeeps ==
  ASSUME NEW s \in Server, Consistent(s)
  PROVE  Keeps(s, [s EXCEPT !.focused_surface = NoSurface])
<1>1. /\ s.locked \in BOOLEAN
      /\ [s EXCEPT !.focused_surface = NoSurface]
           = [s EXCEPT !.locked = s.locked, !.focused_surface = NoSurface]
  BY DEF Server
<1>2. QED BY <1>1, ClearFocusKeeps

(* What a locker does, living or dying.                                    *)
LEMMA LockKeeps ==
  ASSUME TypeInv, Consistent(srv), LockNext
  PROVE  Keeps(srv, srv')
<1>0. srv \in Server /\ Keeps(srv, srv) /\ lock_surfaces \subseteq LockSurfaces
  BY DEF TypeInv, TypeOK, Keeps
<1>1. ASSUME NEW ls \in LockSurfaces, NewLockSurface(ls)
      PROVE  Keeps(srv, srv')
  BY <1>0, <1>1, EnterLockSurfaceKeeps DEF NewLockSurface
<1>2. ASSUME NEW ls \in LockSurfaces, LockSurfaceDestroyed(ls)
      PROVE  Keeps(srv, srv')
  <2>1. \A other \in lock_surfaces' : Keeps(srv, EnterLockSurface(srv, other))
    BY <1>0, <1>2, EnterLockSurfaceKeeps DEF LockSurfaceDestroyed
  <2>2. Keeps(srv, [srv EXCEPT !.focused_surface = NoSurface])
    BY <1>0, NoFocusKeeps
  <2>3. QED BY <1>0, <1>2, <2>1, <2>2 DEF LockSurfaceDestroyed
<1>3. CASE Lock
  BY <1>0, <1>3, ClearFocusKeeps DEF Lock
<1>4. CASE Unlock
  <2> DEFINE t == [srv EXCEPT !.locked = FALSE]
  <2>1. /\ t.mapped = srv.mapped /\ t.views = srv.views
        /\ t.workspace = srv.workspace
        /\ t.current_workspace = srv.current_workspace
        /\ t.max_visible_workspace = srv.max_visible_workspace
        /\ t.shown = srv.shown /\ t.pinned = srv.pinned
        /\ t.minimized = srv.minimized /\ t.activated = srv.activated
        /\ t.urgent = srv.urgent /\ t.focused_surface = srv.focused_surface
        /\ t.focused_layer = srv.focused_layer
        /\ t.keyboard = srv.keyboard /\ t.locked = FALSE /\ t \in Server
    BY <1>0 DEF Server
  <2>2. srv' = FocusNext(t, NoSurface)
    BY <1>4 DEF Unlock
  <2> HIDE DEF t
  <2>3. Consistent(t)
    BY <2>1, SameConsistent DEF Consistent
  <2>4. FocusSound(srv) => SeatSound(t) /\ UsableExcept(t, {NoSurface})
    BY <2>1 DEF FocusSound, SeatSound, UsableExcept
  <2>5. QED BY <2>1, <2>2, <2>3, <2>4, FocusNextKeeps
<1>5. CASE LockerCrash
  <2> DEFINE t == [srv EXCEPT !.focused_surface = NoSurface]
             u == [srv EXCEPT !.focused_surface =
                                IF @ \in lock_surfaces THEN NoSurface ELSE @]
  <2>1. u = t \/ u = srv
    BY <1>0 DEF Server
  <2>2. srv' = u
    BY <1>5 DEF LockerCrash
  <2>3. Keeps(srv, t)
    BY <1>0, NoFocusKeeps
  <2>4. QED BY <1>0, <2>1, <2>2, <2>3
<1>6. CASE KeyWhileLocked
  BY <1>0, <1>6, EnterLockSurfaceKeeps DEF KeyWhileLocked
<1>7. QED BY <1>1, <1>2, <1>3, <1>4, <1>5, <1>6 DEF LockNext

(* Keyboards that come, and dying surfaces. Only the loss of the last      *)
(* keyboard, which HotPlug rules in, takes the seat out of SeatSound.      *)
LEMMA SeatDeviceKeeps ==
  ASSUME TypeInv, Consistent(srv), SeatNext
  PROVE  Consistent(srv') /\ (HotPlug \/ Keeps(srv, srv'))
<1>0. srv \in Server
  BY DEF TypeInv, TypeOK
<1>1. CASE KeyboardAttached
  <2> DEFINE t == [srv EXCEPT !.keyboard = TRUE]
  <2>1. /\ t.mapped = srv.mapped /\ t.views = srv.views
        /\ t.workspace = srv.workspace
        /\ t.current_workspace = srv.current_workspace
        /\ t.max_visible_workspace = srv.max_visible_workspace
        /\ t.shown = srv.shown /\ t.pinned = srv.pinned
        /\ t.minimized = srv.minimized
    BY <1>0 DEF Server
  <2>2. srv' = t /\ ~srv.keyboard
    BY <1>1 DEF KeyboardAttached
  <2> HIDE DEF t
  <2>3. Consistent(t)
    BY <2>1, SameConsistent DEF Consistent
  <2>4. QED BY <2>2, <2>3 DEF Keeps, FocusSound, SeatSound
<1>2. CASE KeyboardGone
  <2> DEFINE t == [srv EXCEPT !.keyboard = FALSE]
  <2>1. /\ t.mapped = srv.mapped /\ t.views = srv.views
        /\ t.workspace = srv.workspace
        /\ t.current_workspace = srv.current_workspace
        /\ t.max_visible_workspace = srv.max_visible_workspace
        /\ t.shown = srv.shown /\ t.pinned = srv.pinned
        /\ t.minimized = srv.minimized
    BY <1>0 DEF Server
  <2>2. srv' = t /\ HotPlug
    BY <1>2 DEF KeyboardGone
  <2> HIDE DEF t
  <2>3. Consistent(t)
    BY <2>1, SameConsistent DEF Consistent
  <2>4. QED BY <2>2, <2>3
<1>3. CASE SurfaceGone
  BY <1>0, <1>3, NoFocusKeeps DEF SurfaceGone, Keeps
<1>4. QED BY <1>1, <1>2, <1>3 DEF SeatNext

-----------------------------------------------------------------------------

(* The inductive invariant behind the window list: no conjunct of it needs *)
(* a keyboard on the seat.                                                 *)
ListInv == TypeInv /\ Consistent(srv)

(* Every step of the desktop keeps it, and the soundness of the focus      *)
(* where the seat never loses its keyboard.                                *)
LEMMA DesktopKeeps ==
  ASSUME ListInv, [Next]_vars
  PROVE  ListInv' /\ (HotPlug \/ (FocusSound(srv) => FocusSound(srv')))
<1>1. ASSUME Next
      PROVE  TypeInv' /\ Consistent(srv') /\ (HotPlug \/ Keeps(srv, srv'))
  <2>1. TypeInv'
    BY <1>1, WindowStep, UserStep, OtherStepType DEF Next, ListInv
  <2>2. ASSUME LayerNext PROVE Keeps(srv, srv')
    BY <2>2, LayerKeeps DEF LayerNext, LayerMap, LayerUnmap, ListInv, TypeInv, TypeOK
  <2>3. QED BY <1>1, <2>1, <2>2, WindowKeeps, UserKeeps, LockKeeps, SeatDeviceKeeps
               DEF Next, ListInv, Keeps
<1>2. ASSUME UNCHANGED vars
      PROVE  ListInv' /\ (FocusSound(srv) => FocusSound(srv'))
  BY <1>2 DEF vars, lockVars, ListInv, TypeInv, TypeOK
<1>3. QED BY <1>1, <1>2 DEF ListInv, Keeps

(* The empty desktop is consistent.                                        *)
LEMMA ListInit == Init => ListInv /\ (HotPlug \/ FocusSound(srv))
<1>1. ASSUME Init
      PROVE  Consistent(srv) /\ (HotPlug \/ FocusSound(srv))
  <2>1. PICK k \in BOOLEAN : srv = InitServer(k) /\ (HotPlug \/ k)
    BY <1>1, DesktopAssumption DEF Init
  <2>2. QED BY <2>1, InitConsistent
<1>2. QED BY <1>1, TypeInit DEF ListInv

(* server::views holds each mapped window once: unmap, move and focus      *)
(* unlink and relink without a window getting lost, doubled or left behind. *)
THEOREM ListExactHolds == Spec => []ListExact
<1>1. ASSUME ListInv PROVE ListExact
  <2>1. /\ srv.views \in Seq(Views) /\ srv.mapped \subseteq Views
        /\ LinkedOnce(srv.views, srv.mapped)
    BY <1>1 DEF ListInv, TypeInv, TypeOK, Server, Consistent, Listed
  <2>2. \A i \in DOMAIN srv.views : srv.views[i] \in Views
    BY <2>1, ElementOfSeq, LenProperties
  <2>3. ToSet(srv.views) = srv.mapped
    BY <2>1, <2>2 DEF ToSet, LinkedOnce
  <2>4. QED BY <2>1, <2>3 DEF ListExact, LinkedOnce
<1>2. ListInv /\ [Next]_vars => ListInv'
  BY DesktopKeeps
<1>3. QED BY <1>1, <1>2, ListInit, PTL DEF Spec

(* The scene shows no window that is minimized or that belongs, unpinned,  *)
(* to another workspace, though pin and switch update it on their own.     *)
THEOREM ShownBelongsHolds == Spec => []ShownBelongs
<1>1. ListInv => ShownBelongs
  BY DEF ListInv, Consistent, ShownExcept, ShownBelongs
<1>2. ListInv /\ [Next]_vars => ListInv'
  BY DesktopKeeps
<1>3. QED BY <1>1, <1>2, ListInit, PTL DEF Spec

(* The user and every window are on a workspace with a taskbar button.     *)
THEOREM WorkspaceReachableHolds == Spec => []WorkspaceReachable
<1>1. ListInv => WorkspaceReachable
  BY DEF ListInv, Consistent, Reachable, WorkspaceReachable
<1>2. ListInv /\ [Next]_vars => ListInv'
  BY DesktopKeeps
<1>3. QED BY <1>1, <1>2, ListInit, PTL DEF Spec

(* While the seat has a keyboard from the start and keeps it, the window   *)
(* that owns it is mapped, restored, not urgent, activated and first in    *)
(* the MRU list. The premise is needed: view::focus without a keyboard     *)
(* moves another window to the head and leaves the old focus in the seat.  *)
THEOREM FocusedUsableHolds ==
  ASSUME HotPlug = FALSE
  PROVE  Spec => []FocusedUsable
<1> DEFINE Inv == ListInv /\ FocusSound(srv)
<1>1. Init => Inv
  BY ListInit
<1>2. Inv /\ [Next]_vars => Inv'
  BY DesktopKeeps
<1>3. Inv => FocusedUsable
  BY DEF FocusSound, UsableExcept, FocusedUsable
<1>4. QED BY <1>1, <1>2, <1>3, PTL DEF Spec

-----------------------------------------------------------------------------

(* What a step of a client, a panel or the user does to the overlay and to *)
(* the layer surfaces.                                                     *)
ClientShift ==
  /\ OverlayLive(srv, sw) => OverlayLive(srv', sw')
  /\ srv'.keyboard = srv.keyboard
  /\ srv.keyboard => LayerKept(srv, srv')

(* A step that leaves the overlay alone takes no window of it away.        *)
LEMMA ShiftIsClientShift ==
  ASSUME Shifts(srv, srv', {}), sw' = sw
  PROVE  ClientShift
  BY StaysLive DEF Shifts, ClientShift

(* A move of the focus that leaves the overlay alone or closes it.         *)
LEMMA RefocusIsClientShift ==
  ASSUME Refocus(srv, srv'), sw' \in {sw, Closed}
  PROVE  ClientShift
<1>1. Shifts(srv, srv', {})
  BY RefocusShifts
<1>2. QED BY <1>1, StaysLive, ClosedLive DEF Shifts, ClientShift

(* To the workspace of a window, which closes the overlay.                 *)
LEMMA ShowWorkspaceOfShift ==
  ASSUME TypeInv, NEW v \in Views, ShowWorkspaceOf(v)
  PROVE  ClientShift
<1> DEFINE w == srv.workspace[v]
           t == WorkspaceSwitch(srv, w)
<1>0. srv \in Server /\ w \in Workspaces
  BY DEF TypeInv, TypeOK, Server
<1>1. t \in Server /\ Shifts(srv, t, IF w \in Workspaces \ {srv.current_workspace}
                                       THEN Views ELSE {})
  BY <1>0, WorkspaceSwitchType, WorkspaceSwitchShifts
<1>2. srv' = Focus(t, v) /\ sw' = IF w = srv.current_workspace THEN sw ELSE Closed
  BY DEF ShowWorkspaceOf
<1> HIDE DEF t, w
<1>3. Refocus(t, Focus(t, v))
  BY <1>1, FocusRefocus
<1>4. CASE w = srv.current_workspace
  <2>1. Shifts(srv, srv', {})
    BY <1>1, <1>2, <1>3, <1>4, ShiftsThenRefocus
  <2>2. QED BY <1>2, <1>4, <2>1, ShiftIsClientShift
<1>5. CASE w # srv.current_workspace
  <2>1. Shifts(srv, srv', Views)
    BY <1>0, <1>1, <1>2, <1>3, <1>5, ShiftsThenRefocus
  <2>2. QED BY <1>2, <1>5, <2>1, ClosedLive DEF Shifts, ClientShift
<1>6. QED BY <1>4, <1>5

(* A workspace switch, which closes the overlay.                           *)
LEMMA SwitchToShift ==
  ASSUME TypeInv, NEW w \in Workspaces, SwitchTo(w)
  PROVE  ClientShift
<1>0. srv \in Server
  BY DEF TypeInv, TypeOK
<1>1. /\ Shifts(srv, srv', IF w \in Workspaces \ {srv.current_workspace}
                             THEN Views ELSE {})
      /\ sw' = IF w = srv.current_workspace THEN sw ELSE Closed
  BY <1>0, WorkspaceSwitchShifts DEF SwitchTo
<1>2. CASE w = srv.current_workspace
  BY <1>1, <1>2, ShiftIsClientShift
<1>3. CASE w # srv.current_workspace
  BY <1>1, <1>3, ClosedLive DEF Shifts, ClientShift
<1>4. QED BY <1>2, <1>3

(* A window that leaves the workspace leaves the overlay in the same step. *)
LEMMA RemovedShift ==
  ASSUME TypeInv, NEW v \in Views, Shifts(srv, srv', {v}), sw' = ViewRemoved(sw, v)
  PROVE  ClientShift
  BY ViewRemovedLive DEF TypeInv, TypeOK, Shifts, ClientShift

(* Every handler of a client's or a panel's request.                       *)
LEMMA WindowShift ==
  ASSUME TypeInv, WindowNext
  PROVE  ClientShift
<1>0. srv \in Server
  BY DEF TypeInv, TypeOK
<1>1. PICK v \in Views :
         \/ Map(v) \/ Unmap(v) \/ Destroy(v) \/ RequestMinimize(v)
         \/ ActivationRequest(v)
         \/ ForeignActivate(v) \/ ForeignMinimize(v) \/ ForeignRestore(v)
         \/ ClickWindow(v) \/ ClickMinimizeButton(v) \/ ClickTaskButton(v)
  BY DEF WindowNext
<1>2. CASE Map(v)
  BY <1>0, <1>2, HandleMapShifts, ShiftIsClientShift DEF Map
<1>3. CASE Unmap(v)
  BY <1>0, <1>3, HandleUnmapShifts, RemovedShift DEF Unmap
<1>4. CASE Destroy(v)
  BY <1>0, <1>4, HandleDestroyShifts, ShiftIsClientShift DEF Destroy
<1>5. CASE RequestMinimize(v)
  BY <1>0, <1>5, MinimizeAndMoveOnRefocus, RefocusIsClientShift DEF RequestMinimize
<1>6. CASE ActivationRequest(v)
  <2>1. CASE ShowWorkspaceOf(v)
    BY <2>1, ShowWorkspaceOfShift
  <2>2. CASE /\ srv' = IF srv.focused_surface = v THEN srv
                       ELSE [srv EXCEPT !.urgent = @ \cup {v}]
             /\ UNCHANGED sw
    <3>1. Refocus(srv, srv')
      BY <1>0, <2>2 DEF Refocus, PlacesKept, LayerKept, Server
    <3>2. QED BY <2>2, <3>1, RefocusIsClientShift
  <2>3. QED BY <1>6, <2>1, <2>2 DEF ActivationRequest
<1>7. CASE ForeignActivate(v)
  BY <1>7, ShowWorkspaceOfShift DEF ForeignActivate
<1>8. CASE ForeignMinimize(v)
  BY <1>0, <1>8, MinimizeAndMoveOnRefocus, RefocusIsClientShift DEF ForeignMinimize
<1>9. CASE ForeignRestore(v)
  <2> DEFINE t == Minimize(srv, v, FALSE)
  <2>1. t \in Server /\ Refocus(srv, t)
    BY <1>0, MinimizeType, MinimizeRefocus
  <2>2. srv' = Focus(t, v) /\ sw' = sw
    BY <1>9 DEF ForeignRestore
  <2> HIDE DEF t
  <2>3. Refocus(t, Focus(t, v))
    BY <2>1, FocusRefocus
  <2>4. QED BY <2>1, <2>2, <2>3, RefocusTransitive, RefocusIsClientShift
<1>10. CASE ClickWindow(v)
  BY <1>0, <1>10, FocusRefocus, RefocusIsClientShift DEF ClickWindow
<1>11. CASE ClickMinimizeButton(v)
  <2> DEFINE t == Focus(srv, v)
  <2>1. t \in Server /\ Refocus(srv, t)
    BY <1>0, FocusType, FocusRefocus
  <2>2. srv' = MinimizeAndMoveOn(t, v) /\ sw' = sw
    BY <1>11 DEF ClickMinimizeButton
  <2> HIDE DEF t
  <2>3. Refocus(t, MinimizeAndMoveOn(t, v))
    BY <2>1, MinimizeAndMoveOnRefocus
  <2>4. QED BY <2>1, <2>2, <2>3, RefocusTransitive, RefocusIsClientShift
<1>12. CASE ClickTaskButton(v)
  <2>1. CASE v \in srv.pinned
    BY <1>0, <1>12, <2>1, FocusRefocus, RefocusIsClientShift DEF ClickTaskButton
  <2>2. CASE v \notin srv.pinned
    BY <1>12, <2>2, ShowWorkspaceOfShift DEF ClickTaskButton
  <2>3. QED BY <2>1, <2>2
<1>13. QED BY <1>1, <1>2, <1>3, <1>4, <1>5, <1>6, <1>7, <1>8, <1>9, <1>10, <1>11, <1>12

(* Every key, click and release of the user.                               *)
LEMMA UserShift ==
  ASSUME ListInv, UserNext
  PROVE  ClientShift
<1>0. TypeInv /\ srv \in Server /\ sw \in Overlay /\ Listed(srv)
  BY DEF ListInv, TypeInv, TypeOK, Consistent
<1>1. FocusedView # NoSurface => FocusedView \in Views
  BY DEF FocusedView
<1>2. ASSUME NEW w \in Workspaces, ClickWorkspaceButton(w) \/ ActionWorkspace(w)
      PROVE  ClientShift
  BY <1>0, <1>2, SwitchToShift DEF ClickWorkspaceButton, ActionWorkspace
<1>3. ASSUME NEW w \in Workspaces, ActionMoveToWorkspace(w)
      PROVE  ClientShift
  BY <1>0, <1>1, <1>3, MoveToWorkspaceShifts, RemovedShift DEF ActionMoveToWorkspace
<1>4. ASSUME NEW step \in {1, -1}, ActionCycle(step)
      PROVE  ClientShift
  BY <1>0, <1>4, CycleLive DEF ActionCycle, ClientShift, LayerKept
<1>5. CASE ActionMinimize
  BY <1>0, <1>1, <1>5, MinimizeAndMoveOnRefocus, RefocusIsClientShift
     DEF ActionMinimize
<1>6. CASE ActionPin
  BY <1>0, <1>1, <1>6, TogglePinShifts, ShiftIsClientShift DEF ActionPin
<1>7. CASE CommitSwitcher
  <2>1. Highlighted(sw) \in Views
    BY <1>0, <1>7, HighlightedType DEF CommitSwitcher, TypeInv
  <2>2. QED BY <1>0, <1>7, <2>1, FocusRefocus, RefocusIsClientShift DEF CommitSwitcher
<1>8. CASE CancelSwitcher
  BY <1>8, ClosedLive DEF CancelSwitcher, ClientShift, LayerKept
<1>9. QED BY <1>2, <1>3, <1>4, <1>5, <1>6, <1>7, <1>8 DEF UserNext

(* Layer surfaces, lockers and the seat move no window and open no overlay. *)
LEMMA OtherPlaces ==
  ASSUME TypeInv, LayerNext \/ LockNext \/ SeatNext
  PROVE  PlacesKept(srv, srv') /\ sw' \in {sw, Closed}
<1>0. srv \in Server /\ lock_surfaces \subseteq LockSurfaces
  BY DEF TypeInv, TypeOK
<1>1. \A ls \in LockSurfaces : PlacesKept(srv, EnterLockSurface(srv, ls))
  BY <1>0 DEF EnterLockSurface, PlacesKept, Server
<1>2. /\ PlacesKept(srv, srv)
      /\ PlacesKept(srv, [srv EXCEPT !.focused_surface = NoSurface])
      /\ PlacesKept(srv, [srv EXCEPT !.locked = TRUE, !.focused_surface = NoSurface])
      /\ PlacesKept(srv, [srv EXCEPT !.focused_surface =
                                       IF @ \in lock_surfaces THEN NoSurface ELSE @])
      /\ \A b \in BOOLEAN : PlacesKept(srv, [srv EXCEPT !.keyboard = b])
  BY <1>0 DEF PlacesKept, Server
<1>3. ASSUME NEW l \in Layers, LayerMap(l) \/ LayerUnmap(l)
      PROVE  PlacesKept(srv, srv') /\ sw' \in {sw, Closed}
  <2>1. PlacesKept(srv, FocusLayer(srv, l))
    BY <1>0 DEF FocusLayer, PlacesKept, Server
  <2>2. PlacesKept(srv, UnmapLayer(srv, l))
    <3> DEFINE t == [srv EXCEPT !.focused_layer = NoSurface]
    <3>1. t \in Server /\ PlacesKept(srv, t)
      BY <1>0 DEF PlacesKept, Server
    <3>2. UnmapLayer(srv, l) = IF srv.focused_layer = l THEN FocusNext(t, NoSurface)
                                                        ELSE srv
      BY DEF UnmapLayer
    <3> HIDE DEF t
    <3>3. PlacesKept(t, FocusNext(t, NoSurface))
      BY <3>1, FocusNextRefocus DEF Refocus
    <3>4. QED BY <1>2, <3>1, <3>2, <3>3 DEF PlacesKept
  <2>3. QED BY <1>3, <2>1, <2>2 DEF LayerMap, LayerUnmap
<1>4. CASE LockNext
  <2>1. CASE Unlock
    <3> DEFINE t == [srv EXCEPT !.locked = FALSE]
    <3>1. t \in Server /\ PlacesKept(srv, t)
      BY <1>0 DEF PlacesKept, Server
    <3>2. srv' = FocusNext(t, NoSurface) /\ sw' = sw
      BY <2>1 DEF Unlock
    <3> HIDE DEF t
    <3>3. PlacesKept(t, FocusNext(t, NoSurface))
      BY <3>1, FocusNextRefocus DEF Refocus
    <3>4. QED BY <3>1, <3>2, <3>3 DEF PlacesKept
  <2>2. ASSUME NEW ls \in LockSurfaces, LockSurfaceDestroyed(ls)
        PROVE  PlacesKept(srv, srv') /\ sw' \in {sw, Closed}
    <3>1. lock_surfaces' \subseteq LockSurfaces
      BY <1>0, <2>2 DEF LockSurfaceDestroyed
    <3>2. \A other \in lock_surfaces' : PlacesKept(srv, EnterLockSurface(srv, other))
      BY <1>1, <3>1
    <3>3. QED BY <1>2, <2>2, <3>2 DEF LockSurfaceDestroyed
  <2>3. ASSUME NEW ls \in LockSurfaces, NewLockSurface(ls)
        PROVE  PlacesKept(srv, srv') /\ sw' \in {sw, Closed}
    BY <1>1, <2>3 DEF NewLockSurface
  <2>4. CASE Lock
    BY <1>2, <2>4 DEF Lock
  <2>5. CASE LockerCrash
    BY <1>2, <2>5 DEF LockerCrash
  <2>6. CASE KeyWhileLocked
    BY <1>0, <1>1, <2>6 DEF KeyWhileLocked, lockVars
  <2>7. QED BY <1>4, <2>1, <2>2, <2>3, <2>4, <2>5, <2>6 DEF LockNext
<1>5. CASE SeatNext
  BY <1>2, <1>5 DEF SeatNext, KeyboardAttached, KeyboardGone, SurfaceGone
<1>6. QED BY <1>3, <1>4, <1>5 DEF LayerNext

(* Every step keeps the overlay's snapshot in agreement with the windows.  *)
LEMMA OverlayLiveStep ==
  ASSUME ListInv, OverlayLive(srv, sw), [Next]_vars
  PROVE  OverlayLive(srv', sw')
<1>1. ASSUME WindowNext \/ UserNext PROVE OverlayLive(srv', sw')
  BY <1>1, WindowShift, UserShift DEF ListInv, ClientShift
<1>2. ASSUME LayerNext \/ LockNext \/ SeatNext PROVE OverlayLive(srv', sw')
  <2>1. StaysHere(srv, srv', {}) /\ sw' \in {sw, Closed}
    BY <1>2, OtherPlaces DEF ListInv, PlacesKept, StaysHere
  <2>2. QED BY <2>1, StaysLive, ClosedLive
<1>3. ASSUME UNCHANGED vars PROVE OverlayLive(srv', sw')
  BY <1>3 DEF vars
<1>4. QED BY <1>1, <1>2, <1>3 DEF Next

(* While the overlay is up its snapshot has no window twice and holds only *)
(* windows that are still mapped on the current workspace, and the         *)
(* highlight is in it: a commit never focuses a window that left.          *)
THEOREM SwitcherStaysLive == Spec => []SwitcherLive
<1> DEFINE Inv == ListInv /\ OverlayLive(srv, sw)
<1>1. Init => Inv
  BY ListInit, ClosedLive DEF Init
<1>2. ASSUME Inv, [Next]_vars
      PROVE  Inv'
  BY <1>2, DesktopKeeps, OverlayLiveStep
<1>3. ASSUME Inv PROVE SwitcherLive
  BY <1>3 DEF ListInv, TypeInv, HighlightInRange, OverlayLive, LinkedOnce, SwitcherLive
<1>4. QED BY <1>1, <1>2, <1>3, PTL DEF Spec

(* A locked session keeps its lock until an unlock, and only the first     *)
(* Alt+Tab, which a bind of the lid could send, opens an overlay.          *)
LEMMA OverlayStep ==
  ASSUME TypeInv, Next, SwitchBinds = FALSE, LockStopsSwitcher
  PROVE  LockStopsSwitcher'
<1>0. srv \in Server /\ sw \in Overlay
  BY DEF TypeInv, TypeOK
<1>1. \A v : ViewRemoved(sw, v).open => sw.open
  BY <1>0 DEF ViewRemoved, Closed, Overlay
<1>2. CASE WindowNext
  <2>1. srv'.locked = srv.locked
    BY <1>2, WindowStep DEF ClientStep, SeatStep
  <2>2. PICK v \in Views :
           \/ Map(v) \/ Unmap(v) \/ Destroy(v) \/ RequestMinimize(v)
           \/ ActivationRequest(v)
           \/ ForeignActivate(v) \/ ForeignMinimize(v) \/ ForeignRestore(v)
           \/ ClickWindow(v) \/ ClickMinimizeButton(v) \/ ClickTaskButton(v)
    BY <1>2 DEF WindowNext
  <2>3. ShowWorkspaceOf(v) => sw' \in {sw, Closed}
    BY DEF ShowWorkspaceOf
  <2>4. sw' \in {sw, Closed, ViewRemoved(sw, v)}
    BY <2>2, <2>3 DEF Map, Unmap, Destroy, RequestMinimize,
       ActivationRequest, ForeignActivate, ForeignMinimize, ForeignRestore,
       ClickWindow, ClickMinimizeButton, ClickTaskButton
  <2>5. sw'.open => sw.open
    BY <1>1, <2>4 DEF Closed
  <2>6. QED BY <2>1, <2>5 DEF LockStopsSwitcher
<1>3. CASE UserNext
  <2>1. srv'.locked = srv.locked
    BY <1>3, UserStep DEF ClientStep, SeatStep
  <2>2. (sw'.open => sw.open) \/ ~srv.locked
    BY <1>1, <1>3 DEF UserNext, ClickWorkspaceButton, ActionWorkspace, SwitchTo,
       ActionMoveToWorkspace, ActionCycle, MayDispatch, ActionMinimize, ActionPin,
       CommitSwitcher, CancelSwitcher, Closed
  <2>3. QED BY <2>1, <2>2 DEF LockStopsSwitcher
<1>4. CASE LayerNext \/ LockNext \/ SeatNext
  <2>1. sw' \in {sw, Closed} /\ ~Closed.open
    BY <1>4, OtherPlaces DEF Closed
  <2>2. Lock => sw' = Closed
    BY DEF Lock
  <2>3. ~Lock /\ srv'.locked => srv.locked
    <3>1. ASSUME NEW l \in Layers, LayerMap(l) \/ LayerUnmap(l)
          PROVE  srv'.locked = srv.locked
      BY <1>0, <3>1, UnmapLayerSeat DEF LayerMap, LayerUnmap, FocusLayer, SeatStep, Server
    <3>2. ASSUME NEW ls \in LockSurfaces, NewLockSurface(ls) \/ LockSurfaceDestroyed(ls)
          PROVE  srv'.locked = srv.locked
      BY <1>0, <3>2 DEF NewLockSurface, LockSurfaceDestroyed, EnterLockSurface, Server
    <3>3. CASE Unlock
      BY <1>0, <3>3 DEF Unlock
    <3>4. CASE LockerCrash \/ KeyWhileLocked
      BY <3>4 DEF LockerCrash, KeyWhileLocked
    <3>5. CASE SeatNext
      BY <1>0, <3>5 DEF SeatNext, KeyboardAttached, KeyboardGone, SurfaceGone, Server
    <3>6. QED BY <1>4, <3>1, <3>2, <3>3, <3>4, <3>5 DEF LayerNext, LockNext
  <2>4. QED BY <2>1, <2>2, <2>3 DEF LockStopsSwitcher
<1>5. QED BY <1>2, <1>3, <1>4 DEF Next

(* Nobody finds an overlay over a locked session, unless a switch bind is  *)
(* configured: those are dispatched in a locked session too.               *)
THEOREM LockStopsSwitcherHolds ==
  ASSUME SwitchBinds = FALSE
  PROVE  Spec => []LockStopsSwitcher
<1> DEFINE Inv == ListInv /\ LockStopsSwitcher
<1>1. Init => Inv
  <2>1. Closed.open = FALSE
    BY DEF Closed
  <2>2. Init => LockStopsSwitcher
    BY <2>1 DEF Init, LockStopsSwitcher
  <2>3. QED BY <2>2, ListInit
<1>2. ASSUME Inv, [Next]_vars
      PROVE  Inv'
  <2>1. ASSUME Next PROVE LockStopsSwitcher'
    BY <1>2, <2>1, OverlayStep DEF ListInv
  <2>2. ASSUME UNCHANGED vars PROVE LockStopsSwitcher'
    BY <1>2, <2>2 DEF vars, LockStopsSwitcher
  <2>3. QED BY <1>2, <2>1, <2>2, DesktopKeeps
<1>3. QED BY <1>1, <1>2, PTL DEF Spec

-----------------------------------------------------------------------------

(* The record of server::focused_layer and the keyboard agree.             *)
LayerTracked(s) ==
  s.keyboard /\ (s.focused_surface \in Layers => s.focused_layer = s.focused_surface)

(* In an unlocked session a mapped window that is focused gets the         *)
(* keyboard.                                                               *)
LEMMA FocusTakes ==
  ASSUME NEW s \in Server, s.keyboard, ~s.locked, NEW v \in Views, v \in s.mapped
  PROVE  Focus(s, v).focused_surface = v
<1> DEFINE r == Restore(s, v)
<1>1. r \in Server /\ SeatKept(s, r)
  BY RestoreType, RestoreSeat
<1>2. Focus(s, v) = IF s.focused_surface = v THEN r ELSE Activate(r, v)
  BY DEF Focus
<1> HIDE DEF r
<1>3. Activate(r, v).focused_surface = v
  BY <1>1 DEF Activate, SeatKept, Server
<1>4. QED BY <1>1, <1>2, <1>3 DEF SeatKept

(* In an unlocked session focus_next ends on a window or on nothing.       *)
LEMMA FocusNextEndsOnWindow ==
  ASSUME NEW s \in Server, s.keyboard, ~s.locked, NEW skip
  PROVE  FocusNext(s, skip).focused_surface \in Views \cup {NoSurface}
<1>1. CASE Candidates(s, skip) # {}
  <2> DEFINE u == s.views[Min(Candidates(s, skip))]
  <2>1. u \in Views /\ u \in s.mapped
    BY <1>1, TopmostIsCandidate DEF Candidates
  <2>2. FocusNext(s, skip) = Focus(s, u)
    BY <1>1 DEF FocusNext, FocusTopmost
  <2> HIDE DEF u
  <2>3. QED BY <2>1, <2>2, FocusTakes
<1>2. CASE Candidates(s, skip) = {}
  BY <1>2 DEF FocusNext, FocusTopmost, Server
<1>3. QED BY <1>1, <1>2

(* layer_surface::focus and on_unmap, with the list of mapped ones.        *)
LEMMA LayerStepTracked ==
  ASSUME LockInv, LayerTracked(srv), LayerFocusTracked, LayerNext
  PROVE  LayerTracked(srv') /\ LayerFocusTracked'
<1>0. srv \in Server /\ (srv.locked => srv.focused_surface \notin Layers)
  BY WindowsAssumption DEF LockInv, TypeInv, TypeOK, LockedFocus
<1>1. ASSUME NEW l \in Layers, LayerMap(l)
      PROVE  LayerTracked(srv') /\ LayerFocusTracked'
  BY <1>0, <1>1 DEF LayerMap, FocusLayer, LayerTracked, LayerFocusTracked, Server
<1>2. ASSUME NEW l \in Layers, LayerUnmap(l)
      PROVE  LayerTracked(srv') /\ LayerFocusTracked'
  <2>1. CASE srv.focused_layer # l
    BY <1>2, <2>1 DEF LayerUnmap, UnmapLayer, LayerTracked, LayerFocusTracked
  <2>2. CASE srv.focused_layer = l
    <3> DEFINE t == [srv EXCEPT !.focused_layer = NoSurface]
    <3>1. /\ t \in Server /\ t.keyboard /\ t.locked = srv.locked
          /\ t.focused_surface = srv.focused_surface /\ t.focused_layer = NoSurface
      BY <1>0 DEF LayerTracked, Server
    <3>2. srv' = FocusNext(t, NoSurface)
      BY <1>2, <2>2 DEF LayerUnmap, UnmapLayer
    <3> HIDE DEF t
    <3>3. Refocus(t, srv')
      BY <3>1, <3>2, FocusNextRefocus
    <3>4. srv'.keyboard /\ srv'.focused_layer = NoSurface
      BY <3>1, <3>3 DEF Refocus, LayerKept
    <3>5. srv'.focused_surface \notin Layers
      BY <1>0, <3>1, <3>2, FocusNextEndsOnWindow, WindowsAssumption DEF FocusNext
    <3>6. QED BY <3>4, <3>5 DEF LayerTracked, LayerFocusTracked
  <2>3. QED BY <2>1, <2>2
<1>3. QED BY <1>1, <1>2 DEF LayerNext

(* Lockers and the seat give no layer surface the keyboard.                *)
LEMMA LockStepTracked ==
  ASSUME LockInv, LayerTracked(srv), LayerFocusTracked, LockNext \/ SeatNext,
         HotPlug = FALSE
  PROVE  LayerTracked(srv') /\ LayerFocusTracked'
<1>0. srv \in Server /\ lock_surfaces \subseteq LockSurfaces
  BY DEF LockInv, TypeInv, TypeOK
<1>1. SUFFICES /\ srv'.keyboard /\ layers' = layers
               /\ LayerKept(srv, srv')
  BY DEF LayerTracked, LayerFocusTracked, LayerKept
<1>2. /\ LayerKept(srv, srv)
      /\ \A s : /\ s.focused_surface \notin Layers
                /\ s.focused_layer = srv.focused_layer
                => LayerKept(srv, s)
  BY DEF LayerKept
<1>3. \A ls \in LockSurfaces :
        LET e == EnterLockSurface(srv, ls)
        IN  e.keyboard = srv.keyboard /\ LayerKept(srv, e)
  BY <1>0, WindowsAssumption DEF EnterLockSurface, LayerKept, Server
<1>4. LET n == [srv EXCEPT !.focused_surface = NoSurface]
          k == [srv EXCEPT !.locked = TRUE, !.focused_surface = NoSurface]
          c == [srv EXCEPT !.focused_surface =
                             IF @ \in lock_surfaces THEN NoSurface ELSE @]
      IN  /\ n.keyboard = srv.keyboard /\ LayerKept(srv, n)
          /\ k.keyboard = srv.keyboard /\ LayerKept(srv, k)
          /\ c.keyboard = srv.keyboard /\ LayerKept(srv, c)
  BY <1>0, WindowsAssumption DEF LayerKept, Server
<1>5. srv.keyboard
  BY DEF LayerTracked
<1>6. ASSUME NEW ls \in LockSurfaces, NewLockSurface(ls)
      PROVE  srv'.keyboard /\ layers' = layers /\ LayerKept(srv, srv')
  BY <1>3, <1>5, <1>6 DEF NewLockSurface
<1>7. ASSUME NEW ls \in LockSurfaces, LockSurfaceDestroyed(ls)
      PROVE  srv'.keyboard /\ layers' = layers /\ LayerKept(srv, srv')
  <2>1. lock_surfaces' \subseteq LockSurfaces /\ layers' = layers
    BY <1>0, <1>7 DEF LockSurfaceDestroyed
  <2>2. \/ srv' = srv
        \/ \E other \in LockSurfaces : srv' = EnterLockSurface(srv, other)
        \/ srv' = [srv EXCEPT !.focused_surface = NoSurface]
    BY <1>7, <2>1 DEF LockSurfaceDestroyed
  <2>3. QED BY <1>2, <1>3, <1>4, <1>5, <2>1, <2>2
<1>8. CASE Lock
  BY <1>4, <1>5, <1>8 DEF Lock
<1>9. CASE Unlock
  <2> DEFINE t == [srv EXCEPT !.locked = FALSE]
  <2>1. /\ t \in Server /\ t.keyboard = srv.keyboard
        /\ t.focused_surface = srv.focused_surface
        /\ t.focused_layer = srv.focused_layer
    BY <1>0 DEF Server
  <2>2. srv' = FocusNext(t, NoSurface) /\ layers' = layers
    BY <1>9 DEF Unlock
  <2> HIDE DEF t
  <2>3. Refocus(t, srv')
    BY <2>1, <2>2, FocusNextRefocus
  <2>4. QED BY <1>5, <2>1, <2>2, <2>3 DEF Refocus, LayerKept
<1>10. CASE LockerCrash
  BY <1>4, <1>5, <1>10 DEF LockerCrash
<1>11. CASE KeyWhileLocked
  BY <1>0, <1>3, <1>5, <1>11 DEF KeyWhileLocked
<1>12. CASE SeatNext
  BY <1>4, <1>5, <1>12 DEF SeatNext, KeyboardAttached, KeyboardGone, SurfaceGone
<1>13. QED BY <1>6, <1>7, <1>8, <1>9, <1>10, <1>11, <1>12 DEF LockNext

(* Every step keeps the record and the keyboard in agreement.              *)
LEMMA TrackedStep ==
  ASSUME LockInv, ListInv, LayerTracked(srv), LayerFocusTracked, [Next]_vars,
         HotPlug = FALSE
  PROVE  LayerTracked(srv') /\ LayerFocusTracked'
<1>1. ASSUME WindowNext \/ UserNext
      PROVE  LayerTracked(srv') /\ LayerFocusTracked'
  <2>1. ClientShift /\ layers' = layers
    BY <1>1, WindowShift, UserShift, WindowStep, UserStep DEF ListInv, ClientStep
  <2>2. QED BY <2>1 DEF ClientShift, LayerKept, LayerTracked, LayerFocusTracked
<1>2. ASSUME UNCHANGED vars
      PROVE  LayerTracked(srv') /\ LayerFocusTracked'
  BY <1>2 DEF vars, LayerTracked, LayerFocusTracked
<1>3. QED BY <1>1, <1>2, LayerStepTracked, LockStepTracked DEF Next

(* The desktop starts with a keyboard that nothing has.                    *)
LEMMA TrackedInit ==
  ASSUME Init, HotPlug = FALSE
  PROVE  /\ LayerTracked(srv) /\ LayerFocusTracked
         /\ srv.focused_surface = NoSurface
<1>1. srv = InitServer(TRUE)
  BY DEF Init
<1>2. QED BY <1>1, WindowsAssumption DEF InitServer, LayerTracked, LayerFocusTracked

(* server::focused_layer never dangles, and a layer surface that has the   *)
(* keyboard is recorded there, while the seat has a keyboard: without one  *)
(* view::focus clears the record and leaves the focus where it was.        *)
THEOREM LayerFocusStaysTracked ==
  ASSUME HotPlug = FALSE
  PROVE  Spec => []LayerFocusTracked
<1> DEFINE Inv == LockInv /\ ListInv /\ LayerTracked(srv) /\ LayerFocusTracked
<1>1. Init => Inv
  BY TrackedInit, LockInit, ListInit
<1>2. ASSUME Inv, [Next]_vars
      PROVE  Inv'
  BY <1>2, LockStep, DesktopKeeps, TrackedStep
<1>3. QED BY <1>1, <1>2, PTL DEF Spec

-----------------------------------------------------------------------------

(* No window but skip could take the keyboard.                             *)
Bare(s, skip) == \A v \in s.mapped \ {skip} : ~Visible(s, v)

(* The keyboard is dropped only where nothing is left to take it.          *)
HandsOver(s, t) ==
  s.focused_surface # NoSurface /\ t.focused_surface = NoSurface
    => Bare(t, s.focused_surface)

(* view::focus never drops the keyboard.                                   *)
LEMMA FocusHandsOver ==
  ASSUME NEW s \in Server, s.keyboard, ~s.locked, NEW v \in Views,
         NEW r, r.focused_surface = s.focused_surface
  PROVE  HandsOver(r, Focus(s, v))
<1>1. CASE v \in s.mapped
  BY <1>1, FocusTakes, WindowsAssumption DEF HandsOver
<1>2. CASE v \notin s.mapped
  BY <1>2 DEF Focus, HandsOver
<1>3. QED BY <1>1, <1>2

(* focus_next drops it, in an unlocked session, only if no window but skip *)
(* is on the screen.                                                       *)
LEMMA FocusTopmostBare ==
  ASSUME NEW s \in Server, Listed(s), s.keyboard, ~s.locked, NEW skip,
         FocusTopmost(s, skip).focused_surface = NoSurface
  PROVE  /\ FocusTopmost(s, skip) = [s EXCEPT !.focused_surface = NoSurface]
         /\ Bare(FocusTopmost(s, skip), skip)
<1> DEFINE t == FocusTopmost(s, skip)
<1>1. Candidates(s, skip) = {}
  <2> SUFFICES ASSUME Candidates(s, skip) # {} PROVE FALSE
    OBVIOUS
  <2> DEFINE u == s.views[Min(Candidates(s, skip))]
  <2>1. u \in Views /\ u \in s.mapped
    BY TopmostIsCandidate DEF Candidates
  <2>2. t = Focus(s, u)
    BY DEF FocusTopmost
  <2> HIDE DEF t, u
  <2>3. t.focused_surface = u
    BY <2>1, <2>2, FocusTakes
  <2>4. QED BY <2>1, <2>3, WindowsAssumption DEF t
<1>2. t = [s EXCEPT !.focused_surface = NoSurface]
  BY <1>1 DEF FocusTopmost
<1>3. /\ t.mapped = s.mapped /\ t.minimized = s.minimized /\ t.pinned = s.pinned
      /\ t.workspace = s.workspace /\ t.current_workspace = s.current_workspace
  BY <1>2 DEF Server
<1>4. s.mapped \subseteq Views
  BY DEF Server
<1>5. \A v \in s.mapped \ {skip} : ~Visible(s, v)
  BY <1>1, <1>4 DEF Candidates, Listed, LinkedOnce
<1>6. QED BY <1>2, <1>3, <1>5 DEF Bare, Visible

(* The same with no window left out.                                       *)
LEMMA FocusTopmostHandsOver ==
  ASSUME NEW s \in Server, Listed(s), s.keyboard, ~s.locked, NEW r
  PROVE  HandsOver(r, FocusTopmost(s, NoSurface))
<1> DEFINE t == FocusTopmost(s, NoSurface)
<1>1. t.focused_surface = NoSurface => Bare(t, NoSurface)
  BY FocusTopmostBare
<1>2. NoSurface \notin t.mapped
  BY FocusTopmostType, WindowsAssumption DEF Server
<1> HIDE DEF t
<1>3. HandsOver(r, t)
  BY <1>1, <1>2 DEF HandsOver, Bare
<1>4. QED BY <1>3 DEF t

(* The same of a window that is gone or hidden by then.                    *)
LEMMA FocusNextBare ==
  ASSUME NEW s \in Server, Listed(s), s.keyboard, ~s.locked, NEW v,
         v \notin s.mapped \/ v \in s.minimized,
         FocusNext(s, v).focused_surface = NoSurface, NEW x
  PROVE  Bare(FocusNext(s, v), x)
<1>1. FocusNext(s, v) = FocusTopmost(s, v)
  BY DEF FocusNext
<1>2. /\ FocusNext(s, v) = [s EXCEPT !.focused_surface = NoSurface]
      /\ Bare(FocusNext(s, v), v)
  BY <1>1, FocusTopmostBare
<1>3. /\ FocusNext(s, v).mapped = s.mapped
      /\ FocusNext(s, v).minimized = s.minimized
  BY <1>2 DEF Server
<1>4. QED BY <1>2, <1>3 DEF Bare, Visible

(* A minimize that is followed by focus_next.                              *)
LEMMA MinimizeAndMoveOnHandsOver ==
  ASSUME NEW s \in Server, Consistent(s), s.keyboard, ~s.locked, NEW v \in Views,
         NEW r
  PROVE  HandsOver(r, MinimizeAndMoveOn(s, v))
<1> DEFINE t == Minimize(s, v, TRUE)
<1>1. t \in Server /\ Consistent(t) /\ SeatKept(s, t)
  BY MinimizeType, MinimizeConsistent, MinimizeSeat
<1>2. v \in t.minimized
  BY DEF Minimize, UpdateVisibility, Server
<1>3. MinimizeAndMoveOn(s, v) = FocusNext(t, v)
  BY DEF MinimizeAndMoveOn
<1> HIDE DEF t
<1>4. FocusNext(t, v).focused_surface = NoSurface
        => Bare(FocusNext(t, v), r.focused_surface)
  BY <1>1, <1>2, FocusNextBare DEF Consistent, SeatKept
<1>5. QED BY <1>3, <1>4 DEF HandsOver

(* view::handle_unmap, which clears the focus before it looks for another  *)
(* window.                                                                 *)
LEMMA HandleUnmapHandsOver ==
  ASSUME NEW s \in Server, Consistent(s), s.keyboard, ~s.locked, NEW v \in Views
  PROVE  HandsOver(s, HandleUnmap(s, v))
<1> DEFINE t == [s EXCEPT !.focused_surface = IF @ = v THEN NoSurface ELSE @,
                          !.activated = @ \ {v},
                          !.mapped = @ \ {v},
                          !.views = RemoveFirst(@, v),
                          !.shown = @ \ {v}]
<1>1. s.views \in Seq(Views) /\ RemoveFirst(s.views, v) \in Seq(Views)
  BY RemoveFirstProperties DEF Server
<1>2. t \in Server
  BY <1>1 DEF Server, Surfaces
<1>3. HandleUnmap(s, v) = FocusNext(t, v)
  BY DEF HandleUnmap
<1>4. /\ t.mapped = s.mapped \ {v} /\ t.views = RemoveFirst(s.views, v)
      /\ t.keyboard = s.keyboard /\ t.locked = s.locked
  BY DEF Server
<1> HIDE DEF t
<1>5. Listed(t)
  BY <1>1, <1>4, RemoveUnlinks DEF Consistent, Listed
<1>6. FocusNext(t, v).focused_surface = NoSurface
        => Bare(FocusNext(t, v), s.focused_surface)
  BY <1>2, <1>4, <1>5, FocusNextBare
<1>7. QED BY <1>3, <1>6 DEF HandsOver

(* view::move_to_workspace of the window that has the keyboard.            *)
LEMMA MoveToWorkspaceHandsOver ==
  ASSUME NEW s \in Server, Consistent(s), s.keyboard, ~s.locked,
         NEW v \in Views, s.focused_surface = v, NEW w \in Workspaces
  PROVE  HandsOver(s, MoveToWorkspace(s, v, w))
<1> DEFINE t == [s EXCEPT !.pinned = @ \ {v},
                          !.workspace[v] = w,
                          !.max_visible_workspace = IF w > @ THEN w ELSE @]
           u == UpdateVisibility(t, v)
<1>1. t \in Server
  BY DEF Server
<1>2. u \in Server
  BY <1>1, UpdateVisibilityType
<1>3. MoveToWorkspace(s, v, w) = FocusNext(u, v)
  BY DEF MoveToWorkspace
<1>4. /\ t.mapped = s.mapped /\ t.views = s.views
      /\ t.keyboard = s.keyboard /\ t.locked = s.locked
  BY DEF Server
<1> HIDE DEF t
<1>5. /\ u.mapped = s.mapped /\ u.views = s.views
      /\ u.keyboard = s.keyboard /\ u.locked = s.locked
  BY <1>1, <1>4 DEF UpdateVisibility, Server
<1> HIDE DEF u
<1>6. Listed(u)
  BY <1>5 DEF Consistent, Listed
<1>7. FocusNext(u, v) = FocusTopmost(u, v)
  BY <1>5 DEF FocusNext
<1>8. FocusNext(u, v).focused_surface = NoSurface => Bare(FocusNext(u, v), v)
  BY <1>2, <1>5, <1>6, <1>7, FocusTopmostBare
<1>9. QED BY <1>3, <1>8 DEF HandsOver

(* view::workspace_switch.                                                 *)
LEMMA WorkspaceSwitchHandsOver ==
  ASSUME NEW s \in Server, Consistent(s), s.keyboard, ~s.locked, NEW w
  PROVE  HandsOver(s, WorkspaceSwitch(s, w))
<1>1. CASE w \notin Workspaces \/ w = s.current_workspace
  BY <1>1 DEF WorkspaceSwitch, HandsOver
<1>2. CASE w \in Workspaces /\ w # s.current_workspace
  <2> DEFINE t == ShowWorkspace(s, w)
  <2>1. t \in Server
    BY <1>2, ShowWorkspaceType
  <2>2. /\ t.mapped = s.mapped /\ t.views = s.views
        /\ t.keyboard = s.keyboard /\ t.locked = s.locked
    BY DEF ShowWorkspace, Server
  <2>3. WorkspaceSwitch(s, w) = FocusTopmost(t, NoSurface)
    BY <1>2 DEF WorkspaceSwitch
  <2>4. Listed(t)
    BY <2>2 DEF Consistent, Listed
  <2> HIDE DEF t
  <2>5. QED BY <2>1, <2>2, <2>3, <2>4, FocusTopmostHandsOver
<1>3. QED BY <1>1, <1>2

(* To the workspace of a mapped window, which takes the keyboard there.    *)
LEMMA ShowWorkspaceOfHandsOver ==
  ASSUME TypeInv, srv.keyboard, ~srv.locked,
         NEW v \in Views, v \in srv.mapped, ShowWorkspaceOf(v)
  PROVE  HandsOver(srv, srv')
<1> DEFINE t == WorkspaceSwitch(srv, srv.workspace[v])
<1>0. srv \in Server
  BY DEF TypeInv, TypeOK
<1>1. t \in Server /\ SeatStep(srv, t)
  BY <1>0, WorkspaceSwitchType, WorkspaceSwitchSeat
<1>2. t.mapped = srv.mapped
  <2>1. ShowWorkspace(srv, srv.workspace[v]).mapped = srv.mapped
    BY <1>0 DEF ShowWorkspace, Server
  <2>2. srv.workspace[v] \in Workspaces
    BY <1>0 DEF Server
  <2>3. ShowWorkspace(srv, srv.workspace[v]) \in Server
    BY <1>0, <2>2, ShowWorkspaceType
  <2>4. QED BY <2>1, <2>3, FocusNextRefocus DEF WorkspaceSwitch, Refocus, PlacesKept
<1>3. srv' = Focus(t, v)
  BY DEF ShowWorkspaceOf
<1> HIDE DEF t
<1>4. srv'.focused_surface = v
  BY <1>1, <1>2, <1>3, FocusTakes DEF SeatStep
<1>5. QED BY <1>4, WindowsAssumption DEF HandsOver

(* Every request of a client or panel and every click on a window.         *)
LEMMA WindowHandsOver ==
  ASSUME ListInv, srv.keyboard, ~srv.locked, WindowNext
  PROVE  HandsOver(srv, srv')
<1>0. srv \in Server /\ TypeInv /\ Consistent(srv)
  BY DEF ListInv, TypeInv, TypeOK
<1>1. srv'.focused_surface = srv.focused_surface => HandsOver(srv, srv')
  BY DEF HandsOver
<1>2. PICK v \in Views :
         \/ Map(v) \/ Unmap(v) \/ Destroy(v) \/ RequestMinimize(v)
         \/ ActivationRequest(v)
         \/ ForeignActivate(v) \/ ForeignMinimize(v) \/ ForeignRestore(v)
         \/ ClickWindow(v) \/ ClickMinimizeButton(v) \/ ClickTaskButton(v)
  BY DEF WindowNext
<1>3. HandsOver(srv, Focus(srv, v)) /\ HandsOver(srv, MinimizeAndMoveOn(srv, v))
  BY <1>0, FocusHandsOver, MinimizeAndMoveOnHandsOver
<1>4. CASE Map(v)
  <2> DEFINE t == [srv EXCEPT !.mapped = @ \cup {v},
                              !.workspace[v] = srv.current_workspace,
                              !.views = <<v>> \o @]
             u == UpdateVisibility(t, v)
  <2>1. srv.views \in Seq(Views) /\ <<v>> \o srv.views \in Seq(Views)
    BY <1>0, ToFront DEF Server
  <2>2. /\ t \in Server /\ t.keyboard = srv.keyboard /\ t.locked = srv.locked
        /\ t.focused_surface = srv.focused_surface
    BY <1>0, <2>1 DEF Server
  <2>3. srv' = Focus(u, v)
    BY <1>4 DEF Map, HandleMap
  <2> HIDE DEF t
  <2>4. /\ u \in Server /\ u.keyboard = srv.keyboard /\ u.locked = srv.locked
        /\ u.focused_surface = srv.focused_surface
    BY <2>2, UpdateVisibilityType DEF UpdateVisibility, Server
  <2> HIDE DEF u
  <2>5. QED BY <2>3, <2>4, FocusHandsOver
<1>5. CASE Unmap(v)
  BY <1>0, <1>5, HandleUnmapHandsOver DEF Unmap
<1>6. CASE Destroy(v)
  BY <1>0, <1>1, <1>6 DEF Destroy, HandleDestroy, Server
<1>7. CASE RequestMinimize(v) \/ ForeignMinimize(v)
  BY <1>3, <1>7 DEF RequestMinimize, ForeignMinimize
<1>8. CASE ActivationRequest(v)
  <2>1. v \in srv.mapped
    BY <1>8 DEF ActivationRequest
  <2>2. CASE ShowWorkspaceOf(v)
    BY <1>0, <2>1, <2>2, ShowWorkspaceOfHandsOver
  <2>3. CASE srv' = IF srv.focused_surface = v THEN srv
                    ELSE [srv EXCEPT !.urgent = @ \cup {v}]
    BY <1>0, <1>1, <2>3 DEF Server
  <2>4. QED BY <1>8, <2>2, <2>3 DEF ActivationRequest
<1>9. CASE ForeignActivate(v)
  BY <1>0, <1>9, ShowWorkspaceOfHandsOver DEF ForeignActivate
<1>10. CASE ForeignRestore(v)
  <2> DEFINE t == Minimize(srv, v, FALSE)
  <2>1. t \in Server /\ SeatKept(srv, t)
    BY <1>0, MinimizeType, MinimizeSeat
  <2>2. srv' = Focus(t, v)
    BY <1>10 DEF ForeignRestore
  <2> HIDE DEF t
  <2>3. QED BY <2>1, <2>2, FocusHandsOver DEF SeatKept
<1>11. CASE ClickWindow(v)
  BY <1>3, <1>11 DEF ClickWindow
<1>12. CASE ClickMinimizeButton(v)
  <2> DEFINE t == Focus(srv, v)
  <2>1. t \in Server /\ Consistent(t) /\ SeatStep(srv, t)
    BY <1>0, FocusType, FocusConsistent, FocusSeat
  <2>2. srv' = MinimizeAndMoveOn(t, v)
    BY <1>12 DEF ClickMinimizeButton
  <2> HIDE DEF t
  <2>3. QED BY <2>1, <2>2, MinimizeAndMoveOnHandsOver DEF SeatStep
<1>13. CASE ClickTaskButton(v)
  <2>1. CASE v \in srv.pinned
    BY <1>3, <1>13, <2>1 DEF ClickTaskButton
  <2>2. CASE v \notin srv.pinned
    BY <1>0, <1>13, <2>2, ShowWorkspaceOfHandsOver DEF ClickTaskButton
  <2>3. QED BY <2>1, <2>2
<1>14. QED BY <1>2, <1>4, <1>5, <1>6, <1>7, <1>8, <1>9, <1>10, <1>11, <1>12, <1>13

(* Every bound action, the overlay and the workspace buttons.              *)
LEMMA UserHandsOver ==
  ASSUME ListInv, srv.keyboard, ~srv.locked, UserNext
  PROVE  HandsOver(srv, srv')
<1>0. srv \in Server /\ sw \in Overlay /\ Consistent(srv)
  BY DEF ListInv, TypeInv, TypeOK
<1>1. FocusedView # NoSurface => FocusedView \in Views /\ srv.focused_surface = FocusedView
  BY DEF FocusedView
<1>2. srv'.focused_surface = srv.focused_surface => HandsOver(srv, srv')
  BY DEF HandsOver
<1>3. ASSUME NEW w \in Workspaces, ClickWorkspaceButton(w) \/ ActionWorkspace(w)
      PROVE  HandsOver(srv, srv')
  BY <1>0, <1>3, WorkspaceSwitchHandsOver
     DEF ClickWorkspaceButton, ActionWorkspace, SwitchTo
<1>4. ASSUME NEW w \in Workspaces, ActionMoveToWorkspace(w)
      PROVE  HandsOver(srv, srv')
  BY <1>0, <1>1, <1>4, MoveToWorkspaceHandsOver DEF ActionMoveToWorkspace
<1>5. ASSUME NEW step \in {1, -1}, ActionCycle(step)
      PROVE  HandsOver(srv, srv')
  BY <1>2, <1>5 DEF ActionCycle
<1>6. CASE ActionMinimize
  BY <1>0, <1>1, <1>6, MinimizeAndMoveOnHandsOver DEF ActionMinimize
<1>7. CASE ActionPin
  BY <1>0, <1>2, <1>7 DEF ActionPin, TogglePin, Server
<1>8. CASE CommitSwitcher
  <2>1. Highlighted(sw) \in Views
    BY <1>8, HighlightedType DEF CommitSwitcher, ListInv, TypeInv, TypeOK
  <2>2. QED BY <1>0, <1>8, <2>1, FocusHandsOver DEF CommitSwitcher
<1>9. CASE CancelSwitcher
  BY <1>2, <1>9 DEF CancelSwitcher
<1>10. QED BY <1>3, <1>4, <1>5, <1>6, <1>7, <1>8, <1>9 DEF UserNext

(* The surface that has the keyboard is alive: a layer surface is recorded *)
(* and mapped, and no lock surface has it in an unlocked session.          *)
OwnerLives ==
  /\ LayerTracked(srv) /\ LayerFocusTracked
  /\ ~srv.locked => srv.focused_surface \notin LockSurfaces

(* The end of a layer surface, an unlock, and whatever else the locker and *)
(* the seat do.                                                            *)
LEMMA OtherHandsOver ==
  ASSUME LockInv, ListInv, OwnerLives, HotPlug = FALSE,
         LayerNext \/ LockNext \/ SeatNext
  PROVE  srv'.locked \/ HandsOver(srv, srv')
<1>0. srv \in Server /\ Consistent(srv) /\ srv.keyboard
  BY DEF ListInv, TypeInv, TypeOK, OwnerLives, LayerTracked
<1>1. srv'.focused_surface = srv.focused_surface => HandsOver(srv, srv')
  BY DEF HandsOver
<1>2. ASSUME NEW l \in Layers, LayerMap(l)
      PROVE  HandsOver(srv, srv')
  <2>1. l # NoSurface
    BY WindowsAssumption
  <2>2. srv'.focused_surface \in {srv.focused_surface, l}
    BY <1>0, <1>2 DEF LayerMap, FocusLayer, Server
  <2>3. QED BY <2>1, <2>2 DEF HandsOver
<1>3. ASSUME NEW l \in Layers, LayerUnmap(l), ~srv.locked
      PROVE  HandsOver(srv, srv')
  <2>1. CASE srv.focused_layer # l
    BY <1>1, <1>3, <2>1 DEF LayerUnmap, UnmapLayer
  <2>2. CASE srv.focused_layer = l
    <3> DEFINE t == [srv EXCEPT !.focused_layer = NoSurface]
    <3>1. /\ t \in Server /\ t.keyboard = srv.keyboard /\ t.locked = srv.locked
          /\ t.mapped = srv.mapped /\ t.views = srv.views
      BY <1>0 DEF Server
    <3>2. srv' = FocusNext(t, NoSurface)
      BY <1>3, <2>2 DEF LayerUnmap, UnmapLayer
    <3> HIDE DEF t
    <3>3. srv' = FocusTopmost(t, NoSurface)
      BY <1>3, <3>1, <3>2 DEF FocusNext
    <3>4. Listed(t)
      BY <1>0, <3>1 DEF Consistent, Listed
    <3>5. QED BY <1>0, <1>3, <3>1, <3>3, <3>4, FocusTopmostHandsOver
  <2>3. QED BY <2>1, <2>2
<1>4. ASSUME NEW l \in Layers, LayerUnmap(l), srv.locked
      PROVE  srv'.locked
  BY <1>0, <1>4, UnmapLayerSeat DEF LayerUnmap, SeatStep
<1>5. CASE Unlock
  <2> DEFINE t == [srv EXCEPT !.locked = FALSE]
  <2>1. /\ t \in Server /\ t.keyboard = srv.keyboard /\ ~t.locked
        /\ t.mapped = srv.mapped /\ t.views = srv.views
    BY <1>0 DEF Server
  <2>2. srv' = FocusNext(t, NoSurface)
    BY <1>5 DEF Unlock
  <2> HIDE DEF t
  <2>3. srv' = FocusTopmost(t, NoSurface)
    BY <2>1, <2>2 DEF FocusNext
  <2>4. Listed(t)
    BY <1>0, <2>1 DEF Consistent, Listed
  <2>5. QED BY <1>0, <2>1, <2>3, <2>4, FocusTopmostHandsOver
<1>6. ASSUME NEW ls \in LockSurfaces, NewLockSurface(ls) \/ LockSurfaceDestroyed(ls)
      PROVE  srv'.locked
  <2>1. srv.locked
    BY <1>6 DEF NewLockSurface, LockSurfaceDestroyed, LockInv, LockBookkeeping
  <2>2. QED BY <1>0, <1>6, <2>1
        DEF NewLockSurface, LockSurfaceDestroyed, EnterLockSurface, Server
<1>7. CASE Lock \/ LockerCrash \/ KeyWhileLocked
  BY <1>0, <1>7 DEF Lock, LockerCrash, KeyWhileLocked, EnterLockSurface, Server
<1>8. CASE KeyboardAttached \/ KeyboardGone
  BY <1>0, <1>8 DEF KeyboardAttached, KeyboardGone
<1>9. CASE SurfaceGone
  <2>1. srv.locked
    BY <1>9, WindowsAssumption DEF SurfaceGone, OwnerLives, LayerFocusTracked
  <2>2. QED BY <1>0, <1>9, <2>1 DEF SurfaceGone, Server
<1>10. QED BY <1>2, <1>3, <1>4, <1>5, <1>6, <1>7, <1>8, <1>9
           DEF LayerNext, LockNext, SeatNext
(* Every step leaves the keyboard with a living surface.                   *)
LEMMA OwnerStep ==
  ASSUME LockInv, ListInv, OwnerLives, [Next]_vars, HotPlug = FALSE
  PROVE  OwnerLives'
<1>0. srv \in Server /\ srv.keyboard
  BY DEF ListInv, TypeInv, TypeOK, OwnerLives, LayerTracked
<1>1. LayerTracked(srv') /\ LayerFocusTracked'
  BY TrackedStep DEF OwnerLives
<1>2. SUFFICES ASSUME ~srv'.locked
               PROVE  srv'.focused_surface \notin LockSurfaces
  BY <1>1 DEF OwnerLives, LayerTracked
<1>3. SeatStep(srv, srv') => srv'.focused_surface \notin LockSurfaces
  BY <1>2, WindowsAssumption DEF SeatStep, OwnerLives
<1>4. CASE WindowNext \/ UserNext
  BY <1>3, <1>4, WindowStep, UserStep DEF ListInv, ClientStep
<1>5. ASSUME NEW l \in Layers, LayerMap(l) \/ LayerUnmap(l)
      PROVE  srv'.focused_surface \notin LockSurfaces
  <2>1. CASE LayerMap(l)
    BY <1>0, <1>2, <2>1, WindowsAssumption DEF LayerMap, FocusLayer, OwnerLives, Server
  <2>2. CASE LayerUnmap(l)
    BY <1>0, <1>3, <2>2, UnmapLayerSeat DEF LayerUnmap
  <2>3. QED BY <1>5, <2>1, <2>2
<1>6. CASE LockNext
  <2>1. CASE Unlock
    <3> DEFINE t == [srv EXCEPT !.locked = FALSE]
    <3>1. t \in Server /\ t.keyboard /\ ~t.locked
      BY <1>0 DEF Server
    <3>2. srv' = FocusNext(t, NoSurface)
      BY <2>1 DEF Unlock
    <3> HIDE DEF t
    <3>3. QED BY <3>1, <3>2, FocusNextEndsOnWindow, WindowsAssumption
  <2>2. ASSUME NEW ls \in LockSurfaces, NewLockSurface(ls) \/ LockSurfaceDestroyed(ls)
        PROVE  FALSE
    <3>1. srv.locked
      BY <2>2 DEF NewLockSurface, LockSurfaceDestroyed, LockInv, LockBookkeeping
    <3>2. QED BY <1>0, <1>2, <2>2, <3>1
          DEF NewLockSurface, LockSurfaceDestroyed, EnterLockSurface, Server
  <2>3. CASE Lock \/ LockerCrash \/ KeyWhileLocked
    BY <1>0, <1>2, <2>3
       DEF Lock, LockerCrash, KeyWhileLocked, EnterLockSurface, Server
  <2>4. QED BY <1>6, <2>1, <2>2, <2>3 DEF LockNext
<1>7. CASE SeatNext \/ UNCHANGED vars
  BY <1>0, <1>2, <1>7, WindowsAssumption
     DEF SeatNext, KeyboardAttached, KeyboardGone, SurfaceGone, OwnerLives, vars, Server
<1>8. QED BY <1>4, <1>5, <1>6, <1>7 DEF Next, LayerNext

(* While the seat has a keyboard, a step of an unlocked session that takes *)
(* the keyboard away and gives it to nobody leaves no other window on the  *)
(* screen: no path through unmap, minimize, workspace switches, layer      *)
(* surfaces and unlocks forgets to call focus_next.                        *)
THEOREM FocusIsHandedOver ==
  ASSUME HotPlug = FALSE
  PROVE  Spec => FocusHandedOver
<1> DEFINE Inv == LockInv /\ ListInv /\ OwnerLives
           Step == srv.focused_surface # NoSurface /\ srv'.focused_surface = NoSurface
                   /\ ~srv'.locked
                   => \A v \in srv'.mapped \ {srv.focused_surface} : ~Visible(srv', v)
<1>1. Init => Inv
  BY TrackedInit, LockInit, ListInit, WindowsAssumption DEF OwnerLives
<1>2. ASSUME Inv, [Next]_vars
      PROVE  Inv'
  BY <1>2, LockStep, DesktopKeeps, OwnerStep
<1>3. ASSUME Inv, [Next]_vars
      PROVE  [Step]_vars
  <2>1. srv.keyboard
    BY <1>3 DEF OwnerLives, LayerTracked
  <2>2. ASSUME WindowNext \/ UserNext, ~srv'.locked PROVE HandsOver(srv, srv')
    <3>1. ~srv.locked
      BY <1>3, <2>2, WindowStep, UserStep DEF ListInv, ClientStep, SeatStep
    <3>2. QED BY <1>3, <2>1, <2>2, <3>1, WindowHandsOver, UserHandsOver
  <2>3. ASSUME LayerNext \/ LockNext \/ SeatNext, ~srv'.locked
        PROVE  HandsOver(srv, srv')
    BY <1>3, <2>3, OtherHandsOver
  <2>4. QED BY <1>3, <2>2, <2>3 DEF Next, HandsOver, Bare
<1>4. QED BY <1>1, <1>2, <1>3, PTL DEF Spec, FocusHandedOver

-----------------------------------------------------------------------------

(* view::focus hides no window and shows no other than its own.            *)
LEMMA FocusGrows ==
  ASSUME NEW s \in Server, NEW v \in Views, v \in s.minimized => v \notin s.shown
  PROVE  /\ s.shown \subseteq Focus(s, v).shown
         /\ Focus(s, v).shown \subseteq s.shown \cup {v}
<1> DEFINE r == Restore(s, v)
<1>1. r \in Server
  BY RestoreType
<1>2. s.shown \subseteq r.shown /\ r.shown \subseteq s.shown \cup {v}
  BY DEF Restore, Minimize, UpdateVisibility, Server
<1>3. Focus(s, v) \in {s, r, Activate(r, v)}
  BY DEF Focus
<1> HIDE DEF r
<1>4. Activate(r, v).shown = r.shown
  BY <1>1 DEF Activate, Server
<1>5. QED BY <1>2, <1>3, <1>4

(* Nor does focus_next, and it does not show the window it skips.          *)
LEMMA FocusNextGrows ==
  ASSUME NEW s \in Server, NEW skip
  PROVE  /\ s.shown \subseteq FocusNext(s, skip).shown
         /\ s.shown \subseteq FocusTopmost(s, skip).shown
         /\ skip \notin s.shown => skip \notin FocusNext(s, skip).shown
<1>1. CASE Candidates(s, skip) # {}
  <2> DEFINE u == s.views[Min(Candidates(s, skip))]
  <2>1. u \in Views /\ u # skip /\ Visible(s, u)
    BY <1>1, TopmostIsCandidate DEF Candidates
  <2>2. FocusTopmost(s, skip) = Focus(s, u)
    BY <1>1 DEF FocusTopmost
  <2> HIDE DEF u
  <2>3. u \notin s.minimized
    BY <2>1 DEF Visible
  <2>4. QED BY <2>1, <2>2, <2>3, FocusGrows DEF FocusNext
<1>2. CASE Candidates(s, skip) = {}
  BY <1>2 DEF FocusNext, FocusTopmost, Server
<1>3. QED BY <1>1, <1>2

(* Only skip stands before v in the list.                                  *)
InFront(s, v, skip) ==
  \E i \in DOMAIN s.views :
    s.views[i] = v /\ \A j \in 1 .. i - 1 : s.views[j] = skip

(* Then focus_next ends on v, if v is on the screen.                       *)
LEMMA FocusNextFindsFront ==
  ASSUME NEW s \in Server, s.keyboard, ~s.locked, NEW v \in Views, v \in s.mapped,
         Visible(s, v), NEW skip, skip # v, InFront(s, v, skip)
  PROVE  FocusNext(s, skip).focused_surface = v
<1>1. PICK i \in DOMAIN s.views :
         s.views[i] = v /\ \A j \in 1 .. i - 1 : s.views[j] = skip
  BY DEF InFront
<1>2. i \in Candidates(s, skip)
  BY <1>1 DEF Candidates
<1> DEFINE k == Min(Candidates(s, skip))
<1>3. k \in Candidates(s, skip) /\ k <= i
  BY <1>2, TopmostIsCandidate
<1>4. FocusNext(s, skip) = Focus(s, s.views[k])
  BY <1>2 DEF FocusNext, FocusTopmost
<1> HIDE DEF k
<1>5. k \in 1 .. Len(s.views) /\ i \in 1 .. Len(s.views) /\ s.views[k] # skip
  BY <1>1, <1>3 DEF Candidates, Server
<1>6. Len(s.views) \in Nat
  BY LenProperties DEF Server
<1>7. k = i
  BY <1>1, <1>3, <1>5, <1>6
<1>8. QED BY <1>1, <1>4, <1>7, FocusTakes

(* A minimize of the window before v, or of another when v is the first.   *)
LEMMA MinimizeOther ==
  ASSUME NEW s \in Server, s.keyboard, ~s.locked,
         NEW u \in Views, NEW v \in Views, u # v,
         v \in s.mapped, Visible(s, v), InFront(s, v, u)
  PROVE  MinimizeAndMoveOn(s, u).focused_surface = v
<1> DEFINE t == Minimize(s, u, TRUE)
<1>1. t \in Server /\ SeatKept(s, t)
  BY MinimizeType, MinimizeSeat
<1>2. /\ t.views = s.views /\ t.mapped = s.mapped /\ t.pinned = s.pinned
      /\ t.workspace = s.workspace /\ t.current_workspace = s.current_workspace
      /\ t.minimized = s.minimized \cup {u}
  BY DEF Minimize, UpdateVisibility, Server
<1>3. MinimizeAndMoveOn(s, u) = FocusNext(t, u)
  BY DEF MinimizeAndMoveOn
<1> HIDE DEF t
<1>4. Visible(t, v)
  BY <1>2 DEF Visible
<1>5. InFront(t, v, u)
  BY <1>2 DEF InFront
<1>6. t.keyboard /\ ~t.locked /\ v \in t.mapped
  BY <1>1, <1>2 DEF SeatKept
<1>7. FocusNext(t, u).focused_surface = v
  BY <1>1, <1>4, <1>5, <1>6, FocusNextFindsFront
<1>8. QED BY <1>3, <1>7

(* A window that is minimized is off the screen in the end.                *)
LEMMA MinimizeHides ==
  ASSUME NEW s \in Server, NEW v \in Views
  PROVE  v \notin MinimizeAndMoveOn(s, v).shown
<1> DEFINE t == Minimize(s, v, TRUE)
<1>1. t \in Server
  BY MinimizeType
<1>2. v \notin t.shown
  BY DEF Minimize, UpdateVisibility, Visible, Server
<1>3. MinimizeAndMoveOn(s, v) = FocusNext(t, v)
  BY DEF MinimizeAndMoveOn
<1> HIDE DEF t
<1>4. QED BY <1>1, <1>2, <1>3, FocusNextGrows

(* The window that has the keyboard and is on the screen in s, and what a  *)
(* step to t may do to it.                                                 *)
Owns(s, v) ==
  /\ s \in Server /\ Consistent(s) /\ FocusSound(s)
  /\ v \in Views /\ v \in s.shown /\ s.focused_surface = v

KeepsFocus(s, t, v) ==
  \/ s.shown \subseteq t.shown
  \/ v \notin t.shown
  \/ t.focused_surface = v
  \/ t.current_workspace # s.current_workspace

(* What a handler finds of such a window.                                  *)
LEMMA OwnerFacts ==
  ASSUME NEW s, NEW v, Owns(s, v)
  PROVE  /\ s.keyboard /\ ~s.locked
         /\ v \in s.mapped /\ Visible(s, v)
         /\ s.views # <<>> /\ s.views[1] = v
         /\ \A u : InFront(s, v, u)
<1>1. s.views \in Seq(Views) /\ s.views # <<>> /\ s.views[1] = v
  BY DEF Owns, FocusSound, UsableExcept, Server
<1>2. 1 \in DOMAIN s.views /\ \A j \in 1 .. 1 - 1 : FALSE
  BY <1>1
<1>3. \A u : InFront(s, v, u)
  BY <1>1, <1>2 DEF InFront
<1>4. QED BY <1>1, <1>3 DEF Owns, FocusSound, SeatSound, Consistent, ShownExcept

(* Minimizing any window.                                                  *)
LEMMA MinimizeKeepsFocus ==
  ASSUME NEW s, NEW v, Owns(s, v), NEW u \in Views
  PROVE  KeepsFocus(s, MinimizeAndMoveOn(s, u), v)
<1>1. CASE u = v
  BY <1>1, MinimizeHides DEF Owns, KeepsFocus
<1>2. CASE u # v
  BY <1>2, OwnerFacts, MinimizeOther DEF Owns, KeepsFocus
<1>3. QED BY <1>1, <1>2

(* The minimize button focuses its window first, which leaves the one that *)
(* had the keyboard second in the list.                                    *)
LEMMA MinimizeButtonKeepsFocus ==
  ASSUME NEW s, NEW v, Owns(s, v), NEW u \in Views, u \in s.mapped
  PROVE  KeepsFocus(s, MinimizeAndMoveOn(Focus(s, u), u), v)
<1>0. /\ s \in Server /\ Consistent(s) /\ v \in Views
      /\ s.keyboard /\ ~s.locked /\ v \in s.mapped /\ Visible(s, v)
      /\ s.views \in Seq(Views) /\ s.views # <<>> /\ s.views[1] = v
      /\ s.focused_surface = v
  BY OwnerFacts DEF Owns, Server
<1> DEFINE t == Focus(s, u)
           m == MinimizeAndMoveOn(t, u)
<1>1. t \in Server /\ Consistent(t) /\ SeatStep(s, t)
  BY <1>0, FocusType, FocusConsistent, FocusSeat
<1>2. CASE u = v
  BY <1>1, <1>2, MinimizeHides DEF KeepsFocus
<1>3. CASE u # v
  <2> DEFINE r == Restore(s, u)
  <2>1. /\ r \in Server /\ r.views = s.views /\ r.mapped = s.mapped
        /\ r.minimized = s.minimized \ {u}
    BY <1>0, RestoreType, RestoreConsistent
  <2>2. /\ r.pinned = s.pinned /\ r.workspace = s.workspace
        /\ r.current_workspace = s.current_workspace
    BY <1>0 DEF Restore, Minimize, UpdateVisibility, Server
  <2>3. t = Activate(r, u)
    BY <1>0, <1>3 DEF Focus
  <2> HIDE DEF r, t
  <2>4. /\ t.views = <<u>> \o RemoveFirst(s.views, u)
        /\ t.mapped = s.mapped /\ t.minimized = s.minimized \ {u}
        /\ t.pinned = s.pinned /\ t.workspace = s.workspace
        /\ t.current_workspace = s.current_workspace
    BY <2>1, <2>2, <2>3 DEF Activate, Server
  <2> DEFINE rest == RemoveFirst(s.views, u)
  <2>5. rest \in Seq(Views) /\ rest # <<>> /\ rest[1] = v
    BY <1>0, <1>3, RemoveKeepsHead, RemoveFirstProperties
  <2> HIDE DEF rest
  <2>6. /\ Len(rest) \in Nat /\ 1 <= Len(rest)
        /\ (<<u>> \o rest)[1] = u /\ (<<u>> \o rest)[2] = v
        /\ <<u>> \o rest \in Seq(Views) /\ Len(<<u>> \o rest) = Len(rest) + 1
    <3>1. Len(rest) \in Nat /\ 1 <= Len(rest)
      BY <2>5, EmptySeq, LenProperties
    <3>2. 1 \in 1 .. Len(rest) /\ 1 + 1 = 2
      BY <3>1
    <3>3. QED BY <2>5, <3>1, <3>2, ToFront
  <2>7. 2 \in DOMAIN t.views /\ t.views[1] = u /\ t.views[2] = v
    BY <2>4, <2>6 DEF rest
  <2>8. InFront(t, v, u)
    <3>1. \A j \in 1 .. 2 - 1 : j = 1
      OBVIOUS
    <3>2. QED BY <2>7, <3>1 DEF InFront
  <2>9. Visible(t, v)
    BY <1>0, <2>4 DEF Visible
  <2>10. m.focused_surface = v
    BY <1>0, <1>1, <1>3, <2>4, <2>8, <2>9, MinimizeOther DEF SeatStep
  <2> HIDE DEF m
  <2>11. QED BY <2>10 DEF KeepsFocus, m, t
<1>4. QED BY <1>2, <1>3

(* view::handle_unmap of any window.                                       *)
LEMMA HandleUnmapKeepsFocus ==
  ASSUME NEW s, NEW v, Owns(s, v), NEW u \in Views
  PROVE  KeepsFocus(s, HandleUnmap(s, u), v)
<1>0. /\ s \in Server /\ Consistent(s) /\ v \in Views
      /\ s.keyboard /\ ~s.locked /\ v \in s.mapped /\ Visible(s, v)
      /\ s.views \in Seq(Views) /\ s.views # <<>> /\ s.views[1] = v
  BY OwnerFacts DEF Owns, Server
<1> DEFINE t == [s EXCEPT !.focused_surface = IF @ = u THEN NoSurface ELSE @,
                          !.activated = @ \ {u},
                          !.mapped = @ \ {u},
                          !.views = RemoveFirst(@, u),
                          !.shown = @ \ {u}]
<1>1. RemoveFirst(s.views, u) \in Seq(Views)
  BY <1>0, RemoveFirstProperties
<1>2. t \in Server
  BY <1>0, <1>1 DEF Server, Surfaces
<1>3. HandleUnmap(s, u) = FocusNext(t, u)
  BY DEF HandleUnmap
<1>4. /\ t.mapped = s.mapped \ {u} /\ t.views = RemoveFirst(s.views, u)
      /\ t.minimized = s.minimized /\ t.pinned = s.pinned
      /\ t.workspace = s.workspace /\ t.current_workspace = s.current_workspace
      /\ t.keyboard = s.keyboard /\ t.locked = s.locked
      /\ t.shown = s.shown \ {u}
  BY <1>0 DEF Server
<1> HIDE DEF t
<1>5. CASE u = v
  BY <1>2, <1>3, <1>4, <1>5, FocusNextGrows DEF KeepsFocus
<1>6. CASE u # v
  <2>1. t.views # <<>> /\ t.views[1] = v /\ t.views \in Seq(Views)
    BY <1>0, <1>1, <1>4, <1>6, RemoveKeepsHead
  <2>2. 1 \in DOMAIN t.views /\ \A j \in 1 .. 1 - 1 : FALSE
    BY <2>1
  <2>3. InFront(t, v, u) /\ Visible(t, v)
    BY <1>0, <1>4, <2>1, <2>2 DEF InFront, Visible
  <2>4. FocusNext(t, u).focused_surface = v
    BY <1>0, <1>2, <1>4, <1>6, <2>3, FocusNextFindsFront
  <2>5. QED BY <1>3, <2>4 DEF KeepsFocus
<1>7. QED BY <1>5, <1>6

(* view::move_to_workspace: the window leaves the screen, or stays on it   *)
(* and the focus moves on.                                                 *)
LEMMA MoveToWorkspaceKeepsFocus ==
  ASSUME NEW s, NEW v, Owns(s, v), NEW w \in Workspaces
  PROVE  KeepsFocus(s, MoveToWorkspace(s, v, w), v)
<1>0. s \in Server /\ v \in Views /\ v \in s.mapped /\ Visible(s, v)
  BY OwnerFacts DEF Owns
<1> DEFINE t == [s EXCEPT !.pinned = @ \ {v},
                          !.workspace[v] = w,
                          !.max_visible_workspace = IF w > @ THEN w ELSE @]
           u == UpdateVisibility(t, v)
<1>1. t \in Server
  BY <1>0 DEF Server
<1>2. MoveToWorkspace(s, v, w) = FocusNext(u, v)
  BY DEF MoveToWorkspace
<1>3. /\ t.mapped = s.mapped /\ t.shown = s.shown
      /\ t.minimized = s.minimized /\ t.pinned = s.pinned \ {v}
      /\ t.workspace[v] = w /\ t.current_workspace = s.current_workspace
  BY <1>0 DEF Server
<1> HIDE DEF t
<1>4. u.shown = IF v \in t.mapped /\ Visible(t, v) THEN t.shown \cup {v}
                                                  ELSE t.shown \ {v}
  BY <1>1 DEF UpdateVisibility, Server
<1>5. u \in Server
  BY <1>0, <1>1, UpdateVisibilityType
<1> HIDE DEF u
<1>6. CASE w = s.current_workspace
  <2>1. s.shown \subseteq u.shown
    BY <1>0, <1>3, <1>4, <1>6 DEF Visible
  <2>2. QED BY <1>2, <1>5, <2>1, FocusNextGrows DEF KeepsFocus
<1>7. CASE w # s.current_workspace
  <2>1. v \notin u.shown
    BY <1>3, <1>4, <1>7 DEF Visible
  <2>2. QED BY <1>2, <1>5, <2>1, FocusNextGrows DEF KeepsFocus
<1>8. QED BY <1>6, <1>7

(* Restoring a window from a panel, on whatever workspace it is.           *)
LEMMA RestoreGrows ==
  ASSUME NEW s \in Server, NEW u \in Views, Consistent(s)
  PROVE  s.shown \subseteq Focus(Minimize(s, u, FALSE), u).shown
<1> DEFINE t == Minimize(s, u, FALSE)
<1>1. t \in Server
  BY MinimizeType
<1>2. u \in s.shown => u \in s.mapped /\ Visible(s, u)
  BY DEF Consistent, ShownExcept
<1>3. s.shown \subseteq t.shown /\ u \notin t.minimized
  BY <1>2 DEF Minimize, UpdateVisibility, Visible, Server
<1> HIDE DEF t
<1>4. s.shown \subseteq Focus(t, u).shown
  BY <1>1, <1>3, FocusGrows
<1>5. QED BY <1>4 DEF t

(* view::handle_map.                                                       *)
LEMMA MapGrows ==
  ASSUME NEW s \in Server, NEW u \in Views, u \notin s.mapped, Consistent(s)
  PROVE  s.shown \subseteq HandleMap(s, u).shown
<1> DEFINE t == [s EXCEPT !.mapped = @ \cup {u},
                          !.workspace[u] = s.current_workspace,
                          !.views = <<u>> \o @]
           w == UpdateVisibility(t, u)
<1>1. s.views \in Seq(Views) /\ <<u>> \o s.views \in Seq(Views)
  BY ToFront DEF Server
<1>2. t \in Server /\ t.shown = s.shown
  BY <1>1 DEF Server
<1>3. HandleMap(s, u) = Focus(w, u)
  BY DEF HandleMap
<1>4. u \notin s.shown
  BY DEF Consistent, ShownExcept
<1> HIDE DEF t
<1>5. w \in Server
  BY <1>2, UpdateVisibilityType
<1>6. /\ s.shown \subseteq w.shown
      /\ u \in w.minimized => u \notin w.shown
  BY <1>2, <1>4 DEF UpdateVisibility, Visible, Server
<1> HIDE DEF w
<1>7. QED BY <1>3, <1>5, <1>6, FocusGrows

(* view::focus from a click, a button or the overlay.                      *)
LEMMA FocusKeepsShown ==
  ASSUME NEW s \in Server, NEW u \in Views, Consistent(s)
  PROVE  s.shown \subseteq Focus(s, u).shown
<1>1. u \in s.minimized => u \notin s.shown
  BY DEF Consistent, ShownExcept, Visible
<1>2. QED BY <1>1, FocusGrows

(* A workspace switch, which changes the workspace or nothing.             *)
LEMMA SwitchChangesWorkspace ==
  ASSUME NEW s \in Server, NEW w
  PROVE  WorkspaceSwitch(s, w) = s
         \/ WorkspaceSwitch(s, w).current_workspace # s.current_workspace
<1>1. CASE w \notin Workspaces \/ w = s.current_workspace
  BY <1>1 DEF WorkspaceSwitch
<1>2. CASE w \in Workspaces /\ w # s.current_workspace
  <2> DEFINE t == ShowWorkspace(s, w)
  <2>1. t \in Server
    BY <1>2, ShowWorkspaceType
  <2>2. t.current_workspace = w
    BY DEF ShowWorkspace, Server
  <2>3. WorkspaceSwitch(s, w) = FocusTopmost(t, NoSurface)
    BY <1>2 DEF WorkspaceSwitch
  <2> HIDE DEF t
  <2>4. FocusTopmost(t, NoSurface).current_workspace = w
    BY <2>1, <2>2, FocusNextRefocus DEF Refocus, PlacesKept
  <2>5. QED BY <1>2, <2>3, <2>4
<1>3. QED BY <1>1, <1>2

(* To the workspace of a window.                                           *)
LEMMA ShowWorkspaceOfKeepsFocus ==
  ASSUME NEW v, Owns(srv, v), NEW u \in Views, ShowWorkspaceOf(u)
  PROVE  KeepsFocus(srv, srv', v)
<1> DEFINE t == WorkspaceSwitch(srv, srv.workspace[u])
<1>0. srv \in Server /\ Consistent(srv)
  BY DEF Owns
<1>1. srv' = Focus(t, u)
  BY DEF ShowWorkspaceOf
<1>2. t \in Server
  BY <1>0, WorkspaceSwitchType
<1>3. t = srv \/ t.current_workspace # srv.current_workspace
  BY <1>0, SwitchChangesWorkspace
<1> HIDE DEF t
<1>4. Focus(t, u).current_workspace = t.current_workspace
  BY <1>2, FocusRefocus DEF Refocus, PlacesKept
<1>5. t = srv => srv.shown \subseteq Focus(t, u).shown
  BY <1>0, FocusKeepsShown
<1>6. QED BY <1>1, <1>3, <1>4, <1>5 DEF KeepsFocus

(* Every request of a client or panel and every click on a window.         *)
LEMMA WindowKeepsFocus ==
  ASSUME NEW v, Owns(srv, v), WindowNext
  PROVE  KeepsFocus(srv, srv', v)
<1>0. srv \in Server /\ Consistent(srv)
  BY DEF Owns
<1>1. srv.shown \subseteq srv'.shown => KeepsFocus(srv, srv', v)
  BY DEF KeepsFocus
<1>2. PICK u \in Views :
         \/ Map(u) \/ Unmap(u) \/ Destroy(u) \/ RequestMinimize(u)
         \/ ActivationRequest(u)
         \/ ForeignActivate(u) \/ ForeignMinimize(u) \/ ForeignRestore(u)
         \/ ClickWindow(u) \/ ClickMinimizeButton(u) \/ ClickTaskButton(u)
  BY DEF WindowNext
<1>3. srv.shown \subseteq Focus(srv, u).shown
  BY <1>0, FocusKeepsShown
<1>4. CASE Map(u)
  BY <1>0, <1>1, <1>4, MapGrows DEF Map
<1>5. CASE Unmap(u)
  BY <1>5, HandleUnmapKeepsFocus DEF Unmap
<1>6. CASE Destroy(u)
  BY <1>0, <1>1, <1>6 DEF Destroy, HandleDestroy, Server
<1>7. CASE RequestMinimize(u) \/ ForeignMinimize(u)
  BY <1>7, MinimizeKeepsFocus DEF RequestMinimize, ForeignMinimize
<1>8. CASE ActivationRequest(u)
  <2>1. CASE ShowWorkspaceOf(u)
    BY <2>1, ShowWorkspaceOfKeepsFocus
  <2>2. CASE srv' = IF srv.focused_surface = u THEN srv
                    ELSE [srv EXCEPT !.urgent = @ \cup {u}]
    BY <1>0, <1>1, <2>2 DEF Server
  <2>3. QED BY <1>8, <2>1, <2>2 DEF ActivationRequest
<1>9. CASE ForeignActivate(u)
  BY <1>9, ShowWorkspaceOfKeepsFocus DEF ForeignActivate
<1>10. CASE ForeignRestore(u)
  BY <1>0, <1>1, <1>10, RestoreGrows DEF ForeignRestore
<1>11. CASE ClickWindow(u)
  BY <1>1, <1>3, <1>11 DEF ClickWindow
<1>12. CASE ClickMinimizeButton(u)
  <2>1. u \in srv.mapped
    BY <1>0, <1>12 DEF ClickMinimizeButton, Consistent, ShownExcept
  <2>2. QED BY <1>12, <2>1, MinimizeButtonKeepsFocus DEF ClickMinimizeButton
<1>13. CASE ClickTaskButton(u)
  <2>1. CASE u \in srv.pinned
    BY <1>1, <1>3, <1>13, <2>1 DEF ClickTaskButton
  <2>2. CASE u \notin srv.pinned
    BY <1>13, <2>2, ShowWorkspaceOfKeepsFocus DEF ClickTaskButton
  <2>3. QED BY <2>1, <2>2
<1>14. QED BY <1>2, <1>4, <1>5, <1>6, <1>7, <1>8, <1>9, <1>10, <1>11, <1>12, <1>13

(* Every bound action, the overlay and the workspace buttons.              *)
LEMMA UserKeepsFocus ==
  ASSUME ListInv, NEW v, Owns(srv, v), UserNext
  PROVE  KeepsFocus(srv, srv', v)
<1>0. srv \in Server /\ Consistent(srv) /\ sw \in Overlay
  BY DEF ListInv, TypeInv, TypeOK
<1>1. FocusedView = v /\ v \in Views
  BY DEF FocusedView, Owns
<1>2. srv.shown \subseteq srv'.shown => KeepsFocus(srv, srv', v)
  BY DEF KeepsFocus
<1>3. ASSUME NEW w \in Workspaces, ClickWorkspaceButton(w) \/ ActionWorkspace(w)
      PROVE  KeepsFocus(srv, srv', v)
  <2>1. srv' = WorkspaceSwitch(srv, w)
    BY <1>3 DEF ClickWorkspaceButton, ActionWorkspace, SwitchTo
  <2>2. QED BY <1>0, <2>1, SwitchChangesWorkspace DEF KeepsFocus
<1>4. ASSUME NEW w \in Workspaces, ActionMoveToWorkspace(w)
      PROVE  KeepsFocus(srv, srv', v)
  BY <1>1, <1>4, MoveToWorkspaceKeepsFocus DEF ActionMoveToWorkspace
<1>5. ASSUME NEW step \in {1, -1}, ActionCycle(step)
      PROVE  KeepsFocus(srv, srv', v)
  BY <1>2, <1>5 DEF ActionCycle
<1>6. CASE ActionMinimize
  BY <1>1, <1>6, MinimizeKeepsFocus DEF ActionMinimize
<1>7. CASE ActionPin
  BY <1>0, <1>2, <1>7 DEF ActionPin, TogglePin, Server
<1>8. CASE CommitSwitcher
  <2>1. Highlighted(sw) \in Views
    BY <1>8, HighlightedType DEF CommitSwitcher, ListInv, TypeInv, TypeOK
  <2>2. QED BY <1>0, <1>2, <1>8, <2>1, FocusKeepsShown DEF CommitSwitcher
<1>9. CASE CancelSwitcher
  BY <1>2, <1>9 DEF CancelSwitcher
<1>10. QED BY <1>3, <1>4, <1>5, <1>6, <1>7, <1>8, <1>9 DEF UserNext

(* Layer surfaces, lockers and the seat hide no window.                    *)
LEMMA OtherGrows ==
  ASSUME TypeInv, LayerNext \/ LockNext \/ SeatNext
  PROVE  srv.shown \subseteq srv'.shown
<1>0. srv \in Server
  BY DEF TypeInv, TypeOK
<1>1. ASSUME NEW l \in Layers, LayerMap(l) \/ LayerUnmap(l)
      PROVE  srv.shown \subseteq srv'.shown
  <2> DEFINE t == [srv EXCEPT !.focused_layer = NoSurface]
  <2>1. t \in Server /\ t.shown = srv.shown
    BY <1>0 DEF Server
  <2>2. UnmapLayer(srv, l) \in {srv, FocusNext(t, NoSurface)}
    BY DEF UnmapLayer
  <2> HIDE DEF t
  <2>3. srv.shown \subseteq UnmapLayer(srv, l).shown
    BY <2>1, <2>2, FocusNextGrows
  <2>4. srv.shown \subseteq FocusLayer(srv, l).shown
    BY <1>0 DEF FocusLayer, Server
  <2>5. QED BY <1>1, <2>3, <2>4 DEF LayerMap, LayerUnmap
<1>2. CASE LockNext
  <2>1. CASE Unlock
    <3> DEFINE t == [srv EXCEPT !.locked = FALSE]
    <3>1. t \in Server /\ t.shown = srv.shown
      BY <1>0 DEF Server
    <3>2. srv' = FocusNext(t, NoSurface)
      BY <2>1 DEF Unlock
    <3> HIDE DEF t
    <3>3. QED BY <3>1, <3>2, FocusNextGrows
  <2>2. ASSUME NEW ls \in LockSurfaces, NewLockSurface(ls) \/ LockSurfaceDestroyed(ls)
        PROVE  srv.shown \subseteq srv'.shown
    BY <1>0, <2>2
       DEF NewLockSurface, LockSurfaceDestroyed, EnterLockSurface, Server
  <2>3. CASE Lock \/ LockerCrash \/ KeyWhileLocked
    BY <1>0, <2>3 DEF Lock, LockerCrash, KeyWhileLocked, EnterLockSurface, Server
  <2>4. QED BY <1>2, <2>1, <2>2, <2>3 DEF LockNext
<1>3. CASE SeatNext
  BY <1>0, <1>3 DEF SeatNext, KeyboardAttached, KeyboardGone, SurfaceGone, Server
<1>4. QED BY <1>1, <1>2, <1>3 DEF LayerNext

(* While the seat has a keyboard, the focused window keeps it when others  *)
(* close, minimize or move: focus_next, which every such handler calls,    *)
(* comes back to it, because it is the first of the list, or the second    *)
(* behind the window whose minimize button was pressed.                    *)
THEOREM BackgroundNeverTakesFocus ==
  ASSUME HotPlug = FALSE
  PROVE  Spec => BackgroundKeepsFocus
<1> DEFINE Inv == ListInv /\ FocusSound(srv)
           Step == \A v \in srv.shown \cap srv'.shown :
                     /\ srv.focused_surface = v
                     /\ srv'.shown # srv.shown /\ srv'.shown \subseteq srv.shown
                     /\ srv'.current_workspace = srv.current_workspace
                     /\ ~srv'.locked
                     => srv'.focused_surface = v
<1>1. Init => Inv
  BY ListInit
<1>2. Inv /\ [Next]_vars => Inv'
  BY DesktopKeeps
<1>3. ASSUME Inv, [Next]_vars
      PROVE  [Step]_vars
  <2>1. SUFFICES ASSUME Next, NEW v \in srv.shown, srv.focused_surface = v
                 PROVE  KeepsFocus(srv, srv', v)
    BY <1>3 DEF KeepsFocus
  <2>2. srv.shown \subseteq Views
    BY <1>3 DEF ListInv, TypeInv, TypeOK, Server
  <2>3. Owns(srv, v)
    BY <1>3, <2>1, <2>2 DEF Owns, ListInv, TypeInv, TypeOK
  <2>4. QED BY <1>3, <2>1, <2>3, WindowKeepsFocus, UserKeepsFocus, OtherGrows
            DEF Next, KeepsFocus, ListInv
<1>4. QED BY <1>1, <1>2, <1>3, PTL DEF Spec, BackgroundKeepsFocus

-----------------------------------------------------------------------------

(* No window that is off the screen has the keyboard.                      *)
OwnerVisible(s) ==
  \A v \in s.mapped : s.focused_surface = v => Visible(s, v)

(* A window of the current workspace, or a pinned one, that is focused is  *)
(* on the screen then, minimized or not.                                   *)
LEMMA FocusShowsOwner ==
  ASSUME NEW s \in Server, s.keyboard, ~s.locked, NEW v \in Views, v \in s.mapped,
         v \in s.pinned \/ s.workspace[v] = s.current_workspace
  PROVE  OwnerVisible(Focus(s, v))
<1> DEFINE r == Restore(s, v)
<1>1. r \in Server
  BY RestoreType
<1>2. /\ v \notin r.minimized /\ r.pinned = s.pinned
      /\ r.workspace = s.workspace /\ r.current_workspace = s.current_workspace
  BY DEF Restore, Minimize, UpdateVisibility, Server
<1>3. Focus(s, v) \in {r, Activate(r, v)}
  BY DEF Focus
<1> HIDE DEF r
<1>4. LET a == Activate(r, v)
      IN  /\ a.minimized = r.minimized /\ a.pinned = r.pinned
          /\ a.workspace = r.workspace /\ a.current_workspace = r.current_workspace
  BY <1>1 DEF Activate, Server
<1>5. Visible(Focus(s, v), v)
  BY <1>2, <1>3, <1>4 DEF Visible
<1>6. QED BY <1>5, FocusTakes DEF OwnerVisible

(* Where focus_next ends, the owner of the keyboard is on the screen.      *)
LEMMA FocusNextShowsOwner ==
  ASSUME NEW s \in Server, s.keyboard, ~s.locked, NEW skip
  PROVE  OwnerVisible(FocusNext(s, skip)) /\ OwnerVisible(FocusTopmost(s, skip))
<1>1. FocusNext(s, skip) = FocusTopmost(s, skip)
  BY DEF FocusNext
<1>2. CASE Candidates(s, skip) # {}
  <2> DEFINE u == s.views[Min(Candidates(s, skip))]
  <2>1. u \in Views /\ u \in s.mapped /\ Visible(s, u)
    BY <1>2, TopmostIsCandidate DEF Candidates
  <2>2. FocusTopmost(s, skip) = Focus(s, u)
    BY <1>2 DEF FocusTopmost
  <2> HIDE DEF u
  <2>3. OwnerVisible(Focus(s, u))
    BY <2>1, FocusShowsOwner DEF Visible
  <2>4. QED BY <1>1, <2>2, <2>3
<1>3. CASE Candidates(s, skip) = {}
  <2> DEFINE t == FocusTopmost(s, skip)
  <2>1. t.focused_surface = NoSurface /\ t \in Server
    BY <1>3, FocusTopmostType DEF FocusTopmost, Server
  <2> HIDE DEF t
  <2>2. OwnerVisible(t)
    BY <2>1, WindowsAssumption DEF OwnerVisible, Server
  <2>3. QED BY <1>1, <2>2 DEF t
<1>4. QED BY <1>2, <1>3

(* A minimize that is followed by focus_next.                              *)
LEMMA MinimizeShowsOwner ==
  ASSUME NEW s \in Server, s.keyboard, ~s.locked, NEW v \in Views
  PROVE  OwnerVisible(MinimizeAndMoveOn(s, v))
<1> DEFINE t == Minimize(s, v, TRUE)
<1>1. t \in Server /\ SeatKept(s, t)
  BY MinimizeType, MinimizeSeat
<1>2. MinimizeAndMoveOn(s, v) = FocusNext(t, v)
  BY DEF MinimizeAndMoveOn
<1> HIDE DEF t
<1>3. QED BY <1>1, <1>2, FocusNextShowsOwner DEF SeatKept

(* view::handle_unmap.                                                     *)
LEMMA UnmapShowsOwner ==
  ASSUME NEW s \in Server, s.keyboard, ~s.locked, NEW v \in Views
  PROVE  OwnerVisible(HandleUnmap(s, v))
<1> DEFINE t == [s EXCEPT !.focused_surface = IF @ = v THEN NoSurface ELSE @,
                          !.activated = @ \ {v},
                          !.mapped = @ \ {v},
                          !.views = RemoveFirst(@, v),
                          !.shown = @ \ {v}]
<1>1. s.views \in Seq(Views) /\ RemoveFirst(s.views, v) \in Seq(Views)
  BY RemoveFirstProperties DEF Server
<1>2. t \in Server
  BY <1>1 DEF Server, Surfaces
<1>3. t.keyboard = s.keyboard /\ t.locked = s.locked
  BY DEF Server
<1>4. HandleUnmap(s, v) = FocusNext(t, v)
  BY DEF HandleUnmap
<1> HIDE DEF t
<1>5. QED BY <1>2, <1>3, <1>4, FocusNextShowsOwner

(* view::move_to_workspace.                                                *)
LEMMA MoveShowsOwner ==
  ASSUME NEW s \in Server, s.keyboard, ~s.locked, NEW v \in Views, NEW w \in Workspaces
  PROVE  OwnerVisible(MoveToWorkspace(s, v, w))
<1> DEFINE t == [s EXCEPT !.pinned = @ \ {v},
                          !.workspace[v] = w,
                          !.max_visible_workspace = IF w > @ THEN w ELSE @]
           u == UpdateVisibility(t, v)
<1>1. t \in Server /\ t.keyboard = s.keyboard /\ t.locked = s.locked
  BY DEF Server
<1>2. MoveToWorkspace(s, v, w) = FocusNext(u, v)
  BY DEF MoveToWorkspace
<1> HIDE DEF t
<1>3. u \in Server /\ u.keyboard = s.keyboard /\ u.locked = s.locked
  BY <1>1, UpdateVisibilityType DEF UpdateVisibility, Server
<1> HIDE DEF u
<1>4. QED BY <1>2, <1>3, FocusNextShowsOwner

(* view::handle_map.                                                       *)
LEMMA MapShowsOwner ==
  ASSUME NEW s \in Server, s.keyboard, ~s.locked, NEW v \in Views
  PROVE  OwnerVisible(HandleMap(s, v))
<1> DEFINE t == [s EXCEPT !.mapped = @ \cup {v},
                          !.workspace[v] = s.current_workspace,
                          !.views = <<v>> \o @]
           u == UpdateVisibility(t, v)
<1>1. s.views \in Seq(Views) /\ <<v>> \o s.views \in Seq(Views)
  BY ToFront DEF Server
<1>2. /\ t \in Server /\ t.keyboard = s.keyboard /\ t.locked = s.locked
      /\ v \in t.mapped /\ t.workspace[v] = t.current_workspace
  BY <1>1 DEF Server
<1>3. HandleMap(s, v) = Focus(u, v)
  BY DEF HandleMap
<1> HIDE DEF t
<1>4. u \in Server
  BY <1>2, UpdateVisibilityType
<1>5. /\ u.keyboard = s.keyboard /\ u.locked = s.locked
      /\ v \in u.mapped /\ u.workspace[v] = u.current_workspace
  BY <1>2 DEF UpdateVisibility, Server
<1> HIDE DEF u
<1>6. QED BY <1>3, <1>4, <1>5, FocusShowsOwner

(* view::workspace_switch, if it switches.                                 *)
LEMMA SwitchShowsOwner ==
  ASSUME NEW s \in Server, s.keyboard, ~s.locked, NEW w
  PROVE  WorkspaceSwitch(s, w) = s \/ OwnerVisible(WorkspaceSwitch(s, w))
<1>1. CASE w \notin Workspaces \/ w = s.current_workspace
  BY <1>1 DEF WorkspaceSwitch
<1>2. CASE w \in Workspaces /\ w # s.current_workspace
  <2> DEFINE t == ShowWorkspace(s, w)
  <2>1. t \in Server
    BY <1>2, ShowWorkspaceType
  <2>2. t.keyboard = s.keyboard /\ t.locked = s.locked
    BY DEF ShowWorkspace, Server
  <2>3. WorkspaceSwitch(s, w) = FocusTopmost(t, NoSurface)
    BY <1>2 DEF WorkspaceSwitch
  <2> HIDE DEF t
  <2>4. QED BY <2>1, <2>2, <2>3, FocusNextShowsOwner
<1>3. QED BY <1>1, <1>2

(* To the workspace of a mapped window.                                    *)
LEMMA ShowWorkspaceOfShowsOwner ==
  ASSUME TypeInv, srv.keyboard, ~srv.locked,
         NEW v \in Views, v \in srv.mapped, ShowWorkspaceOf(v)
  PROVE  OwnerVisible(srv')
<1> DEFINE w == srv.workspace[v]
           t == WorkspaceSwitch(srv, w)
<1>0. srv \in Server /\ w \in Workspaces
  BY DEF TypeInv, TypeOK, Server
<1>1. t \in Server /\ SeatStep(srv, t) /\ t.workspace = srv.workspace
  BY <1>0, WorkspaceSwitchType, WorkspaceSwitchSeat, WorkspaceSwitchShifts
<1>2. t.mapped = srv.mapped /\ t.current_workspace = w
  <2> DEFINE u == ShowWorkspace(srv, w)
  <2>0. u \in Server
    BY <1>0, ShowWorkspaceType
  <2>1. u.mapped = srv.mapped /\ u.current_workspace = w
    BY <1>0 DEF ShowWorkspace, Server
  <2>2. t = IF w = srv.current_workspace THEN srv ELSE FocusTopmost(u, NoSurface)
    BY <1>0 DEF WorkspaceSwitch
  <2> HIDE DEF u, w, t
  <2>3. PlacesKept(u, FocusTopmost(u, NoSurface))
    BY <2>0, FocusNextRefocus DEF Refocus
  <2>4. QED BY <2>1, <2>2, <2>3 DEF PlacesKept
<1>3. srv' = Focus(t, v)
  BY DEF ShowWorkspaceOf
<1>4. t.workspace[v] = t.current_workspace
  BY <1>1, <1>2
<1> HIDE DEF t
<1>5. QED BY <1>1, <1>2, <1>3, <1>4, FocusShowsOwner DEF SeatStep

(* The keyboard does not come to rest on a window that is off the screen,  *)
(* and the one that has it does not leave the screen.                      *)
OwnerStays(s, t) ==
  \A v \in t.mapped : t.focused_surface = v /\ ~Visible(t, v)
                        => s.focused_surface = v /\ ~Visible(s, v)

(* Two ways to see it.                                                     *)
LEMMA OwnerStaysCases ==
  ASSUME NEW s, NEW t,
         \/ OwnerVisible(t)
         \/ /\ t.focused_surface = s.focused_surface
            /\ t.minimized = s.minimized /\ t.pinned = s.pinned
            /\ t.workspace = s.workspace /\ t.current_workspace = s.current_workspace
  PROVE  OwnerStays(s, t)
  BY DEF OwnerVisible, OwnerStays, Visible

(* Every request of a client or panel and every click on a window, but for *)
(* a panel's restore.                                                      *)
LEMMA WindowOwnerStays ==
  ASSUME ListInv, srv.keyboard, ~srv.locked, FocusSound(srv), WindowNext
  PROVE  OwnerStays(srv, srv') \/ \E u \in Views : ForeignRestore(u)
<1>0. srv \in Server /\ TypeInv /\ Consistent(srv)
  BY DEF ListInv, TypeInv, TypeOK
<1>1. OwnerVisible(srv') => OwnerStays(srv, srv')
  BY OwnerStaysCases
<1>2. PICK v \in Views :
         \/ Map(v) \/ Unmap(v) \/ Destroy(v) \/ RequestMinimize(v)
         \/ ActivationRequest(v)
         \/ ForeignActivate(v) \/ ForeignMinimize(v) \/ ForeignRestore(v)
         \/ ClickWindow(v) \/ ClickMinimizeButton(v) \/ ClickTaskButton(v)
  BY DEF WindowNext
<1>3. CASE Map(v)
  BY <1>0, <1>1, <1>3, MapShowsOwner DEF Map
<1>4. CASE Unmap(v)
  BY <1>0, <1>1, <1>4, UnmapShowsOwner DEF Unmap
<1>5. CASE Destroy(v)
  <2>1. v # srv.focused_surface
    BY <1>5 DEF Destroy, FocusSound, UsableExcept
  <2>2. /\ srv'.focused_surface = srv.focused_surface /\ srv'.mapped = srv.mapped
        /\ srv'.minimized = srv.minimized \ {v} /\ srv'.pinned = srv.pinned \ {v}
        /\ srv'.current_workspace = srv.current_workspace
        /\ \A u \in srv.mapped : u # v => srv'.workspace[u] = srv.workspace[u]
    BY <1>0, <1>5 DEF Destroy, HandleDestroy, Server
  <2>3. QED BY <2>1, <2>2 DEF OwnerStays, Visible
<1>6. CASE RequestMinimize(v) \/ ForeignMinimize(v)
  BY <1>0, <1>1, <1>6, MinimizeShowsOwner DEF RequestMinimize, ForeignMinimize
<1>7. CASE ActivationRequest(v)
  <2>1. v \in srv.mapped
    BY <1>7 DEF ActivationRequest
  <2>2. CASE ShowWorkspaceOf(v)
    BY <1>0, <1>1, <2>1, <2>2, ShowWorkspaceOfShowsOwner
  <2>3. CASE srv' = IF srv.focused_surface = v THEN srv
                    ELSE [srv EXCEPT !.urgent = @ \cup {v}]
    <3>1. /\ srv'.focused_surface = srv.focused_surface
          /\ srv'.minimized = srv.minimized /\ srv'.pinned = srv.pinned
          /\ srv'.workspace = srv.workspace
          /\ srv'.current_workspace = srv.current_workspace
      BY <1>0, <2>3 DEF Server
    <3>2. QED BY <3>1, OwnerStaysCases
  <2>4. QED BY <1>7, <2>2, <2>3 DEF ActivationRequest
<1>8. CASE ForeignActivate(v)
  BY <1>0, <1>1, <1>8, ShowWorkspaceOfShowsOwner DEF ForeignActivate
<1>9. CASE ClickWindow(v)
  <2>1. v \in srv.mapped /\ Visible(srv, v)
    BY <1>0, <1>9 DEF ClickWindow, Consistent, ShownExcept
  <2>2. QED BY <1>0, <1>1, <1>9, <2>1, FocusShowsOwner DEF ClickWindow, Visible
<1>10. CASE ClickMinimizeButton(v)
  <2> DEFINE t == Focus(srv, v)
  <2>1. t \in Server /\ SeatStep(srv, t)
    BY <1>0, FocusType, FocusSeat
  <2>2. srv' = MinimizeAndMoveOn(t, v)
    BY <1>10 DEF ClickMinimizeButton
  <2> HIDE DEF t
  <2>3. QED BY <1>1, <2>1, <2>2, MinimizeShowsOwner DEF SeatStep
<1>11. CASE ClickTaskButton(v)
  <2>1. CASE v \in srv.pinned
    BY <1>0, <1>1, <1>11, <2>1, FocusShowsOwner DEF ClickTaskButton
  <2>2. CASE v \notin srv.pinned
    BY <1>0, <1>1, <1>11, <2>2, ShowWorkspaceOfShowsOwner DEF ClickTaskButton
  <2>3. QED BY <2>1, <2>2
<1>12. QED BY <1>2, <1>3, <1>4, <1>5, <1>6, <1>7, <1>8, <1>9, <1>10, <1>11

(* Every bound action, the overlay and the workspace buttons: a commit     *)
(* focuses a window of the current workspace, since the overlay is live.   *)
LEMMA UserOwnerStays ==
  ASSUME ListInv, OverlayLive(srv, sw), srv.keyboard, ~srv.locked, FocusSound(srv),
         UserNext
  PROVE  OwnerStays(srv, srv')
<1>0. srv \in Server /\ sw \in Overlay /\ TypeInv
  BY DEF ListInv, TypeInv, TypeOK
<1>1. FocusedView # NoSurface =>
        FocusedView \in Views /\ srv.focused_surface = FocusedView
  BY DEF FocusedView
<1>2. OwnerVisible(srv') \/ srv' = srv => OwnerStays(srv, srv')
  BY OwnerStaysCases
<1>3. ASSUME NEW w \in Workspaces, ClickWorkspaceButton(w) \/ ActionWorkspace(w)
      PROVE  OwnerStays(srv, srv')
  BY <1>0, <1>2, <1>3, SwitchShowsOwner
     DEF ClickWorkspaceButton, ActionWorkspace, SwitchTo
<1>4. ASSUME NEW w \in Workspaces, ActionMoveToWorkspace(w)
      PROVE  OwnerStays(srv, srv')
  BY <1>0, <1>1, <1>2, <1>4, MoveShowsOwner DEF ActionMoveToWorkspace
<1>5. ASSUME NEW step \in {1, -1}, ActionCycle(step)
      PROVE  OwnerStays(srv, srv')
  BY <1>2, <1>5 DEF ActionCycle
<1>6. CASE ActionMinimize
  BY <1>0, <1>1, <1>2, <1>6, MinimizeShowsOwner DEF ActionMinimize
<1>7. CASE ActionPin
  <2>1. PICK v \in Views : srv.focused_surface = v /\ srv' = TogglePin(srv, v)
    BY <1>1, <1>7 DEF ActionPin
  <2>2. v \notin srv.minimized
    BY <2>1 DEF FocusSound, UsableExcept
  <2>3. /\ srv'.focused_surface = v /\ srv'.minimized = srv.minimized
        /\ v \in srv'.pinned \/ srv'.workspace[v] = srv'.current_workspace
    BY <1>0, <2>1 DEF TogglePin, Server
  <2>4. QED BY <2>2, <2>3 DEF OwnerStays, Visible
<1>8. CASE CommitSwitcher
  <2>1. sw.open /\ Highlighted(sw) \in Views
    BY <1>8, HighlightedType DEF CommitSwitcher, ListInv, TypeInv, TypeOK
  <2>2. Highlighted(sw) \in ToSet(sw.views)
    <3>1. sw.views \in Seq(Views) /\ sw.selected \in Nat /\ sw.selected < Len(sw.views)
      BY <1>0, <2>1 DEF TypeInv, HighlightInRange, Overlay
    <3>2. sw.selected + 1 \in DOMAIN sw.views
      BY <3>1, LenProperties
    <3>3. QED BY <3>2 DEF Highlighted, ToSet
  <2>3. /\ Highlighted(sw) \in srv.mapped
        /\ srv.workspace[Highlighted(sw)] = srv.current_workspace
    BY <2>1, <2>2 DEF OverlayLive
  <2>4. QED BY <1>0, <1>2, <1>8, <2>1, <2>3, FocusShowsOwner DEF CommitSwitcher
<1>9. CASE CancelSwitcher
  BY <1>2, <1>9 DEF CancelSwitcher
<1>10. QED BY <1>3, <1>4, <1>5, <1>6, <1>7, <1>8, <1>9 DEF UserNext

(* Layer surfaces, lockers and the seat.                                   *)
LEMMA OtherOwnerStays ==
  ASSUME ListInv, FocusSound(srv), LayerNext \/ LockNext \/ SeatNext
  PROVE  srv'.locked \/ OwnerStays(srv, srv')
<1>0. srv \in Server /\ srv.keyboard /\ lock_surfaces \subseteq LockSurfaces
  BY DEF ListInv, TypeInv, TypeOK, FocusSound, SeatSound
<1>1. ASSUME srv' \in Server, srv'.focused_surface \notin Views
      PROVE  OwnerStays(srv, srv')
  BY <1>1 DEF OwnerStays, Server
<1>2. ASSUME NEW l \in Layers, LayerMap(l)
      PROVE  OwnerStays(srv, srv')
  <2>1. srv.locked => srv' = srv
    BY <1>2 DEF LayerMap, FocusLayer
  <2>2. ~srv.locked => srv' \in Server /\ srv'.focused_surface = l
    BY <1>0, <1>2, FocusLayerType DEF LayerMap, FocusLayer, Server
  <2>3. l \notin Views
    BY WindowsAssumption
  <2>4. QED BY <1>1, <2>1, <2>2, <2>3, OwnerStaysCases
<1>3. ASSUME NEW l \in Layers, LayerUnmap(l)
      PROVE  srv'.locked \/ OwnerStays(srv, srv')
  <2> DEFINE t == [srv EXCEPT !.focused_layer = NoSurface]
  <2>1. t \in Server /\ t.keyboard = srv.keyboard /\ t.locked = srv.locked
    BY <1>0 DEF Server
  <2>2. srv' \in {srv, FocusNext(t, NoSurface)}
    BY <1>3 DEF LayerUnmap, UnmapLayer
  <2> HIDE DEF t
  <2>3. t.locked => FocusNext(t, NoSurface) = t
    BY DEF FocusNext
  <2>4. QED BY <1>0, <2>1, <2>2, <2>3, FocusNextShowsOwner, OwnerStaysCases
<1>4. CASE Unlock
  <2> DEFINE t == [srv EXCEPT !.locked = FALSE]
  <2>1. t \in Server /\ t.keyboard = srv.keyboard /\ ~t.locked
    BY <1>0 DEF Server
  <2>2. srv' = FocusNext(t, NoSurface)
    BY <1>4 DEF Unlock
  <2> HIDE DEF t
  <2>3. QED BY <1>0, <2>1, <2>2, FocusNextShowsOwner, OwnerStaysCases
<1>5. ASSUME NEW ls \in LockSurfaces
      PROVE  EnterLockSurface(srv, ls) \in Server
             /\ EnterLockSurface(srv, ls).focused_surface \notin Views
  BY <1>0, WindowsAssumption, EnterLockSurfaceType DEF EnterLockSurface, Server
<1>6. ASSUME NEW ls \in LockSurfaces, NewLockSurface(ls) \/ LockSurfaceDestroyed(ls)
      PROVE  OwnerStays(srv, srv')
  <2>1. CASE NewLockSurface(ls)
    BY <1>1, <1>5, <2>1 DEF NewLockSurface
  <2>2. CASE LockSurfaceDestroyed(ls)
    <3>1. lock_surfaces' \subseteq LockSurfaces
      BY <1>0, <2>2 DEF LockSurfaceDestroyed
    <3>2. \/ srv' = srv
          \/ \E other \in LockSurfaces : srv' = EnterLockSurface(srv, other)
          \/ srv' = [srv EXCEPT !.focused_surface = NoSurface]
      BY <2>2, <3>1 DEF LockSurfaceDestroyed
    <3>3. LET n == [srv EXCEPT !.focused_surface = NoSurface]
          IN  n \in Server /\ n.focused_surface \notin Views
      BY <1>0, WindowsAssumption, ServerUpdates DEF Server
    <3>4. QED BY <1>1, <1>5, <3>2, <3>3, OwnerStaysCases
  <2>3. QED BY <1>6, <2>1, <2>2
<1>7. CASE Lock \/ LockerCrash \/ KeyWhileLocked
  BY <1>0, <1>7 DEF Lock, LockerCrash, KeyWhileLocked, EnterLockSurface, Server
<1>8. CASE KeyboardAttached \/ KeyboardGone
  <2>1. /\ srv'.focused_surface = srv.focused_surface
        /\ srv'.minimized = srv.minimized /\ srv'.pinned = srv.pinned
        /\ srv'.workspace = srv.workspace
        /\ srv'.current_workspace = srv.current_workspace
    BY <1>0, <1>8 DEF KeyboardAttached, KeyboardGone, Server
  <2>2. QED BY <2>1, OwnerStaysCases
<1>9. CASE SurfaceGone
  <2>1. srv' \in Server /\ srv'.focused_surface \notin Views
    BY <1>0, <1>9, WindowsAssumption, ServerUpdates DEF SurfaceGone, Server
  <2>2. QED BY <1>1, <2>1
<1>10. QED BY <1>2, <1>3, <1>4, <1>6, <1>7, <1>8, <1>9
           DEF LayerNext, LockNext, SeatNext

(* While the seat has a keyboard, the keyboard reaches a window of another *)
(* workspace only when a panel restores it from there, and no step takes   *)
(* the workspace away under the focused window: what pins, switches, moves *)
(* and commits look the owner's workspace up at different moments.         *)
THEOREM ForeignFocusNeedsPanel ==
  ASSUME HotPlug = FALSE
  PROVE  Spec => ForeignFocusByPanelOnly
<1> DEFINE Inv == ListInv /\ FocusSound(srv) /\ OverlayLive(srv, sw)
           Step == \A v \in srv'.mapped :
                     srv'.focused_surface = v /\ ~Visible(srv', v) =>
                       \/ srv.focused_surface = v /\ ~Visible(srv, v)
                       \/ ForeignRestore(v)
<1>1. Init => Inv
  BY ListInit, ClosedLive DEF Init
<1>2. ASSUME Inv, [Next]_vars
      PROVE  Inv'
  BY <1>2, DesktopKeeps, OverlayLiveStep
<1>3. ASSUME Inv, [Next]_vars
      PROVE  [Step]_vars
  <2>1. SUFFICES ASSUME Next PROVE Step
    BY <1>3
  <2>2. /\ srv \in Server /\ srv' \in Server /\ srv.keyboard
        /\ srv'.locked => srv'.focused_surface \notin Views
    BY <1>2, <1>3 DEF ListInv, TypeInv, TypeOK, FocusSound, SeatSound
  <2>3. OwnerStays(srv, srv') => Step
    BY DEF OwnerStays
  <2>4. CASE srv'.locked
    BY <2>2, <2>4 DEF Server
  <2>5. CASE ~srv'.locked
    <3>1. WindowNext \/ UserNext => ~srv.locked
      BY <1>3, <2>5, WindowStep, UserStep DEF ListInv, ClientStep, SeatStep
    <3>2. ASSUME NEW u \in Views, ForeignRestore(u), ~srv.locked PROVE Step
      <4> DEFINE t == Minimize(srv, u, FALSE)
      <4>1. t \in Server /\ SeatKept(srv, t)
        BY <2>2, MinimizeType, MinimizeSeat
      <4>2. t.mapped = srv.mapped
        BY <2>2 DEF Minimize, UpdateVisibility, Server
      <4>3. srv' = Focus(t, u) /\ u \in srv.mapped
        BY <3>2 DEF ForeignRestore
      <4> HIDE DEF t
      <4>4. srv'.focused_surface = u
        BY <2>2, <3>2, <4>1, <4>2, <4>3, FocusTakes DEF SeatKept
      <4>5. QED BY <3>2, <4>4
    <3>3. CASE WindowNext
      BY <1>3, <2>2, <2>3, <3>1, <3>2, <3>3, WindowOwnerStays
    <3>4. CASE UserNext
      BY <1>3, <2>2, <2>3, <3>1, <3>4, UserOwnerStays
    <3>5. CASE LayerNext \/ LockNext \/ SeatNext
      BY <1>3, <2>3, <2>5, <3>5, OtherOwnerStays
    <3>6. QED BY <2>1, <3>3, <3>4, <3>5 DEF Next
  <2>6. QED BY <2>4, <2>5
<1>4. QED BY <1>1, <1>2, <1>3, PTL DEF Spec, ForeignFocusByPanelOnly

-----------------------------------------------------------------------------

(* Where the windows of a list are once one of them is unlinked.           *)
LEMMA RemovedPlaces ==
  ASSUME NEW list \in Seq(Views), NEW v \in Views
  PROVE  (\E i \in 1 .. Len(list) : list[i] = v) =>
           \E k \in 1 .. Len(list) :
             /\ list[k] = v
             /\ \A i \in 1 .. k-1 : list[i] # v
             /\ Len(RemoveFirst(list, v)) = Len(list) - 1
             /\ \A i \in 1 .. Len(list) - 1 :
                  RemoveFirst(list, v)[i] = list[IF i < k THEN i ELSE i + 1]
  BY RemoveFirstProperties

(* What stood behind the hole moves up by one place, and the index of the  *)
(* highlight with it.                                                      *)
LEMMA IndexFollows ==
  ASSUME NEW list \in Seq(Views), NEW v \in Views,
         \A i, j \in DOMAIN list : list[i] = list[j] => i = j,
         \E i \in 1 .. Len(list) : list[i] = v,
         NEW selected \in Nat, selected < Len(list), list[selected + 1] # v
  PROVE  LET rest == RemoveFirst(list, v)
             hole == Min({ i \in DOMAIN list : list[i] = v }) - 1
         IN  rest[(IF selected > hole THEN selected - 1
                   ELSE IF selected >= Len(rest) THEN Len(rest) - 1
                   ELSE selected) + 1] = list[selected + 1]
<1> DEFINE rest == RemoveFirst(list, v)
           here == { i \in DOMAIN list : list[i] = v }
           hole == Min(here) - 1
           next == IF selected > hole THEN selected - 1
                   ELSE IF selected >= Len(rest) THEN Len(rest) - 1
                   ELSE selected
<1>1. DOMAIN list = 1 .. Len(list) /\ Len(list) \in Nat
  BY LenProperties
<1>2. PICK k \in 1 .. Len(list) :
         /\ list[k] = v
         /\ \A i \in 1 .. k-1 : list[i] # v
         /\ Len(rest) = Len(list) - 1
         /\ \A i \in 1 .. Len(list) - 1 :
              rest[i] = list[IF i < k THEN i ELSE i + 1]
  BY RemovedPlaces
<1>3. \A i \in DOMAIN list : list[i] = v => i = k
  BY <1>1, <1>2
<1>4. hole = k - 1
  <2>1. here = {k} /\ here \in SUBSET Nat
    BY <1>1, <1>2, <1>3
  <2>2. Min(here) \in here
    BY <2>1, MinExists
  <2>3. QED BY <2>1, <2>2
<1>5. selected + 1 # k
  BY <1>2
<1> HIDE DEF rest, here, hole
<1>6. /\ next + 1 \in 1 .. Len(list) - 1
      /\ (IF next + 1 < k THEN next + 1 ELSE next + 1 + 1) = selected + 1
  BY <1>1, <1>2, <1>4, <1>5
<1> HIDE DEF next
<1>7. rest[next + 1] = list[selected + 1]
  BY <1>2, <1>6
<1>8. QED BY <1>7 DEF rest, here, hole, next

(* switcher::view_removed leaves the highlight on its window, unless it is *)
(* the one that went.                                                      *)
LEMMA HighlightFollows ==
  ASSUME NEW o \in Overlay, o.open, HighlightInRange(o),
         LinkedOnce(o.views, ToSet(o.views)), NEW v \in Views,
         ViewRemoved(o, v).open,
         Highlighted(o) \in ToSet(ViewRemoved(o, v).views)
  PROVE  Highlighted(ViewRemoved(o, v)) = Highlighted(o)
<1> DEFINE rest == RemoveFirst(o.views, v)
           hole == Min({ i \in DOMAIN o.views : o.views[i] = v }) - 1
           next == IF o.selected > hole THEN o.selected - 1
                   ELSE IF o.selected >= Len(rest) THEN Len(rest) - 1
                   ELSE o.selected
           r == ViewRemoved(o, v)
<1>1. /\ o.views \in Seq(Views) /\ DOMAIN o.views = 1 .. Len(o.views)
      /\ o.selected \in Nat /\ o.selected < Len(o.views)
  BY LenProperties DEF Overlay, HighlightInRange
<1>2. CASE v \notin ToSet(o.views)
  BY <1>2 DEF ViewRemoved
<1>3. CASE v \in ToSet(o.views)
  <2>1. r = [o EXCEPT !.views = rest, !.selected = next]
    BY <1>3 DEF ViewRemoved, Closed
  <2>2. r.views = rest /\ r.selected = next
    BY <2>1 DEF Overlay
  <2>3. v \notin ToSet(rest)
    <3>1. LinkedOnce(rest, ToSet(o.views) \ {v})
      BY <1>1, RemoveUnlinks
    <3> HIDE DEF rest
    <3>2. QED BY <3>1 DEF LinkedOnce, ToSet
  <2>4. o.views[o.selected + 1] # v
    BY <2>2, <2>3 DEF Highlighted
  <2>5. \E i \in 1 .. Len(o.views) : o.views[i] = v
    BY <1>1, <1>3 DEF ToSet
  <2>6. \A i, j \in DOMAIN o.views : o.views[i] = o.views[j] => i = j
    BY DEF LinkedOnce
  <2>7. rest[next + 1] = o.views[o.selected + 1]
    BY <1>1, <2>4, <2>5, <2>6, IndexFollows
  <2> HIDE DEF rest, next
  <2>8. QED BY <2>2, <2>7 DEF Highlighted
<1>4. QED BY <1>2, <1>3

(* What a step may do to an overlay: leave it, close it, take a window out *)
(* of it, or move the highlight of one that is open.                       *)
LEMMA OverlayMoves ==
  ASSUME TypeInv, [Next]_vars
  PROVE  \/ sw' \in {sw, Closed}
         \/ \E v \in Views : sw' = ViewRemoved(sw, v)
         \/ sw.open => sw'.views = sw.views
<1>1. CASE WindowNext
  <2>1. PICK v \in Views :
           \/ Map(v) \/ Unmap(v) \/ Destroy(v) \/ RequestMinimize(v)
           \/ ActivationRequest(v)
           \/ ForeignActivate(v) \/ ForeignMinimize(v) \/ ForeignRestore(v)
           \/ ClickWindow(v) \/ ClickMinimizeButton(v) \/ ClickTaskButton(v)
    BY <1>1 DEF WindowNext
  <2>2. ShowWorkspaceOf(v) => sw' \in {sw, Closed}
    BY DEF ShowWorkspaceOf
  <2>3. QED BY <2>1, <2>2 DEF Map, Unmap, Destroy, RequestMinimize,
       ActivationRequest, ForeignActivate, ForeignMinimize, ForeignRestore,
       ClickWindow, ClickMinimizeButton, ClickTaskButton
<1>2. CASE UserNext
  <2>1. FocusedView # NoSurface => FocusedView \in Views
    BY DEF FocusedView
  <2>2. ASSUME NEW step \in {1, -1}, ActionCycle(step), sw.open
        PROVE  sw'.views = sw.views
    BY <2>2 DEF ActionCycle, Cycle, TypeInv, TypeOK, Overlay
  <2>3. QED BY <1>2, <2>1, <2>2 DEF UserNext, ClickWorkspaceButton, ActionWorkspace,
       SwitchTo, ActionMoveToWorkspace, ActionMinimize, ActionPin,
       CommitSwitcher, CancelSwitcher
<1>3. CASE LayerNext \/ LockNext \/ SeatNext
  BY <1>3, OtherPlaces
<1>4. CASE UNCHANGED vars
  BY <1>4 DEF vars
<1>5. QED BY <1>1, <1>2, <1>3, <1>4 DEF Next

(* When a window leaves an open overlay, the highlight stays on the window *)
(* it was on, wherever in the list the hole is.                            *)
THEOREM HighlightStaysOnWindow == Spec => HighlightKept
<1> DEFINE Inv == ListInv /\ OverlayLive(srv, sw)
           Step == /\ sw.open /\ sw'.open
                   /\ Len(sw'.views) < Len(sw.views)
                   /\ Highlighted(sw) \in ToSet(sw'.views)
                   => Highlighted(sw') = Highlighted(sw)
<1>1. Init => Inv
  BY ListInit, ClosedLive DEF Init
<1>2. ASSUME Inv, [Next]_vars
      PROVE  Inv'
  BY <1>2, DesktopKeeps, OverlayLiveStep
<1>3. ASSUME Inv, [Next]_vars
      PROVE  [Step]_vars
  <2>1. SUFFICES ASSUME sw.open, sw'.open, Len(sw'.views) < Len(sw.views),
                        Highlighted(sw) \in ToSet(sw'.views)
                 PROVE  Highlighted(sw') = Highlighted(sw)
    OBVIOUS
  <2>2. /\ sw \in Overlay /\ HighlightInRange(sw) /\ TypeInv
        /\ LinkedOnce(sw.views, ToSet(sw.views))
    BY <1>3, <2>1 DEF ListInv, TypeInv, TypeOK, OverlayLive
  <2>3. Len(sw.views) \in Nat
    BY <2>2, LenProperties DEF Overlay
  <2>4. sw'.views # sw.views /\ sw' # sw /\ sw' # Closed
    BY <2>1, <2>3 DEF Closed
  <2>5. PICK v \in Views : sw' = ViewRemoved(sw, v)
    BY <1>3, <2>1, <2>2, <2>4, OverlayMoves
  <2>6. QED BY <2>1, <2>2, <2>5, HighlightFollows
<1>4. QED BY <1>1, <1>2, <1>3, PTL DEF Spec, HighlightKept
=============================================================================
