---------------------------- MODULE WindowsProofs ---------------------------
(***************************************************************************)
(* What every function of Windows.tla keeps: the type of the server record;*)
(* how much of the seat (lock, keyboard, focused surface) each may change; *)
(* that list, scene and workspaces stay consistent and the window with the *)
(* keyboard usable; whom each may take off a workspace.                    *)
(***************************************************************************)
EXTENDS Windows, ListsProofs

-----------------------------------------------------------------------------
(* The window list and the focused window *)

(* A non-empty set of naturals contains its minimum.                       *)
LEMMA MinExists ==
  ASSUME NEW I \in SUBSET Nat, I # {}
  PROVE  /\ Min(I) \in I
         /\ \A j \in I : Min(I) <= j
<1>1. \E x \in I : \A y \in I : x <= y
  BY LeastExists
<1>2. QED BY <1>1 DEF Min

(* wl_list_remove: removing the first occurrence of e drops one position k *)
(* with s[k] = e and keeps the order of the others.                        *)
LEMMA RemoveFirstProperties ==
  ASSUME NEW S, NEW s \in Seq(S), NEW e
  PROVE  /\ RemoveFirst(s, e) \in Seq(S)
         /\ (\A i \in 1 .. Len(s) : s[i] # e) => RemoveFirst(s, e) = s
         /\ (\E i \in 1 .. Len(s) : s[i] = e) =>
              \E k \in 1 .. Len(s) :
                /\ s[k] = e
                /\ \A i \in 1 .. k-1 : s[i] # e
                /\ Len(RemoveFirst(s, e)) = Len(s) - 1
                /\ \A i \in 1 .. Len(s) - 1 :
                     RemoveFirst(s, e)[i] = s[IF i < k THEN i ELSE i + 1]
<1>1. CASE \A i \in 1 .. Len(s) : s[i] # e
  BY <1>1 DEF RemoveFirst
<1>2. CASE \E i \in 1 .. Len(s) : s[i] = e
  <2> DEFINE I == { i \in 1 .. Len(s) : s[i] = e }
             k == Min(I)
  <2>1. k \in I /\ \A j \in I : k <= j
    <3>1. I \in SUBSET Nat /\ I # {}
      BY <1>2
    <3>2. QED BY <3>1, MinExists
  <2>2. RemoveFirst(s, e) = SubSeq(s, 1, k-1) \o SubSeq(s, k+1, Len(s))
    BY <1>2 DEF RemoveFirst, RemoveAt, SelectInSeq
  <2>3. Len(s) \in Nat BY LenProperties
  <2> HIDE DEF k
  <2>4. k \in 1 .. Len(s) /\ s[k] = e
    BY <2>1
  <2> DEFINE a == SubSeq(s, 1, k-1)
             b == SubSeq(s, k+1, Len(s))
  <2>5. /\ a \in Seq(S) /\ Len(a) = k - 1
        /\ \A i \in 1 .. k-1 : a[i] = s[i]
    BY <2>3, <2>4
  <2>6. /\ b \in Seq(S) /\ Len(b) = Len(s) - k
        /\ \A i \in 1 .. Len(s) - k : b[i] = s[k + i]
    BY <2>3, <2>4
  <2>7. /\ RemoveFirst(s, e) \in Seq(S)
        /\ Len(RemoveFirst(s, e)) = Len(s) - 1
        /\ \A i \in 1 .. Len(s) - 1 :
             RemoveFirst(s, e)[i] = s[IF i < k THEN i ELSE i + 1]
    <3>0. RemoveFirst(s, e) = a \o b
      BY <2>2
    <3> HIDE DEF a, b
    <3>1. /\ a \o b \in Seq(S)
          /\ Len(a \o b) = Len(a) + Len(b)
          /\ \A i \in 1 .. Len(a) + Len(b) :
               (a \o b)[i] = IF i <= Len(a) THEN a[i] ELSE b[i - Len(a)]
      BY <2>5, <2>6, ConcatProperties
    <3>2. Len(a \o b) = Len(s) - 1
      BY <3>1, <2>3, <2>4, <2>5, <2>6
    <3>3. ASSUME NEW i \in 1 .. Len(s) - 1
          PROVE  (a \o b)[i] = s[IF i < k THEN i ELSE i + 1]
      <4>1. CASE i < k
        BY <4>1, <3>1, <2>3, <2>4, <2>5, <2>6
      <4>2. CASE ~ (i < k)
        <5>1. i - (k - 1) \in 1 .. Len(s) - k
          BY <4>2, <2>3, <2>4
        <5>2. b[i - (k - 1)] = s[k + (i - (k - 1))]
          BY <5>1, <2>6
        <5>3. k + (i - (k - 1)) = i + 1
          BY <2>3, <2>4
        <5>4. QED BY <4>2, <5>2, <5>3, <3>1, <2>3, <2>4, <2>5, <2>6
      <4>3. QED BY <4>1, <4>2
    <3>4. QED BY <3>0, <3>1, <3>2, <3>3
  <2>8. \A i \in 1 .. k-1 : s[i] # e
    BY <2>1, <2>3, <2>4
  <2>9. QED BY <2>4, <2>7, <2>8, <1>2
<1>3. QED BY <1>1, <1>2

(* wl_list_insert at the head: e comes first and the others move by one.   *)
LEMMA ToFront ==
  ASSUME NEW S, NEW s \in Seq(S), NEW e \in S
  PROVE  /\ <<e>> \o s \in Seq(S)
         /\ Len(<<e>> \o s) = Len(s) + 1
         /\ (<<e>> \o s)[1] = e
         /\ \A i \in 1 .. Len(s) : (<<e>> \o s)[i + 1] = s[i]
  BY ConcatProperties

(* The list move and the focus change of view::focus keep the type.        *)
LEMMA ActivateType ==
  ASSUME NEW s \in Server, NEW v \in Views
  PROVE  Activate(s, v) \in Server
<1>1. s.views \in Seq(Views)
  BY DEF Server
<1>2. <<v>> \o RemoveFirst(s.views, v) \in Seq(Views)
  BY <1>1, RemoveFirstProperties, ToFront
<1>3. QED BY <1>2 DEF Activate, Server, Surfaces

(* The server starts well typed.                                           *)
LEMMA InitServerType ==
  ASSUME NEW k \in BOOLEAN
  PROVE  InitServer(k) \in Server
<1>1. 0 \in Workspaces /\ 1 \in Workspaces
  BY WindowsAssumption DEF Workspaces
<1>2. <<>> \in Seq(Views)
  BY EmptySeq
<1>3. QED BY <1>1, <1>2 DEF InitServer, Server, Surfaces

(* view::update_visibility keeps the type.                                 *)
LEMMA UpdateVisibilityType ==
  ASSUME NEW s \in Server, NEW v \in Views
  PROVE  UpdateVisibility(s, v) \in Server
  BY DEF UpdateVisibility, Server

(* view::minimize keeps the type.                                          *)
LEMMA MinimizeType ==
  ASSUME NEW s \in Server, NEW v \in Views, NEW min \in BOOLEAN
  PROVE  Minimize(s, v, min) \in Server
<1>1. [s EXCEPT !.minimized = IF min THEN @ \cup {v} ELSE @ \ {v}] \in Server
  BY DEF Server
<1>2. QED BY <1>1, UpdateVisibilityType DEF Minimize

(* The part of view::focus that restores a window keeps the type.          *)
LEMMA RestoreType ==
  ASSUME NEW s \in Server, NEW v \in Views
  PROVE  Restore(s, v) \in Server
  BY MinimizeType DEF Restore, Server

(* view::focus keeps the type.                                             *)
LEMMA FocusType ==
  ASSUME NEW s \in Server, NEW v \in Views
  PROVE  Focus(s, v) \in Server
  BY RestoreType, ActivateType DEF Focus

(* The loop of view::focus_next stops at the first window of the list that *)
(* focus may fall back on.                                                 *)
LEMMA TopmostIsCandidate ==
  ASSUME NEW s \in Server, NEW skip, Candidates(s, skip) # {}
  PROVE  /\ Min(Candidates(s, skip)) \in Candidates(s, skip)
         /\ s.views[Min(Candidates(s, skip))] \in Views
         /\ \A i \in Candidates(s, skip) : Min(Candidates(s, skip)) <= i
<1>1. s.views \in Seq(Views)
  BY DEF Server
<1>2. Candidates(s, skip) \in SUBSET (1 .. Len(s.views))
  BY <1>1 DEF Candidates
<1>3. Len(s.views) \in Nat
  BY <1>1, LenProperties
<1>4. /\ Min(Candidates(s, skip)) \in Candidates(s, skip)
      /\ \A i \in Candidates(s, skip) : Min(Candidates(s, skip)) <= i
  BY <1>2, <1>3, MinExists
<1>5. QED BY <1>1, <1>2, <1>4, ElementOfSeq

(* The loop of view::focus_next and its clear_focus keep the type.         *)
LEMMA FocusTopmostType ==
  ASSUME NEW s \in Server, NEW skip
  PROVE  FocusTopmost(s, skip) \in Server
<1>1. CASE Candidates(s, skip) # {}
  BY <1>1, TopmostIsCandidate, FocusType DEF FocusTopmost
<1>2. CASE Candidates(s, skip) = {}
  BY <1>2 DEF FocusTopmost, Server, Surfaces
<1>3. QED BY <1>1, <1>2

(* view::focus_next keeps the type.                                        *)
LEMMA FocusNextType ==
  ASSUME NEW s \in Server, NEW skip
  PROVE  FocusNext(s, skip) \in Server
  BY FocusTopmostType DEF FocusNext

(* The first half of view::workspace_switch keeps the type.                *)
LEMMA ShowWorkspaceType ==
  ASSUME NEW s \in Server, NEW w \in Workspaces
  PROVE  ShowWorkspace(s, w) \in Server
<1> DEFINE t == [s EXCEPT !.current_workspace = w,
                          !.max_visible_workspace = IF w > @ THEN w ELSE @]
<1>1. t \in Server
  BY DEF Server
<1> HIDE DEF t
<1>2. [t EXCEPT !.shown = {v \in t.mapped : Visible(t, v)}] \in Server
  BY <1>1 DEF Server
<1>3. QED BY <1>2 DEF ShowWorkspace, t

(* view::workspace_switch keeps the type, whatever number it is given.     *)
LEMMA WorkspaceSwitchType ==
  ASSUME NEW s \in Server, NEW w
  PROVE  WorkspaceSwitch(s, w) \in Server
  BY ShowWorkspaceType, FocusTopmostType DEF WorkspaceSwitch

(* view::move_to_workspace keeps the type.                                 *)
LEMMA MoveToWorkspaceType ==
  ASSUME NEW s \in Server, NEW v \in Views, NEW w \in Workspaces
  PROVE  MoveToWorkspace(s, v, w) \in Server
<1> DEFINE t == [s EXCEPT !.pinned = @ \ {v},
                          !.workspace[v] = w,
                          !.max_visible_workspace = IF w > @ THEN w ELSE @]
<1>1. t \in Server
  BY DEF Server
<1> HIDE DEF t
<1>2. FocusNext(UpdateVisibility(t, v), v) \in Server
  BY <1>1, UpdateVisibilityType, FocusNextType
<1>3. QED BY <1>2 DEF MoveToWorkspace, t

(* Minimizing a window and moving the focus on keeps the type.             *)
LEMMA MinimizeAndMoveOnType ==
  ASSUME NEW s \in Server, NEW v \in Views
  PROVE  MinimizeAndMoveOn(s, v) \in Server
  BY MinimizeType, FocusNextType DEF MinimizeAndMoveOn

(* The pin action keeps the type.                                          *)
LEMMA TogglePinType ==
  ASSUME NEW s \in Server, NEW v \in Views
  PROVE  TogglePin(s, v) \in Server
<1>1. [s EXCEPT !.pinned = @ \ {v}, !.workspace[v] = s.current_workspace] \in Server
  BY DEF Server
<1>2. [s EXCEPT !.pinned = @ \cup {v}] \in Server
  BY DEF Server
<1>3. QED BY <1>1, <1>2 DEF TogglePin

(* view::handle_map keeps the type.                                        *)
LEMMA HandleMapType ==
  ASSUME NEW s \in Server, NEW v \in Views
  PROVE  HandleMap(s, v) \in Server
<1> DEFINE t == [s EXCEPT !.mapped = @ \cup {v},
                          !.workspace[v] = s.current_workspace,
                          !.views = <<v>> \o @]
<1>1. <<v>> \o s.views \in Seq(Views)
  BY ToFront DEF Server
<1>2. t \in Server
  BY <1>1 DEF Server
<1> HIDE DEF t
<1>3. Focus(UpdateVisibility(t, v), v) \in Server
  BY <1>2, UpdateVisibilityType, FocusType
<1>4. QED BY <1>3 DEF HandleMap, t

(* view::handle_unmap keeps the type.                                      *)
LEMMA HandleUnmapType ==
  ASSUME NEW s \in Server, NEW v \in Views
  PROVE  HandleUnmap(s, v) \in Server
<1> DEFINE t == [s EXCEPT !.focused_surface = IF @ = v THEN NoSurface ELSE @,
                          !.activated = @ \ {v},
                          !.mapped = @ \ {v},
                          !.views = RemoveFirst(@, v),
                          !.shown = @ \ {v}]
<1>1. RemoveFirst(s.views, v) \in Seq(Views)
  BY RemoveFirstProperties DEF Server
<1>2. t \in Server
  BY <1>1 DEF Server, Surfaces
<1> HIDE DEF t
<1>3. QED BY <1>2, FocusNextType DEF HandleUnmap, t

(* view::handle_destroy keeps the type.                                    *)
LEMMA HandleDestroyType ==
  ASSUME NEW s \in Server, NEW v \in Views
  PROVE  HandleDestroy(s, v) \in Server
<1>1. 0 \in Workspaces
  BY WindowsAssumption DEF Workspaces
<1>2. QED BY <1>1 DEF HandleDestroy, Server

(* layer_surface::focus keeps the type.                                    *)
LEMMA FocusLayerType ==
  ASSUME NEW s \in Server, NEW l \in Layers
  PROVE  FocusLayer(s, l) \in Server
  BY DEF FocusLayer, Server, Surfaces

(* layer_surface::on_unmap keeps the type.                                 *)
LEMMA UnmapLayerType ==
  ASSUME NEW s \in Server, NEW l \in Layers
  PROVE  UnmapLayer(s, l) \in Server
<1>1. [s EXCEPT !.focused_layer = NoSurface] \in Server
  BY DEF Server
<1>2. QED BY <1>1, FocusNextType DEF UnmapLayer

-----------------------------------------------------------------------------

(* What a function on windows may do to the seat: it neither locks nor     *)
(* unlocks, attaches no keyboard, and moves the focus to a window only in  *)
(* an unlocked session; clearing it is always possible.                    *)
SeatStep(s, t) ==
  /\ t.locked = s.locked
  /\ t.keyboard = s.keyboard
  /\ t.focused_surface \in {s.focused_surface, NoSurface}
                            \cup (IF s.locked THEN {} ELSE Views)

(* The seat is not touched.                                                *)
SeatKept(s, t) ==
  /\ t.locked = s.locked
  /\ t.keyboard = s.keyboard
  /\ t.focused_surface = s.focused_surface

(* view::minimize does not touch the seat.                                 *)
LEMMA MinimizeSeat ==
  ASSUME NEW s \in Server, NEW v \in Views, NEW min \in BOOLEAN
  PROVE  SeatKept(s, Minimize(s, v, min))
  BY DEF SeatKept, Minimize, UpdateVisibility, Server

(* Restoring a window does not touch the seat.                             *)
LEMMA RestoreSeat ==
  ASSUME NEW s \in Server, NEW v \in Views
  PROVE  SeatKept(s, Restore(s, v))
<1> DEFINE r == IF v \in s.minimized THEN Minimize(s, v, FALSE) ELSE s
<1>1. r \in Server /\ SeatKept(s, r)
  BY MinimizeType, MinimizeSeat DEF SeatKept
<1>2. Restore(s, v) = [r EXCEPT !.urgent = @ \ {v}]
  BY DEF Restore
<1> HIDE DEF r
<1>3. QED BY <1>1, <1>2 DEF SeatKept, Server

(* view::focus moves the focus to the window or not at all, and never in a *)
(* locked session: the test at its top.                                    *)
LEMMA FocusSeat ==
  ASSUME NEW s \in Server, NEW v \in Views
  PROVE  SeatStep(s, Focus(s, v))
<1> DEFINE r == Restore(s, v)
<1>1. r \in Server /\ SeatKept(s, r)
  BY RestoreType, RestoreSeat
<1>2. Focus(s, v) = IF v \notin s.mapped \/ s.locked THEN s
                    ELSE IF s.focused_surface = v THEN r
                    ELSE Activate(r, v)
  BY DEF Focus
<1> HIDE DEF r
<1>3. /\ Activate(r, v).locked = r.locked
      /\ Activate(r, v).keyboard = r.keyboard
      /\ Activate(r, v).focused_surface \in {r.focused_surface, v}
  BY <1>1 DEF Activate, Server
<1>4. QED BY <1>1, <1>2, <1>3 DEF SeatStep, SeatKept

(* The loop of view::focus_next, which workspace_switch runs without a     *)
(* test of the lock, only ever clears the focus of a locked session.       *)
LEMMA FocusTopmostSeat ==
  ASSUME NEW s \in Server, NEW skip
  PROVE  SeatStep(s, FocusTopmost(s, skip))
<1>1. CASE Candidates(s, skip) # {}
  BY <1>1, TopmostIsCandidate, FocusSeat DEF FocusTopmost
<1>2. CASE Candidates(s, skip) = {}
  BY <1>2 DEF FocusTopmost, SeatStep, Server
<1>3. QED BY <1>1, <1>2

(* view::focus_next is a seat step.                                        *)
LEMMA FocusNextSeat ==
  ASSUME NEW s \in Server, NEW skip
  PROVE  SeatStep(s, FocusNext(s, skip))
  BY FocusTopmostSeat DEF FocusNext, SeatStep

(* view::workspace_switch is a seat step.                                  *)
LEMMA WorkspaceSwitchSeat ==
  ASSUME NEW s \in Server, NEW w
  PROVE  SeatStep(s, WorkspaceSwitch(s, w))
<1>1. CASE w \notin Workspaces \/ w = s.current_workspace
  BY <1>1 DEF WorkspaceSwitch, SeatStep
<1>2. CASE ~ (w \notin Workspaces \/ w = s.current_workspace)
  <2> DEFINE t == ShowWorkspace(s, w)
  <2>1. t \in Server /\ SeatKept(s, t)
    <3>1. w \in Workspaces /\ t \in Server
      BY <1>2, ShowWorkspaceType
    <3>2. SeatKept(s, t)
      BY DEF ShowWorkspace, SeatKept, Server
    <3>3. QED BY <3>1, <3>2
  <2>2. WorkspaceSwitch(s, w) = FocusTopmost(t, NoSurface)
    BY <1>2 DEF WorkspaceSwitch
  <2> HIDE DEF t
  <2>3. QED BY <2>1, <2>2, FocusTopmostSeat DEF SeatStep, SeatKept
<1>3. QED BY <1>1, <1>2

(* view::move_to_workspace is a seat step.                                 *)
LEMMA MoveToWorkspaceSeat ==
  ASSUME NEW s \in Server, NEW v \in Views, NEW w \in Workspaces
  PROVE  SeatStep(s, MoveToWorkspace(s, v, w))
<1> DEFINE t == [s EXCEPT !.pinned = @ \ {v},
                          !.workspace[v] = w,
                          !.max_visible_workspace = IF w > @ THEN w ELSE @]
           u == UpdateVisibility(t, v)
<1>1. t \in Server /\ SeatKept(s, t)
  BY DEF Server, SeatKept
<1>2. MoveToWorkspace(s, v, w) = FocusNext(u, v)
  BY DEF MoveToWorkspace
<1> HIDE DEF t
<1>3. u \in Server /\ SeatKept(t, u)
  BY <1>1, UpdateVisibilityType DEF UpdateVisibility, SeatKept, Server
<1> HIDE DEF u
<1>4. QED BY <1>1, <1>2, <1>3, FocusNextSeat DEF SeatStep, SeatKept

(* Minimizing a window and moving the focus on is a seat step.             *)
LEMMA MinimizeAndMoveOnSeat ==
  ASSUME NEW s \in Server, NEW v \in Views
  PROVE  SeatStep(s, MinimizeAndMoveOn(s, v))
<1> DEFINE t == Minimize(s, v, TRUE)
<1>1. t \in Server /\ SeatKept(s, t)
  BY MinimizeType, MinimizeSeat
<1>2. MinimizeAndMoveOn(s, v) = FocusNext(t, v)
  BY DEF MinimizeAndMoveOn
<1> HIDE DEF t
<1>3. QED BY <1>1, <1>2, FocusNextSeat DEF SeatStep, SeatKept

(* The pin action is a seat step.                                          *)
LEMMA TogglePinSeat ==
  ASSUME NEW s \in Server, NEW v \in Views
  PROVE  SeatStep(s, TogglePin(s, v))
  BY DEF TogglePin, SeatStep, Server

(* view::handle_map is a seat step.                                        *)
LEMMA HandleMapSeat ==
  ASSUME NEW s \in Server, NEW v \in Views
  PROVE  SeatStep(s, HandleMap(s, v))
<1> DEFINE t == [s EXCEPT !.mapped = @ \cup {v},
                          !.workspace[v] = s.current_workspace,
                          !.views = <<v>> \o @]
           u == UpdateVisibility(t, v)
<1>1. <<v>> \o s.views \in Seq(Views)
  BY ToFront DEF Server
<1>2. t \in Server /\ SeatKept(s, t)
  BY <1>1 DEF Server, SeatKept
<1>3. HandleMap(s, v) = Focus(u, v)
  BY DEF HandleMap
<1> HIDE DEF t
<1>4. u \in Server /\ SeatKept(t, u)
  BY <1>2, UpdateVisibilityType DEF UpdateVisibility, SeatKept, Server
<1> HIDE DEF u
<1>5. QED BY <1>2, <1>3, <1>4, FocusSeat DEF SeatStep, SeatKept

(* view::handle_unmap is a seat step.                                      *)
LEMMA HandleUnmapSeat ==
  ASSUME NEW s \in Server, NEW v \in Views
  PROVE  SeatStep(s, HandleUnmap(s, v))
<1> DEFINE t == [s EXCEPT !.focused_surface = IF @ = v THEN NoSurface ELSE @,
                          !.activated = @ \ {v},
                          !.mapped = @ \ {v},
                          !.views = RemoveFirst(@, v),
                          !.shown = @ \ {v}]
<1>1. RemoveFirst(s.views, v) \in Seq(Views)
  BY RemoveFirstProperties DEF Server
<1>2. t \in Server /\ SeatStep(s, t)
  BY <1>1 DEF Server, Surfaces, SeatStep
<1>3. HandleUnmap(s, v) = FocusNext(t, v)
  BY DEF HandleUnmap
<1> HIDE DEF t
<1>4. QED BY <1>2, <1>3, FocusNextSeat DEF SeatStep

(* layer_surface::on_unmap is a seat step.                                 *)
LEMMA UnmapLayerSeat ==
  ASSUME NEW s \in Server, NEW l \in Layers
  PROVE  SeatStep(s, UnmapLayer(s, l))
<1> DEFINE t == [s EXCEPT !.focused_layer = NoSurface]
<1>1. t \in Server /\ SeatKept(s, t)
  BY DEF Server, SeatKept
<1>2. UnmapLayer(s, l) = IF s.focused_layer = l THEN FocusNext(t, NoSurface)
                                                ELSE s
  BY DEF UnmapLayer
<1> HIDE DEF t
<1>3. QED BY <1>1, <1>2, FocusNextSeat DEF SeatStep, SeatKept

-----------------------------------------------------------------------------

(* A list holds each window of a set once, and no other.                   *)
LinkedOnce(list, set) ==
  /\ \A v \in Views : v \in set <=> \E i \in DOMAIN list : list[i] = v
  /\ \A i, j \in DOMAIN list : list[i] = list[j] => i = j

Listed(s) == LinkedOnce(s.views, s.mapped)

(* The scene shows no window but those that belong on the screen, with the *)
(* possible exception of some.                                             *)
ShownExcept(s, some) ==
  \A v \in s.shown \ some : v \in s.mapped /\ Visible(s, v)

(* No window, and not the user, is on a workspace without a button.        *)
Reachable(s) ==
  /\ s.current_workspace <= s.max_visible_workspace
  /\ \A v \in s.mapped : s.workspace[v] <= s.max_visible_workspace

Consistent(s) == Listed(s) /\ ShownExcept(s, {}) /\ Reachable(s)

(* wl_list_remove of the only occurrence of a window unlinks the window.   *)
LEMMA RemoveUnlinks ==
  ASSUME NEW list \in Seq(Views), NEW set, LinkedOnce(list, set), NEW v \in Views
  PROVE  LinkedOnce(RemoveFirst(list, v), set \ {v})
<1>0. Len(list) \in Nat /\ DOMAIN list = 1 .. Len(list)
  BY LenProperties
<1>1. CASE \A i \in 1 .. Len(list) : list[i] # v
  <2>1. RemoveFirst(list, v) = list
    BY <1>0, <1>1, RemoveFirstProperties
  <2>2. QED BY <1>0, <1>1, <2>1 DEF LinkedOnce
<1>2. CASE \E i \in 1 .. Len(list) : list[i] = v
  <2> DEFINE n == Len(list)
             r == RemoveFirst(list, v)
  <2>0. \E k \in 1 .. Len(list) :
          /\ list[k] = v
          /\ Len(RemoveFirst(list, v)) = Len(list) - 1
          /\ \A i \in 1 .. Len(list) - 1 :
               RemoveFirst(list, v)[i] = list[IF i < k THEN i ELSE i + 1]
    <3>1. (\E i \in 1 .. Len(list) : list[i] = v) =>
            \E k \in 1 .. Len(list) :
              /\ list[k] = v
              /\ \A i \in 1 .. k-1 : list[i] # v
              /\ Len(RemoveFirst(list, v)) = Len(list) - 1
              /\ \A i \in 1 .. Len(list) - 1 :
                   RemoveFirst(list, v)[i] = list[IF i < k THEN i ELSE i + 1]
      BY RemoveFirstProperties
    <3>2. QED BY <1>2, <3>1
  <2>1. PICK k \in 1 .. n :
          /\ list[k] = v
          /\ Len(r) = n - 1
          /\ \A i \in 1 .. n - 1 : r[i] = list[IF i < k THEN i ELSE i + 1]
    BY <2>0
  <2>2. r \in Seq(Views) /\ DOMAIN r = 1 .. n - 1
    <3>1. r \in Seq(Views)
      BY RemoveFirstProperties
    <3>2. DOMAIN r = 1 .. Len(r)
      BY <3>1, LenProperties
    <3>3. QED BY <2>1, <3>1, <3>2
  <2> HIDE DEF r
  <2>3. ASSUME NEW i \in 1 .. n - 1, NEW j \in 1 .. n - 1, r[i] = r[j]
        PROVE  i = j
    <3> DEFINE p == IF i < k THEN i ELSE i + 1
               q == IF j < k THEN j ELSE j + 1
    <3>1. p \in 1 .. n /\ q \in 1 .. n /\ list[p] = list[q]
      BY <1>0, <2>1, <2>3
    <3>2. p = q
      BY <1>0, <3>1 DEF LinkedOnce
    <3>3. QED BY <3>2, <1>0, <2>1
  <2>4. ASSUME NEW i \in 1 .. n - 1
        PROVE  r[i] \in set \ {v}
    <3> DEFINE p == IF i < k THEN i ELSE i + 1
    <3>1. p \in 1 .. n /\ p # k /\ r[i] = list[p]
      BY <1>0, <2>1
    <3>2. list[p] # list[k]
      BY <1>0, <2>1, <3>1 DEF LinkedOnce
    <3>3. list[p] \in Views
      BY <1>0, <3>1, ElementOfSeq
    <3>4. QED BY <1>0, <2>1, <3>1, <3>2, <3>3 DEF LinkedOnce
  <2>5. ASSUME NEW u \in Views, u \in set, u # v
        PROVE  \E i \in 1 .. n - 1 : r[i] = u
    <3>1. PICK p \in 1 .. n : list[p] = u
      BY <1>0, <2>5 DEF LinkedOnce
    <3> DEFINE i == IF p < k THEN p ELSE p - 1
    <3>2. p # k
      BY <2>1, <2>5, <3>1
    <3>3. i \in 1 .. n - 1 /\ (IF i < k THEN i ELSE i + 1) = p
      BY <1>0, <2>1, <3>2
    <3>4. QED BY <2>1, <3>1, <3>3
  <2>6. LinkedOnce(r, set \ {v})
    BY <2>2, <2>3, <2>4, <2>5 DEF LinkedOnce
  <2>7. QED BY <2>6 DEF r
<1>3. QED BY <1>0, <1>1, <1>2

(* wl_list_insert of a window that is in no list.                          *)
LEMMA InsertLinks ==
  ASSUME NEW list \in Seq(Views), NEW set, LinkedOnce(list, set),
         NEW v \in Views, v \notin set
  PROVE  LinkedOnce(<<v>> \o list, set \cup {v})
<1> DEFINE r == <<v>> \o list
<1>1. /\ r \in Seq(Views) /\ Len(r) = Len(list) + 1 /\ r[1] = v
      /\ \A i \in 1 .. Len(list) : r[i + 1] = list[i]
  BY ToFront
<1>2. /\ Len(list) \in Nat /\ DOMAIN list = 1 .. Len(list)
      /\ DOMAIN r = 1 .. Len(list) + 1
  BY <1>1, LenProperties
<1> HIDE DEF r
<1>3. ASSUME NEW i \in 2 .. Len(list) + 1
      PROVE  i - 1 \in 1 .. Len(list) /\ r[i] = list[i - 1] /\ r[i] \in Views
  <2>1. i - 1 \in 1 .. Len(list) /\ (i - 1) + 1 = i
    BY <1>2
  <2>2. list[i - 1] \in Views
    BY <2>1, ElementOfSeq
  <2>3. QED BY <1>1, <2>1, <2>2
<1>4. ASSUME NEW i \in 2 .. Len(list) + 1
      PROVE  r[i] \in set /\ r[i] # v
  BY <1>2, <1>3 DEF LinkedOnce
<1>5. ASSUME NEW i \in DOMAIN r, NEW j \in DOMAIN r, r[i] = r[j]
      PROVE  i = j
  <2>1. CASE i = 1 \/ j = 1
    BY <1>1, <1>2, <1>4, <1>5, <2>1
  <2>2. CASE i # 1 /\ j # 1
    <3>1. i \in 2 .. Len(list) + 1 /\ j \in 2 .. Len(list) + 1
      BY <1>2, <2>2
    <3>2. i - 1 = j - 1
      BY <1>2, <1>3, <1>5, <3>1 DEF LinkedOnce
    <3>3. QED BY <3>1, <3>2, <1>2
  <2>3. QED BY <2>1, <2>2
<1>6. ASSUME NEW u \in Views
      PROVE  u \in set \cup {v} <=> \E i \in DOMAIN r : r[i] = u
  <2>1. ASSUME u \in set PROVE \E i \in DOMAIN r : r[i] = u
    <3>1. PICK i \in 1 .. Len(list) : list[i] = u
      BY <1>2, <2>1 DEF LinkedOnce
    <3>2. QED BY <1>1, <1>2, <3>1
  <2>2. ASSUME NEW i \in DOMAIN r, r[i] = u PROVE u \in set \cup {v}
    <3>1. i = 1 \/ i \in 2 .. Len(list) + 1
      BY <1>2
    <3>2. QED BY <1>1, <1>4, <2>2, <3>1
  <2>3. 1 \in DOMAIN r
    BY <1>2
  <2>4. QED BY <1>1, <2>1, <2>2, <2>3
<1>7. QED BY <1>5, <1>6 DEF LinkedOnce, r

(* A change of the flags and of the seat keeps the list and the places.    *)
LEMMA SameConsistent ==
  ASSUME NEW s, NEW t, NEW some, Listed(s), Reachable(s), ShownExcept(s, some),
         t.mapped = s.mapped, t.views = s.views,
         t.workspace = s.workspace, t.current_workspace = s.current_workspace,
         t.max_visible_workspace = s.max_visible_workspace,
         t.shown = s.shown, t.pinned = s.pinned,
         \A u \in t.shown \ some : u \in t.minimized => u \in s.minimized
  PROVE  Listed(t) /\ Reachable(t) /\ ShownExcept(t, some)
  BY DEF Listed, Reachable, ShownExcept, Visible

(* view::update_visibility makes up for the window that may be wrong.      *)
LEMMA UpdateVisibilityConsistent ==
  ASSUME NEW s \in Server, NEW v \in Views,
         Listed(s), Reachable(s), ShownExcept(s, {v})
  PROVE  Consistent(UpdateVisibility(s, v))
<1> DEFINE t == UpdateVisibility(s, v)
<1>1. /\ t.mapped = s.mapped /\ t.views = s.views /\ t.workspace = s.workspace
      /\ t.current_workspace = s.current_workspace
      /\ t.max_visible_workspace = s.max_visible_workspace
      /\ t.pinned = s.pinned /\ t.minimized = s.minimized
      /\ t.shown = IF v \in s.mapped /\ Visible(s, v) THEN s.shown \cup {v}
                                                     ELSE s.shown \ {v}
  BY DEF UpdateVisibility, Server
<1> HIDE DEF t
<1>2. Listed(t) /\ Reachable(t)
  BY <1>1 DEF Listed, Reachable
<1>3. \A u : Visible(t, u) <=> Visible(s, u)
  BY <1>1 DEF Visible
<1>4. ShownExcept(t, {})
  BY <1>1, <1>3 DEF ShownExcept
<1>5. QED BY <1>2, <1>4 DEF Consistent, t

(* view::minimize, in either direction, of any window.                     *)
LEMMA MinimizeConsistent ==
  ASSUME NEW s \in Server, NEW v \in Views, NEW min \in BOOLEAN, Consistent(s)
  PROVE  Consistent(Minimize(s, v, min))
<1> DEFINE t == [s EXCEPT !.minimized = IF min THEN @ \cup {v} ELSE @ \ {v}]
<1>1. /\ t \in Server
      /\ t.mapped = s.mapped /\ t.views = s.views /\ t.workspace = s.workspace
      /\ t.current_workspace = s.current_workspace
      /\ t.max_visible_workspace = s.max_visible_workspace
      /\ t.pinned = s.pinned /\ t.shown = s.shown
      /\ \A u : u # v /\ u \in t.minimized => u \in s.minimized
  BY DEF Server
<1>2. Minimize(s, v, min) = UpdateVisibility(t, v)
  BY DEF Minimize
<1> HIDE DEF t
<1>3. ShownExcept(s, {v})
  BY DEF Consistent, ShownExcept
<1>4. Listed(t) /\ Reachable(t) /\ ShownExcept(t, {v})
  BY <1>1, <1>3, SameConsistent DEF Consistent
<1>5. QED BY <1>1, <1>2, <1>4, UpdateVisibilityConsistent

(* The window is restored, not urgent, and the rest is as before.          *)
LEMMA RestoreConsistent ==
  ASSUME NEW s \in Server, NEW v \in Views, Consistent(s)
  PROVE  /\ Consistent(Restore(s, v))
         /\ Restore(s, v).mapped = s.mapped
         /\ Restore(s, v).views = s.views
         /\ Restore(s, v).activated = s.activated
         /\ Restore(s, v).focused_layer = s.focused_layer
         /\ Restore(s, v).minimized = s.minimized \ {v}
         /\ Restore(s, v).urgent = s.urgent \ {v}
<1> DEFINE r == IF v \in s.minimized THEN Minimize(s, v, FALSE) ELSE s
           t == [r EXCEPT !.urgent = @ \ {v}]
<1>1. r \in Server /\ Consistent(r)
  BY MinimizeType, MinimizeConsistent
<1>2. /\ r.mapped = s.mapped /\ r.views = s.views /\ r.activated = s.activated
      /\ r.focused_layer = s.focused_layer /\ r.urgent = s.urgent
      /\ r.minimized = s.minimized \ {v}
  BY DEF Minimize, UpdateVisibility, Server
<1>3. Restore(s, v) = t
  BY DEF Restore
<1> HIDE DEF r
<1>4. /\ t.mapped = r.mapped /\ t.views = r.views /\ t.workspace = r.workspace
      /\ t.current_workspace = r.current_workspace
      /\ t.max_visible_workspace = r.max_visible_workspace
      /\ t.pinned = r.pinned /\ t.shown = r.shown /\ t.minimized = r.minimized
      /\ t.activated = r.activated /\ t.focused_layer = r.focused_layer
      /\ t.urgent = r.urgent \ {v}
  BY <1>1 DEF Server
<1> HIDE DEF t
<1>5. Consistent(t)
  BY <1>1, <1>4, SameConsistent DEF Consistent
<1>6. QED BY <1>2, <1>3, <1>4, <1>5

(* The list move of view::focus: the window is relinked at the head.       *)
LEMMA ActivateConsistent ==
  ASSUME NEW s \in Server, NEW v \in Views, v \in s.mapped, Consistent(s)
  PROVE  /\ Consistent(Activate(s, v))
         /\ Activate(s, v).views # <<>> /\ Activate(s, v).views[1] = v
         /\ Activate(s, v).mapped = s.mapped
         /\ v \in Activate(s, v).activated
         /\ Activate(s, v).minimized = s.minimized
         /\ Activate(s, v).urgent = s.urgent
         /\ Activate(s, v).focused_layer = NoSurface
         /\ s.keyboard => Activate(s, v).focused_surface = v
<1> DEFINE t == Activate(s, v)
           r == RemoveFirst(s.views, v)
<1>1. /\ t.mapped = s.mapped /\ t.views = <<v>> \o r /\ t.workspace = s.workspace
      /\ t.current_workspace = s.current_workspace
      /\ t.max_visible_workspace = s.max_visible_workspace
      /\ t.pinned = s.pinned /\ t.shown = s.shown /\ t.minimized = s.minimized
      /\ t.activated = (s.activated \ {s.focused_surface}) \cup {v}
      /\ t.urgent = s.urgent /\ t.focused_layer = NoSurface
      /\ s.keyboard => t.focused_surface = v
  BY DEF Activate, Server
<1>2. s.views \in Seq(Views) /\ r \in Seq(Views)
  BY RemoveFirstProperties DEF Server
<1>3. LinkedOnce(r, s.mapped \ {v})
  BY <1>2, RemoveUnlinks DEF Consistent, Listed
<1> HIDE DEF r, t
<1>4. LinkedOnce(<<v>> \o r, (s.mapped \ {v}) \cup {v})
  BY <1>2, <1>3, InsertLinks
<1>5. (s.mapped \ {v}) \cup {v} = s.mapped
  OBVIOUS
<1>6. Listed(t)
  BY <1>1, <1>4, <1>5 DEF Listed
<1>7. Reachable(t) /\ ShownExcept(t, {})
  BY <1>1 DEF Consistent, Reachable, ShownExcept, Visible
<1>8. t.views # <<>> /\ t.views[1] = v
  <2>1. /\ <<v>> \o r \in Seq(Views) /\ (<<v>> \o r)[1] = v
        /\ Len(<<v>> \o r) = Len(r) + 1 /\ Len(r) \in Nat
    BY <1>2, ToFront, LenProperties
  <2>2. <<v>> \o r # <<>>
    BY <2>1, EmptySeq
  <2>3. QED BY <1>1, <2>1, <2>2
<1>9. QED BY <1>1, <1>6, <1>7, <1>8 DEF Consistent, t

(* view::focus keeps list, scene and workspaces consistent.                *)
LEMMA FocusConsistent ==
  ASSUME NEW s \in Server, NEW v \in Views, Consistent(s)
  PROVE  Consistent(Focus(s, v))
<1>1. CASE v \notin s.mapped \/ s.locked
  BY <1>1 DEF Focus
<1>2. CASE ~ (v \notin s.mapped \/ s.locked)
  <2> DEFINE r == Restore(s, v)
  <2>1. r \in Server /\ Consistent(r) /\ r.mapped = s.mapped
    BY RestoreType, RestoreConsistent
  <2>2. Focus(s, v) = IF s.focused_surface = v THEN r ELSE Activate(r, v)
    BY <1>2 DEF Focus
  <2> HIDE DEF r
  <2>3. Consistent(Activate(r, v))
    BY <1>2, <2>1, ActivateConsistent
  <2>4. QED BY <2>1, <2>2, <2>3
<1>3. QED BY <1>1, <1>2

(* So do the loop of view::focus_next and its clear_focus.                 *)
LEMMA FocusTopmostConsistent ==
  ASSUME NEW s \in Server, NEW skip, Consistent(s)
  PROVE  Consistent(FocusTopmost(s, skip))
<1>1. CASE Candidates(s, skip) # {}
  BY <1>1, TopmostIsCandidate, FocusConsistent DEF FocusTopmost
<1>2. CASE Candidates(s, skip) = {}
  <2> DEFINE t == [s EXCEPT !.focused_surface = NoSurface]
  <2>1. FocusTopmost(s, skip) = t
    BY <1>2 DEF FocusTopmost
  <2>2. /\ t.mapped = s.mapped /\ t.views = s.views /\ t.workspace = s.workspace
        /\ t.current_workspace = s.current_workspace
        /\ t.max_visible_workspace = s.max_visible_workspace
        /\ t.shown = s.shown /\ t.pinned = s.pinned /\ t.minimized = s.minimized
    BY DEF Server
  <2> HIDE DEF t
  <2>3. QED BY <2>1, <2>2, SameConsistent DEF Consistent
<1>3. QED BY <1>1, <1>2

(* Moving the keyboard on keeps list, scene and workspaces.                *)
LEMMA FocusNextConsistent ==
  ASSUME NEW s \in Server, NEW skip, Consistent(s)
  PROVE  Consistent(FocusNext(s, skip))
  BY FocusTopmostConsistent DEF FocusNext

-----------------------------------------------------------------------------

(* The window with the keyboard, unless it is one of some, is as           *)
(* view::focus leaves it.                                                  *)
UsableExcept(s, some) ==
  s.focused_surface \in Views \ some =>
    /\ s.focused_surface \in s.mapped \cap s.activated
    /\ s.focused_surface \notin s.minimized \cup s.urgent
    /\ s.views # <<>> /\ s.views[1] = s.focused_surface
    /\ s.focused_layer = NoSurface

(* The seat has a keyboard, and no window has it in a locked session.      *)
SeatSound(s) == s.keyboard /\ (s.locked => s.focused_surface \notin Views)

(* A seat step keeps it so.                                                *)
LEMMA SeatStepSound ==
  ASSUME NEW s, NEW t, SeatStep(s, t), SeatSound(s)
  PROVE  SeatSound(t)
  BY WindowsAssumption DEF SeatStep, SeatSound

(* view::focus in an unlocked session, on a mapped window.                 *)
LEMMA FocusUsable ==
  ASSUME NEW s \in Server, NEW v \in s.mapped, Consistent(s), s.keyboard, ~s.locked,
         s.focused_surface = v => UsableExcept(s, {})
  PROVE  UsableExcept(Focus(s, v), {})
<1> DEFINE r == Restore(s, v)
<1>0. v \in Views
  BY DEF Server
<1>1. /\ r \in Server /\ Consistent(r) /\ SeatKept(s, r)
      /\ r.mapped = s.mapped /\ r.views = s.views /\ r.activated = s.activated
      /\ r.focused_layer = s.focused_layer
      /\ r.minimized = s.minimized \ {v} /\ r.urgent = s.urgent \ {v}
  BY <1>0, RestoreType, RestoreConsistent, RestoreSeat
<1>2. Focus(s, v) = IF s.focused_surface = v THEN r ELSE Activate(r, v)
  BY DEF Focus
<1> HIDE DEF r
<1>3. CASE s.focused_surface = v
  BY <1>0, <1>1, <1>2, <1>3 DEF UsableExcept, SeatKept
<1>4. CASE s.focused_surface # v
  <2>0. r \in Server /\ v \in Views /\ v \in r.mapped /\ Consistent(r) /\ r.keyboard
    BY <1>0, <1>1 DEF SeatKept
  <2>1. /\ Activate(r, v).views # <<>> /\ Activate(r, v).views[1] = v
        /\ Activate(r, v).mapped = r.mapped
        /\ v \in Activate(r, v).activated
        /\ Activate(r, v).minimized = r.minimized
        /\ Activate(r, v).urgent = r.urgent
        /\ Activate(r, v).focused_layer = NoSurface
        /\ Activate(r, v).focused_surface = v
    BY <2>0, ActivateConsistent
  <2>2. Focus(s, v) = Activate(r, v)
    BY <1>2, <1>4
  <2>3. v \notin r.minimized \cup r.urgent
    BY <1>1
  <2>4. QED BY <2>0, <2>1, <2>2, <2>3 DEF UsableExcept
<1>5. QED BY <1>3, <1>4

(* view::focus in any session, on any window.                              *)
LEMMA FocusKeepsUsable ==
  ASSUME NEW s \in Server, NEW v \in Views, Consistent(s), s.keyboard,
         UsableExcept(s, {})
  PROVE  UsableExcept(Focus(s, v), {})
<1>1. CASE v \notin s.mapped \/ s.locked
  BY <1>1 DEF Focus
<1>2. CASE v \in s.mapped /\ ~s.locked
  BY <1>2, FocusUsable
<1>3. QED BY <1>1, <1>2

(* view::focus_next leaves a usable window behind even when the one it     *)
(* skips, which was minimized or unmapped before, has the keyboard.        *)
LEMMA FocusTopmostUsable ==
  ASSUME NEW s \in Server, NEW skip, Consistent(s), SeatSound(s),
         UsableExcept(s, {skip})
  PROVE  UsableExcept(FocusTopmost(s, skip), {})
<1>1. CASE Candidates(s, skip) # {}
  <2> DEFINE i == Min(Candidates(s, skip))
             u == s.views[i]
  <2>1. u \in Views /\ u # skip /\ u \in s.mapped
    BY <1>1, TopmostIsCandidate DEF Candidates
  <2>2. FocusTopmost(s, skip) = Focus(s, u)
    BY <1>1 DEF FocusTopmost
  <2> HIDE DEF u
  <2>3. CASE s.locked
    BY <2>2, <2>3 DEF Focus, SeatSound, UsableExcept
  <2>4. CASE ~s.locked
    <3>1. s.focused_surface = u => UsableExcept(s, {})
      BY <2>1 DEF UsableExcept
    <3>2. QED BY <2>1, <2>2, <2>4, <3>1, FocusUsable DEF SeatSound
  <2>5. QED BY <2>3, <2>4
<1>2. CASE Candidates(s, skip) = {}
  <2>1. FocusTopmost(s, skip).focused_surface = NoSurface
    BY <1>2 DEF FocusTopmost, Server
  <2>2. QED BY <2>1, WindowsAssumption DEF UsableExcept
<1>3. QED BY <1>1, <1>2

(* Whichever window was skipped, the one with the keyboard is usable after. *)
LEMMA FocusNextUsable ==
  ASSUME NEW s \in Server, NEW skip, Consistent(s), SeatSound(s),
         UsableExcept(s, {skip})
  PROVE  UsableExcept(FocusNext(s, skip), {})
  BY FocusTopmostUsable DEF FocusNext, SeatSound, UsableExcept

(* Removing another window leaves the head of the list where it is.        *)
LEMMA RemoveKeepsHead ==
  ASSUME NEW list \in Seq(Views), list # <<>>, NEW v \in Views, list[1] # v
  PROVE  RemoveFirst(list, v) # <<>> /\ RemoveFirst(list, v)[1] = list[1]
<1> DEFINE r == RemoveFirst(list, v)
<1>0. Len(list) \in Nat /\ Len(list) # 0 /\ r \in Seq(Views)
  BY LenProperties, EmptySeq, RemoveFirstProperties
<1>1. CASE \A i \in 1 .. Len(list) : list[i] # v
  BY <1>1, RemoveFirstProperties
<1>2. CASE \E i \in 1 .. Len(list) : list[i] = v
  <2>1. (\E i \in 1 .. Len(list) : list[i] = v) =>
          \E k \in 1 .. Len(list) :
            /\ list[k] = v
            /\ \A i \in 1 .. k-1 : list[i] # v
            /\ Len(r) = Len(list) - 1
            /\ \A i \in 1 .. Len(list) - 1 : r[i] = list[IF i < k THEN i ELSE i + 1]
    BY RemoveFirstProperties
  <2> HIDE DEF r
  <2>2. PICK k \in 1 .. Len(list) :
          /\ list[k] = v
          /\ Len(r) = Len(list) - 1
          /\ \A i \in 1 .. Len(list) - 1 : r[i] = list[IF i < k THEN i ELSE i + 1]
    BY <1>2, <2>1
  <2>3. k # 1
    BY <2>2
  <2>4. 1 \in 1 .. Len(list) - 1 /\ 1 < k
    BY <1>0, <2>2, <2>3
  <2>5. r[1] = list[1] /\ Len(r) # 0
    BY <1>0, <2>2, <2>4
  <2>6. r # <<>>
    BY <1>0, <2>5, EmptySeq
  <2>7. QED BY <2>5, <2>6 DEF r
<1>3. QED BY <1>0, <1>1, <1>2

(* What a step leaves of it: list, scene and workspaces stay consistent,   *)
(* and on a seat with a keyboard so does the focus.                        *)
FocusSound(s) == SeatSound(s) /\ UsableExcept(s, {})

Keeps(s, t) == Consistent(t) /\ (FocusSound(s) => FocusSound(t))

(* Two such steps in a row are one.                                        *)
LEMMA KeepsTransitive ==
  ASSUME NEW r, NEW s, NEW t, Keeps(r, s), Keeps(s, t)
  PROVE  Keeps(r, t)
  BY DEF Keeps

(* The initial server is consistent.                                       *)
LEMMA InitConsistent ==
  ASSUME NEW k \in BOOLEAN
  PROVE  /\ Consistent(InitServer(k))
         /\ k => FocusSound(InitServer(k))
<1> DEFINE s == InitServer(k)
<1>1. /\ s.views = <<>> /\ s.mapped = {} /\ s.shown = {} /\ s.current_workspace = 0
      /\ s.max_visible_workspace = 1 /\ s.focused_surface = NoSurface
      /\ s.locked = FALSE /\ s.keyboard = k
  BY DEF InitServer
<1> HIDE DEF s
<1>2. Len(<<>>) = 0 /\ DOMAIN <<>> = {}
  BY EmptySeq, LenProperties
<1>3. Consistent(s)
  BY <1>1, <1>2 DEF Consistent, Listed, LinkedOnce, ShownExcept, Reachable
<1>4. k => FocusSound(s)
  BY <1>1, WindowsAssumption DEF FocusSound, SeatSound, UsableExcept
<1>5. QED BY <1>3, <1>4 DEF s

(* A change that neither the list nor the owner of the keyboard sees.      *)
LEMMA UsableKept ==
  ASSUME NEW s, NEW t, NEW some, UsableExcept(s, {}),
         t.focused_surface = s.focused_surface, t.focused_layer = s.focused_layer,
         t.mapped = s.mapped, t.views = s.views, t.activated = s.activated,
         t.urgent \ some \subseteq s.urgent,
         t.minimized \ some \subseteq s.minimized
  PROVE  UsableExcept(t, some)
  BY DEF UsableExcept

(* view::focus.                                                            *)
LEMMA FocusKeeps ==
  ASSUME NEW s \in Server, NEW v \in Views, Consistent(s)
  PROVE  Keeps(s, Focus(s, v))
<1>1. ASSUME FocusSound(s)
      PROVE  FocusSound(Focus(s, v))
  <2>1. SeatSound(Focus(s, v))
    BY <1>1, FocusSeat, SeatStepSound DEF FocusSound
  <2>2. UsableExcept(Focus(s, v), {})
    BY <1>1, FocusKeepsUsable DEF FocusSound, SeatSound
  <2>3. QED BY <2>1, <2>2 DEF FocusSound
<1>2. QED BY <1>1, FocusConsistent DEF Keeps

(* view::focus_next, called for a window that may just have been minimized *)
(* or moved away.                                                          *)
LEMMA FocusNextKeeps ==
  ASSUME NEW s, NEW t \in Server, NEW skip, Consistent(t),
         FocusSound(s) => SeatSound(t) /\ UsableExcept(t, {skip})
  PROVE  Keeps(s, FocusNext(t, skip))
<1>1. ASSUME FocusSound(s)
      PROVE  FocusSound(FocusNext(t, skip))
  <2>1. SeatSound(FocusNext(t, skip))
    BY <1>1, FocusNextSeat, SeatStepSound
  <2>2. UsableExcept(FocusNext(t, skip), {})
    BY <1>1, FocusNextUsable
  <2>3. QED BY <2>1, <2>2 DEF FocusSound
<1>2. QED BY <1>1, FocusNextConsistent DEF Keeps

(* view::minimize: the window with the keyboard may be minimized now, and  *)
(* whoever calls moves the focus.                                          *)
LEMMA MinimizeUsable ==
  ASSUME NEW s \in Server, NEW v \in Views, NEW min \in BOOLEAN, FocusSound(s)
  PROVE  /\ SeatSound(Minimize(s, v, min))
         /\ UsableExcept(Minimize(s, v, min), IF min THEN {v} ELSE {})
<1> DEFINE t == Minimize(s, v, min)
<1>1. /\ t.focused_surface = s.focused_surface /\ t.focused_layer = s.focused_layer
      /\ t.mapped = s.mapped /\ t.views = s.views /\ t.activated = s.activated
      /\ t.urgent = s.urgent
      /\ t.minimized = IF min THEN s.minimized \cup {v} ELSE s.minimized \ {v}
      /\ t.keyboard = s.keyboard /\ t.locked = s.locked
  BY DEF Minimize, UpdateVisibility, Server
<1> HIDE DEF t
<1>2. SeatSound(t)
  BY <1>1 DEF FocusSound, SeatSound
<1>3. UsableExcept(t, IF min THEN {v} ELSE {})
  <2>1. CASE min
    BY <1>1, <2>1 DEF FocusSound, UsableExcept
  <2>2. CASE ~min
    BY <1>1, <2>2 DEF FocusSound, UsableExcept
  <2>3. QED BY <2>1, <2>2
<1>4. QED BY <1>2, <1>3 DEF t

(* The "minimize" of a client, a panel, a key or the titlebar.             *)
LEMMA MinimizeAndMoveOnKeeps ==
  ASSUME NEW s \in Server, NEW v \in Views, Consistent(s)
  PROVE  Keeps(s, MinimizeAndMoveOn(s, v))
<1> DEFINE t == Minimize(s, v, TRUE)
<1>1. t \in Server /\ Consistent(t)
  BY MinimizeType, MinimizeConsistent
<1>2. FocusSound(s) => SeatSound(t) /\ UsableExcept(t, {v})
  BY MinimizeUsable
<1>3. MinimizeAndMoveOn(s, v) = FocusNext(t, v)
  BY DEF MinimizeAndMoveOn
<1> HIDE DEF t
<1>4. QED BY <1>1, <1>2, <1>3, FocusNextKeeps

(* The restore of a panel.                                                 *)
LEMMA FocusAfterRestoreKeeps ==
  ASSUME NEW s \in Server, NEW v \in Views, Consistent(s)
  PROVE  Keeps(s, Focus(Minimize(s, v, FALSE), v))
<1> DEFINE t == Minimize(s, v, FALSE)
<1>1. t \in Server /\ Consistent(t)
  BY MinimizeType, MinimizeConsistent
<1>2. FocusSound(s) => FocusSound(t)
  BY MinimizeUsable DEF FocusSound
<1> HIDE DEF t
<1>3. Keeps(s, t)
  BY <1>1, <1>2 DEF Keeps
<1>4. QED BY <1>1, <1>3, FocusKeeps, KeepsTransitive DEF t

(* view::workspace_switch shows the windows of the workspace; its loop has *)
(* no test of the lock, but what it calls has.                             *)
LEMMA WorkspaceSwitchKeeps ==
  ASSUME NEW s \in Server, NEW w, Consistent(s)
  PROVE  Keeps(s, WorkspaceSwitch(s, w))
<1>1. CASE w \notin Workspaces \/ w = s.current_workspace
  BY <1>1 DEF WorkspaceSwitch, Keeps
<1>2. CASE ~ (w \notin Workspaces \/ w = s.current_workspace)
  <2> DEFINE t == ShowWorkspace(s, w)
  <2>1. t \in Server
    BY <1>2, ShowWorkspaceType
  <2>2. WorkspaceSwitch(s, w) = FocusTopmost(t, NoSurface)
    BY <1>2 DEF WorkspaceSwitch
  <2>3. /\ t.mapped = s.mapped /\ t.views = s.views /\ t.workspace = s.workspace
        /\ t.current_workspace = w
        /\ t.max_visible_workspace = IF w > s.max_visible_workspace
                                       THEN w ELSE s.max_visible_workspace
        /\ t.shown \subseteq t.mapped /\ \A v \in t.shown : Visible(t, v)
        /\ t.focused_surface = s.focused_surface
        /\ t.focused_layer = s.focused_layer /\ t.activated = s.activated
        /\ t.urgent = s.urgent /\ t.minimized = s.minimized
        /\ t.keyboard = s.keyboard /\ t.locked = s.locked
    BY DEF ShowWorkspace, Visible, Server
  <2> HIDE DEF t
  <2>4. /\ Workspaces \subseteq Int /\ s.max_visible_workspace \in Int /\ w \in Int
        /\ \A v \in s.mapped : s.workspace[v] \in Int
    BY <1>2, WindowsAssumption DEF Workspaces, Server
  <2>5. Consistent(t)
    BY <2>3, <2>4 DEF Consistent, Listed, Reachable, ShownExcept
  <2>6. ASSUME FocusSound(s)
        PROVE  FocusSound(FocusTopmost(t, NoSurface))
    <3>1. SeatSound(t) /\ UsableExcept(t, {NoSurface})
      BY <2>3, <2>6 DEF FocusSound, SeatSound, UsableExcept
    <3>2. SeatSound(FocusTopmost(t, NoSurface))
      BY <2>1, <3>1, FocusTopmostSeat, SeatStepSound
    <3>3. UsableExcept(FocusTopmost(t, NoSurface), {})
      BY <2>1, <2>5, <3>1, FocusTopmostUsable
    <3>4. QED BY <3>2, <3>3 DEF FocusSound
  <2>7. QED BY <2>1, <2>2, <2>5, <2>6, FocusTopmostConsistent DEF Keeps
<1>3. QED BY <1>1, <1>2

(* view::update_visibility touches neither seat nor focus.                 *)
LEMMA UpdateVisibilityUsable ==
  ASSUME NEW s \in Server, NEW v \in Views, NEW some,
         SeatSound(s), UsableExcept(s, some)
  PROVE  /\ SeatSound(UpdateVisibility(s, v))
         /\ UsableExcept(UpdateVisibility(s, v), some)
<1> DEFINE t == UpdateVisibility(s, v)
<1>1. /\ t.focused_surface = s.focused_surface /\ t.focused_layer = s.focused_layer
      /\ t.mapped = s.mapped /\ t.views = s.views /\ t.activated = s.activated
      /\ t.urgent = s.urgent /\ t.minimized = s.minimized
      /\ t.keyboard = s.keyboard /\ t.locked = s.locked
  BY DEF UpdateVisibility, Server
<1> HIDE DEF t
<1>2. QED BY <1>1 DEF SeatSound, UsableExcept, t

(* view::move_to_workspace keeps max_visible_workspace up.                 *)
LEMMA MoveToWorkspaceKeeps ==
  ASSUME NEW s \in Server, NEW v \in Views, NEW w \in Workspaces, Consistent(s)
  PROVE  Keeps(s, MoveToWorkspace(s, v, w))
<1> DEFINE t == [s EXCEPT !.pinned = @ \ {v},
                          !.workspace[v] = w,
                          !.max_visible_workspace = IF w > @ THEN w ELSE @]
<1>1. t \in Server
  BY DEF Server
<1>2. MoveToWorkspace(s, v, w) = FocusNext(UpdateVisibility(t, v), v)
  BY DEF MoveToWorkspace
<1>3. /\ t.mapped = s.mapped /\ t.views = s.views
      /\ t.workspace = [s.workspace EXCEPT ![v] = w]
      /\ t.current_workspace = s.current_workspace
      /\ t.max_visible_workspace = IF w > s.max_visible_workspace
                                     THEN w ELSE s.max_visible_workspace
      /\ t.shown = s.shown /\ t.minimized = s.minimized
      /\ t.pinned = s.pinned \ {v}
      /\ t.focused_surface = s.focused_surface /\ t.focused_layer = s.focused_layer
      /\ t.activated = s.activated /\ t.urgent = s.urgent
      /\ t.keyboard = s.keyboard /\ t.locked = s.locked
  BY DEF Server
<1> HIDE DEF t
<1>4. /\ Workspaces \subseteq Int /\ s.max_visible_workspace \in Int /\ w \in Int
      /\ s.workspace \in [Views -> Workspaces] /\ s.mapped \subseteq Views
      /\ s.current_workspace \in Int /\ s.shown \subseteq Views
  BY WindowsAssumption DEF Workspaces, Server
<1>5. Listed(t) /\ Reachable(t)
  <2>1. Listed(t)
    BY <1>3 DEF Consistent, Listed
  <2>2. /\ s.max_visible_workspace <= t.max_visible_workspace
        /\ w <= t.max_visible_workspace
        /\ t.max_visible_workspace \in Int
    BY <1>3, <1>4
  <2>3. ASSUME NEW u \in s.mapped
        PROVE  t.workspace[u] <= t.max_visible_workspace
    <3>1. CASE u = v
      BY <1>3, <1>4, <2>2, <3>1
    <3>2. CASE u # v
      <4>1. t.workspace[u] = s.workspace[u] /\ s.workspace[u] \in Int
        BY <1>3, <1>4, <3>2
      <4>2. s.workspace[u] <= s.max_visible_workspace
        BY DEF Consistent, Reachable
      <4>3. QED BY <1>4, <2>2, <4>1, <4>2
    <3>3. QED BY <3>1, <3>2
  <2>4. s.current_workspace <= s.max_visible_workspace
    BY DEF Consistent, Reachable
  <2>5. t.current_workspace <= t.max_visible_workspace
    BY <1>3, <1>4, <2>2, <2>4
  <2>6. QED BY <1>3, <2>1, <2>3, <2>5 DEF Reachable
<1>6. ShownExcept(t, {v})
  BY <1>3, <1>4 DEF Consistent, ShownExcept, Visible
<1>7. Consistent(UpdateVisibility(t, v)) /\ UpdateVisibility(t, v) \in Server
  BY <1>1, <1>5, <1>6, UpdateVisibilityConsistent, UpdateVisibilityType
<1>8. ASSUME FocusSound(s)
      PROVE  /\ SeatSound(UpdateVisibility(t, v))
             /\ UsableExcept(UpdateVisibility(t, v), {v})
  <2>1. SeatSound(t) /\ UsableExcept(t, {v})
    BY <1>3, <1>8 DEF FocusSound, SeatSound, UsableExcept
  <2>2. QED BY <1>1, <2>1, UpdateVisibilityUsable
<1>9. QED BY <1>2, <1>7, <1>8, FocusNextKeeps

(* The pin action shows nothing and hides nothing, and a shown window it   *)
(* unpins stays, on the current workspace.                                 *)
LEMMA TogglePinKeeps ==
  ASSUME NEW s \in Server, NEW v \in Views, Consistent(s)
  PROVE  Keeps(s, TogglePin(s, v))
<1> DEFINE t == TogglePin(s, v)
<1>1. /\ t.mapped = s.mapped /\ t.views = s.views
      /\ t.current_workspace = s.current_workspace
      /\ t.max_visible_workspace = s.max_visible_workspace
      /\ t.shown = s.shown /\ t.minimized = s.minimized
      /\ \/ /\ t.workspace = [s.workspace EXCEPT ![v] = s.current_workspace]
            /\ t.pinned = s.pinned \ {v}
         \/ t.workspace = s.workspace /\ t.pinned = s.pinned \cup {v}
      /\ t.focused_surface = s.focused_surface /\ t.focused_layer = s.focused_layer
      /\ t.activated = s.activated /\ t.urgent = s.urgent
      /\ t.keyboard = s.keyboard /\ t.locked = s.locked
  BY DEF TogglePin, Server
<1> HIDE DEF t
<1>2. s.workspace \in [Views -> Workspaces] /\ s.mapped \subseteq Views /\ s.shown \subseteq Views
  BY DEF Server
<1>3. Consistent(t)
  BY <1>1, <1>2 DEF Consistent, Listed, Reachable, ShownExcept, Visible
<1>4. FocusSound(s) => FocusSound(t)
  BY <1>1 DEF FocusSound, SeatSound, UsableExcept
<1>5. QED BY <1>3, <1>4 DEF Keeps, t

(* view::handle_map links the window, on the current workspace.            *)
LEMMA HandleMapKeeps ==
  ASSUME NEW s \in Server, NEW v \in Views, v \notin s.mapped, Consistent(s)
  PROVE  Keeps(s, HandleMap(s, v))
<1> DEFINE t == [s EXCEPT !.mapped = @ \cup {v},
                          !.workspace[v] = s.current_workspace,
                          !.views = <<v>> \o @]
<1>1. <<v>> \o s.views \in Seq(Views) /\ s.views \in Seq(Views)
  BY ToFront DEF Server
<1>2. t \in Server
  BY <1>1 DEF Server
<1>3. HandleMap(s, v) = Focus(UpdateVisibility(t, v), v)
  BY DEF HandleMap
<1>4. /\ t.mapped = s.mapped \cup {v} /\ t.views = <<v>> \o s.views
      /\ t.workspace = [s.workspace EXCEPT ![v] = s.current_workspace]
      /\ t.current_workspace = s.current_workspace
      /\ t.max_visible_workspace = s.max_visible_workspace
      /\ t.shown = s.shown /\ t.minimized = s.minimized /\ t.pinned = s.pinned
      /\ t.focused_surface = s.focused_surface /\ t.focused_layer = s.focused_layer
      /\ t.activated = s.activated /\ t.urgent = s.urgent
      /\ t.keyboard = s.keyboard /\ t.locked = s.locked
  BY DEF Server
<1> HIDE DEF t
<1>5. s.workspace \in [Views -> Workspaces] /\ s.mapped \subseteq Views
  BY DEF Server
<1>6. Listed(t)
  BY <1>1, <1>4, InsertLinks DEF Consistent, Listed
<1>7. Reachable(t)
  BY <1>4, <1>5 DEF Consistent, Reachable
<1>8. ShownExcept(t, {v})
  BY <1>4, <1>5 DEF Consistent, ShownExcept, Visible
<1>9. Consistent(UpdateVisibility(t, v)) /\ UpdateVisibility(t, v) \in Server
  BY <1>2, <1>6, <1>7, <1>8, UpdateVisibilityConsistent, UpdateVisibilityType
<1>10. ASSUME FocusSound(s)
       PROVE  FocusSound(Focus(UpdateVisibility(t, v), v))
  <2> DEFINE u == UpdateVisibility(t, v)
  <2>1. /\ u.focused_surface = s.focused_surface /\ u.mapped = s.mapped \cup {v}
        /\ u.keyboard = s.keyboard /\ u.locked = s.locked
    BY <1>2, <1>4 DEF UpdateVisibility, Server
  <2>2. s.focused_surface # v
    BY <1>10 DEF FocusSound, UsableExcept
  <2>3. u \in Server /\ Consistent(u) /\ SeatSound(u)
    BY <1>9, <1>10, <2>1 DEF FocusSound, SeatSound
  <2> HIDE DEF u
  <2>4. SeatSound(Focus(u, v))
    BY <2>3, FocusSeat, SeatStepSound
  <2>5. CASE u.locked
    <3>1. Focus(u, v) = u
      BY <2>5 DEF Focus
    <3>2. FocusSound(u)
      BY <2>3, <2>5 DEF FocusSound, SeatSound, UsableExcept
    <3>3. QED BY <3>1, <3>2 DEF u
  <2>6. CASE ~u.locked
    <3>1. UsableExcept(Focus(u, v), {})
      BY <2>1, <2>2, <2>3, <2>6, FocusUsable DEF SeatSound
    <3>2. QED BY <2>4, <3>1 DEF FocusSound, u
  <2>7. QED BY <2>5, <2>6 DEF u
<1>11. QED BY <1>3, <1>9, <1>10, FocusConsistent DEF Keeps

(* view::handle_unmap unlinks and hides the window.                        *)
LEMMA HandleUnmapKeeps ==
  ASSUME NEW s \in Server, NEW v \in Views, Consistent(s)
  PROVE  Keeps(s, HandleUnmap(s, v))
<1> DEFINE t == [s EXCEPT !.focused_surface = IF @ = v THEN NoSurface ELSE @,
                          !.activated = @ \ {v},
                          !.mapped = @ \ {v},
                          !.views = RemoveFirst(@, v),
                          !.shown = @ \ {v}]
<1>1. s.views \in Seq(Views) /\ RemoveFirst(s.views, v) \in Seq(Views)
  BY RemoveFirstProperties DEF Server
<1>2. t \in Server
  BY <1>1 DEF Server, Surfaces
<1>3. HandleUnmap(s, v) = FocusNext(t, v)
  BY DEF HandleUnmap
<1>4. /\ t.mapped = s.mapped \ {v} /\ t.views = RemoveFirst(s.views, v)
      /\ t.workspace = s.workspace
      /\ t.current_workspace = s.current_workspace
      /\ t.max_visible_workspace = s.max_visible_workspace
      /\ t.shown = s.shown \ {v} /\ t.minimized = s.minimized /\ t.pinned = s.pinned
      /\ t.focused_surface = IF s.focused_surface = v THEN NoSurface
                                                      ELSE s.focused_surface
      /\ t.activated = s.activated \ {v}
      /\ t.focused_layer = s.focused_layer /\ t.urgent = s.urgent
      /\ t.keyboard = s.keyboard /\ t.locked = s.locked
  BY DEF Server
<1> HIDE DEF t
<1>5. Listed(t)
  BY <1>1, <1>4, RemoveUnlinks DEF Consistent, Listed
<1>6. Reachable(t) /\ ShownExcept(t, {})
  BY <1>4 DEF Consistent, Reachable, ShownExcept, Visible
<1>7. ASSUME FocusSound(s)
      PROVE  SeatSound(t) /\ UsableExcept(t, {v})
  <2>1. SeatSound(t)
    BY <1>4, <1>7, WindowsAssumption DEF FocusSound, SeatSound
  <2>2. ASSUME s.focused_surface \in Views \ {v}
        PROVE  t.views # <<>> /\ t.views[1] = s.focused_surface
    <3>1. s.views # <<>> /\ s.views[1] = s.focused_surface
      BY <1>7, <2>2 DEF FocusSound, UsableExcept
    <3>2. QED BY <1>1, <1>4, <2>2, <3>1, RemoveKeepsHead
  <2>3. UsableExcept(t, {v})
    BY <1>4, <1>7, <2>2, WindowsAssumption DEF FocusSound, UsableExcept
  <2>4. QED BY <2>1, <2>3
<1>8. QED BY <1>2, <1>3, <1>5, <1>6, <1>7, FocusNextKeeps DEF Consistent

(* view::handle_destroy of an unmapped window touches no other.            *)
LEMMA HandleDestroyKeeps ==
  ASSUME NEW s \in Server, NEW v \in Views, v \notin s.mapped, Consistent(s)
  PROVE  Keeps(s, HandleDestroy(s, v))
<1> DEFINE t == HandleDestroy(s, v)
<1>1. /\ t.mapped = s.mapped /\ t.views = s.views
      /\ t.workspace = [s.workspace EXCEPT ![v] = 0]
      /\ t.current_workspace = s.current_workspace
      /\ t.max_visible_workspace = s.max_visible_workspace
      /\ t.shown = s.shown /\ t.minimized = s.minimized \ {v}
      /\ t.pinned = s.pinned \ {v}
      /\ t.focused_surface = s.focused_surface /\ t.focused_layer = s.focused_layer
      /\ t.activated = s.activated /\ t.urgent = s.urgent \ {v}
      /\ t.keyboard = s.keyboard /\ t.locked = s.locked
  BY DEF HandleDestroy, Server
<1> HIDE DEF t
<1>2. s.workspace \in [Views -> Workspaces] /\ s.mapped \subseteq Views
  BY DEF Server
<1>3. Consistent(t)
  BY <1>1, <1>2 DEF Consistent, Listed, Reachable, ShownExcept, Visible
<1>4. FocusSound(s) => FocusSound(t)
  BY <1>1 DEF FocusSound, SeatSound, UsableExcept
<1>5. QED BY <1>3, <1>4 DEF Keeps, t

(* Layer surfaces do not touch windows but through focus_next.             *)
LEMMA LayerKeeps ==
  ASSUME NEW s \in Server, NEW l \in Layers, Consistent(s)
  PROVE  Keeps(s, FocusLayer(s, l)) /\ Keeps(s, UnmapLayer(s, l))
<1> DEFINE t == [s EXCEPT !.focused_layer = NoSurface]
           u == FocusLayer(s, l)
<1>1. UnmapLayer(s, l) = IF s.focused_layer = l THEN FocusNext(t, NoSurface) ELSE s
  BY DEF UnmapLayer
<1>2. /\ t \in Server /\ Consistent(t)
      /\ FocusSound(s) => SeatSound(t) /\ UsableExcept(t, {NoSurface})
  <2>1. /\ t.mapped = s.mapped /\ t.views = s.views /\ t.workspace = s.workspace
        /\ t.current_workspace = s.current_workspace
        /\ t.max_visible_workspace = s.max_visible_workspace
        /\ t.shown = s.shown /\ t.pinned = s.pinned /\ t.minimized = s.minimized
        /\ t.focused_surface = s.focused_surface /\ t.focused_layer = NoSurface
        /\ t.activated = s.activated /\ t.urgent = s.urgent
        /\ t.keyboard = s.keyboard /\ t.locked = s.locked
        /\ t \in Server
    BY DEF Server
  <2> HIDE DEF t
  <2>2. Consistent(t)
    BY <2>1, SameConsistent DEF Consistent
  <2>3. QED BY <2>1, <2>2 DEF FocusSound, SeatSound, UsableExcept
<1>3. Keeps(s, u)
  <2>1. /\ u.mapped = s.mapped /\ u.views = s.views /\ u.workspace = s.workspace
        /\ u.current_workspace = s.current_workspace
        /\ u.max_visible_workspace = s.max_visible_workspace
        /\ u.shown = s.shown /\ u.pinned = s.pinned /\ u.minimized = s.minimized
        /\ u.activated = s.activated /\ u.urgent = s.urgent
        /\ u.keyboard = s.keyboard /\ u.locked = s.locked
        /\ \/ /\ u.focused_surface = s.focused_surface
              /\ u.focused_layer = s.focused_layer
           \/ /\ ~s.locked
              /\ u.focused_surface = IF s.keyboard THEN l ELSE s.focused_surface
    BY DEF FocusLayer, Server
  <2> HIDE DEF u
  <2>2. Consistent(u)
    BY <2>1, SameConsistent DEF Consistent
  <2>3. FocusSound(s) => FocusSound(u)
    BY <2>1, WindowsAssumption DEF FocusSound, SeatSound, UsableExcept
  <2>4. QED BY <2>2, <2>3 DEF Keeps
<1>4. Keeps(s, s)
  BY DEF Keeps
<1> HIDE DEF t, u
<1>5. Keeps(s, FocusNext(t, NoSurface))
  BY <1>2, FocusNextKeeps
<1>6. QED BY <1>1, <1>3, <1>4, <1>5 DEF u

-----------------------------------------------------------------------------

(* Where the windows are: mapped or not, and on which workspace.           *)
PlacesKept(s, t) ==
  /\ t.mapped = s.mapped
  /\ t.workspace = s.workspace
  /\ t.current_workspace = s.current_workspace

(* The keyboard and the record of the layer surface that has it: both stay *)
(* or the keyboard goes to no layer surface.                               *)
LayerKept(s, t) ==
  \/ t.focused_surface = s.focused_surface /\ t.focused_layer = s.focused_layer
  \/ /\ t.focused_surface \notin Layers
     /\ t.focused_layer \in {s.focused_layer, NoSurface}

(* What view::focus does to them.  Without a keyboard it clears the record *)
(* and leaves the focus where it was.                                      *)
Refocus(s, t) ==
  /\ PlacesKept(s, t) /\ t.keyboard = s.keyboard
  /\ s.keyboard => LayerKept(s, t)

(* Two such steps in a row are one.                                        *)
LEMMA RefocusTransitive ==
  ASSUME NEW r, NEW s, NEW t, Refocus(r, s), Refocus(s, t)
  PROVE  Refocus(r, t)
  BY DEF Refocus, PlacesKept, LayerKept

(* view::minimize moves no window and no focus.                            *)
LEMMA MinimizeRefocus ==
  ASSUME NEW s \in Server, NEW v \in Views, NEW min \in BOOLEAN
  PROVE  Refocus(s, Minimize(s, v, min))
<1> DEFINE t == Minimize(s, v, min)
<1>1. /\ t.mapped = s.mapped /\ t.workspace = s.workspace
      /\ t.current_workspace = s.current_workspace /\ t.keyboard = s.keyboard
      /\ t.focused_surface = s.focused_surface /\ t.focused_layer = s.focused_layer
  BY DEF Minimize, UpdateVisibility, Server
<1> HIDE DEF t
<1>2. QED BY <1>1 DEF Refocus, PlacesKept, LayerKept, t

(* view::focus.                                                            *)
LEMMA FocusRefocus ==
  ASSUME NEW s \in Server, NEW v \in Views
  PROVE  Refocus(s, Focus(s, v))
<1> DEFINE m == IF v \in s.minimized THEN Minimize(s, v, FALSE) ELSE s
           r == [m EXCEPT !.urgent = @ \ {v}]
           a == Activate(r, v)
<1>1. m \in Server /\ Refocus(s, m)
  BY MinimizeType, MinimizeRefocus DEF Refocus, PlacesKept, LayerKept
<1>2. Focus(s, v) \in {s, r, a}
  BY DEF Focus, Restore
<1> HIDE DEF m
<1>3. r \in Server /\ Refocus(m, r)
  <2>1. r \in Server
    BY <1>1 DEF Server
  <2>2. /\ r.mapped = m.mapped /\ r.workspace = m.workspace
        /\ r.current_workspace = m.current_workspace /\ r.keyboard = m.keyboard
        /\ r.focused_surface = m.focused_surface /\ r.focused_layer = m.focused_layer
    BY <1>1 DEF Server
  <2> HIDE DEF r
  <2>3. QED BY <2>1, <2>2 DEF Refocus, PlacesKept, LayerKept
<1>4. Refocus(s, r)
  BY <1>1, <1>3, RefocusTransitive
<1> HIDE DEF r
<1>5. Refocus(r, a)
  <2>1. /\ a.mapped = r.mapped /\ a.workspace = r.workspace
        /\ a.current_workspace = r.current_workspace /\ a.keyboard = r.keyboard
        /\ r.keyboard => a.focused_surface = v
        /\ a.focused_layer = NoSurface
    BY <1>3 DEF Activate, Server
  <2> HIDE DEF a
  <2>2. v \notin Layers
    BY WindowsAssumption
  <2>3. QED BY <2>1, <2>2 DEF Refocus, PlacesKept, LayerKept
<1>6. Refocus(s, a)
  BY <1>4, <1>5, RefocusTransitive
<1>7. Refocus(s, s)
  BY DEF Refocus, PlacesKept, LayerKept
<1>8. QED BY <1>2, <1>4, <1>6, <1>7

(* The loop of view::focus_next and its clear_focus.                       *)
LEMMA FocusNextRefocus ==
  ASSUME NEW s \in Server, NEW skip
  PROVE  Refocus(s, FocusTopmost(s, skip)) /\ Refocus(s, FocusNext(s, skip))
<1>1. Refocus(s, FocusTopmost(s, skip))
  <2>1. CASE Candidates(s, skip) # {}
    BY <2>1, TopmostIsCandidate, FocusRefocus DEF FocusTopmost
  <2>2. CASE Candidates(s, skip) = {}
    <3> DEFINE t == [s EXCEPT !.focused_surface = NoSurface]
    <3>1. /\ t.mapped = s.mapped /\ t.workspace = s.workspace
          /\ t.current_workspace = s.current_workspace /\ t.keyboard = s.keyboard
          /\ t.focused_surface = NoSurface /\ t.focused_layer = s.focused_layer
      BY DEF Server
    <3>2. FocusTopmost(s, skip) = t
      BY <2>2 DEF FocusTopmost
    <3> HIDE DEF t
    <3>3. NoSurface \notin Layers
      BY WindowsAssumption
    <3>4. QED BY <3>1, <3>2, <3>3 DEF Refocus, PlacesKept, LayerKept
  <2>3. QED BY <2>1, <2>2
<1>2. Refocus(s, s)
  BY DEF Refocus, PlacesKept, LayerKept
<1>3. QED BY <1>1, <1>2 DEF FocusNext

(* A panel or a client that minimizes a window moves the focus only.       *)
LEMMA MinimizeAndMoveOnRefocus ==
  ASSUME NEW s \in Server, NEW v \in Views
  PROVE  Refocus(s, MinimizeAndMoveOn(s, v))
<1> DEFINE t == Minimize(s, v, TRUE)
<1>1. t \in Server /\ Refocus(s, t)
  BY MinimizeType, MinimizeRefocus
<1> HIDE DEF t
<1>2. Refocus(t, FocusNext(t, v))
  BY <1>1, FocusNextRefocus
<1>3. QED BY <1>1, <1>2, RefocusTransitive DEF MinimizeAndMoveOn, t

(* The places after a step, for every window that is on the current        *)
(* workspace before and is not one of some.                                *)
StaysHere(s, t, some) ==
  \A v \in s.mapped \ some :
    s.workspace[v] = s.current_workspace =>
      v \in t.mapped /\ t.workspace[v] = t.current_workspace

(* Such a step, seen from the layer surfaces too.                          *)
Shifts(s, t, some) ==
  /\ StaysHere(s, t, some) /\ t.keyboard = s.keyboard
  /\ s.keyboard => LayerKept(s, t)

(* A move of the focus takes no window off its workspace.                  *)
LEMMA RefocusShifts ==
  ASSUME NEW s, NEW t, Refocus(s, t)
  PROVE  Shifts(s, t, {})
  BY DEF Refocus, PlacesKept, Shifts, StaysHere

(* A shift that is followed by a move of the focus.                        *)
LEMMA ShiftsThenRefocus ==
  ASSUME NEW r, NEW s, NEW t, NEW some, Shifts(r, s, some), Refocus(s, t)
  PROVE  Shifts(r, t, some)
<1>1. StaysHere(r, t, some) /\ t.keyboard = r.keyboard
  BY DEF Shifts, StaysHere, Refocus, PlacesKept
<1>2. r.keyboard => LayerKept(r, t)
  BY DEF Shifts, Refocus, LayerKept
<1>3. QED BY <1>1, <1>2 DEF Shifts

(* Switching to the current workspace is no step, and to another one moves *)
(* no window.                                                              *)
LEMMA WorkspaceSwitchShifts ==
  ASSUME NEW s \in Server, NEW w
  PROVE  /\ Shifts(s, WorkspaceSwitch(s, w),
                   IF w \in Workspaces \ {s.current_workspace} THEN Views ELSE {})
         /\ WorkspaceSwitch(s, w).workspace = s.workspace
<1>1. CASE w \notin Workspaces \ {s.current_workspace}
  BY <1>1 DEF WorkspaceSwitch, Shifts, StaysHere, LayerKept
<1>2. CASE w \in Workspaces \ {s.current_workspace}
  <2> DEFINE t == ShowWorkspace(s, w)
  <2>1. t \in Server
    BY <1>2, ShowWorkspaceType
  <2>2. WorkspaceSwitch(s, w) = FocusTopmost(t, NoSurface)
    BY <1>2 DEF WorkspaceSwitch
  <2>3. /\ t.mapped = s.mapped /\ t.workspace = s.workspace /\ t.keyboard = s.keyboard
        /\ t.focused_surface = s.focused_surface /\ t.focused_layer = s.focused_layer
    BY DEF ShowWorkspace, Server
  <2> HIDE DEF t
  <2>4. Refocus(t, FocusTopmost(t, NoSurface))
    BY <2>1, FocusNextRefocus
  <2>5. Shifts(s, t, Views)
    BY <2>3 DEF Shifts, StaysHere, LayerKept, Server
  <2>6. QED BY <1>2, <2>2, <2>3, <2>4, <2>5, ShiftsThenRefocus
               DEF Refocus, PlacesKept
<1>3. QED BY <1>1, <1>2

(* view::move_to_workspace moves one window.                               *)
LEMMA MoveToWorkspaceShifts ==
  ASSUME NEW s \in Server, NEW v \in Views, NEW w \in Workspaces
  PROVE  Shifts(s, MoveToWorkspace(s, v, w), {v})
<1> DEFINE t == [s EXCEPT !.pinned = @ \ {v},
                          !.workspace[v] = w,
                          !.max_visible_workspace = IF w > @ THEN w ELSE @]
           u == UpdateVisibility(t, v)
<1>1. t \in Server
  BY DEF Server
<1>2. MoveToWorkspace(s, v, w) = FocusNext(u, v)
  BY DEF MoveToWorkspace
<1>3. /\ t.mapped = s.mapped /\ t.workspace = [s.workspace EXCEPT ![v] = w]
      /\ t.current_workspace = s.current_workspace /\ t.keyboard = s.keyboard
      /\ t.focused_surface = s.focused_surface /\ t.focused_layer = s.focused_layer
  BY DEF Server
<1> HIDE DEF t
<1>4. /\ u \in Server
      /\ u.mapped = s.mapped /\ u.workspace = [s.workspace EXCEPT ![v] = w]
      /\ u.current_workspace = s.current_workspace /\ u.keyboard = s.keyboard
      /\ u.focused_surface = s.focused_surface /\ u.focused_layer = s.focused_layer
  <2>1. u \in Server
    BY <1>1, UpdateVisibilityType
  <2>2. QED BY <1>1, <1>3, <2>1 DEF UpdateVisibility, Server
<1> HIDE DEF u
<1>5. Shifts(s, u, {v})
  BY <1>4 DEF Shifts, StaysHere, LayerKept, Server
<1>6. Refocus(u, FocusNext(u, v))
  BY <1>4, FocusNextRefocus
<1>7. QED BY <1>2, <1>5, <1>6, ShiftsThenRefocus

(* The "pin" action takes a window to the current workspace, never away.   *)
LEMMA TogglePinShifts ==
  ASSUME NEW s \in Server, NEW v \in Views
  PROVE  Shifts(s, TogglePin(s, v), {})
  BY DEF TogglePin, Shifts, StaysHere, LayerKept, Server

(* view::handle_map moves the new window only.                             *)
LEMMA HandleMapShifts ==
  ASSUME NEW s \in Server, NEW v \in Views, v \notin s.mapped
  PROVE  Shifts(s, HandleMap(s, v), {})
<1> DEFINE t == [s EXCEPT !.mapped = @ \cup {v},
                          !.workspace[v] = s.current_workspace,
                          !.views = <<v>> \o @]
           u == UpdateVisibility(t, v)
<1>1. t \in Server
  BY ToFront DEF Server
<1>2. HandleMap(s, v) = Focus(u, v)
  BY DEF HandleMap
<1>3. /\ t.mapped = s.mapped \cup {v}
      /\ t.workspace = [s.workspace EXCEPT ![v] = s.current_workspace]
      /\ t.current_workspace = s.current_workspace /\ t.keyboard = s.keyboard
      /\ t.focused_surface = s.focused_surface /\ t.focused_layer = s.focused_layer
  BY DEF Server
<1> HIDE DEF t
<1>4. /\ u \in Server
      /\ u.mapped = t.mapped /\ u.workspace = t.workspace
      /\ u.current_workspace = t.current_workspace /\ u.keyboard = t.keyboard
      /\ u.focused_surface = t.focused_surface /\ u.focused_layer = t.focused_layer
  <2>1. u \in Server
    BY <1>1, UpdateVisibilityType
  <2>2. QED BY <1>1, <2>1 DEF UpdateVisibility, Server
<1> HIDE DEF u
<1>5. Shifts(s, u, {})
  BY <1>3, <1>4 DEF Shifts, StaysHere, LayerKept, Server
<1>6. Refocus(u, Focus(u, v))
  BY <1>4, FocusRefocus
<1>7. QED BY <1>2, <1>5, <1>6, ShiftsThenRefocus

(* view::handle_unmap takes one window away.                               *)
LEMMA HandleUnmapShifts ==
  ASSUME NEW s \in Server, NEW v \in Views
  PROVE  Shifts(s, HandleUnmap(s, v), {v})
<1> DEFINE t == [s EXCEPT !.focused_surface = IF @ = v THEN NoSurface ELSE @,
                          !.activated = @ \ {v},
                          !.mapped = @ \ {v},
                          !.views = RemoveFirst(@, v),
                          !.shown = @ \ {v}]
<1>1. t \in Server
  <2>1. RemoveFirst(s.views, v) \in Seq(Views)
    BY RemoveFirstProperties DEF Server
  <2>2. QED BY <2>1 DEF Server, Surfaces
<1>2. HandleUnmap(s, v) = FocusNext(t, v)
  BY DEF HandleUnmap
<1>3. /\ t.mapped = s.mapped \ {v} /\ t.workspace = s.workspace
      /\ t.current_workspace = s.current_workspace /\ t.keyboard = s.keyboard
      /\ t.focused_surface \in {s.focused_surface, NoSurface}
      /\ t.focused_layer = s.focused_layer
  BY DEF Server
<1> HIDE DEF t
<1>4. Shifts(s, t, {v})
  BY <1>3, WindowsAssumption DEF Shifts, StaysHere, LayerKept
<1>5. Refocus(t, FocusNext(t, v))
  BY <1>1, FocusNextRefocus
<1>6. QED BY <1>2, <1>4, <1>5, ShiftsThenRefocus

(* view::handle_destroy of an unmapped window moves no other.              *)
LEMMA HandleDestroyShifts ==
  ASSUME NEW s \in Server, NEW v \in Views, v \notin s.mapped
  PROVE  Shifts(s, HandleDestroy(s, v), {})
  BY DEF HandleDestroy, Shifts, StaysHere, LayerKept, Server
=============================================================================
