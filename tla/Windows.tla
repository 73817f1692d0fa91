------------------------------ MODULE Windows ------------------------------
(***************************************************************************)
(* The window list of steppewm and the keyboard focus that follows it      *)
(* (src/src/view.cc).                                                      *)
(*                                                                         *)
(* Most handlers of the compositor chain several calls that each rewrite   *)
(* the same `server` object: an unmap ends in focus_next, which ends in    *)
(* focus, which may restore a minimized window first.  So the functions    *)
(* are operators from a `server` record to the next one, named and         *)
(* composed as in the code, and Desktop.tla turns them into actions.       *)
(*                                                                         *)
(* A boolean member of class view is the set of the windows where it is    *)
(* true.  A window and its wl_surface are one value, so `focused_surface`  *)
(* holds a window, a layer surface, a lock surface or NoSurface.           *)
(***************************************************************************)
EXTENDS SequencesExt, Integers, FiniteSets

CONSTANTS
  Views,          \* toplevel windows of the clients
  Layers,         \* layer-shell surfaces that ask for the keyboard
  LockSurfaces,   \* surfaces of session lockers
  NoSurface,      \* the null surface, view and layer surface
  NumWorkspaces   \* view::num_workspaces

ASSUME WindowsAssumption ==
  /\ NumWorkspaces \in Nat \ {0, 1}
  /\ NoSurface \notin Views \cup Layers \cup LockSurfaces
  /\ Views \cap Layers = {}
  /\ Views \cap LockSurfaces = {}
  /\ Layers \cap LockSurfaces = {}

Workspaces == 0 .. NumWorkspaces - 1

Surfaces == Views \cup Layers \cup LockSurfaces \cup {NoSurface}

Server ==
  [ views: Seq(Views),                    \* most recently used first
    mapped: SUBSET Views,
    workspace: [Views -> Workspaces],
    pinned: SUBSET Views,
    minimized: SUBSET Views,
    urgent: SUBSET Views,
    activated: SUBSET Views,              \* the foreign handle says activated
    shown: SUBSET Views,                  \* mapped, with an enabled scene node
    current_workspace: Workspaces,
    max_visible_workspace: Workspaces,
    focused_surface: Surfaces,            \* seat->keyboard_state
    focused_layer: Layers \cup {NoSurface},
    locked: BOOLEAN,
    keyboard: BOOLEAN ]                   \* wlr_seat_get_keyboard is not null

(* The server before the first client.  A seat may have no keyboard yet.   *)
InitServer(has_keyboard) ==
  [ views |-> <<>>, mapped |-> {}, workspace |-> [v \in Views |-> 0],
    pinned |-> {}, minimized |-> {}, urgent |-> {}, activated |-> {},
    shown |-> {}, current_workspace |-> 0, max_visible_workspace |-> 1,
    focused_surface |-> NoSurface, focused_layer |-> NoSurface,
    locked |-> FALSE, keyboard |-> has_keyboard ]

-----------------------------------------------------------------------------
(* view::update_visibility *)

Visible(s, v) ==
  /\ v \notin s.minimized
  /\ v \in s.pinned \/ s.workspace[v] = s.current_workspace

UpdateVisibility(s, v) ==
  [s EXCEPT !.shown = IF v \in s.mapped /\ Visible(s, v)
                        THEN @ \cup {v} ELSE @ \ {v}]

(* view::minimize *)
Minimize(s, v, min) ==
  UpdateVisibility(
    [s EXCEPT !.minimized = IF min THEN @ \cup {v} ELSE @ \ {v}], v)

(* Fault: the window is inserted at the head without being unlinked first. *)
ActivateWithoutUnlink(s, v) ==
  [s EXCEPT !.views = <<v>> \o @,
            !.activated = (@ \ {s.focused_surface}) \cup {v},
            !.focused_surface = IF s.keyboard THEN v ELSE @,
            !.focused_layer = NoSurface]

(* Fault: the window gets the keyboard and keeps its place in the list. *)
ActivateInPlace(s, v) ==
  [s EXCEPT !.activated = (@ \ {s.focused_surface}) \cup {v},
            !.focused_surface = IF s.keyboard THEN v ELSE @,
            !.focused_layer = NoSurface]

(* The part of view::focus below the "already focused" test.  The list     *)
(* move is wl_list_remove followed by wl_list_insert at the head.          *)
Activate(s, v) ==
  [s EXCEPT !.views = <<v>> \o RemoveFirst(@, v),
            !.activated = (@ \ {s.focused_surface}) \cup {v},
            !.focused_surface = IF s.keyboard THEN v ELSE @,
            !.focused_layer = NoSurface]

(* Fault: focusing does not end the urgency. *)
RestoreStaysUrgent(s, v) ==
  IF v \in s.minimized THEN Minimize(s, v, FALSE) ELSE s

(* What view::focus does to the window before it looks at the seat. *)
Restore(s, v) ==
  LET restored == IF v \in s.minimized THEN Minimize(s, v, FALSE) ELSE s
  IN  [restored EXCEPT !.urgent = @ \ {v}]

(* Fault: the test of the session lock is missing. *)
FocusThroughLock(s, v) ==
  IF v \notin s.mapped          THEN s
  ELSE IF s.focused_surface = v THEN Restore(s, v)
  ELSE Activate(Restore(s, v), v)

(* view::focus *)
Focus(s, v) ==
  IF v \notin s.mapped \/ s.locked THEN s
  ELSE IF s.focused_surface = v    THEN Restore(s, v)
  ELSE Activate(Restore(s, v), v)

(* Fault: pinned windows of other workspaces are not considered. *)
CandidatesOfWorkspace(s, skip) ==
  { i \in DOMAIN s.views :
      /\ s.views[i] # skip
      /\ s.views[i] \in s.mapped \ s.minimized
      /\ s.workspace[s.views[i]] = s.current_workspace }

(* Positions in the list of the windows focus may fall back on. *)
Candidates(s, skip) ==
  { i \in DOMAIN s.views :
      /\ s.views[i] # skip
      /\ s.views[i] \in s.mapped
      /\ Visible(s, s.views[i]) }

FocusTopmost(s, skip) ==
  IF Candidates(s, skip) # {}
    THEN Focus(s, s.views[Min(Candidates(s, skip))])
    ELSE [s EXCEPT !.focused_surface = NoSurface]

(* view::focus_next *)
FocusNext(s, skip) == IF s.locked THEN s ELSE FocusTopmost(s, skip)

(* Fault: the windows of the workspace that is left are not hidden. *)
ShowWorkspaceOnly(s, w) ==
  [s EXCEPT !.current_workspace = w,
            !.max_visible_workspace = IF w > @ THEN w ELSE @]

(* view::workspace_switch.  It has no test of s.locked: a locked session   *)
(* still reaches focus, which refuses, or the clear_focus call.            *)
ShowWorkspace(s, w) ==
  LET t == [s EXCEPT !.current_workspace = w,
                     !.max_visible_workspace = IF w > @ THEN w ELSE @]
  IN  [t EXCEPT !.shown = {v \in t.mapped : Visible(t, v)}]

(* Fault: the switch leaves the keyboard where it was. *)
WorkspaceSwitchOnly(s, w) ==
  IF w \notin Workspaces \/ w = s.current_workspace
    THEN s
    ELSE ShowWorkspace(s, w)

WorkspaceSwitch(s, w) ==
  IF w \notin Workspaces \/ w = s.current_workspace
    THEN s
    ELSE FocusTopmost(ShowWorkspace(s, w), NoSurface)

(* The early return of view::move_to_workspace. *)
CanMoveTo(s, v, w) == w \in Workspaces /\ (v \in s.pinned \/ s.workspace[v] # w)

(* Fault: the workspace a window is sent to gets no taskbar button. *)
MoveWithoutButton(s, v, w) ==
  LET t == [s EXCEPT !.pinned = @ \ {v}, !.workspace[v] = w]
  IN  FocusNext(UpdateVisibility(t, v), v)

MoveToWorkspace(s, v, w) ==
  LET t == [s EXCEPT !.pinned = @ \ {v},
                     !.workspace[v] = w,
                     !.max_visible_workspace = IF w > @ THEN w ELSE @]
  IN  FocusNext(UpdateVisibility(t, v), v)

(* "minimize" from a client, a panel, a key or the titlebar button: the    *)
(* window is hidden and focus moves on.                                    *)
MinimizeAndMoveOn(s, v) == FocusNext(Minimize(s, v, TRUE), v)

(* The "pin" action.  It calls no update_visibility. *)
TogglePin(s, v) ==
  IF v \in s.pinned
    THEN [s EXCEPT !.pinned = @ \ {v}, !.workspace[v] = s.current_workspace]
    ELSE [s EXCEPT !.pinned = @ \cup {v}]

(* view::handle_map.  The foreign handle is new, so not yet activated. *)
HandleMap(s, v) ==
  LET t == [s EXCEPT !.mapped = @ \cup {v},
                     !.workspace[v] = s.current_workspace,
                     !.views = <<v>> \o @]
  IN  Focus(UpdateVisibility(t, v), v)

(* view::handle_unmap.  The foreign handle goes; minimized, urgent and     *)
(* pinned stay with the view and are there when it maps again.             *)
HandleUnmap(s, v) ==
  LET t == [s EXCEPT !.focused_surface = IF @ = v THEN NoSurface ELSE @,
                     !.activated = @ \ {v},
                     !.mapped = @ \ {v},
                     !.views = RemoveFirst(@, v),
                     !.shown = @ \ {v}]
  IN  FocusNext(t, v)

(* The unmapped view is deleted; a later window starts from fresh flags.   *)
(* handle_destroy meets a mapped view never: wlroots unmaps it before.     *)
HandleDestroy(s, v) ==
  [s EXCEPT !.minimized = @ \ {v}, !.urgent = @ \ {v}, !.pinned = @ \ {v},
            !.workspace[v] = 0]

(* layer_surface::focus *)
FocusLayer(s, l) ==
  IF s.locked THEN s
  ELSE [s EXCEPT !.focused_surface = IF s.keyboard THEN l ELSE @,
                 !.focused_layer = l]

(* Fault: the layer surface stays recorded as the owner of the keyboard. *)
UnmapLayerSilently(s, l) == IF s.focused_layer = l THEN FocusNext(s, NoSurface)
                                                   ELSE s

(* layer_surface::on_unmap *)
UnmapLayer(s, l) ==
  IF s.focused_layer = l
    THEN FocusNext([s EXCEPT !.focused_layer = NoSurface], NoSurface)
    ELSE s
=============================================================================
