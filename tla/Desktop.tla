------------------------------ MODULE Desktop ------------------------------
(***************************************************************************)
(* steppewm's desktop: windows, workspaces, the Alt+Tab overlay, layer     *)
(* surfaces and the session lock, all competing for one keyboard focus.    *)
(*                                                                         *)
(* The compositor is one thread around a wl_event_loop: a handler runs to  *)
(* its end before the next event, so each handler is one action.  The      *)
(* interleaving is that of the events: clients, panels, the user, the      *)
(* locker and the kernel (keyboards come and go) act in any order.         *)
(***************************************************************************)
EXTENDS Switcher

CONSTANTS
  SwitchBinds,    \* TRUE if bindswitch maps the lid to window actions
  HotPlug         \* TRUE if the seat may be without a keyboard

ASSUME DesktopAssumption == SwitchBinds \in BOOLEAN /\ HotPlug \in BOOLEAN

VARIABLES
  srv,            \* the part of `server` Windows.tla describes
  sw,             \* server::sw
  cur_lock,       \* TRUE while server::cur_lock is not null
  lock_surfaces,  \* cur_lock->surfaces
  broken_msg,     \* TRUE while the "locker crashed" message is up
  layers          \* the mapped layer surfaces

vars == <<srv, sw, cur_lock, lock_surfaces, broken_msg, layers>>
lockVars == <<cur_lock, lock_surfaces, broken_msg>>

Init ==
  /\ srv \in { InitServer(k) : k \in IF HotPlug THEN BOOLEAN ELSE {TRUE} }
  /\ sw = Closed
  /\ cur_lock = FALSE
  /\ lock_surfaces = {}
  /\ broken_msg = FALSE
  /\ layers = {}

-----------------------------------------------------------------------------
(* Windows: the client's requests. *)

Map(v) ==
  /\ v \notin srv.mapped
  /\ srv' = HandleMap(srv, v)
  /\ UNCHANGED <<sw, lockVars, layers>>

Unmap(v) ==
  /\ v \in srv.mapped
  /\ srv' = HandleUnmap(srv, v)
  /\ sw' = ViewRemoved(sw, v)
  /\ UNCHANGED <<lockVars, layers>>

Destroy(v) ==
  /\ v \notin srv.mapped
  /\ srv' = HandleDestroy(srv, v)
  /\ UNCHANGED <<sw, lockVars, layers>>

(* xdg_toplevel.set_minimized, legal before the window is mapped too. *)
RequestMinimize(v) ==
  /\ srv' = MinimizeAndMoveOn(srv, v)
  /\ UNCHANGED <<sw, lockVars, layers>>

(* The switcher is cancelled whenever the workspace really changes. *)
ShowWorkspaceOf(v) ==
  /\ srv' = Focus(WorkspaceSwitch(srv, srv.workspace[v]), v)
  /\ sw' = IF srv.workspace[v] = srv.current_workspace THEN sw ELSE Closed

(* xdg-activation.  A token is judged against the focused surface, so none *)
(* is valid while nothing is focused; its serial check is left to \E valid. *)
ActivationRequest(v) ==
  /\ v \in srv.mapped
  /\ \/ srv.focused_surface # NoSurface /\ ShowWorkspaceOf(v)
     \/ /\ srv' = IF srv.focused_surface = v THEN srv
                  ELSE [srv EXCEPT !.urgent = @ \cup {v}]
        /\ UNCHANGED sw
  /\ UNCHANGED <<lockVars, layers>>

-----------------------------------------------------------------------------
(* Windows: panels, through the foreign-toplevel handle of a mapped window. *)

ForeignActivate(v) ==
  /\ v \in srv.mapped
  /\ ShowWorkspaceOf(v)
  /\ UNCHANGED <<lockVars, layers>>

ForeignMinimize(v) ==
  /\ v \in srv.mapped
  /\ srv' = MinimizeAndMoveOn(srv, v)
  /\ UNCHANGED <<sw, lockVars, layers>>

ForeignRestore(v) ==
  /\ v \in srv.mapped
  /\ srv' = Focus(Minimize(srv, v, FALSE), v)
  /\ UNCHANGED <<sw, lockVars, layers>>

-----------------------------------------------------------------------------
(* The pointer.  on_cursor_button handles no press while locked. *)

(* A click into a window, or on its border or titlebar. *)
ClickWindow(v) ==
  /\ ~srv.locked
  /\ v \in srv.shown
  /\ srv' = Focus(srv, v)
  /\ UNCHANGED <<sw, lockVars, layers>>

(* A click on the minimize button: the window is focused, then minimized. *)
ClickMinimizeButton(v) ==
  /\ ~srv.locked
  /\ v \in srv.shown
  /\ srv' = MinimizeAndMoveOn(Focus(srv, v), v)
  /\ UNCHANGED <<sw, lockVars, layers>>

ClickTaskButton(v) ==
  /\ ~srv.locked
  /\ v \in srv.mapped
  /\ IF v \in srv.pinned
       THEN srv' = Focus(srv, v) /\ UNCHANGED sw
       ELSE ShowWorkspaceOf(v)
  /\ UNCHANGED <<lockVars, layers>>

(* Fault: the overlay survives the switch. *)
SwitchUnderOverlay(w) ==
  /\ srv' = WorkspaceSwitch(srv, w)
  /\ UNCHANGED <<sw, lockVars, layers>>

(* The taskbar has a button for each workspace up to the largest one used. *)
SwitchTo(w) ==
  /\ srv' = WorkspaceSwitch(srv, w)
  /\ sw' = IF w = srv.current_workspace THEN sw ELSE Closed
  /\ UNCHANGED <<lockVars, layers>>

ClickWorkspaceButton(w) ==
  /\ ~srv.locked
  /\ w <= srv.max_visible_workspace
  /\ SwitchTo(w)

-----------------------------------------------------------------------------
(* server::dispatch_action, from a key (never while locked) or from the    *)
(* lid or tablet-mode switch, whose handler has no such test.              *)

MayDispatch == ~srv.locked \/ SwitchBinds

FocusedView == IF srv.focused_surface \in Views THEN srv.focused_surface
                                                ELSE NoSurface

ActionCycle(step) ==
  /\ MayDispatch
  /\ sw' = Cycle(srv, sw, step)
  /\ UNCHANGED <<srv, lockVars, layers>>

ActionWorkspace(w) == MayDispatch /\ SwitchTo(w)

ActionMoveToWorkspace(w) ==
  /\ MayDispatch
  /\ FocusedView # NoSurface
  /\ CanMoveTo(srv, FocusedView, w)
  /\ srv' = MoveToWorkspace(srv, FocusedView, w)
  /\ sw' = ViewRemoved(sw, FocusedView)
  /\ UNCHANGED <<lockVars, layers>>

ActionMinimize ==
  /\ MayDispatch
  /\ FocusedView # NoSurface
  /\ srv' = MinimizeAndMoveOn(srv, FocusedView)
  /\ UNCHANGED <<sw, lockVars, layers>>

ActionPin ==
  /\ MayDispatch
  /\ FocusedView # NoSurface
  /\ srv' = TogglePin(srv, FocusedView)
  /\ UNCHANGED <<sw, lockVars, layers>>

(* switcher::handle_modifiers: the modifiers of the bind are released. *)
CommitSwitcher ==
  /\ sw.open
  /\ srv' = Focus(srv, Highlighted(sw))
  /\ sw' = Closed
  /\ UNCHANGED <<lockVars, layers>>

(* Escape while the overlay is up. *)
CancelSwitcher ==
  /\ sw.open
  /\ sw' = Closed
  /\ UNCHANGED <<srv, lockVars, layers>>

-----------------------------------------------------------------------------
(* Layer surfaces that ask for the keyboard *)

LayerMap(l) ==
  /\ l \notin layers
  /\ layers' = layers \cup {l}
  /\ srv' = FocusLayer(srv, l)
  /\ UNCHANGED <<sw, lockVars>>

LayerUnmap(l) ==
  /\ l \in layers
  /\ layers' = layers \ {l}
  /\ srv' = UnmapLayer(srv, l)
  /\ UNCHANGED <<sw, lockVars>>

-----------------------------------------------------------------------------
(* The session lock *)

(* Fault: a new locker does not take the crash message down. *)
LockUnderMessage ==
  /\ ~cur_lock
  /\ cur_lock' = TRUE
  /\ sw' = Closed
  /\ srv' = [srv EXCEPT !.locked = TRUE, !.focused_surface = NoSurface]
  /\ UNCHANGED <<lock_surfaces, broken_msg, layers>>

(* Fault: the overlay is not cancelled. *)
LockUnderOverlay ==
  /\ ~cur_lock
  /\ cur_lock' = TRUE
  /\ broken_msg' = FALSE
  /\ srv' = [srv EXCEPT !.locked = TRUE, !.focused_surface = NoSurface]
  /\ UNCHANGED <<sw, lock_surfaces, layers>>

(* session_lock::on_new and the constructor.  A second locker is refused   *)
(* while one lives; after a crash a new one takes over the locked session. *)
Lock ==
  /\ ~cur_lock
  /\ cur_lock' = TRUE
  /\ broken_msg' = FALSE
  /\ sw' = Closed
  /\ srv' = [srv EXCEPT !.locked = TRUE, !.focused_surface = NoSurface]
  /\ UNCHANGED <<lock_surfaces, layers>>

EnterLockSurface(s, ls) ==
  [s EXCEPT !.focused_surface = IF s.keyboard THEN ls ELSE @]

(* lock_surface::lock_surface *)
NewLockSurface(ls) ==
  /\ cur_lock
  /\ ls \notin lock_surfaces
  /\ lock_surfaces' = lock_surfaces \cup {ls}
  /\ srv' = EnterLockSurface(srv, ls)
  /\ UNCHANGED <<sw, cur_lock, broken_msg, layers>>

(* lock_surface::handle_destroy: an output went, or the client dropped it. *)
LockSurfaceDestroyed(ls) ==
  /\ ls \in lock_surfaces
  /\ lock_surfaces' = lock_surfaces \ {ls}
  /\ IF srv.focused_surface # ls THEN UNCHANGED srv
     ELSE IF lock_surfaces' # {} /\ srv.keyboard
       THEN \E other \in lock_surfaces' : srv' = EnterLockSurface(srv, other)
     ELSE srv' = IF srv.locked THEN [srv EXCEPT !.focused_surface = NoSurface]
                               ELSE srv
  /\ UNCHANGED <<sw, cur_lock, broken_msg, layers>>

(* unlock_and_destroy: the unlock event, then wlroots destroys the lock's  *)
(* surfaces and the lock.  Focus has left the lock surfaces by then; with  *)
(* no keyboard it may rest on one, whose handle_destroy leaves it there.   *)
Unlock ==
  /\ cur_lock /\ srv.locked
  /\ srv' = FocusNext([srv EXCEPT !.locked = FALSE], NoSurface)
  /\ cur_lock' = FALSE
  /\ lock_surfaces' = {}
  /\ UNCHANGED <<sw, broken_msg, layers>>

(* Fault: the next window gets the keyboard of the dead locker. *)
CrashGivesFocus ==
  /\ cur_lock /\ srv.locked
  /\ cur_lock' = FALSE
  /\ lock_surfaces' = {}
  /\ broken_msg' = TRUE
  /\ srv' = [FocusNext([srv EXCEPT !.locked = FALSE], NoSurface)
               EXCEPT !.locked = TRUE]
  /\ UNCHANGED <<sw, layers>>

(* The locker goes away without unlocking: its surfaces are destroyed one  *)
(* by one, so focus ends on none of them, and the session stays locked.    *)
LockerCrash ==
  /\ cur_lock /\ srv.locked
  /\ cur_lock' = FALSE
  /\ lock_surfaces' = {}
  /\ broken_msg' = TRUE
  /\ srv' = [srv EXCEPT !.focused_surface =
                          IF @ \in lock_surfaces THEN NoSurface ELSE @]
  /\ UNCHANGED <<sw, layers>>

(* Fault: a seat without any focus counts as focused. *)
KeyNeedsFocus ==
  /\ srv.locked /\ srv.keyboard
  /\ cur_lock /\ srv.focused_surface \in Surfaces \ (LockSurfaces \cup {NoSurface})
  /\ \E ls \in lock_surfaces :
       srv' = [srv EXCEPT !.focused_surface = ls]
  /\ UNCHANGED <<sw, lockVars, layers>>

(* session_lock::ensure_focus, on a key while the session is locked. *)
KeyWhileLocked ==
  /\ srv.locked /\ srv.keyboard
  /\ cur_lock /\ srv.focused_surface \notin LockSurfaces
  /\ \E ls \in lock_surfaces : srv' = EnterLockSurface(srv, ls)
  /\ UNCHANGED <<sw, lockVars, layers>>

-----------------------------------------------------------------------------
(* The seat, as wlroots keeps it *)

(* The first keyboard arrives, or another one takes the seat over. *)
KeyboardAttached ==
  /\ ~srv.keyboard
  /\ srv' = [srv EXCEPT !.keyboard = TRUE]
  /\ UNCHANGED <<sw, lockVars, layers>>

KeyboardGone ==
  /\ HotPlug /\ srv.keyboard
  /\ srv' = [srv EXCEPT !.keyboard = FALSE]
  /\ UNCHANGED <<sw, lockVars, layers>>

(* The wl_surface that was a layer or lock surface dies with the focus. *)
SurfaceGone ==
  /\ srv.focused_surface \in (Layers \ layers) \cup (LockSurfaces \ lock_surfaces)
  /\ srv' = [srv EXCEPT !.focused_surface = NoSurface]
  /\ UNCHANGED <<sw, lockVars, layers>>

-----------------------------------------------------------------------------

WindowNext ==
  \E v \in Views :
    \/ Map(v) \/ Unmap(v) \/ Destroy(v) \/ RequestMinimize(v)
    \/ ActivationRequest(v)
    \/ ForeignActivate(v) \/ ForeignMinimize(v) \/ ForeignRestore(v)
    \/ ClickWindow(v) \/ ClickMinimizeButton(v) \/ ClickTaskButton(v)

UserNext ==
  \/ \E w \in Workspaces :
       ClickWorkspaceButton(w) \/ ActionWorkspace(w) \/ ActionMoveToWorkspace(w)
  \/ \E step \in {1, -1} : ActionCycle(step)
  \/ ActionMinimize \/ ActionPin
  \/ CommitSwitcher \/ CancelSwitcher

LayerNext == \E l \in Layers : LayerMap(l) \/ LayerUnmap(l)

LockNext ==
  \/ \E ls \in LockSurfaces : NewLockSurface(ls) \/ LockSurfaceDestroyed(ls)
  \/ Lock \/ Unlock \/ LockerCrash \/ KeyWhileLocked

SeatNext == KeyboardAttached \/ KeyboardGone \/ SurfaceGone

Next == WindowNext \/ UserNext \/ LayerNext \/ LockNext \/ SeatNext

Spec == Init /\ [][Next]_vars

(* The loop reads the keyboard as long as the user types. *)
FairSpec == Spec /\ WF_vars(KeyWhileLocked)

-----------------------------------------------------------------------------
(* Invariants *)

(* Every variable has its type. *)
TypeOK ==
  /\ srv \in Server
  /\ sw \in Overlay
  /\ cur_lock \in BOOLEAN /\ broken_msg \in BOOLEAN
  /\ lock_surfaces \subseteq LockSurfaces
  /\ layers \subseteq Layers

(* lock.cc "take focus away from regular clients": in a locked session the *)
(* keyboard belongs to a live lock surface or to nobody, through window    *)
(* requests, panels, workspace switches, locker crashes and hot-plugging.  *)
LockedFocus ==
  srv.locked => srv.focused_surface \in lock_surfaces \cup {NoSurface}

(* A living locker has the session locked, its surfaces die with it, and   *)
(* the crash message is up exactly while nobody can unlock.                *)
LockBookkeeping ==
  /\ cur_lock => srv.locked
  /\ lock_surfaces # {} => cur_lock
  /\ broken_msg <=> srv.locked /\ ~cur_lock

(* The window that owns the keyboard is mapped, restored, not urgent,      *)
(* reported as activated, first in the MRU list, and no layer surface is   *)
(* recorded as the owner: what every path through view::focus must leave.  *)
FocusedUsable ==
  srv.focused_surface \in Views =>
    /\ srv.focused_surface \in srv.mapped \cap srv.activated
    /\ srv.focused_surface \notin srv.minimized \cup srv.urgent
    /\ srv.views # <<>> /\ srv.views[1] = srv.focused_surface
    /\ srv.focused_layer = NoSurface

(* server::views holds each mapped window once: unmap and focus unlink and *)
(* relink without a window getting lost, doubled or left behind.           *)
ListExact ==
  /\ ToSet(srv.views) = srv.mapped
  /\ \A i, j \in DOMAIN srv.views : srv.views[i] = srv.views[j] => i = j

(* The taskbar draws a button for every workspace up to the largest one    *)
(* used, so no window, and not the user, is on a workspace without one.    *)
WorkspaceReachable ==
  \A w \in {srv.current_workspace} \cup { srv.workspace[v] : v \in srv.mapped } :
    w <= srv.max_visible_workspace

(* The scene shows no window that is minimized or that belongs, unpinned,  *)
(* to another workspace, though pin and switch update it on their own.     *)
ShownBelongs == \A v \in srv.shown : v \in srv.mapped /\ Visible(srv, v)

(* While the overlay is up its snapshot is not empty, has no window twice, *)
(* and holds only windows that are still mapped on the current workspace,  *)
(* and the highlight is in it: a commit never focuses a window that left.  *)
SwitcherLive ==
  sw.open =>
    /\ sw.selected < Len(sw.views)
    /\ \A i, j \in DOMAIN sw.views : sw.views[i] = sw.views[j] => i = j
    /\ \A v \in ToSet(sw.views) :
         v \in srv.mapped /\ srv.workspace[v] = srv.current_workspace

(* server::focused_layer never dangles, and a layer surface that has the   *)
(* keyboard is recorded there: its unmap is what hands the focus back.     *)
LayerFocusTracked ==
  /\ srv.focused_layer \in layers \cup {NoSurface}
  /\ srv.focused_surface \in Layers => srv.focused_layer = srv.focused_surface

(* lock.cc "cancel anything interactive": no overlay over a locked session. *)
LockStopsSwitcher == srv.locked => ~sw.open

-----------------------------------------------------------------------------
(* Action properties *)

(* view.cc "focus the next window, otherwise clear focus": when a step     *)
(* leaves an unlocked session without keyboard owner, no window other than *)
(* the one that had the keyboard could have taken it.                      *)
FocusHandedOver ==
  [][ srv.focused_surface # NoSurface /\ srv'.focused_surface = NoSurface
      /\ ~srv'.locked
      => \A v \in srv'.mapped \ {srv.focused_surface} : ~Visible(srv', v) ]_vars

(* A window that leaves the screen takes the keyboard along only if it had *)
(* it: the focused window keeps it when others close, minimize or move.    *)
BackgroundKeepsFocus ==
  [][ \A v \in srv.shown \cap srv'.shown :
        /\ srv.focused_surface = v
        /\ srv'.shown # srv.shown /\ srv'.shown \subseteq srv.shown
        /\ srv'.current_workspace = srv.current_workspace
        /\ ~srv'.locked
        => srv'.focused_surface = v ]_vars

(* The keyboard reaches a window of another workspace in one way only: a   *)
(* panel restores it from there.  No other step moves the keyboard to such *)
(* a window, and no step takes the workspace away under the focused one.   *)
ForeignFocusByPanelOnly ==
  [][ \A v \in srv'.mapped :
        srv'.focused_surface = v /\ ~Visible(srv', v) =>
          \/ srv.focused_surface = v /\ ~Visible(srv, v)
          \/ ForeignRestore(v) ]_vars

(* switcher.cc "keep the highlight on the same window where possible".     *)
HighlightKept ==
  [][ /\ sw.open /\ sw'.open
      /\ Len(sw'.views) < Len(sw.views)
      /\ Highlighted(sw) \in ToSet(sw'.views)
      => Highlighted(sw') = Highlighted(sw) ]_vars

-----------------------------------------------------------------------------
(* Refinement and liveness *)

Seat == INSTANCE SeatPolicy
          WITH Regular <- Views \cup Layers, secured <- srv.locked,
               locker <- cur_lock, owner <- srv.focused_surface

(* The desktop keeps the promise of the session lock. *)
SeatSpec == Seat!Spec

(* ensure_focus: with a keyboard and a lock surface, typing brings the     *)
(* keyboard back to the locker, whatever took it away.                     *)
LockFocusRestored ==
  srv.locked /\ srv.keyboard /\ lock_surfaces # {}
    ~> \/ srv.focused_surface \in lock_surfaces
       \/ ~srv.locked \/ ~srv.keyboard \/ lock_surfaces = {}

-----------------------------------------------------------------------------
(* What the sources say and the code does not do *)

(* view.cc "unfocus the previously focused window": one window at a time   *)
(* is reported to panels, and drawn, as the active one.                    *)
AtMostOneActivated == \A u, v \in srv.activated : u = v
=============================================================================
