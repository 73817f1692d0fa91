# steppewm: TLA+ models, model checking and proofs

steppewm is a stacking Wayland compositor on wlroots. Its own logic is who has the
keyboard, which windows are shown, what the lock screen guards and what the panels and
indicators are told; wlroots does the protocol. This directory models that logic, checks
it with TLC on small instances and proves the most important parts with TLAPS for every
instance. Paths below are relative to `src/` (the program is in `src/src/`).

    tlc -workers 2 -config MCDesktop.cfg MCDesktop
    tlapm DesktopProofs.tla

## 1. Inventory

Everything runs in one thread, the Wayland event loop: a handler runs to its end before
the next one starts. Only the PulseAudio monitor has a thread of its own. Child processes
are forked and forgotten. The difficulty is therefore in the *order of handlers*: clients,
panels, the locker, the user and hardware come in any order, and each handler relies on
what the earlier ones left in about twenty fields of `server` and of each `view`.

| Component | Source | State | Operations | Correct when |
|---|---|---|---|---|
| windows, workspaces, focus | `view.cc`, `view.h`, `server.h` | `views` (MRU list), `current_workspace`, `max_visible_workspace`, the seat's focus, per view: mapped, minimized, pinned, urgent, activated, workspace | map, unmap, destroy, focus, minimize, focus_next, workspace_switch, move_to_workspace, activation and foreign-toplevel requests | the list holds the mapped windows once; what is shown is what belongs on the screen; the keyboard goes to a usable window and to nobody else |
| Alt+Tab overlay | `switcher.cc` | snapshot of views, `selected_` | cycle, commit on release, cancel, removal of a view | the snapshot never names a window that is gone, the highlight stays in range |
| session lock | `lock.cc` | `locked`, `cur_lock`, its surfaces, the "locker crashed" message | new lock, new surface, surface destroyed, unlock, crash, ensure_focus | nothing but the locker has the keyboard until an unlock |
| layer surfaces | `layer.cc` | `focused_layer`, stacking | map, unmap, destroy, keyboard interactivity | the keyboard comes back when a launcher closes |
| input | `input.cc` | grab mode, grabbed view, hover, constraints | keys and binds, buttons, motion, drag, snap, switch binds | a drag survives its window, geometry is restored as saved |
| idle inhibitors | `input.cc`, `view.cc` | the inhibitors' surfaces, the manual toggle, what the notifier was told | new, destroyed, toggle, and every change of what is shown | what the notifier was told follows the windows on the screen |
| decorations | `deco.cc` | per view: mode, what is painted, hover, last click | focus, commit, title, fullscreen, clicks | what is drawn agrees with the focus; no pointer outlives its window |
| taskbar | `taskbar.cc` | slots, button geometry, applets | refresh, click, hover | shows what is there, every workspace in use has a button |
| outputs | `output.cc` | outputs, layout, one taskbar each | hot-plug, configuration, power | taskbars where the configuration puts them |
| volume monitor, on-screen display | `volume.cc`, `osd.cc` | two atomics, an eventfd, the sink's name | PulseAudio callbacks, on_wake | no wake-up lost, the level shown is the level set |
| system tray | `tray.cc`, `taskbar.cc` | items, menu, the cells drawn on each bar | D-Bus signals and asynchronous replies | late replies are harmless; a click on a cell meets the item drawn in it |
| configuration | `config.cc` | settings, commands that ran | load, reload, run_execs | commands run once |
| tablets | `tablet.cc` | tools, pads | forwards events | (a tip is a click) |
| start-up, themes, painting, helpers | `main.cc`, `theme.cc`, `paint.cc`, `listener.cc`, `wlr.h` | none that matters later | | |
| converters and packaging | `tools/`, build files | none | | |

How they interact: `input.cc` dispatches binds and clicks to `view`, `switcher`, `taskbar`
and `tray`; `view` calls back into the switcher (`view_removed`, `cancel`), the taskbars
(`refresh_taskbars`) and the idle inhibitors; `lock` and `layer` hand the keyboard back with
`view::focus`, `view::clear_focus` or the seat. There is no message between components, only calls
and the shared `server`. The exceptions are asynchronous: PulseAudio (thread and eventfd),
D-Bus replies, timers, and clients.

Hard behaviours: a lock that arrives between the press and the release of Alt+Tab; windows
and panels that act while the session is locked; a locker that crashes; a keyboard that is
unplugged while the password is typed; the overlay's raw pointers; visibility, activation and button
count as cached functions of other fields; two threads around two atomics. `PROJECT.json`
lists each one at its line, with the properties that guard it, or why none does.

## 2. Modules

    Windows   Switcher          the data and operations of view.cc and switcher.cc
      |  \     /
      |  Desktop  ---implements--->  SeatPolicy
      |     |
      |  MCDesktop
      |
      +--- Decorations --- MCDecorations     the focus of Windows, and what deco.cc paints
      +--- Idle --- MCIdle                   the visibility of Windows, and the idle notifier

    Grab --- MCGrab       geometry, moves and resizes
    Volume --- MCVolume   the PulseAudio thread and the event loop
    Tray --- MCTray       tray.cc, the session bus and the tray cells of the bars
    Taskbar               the operations of taskbar.cc on one bar
      |
    Outputs --- MCOutputs output.cc, reload and exec of config.cc

    Lists                 std::erase_if and its like, used by Switcher, Tray and Taskbar

    WindowsProofs    the functions of view.cc one by one, for the three modules below
    DesktopProofs    Switcher, Desktop and its refinement
    DecorationsProofs IdleProofs GrabProofs
    ListsProofs      the lemmas on Lists and on least elements, for the modules below
    TrayProofs
    TaskbarProofs    Outputs and Volume: what the taskbars show

**Windows** has the part of `server` and of each `view` that focus and visibility depend on,
as one record, and each function of `view.cc` and `layer.cc` as an operator from the record
to the record: `Focus` is `view::focus` with its early returns, `FocusNext`,
`WorkspaceSwitch`, `MoveToWorkspace`, `HandleMap`, `HandleUnmap`, `HandleDestroy`, and so on.
Composition of calls is composition of operators, so a handler that calls five functions is
one expression and one step. `views` is a sequence, most recent first, as the `wl_list`.

**Lists** has what is left of a list when some places are kept (`Kept`) or an element is erased (`Without`). They are
not recursive: the n-th of the places that are kept is the one with n of them up to it.

**Switcher** has the overlay as a record (open, snapshot, highlight) and `Cycle`,
`ViewRemoved`, `Highlighted`, `Closed`. The snapshot is `Kept` of the list of windows.

**Desktop** composes them: variables `srv` (the record of Windows), `sw` (the overlay),
`cur_lock`, `lock_surfaces`, `broken_msg`, `layers`; one action for each handler of a client, a panel, the
user, a layer surface, the locker or a device. The lock's handlers are here because they touch all the
others. The actions of wlroots that the program depends on are external and marked so in
the map: `KeyboardGone`, `SurfaceGone` (the seat forgets a keyboard or surface that is destroyed).

**SeatPolicy** is what a session lock promises and nothing else: whether the session is
secured, whether a locker lives, and which kind of surface has the keyboard. While secured,
only the locker or nobody has it; the session is secured by a lock, is released only while a
locker lives, and nobody has the keyboard once it died. `Desktop` implements it (`SeatSpec`), by a refinement
mapping that classifies the focused surface.

**Volume** has the monitor: the daemon with its two FIFO directions (external), the pulse
thread with one action for each callback, split where another thread can see the difference
(`volume_.exchange`, `muted_.exchange`, the write of the eventfd), and the event loop with one
action for each load of an atomic while it draws.

**Grab** has the geometry of the windows and the pointer that drags them: one record per
view (its stage from creation to destruction, the two requests that `initial_configure`
reads later, maximized, fullscreen, the snap edge, the geometry and the one saved), and
`server::grab_mode`, `grabbed_view`, `grab_restore_pending` and the remembered title-bar
click. `ApplyState`, `SnapTo`, `Unsnap`, `UnmaximizeToCursor`, `SaveGeometry` and
`RestoreGeometry` are the functions of `view.cc`, as operators on the record; one action
for each request of a client or panel, each key or button, the motion, the release and the lock.
It shares no state with Desktop but the lock and the life of a view, so it is checked by itself.

**Taskbar** has one taskbar as a record (its buttons, the row of slots, the cached icons of the
pins, whether it has a width) and `Layout`, `ViewAdded`, `ViewRemoved`, `UpdateGeometry` as
operators on it; `Slots` is what `layout()` makes of the buttons, the pins and the workspaces.

**Outputs** composes the taskbars with the outputs: `outputs` (newest first, as the `wl_list`),
`scene` (those with a `scene_output`), `bars` and `bar` (the taskbars), `desk` (the windows, the
current workspace and the configuration, as `layout()` reads them) and `execs` (the commands that
ran). Its actions are `on_new`, `on_destroy`, `on_output_mgr_apply`, the reload, the poll of the
indicators, and the handlers of windows as far as a bar sees them. `EnsureTaskbars` is
`ensure_taskbars` after the loop of its caller; its deletions of bars that are not needed follow from
`bars'`, and a bar that is created gets a button for each window in the list.
It has the windows in a form of its own, without focus, since its questions are about the bars.

**Decorations** has what is painted of each window: `DecoCreate`, `DecoUpdate`, `DecoSetFocus`,
`DecoSetVisible`, `ApplyPendingDeco`, `ApplyState` are the functions of `deco.cc` and `view.cc` on a record (the
stage of the window from creation to destruction, its mode, a request that waits, fullscreen, whether
its nodes are enabled, how title bar and borders were painted last, whether the client owes
a commit), over the focus of Windows: `Step` runs an operator of Windows and paints what `view::focus` paints on the
way. `hovered` is `hovered_deco_view`.

**Idle** has the inhibitors, the toggle and `inhibited`, what `wlr_idle_notifier_v1_set_inhibited` was told last,
over the visibility of Windows: `ShownAnew` are handlers that reach `update_visibility`,
`ShownAsBefore` those that do not. `Counts` is `idle_inhibitor::visible`.

**Tray** has the applications and the bus (external: announce, change an icon, answer, exit), the queues between each
application and the host, `items_`, the open menu, and the cells of each bar. Messages of one sender keep
their order, those of two do not. A handler takes the oldest message of some application; the
proxies' pending calls go with the item (`HandleGone`). A call to a slow application may run out of time (`TimeOut`): its answer is
dropped, and a pixmap that could not be had is followed by the name of the icon; `lost` records that this happened to the application's
present life. Addresses of items are values that are used again,
since the cells are keyed by them. An item that leaves and an equal one that
comes may have one address, one generation, and different icons.

### Abstractions

- Outputs: modes, scales, positions and power are left out; the backend accepts what the configuration asks for,
  so a lit output has an area in the layout. A client's output configuration that leaves an output out has the
  effect of one that names its present state, so every subset of the outputs stands for both. The order of the window list, which a new bar
  follows, is any order. A pin's icon is its PNG path or its app's icon; a command is a value.
  Sizes, titles, hover and applets of the bar are left out, and a click says which slot it hits.
- Grab: a position or a size is one of a few tokens, or the name of what the window fills
  (work area, output, snap zone), so it is known where a geometry came from and not
  how many pixels it has; the arithmetic of resizing, of the cascade and of zones is
  a choice among the tokens. The client commits the size it was asked for at a later step, as the
  protocol allows. Focus, visibility, stacking and the snap indicator are left out, so
  any mapped window may be the one a key or a click is for.

- Decorations: which of three buttons, sizes, colours and texts are left out; of the lock only
  its effect on the focus is kept; a key, a panel and the overlay are one action that focuses.
- Idle: layer surfaces stand for every surface that is not a window.
- Tray: labels, positions, the drawing of menus and the menu's entries are left out; the menu layout is
  fetched with calls that wait for the application, one step, and a layout that is refused, late or empty changes nothing. Which
  applications are slow is a constant, `Slow`; time itself is left out, so a call may run out of time whenever it is not answered. Images are values; a picture that
  cannot be decoded is none. `MaxQueue` bounds announcements, `MaxChanges` changes of an icon.
- A window is its root `wl_surface`; titles, app ids and geometry are left out. A lock
  surface is one value; which of several is the first in the list is a choice.
- Popups' keyboard grabs are not modelled. Serial checks of activation tokens are
  reduced to "a valid token needs a focused surface".
- A client may unmap without being destroyed, and is unmapped before it is destroyed, as
  wlroots guarantees; `unlock_and_destroy` destroys the lock surfaces and then the lock.
- Key presses are reduced to the actions they dispatch. `MayDispatch` is the test of the
  lock in `handle_key`; binds of lid and tablet-mode switches are dispatched without that test
  in `input.cc`, and are modelled so (`SwitchBinds`).
- Volume: an output with a positive size is under the cursor, so the applet and the display are drawn; the
  end of the connection is left out; averages stay below ten times the norm, where the
  32-bit product cannot wrap.

## 3. Runs

| Run | Instance | What it shows |
|---|---|---|
| `desktop` | 2 windows, 3 workspaces, 1 layer surface, 1 lock surface | all safety and action properties of focus, list, visibility and lock, and the refinement of SeatPolicy |
| `windows` | 3 windows, 2 workspaces, window and user actions | the overlay's snapshot, highlight and the focused window against everything other windows do |
| `lock` | 1 window, 2 lock surfaces, keyboards that come and go, switch binds | typing brings the keyboard back to the locker, whatever took it away |
| `volume` | 2 sinks, 2 levels, 2 changes | no lost wake-up; the true volume is shown in the end |
| `grab` | 1 window, 2 points, 1 floating size, 2 snap edges | a drag is on a live window; what a window returns to is what it had |
| `two_activated` | as `desktop` with 2 workspaces | a disagreement, section 4 |
| `decorations` | 2 windows, 2 workspaces | the title bar of the focused window is painted as focused, its borders follow |
| `hover_gone` | as `decorations`, without fairness, 1 window | a disagreement, section 4 |
| `idle` | 2 windows, 1 other surface, 2 workspaces | what blocks idle is on the screen, and what comes on the screen blocks |
| `tray` | 2 applications with an item each, one slow, 2 addresses, 1 bar, 1 change of an icon | cells, menu and icons against late replies, calls that run out of time and items that vanish |
| `outputs` | 2 outputs, 2 windows, 2 apps, 2 workspaces, 3 configurations | taskbars are where they belong, with the right buttons and slots; commands run once while the table has room |
| `pin_icons` | as `outputs` with 1 output and 2 configurations with one pin each | a disagreement, section 4 |

What the properties say:

- `LockedFocus`: in a locked session the keyboard has a live lock surface or nobody.
- `LockBookkeeping`: a living locker has the session locked; the crash message is up exactly while
  nobody can unlock.
- `LockStopsSwitcher`: the overlay is never open in a locked session.
- `SeatSpec`: every step is a step the lock's promise allows.
- `LockFocusRestored` (liveness): with a keyboard and a lock surface, typing gives the
  lock surface the keyboard.
- `FocusedUsable`: the focused window is mapped, in the list, activated, not urgent, not minimized.
- `FocusHandedOver`: when a window goes with the keyboard, an eligible one receives it.
- `BackgroundKeepsFocus`: what happens to another window does not move the focus.
- `ForeignFocusByPanelOnly`: only a panel's restore focuses a window that is not shown.
- `ListExact`: the list has each mapped window once.
- `ShownBelongs`, `WorkspaceReachable`: shown windows belong on the screen; each workspace in use has a button.
- `LayerFocusTracked`: the layer surface with the keyboard is the one `focused_layer` names.
- `SwitcherLive`, `HighlightKept`: the snapshot names live windows of the current workspace, and the removal of
  another window leaves the highlight on the same window.
- `GrabLive`: the motion handler never moves a window that is gone, and the remembered click is on a window that has been
  configured, whatever unmaps, dies or locks during the drag.
- `SnapExclusive`: a snapped window is neither maximized nor fullscreen, so a drag restores it through
  `snap_to` alone.
- `GeometryReturns`: after any order of maximize, snap, fullscreen and drag, a window has a floating
  position to return to, and a floating window is never left at the origin of a zone.
- `SavedKept`: going from one special state to another does not overwrite the saved geometry.
- `BarsPlaced`: taskbars are on lit outputs only, on all of them or on one, as configured.
- `BarKept`, `BarReturns`: whatever is plugged, disabled or configured, one of the outputs that keep their
  place in the layout keeps its taskbar; a new configuration leaves one somewhere if any output is lit. (After the output with the only bar
  is unplugged there is none until then, `output.cc:76`.)
- `ButtonsExact`: each bar has one button for each open window, a hot-plugged bar too.
- `SlotsExact`: the row that clicks are answered from names only open windows and configured pins, and
  each window of the current workspace once.
- `SlotsCatchUp` (liveness): the row comes to agree with the app ids, which change without a redraw.
- `ExecsOnce`: a command on the list of those that ran was started once, and no other is started twice before the session
  started more commands than the list holds. Beyond that the program does start commands again, section 4.
- `FocusDrawn`: the title bar of the window with the keyboard is painted as focused (`TitleDrawn`): commits, requests, reloads and
  focus changes agree, whichever paints last. Its borders, which a focus change does not paint, have a configure under way as
  long as they show and are out of date (`BordersAsked`), although a commit of a fullscreen window answers one without painting any.
- `BordersCatchUp` (liveness): the borders follow with the client's next commit.
- `InhibitFollowsScreen`: after each step, what the notifier was told rests on a window that belongs on the screen, on another
  surface or the toggle; and a step that changes what is shown counts every inhibitor shown now,
  but for windows pinned on another workspace.
- `CellsMatch`: the cells of each bar show the items there are, in their order, with the icons they have.
- `MenuLive`: the open menu is that of a listed item, never of one that left.
- `ItemsExact`: no item is listed twice; when nothing of an application is under way, exactly what it announced is listed.
- `IconCurrent`: when nothing is under way and no call ran out of time, the host has the icon that the application has now.
- `StaleOnlyIfWoken`, `ShownCatchesUp`: section 1's promise of the volume monitor.

### Bounds

Three workspaces in `desktop`: `max_visible_workspace` starts at 1, so a move beyond the last
button needs a third one. Two windows suffice for what relates the window that leaves to
the one that receives the keyboard; three are needed where a snapshot has a middle (`windows`).
Two lock surfaces are needed for the keyboard to go from one that dies to another. No counter is capped in
Desktop: its state is finite. In Volume `MaxChanges` bounds what users do at the daemon, and
with it every queue: two changes are one that crosses the reply to the other. Grab has one window: the pointer holds one, the others change on their own, and the
states of one alone are 190 thousand; two points tell a drag from a return, two edges tell one
snap from another. GrabProofs covers any number of each. In `outputs` two outputs are the one that loses its bar and the one that gets or keeps it; two
windows of two apps, with two pins of one app, are a pin that finds nothing and a window that no pin takes. The three configurations have none, one
and two pins, one bar or one each, an output that is disabled, and two
commands for a table of one (`MaxExecs = 1`): whichever runs first, the other does not fit. In `decorations` one window takes the keyboard and one
loses it. In `idle` one window leaves and one receives the keyboard. In
`tray` two applications are one whose item vanishes and one whose item moves into its cell, at an address that
is free again. An icon that changes once has a reply, of a pixmap or a name, that comes late; a look that has both tells which one was
taken. `MaxQueue = 2` lets an application that exited announce itself while the news of its exit is still under way, or announce an item
twice. Windows of Desktop and Idle and addresses of Tray are symmetric; the
properties of those runs are safety properties, for which symmetry is sound, and no run with a liveness property
uses it.

### Fairness

- Desktop has none but in `lock`: `WF(KeyWhileLocked)`, the user keeps typing. `handle_key`
  calls `ensure_focus` for each key in a locked session, so a press is all it takes.
- Volume: the daemon answers and the pulse thread runs (`WF`), the loop finishes a draw (`WF`), and each
  round of the loop polls every descriptor, so other refreshes cannot starve the eventfd (`SF(OnWake)`).
  Nobody has to change a volume.
- Decorations: `WF(Answer)`, a client that was sent a configure while it is shown answers it with a
  commit, as xdg-shell asks of it. The user may do nothing.
- Outputs: `WF(Poll)`, the indicator timer sets itself again each time it fires (`taskbar.cc:1857`).

### Assumptions of single runs

`HotPlug = FALSE` in all runs but `lock`: without a keyboard `view::focus` activates a window that
the seat does not enter, and `FocusedUsable` and `FocusHandedOver` would speak of nothing.
`SwitchBinds = FALSE` where `LockStopsSwitcher` is checked: a switch bind to the overlay opens it in a locked
session. That is harmless to `LockedFocus`, which is proved for both values.

## 4. Disagreements found while modelling

- `two_activated`: `view::focus` deactivates the surface that has the keyboard now
  (`view.cc:1117`); a window that lost it through `clear_focus` keeps its focused border and its active
  handle beside the next one.
- `pin_icons`: `layout()` loads the icons of the pins when their number changes (`taskbar.cc:1317`), so a reload that
  replaces one pin by another keeps the old icon.
- `hover_gone`: `handle_destroy` forgets a window everywhere but in `hovered_deco_view`, which only `handle_unmap`
  clears (`view.cc:479`). A window that was configured and never mapped has an enabled decoration, can be hovered and is
  destroyed without an unmap; the next motion repaints its button.

Met on the way, too small for a run of their own or said nowhere to be otherwise, and modelled as the code has them:

- Moving a pinned window to the current workspace unpins it and calls `focus_next` as if it had left the
  screen (`view.cc:143`); `BackgroundKeepsFocus` leaves this step out, since nothing is hidden by it.
- A press and a release on a maximized title bar that touches the top edge restores the window, since the release looks
  at where the cursor is and not at `grab_restore_pending` (`input.cc:973`).
- `save_geometry` reads the size the client last committed (`view.cc:632`): a window that is restored
  and maximized again before it commits saves the maximized size.
- A command that finds the list of commands full is started and not remembered, and started again by every later reload
  (`config.cc:711`), though `doc/steppewm.md:52` says of commands "These are tracked and not re-run on config reload. Up to 64
  commands." One configuration always fits the list; several in one session may not. `ExecsOnce` says what
  does hold.
- Decorations: a commit repaints a hovered button as not hovered; the mode stays `SERVER` after the client
  destroyed its decoration object; a button that was lit on a window that neither
  gets nor loses the keyboard stays lit when a key moves the focus, which forgets the hover.
- Idle: a window pinned on another workspace is shown and never inhibits; one that was hidden, pinned and unpinned on the
  current workspace inhibits and is not shown; a layer surface that is unmapped goes on
  inhibiting until something else asks again.
- Tray: an application that does not answer in time is asked for the name of its icon (`tray.cc:520`). If a signal made the host ask for the
  pixmap in between, both calls are under way, and the name, which comes last, stays. `context_menu` waits for a menu, so
  another application's slowness can be the reason.
- Outputs: `dpms_off` is cleared by power requests alone (`output.cc:347`), so an output that was switched off and is lit by a
  reload is not painted.

## 5. Proofs

Each is for any finite or infinite sets of windows, points, sizes, snap edges, layer surfaces, lock surfaces, sinks, outputs, apps,
configurations, applications of the tray, icons and addresses and any number of workspaces, from the named assumptions on the constants alone (distinct sets of surfaces, at least
one workspace; for Volume, levels in `0 .. MaxLevel`; for Outputs, configurations whose commands each fit the table). `SwitchBinds` and `HotPlug` have both values,
except where a theorem says otherwise in its `ASSUME`.

- `TypeCorrect`: `Spec => []TypeOK`. `TypeOK` is not inductive: the release of Alt looks up
  the highlight in the snapshot, so `TypeInv` adds `HighlightInRange`. One lemma for each operator of
  Windows and Switcher says that it keeps the types; `RemoveFirst` needs that a set of places has a least one, and the
  snapshot the lemmas on `Kept`.
- `LockedFocusHolds`, `LockBookkeepingHolds`: from `LockInv == TypeInv /\ LockBookkeeping /\
  LockedFocus`. Every operator that touches the seat has a lemma (`...Seat` in WindowsProofs): in a
  locked session it either leaves the focus alone or clears it; only `Focus` sets it, behind the test of the lock.
  The steps of the locker are treated one by one.
- `SeatRefined`: `Spec => SeatSpec`, each step of Desktop maps to a step of SeatPolicy or a stutter, from the
  same lemmas.
- `NoWakeUpLost`: `Spec => []StaleOnlyIfWoken` in Volume. The inductive form `Fresh` speaks of
  the middle of a draw too: a draw that loaded a mute flag which is no longer true has a wake-up to come. It
  needs that the pulse thread never takes the volume away (`DrawsVolume`), hence that a percentage is never
  negative, hence the types of what the connection carries. `VolumeTypeCorrect` rests on the same types, and on the flag that
  a callback holds between its two exchanges (`ThreadsType`).
- `QuietShowsTruth`: when nothing travels, nothing is being published or drawn and no wake-up is pending, the applet and the
  last text of the display show the default sink as it is. This is the safety half of `ShownCatchesUp`: the liveness that TLC
  checks is then only that the queues run dry. Three invariants meet in it. `TruthInv` follows the truth from the daemon to
  the atomics: the last answer about a sink that is under way is true, or an event or a query is behind it that will bring
  a newer one (`SinksFollowed`, `ServerFollowed`; `Ends` says it of a queue), and with no answer to come the atomics hold it
  (`MonitorKnows`). Nothing is missed before the subscription, since it is the first query (`Subscribes`). `WakeInv` goes on
  to the applet, `OsdInv` to the display. The latter needs that nobody is woken before there is a volume (`Heard`), or the loop could
  draw a level of -1.

- `GrabStaysLive`, `SnapStaysExclusive`, `GeometryComesBack`: `Spec => []GrabLive`, `[]SnapExclusive`,
  `[]GeometryReturns` in Grab. `GrabInv` is TypeOK, GrabLive and `Sound` of each view. `Sound` joins what the three
  need of one another: whichever state a window leaves, it restores through `saved_geo`, so a special view must
  have a floating position there, and a floating one must be at one for the next save to read. One lemma for each operator
  says that it keeps `Sound`, one for each group of actions that it keeps GrabInv. `GrabTypeCorrect` is a part of it.
- `SavedStaysKept`: `Spec => SavedKept`, an action property. `Remembers(w, x)` says that a function that finds a window in a special
  state leaves what it saved alone; every function does, and a window that starts anew is not special.

- `ListExactHolds`, `ShownBelongsHolds`, `WorkspaceReachableHolds`: from `ListInv == TypeInv /\ Consistent(srv)`. A handler calls up to
  five functions of `view.cc`, so the argument goes by function: each operator of Windows keeps `Consistent`,
  and those that are called between two others are proved from what holds there. `ShownExcept(s, some)` is that
  middle: a window that was minimized or sent away may be shown until its visibility is refreshed, and no
  other may. `LinkedOnce` says that a list holds each member of a set once; unlinking and relinking at the head keep it by the lemmas on `RemoveFirst`.
- `FocusedUsableHolds`, for `HotPlug = FALSE`: from `ListInv` and `FocusSound`, which adds that the focused window is the first of the
  list, that the seat has a keyboard, and that no window has it in a locked session. The first is needed:
  `focus_next` looks for the next window behind the one that goes. Without a keyboard `view::focus` moves another window to
  the head and leaves the old focus in the seat, hence the premise.
- `SwitcherStaysLive`: from `ListInv` and `OverlayLive`. `Shifts(s, t, some)` says that of the windows on the current workspace only
  those of `some` may be gone after a function; a handler for which `some` is not empty has to tell the overlay
  of them (`ViewRemoved`), or close it.
- `LockStopsSwitcherHolds`, for `SwitchBinds = FALSE`, and `LayerFocusStaysTracked`, for `HotPlug = FALSE`: the latter needs `LockInv`
  and `ListInv` with it, because an unlock and a crash hand the keyboard on too.
- `FocusIsHandedOver`, `BackgroundNeverTakesFocus` and `ForeignFocusNeedsPanel`, action properties, for `HotPlug = FALSE`: each is shown by
  function, then by handler. Without a keyboard the first fails: an unmap clears the focus and `view::focus` cannot give it to the next window.
  The first needs `OwnerLives` as well: a surface that dies with the keyboard has lost it before. The second rests on
  the order of the list: the focused window is the first, or the second once the window of the minimize button was focused, so
  `focus_next` comes back to it (`InFront`). The third needs `OverlayLive`, since a commit focuses what the overlay names.
- `HighlightStaysOnWindow`: `Spec => HighlightKept`, by the arithmetic of `view_removed` on a list without duplicates (`IndexFollows`).
- `FocusStaysDrawn`: `Spec => []FocusDrawn`, from `BordersInv`. `TitleDrawn` is not inductive: a window whose client draws it must
  have no title bar, or `deco_set_focus`, which returns early for it, would miss one (`DrawnInv`). What `view::focus` paints on the
  way of a handler is told from the focus before and after; `SeatStep` bounds what may lie between. `BordersAsked` needs that the
  window with the keyboard is mapped (`FocusSound`, from Windows) and that the server and the stages of the windows agree on
  which are (`StagesFit`): the end of fullscreen asks a mapped client only.
- `InhibitorsFollowTheScreen`: `Spec => InhibitFollowsScreen`, an action property, from `IdleInv`: `Consistent` again, since
  `visible` looks at workspaces and the property at what is shown. A handler that asks every inhibitor anew is right
  whatever held before; one that does not must neither take a window off the screen nor show one.

The row of a taskbar and the tables of Outputs, from `OutputsInv == TypeInv /\ Placed /\ BarsGood`:

- `OutputsTypeCorrect`, `BarsPlacedHolds`, `ButtonsExactHolds`, `SlotsExactHolds`. None is inductive alone. Where bars may be
  depends on the layout and the configuration, which `Placed` relates to them; a row is right because the buttons are
  (`Enumerates`: each open window once) and because a refresh reaches every bar that has a width (`Good`). `SlotsExactly` is the core: the pins
  of one app take its windows in turn. The i-th pin of an app takes the window of that rank, ranks of pins are distinct, and so
  no window is shown twice (`ClaimedProperties`); the rest of the row is `Kept` of the buttons. The mapped windows must be
  finite, which `TypeInv` adds, for the number of buttons to mean anything.
- `BarKeptHolds`, `BarReturnsHolds`, action properties, from the same lemma about `EnsureTaskbars`.
- `RowsStaleByAppId`, an action property: a row that is what `layout()` would draw now stays so in every step but `SetAppId`. A
  step either draws every bar or changes nothing a row depends on. It says that the poll, which `SlotsCatchUp` needs, is
  needed for app ids alone.
- `ExecsRunOnce`: `Spec => []ExecsOnce`, for any table and any configurations that each fit it. The limit in `ExecsOnce` is the program's own: past
  `CFG_MAX_EXECS` commands it forgets (section 4). `Remembered` is inductive for one command; a whole list
  of commands is a recursive function, and the proof takes the first command that would break it.

The tray:

- `TrayTypeCorrect`, with `Owned` (a queue speaks only of its application's items): the handlers take the item a message names.
- `CellsMatchHolds`, from `CellsInv`: the keys of the cells agree with the items too (`CellsExact`). A cell is redrawn when address or generation
  differ, so equal keys must mean equal pictures (`KeysTell`). They do since each new icon
  counts the generation up and an item is blank exactly while it is 0: an address that is used again starts with the
  blank picture its cell, if it has generation 0 too, already shows.
- `MenuStaysLive`: the menu is closed by the handler that erases its item.
- `ItemsExactHolds`, from `LedgerInv`: an application has announced an item exactly if the item is listed and no news of an exit is under way,
  or its announcement is under way with no such news behind it (`Ledger`). Restarts put both into one queue.
- `IconCurrentHolds`, from `IconInv`. For a listed item: an answer that is no longer true has a signal behind it
  (`StaleFollowed`); a name that would be loaded over a pixmap has a pixmap behind it (`NamesFollowed`); an icon that is not the present one is
  being fetched (`Renewed`). For an item that is not listed no answer is under way (`NoStray`), or the next item of that name would get it.
  Without the second an old application icon could win over a new image for good. A call that runs out of time breaks the order these rest on
  (section 4), so each is said of applications that lost none; the other four theorems of the tray hold across time-outs.

The lemmas of Lists come from `Rank`: places that are kept are in one-to-one correspondence with `1 .. n`, which holds because
a smallest exception to it would be none.

Every safety and action property of every passing run is stated by a theorem, some for a seat that keeps its keyboard. Only model-checked are `LockFocusRestored`, `ShownCatchesUp`, `SlotsCatchUp` and
`BordersCatchUp`: liveness under fairness is beyond the prover. The modules of proofs use no recursive operator, as none of
the provers has induction over data. The safety half of three of them is proved: `FocusStaysDrawn` for `BordersCatchUp`,
`QuietShowsTruth` for `ShownCatchesUp` and `RowsStaleByAppId` for `SlotsCatchUp`.

## 6. Not modelled

Themes, painting, process start, XDG plumbing, tablets, converters and packaging have no state whose
order of changes matters: each call reads its arguments, draws or forks, and leaves nothing for a later handler.

- Stacking. A window that gets the focus is raised (`view.cc:1132`), as it comes
  first in the list, which is modelled. That pinned windows, bars and the upper layers are then raised over it again
  (`raise_overlays`, `view.cc:1069`), and a fullscreen window over those (`view.cc:689`), is not.
- The arithmetic of zones, resizes and of the cascade, and the anchors of layer surfaces: pixels, of one handler each.
- Pointer constraints, gestures, tearing hints, drag icons and shortcut inhibitors hand a client's request to wlroots; the
  active constraint is computed anew from the focus, and its destruction clears it (`input.cc:538`).
- Power of outputs and gamma: one flag, which a frame handler reads; section 4 names the one way it goes wrong.
  The loss of PulseAudio (`volume.cc:128`) has no handler to model. The snap indicator (`view.cc:471`) is
  hidden by the release that ends each press.
- Parsing of the configuration is Lua's. Brightness, battery and network indicators and the display's timer read a file or a
  clock and draw.

## 7. Plan, and what is left of it

Done: every component of section 2 with its runs, and the proofs of section 5. In the order of worth, left are:

1. Power of outputs in Outputs, with the frame handler as the reader of `dpms_off`.
2. Pointer constraints against the focus, and zones and cascade as a pure algorithm against a reference definition.
