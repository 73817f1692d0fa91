-------------------------------- MODULE Grab --------------------------------
(***************************************************************************)
(* Interactive moves and resizes of steppewm (src/src/input.cc and         *)
(* view.cc): the grab the pointer holds, and what maximizing, fullscreen,  *)
(* snapping and dragging do to the geometry of a window and to the one     *)
(* saved for its return.                                                   *)
(*                                                                         *)
(* A position or a size is either one a floating window may have or the    *)
(* name of what it fills.  The client commits the size it was asked for    *)
(* later, when it likes.  Focus, visibility and stacking are left out: any *)
(* mapped window may be the one that a key or a click is for.              *)
(***************************************************************************)
EXTENDS Naturals

CONSTANTS
  Views,
  NoView,        \* the null view
  Points,        \* where a floating window may be
  Sizes,         \* what a floating window may measure
  SnapEdges      \* snap_edge without NONE

Zones == {"work area", "output"} \cup SnapEdges

ASSUME GrabAssumption ==
  /\ NoView \notin Views
  /\ Points \cap Zones = {} /\ Points # {}
  /\ Sizes \cap Zones = {}
  /\ {"own", "none"} \cap (Sizes \cup Zones) = {}
  /\ SnapEdges \cap {"inside", "top", "off"} = {}

VARIABLES
  win,           \* the views, as records
  mode,          \* server::grab_mode
  grabbed,       \* server::grabbed_view
  pending,       \* server::grab_restore_pending
  last_click,    \* server::titlebar_last_click_view
  spot,          \* where the cursor is on its output, or "off" all outputs
  locked

grabVars == <<mode, grabbed, pending>>
vars == <<win, grabVars, last_click, spot, locked>>

Stages == {"gone", "new", "committed", "configured", "mapped"}
Spots  == {"inside", "top", "off"} \cup SnapEdges
Extents == Sizes \cup Zones \cup {"own"}   \* "own": 0 x 0, the client's choice

Window ==
  [stage: Stages,
   fresh: BOOLEAN,                   \* not mapped yet
   wants_max: BOOLEAN, wants_full: BOOLEAN,
   maximized: BOOLEAN, fullscreen: BOOLEAN, snapped: SnapEdges \cup {"none"},
   pos: Points \cup Zones,
   size: Extents,                    \* the geometry the client committed
   asked: Extents \cup {"none"},     \* the size configured since then
   saved_pos: Points \cup Zones, saved_size: Extents]

(* A view not created yet; a new scene node is at 0, 0, a point too.       *)
Blank(p) ==
  [stage |-> "gone", fresh |-> TRUE, wants_max |-> FALSE, wants_full |-> FALSE,
   maximized |-> FALSE, fullscreen |-> FALSE, snapped |-> "none",
   pos |-> p, asked |-> "none", size |-> "own",
   saved_pos |-> p, saved_size |-> "own"]

Initialized(w) == w.stage \in {"committed", "configured", "mapped"}
Special(w) == w.maximized \/ w.fullscreen \/ w.snapped # "none"

-----------------------------------------------------------------------------
(* view.cc, as operators on a view *)

(* Fault: a snapped window does not count as special. *)
SaveUnlessFilling(w) ==
  IF w.maximized \/ w.fullscreen THEN w
  ELSE [w EXCEPT !.saved_pos = w.pos, !.saved_size = w.size]

SaveGeometry(w) ==
  IF Special(w) THEN w
  ELSE [w EXCEPT !.saved_pos = w.pos, !.saved_size = w.size]

Fill(w, zone) == [w EXCEPT !.pos = zone, !.asked = zone]

(* Fault: a snapped window is left in its zone. *)
RestoreUnlessSnapped(w) ==
  IF w.maximized \/ w.fullscreen
    THEN [w EXCEPT !.pos = w.saved_pos, !.asked = w.saved_size]
    ELSE w

RestoreGeometry(w) ==
  IF Special(w) THEN [w EXCEPT !.pos = w.saved_pos, !.asked = w.saved_size]
                ELSE w

(* Fault: the snap edge stays. *)
ApplyStateStillSnapped(w, max, full) ==
  IF ~Initialized(w) THEN w
  ELSE LET moved == IF max \/ full
                      THEN Fill(SaveGeometry(w),
                                IF full THEN "output" ELSE "work area")
                      ELSE RestoreGeometry(w)
       IN  [moved EXCEPT !.maximized = max, !.fullscreen = full]

ApplyState(w, max, full) ==
  IF ~Initialized(w) THEN w
  ELSE LET moved == IF max \/ full
                      THEN Fill(SaveGeometry(w),
                                IF full THEN "output" ELSE "work area")
                      ELSE RestoreGeometry(w)
       IN  [moved EXCEPT !.maximized = max, !.fullscreen = full,
                         !.snapped = "none"]

ToggleMaximize(w) == ApplyState(w, ~w.maximized, w.fullscreen)

(* snap_to an edge.  With no output under the cursor or the window it      *)
(* saves the geometry and returns.                                         *)
SnapTo(w, edge, placed) ==
  IF ~Initialized(w) THEN w
  ELSE IF ~placed THEN SaveGeometry(w)
  ELSE [Fill(SaveGeometry(w), edge) EXCEPT
          !.maximized = FALSE, !.fullscreen = FALSE, !.snapped = edge]

(* snap_to NONE *)
Unsnap(w) ==
  IF ~Initialized(w) THEN w
  ELSE [RestoreGeometry(w) EXCEPT
          !.maximized = FALSE, !.fullscreen = FALSE, !.snapped = "none"]

(* The restored window goes under the cursor, wherever that is. *)
UnmaximizeToCursor(w, p) ==
  IF ~Special(w) THEN w
  ELSE [IF w.snapped # "none" THEN Unsnap(w) ELSE ApplyState(w, FALSE, FALSE)
          EXCEPT !.pos = p]

(* The cascade positions windows that do not fill the output. *)
Place(w, p) == IF w.maximized \/ w.fullscreen THEN w ELSE [w EXCEPT !.pos = p]

-----------------------------------------------------------------------------

Init ==
  /\ \E p \in Points : win = [v \in Views |-> Blank(p)]
  /\ mode = "passthrough" /\ grabbed = NoView /\ pending = FALSE
  /\ last_click = NoView
  /\ spot = "inside"
  /\ locked = FALSE

Becomes(v, w) == win' = [win EXCEPT ![v] = w]

At(v, stage) == win[v].stage = stage

(* Fault: a window that goes keeps the pointer's grab. *)
KeepGrab(v) ==
  /\ UNCHANGED grabVars
  /\ last_click' = IF last_click = v THEN NoView ELSE last_click

(* What handle_unmap and handle_destroy forget about the pointer. *)
ForgetPointer(v) ==
  /\ IF grabbed = v
       THEN mode' = "passthrough" /\ grabbed' = NoView /\ pending' = FALSE
       ELSE UNCHANGED grabVars
  /\ last_click' = IF last_click = v THEN NoView ELSE last_click

(* The life of a toplevel.  wlroots makes one that is unmapped start anew; *)
(* its view keeps what it has.                                             *)

NewToplevel(v) ==
  /\ At(v, "gone")
  /\ \E p \in Points : Becomes(v, [Blank(p) EXCEPT !.stage = "new"])
  /\ UNCHANGED <<grabVars, last_click, spot, locked>>

InitialCommit(v) ==
  /\ At(v, "new")
  /\ Becomes(v, [win[v] EXCEPT !.stage = "committed"])
  /\ UNCHANGED <<grabVars, last_click, spot, locked>>

(* The idle callback of handle_commit, the one reader of the requests. *)
InitialConfigure(v) ==
  /\ At(v, "committed")
  /\ LET w == win[v]
     IN  Becomes(v, [IF w.wants_max \/ w.wants_full
                       THEN ApplyState(w, w.wants_max, w.wants_full)
                       ELSE [w EXCEPT !.asked = "own"]
                     EXCEPT !.stage = "configured", !.wants_max = FALSE,
                            !.wants_full = FALSE])
  /\ UNCHANGED <<grabVars, last_click, spot, locked>>

(* The client obeys what it was asked for, or chooses while it floats. *)
Commits(w) ==
  { [w EXCEPT !.size = s, !.asked = "none"] :
      s \in IF w.asked \in Zones THEN {w.asked} ELSE Sizes }

Map(v) ==
  /\ At(v, "configured")
  /\ \E w \in Commits(win[v]), p \in Points :
       Becomes(v, Place([w EXCEPT !.stage = "mapped", !.fresh = FALSE], p))
  /\ UNCHANGED <<grabVars, last_click, spot, locked>>

ClientCommit(v) ==
  /\ At(v, "mapped")
  /\ win[v].asked # "none" \/ ~Special(win[v])
  /\ \E w \in Commits(win[v]) : Becomes(v, w)
  /\ UNCHANGED <<grabVars, last_click, spot, locked>>

Unmap(v) ==
  /\ At(v, "mapped")
  /\ ForgetPointer(v)
  /\ Becomes(v, [win[v] EXCEPT !.stage = "new", !.size = "own", !.asked = "none"])
  /\ UNCHANGED <<spot, locked>>

Destroy(v) ==
  /\ win[v].stage \in {"new", "committed", "configured"}
  /\ ForgetPointer(v)
  /\ \E p \in Points : Becomes(v, Blank(p))
  /\ UNCHANGED <<spot, locked>>

-----------------------------------------------------------------------------
(* Requests for a state, from clients, panels, keys and buttons *)

(* A request outlives its handler until initial_configure reads it. *)
Unconfigured(v) == win[v].stage \in {"new", "committed"}

RequestMaximized(v, max) ==
  /\ ~At(v, "gone")
  /\ LET w == [win[v] EXCEPT !.wants_max = IF Unconfigured(v) THEN max ELSE @]
     IN  Becomes(v, ApplyState(w, max, w.fullscreen))
  /\ UNCHANGED <<grabVars, last_click, spot, locked>>

RequestFullscreen(v, full) ==
  /\ ~At(v, "gone")
  /\ LET w == [win[v] EXCEPT !.wants_full = IF Unconfigured(v) THEN full ELSE @]
     IN  Becomes(v, ApplyState(w, w.maximized, full))
  /\ UNCHANGED <<grabVars, last_click, spot, locked>>

ForeignMaximize(v, max) ==
  /\ At(v, "mapped")
  /\ Becomes(v, ApplyState(win[v], max, win[v].fullscreen))
  /\ UNCHANGED <<grabVars, last_click, spot, locked>>

ForeignFullscreen(v, full) ==
  /\ At(v, "mapped")
  /\ Becomes(v, ApplyState(win[v], win[v].maximized, full))
  /\ UNCHANGED <<grabVars, last_click, spot, locked>>

(* A window with title bar and borders on the screen: until it is unmapped *)
(* the scene node is enabled, before the first map too.                    *)
Decorated(v) == At(v, "mapped") \/ (At(v, "configured") /\ win[v].fresh)

(* The maximize action of a key, or the button of the title bar. *)
UserMaximize(v) ==
  /\ Decorated(v) /\ ~locked
  /\ Becomes(v, ToggleMaximize(win[v]))
  /\ UNCHANGED <<grabVars, last_click, spot, locked>>

ActionFullscreen(v) ==
  /\ At(v, "mapped") /\ ~locked
  /\ Becomes(v, ApplyState(win[v], win[v].maximized, ~win[v].fullscreen))
  /\ UNCHANGED <<grabVars, last_click, spot, locked>>

(* The output under the cursor, or under the window. *)
Snapped(w, edge) ==
  { SnapTo(w, edge, placed) : placed \in IF spot = "off" THEN BOOLEAN ELSE {TRUE} }

ActionSnap(v, edge) ==
  /\ At(v, "mapped") /\ ~locked
  /\ \E w \in Snapped(win[v], edge) : Becomes(v, w)
  /\ UNCHANGED <<grabVars, last_click, spot, locked>>

-----------------------------------------------------------------------------
(* The pointer *)

(* server::cursor_begin_interactive *)
Begin(v, m) ==
  /\ mode' = m /\ grabbed' = v
  /\ pending' = (m = "move" /\ Special(win[v]))

(* A client may ask at any time once it is configured. *)
RequestGrab(v, m) ==
  /\ win[v].stage \in {"configured", "mapped"}
  /\ Begin(v, m)
  /\ UNCHANGED <<win, last_click, spot, locked>>

(* Alt and a button on a window, or a button on one of its borders. *)
PressGrab(v, m) ==
  /\ Decorated(v) /\ ~locked
  /\ Begin(v, m)
  /\ UNCHANGED <<win, last_click, spot, locked>>

(* A button on the title bar: the second left one toggles instead.         *)
PressTitlebar(v) ==
  /\ Decorated(v) /\ ~locked /\ ~win[v].fullscreen
  /\ Begin(v, "move")
  /\ last_click' \in {v, last_click}
  /\ UNCHANGED <<win, spot, locked>>

DoubleClickTitlebar(v) ==
  /\ Decorated(v) /\ ~locked /\ ~win[v].fullscreen
  /\ last_click = v
  /\ Becomes(v, ToggleMaximize(win[v]))
  /\ last_click' = NoView
  /\ UNCHANGED <<grabVars, spot, locked>>

(* process_cursor_move: "far" says that the drag crossed the threshold.    *)
MotionMoves(far) ==
  /\ mode = "move"
  /\ IF pending /\ ~far
       THEN UNCHANGED <<win, pending>>
       ELSE /\ pending' = FALSE
            /\ \E p \in Points :
                 Becomes(grabbed,
                   IF pending THEN UnmaximizeToCursor(win[grabbed], p)
                              ELSE [win[grabbed] EXCEPT !.pos = p])

(* process_cursor_resize *)
MotionResizes ==
  /\ mode = "resize"
  /\ \E p \in Points \cup {win[grabbed].pos}, s \in Sizes :
       Becomes(grabbed, [win[grabbed] EXCEPT !.pos = p, !.asked = s])
  /\ UNCHANGED pending

Motion(where, far) ==
  /\ spot' = where
  /\ \/ MotionMoves(far)
     \/ MotionResizes
     \/ mode = "passthrough" /\ UNCHANGED <<win, pending>>
  /\ UNCHANGED <<mode, grabbed, last_click, locked>>

(* Fault: the top edge snaps like the others. *)
DroppedAtEdge(w) ==
  IF spot \in {"inside", "off"} THEN {w} ELSE Snapped(w, spot)

(* detect_snap, and what the release of a move does there. *)
Dropped(w) ==
  CASE spot = "top"       -> {ToggleMaximize(w)}
    [] spot \in SnapEdges -> Snapped(w, spot)
    [] OTHER              -> {w}

Release ==
  /\ mode' = "passthrough" /\ grabbed' = NoView /\ pending' = FALSE
  /\ IF mode = "move" /\ At(grabbed, "mapped")
       THEN \E w \in Dropped(win[grabbed]) : Becomes(grabbed, w)
       ELSE UNCHANGED win
  /\ UNCHANGED <<last_click, spot, locked>>

(* A lock cancels anything interactive. *)
Lock ==
  /\ ~locked /\ locked' = TRUE
  /\ mode' = "passthrough" /\ grabbed' = NoView /\ pending' = FALSE
  /\ UNCHANGED <<win, last_click, spot>>

Unlock ==
  /\ locked /\ locked' = FALSE
  /\ UNCHANGED <<win, grabVars, last_click, spot>>

-----------------------------------------------------------------------------

LifeNext == \E v \in Views :
  \/ NewToplevel(v) \/ InitialCommit(v) \/ InitialConfigure(v) \/ Map(v)
  \/ ClientCommit(v) \/ Unmap(v) \/ Destroy(v)

StateNext == \E v \in Views :
  \/ \E on \in BOOLEAN :
       \/ RequestMaximized(v, on) \/ RequestFullscreen(v, on)
       \/ ForeignMaximize(v, on) \/ ForeignFullscreen(v, on)
  \/ UserMaximize(v) \/ ActionFullscreen(v)
  \/ \E edge \in SnapEdges : ActionSnap(v, edge)

PointerNext ==
  \/ \E v \in Views :
       \/ \E m \in {"move", "resize"} : RequestGrab(v, m) \/ PressGrab(v, m)
       \/ PressTitlebar(v) \/ DoubleClickTitlebar(v)
  \/ \E where \in Spots, far \in BOOLEAN : Motion(where, far)
  \/ Release

Next == LifeNext \/ StateNext \/ PointerNext \/ Lock \/ Unlock

Spec == Init /\ [][Next]_vars

-----------------------------------------------------------------------------

TypeOK ==
  /\ win \in [Views -> Window]
  /\ mode \in {"passthrough", "move", "resize"}
  /\ grabbed \in Views \cup {NoView}
  /\ pending \in BOOLEAN
  /\ last_click \in Views \cup {NoView}
  /\ spot \in Spots
  /\ locked \in BOOLEAN

(* A motion that moves or resizes finds a live view to do it to, one that  *)
(* the client has configured, and so is the window of a remembered click,  *)
(* whatever went away during the drag.                                     *)
GrabLive ==
  /\ mode = "passthrough" <=> grabbed = NoView
  /\ grabbed # NoView => win[grabbed].stage \in {"configured", "mapped"}
  /\ pending => mode = "move"
  /\ last_click # NoView => win[last_click].stage \in {"configured", "mapped"}

(* A snapped window is neither maximized nor fullscreen: a drag restores   *)
(* it through snap_to alone.                                               *)
SnapExclusive ==
  \A v \in Views :
    win[v].snapped # "none" => ~win[v].maximized /\ ~win[v].fullscreen

(* Maximized, snapped or fullscreen, in any order and through any drag,    *)
(* a window keeps a position to return to that is not one it filled; and a *)
(* floating one is never left where it filled something.                   *)
GeometryReturns ==
  \A v \in Views :
    LET w == win[v]
    IN  (IF Special(w) THEN w.saved_pos ELSE w.pos) \in Points

(* Changing from one special state to another forgets nothing: the         *)
(* geometry saved first is the one a window returns to.                    *)
SavedKept ==
  [][ \A v \in Views :
        Special(win[v]) /\ Special(win'[v]) =>
          /\ win'[v].saved_pos = win[v].saved_pos
          /\ win'[v].saved_size = win[v].saved_size ]_vars
=============================================================================
