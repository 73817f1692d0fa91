---------------------------- MODULE Decorations ----------------------------
(***************************************************************************)
(* The window decorations of steppewm (src/src/deco.cc), and the hover of  *)
(* their buttons (src/src/input.cc): what is painted when, against what it *)
(* should show.                                                            *)
(*                                                                         *)
(* Title bar, buttons and borders are painted by different functions at    *)
(* different times: on a change of the focus, on each commit of the client,*)
(* on a reload, and while the cursor moves.  The keyboard focus is that of *)
(* Windows.tla.  Which of the three buttons is meant, sizes, colours and   *)
(* texts are left out; layer surfaces and workspaces play no part.         *)
(***************************************************************************)
EXTENDS Windows

VARIABLES
  srv,           \* the server of Windows.tla
  win,           \* the decoration of each view
  hovered        \* hovered_deco_view, on one of its buttons

vars == <<srv, win, hovered>>

Stages == {"gone", "new", "committed", "configured", "mapped"}

Paint == {"blank", "inactive", "active"}

Window ==
  [stage: Stages,
   fresh: BOOLEAN,        \* not mapped yet: its scene node was never disabled
   server: BOOLEAN,       \* deco_mode::SERVER, with the nodes that go with it
   pending: BOOLEAN,      \* pending_deco
   fullscreen: BOOLEAN,
   visible: BOOLEAN,      \* the nodes are enabled
   title: Paint, borders: Paint,
   asked: BOOLEAN]        \* a configure is under way to the client of a shown window

Blank ==
  [stage |-> "gone", fresh |-> TRUE, server |-> FALSE, pending |-> FALSE,
   fullscreen |-> FALSE, visible |-> FALSE, title |-> "blank",
   borders |-> "blank", asked |-> FALSE]

Initialized(d) == d.stage \in {"committed", "configured", "mapped"}

Shade(focused) == IF focused THEN "active" ELSE "inactive"

-----------------------------------------------------------------------------
(* deco.cc, as operators on a decoration *)

(* deco_update, which ends in deco_render_all *)
DecoUpdate(d, focused) ==
  IF ~d.server \/ d.fullscreen THEN d
  ELSE [d EXCEPT !.title = Shade(focused), !.borders = Shade(focused)]

(* Fault: nothing is painted behind a fullscreen window. *)
DecoSetFocusVisible(d, focused) ==
  IF ~d.server \/ d.fullscreen THEN d
  ELSE [d EXCEPT !.title = Shade(focused)]

(* deco_set_focus leaves the borders to the next update. *)
DecoSetFocus(d, focused) ==
  IF d.server THEN [d EXCEPT !.title = Shade(focused)] ELSE d

DecoSetVisible(d, on) == IF d.server THEN [d EXCEPT !.visible = on] ELSE d

(* deco_create *)
DecoCreate(d, focused) ==
  DecoUpdate([d EXCEPT !.server = TRUE, !.visible = TRUE, !.title = "blank",
                       !.borders = "blank"], focused)

ApplyPendingDeco(d, focused) ==
  IF d.pending /\ Initialized(d)
    THEN [DecoCreate(d, focused) EXCEPT !.pending = FALSE]
    ELSE d

(* Fault: a change of state asks nothing of the client. *)
ApplyStateUnasked(d, full) ==
  IF Initialized(d) THEN DecoSetVisible([d EXCEPT !.fullscreen = full], ~full) ELSE d

(* apply_state, as far as it changes what is seen of the decoration *)
ApplyState(d, full) ==
  IF Initialized(d)
    THEN [DecoSetVisible([d EXCEPT !.fullscreen = full], ~full)
            EXCEPT !.asked = d.stage = "mapped"]
    ELSE d

(* deco_is_button at the cursor: a window on the screen, or one that waits *)
(* for its first map at the origin.                                        *)
Buttons ==
  { v \in Views :
      /\ win[v].server /\ win[v].visible
      /\ v \in srv.shown \/ (win[v].fresh /\ v \notin srv.minimized) }

-----------------------------------------------------------------------------

Init ==
  /\ srv = InitServer(TRUE)
  /\ win = [v \in Views |-> Blank]
  /\ hovered = NoSurface

Focused(v) == srv.focused_surface = v

(* On the way from server s to t, view::focus gave the keyboard to a view. *)
Refocused(s, t) == t.focused_surface \in Views \ {s.focused_surface}

(* What it paints then, and what it asks of the clients.  A window that    *)
(* lost the keyboard before is not painted.                                *)
Repainted(w, s, t) ==
  IF ~Refocused(s, t) THEN w
  ELSE [v \in Views |->
          CASE v = t.focused_surface ->
                 [DecoSetFocus(w[v], TRUE) EXCEPT !.asked = TRUE]
            [] v = s.focused_surface /\ v \in t.mapped ->
                 [DecoSetFocus(w[v], FALSE) EXCEPT !.asked = TRUE]
            [] OTHER -> w[v]]

HoverKept(s, t, h) == IF Refocused(s, t) THEN NoSurface ELSE h

(* A handler that does nothing to decorations but through view::focus.     *)
Step(t) ==
  /\ srv' = t
  /\ win' = Repainted(win, srv, t)
  /\ hovered' = HoverKept(srv, t, hovered)

At(v, stage) == win[v].stage = stage

Becomes(v, d) == win' = [win EXCEPT ![v] = d]

-----------------------------------------------------------------------------
(* Clients *)

NewToplevel(v) ==
  /\ At(v, "gone")
  /\ Becomes(v, [Blank EXCEPT !.stage = "new"])
  /\ UNCHANGED <<srv, hovered>>

(* deco_new, which the protocol allows before there is a buffer, or, for a *)
(* window that has its decoration, deco_request_mode.                      *)
NewDecoration(v) ==
  /\ \/ win[v].stage \in {"committed", "configured"} /\ ~win[v].server
     \/ At(v, "new")
  /\ ~win[v].pending
  /\ Becomes(v, [win[v] EXCEPT !.pending = TRUE])
  /\ UNCHANGED <<srv, hovered>>

(* deco_handle_destroy leaves the mode and the nodes as they are.          *)
DecorationDestroyed(v) ==
  /\ win[v].pending
  /\ Becomes(v, [win[v] EXCEPT !.pending = FALSE])
  /\ UNCHANGED <<srv, hovered>>

InitialCommit(v) ==
  /\ At(v, "new")
  /\ Becomes(v, [win[v] EXCEPT !.stage = "committed"])
  /\ UNCHANGED <<srv, hovered>>

(* initial_configure, with the state that was requested before *)
InitialConfigure(v, full) ==
  /\ At(v, "committed")
  /\ LET d == [ApplyPendingDeco(win[v], Focused(v)) EXCEPT !.stage = "configured"]
     IN  Becomes(v, IF full THEN ApplyState(d, TRUE) ELSE d)
  /\ UNCHANGED <<srv, hovered>>

(* Fault: a commit draws a decoration that is new only. *)
CommittedPending(d, focused) ==
  [ApplyPendingDeco(d, focused) EXCEPT !.asked = FALSE]

(* What handle_commit does, after the client took note of its configures.  *)
Committed(d, focused) ==
  [DecoUpdate(ApplyPendingDeco(d, focused), focused) EXCEPT !.asked = FALSE]

Commit(v) ==
  /\ win[v].stage \in {"configured", "mapped"}
  /\ Becomes(v, Committed(win[v], Focused(v)))
  /\ UNCHANGED <<srv, hovered>>

Answer(v) == win[v].asked /\ Commit(v)

(* The commit of the first buffer maps the window before handle_commit.    *)
Map(v) ==
  /\ At(v, "configured")
  /\ LET t        == HandleMap(srv, v)
         answered == [win EXCEPT ![v] = [@ EXCEPT !.stage = "mapped",
                                           !.fresh = FALSE, !.asked = FALSE]]
         focused  == t.focused_surface = v
     IN  /\ srv' = t
         /\ win' = [Repainted(answered, srv, t) EXCEPT
                      ![v] = DecoUpdate(ApplyPendingDeco(@, focused), focused)]
         /\ hovered' = HoverKept(srv, t, hovered)

ForgetHover(v) == IF hovered = v THEN NoSurface ELSE hovered

Unmap(v) ==
  /\ At(v, "mapped")
  /\ LET t == HandleUnmap(srv, v)
     IN  /\ srv' = t
         /\ win' = [Repainted(win, srv, t) EXCEPT ![v].stage = "new", ![v].asked = FALSE]
         /\ hovered' = HoverKept(srv, t, ForgetHover(v))

(* handle_destroy has a line for every pointer but the hovered one.        *)
Destroy(v) ==
  /\ win[v].stage \in {"new", "committed", "configured"}
  /\ srv' = HandleDestroy(srv, v)
  /\ Becomes(v, Blank)
  /\ UNCHANGED hovered

SetTitle(v) ==
  /\ ~At(v, "gone")
  /\ Becomes(v, DecoUpdate(win[v], Focused(v)))
  /\ UNCHANGED <<srv, hovered>>

(* Fullscreen, or maximizing which ends in the same place.                 *)
RequestState(v, full) ==
  /\ ~At(v, "gone")
  /\ Becomes(v, ApplyState(win[v], full))
  /\ UNCHANGED <<srv, hovered>>

RequestMinimize(v) ==
  /\ ~At(v, "gone")
  /\ Step(MinimizeAndMoveOn(srv, v))

-----------------------------------------------------------------------------
(* The user, panels and the locker *)

(* A key, a panel, a click on a task button or the release of Alt+Tab.     *)
Activated(v) == At(v, "mapped") /\ Step(Focus(srv, v))

(* Motion over the button of a window, or over none.  A locked session     *)
(* returns before the hover.                                               *)
UpdateHover(target) ==
  /\ ~srv.locked
  /\ hovered' = target
  /\ UNCHANGED <<srv, win>>

(* reconfigure_all, on a reload, for the windows in the list *)
Reconfigure ==
  /\ hovered' = NoSurface
  /\ win' = [v \in Views |->
               IF v \in srv.mapped
                 THEN DecoSetFocus(DecoUpdate(win[v], Focused(v)), Focused(v))
                 ELSE win[v]]
  /\ UNCHANGED srv

Lock ==
  /\ ~srv.locked
  /\ Step([srv EXCEPT !.locked = TRUE, !.focused_surface = NoSurface])

Unlock ==
  /\ srv.locked
  /\ Step(FocusNext([srv EXCEPT !.locked = FALSE], NoSurface))

-----------------------------------------------------------------------------

ClientNext == \E v \in Views :
  \/ NewToplevel(v) \/ NewDecoration(v) \/ DecorationDestroyed(v)
  \/ InitialCommit(v) \/ Commit(v) \/ Map(v) \/ Unmap(v) \/ Destroy(v)
  \/ SetTitle(v) \/ RequestMinimize(v)
  \/ \E full \in BOOLEAN : InitialConfigure(v, full) \/ RequestState(v, full)

UserNext ==
  \/ \E v \in Views : Activated(v)
  \/ \E v \in Buttons \cup {NoSurface} : UpdateHover(v)
  \/ Reconfigure \/ Lock \/ Unlock

Next == ClientNext \/ UserNext

(* A client that was sent a configure takes note of it with a commit.      *)
Fairness == \A v \in Views : WF_vars(Answer(v))

Spec == Init /\ [][Next]_vars /\ Fairness

-----------------------------------------------------------------------------

TypeOK ==
  /\ srv \in Server
  /\ win \in [Views -> Window]
  /\ hovered \in Views \cup {NoSurface}

(* The title bar of the window with the keyboard is painted as focused:    *)
(* paints on commits, reloads, requests and focus changes agree, whichever *)
(* comes last, and none is missed behind a fullscreen window or a lock.    *)
TitleDrawn ==
  \A v \in Views :
    Focused(v) /\ win[v].title # "blank" => win[v].title = "active"

(* deco_set_focus paints no borders.  As long as those of the window with  *)
(* the keyboard show and are out of date, a configure is under way that    *)
(* its client has to answer.  A commit that came while the window was      *)
(* fullscreen painted nothing, so the end of fullscreen must ask again.    *)
BordersAsked ==
  \A v \in Views :
    Focused(v) /\ win[v].server /\ ~win[v].fullscreen /\ win[v].borders # "active"
      => win[v].asked

(* The decoration of the window with the keyboard is painted as focused,   *)
(* or about to be, by deco_set_focus and the commits that follow.          *)
FocusDrawn == TitleDrawn /\ BordersAsked

(* They follow with the commit that answers the activation, unless the     *)
(* focus moves on or the window goes fullscreen before.                    *)
BordersCatchUp ==
  \A v \in Views :
    Focused(v) /\ win[v].server /\ ~win[v].fullscreen
      ~> win[v].borders = "active" \/ ~Focused(v) \/ win[v].fullscreen

(* server.h "the window that the deco is hovered": the remembered window   *)
(* is one that exists, since the next motion repaints its button.          *)
HoverLive == hovered # NoSurface => ~At(hovered, "gone")
=============================================================================
