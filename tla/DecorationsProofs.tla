-------------------------- MODULE DecorationsProofs --------------------------
(***************************************************************************)
(* Theorems about Decorations.tla, for any windows: no order of commits,   *)
(* requests, reloads and focus changes leaves the focused title bar        *)
(* painted as one without the keyboard, or the borders without a commit to *)
(* come that paints them.                                                  *)
(***************************************************************************)
EXTENDS Decorations, WindowsProofs

(* TitleDrawn for one window is not inductive: a window that is drawn by   *)
(* its client has to have no title bar, or setting the focus misses it.    *)
DrawnRight(d, focused) ==
  /\ d \in Window
  /\ ~d.server => d.title = "blank"
  /\ focused /\ d.title # "blank" => d.title = "active"

AllDrawn(s, w) ==
  /\ w \in [Views -> Window]
  /\ \A v \in Views : DrawnRight(w[v], s.focused_surface = v)

DrawnInv == srv \in Server /\ AllDrawn(srv, win)

(* The functions of deco.cc, called with the focus of the window.          *)
LEMMA DecoDrawn ==
  ASSUME NEW d, NEW focused \in BOOLEAN, DrawnRight(d, focused)
  PROVE  /\ DrawnRight(DecoUpdate(d, focused), focused)
         /\ DrawnRight(ApplyPendingDeco(d, focused), focused)
         /\ DrawnRight(Committed(d, focused), focused)
         /\ \A full \in BOOLEAN : DrawnRight(ApplyState(d, full), focused)
<1>1. ASSUME NEW e, DrawnRight(e, focused)
      PROVE  DrawnRight(DecoUpdate(e, focused), focused)
  BY <1>1 DEF DrawnRight, DecoUpdate, Window, Shade, Paint
<1>2. DrawnRight(ApplyPendingDeco(d, focused), focused)
  <2> DEFINE e == [d EXCEPT !.server = TRUE, !.visible = TRUE, !.title = "blank",
                            !.borders = "blank"]
             f == DecoUpdate(e, focused)
  <2>1. DrawnRight(e, focused)
    BY DEF DrawnRight, Window, Paint
  <2> HIDE DEF e
  <2>2. DrawnRight(f, focused)
    BY <1>1, <2>1
  <2> HIDE DEF f
  <2>3. DrawnRight([f EXCEPT !.pending = FALSE], focused)
    BY <2>2 DEF DrawnRight, Window
  <2>4. ApplyPendingDeco(d, focused) \in {d, [f EXCEPT !.pending = FALSE]}
    BY DEF ApplyPendingDeco, DecoCreate, e, f
  <2>5. QED BY <2>3, <2>4
<1>3. DrawnRight(Committed(d, focused), focused)
  <2> DEFINE e == DecoUpdate(ApplyPendingDeco(d, focused), focused)
  <2>1. DrawnRight(e, focused)
    BY <1>1, <1>2
  <2>2. Committed(d, focused) = [e EXCEPT !.asked = FALSE]
    BY DEF Committed
  <2> HIDE DEF e
  <2>3. QED BY <2>1, <2>2 DEF DrawnRight, Window
<1>4. ASSUME NEW full \in BOOLEAN
      PROVE  DrawnRight(ApplyState(d, full), focused)
  BY DEF DrawnRight, ApplyState, DecoSetVisible, Window
<1>5. QED BY <1>1, <1>2, <1>3, <1>4

(* deco_set_focus is right whatever was painted before.                    *)
LEMMA SetFocusDrawn ==
  ASSUME NEW d, NEW before, NEW focused \in BOOLEAN, DrawnRight(d, before)
  PROVE  DrawnRight(DecoSetFocus(d, focused), focused)
  BY DEF DrawnRight, DecoSetFocus, Window, Shade, Paint

(* A change of one window's decoration.                                    *)
LEMMA OneDrawn ==
  ASSUME NEW s, NEW w, AllDrawn(s, w), NEW v \in Views,
         NEW d, DrawnRight(d, s.focused_surface = v)
  PROVE  AllDrawn(s, [w EXCEPT ![v] = d])
  BY DEF AllDrawn, DrawnRight

(* A handler that moves the focus through view::focus, or clears it.       *)
LEMMA RepaintedDrawn ==
  ASSUME NEW s, NEW t, NEW w, AllDrawn(s, w),
         t.focused_surface \in {s.focused_surface, NoSurface} \cup Views
  PROVE  AllDrawn(t, Repainted(w, s, t))
<1>1. NoSurface \notin Views
  BY WindowsAssumption
<1>2. CASE ~Refocused(s, t)
  BY <1>1, <1>2 DEF Refocused, Repainted, AllDrawn, DrawnRight
<1>3. CASE Refocused(s, t)
  <2> DEFINE r == Repainted(w, s, t)
  <2>1. r = [v \in Views |->
              CASE v = t.focused_surface ->
                     [DecoSetFocus(w[v], TRUE) EXCEPT !.asked = TRUE]
                [] v = s.focused_surface /\ v \in t.mapped ->
                     [DecoSetFocus(w[v], FALSE) EXCEPT !.asked = TRUE]
                [] OTHER -> w[v]]
    BY <1>3 DEF Repainted
  <2> HIDE DEF r
  <2>2. ASSUME NEW v \in Views
        PROVE  DrawnRight(r[v], t.focused_surface = v)
    <3>0. DrawnRight(w[v], s.focused_surface = v)
      BY DEF AllDrawn
    <3>1. /\ DrawnRight(DecoSetFocus(w[v], TRUE), TRUE)
          /\ DrawnRight(DecoSetFocus(w[v], FALSE), FALSE)
      BY <3>0, SetFocusDrawn
    <3>2. /\ DrawnRight([DecoSetFocus(w[v], TRUE) EXCEPT !.asked = TRUE], TRUE)
          /\ DrawnRight([DecoSetFocus(w[v], FALSE) EXCEPT !.asked = TRUE], FALSE)
      BY <3>1 DEF DrawnRight, Window
    <3>3. DrawnRight(w[v], FALSE)
      BY <3>0 DEF DrawnRight
    <3>4. CASE v = t.focused_surface
      <4>1. r[v] = [DecoSetFocus(w[v], TRUE) EXCEPT !.asked = TRUE]
        BY <1>3, <2>1, <3>4 DEF Refocused
      <4>2. DrawnRight(r[v], TRUE)
        BY <3>2, <4>1
      <4>3. QED BY <3>4, <4>2 DEF DrawnRight
    <3>5. CASE v # t.focused_surface /\ v = s.focused_surface /\ v \in t.mapped
      BY <2>1, <3>2, <3>5
    <3>6. CASE v # t.focused_surface /\ ~ (v = s.focused_surface /\ v \in t.mapped)
      BY <2>1, <3>3, <3>6
    <3>7. QED BY <3>4, <3>5, <3>6
  <2>3. r \in [Views -> Window]
    BY <2>1, <2>2 DEF DrawnRight
  <2>4. QED BY <2>2, <2>3 DEF AllDrawn, r
<1>4. QED BY <1>2, <1>3

(* A seat step does no more than that.                                     *)
LEMMA StepDrawn ==
  ASSUME DrawnInv, NEW t \in Server, SeatStep(srv, t), Step(t)
  PROVE  DrawnInv'
<1>1. t.focused_surface \in {srv.focused_surface, NoSurface} \cup Views
  BY DEF SeatStep
<1>2. AllDrawn(t, Repainted(win, srv, t))
  BY <1>1, RepaintedDrawn DEF DrawnInv
<1>3. QED BY <1>2 DEF Step, DrawnInv

(* An action that changes the decoration of one window and leaves the      *)
(* server alone.                                                           *)
LEMMA BecomesDrawn ==
  ASSUME DrawnInv, NEW v \in Views, NEW d, DrawnRight(d, Focused(v)),
         Becomes(v, d), UNCHANGED srv
  PROVE  DrawnInv'
  BY OneDrawn DEF DrawnInv, Becomes, Focused

(* One step per action of a client.                                        *)
LEMMA ClientDrawn ==
  ASSUME DrawnInv, ClientNext
  PROVE  DrawnInv'
<1>0. srv \in Server /\ win \in [Views -> Window] /\ AllDrawn(srv, win)
  BY DEF DrawnInv, AllDrawn
<1>1. PICK v \in Views :
         \/ NewToplevel(v) \/ NewDecoration(v) \/ DecorationDestroyed(v)
         \/ InitialCommit(v) \/ Commit(v) \/ Map(v) \/ Unmap(v) \/ Destroy(v)
         \/ SetTitle(v) \/ RequestMinimize(v)
         \/ \E full \in BOOLEAN : InitialConfigure(v, full) \/ RequestState(v, full)
  BY DEF ClientNext
<1> DEFINE d == win[v]
<1>2. DrawnRight(d, Focused(v)) /\ d \in Window /\ Focused(v) \in BOOLEAN
  BY <1>0 DEF AllDrawn, Focused
<1>3. CASE NewToplevel(v)
  <2>1. DrawnRight([Blank EXCEPT !.stage = "new"], Focused(v))
    BY DEF DrawnRight, Blank, Window, Stages, Paint
  <2>2. QED BY <1>3, <2>1, BecomesDrawn DEF NewToplevel
<1>4. CASE NewDecoration(v)
  <2>1. DrawnRight([d EXCEPT !.pending = TRUE], Focused(v))
    BY <1>2 DEF DrawnRight, Window
  <2>2. QED BY <1>4, <2>1, BecomesDrawn DEF NewDecoration
<1>5. CASE DecorationDestroyed(v)
  <2>1. DrawnRight([d EXCEPT !.pending = FALSE], Focused(v))
    BY <1>2 DEF DrawnRight, Window
  <2>2. QED BY <1>5, <2>1, BecomesDrawn DEF DecorationDestroyed
<1>6. CASE InitialCommit(v)
  <2>1. DrawnRight([d EXCEPT !.stage = "committed"], Focused(v))
    BY <1>2 DEF DrawnRight, Window, Stages
  <2>2. QED BY <1>6, <2>1, BecomesDrawn DEF InitialCommit
<1>7. ASSUME NEW full \in BOOLEAN, InitialConfigure(v, full)
      PROVE  DrawnInv'
  <2> DEFINE e == [ApplyPendingDeco(d, Focused(v)) EXCEPT !.stage = "configured"]
  <2>1. DrawnRight(ApplyPendingDeco(d, Focused(v)), Focused(v))
    BY <1>2, DecoDrawn
  <2>2. DrawnRight(e, Focused(v))
    BY <2>1 DEF DrawnRight, Window, Stages
  <2>3. Becomes(v, IF full THEN ApplyState(e, TRUE) ELSE e) /\ UNCHANGED srv
    BY <1>7 DEF InitialConfigure
  <2> HIDE DEF e
  <2>4. DrawnRight(ApplyState(e, TRUE), Focused(v))
    BY <1>2, <2>2, DecoDrawn
  <2>5. QED BY <2>2, <2>3, <2>4, BecomesDrawn
<1>8. CASE Commit(v)
  <2>1. DrawnRight(Committed(d, Focused(v)), Focused(v))
    BY <1>2, DecoDrawn
  <2>2. QED BY <1>8, <2>1, BecomesDrawn DEF Commit
<1>9. CASE Map(v)
  <2> DEFINE t        == HandleMap(srv, v)
             answered == [win EXCEPT ![v] = [@ EXCEPT !.stage = "mapped",
                                               !.fresh = FALSE, !.asked = FALSE]]
             w        == Repainted(answered, srv, t)
             focused  == t.focused_surface = v
  <2>1. t \in Server /\ SeatStep(srv, t)
    BY <1>0, HandleMapType, HandleMapSeat
  <2>2. AllDrawn(srv, answered)
    <3>1. DrawnRight([win[v] EXCEPT !.stage = "mapped", !.fresh = FALSE,
                                    !.asked = FALSE], srv.focused_surface = v)
      BY <1>2 DEF DrawnRight, Window, Stages, Focused
    <3>2. answered = [win EXCEPT ![v] = [win[v] EXCEPT !.stage = "mapped",
                                          !.fresh = FALSE, !.asked = FALSE]]
      BY <1>0
    <3>3. QED BY <1>0, <3>1, <3>2, OneDrawn
  <2>3. /\ srv' = t
        /\ win' = [w EXCEPT ![v] = DecoUpdate(ApplyPendingDeco(w[v], focused), focused)]
    <3>1. win' = [w EXCEPT ![v] = DecoUpdate(ApplyPendingDeco(@, focused), focused)]
      BY <1>9 DEF Map
    <3>2. QED BY <1>9, <3>1 DEF Map
  <2> HIDE DEF t, answered
  <2>4. AllDrawn(t, w)
    BY <2>1, <2>2, RepaintedDrawn DEF SeatStep
  <2> HIDE DEF w
  <2>5. DrawnRight(w[v], focused)
    BY <2>4 DEF AllDrawn
  <2>6. DrawnRight(ApplyPendingDeco(w[v], focused), focused)
    BY <2>5, DecoDrawn
  <2>7. DrawnRight(DecoUpdate(ApplyPendingDeco(w[v], focused), focused), focused)
    BY <2>6, DecoDrawn
  <2>8. QED BY <2>1, <2>3, <2>4, <2>7, OneDrawn DEF DrawnInv
<1>10. CASE Unmap(v)
  <2> DEFINE t == HandleUnmap(srv, v)
             w == Repainted(win, srv, t)
  <2>1. t \in Server /\ SeatStep(srv, t)
    BY <1>0, HandleUnmapType, HandleUnmapSeat
  <2>2. AllDrawn(t, w)
    BY <1>0, <2>1, RepaintedDrawn DEF SeatStep
  <2>3. srv' = t /\ win' = [w EXCEPT ![v].stage = "new", ![v].asked = FALSE]
    BY <1>10 DEF Unmap
  <2> HIDE DEF t, w
  <2>4. AllDrawn(t, [w EXCEPT ![v].stage = "new", ![v].asked = FALSE])
    <3> DEFINE e == [w[v] EXCEPT !.stage = "new", !.asked = FALSE]
    <3>1. DrawnRight(w[v], t.focused_surface = v)
      BY <2>2 DEF AllDrawn
    <3>2. DrawnRight(e, t.focused_surface = v)
      BY <3>1 DEF DrawnRight, Window, Stages
    <3>3. [w EXCEPT ![v].stage = "new", ![v].asked = FALSE] = [w EXCEPT ![v] = e]
      BY <2>2 DEF AllDrawn
    <3> HIDE DEF e
    <3>4. QED BY <2>2, <3>2, <3>3, OneDrawn
  <2>5. QED BY <2>1, <2>3, <2>4 DEF DrawnInv
<1>11. CASE Destroy(v)
  <2>1. DrawnRight(Blank, FALSE) /\ DrawnRight(Blank, TRUE)
    BY DEF DrawnRight, Blank, Window, Stages, Paint
  <2>2. /\ HandleDestroy(srv, v) \in Server
        /\ HandleDestroy(srv, v).focused_surface = srv.focused_surface
    <3>1. HandleDestroy(srv, v) \in Server
      BY <1>0, HandleDestroyType
    <3>2. HandleDestroy(srv, v).focused_surface = srv.focused_surface
      BY <1>0 DEF HandleDestroy, Server
    <3>3. QED BY <3>1, <3>2
  <2>3. srv' = HandleDestroy(srv, v) /\ win' = [win EXCEPT ![v] = Blank]
    BY <1>11 DEF Destroy, Becomes
  <2>4. QED BY <1>0, <2>1, <2>2, <2>3 DEF DrawnInv, AllDrawn, DrawnRight
<1>12. CASE SetTitle(v)
  <2>1. DrawnRight(DecoUpdate(d, Focused(v)), Focused(v))
    BY <1>2, DecoDrawn
  <2>2. QED BY <1>12, <2>1, BecomesDrawn DEF SetTitle
<1>13. CASE RequestMinimize(v)
  BY <1>0, <1>13, MinimizeAndMoveOnType, MinimizeAndMoveOnSeat, StepDrawn
     DEF RequestMinimize
<1>14. ASSUME NEW full \in BOOLEAN, RequestState(v, full)
       PROVE  DrawnInv'
  <2>1. DrawnRight(ApplyState(d, full), Focused(v))
    BY <1>2, DecoDrawn
  <2>2. QED BY <1>14, <2>1, BecomesDrawn DEF RequestState
<1>15. QED BY <1>1, <1>3, <1>4, <1>5, <1>6, <1>7, <1>8, <1>9, <1>10, <1>11, <1>12,
              <1>13, <1>14

(* So do the user, a reload and the locker.                                *)
LEMMA UserDrawn ==
  ASSUME DrawnInv, UserNext
  PROVE  DrawnInv'
<1>0. srv \in Server /\ AllDrawn(srv, win)
  BY DEF DrawnInv
<1>1. ASSUME NEW v \in Views, Activated(v)
      PROVE  DrawnInv'
  BY <1>0, <1>1, FocusType, FocusSeat, StepDrawn DEF Activated
<1>2. ASSUME NEW v, UpdateHover(v)
      PROVE  DrawnInv'
  BY <1>2 DEF UpdateHover, DrawnInv
<1>3. CASE Reconfigure
  <2>1. ASSUME NEW v \in Views
        PROVE  DrawnRight(IF v \in srv.mapped
                            THEN DecoSetFocus(DecoUpdate(win[v], Focused(v)), Focused(v))
                            ELSE win[v], Focused(v))
    <3>1. DrawnRight(win[v], Focused(v)) /\ Focused(v) \in BOOLEAN
      BY <1>0 DEF AllDrawn, Focused
    <3>2. DrawnRight(DecoUpdate(win[v], Focused(v)), Focused(v))
      BY <3>1, DecoDrawn
    <3>3. DrawnRight(DecoSetFocus(DecoUpdate(win[v], Focused(v)), Focused(v)), Focused(v))
      BY <3>1, <3>2, SetFocusDrawn
    <3>4. QED BY <3>1, <3>3
  <2>2. srv' = srv /\ win' = [v \in Views |->
               IF v \in srv.mapped
                 THEN DecoSetFocus(DecoUpdate(win[v], Focused(v)), Focused(v))
                 ELSE win[v]]
    BY <1>3 DEF Reconfigure
  <2>3. \A v \in Views : DrawnRight(win'[v], Focused(v))
    BY <2>1, <2>2
  <2>4. win' \in [Views -> Window]
    BY <2>2, <2>3 DEF DrawnRight
  <2>5. QED BY <1>0, <2>2, <2>3, <2>4 DEF DrawnInv, AllDrawn, Focused
<1>4. CASE Lock
  <2> DEFINE t == [srv EXCEPT !.locked = TRUE, !.focused_surface = NoSurface]
  <2>1. t \in Server /\ t.focused_surface = NoSurface
    BY <1>0 DEF Server, Surfaces
  <2>2. Step(t)
    BY <1>4 DEF Lock
  <2> HIDE DEF t
  <2>3. AllDrawn(t, Repainted(win, srv, t))
    BY <1>0, <2>1, RepaintedDrawn
  <2>4. QED BY <2>1, <2>2, <2>3 DEF Step, DrawnInv
<1>5. CASE Unlock
  <2> DEFINE t == [srv EXCEPT !.locked = FALSE]
             u == FocusNext(t, NoSurface)
  <2>1. t \in Server /\ t.focused_surface = srv.focused_surface
    BY <1>0 DEF Server
  <2> HIDE DEF t
  <2>2. u \in Server /\ SeatStep(t, u)
    BY <2>1, FocusNextType, FocusNextSeat
  <2>3. Step(u)
    BY <1>5 DEF Unlock, t
  <2> HIDE DEF u
  <2>4. AllDrawn(u, Repainted(win, srv, u))
    BY <1>0, <2>1, <2>2, RepaintedDrawn DEF SeatStep
  <2>5. QED BY <2>2, <2>3, <2>4 DEF Step, DrawnInv
<1>6. QED BY <1>1, <1>2, <1>3, <1>4, <1>5 DEF UserNext

(* No window is drawn at first.                                            *)
LEMMA InitDrawn ==
  ASSUME Init
  PROVE  DrawnInv
<1>1. srv \in Server
  BY InitServerType DEF Init
<1>2. DrawnRight(Blank, FALSE)
  BY DEF DrawnRight, Blank, Window, Stages, Paint
<1>3. srv.focused_surface \notin Views
  BY WindowsAssumption DEF Init, InitServer
<1>4. QED BY <1>1, <1>2, <1>3 DEF Init, DrawnInv, AllDrawn, DrawnRight

(* Every step, and every stutter, keeps what is drawn right.               *)
LEMMA DrawnKept == DrawnInv /\ [Next]_vars => DrawnInv'
<1>1. ASSUME DrawnInv, UNCHANGED vars
      PROVE  DrawnInv'
  BY <1>1 DEF vars, DrawnInv
<1>2. QED BY <1>1, ClientDrawn, UserDrawn DEF Next

-----------------------------------------------------------------------------

(* BordersAsked for one window. *)
BordersFine(d) ==
  d.server /\ ~d.fullscreen /\ d.borders # "active" => d.asked

(* The window with the keyboard is mapped, and which windows are mapped is *)
(* known twice: to the server, and as the stage of the window.             *)
StagesFit(s, w) == \A v \in Views : v \in s.mapped <=> w[v].stage = "mapped"

BordersFit(s, w) ==
  \A v \in Views : s.focused_surface = v => BordersFine(w[v])

ServerSound(s) == s \in Server /\ Consistent(s) /\ FocusSound(s)

BordersInv ==
  /\ DrawnInv
  /\ ServerSound(srv)
  /\ StagesFit(srv, win)
  /\ BordersFit(srv, win)

(* A paint of everything for the focused window leaves nothing to ask for. *)
LEMMA PaintFine ==
  ASSUME NEW d \in Window
  PROVE  /\ BordersFine(DecoUpdate(d, TRUE))
         /\ \A focused \in BOOLEAN : DecoUpdate(d, focused) \in Window
         /\ \A focused \in BOOLEAN : DecoUpdate(d, focused).stage = d.stage
  BY DEF BordersFine, DecoUpdate, Shade, Window, Paint

(* view::apply_pending_deco changes no stage.                              *)
LEMMA PendingStage ==
  ASSUME NEW d \in Window, NEW focused \in BOOLEAN
  PROVE  /\ ApplyPendingDeco(d, focused) \in Window
         /\ ApplyPendingDeco(d, focused).stage = d.stage
<1> DEFINE e == [d EXCEPT !.server = TRUE, !.visible = TRUE, !.title = "blank",
                          !.borders = "blank"]
           f == DecoUpdate(e, focused)
<1>1. e \in Window /\ e.stage = d.stage
  BY DEF Window, Paint
<1>2. ApplyPendingDeco(d, focused) \in {d, [f EXCEPT !.pending = FALSE]}
  BY DEF ApplyPendingDeco, DecoCreate
<1> HIDE DEF e
<1>3. f \in Window /\ f.stage = d.stage
  BY <1>1, PaintFine
<1> HIDE DEF f
<1>4. /\ [f EXCEPT !.pending = FALSE] \in Window
      /\ [f EXCEPT !.pending = FALSE].stage = f.stage
  BY <1>3 DEF Window
<1>5. QED BY <1>2, <1>3, <1>4

(* The paint of a commit, and of the first map, which is the same one.     *)
LEMMA CommittedFine ==
  ASSUME NEW d \in Window, NEW focused \in BOOLEAN
  PROVE  /\ focused => BordersFine(DecoUpdate(ApplyPendingDeco(d, focused), focused))
         /\ DecoUpdate(ApplyPendingDeco(d, focused), focused) \in Window
         /\ DecoUpdate(ApplyPendingDeco(d, focused), focused).stage = d.stage
         /\ focused => BordersFine(Committed(d, focused))
         /\ Committed(d, focused).stage = d.stage
<1> DEFINE e == ApplyPendingDeco(d, focused)
           f == DecoUpdate(e, focused)
<1>1. e \in Window /\ e.stage = d.stage
  BY PendingStage
<1>2. Committed(d, focused) = [f EXCEPT !.asked = FALSE]
  BY DEF Committed
<1>3. f = IF ~e.server \/ e.fullscreen THEN e
          ELSE [e EXCEPT !.title = Shade(focused), !.borders = Shade(focused)]
  BY DEF DecoUpdate
<1> HIDE DEF e
<1>4. /\ f \in Window /\ f.stage = e.stage
      /\ focused => ~f.server \/ f.fullscreen \/ f.borders = "active"
  BY <1>1, <1>3 DEF Window, Shade, Paint
<1> HIDE DEF f
<1>5. QED BY <1>1, <1>2, <1>4 DEF BordersFine, Window, e, f

(* A change of the state of a window, which asks the client of a mapped    *)
(* one to take note of it.                                                 *)
LEMMA ApplyStateFine ==
  ASSUME NEW d \in Window, NEW full \in BOOLEAN
  PROVE  /\ ApplyState(d, full).stage = d.stage
         /\ d.stage = "mapped" => BordersFine(ApplyState(d, full))
  BY DEF ApplyState, Initialized, DecoSetVisible, BordersFine, Window

(* The paint of a focus change is a paint.                                 *)
LEMMA RepaintedTyped ==
  ASSUME NEW s, NEW t, NEW w \in [Views -> Window]
  PROVE  Repainted(w, s, t) \in [Views -> Window]
<1>1. ASSUME NEW v \in Views, NEW focused \in BOOLEAN
      PROVE  [DecoSetFocus(w[v], focused) EXCEPT !.asked = TRUE] \in Window
  BY DEF DecoSetFocus, Window, Shade, Paint
<1>2. CASE ~Refocused(s, t)
  BY <1>2 DEF Repainted
<1>3. CASE Refocused(s, t)
  <2> DEFINE r == Repainted(w, s, t)
             of(v) == CASE v = t.focused_surface ->
                             [DecoSetFocus(w[v], TRUE) EXCEPT !.asked = TRUE]
                        [] v = s.focused_surface /\ v \in t.mapped ->
                             [DecoSetFocus(w[v], FALSE) EXCEPT !.asked = TRUE]
                        [] OTHER -> w[v]
  <2>1. r = [v \in Views |-> of(v)]
    BY <1>3 DEF Repainted
  <2>2. ASSUME NEW v \in Views
        PROVE  of(v) \in Window
    <3>1. of(v) \in {[DecoSetFocus(w[v], TRUE) EXCEPT !.asked = TRUE],
                     [DecoSetFocus(w[v], FALSE) EXCEPT !.asked = TRUE], w[v]}
      <4>1. CASE v = t.focused_surface
        BY <1>3, <4>1 DEF Refocused
      <4>2. CASE v # t.focused_surface
        BY <4>2
      <4>3. QED BY <4>1, <4>2
    <3>2. QED BY <1>1, <3>1
  <2> HIDE DEF of
  <2>3. QED BY <2>1, <2>2
<1>4. QED BY <1>2, <1>3

(* view::focus paints the title bar of the window that gets the keyboard   *)
(* and asks its client for a commit, which brings the borders.             *)
LEMMA RepaintedFine ==
  ASSUME NEW s, NEW t, NEW w \in [Views -> Window], BordersFit(s, w),
         t.focused_surface \in {s.focused_surface, NoSurface} \cup Views
  PROVE  /\ BordersFit(t, Repainted(w, s, t))
         /\ \A v \in Views : Repainted(w, s, t)[v].stage = w[v].stage
<1>1. NoSurface \notin Views
  BY WindowsAssumption
<1>2. CASE ~Refocused(s, t)
  BY <1>1, <1>2 DEF Refocused, Repainted, BordersFit
<1>3. CASE Refocused(s, t)
  <2> DEFINE r == Repainted(w, s, t)
  <2>1. r = [v \in Views |->
              CASE v = t.focused_surface ->
                     [DecoSetFocus(w[v], TRUE) EXCEPT !.asked = TRUE]
                [] v = s.focused_surface /\ v \in t.mapped ->
                     [DecoSetFocus(w[v], FALSE) EXCEPT !.asked = TRUE]
                [] OTHER -> w[v]]
    BY <1>3 DEF Repainted
  <2> HIDE DEF r
  <2>2. ASSUME NEW v \in Views
        PROVE  /\ r[v].stage = w[v].stage
               /\ t.focused_surface = v => BordersFine(r[v])
    <3>1. ASSUME NEW focused \in BOOLEAN
          PROVE  /\ [DecoSetFocus(w[v], focused) EXCEPT !.asked = TRUE].stage = w[v].stage
                 /\ [DecoSetFocus(w[v], focused) EXCEPT !.asked = TRUE].asked
      BY DEF DecoSetFocus, Window
    <3>2. CASE v = t.focused_surface
      <4>1. r[v] = [DecoSetFocus(w[v], TRUE) EXCEPT !.asked = TRUE]
        BY <1>3, <2>1, <3>2 DEF Refocused
      <4>2. QED BY <3>1, <4>1 DEF BordersFine
    <3>3. CASE v # t.focused_surface /\ v = s.focused_surface /\ v \in t.mapped
      <4>1. r[v] = [DecoSetFocus(w[v], FALSE) EXCEPT !.asked = TRUE]
        BY <2>1, <3>3
      <4>2. QED BY <3>1, <3>3, <4>1
    <3>4. CASE v # t.focused_surface /\ ~ (v = s.focused_surface /\ v \in t.mapped)
      BY <2>1, <3>4
    <3>5. QED BY <3>2, <3>3, <3>4
  <2>3. QED BY <2>2 DEF BordersFit, r
<1>4. QED BY <1>2, <1>3

(* A handler that moves the focus and maps or unmaps nothing.              *)
LEMMA StepFine ==
  ASSUME BordersInv, DrawnInv', NEW t \in Server, ServerSound(t),
         t.focused_surface \in {srv.focused_surface, NoSurface} \cup Views,
         t.mapped = srv.mapped, Step(t)
  PROVE  BordersInv'
<1>1. win \in [Views -> Window] /\ BordersFit(srv, win) /\ StagesFit(srv, win)
  BY DEF BordersInv, DrawnInv, AllDrawn
<1>2. srv' = t /\ win' = Repainted(win, srv, t)
  BY DEF Step
<1>3. /\ BordersFit(t, Repainted(win, srv, t))
      /\ \A v \in Views : Repainted(win, srv, t)[v].stage = win[v].stage
  BY <1>1, RepaintedFine
<1>4. StagesFit(t, win')
  BY <1>1, <1>2, <1>3 DEF StagesFit
<1>5. QED BY <1>2, <1>3, <1>4 DEF BordersInv

(* A change of one decoration that keeps the stage, or leads from one of   *)
(* an unmapped window to another, and is fine if the window has the        *)
(* keyboard.                                                               *)
LEMMA BecomesFine ==
  ASSUME BordersInv, DrawnInv', NEW v \in Views, NEW d,
         Becomes(v, d), UNCHANGED srv,
         d.stage = "mapped" <=> win[v].stage = "mapped",
         Focused(v) => BordersFine(d)
  PROVE  BordersInv'
<1>1. win \in [Views -> Window] /\ win' = [win EXCEPT ![v] = d] /\ srv' = srv
  BY DEF BordersInv, DrawnInv, AllDrawn, Becomes
<1>2. StagesFit(srv, win') /\ BordersFit(srv, win')
  BY <1>1 DEF BordersInv, StagesFit, BordersFit, Focused
<1>3. QED BY <1>1, <1>2 DEF BordersInv

(* What the functions on windows promise of the server, put together.      *)
LEMMA ServerSteps ==
  ASSUME NEW s, ServerSound(s), NEW v \in Views
  PROVE  /\ ServerSound(Focus(s, v)) /\ SeatStep(s, Focus(s, v))
         /\ Focus(s, v).mapped = s.mapped
         /\ ServerSound(MinimizeAndMoveOn(s, v)) /\ SeatStep(s, MinimizeAndMoveOn(s, v))
         /\ MinimizeAndMoveOn(s, v).mapped = s.mapped
<1>1. s \in Server /\ Consistent(s) /\ FocusSound(s)
  BY DEF ServerSound
<1>2. ServerSound(Focus(s, v)) /\ SeatStep(s, Focus(s, v))
  BY <1>1, FocusType, FocusKeeps, FocusSeat DEF Keeps, ServerSound
<1>3. /\ ServerSound(MinimizeAndMoveOn(s, v))
      /\ SeatStep(s, MinimizeAndMoveOn(s, v))
  BY <1>1, MinimizeAndMoveOnType, MinimizeAndMoveOnKeeps, MinimizeAndMoveOnSeat
     DEF Keeps, ServerSound
<1>4. /\ Focus(s, v).mapped = s.mapped
      /\ MinimizeAndMoveOn(s, v).mapped = s.mapped
  BY <1>1, FocusRefocus, MinimizeAndMoveOnRefocus DEF Refocus, PlacesKept
<1>5. QED BY <1>2, <1>3, <1>4

(* view::handle_map maps one window and view::handle_unmap unmaps it.      *)
LEMMA MappedSteps ==
  ASSUME NEW s, ServerSound(s), NEW v \in Views
  PROVE  /\ v \notin s.mapped =>
              /\ ServerSound(HandleMap(s, v)) /\ SeatStep(s, HandleMap(s, v))
              /\ HandleMap(s, v).mapped = s.mapped \cup {v}
         /\ ServerSound(HandleUnmap(s, v)) /\ SeatStep(s, HandleUnmap(s, v))
         /\ HandleUnmap(s, v).mapped = s.mapped \ {v}
<1>1. s \in Server /\ Consistent(s) /\ FocusSound(s)
  BY DEF ServerSound
<1>2. v \notin s.mapped =>
        ServerSound(HandleMap(s, v)) /\ SeatStep(s, HandleMap(s, v))
  BY <1>1, HandleMapType, HandleMapKeeps, HandleMapSeat DEF Keeps, ServerSound
<1>3. ServerSound(HandleUnmap(s, v)) /\ SeatStep(s, HandleUnmap(s, v))
  BY <1>1, HandleUnmapType, HandleUnmapKeeps, HandleUnmapSeat DEF Keeps, ServerSound
<1>4. HandleMap(s, v).mapped = s.mapped \cup {v}
  <2> DEFINE t == [s EXCEPT !.mapped = @ \cup {v},
                            !.workspace[v] = s.current_workspace,
                            !.views = <<v>> \o @]
             u == UpdateVisibility(t, v)
  <2>1. t \in Server /\ t.mapped = s.mapped \cup {v}
    BY <1>1, ToFront DEF Server
  <2>2. HandleMap(s, v) = Focus(u, v)
    BY DEF HandleMap
  <2> HIDE DEF t
  <2>3. u \in Server
    BY <2>1, UpdateVisibilityType
  <2>4. u.mapped = t.mapped
    BY <2>1 DEF UpdateVisibility, Server
  <2> HIDE DEF u
  <2>5. QED BY <2>1, <2>2, <2>3, <2>4, FocusRefocus DEF Refocus, PlacesKept
<1>5. HandleUnmap(s, v).mapped = s.mapped \ {v}
  <2> DEFINE t == [s EXCEPT !.focused_surface = IF @ = v THEN NoSurface ELSE @,
                            !.activated = @ \ {v},
                            !.mapped = @ \ {v},
                            !.views = RemoveFirst(@, v),
                            !.shown = @ \ {v}]
  <2>1. t \in Server /\ t.mapped = s.mapped \ {v}
    <3>1. RemoveFirst(s.views, v) \in Seq(Views)
      BY <1>1, RemoveFirstProperties DEF Server
    <3>2. QED BY <1>1, <3>1 DEF Server, Surfaces
  <2>2. HandleUnmap(s, v) = FocusNext(t, v)
    BY DEF HandleUnmap
  <2> HIDE DEF t
  <2>3. QED BY <2>1, <2>2, FocusNextRefocus DEF Refocus, PlacesKept
<1>6. QED BY <1>2, <1>3, <1>4, <1>5

(* One step per action of a client.                                        *)
LEMMA ClientFine ==
  ASSUME BordersInv, ClientNext, DrawnInv'
  PROVE  BordersInv'
<1>0. /\ win \in [Views -> Window] /\ ServerSound(srv)
      /\ StagesFit(srv, win) /\ BordersFit(srv, win)
  BY DEF BordersInv, DrawnInv, AllDrawn
<1>1. PICK v \in Views :
         \/ NewToplevel(v) \/ NewDecoration(v) \/ DecorationDestroyed(v)
         \/ InitialCommit(v) \/ Commit(v) \/ Map(v) \/ Unmap(v) \/ Destroy(v)
         \/ SetTitle(v) \/ RequestMinimize(v)
         \/ \E full \in BOOLEAN : InitialConfigure(v, full) \/ RequestState(v, full)
  BY DEF ClientNext
<1> DEFINE d == win[v]
<1>2. d \in Window /\ Focused(v) \in BOOLEAN
  BY <1>0 DEF Focused
<1>3. /\ Focused(v) => d.stage = "mapped" /\ BordersFine(d)
      /\ d.stage = "mapped" <=> v \in srv.mapped
  BY <1>0 DEF ServerSound, FocusSound, UsableExcept, Focused, StagesFit, BordersFit
<1>4. CASE NewToplevel(v)
  <2>1. [Blank EXCEPT !.stage = "new"].stage = "new"
    BY DEF Blank
  <2>2. QED BY <1>3, <1>4, <2>1, BecomesFine DEF NewToplevel, At
<1>5. CASE NewDecoration(v)
  <2>1. [d EXCEPT !.pending = TRUE].stage = d.stage
    BY <1>2 DEF Window
  <2>2. ~Focused(v)
    BY <1>3, <1>5 DEF NewDecoration, At
  <2>3. QED BY <1>5, <2>1, <2>2, BecomesFine DEF NewDecoration
<1>6. CASE DecorationDestroyed(v)
  <2>1. /\ [d EXCEPT !.pending = FALSE].stage = d.stage
        /\ BordersFine(d) => BordersFine([d EXCEPT !.pending = FALSE])
    BY <1>2 DEF Window, BordersFine
  <2>2. QED BY <1>3, <1>6, <2>1, BecomesFine DEF DecorationDestroyed
<1>7. CASE InitialCommit(v)
  <2>1. [d EXCEPT !.stage = "committed"].stage = "committed"
    BY <1>2 DEF Window
  <2>2. QED BY <1>3, <1>7, <2>1, BecomesFine DEF InitialCommit, At
<1>8. ASSUME NEW full \in BOOLEAN, InitialConfigure(v, full)
      PROVE  BordersInv'
  <2> DEFINE e == [ApplyPendingDeco(d, Focused(v)) EXCEPT !.stage = "configured"]
  <2>1. e \in Window /\ e.stage = "configured"
    BY <1>2, PendingStage DEF Window, Stages
  <2>2. /\ Becomes(v, IF full THEN ApplyState(e, TRUE) ELSE e) /\ UNCHANGED srv
        /\ d.stage = "committed"
    BY <1>8 DEF InitialConfigure, At
  <2> HIDE DEF e
  <2>3. ApplyState(e, TRUE).stage = "configured"
    BY <2>1, ApplyStateFine
  <2>4. QED BY <1>3, <2>1, <2>2, <2>3, BecomesFine
<1>9. CASE Commit(v)
  BY <1>2, <1>9, CommittedFine, BecomesFine DEF Commit
<1>10. CASE Map(v)
  <2> DEFINE t        == HandleMap(srv, v)
             answered == [win EXCEPT ![v] = [@ EXCEPT !.stage = "mapped",
                                               !.fresh = FALSE, !.asked = FALSE]]
             w        == Repainted(answered, srv, t)
             focused  == t.focused_surface = v
             p        == DecoUpdate(ApplyPendingDeco(w[v], focused), focused)
  <2>0. v \notin srv.mapped /\ ~Focused(v)
    BY <1>3, <1>10 DEF Map, At
  <2>1. /\ ServerSound(t) /\ t.mapped = srv.mapped \cup {v}
        /\ t.focused_surface \in {srv.focused_surface, NoSurface} \cup Views
    BY <1>0, <2>0, MappedSteps DEF SeatStep
  <2>2. /\ answered \in [Views -> Window] /\ answered[v].stage = "mapped"
        /\ \A u \in Views \ {v} : answered[u] = win[u]
    <3>1. [win[v] EXCEPT !.stage = "mapped", !.fresh = FALSE, !.asked = FALSE]
            \in {a \in Window : a.stage = "mapped"}
      BY <1>2 DEF Window, Stages
    <3>2. QED BY <1>0, <3>1
  <2>3. srv' = t /\ win' = [w EXCEPT ![v] = p]
    <3>1. win' = [w EXCEPT ![v] = DecoUpdate(ApplyPendingDeco(@, focused), focused)]
      BY <1>10 DEF Map
    <3>2. QED BY <1>10, <3>1 DEF Map
  <2> HIDE DEF t, answered
  <2>4. BordersFit(srv, answered)
    BY <1>0, <2>0, <2>2 DEF BordersFit, Focused
  <2>5. /\ BordersFit(t, w)
        /\ \A u \in Views : w[u].stage = answered[u].stage
    BY <2>1, <2>2, <2>4, RepaintedFine
  <2>6. w \in [Views -> Window]
    BY <2>2, RepaintedTyped
  <2> HIDE DEF w
  <2>7. focused \in BOOLEAN /\ w[v] \in Window
    BY <2>6
  <2>8. (focused => BordersFine(p)) /\ p.stage = w[v].stage
    BY <2>7, CommittedFine
  <2> HIDE DEF p
  <2>9. BordersFit(t, win')
    BY <2>3, <2>5, <2>6, <2>8 DEF BordersFit
  <2>10. StagesFit(t, win')
    BY <1>0, <2>1, <2>2, <2>3, <2>5, <2>6, <2>8 DEF StagesFit
  <2>11. QED BY <2>1, <2>3, <2>9, <2>10 DEF BordersInv
<1>11. CASE Unmap(v)
  <2> DEFINE t == HandleUnmap(srv, v)
             w == Repainted(win, srv, t)
  <2>1. /\ ServerSound(t) /\ t.mapped = srv.mapped \ {v}
        /\ t.focused_surface \in {srv.focused_surface, NoSurface} \cup Views
    BY <1>0, MappedSteps DEF SeatStep
  <2>2. t.focused_surface # v
    BY <2>1 DEF ServerSound, FocusSound, UsableExcept
  <2>3. srv' = t /\ win' = [w EXCEPT ![v].stage = "new", ![v].asked = FALSE]
    BY <1>11 DEF Unmap
  <2> HIDE DEF t
  <2>4. BordersFit(t, w) /\ \A u \in Views : w[u].stage = win[u].stage
    BY <1>0, <2>1, RepaintedFine
  <2>5. w \in [Views -> Window]
    BY <1>0, RepaintedTyped
  <2> HIDE DEF w
  <2>6. /\ \A u \in Views \ {v} : win'[u] = w[u]
        /\ win'[v].stage = "new"
    <3>1. w[v] \in Window
      BY <2>5
    <3>2. win'[v] = [w[v] EXCEPT !.stage = "new", !.asked = FALSE]
      BY <2>3, <2>5
    <3>3. win'[v].stage = "new"
      BY <3>1, <3>2 DEF Window
    <3>4. QED BY <2>3, <2>5, <3>3
  <2>7. BordersFit(t, win') /\ StagesFit(t, win')
    BY <1>0, <2>1, <2>2, <2>4, <2>6 DEF BordersFit, StagesFit
  <2>8. QED BY <2>1, <2>3, <2>7 DEF BordersInv
<1>12. CASE Destroy(v)
  <2> DEFINE t == HandleDestroy(srv, v)
  <2>0. v \notin srv.mapped /\ ~Focused(v)
    BY <1>3, <1>12 DEF Destroy
  <2>1. ServerSound(t)
    BY <1>0, <2>0, HandleDestroyType, HandleDestroyKeeps DEF Keeps, ServerSound
  <2>2. t.mapped = srv.mapped /\ t.focused_surface = srv.focused_surface
    BY <1>0 DEF HandleDestroy, Server, ServerSound
  <2>3. srv' = t /\ win' = [win EXCEPT ![v] = Blank]
    BY <1>12 DEF Destroy, Becomes
  <2> HIDE DEF t
  <2>4. Blank.stage = "gone"
    BY DEF Blank
  <2>5. BordersFit(t, win') /\ StagesFit(t, win')
    BY <1>0, <2>0, <2>2, <2>3, <2>4 DEF BordersFit, StagesFit, Focused
  <2>6. QED BY <2>1, <2>3, <2>5 DEF BordersInv
<1>13. CASE SetTitle(v)
  <2>1. /\ DecoUpdate(d, Focused(v)).stage = d.stage
        /\ Focused(v) => BordersFine(DecoUpdate(d, Focused(v)))
    BY <1>2, PaintFine
  <2>2. QED BY <1>13, <2>1, BecomesFine DEF SetTitle
<1>14. CASE RequestMinimize(v)
  BY <1>0, <1>14, ServerSteps, StepFine DEF RequestMinimize, SeatStep, ServerSound
<1>15. ASSUME NEW full \in BOOLEAN, RequestState(v, full)
       PROVE  BordersInv'
  BY <1>2, <1>3, <1>15, ApplyStateFine, BecomesFine DEF RequestState
<1>16. QED BY <1>1, <1>4, <1>5, <1>6, <1>7, <1>8, <1>9, <1>10, <1>11, <1>12, <1>13,
              <1>14, <1>15

(* One step per action of the user and of the locker.                      *)
LEMMA UserFine ==
  ASSUME BordersInv, UserNext, DrawnInv'
  PROVE  BordersInv'
<1>0. /\ win \in [Views -> Window] /\ ServerSound(srv)
      /\ StagesFit(srv, win) /\ BordersFit(srv, win)
  BY DEF BordersInv, DrawnInv, AllDrawn
<1>1. ASSUME NEW v \in Views, Activated(v)
      PROVE  BordersInv'
  BY <1>0, <1>1, ServerSteps, StepFine DEF Activated, SeatStep, ServerSound
<1>2. ASSUME NEW v, UpdateHover(v)
      PROVE  BordersInv'
  BY <1>2 DEF UpdateHover, BordersInv
<1>3. CASE Reconfigure
  <2>1. srv' = srv /\ win' = [v \in Views |->
               IF v \in srv.mapped
                 THEN DecoSetFocus(DecoUpdate(win[v], Focused(v)), Focused(v))
                 ELSE win[v]]
    BY <1>3 DEF Reconfigure
  <2>2. ASSUME NEW v \in Views
        PROVE  /\ win'[v].stage = win[v].stage
               /\ Focused(v) => BordersFine(win'[v])
    <3> DEFINE e == DecoUpdate(win[v], Focused(v))
    <3>1. Focused(v) \in BOOLEAN /\ win[v] \in Window
      BY <1>0 DEF Focused
    <3>2. /\ e \in Window /\ e.stage = win[v].stage
          /\ Focused(v) => BordersFine(e)
      BY <3>1, PaintFine
    <3>3. win'[v] \in {DecoSetFocus(e, Focused(v)), win[v]}
      BY <2>1
    <3> HIDE DEF e
    <3>4. /\ DecoSetFocus(e, Focused(v)).stage = e.stage
          /\ BordersFine(e) => BordersFine(DecoSetFocus(e, Focused(v)))
      BY <3>2 DEF DecoSetFocus, BordersFine, Window
    <3>5. Focused(v) => BordersFine(win[v])
      BY <1>0 DEF BordersFit, Focused
    <3>6. QED BY <3>2, <3>3, <3>4, <3>5
  <2>3. BordersFit(srv, win') /\ StagesFit(srv, win')
    BY <1>0, <2>2 DEF BordersFit, StagesFit, Focused
  <2>4. QED BY <1>0, <2>1, <2>3 DEF BordersInv
<1>4. CASE Lock
  <2> DEFINE t == [srv EXCEPT !.locked = TRUE, !.focused_surface = NoSurface]
  <2>1. /\ t \in Server /\ t.mapped = srv.mapped /\ t.views = srv.views
        /\ t.workspace = srv.workspace /\ t.pinned = srv.pinned
        /\ t.minimized = srv.minimized /\ t.shown = srv.shown
        /\ t.current_workspace = srv.current_workspace
        /\ t.max_visible_workspace = srv.max_visible_workspace
        /\ t.focused_surface = NoSurface /\ t.keyboard = srv.keyboard
    BY <1>0 DEF Server, Surfaces, ServerSound
  <2>2. Step(t)
    BY <1>4 DEF Lock
  <2> HIDE DEF t
  <2>3. Consistent(t)
    BY <1>0, <2>1, SameConsistent DEF ServerSound, Consistent
  <2>4. FocusSound(t)
    BY <1>0, <2>1, WindowsAssumption
       DEF ServerSound, FocusSound, SeatSound, UsableExcept
  <2>5. QED BY <2>1, <2>2, <2>3, <2>4, StepFine DEF ServerSound
<1>5. CASE Unlock
  <2> DEFINE t == [srv EXCEPT !.locked = FALSE]
             u == FocusNext(t, NoSurface)
  <2>1. /\ t \in Server /\ t.mapped = srv.mapped /\ t.views = srv.views
        /\ t.workspace = srv.workspace /\ t.pinned = srv.pinned
        /\ t.minimized = srv.minimized /\ t.shown = srv.shown
        /\ t.current_workspace = srv.current_workspace
        /\ t.max_visible_workspace = srv.max_visible_workspace
        /\ t.focused_surface = srv.focused_surface /\ t.keyboard = srv.keyboard
        /\ t.focused_layer = srv.focused_layer /\ t.activated = srv.activated
        /\ t.urgent = srv.urgent /\ t.locked = FALSE
    BY <1>0 DEF Server, ServerSound
  <2> HIDE DEF t
  <2>2. Consistent(t)
    BY <1>0, <2>1, SameConsistent DEF ServerSound, Consistent
  <2>3. SeatSound(t) /\ UsableExcept(t, {NoSurface})
    BY <1>0, <2>1 DEF ServerSound, FocusSound, SeatSound, UsableExcept
  <2>4. u \in Server /\ Consistent(u) /\ FocusSound(u)
    <3>1. Keeps(srv, u)
      BY <2>1, <2>2, <2>3, FocusNextKeeps
    <3>2. QED BY <1>0, <2>1, <3>1, FocusNextType DEF Keeps, ServerSound
  <2>5. SeatStep(t, u) /\ u.mapped = t.mapped
    BY <2>1, FocusNextSeat, FocusNextRefocus DEF Refocus, PlacesKept
  <2>6. Step(u)
    BY <1>5 DEF Unlock, t
  <2> HIDE DEF u
  <2>7. u.focused_surface \in {srv.focused_surface, NoSurface} \cup Views
    BY <2>1, <2>5 DEF SeatStep
  <2>8. QED BY <2>1, <2>4, <2>5, <2>6, <2>7, StepFine DEF ServerSound
<1>6. QED BY <1>1, <1>2, <1>3, <1>4, <1>5 DEF UserNext

(* In every order of commits, requests, reloads, locks and focus changes   *)
(* the title bar of the window with the keyboard is painted as focused,    *)
(* and while its borders are not, its client owes the commit that will     *)
(* paint them.                                                             *)
THEOREM FocusStaysDrawn == Spec => []FocusDrawn
<1>1. Init => DrawnInv
  BY InitDrawn
<1>2. Init => BordersInv
  <2>1. ASSUME Init
        PROVE  BordersInv
    <3>1. ServerSound(srv)
      BY <2>1, InitServerType, InitConsistent DEF Init, ServerSound
    <3>2. srv.mapped = {} /\ srv.focused_surface \notin Views
      BY <2>1, WindowsAssumption DEF Init, InitServer
    <3>3. \A v \in Views : win[v].stage = "gone"
      BY <2>1 DEF Init, Blank
    <3>4. QED BY <1>1, <2>1, <3>1, <3>2, <3>3 DEF BordersInv, StagesFit, BordersFit
  <2>2. QED BY <2>1
<1>3. BordersInv /\ [Next]_vars => BordersInv'
  <2>1. ASSUME BordersInv, UNCHANGED vars
        PROVE  BordersInv'
    BY <2>1 DEF vars, BordersInv, DrawnInv
  <2>2. BordersInv /\ Next => DrawnInv'
    BY DrawnKept DEF BordersInv
  <2>3. QED BY <2>1, <2>2, ClientFine, UserFine DEF Next
<1>4. BordersInv => FocusDrawn
  <2>1. BordersInv => TitleDrawn
    BY DEF BordersInv, DrawnInv, AllDrawn, DrawnRight, TitleDrawn, Focused
  <2>2. BordersInv => BordersAsked
    BY DEF BordersInv, BordersFit, BordersFine, BordersAsked, Focused
  <2>3. QED BY <2>1, <2>2 DEF FocusDrawn
<1>5. QED BY <1>2, <1>3, <1>4, PTL DEF Spec
=============================================================================
