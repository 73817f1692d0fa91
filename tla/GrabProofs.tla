----------------------------- MODULE GrabProofs -----------------------------
(***************************************************************************)
(* The grab of the pointer and the geometry a window returns to, for any   *)
(* number of windows, positions, sizes and snap edges.                     *)
(***************************************************************************)
EXTENDS Grab, TLAPS

(* A view as the operators of view.cc keep it: no snap edge beside another *)
(* state, and a position to return to.                                     *)
Sound(w) ==
  /\ w \in Window
  /\ w.snapped # "none" => ~w.maximized /\ ~w.fullscreen
  /\ IF Special(w) THEN w.saved_pos \in Points ELSE w.pos \in Points

(* What an operator leaves of the life of a view.                          *)
SameStage(w, x) == x.stage = w.stage

GrabInv ==
  /\ \A v \in Views : Sound(win[v])
  /\ TypeOK
  /\ GrabLive

(* No name of a zone or of an extent is confused with "none".              *)
LEMMA Names ==
  /\ "none" \notin SnapEdges
  /\ "own" \in Extents
  /\ {"work area", "output"} \cup SnapEdges \subseteq Zones
  BY GrabAssumption DEF Zones, Extents

(* A new view is sound.                                                    *)
LEMMA BlankSound ==
  ASSUME NEW p \in Points
  PROVE  Sound(Blank(p))
  BY Names DEF Sound, Blank, Window, Special, Stages, Extents

(* Where the geometry is saved, a position to return to is known; nothing  *)
(* else of the view changes.                                               *)
LEMMA SaveSound ==
  ASSUME NEW w, Sound(w)
  PROVE  /\ SaveGeometry(w) \in Window
         /\ SaveGeometry(w).saved_pos \in Points
         /\ SaveGeometry(w).stage = w.stage
         /\ Special(SaveGeometry(w)) = Special(w)
         /\ SaveGeometry(w).pos = w.pos
<1>1. CASE Special(w)
  BY <1>1 DEF SaveGeometry, Sound
<1>2. CASE ~ Special(w)
  <2>1. SaveGeometry(w) = [w EXCEPT !.saved_pos = w.pos, !.saved_size = w.size]
    BY <1>2 DEF SaveGeometry
  <2>2. QED BY <1>2, <2>1 DEF Sound, Window, Special
<1>3. QED BY <1>1, <1>2

(* A restored view floats at a point once its state is cleared.            *)
LEMMA RestoreSound ==
  ASSUME NEW w, Sound(w)
  PROVE  /\ RestoreGeometry(w) \in Window
         /\ RestoreGeometry(w).pos \in Points
         /\ RestoreGeometry(w).stage = w.stage
<1>1. CASE Special(w)
  <2>1. RestoreGeometry(w) = [w EXCEPT !.pos = w.saved_pos, !.asked = w.saved_size]
    BY <1>1 DEF RestoreGeometry
  <2>2. QED BY <1>1, <2>1 DEF Sound, Window
<1>2. CASE ~ Special(w)
  BY <1>2 DEF RestoreGeometry, Sound
<1>3. QED BY <1>1, <1>2

(* A view that fills a zone keeps the position it returns to.              *)
LEMMA FillSound ==
  ASSUME NEW w \in Window, NEW zone \in Zones
  PROVE  /\ Fill(w, zone) \in Window
         /\ Fill(w, zone).saved_pos = w.saved_pos
         /\ Fill(w, zone).stage = w.stage
  BY DEF Fill, Window, Extents

(* apply_state keeps a view sound, in whatever state it finds it.          *)
LEMMA ApplyStateSound ==
  ASSUME NEW w, Sound(w), NEW max \in BOOLEAN, NEW full \in BOOLEAN
  PROVE  Sound(ApplyState(w, max, full)) /\ SameStage(w, ApplyState(w, max, full))
<1> DEFINE zone  == IF full THEN "output" ELSE "work area"
           moved == IF max \/ full THEN Fill(SaveGeometry(w), zone)
                                   ELSE RestoreGeometry(w)
           after == [moved EXCEPT !.maximized = max, !.fullscreen = full,
                                  !.snapped = "none"]
<1>1. CASE ~ Initialized(w)
  BY <1>1 DEF ApplyState, SameStage
<1>2. CASE Initialized(w)
  <2>1. ApplyState(w, max, full) = after
    BY <1>2 DEF ApplyState
  <2>2. /\ moved \in Window /\ moved.stage = w.stage
        /\ max \/ full => moved.saved_pos \in Points
        /\ ~ (max \/ full) => moved.pos \in Points
    <3>1. zone \in Zones
      BY Names
    <3>2. QED BY <3>1, SaveSound, FillSound, RestoreSound
  <2> HIDE DEF moved
  <2>3. /\ after \in Window /\ after.stage = moved.stage
        /\ after.maximized = max /\ after.fullscreen = full
        /\ after.snapped = "none"
        /\ after.pos = moved.pos /\ after.saved_pos = moved.saved_pos
    BY <2>2 DEF Window
  <2> HIDE DEF after
  <2>4. QED BY <2>1, <2>2, <2>3 DEF Sound, Special, SameStage
<1>3. QED BY <1>1, <1>2

(* So does snap_to, whether it finds an output or not.                     *)
LEMMA SnapToSound ==
  ASSUME NEW w, Sound(w), NEW edge \in SnapEdges, NEW placed \in BOOLEAN
  PROVE  Sound(SnapTo(w, edge, placed)) /\ SameStage(w, SnapTo(w, edge, placed))
<1>1. CASE ~ Initialized(w)
  BY <1>1 DEF SnapTo, SameStage
<1>2. CASE Initialized(w) /\ ~placed
  <2>1. SnapTo(w, edge, placed) = SaveGeometry(w)
    BY <1>2 DEF SnapTo
  <2>2. CASE Special(w)
    BY <2>1, <2>2 DEF SaveGeometry, SameStage
  <2>3. CASE ~ Special(w)
    <3>1. SaveGeometry(w) = [w EXCEPT !.saved_pos = w.pos, !.saved_size = w.size]
      BY <2>3 DEF SaveGeometry
    <3>2. /\ SaveGeometry(w).snapped = w.snapped
          /\ SaveGeometry(w).maximized = w.maximized
          /\ SaveGeometry(w).fullscreen = w.fullscreen
      BY <3>1 DEF Sound, Window
    <3>3. QED BY <2>1, <2>3, <3>2, SaveSound DEF Sound, Special, SameStage
  <2>4. QED BY <2>2, <2>3
<1>3. CASE Initialized(w) /\ placed
  <2> DEFINE moved == Fill(SaveGeometry(w), edge)
             after == [moved EXCEPT !.maximized = FALSE, !.fullscreen = FALSE,
                                    !.snapped = edge]
  <2>1. SnapTo(w, edge, placed) = after
    BY <1>3 DEF SnapTo
  <2>2. moved \in Window /\ moved.stage = w.stage /\ moved.saved_pos \in Points
    <3>1. edge \in Zones
      BY Names
    <3>2. QED BY <3>1, SaveSound, FillSound
  <2> HIDE DEF moved
  <2>3. /\ after \in Window /\ after.stage = moved.stage
        /\ ~ after.maximized /\ ~ after.fullscreen /\ after.snapped = edge
        /\ after.saved_pos = moved.saved_pos
    BY <2>2 DEF Window
  <2> HIDE DEF after
  <2>4. QED BY <2>1, <2>2, <2>3, Names DEF Sound, Special, SameStage
<1>4. QED BY <1>1, <1>2, <1>3

(* And the way out of a snap.                                              *)
LEMMA UnsnapSound ==
  ASSUME NEW w, Sound(w)
  PROVE  Sound(Unsnap(w)) /\ SameStage(w, Unsnap(w))
<1>1. CASE ~ Initialized(w)
  BY <1>1 DEF Unsnap, SameStage
<1>2. CASE Initialized(w)
  <2> DEFINE moved == RestoreGeometry(w)
             after == [moved EXCEPT !.maximized = FALSE, !.fullscreen = FALSE,
                                    !.snapped = "none"]
  <2>1. Unsnap(w) = after
    BY <1>2 DEF Unsnap
  <2>2. moved \in Window /\ moved.stage = w.stage /\ moved.pos \in Points
    BY RestoreSound
  <2> HIDE DEF moved
  <2>3. /\ after \in Window /\ after.stage = moved.stage
        /\ ~ after.maximized /\ ~ after.fullscreen /\ after.snapped = "none"
        /\ after.pos = moved.pos
    BY <2>2 DEF Window
  <2> HIDE DEF after
  <2>4. QED BY <2>1, <2>2, <2>3 DEF Sound, Special, SameStage
<1>3. QED BY <1>1, <1>2

(* A view put at a point stays sound.                                      *)
LEMMA MovedSound ==
  ASSUME NEW w, Sound(w), NEW p \in Points
  PROVE  Sound([w EXCEPT !.pos = p]) /\ SameStage(w, [w EXCEPT !.pos = p])
<1> DEFINE x == [w EXCEPT !.pos = p]
<1>1. /\ x \in Window /\ x.pos = p /\ x.stage = w.stage
      /\ x.maximized = w.maximized /\ x.fullscreen = w.fullscreen
      /\ x.snapped = w.snapped /\ x.saved_pos = w.saved_pos
  BY DEF Sound, Window
<1> HIDE DEF x
<1>2. Sound(x) /\ SameStage(w, x)
  BY <1>1 DEF Sound, Special, SameStage
<1>3. QED BY <1>2 DEF x

(* The start of a drag of a window that fills something.                   *)
LEMMA UnmaximizeSound ==
  ASSUME NEW w, Sound(w), NEW p \in Points
  PROVE  /\ Sound(UnmaximizeToCursor(w, p))
         /\ SameStage(w, UnmaximizeToCursor(w, p))
<1>1. CASE ~ Special(w)
  BY <1>1 DEF UnmaximizeToCursor, SameStage
<1>2. CASE Special(w)
  <2> DEFINE x == IF w.snapped # "none" THEN Unsnap(w) ELSE ApplyState(w, FALSE, FALSE)
  <2>1. UnmaximizeToCursor(w, p) = [x EXCEPT !.pos = p]
    BY <1>2 DEF UnmaximizeToCursor
  <2>2. Sound(x) /\ SameStage(w, x)
    BY UnsnapSound, ApplyStateSound
  <2> HIDE DEF x
  <2>3. QED BY <2>1, <2>2, MovedSound DEF SameStage
<1>3. QED BY <1>1, <1>2

(* The double click, the drop at the top and the maximize action.          *)
LEMMA ToggleSound ==
  ASSUME NEW w, Sound(w)
  PROVE  Sound(ToggleMaximize(w)) /\ SameStage(w, ToggleMaximize(w))
<1>1. w.maximized \in BOOLEAN /\ w.fullscreen \in BOOLEAN
  BY DEF Sound, Window
<1>2. (~ w.maximized) \in BOOLEAN
  OBVIOUS
<1>3. QED BY <1>1, <1>2, ApplyStateSound DEF ToggleMaximize

(* What a step that changes one view has to show of it.                    *)
LEMMA BecomesSound ==
  ASSUME GrabInv, NEW v \in Views, NEW w, Sound(w), Becomes(v, w)
  PROVE  /\ win' \in [Views -> Window]
         /\ \A u \in Views : Sound(win'[u])
         /\ win'[v] = w
         /\ \A u \in Views : u # v => win'[u] = win[u]
  BY DEF GrabInv, TypeOK, Becomes, Sound

(* A view whose stage stays keeps the grab and the last click live.        *)
LEMMA StateStep ==
  ASSUME GrabInv, NEW v \in Views, NEW w, Sound(w), SameStage(win[v], w),
         Becomes(v, w), UNCHANGED <<grabVars, last_click>>, spot' \in Spots,
         locked' \in BOOLEAN
  PROVE  GrabInv'
<1>1. /\ win' \in [Views -> Window]
      /\ \A u \in Views : Sound(win'[u])
      /\ \A u \in Views : win'[u].stage = win[u].stage
  BY BecomesSound DEF SameStage
<1>2. UNCHANGED <<mode, grabbed, pending, last_click>>
  BY DEF grabVars
<1>3. TypeOK'
  BY <1>1, <1>2 DEF GrabInv, TypeOK
<1>4. GrabLive'
  BY <1>1, <1>2 DEF GrabInv, TypeOK, GrabLive
<1>5. QED BY <1>1, <1>3, <1>4 DEF GrabInv

(* A state that a client, a panel, a key or a button asks for.             *)
LEMMA StateNextStep ==
  ASSUME GrabInv, StateNext
  PROVE  GrabInv'
<1> PICK v \in Views :
      \/ \E on \in BOOLEAN :
           \/ RequestMaximized(v, on) \/ RequestFullscreen(v, on)
           \/ ForeignMaximize(v, on) \/ ForeignFullscreen(v, on)
      \/ UserMaximize(v) \/ ActionFullscreen(v)
      \/ \E edge \in SnapEdges : ActionSnap(v, edge)
  BY DEF StateNext
<1> DEFINE w0 == win[v]
<1>1. /\ Sound(w0) /\ w0.maximized \in BOOLEAN /\ w0.fullscreen \in BOOLEAN
      /\ spot \in Spots /\ locked \in BOOLEAN
  BY DEF GrabInv, TypeOK, Sound, Window
<1>2. ASSUME NEW b \in BOOLEAN
      PROVE  /\ Sound([w0 EXCEPT !.wants_max = b])
             /\ SameStage(w0, [w0 EXCEPT !.wants_max = b])
             /\ [w0 EXCEPT !.wants_max = b].fullscreen = w0.fullscreen
  BY <1>1 DEF Sound, Special, Window, SameStage
<1>3. ASSUME NEW b \in BOOLEAN
      PROVE  /\ Sound([w0 EXCEPT !.wants_full = b])
             /\ SameStage(w0, [w0 EXCEPT !.wants_full = b])
             /\ [w0 EXCEPT !.wants_full = b].maximized = w0.maximized
  BY <1>1 DEF Sound, Special, Window, SameStage
<1>4. /\ UNCHANGED <<grabVars, last_click>> /\ spot' \in Spots
      /\ locked' \in BOOLEAN
  BY <1>1 DEF RequestMaximized, RequestFullscreen, ForeignMaximize,
              ForeignFullscreen, UserMaximize, ActionFullscreen, ActionSnap
<1>5. ASSUME NEW on \in BOOLEAN, RequestMaximized(v, on)
      PROVE  GrabInv'
  <2> DEFINE b == IF Unconfigured(v) THEN on ELSE w0.wants_max
             w1 == [w0 EXCEPT !.wants_max = b]
             w2 == ApplyState(w1, on, w1.fullscreen)
  <2>1. b \in BOOLEAN
    BY <1>1 DEF Sound, Window
  <2>2. Becomes(v, w2)
    BY <1>5 DEF RequestMaximized
  <2>3. Sound(w1) /\ SameStage(w0, w1) /\ w1.fullscreen \in BOOLEAN
    BY <1>1, <1>2, <2>1
  <2> HIDE DEF w1
  <2>4. Sound(w2) /\ SameStage(w0, w2)
    BY <2>3, ApplyStateSound DEF SameStage
  <2>5. QED BY <1>4, <2>2, <2>4, StateStep
<1>6. ASSUME NEW on \in BOOLEAN, RequestFullscreen(v, on)
      PROVE  GrabInv'
  <2> DEFINE b == IF Unconfigured(v) THEN on ELSE w0.wants_full
             w1 == [w0 EXCEPT !.wants_full = b]
             w2 == ApplyState(w1, w1.maximized, on)
  <2>1. b \in BOOLEAN
    BY <1>1 DEF Sound, Window
  <2>2. Becomes(v, w2)
    BY <1>6 DEF RequestFullscreen
  <2>3. Sound(w1) /\ SameStage(w0, w1) /\ w1.maximized \in BOOLEAN
    BY <1>1, <1>3, <2>1
  <2> HIDE DEF w1
  <2>4. Sound(w2) /\ SameStage(w0, w2)
    BY <2>3, ApplyStateSound DEF SameStage
  <2>5. QED BY <1>4, <2>2, <2>4, StateStep
<1>7. ASSUME NEW on \in BOOLEAN, ForeignMaximize(v, on) \/ ForeignFullscreen(v, on)
      PROVE  GrabInv'
  BY <1>1, <1>4, <1>7, ApplyStateSound, StateStep
     DEF ForeignMaximize, ForeignFullscreen
<1>8. CASE UserMaximize(v)
  BY <1>1, <1>4, <1>8, ToggleSound, StateStep DEF UserMaximize
<1>9. CASE ActionFullscreen(v)
  <2>1. (~ w0.fullscreen) \in BOOLEAN
    OBVIOUS
  <2>2. Sound(ApplyState(w0, w0.maximized, ~ w0.fullscreen))
        /\ SameStage(w0, ApplyState(w0, w0.maximized, ~ w0.fullscreen))
    BY <1>1, <2>1, ApplyStateSound
  <2>3. QED BY <1>4, <1>9, <2>2, StateStep DEF ActionFullscreen
<1>10. ASSUME NEW edge \in SnapEdges, ActionSnap(v, edge)
       PROVE  GrabInv'
  <2>1. PICK w \in Snapped(w0, edge) : Becomes(v, w)
    BY <1>10 DEF ActionSnap
  <2>2. Sound(w) /\ SameStage(w0, w)
    BY <1>1, SnapToSound DEF Snapped
  <2>3. QED BY <1>4, <2>1, <2>2, StateStep
<1>11. QED BY <1>5, <1>6, <1>7, <1>8, <1>9, <1>10

(* A view that changes only its life or its sizes stays sound.             *)
LEMMA LifeSound ==
  ASSUME NEW w, Sound(w), NEW stage \in Stages, NEW size \in Extents,
         NEW asked \in Extents \cup {"none"}
  PROVE  Sound([w EXCEPT !.stage = stage, !.size = size, !.asked = asked])
<1> DEFINE x == [w EXCEPT !.stage = stage, !.size = size, !.asked = asked]
<1>1. /\ x \in Window
      /\ x.maximized = w.maximized /\ x.fullscreen = w.fullscreen
      /\ x.snapped = w.snapped /\ x.saved_pos = w.saved_pos /\ x.pos = w.pos
  BY DEF Sound, Window
<1> HIDE DEF x
<1>2. Sound(x)
  BY <1>1 DEF Sound, Special
<1>3. QED BY <1>2 DEF x

(* What the client commits is a size it may have.                          *)
LEMMA CommitsSound ==
  ASSUME NEW w, Sound(w), NEW x \in Commits(w)
  PROVE  Sound(x) /\ SameStage(w, x)
<1>1. PICK s \in IF w.asked \in Zones THEN {w.asked} ELSE Sizes :
        x = [w EXCEPT !.size = s, !.asked = "none"]
  BY DEF Commits
<1>2. s \in Extents
  BY <1>1 DEF Extents
<1>3. /\ x \in Window /\ x.stage = w.stage
      /\ x.maximized = w.maximized /\ x.fullscreen = w.fullscreen
      /\ x.snapped = w.snapped /\ x.saved_pos = w.saved_pos /\ x.pos = w.pos
  BY <1>1, <1>2 DEF Sound, Window
<1>4. QED BY <1>3 DEF Sound, Special, SameStage

(* A view that goes takes the grab and the remembered click with it.       *)
LEMMA GoneStep ==
  ASSUME GrabInv, NEW v \in Views, NEW w, Sound(w), Becomes(v, w),
         ForgetPointer(v), UNCHANGED <<spot, locked>>
  PROVE  GrabInv'
<1>1. /\ win' \in [Views -> Window]
      /\ \A u \in Views : Sound(win'[u])
      /\ \A u \in Views : u # v => win'[u] = win[u]
  BY BecomesSound
<1>2. /\ grabbed' # NoView => grabbed' = grabbed /\ grabbed # v
      /\ grabbed' = NoView <=> mode' = "passthrough"
      /\ pending' => mode' = "move"
      /\ mode' \in {"passthrough", "move", "resize"} /\ pending' \in BOOLEAN
      /\ grabbed' \in Views \cup {NoView}
  BY DEF ForgetPointer, GrabInv, GrabLive, TypeOK, grabVars
<1>3. /\ last_click' # NoView => last_click' = last_click /\ last_click # v
      /\ last_click' \in Views \cup {NoView}
  BY DEF ForgetPointer, GrabInv, TypeOK
<1>4. TypeOK'
  BY <1>1, <1>2, <1>3 DEF GrabInv, TypeOK
<1>5. GrabLive'
  BY <1>1, <1>2, <1>3 DEF GrabInv, TypeOK, GrabLive
<1>6. QED BY <1>1, <1>4, <1>5 DEF GrabInv

(* A view that comes has neither, and one that is mapped was configured.   *)
LEMMA ComingStep ==
  ASSUME GrabInv, NEW v \in Views, NEW w, Sound(w), Becomes(v, w),
         win[v].stage \in {"configured", "mapped"} =>
           w.stage \in {"configured", "mapped"},
         UNCHANGED <<grabVars, last_click, spot, locked>>
  PROVE  GrabInv'
<1>1. /\ win' \in [Views -> Window]
      /\ \A u \in Views : Sound(win'[u])
      /\ win'[v] = w
      /\ \A u \in Views : u # v => win'[u] = win[u]
  BY BecomesSound
<1>2. UNCHANGED <<mode, grabbed, pending, last_click, spot, locked>>
  BY DEF grabVars
<1>3. TypeOK'
  BY <1>1, <1>2 DEF GrabInv, TypeOK
<1>4. GrabLive'
  <2>1. \A u \in Views : win[u].stage \in {"configured", "mapped"} =>
                           win'[u].stage \in {"configured", "mapped"}
    BY <1>1
  <2>2. QED BY <1>2, <2>1 DEF GrabInv, TypeOK, GrabLive
<1>5. QED BY <1>1, <1>3, <1>4 DEF GrabInv

(* The life of a toplevel.                                                 *)
LEMMA LifeNextStep ==
  ASSUME GrabInv, LifeNext
  PROVE  GrabInv'
<1> PICK v \in Views :
      \/ NewToplevel(v) \/ InitialCommit(v) \/ InitialConfigure(v) \/ Map(v)
      \/ ClientCommit(v) \/ Unmap(v) \/ Destroy(v)
  BY DEF LifeNext
<1> DEFINE w0 == win[v]
<1>1. /\ Sound(w0) /\ w0 \in Window
      /\ w0.size \in Extents /\ w0.asked \in Extents \cup {"none"}
  BY DEF GrabInv, Sound, Window
<1>2. ASSUME NEW stage \in Stages
      PROVE  /\ Sound([w0 EXCEPT !.stage = stage])
             /\ [w0 EXCEPT !.stage = stage].stage = stage
  BY <1>1 DEF Sound, Special, Window
<1>3. CASE NewToplevel(v)
  <2>1. PICK p \in Points : Becomes(v, [Blank(p) EXCEPT !.stage = "new"])
    BY <1>3 DEF NewToplevel
  <2>2. Sound(Blank(p)) /\ Blank(p) \in Window
    BY BlankSound DEF Sound
  <2>3. Sound([Blank(p) EXCEPT !.stage = "new"])
    BY <2>2 DEF Sound, Special, Window, Stages
  <2>4. QED BY <1>3, <2>1, <2>3, ComingStep DEF NewToplevel, At
<1>4. CASE InitialCommit(v)
  <2>1. "committed" \in Stages
    BY DEF Stages
  <2>2. QED BY <1>2, <1>4, <2>1, ComingStep DEF InitialCommit, At
<1>5. CASE InitialConfigure(v)
  <2> DEFINE w1 == IF w0.wants_max \/ w0.wants_full
                     THEN ApplyState(w0, w0.wants_max, w0.wants_full)
                     ELSE [w0 EXCEPT !.asked = "own"]
             w2 == [w1 EXCEPT !.stage = "configured", !.wants_max = FALSE,
                              !.wants_full = FALSE]
  <2>1. Becomes(v, w2) /\ w0.stage = "committed"
    BY <1>5 DEF InitialConfigure, At
  <2>2. w0.wants_max \in BOOLEAN /\ w0.wants_full \in BOOLEAN
    BY <1>1 DEF Window
  <2>3. Sound([w0 EXCEPT !.asked = "own"])
    BY <1>1, Names DEF Sound, Special, Window
  <2>4. Sound(w1) /\ w1 \in Window
    BY <1>1, <2>2, <2>3, ApplyStateSound DEF Sound
  <2> HIDE DEF w1
  <2>5. Sound(w2)
    BY <2>4 DEF Sound, Special, Window, Stages
  <2>6. QED BY <1>5, <2>1, <2>5, ComingStep DEF InitialConfigure
<1>6. CASE Map(v)
  <2>1. PICK w \in Commits(w0), p \in Points :
          Becomes(v, Place([w EXCEPT !.stage = "mapped", !.fresh = FALSE], p))
    BY <1>6 DEF Map
  <2> DEFINE w1 == [w EXCEPT !.stage = "mapped", !.fresh = FALSE]
  <2>2. Sound(w) /\ w \in Window
    BY <1>1, CommitsSound DEF Sound
  <2>3. Sound(w1) /\ w1.stage = "mapped"
    BY <2>2 DEF Sound, Special, Window, Stages
  <2> HIDE DEF w1
  <2>4. Sound(Place(w1, p)) /\ Place(w1, p).stage = "mapped"
    BY <2>3, MovedSound DEF Place, SameStage
  <2>5. QED BY <1>6, <2>1, <2>4, ComingStep DEF Map, w1
<1>7. CASE ClientCommit(v)
  <2>1. PICK w \in Commits(w0) : Becomes(v, w)
    BY <1>7 DEF ClientCommit
  <2>2. Sound(w) /\ w.stage = w0.stage
    BY <1>1, CommitsSound DEF SameStage
  <2>3. QED BY <1>7, <2>1, <2>2, ComingStep DEF ClientCommit
<1>8. CASE Unmap(v)
  <2>1. Sound([w0 EXCEPT !.stage = "new", !.size = "own", !.asked = "none"])
    BY <1>1, LifeSound, Names DEF Stages
  <2>2. QED BY <1>8, <2>1, GoneStep DEF Unmap
<1>9. CASE Destroy(v)
  <2>1. PICK p \in Points : Becomes(v, Blank(p))
    BY <1>9 DEF Destroy
  <2>2. QED BY <1>9, <2>1, BlankSound, GoneStep DEF Destroy
<1>10. QED BY <1>3, <1>4, <1>5, <1>6, <1>7, <1>8, <1>9

(* A grab begins on a view that is there.                                  *)
LEMMA BeginStep ==
  ASSUME GrabInv, NEW v \in Views, NEW m \in {"move", "resize"}, Begin(v, m),
         win[v].stage \in {"configured", "mapped"},
         last_click' \in {v, last_click},
         UNCHANGED <<win, spot, locked>>
  PROVE  GrabInv'
<1>1. v # NoView
  BY GrabAssumption
<1>2. /\ mode' = m /\ grabbed' = v /\ pending' \in BOOLEAN
      /\ pending' => m = "move"
  BY DEF Begin
<1>3. TypeOK'
  BY <1>2 DEF GrabInv, TypeOK
<1>4. GrabLive'
  BY <1>1, <1>2 DEF GrabInv, TypeOK, GrabLive
<1>5. QED BY <1>3, <1>4 DEF GrabInv

(* The pointer moves the window it holds, and the release lets it go.      *)
LEMMA PointerNextStep ==
  ASSUME GrabInv, PointerNext
  PROVE  GrabInv'
<1>1. ASSUME NEW v \in Views, NEW m \in {"move", "resize"},
             RequestGrab(v, m) \/ PressGrab(v, m)
      PROVE  GrabInv'
  <2>1. /\ win[v].stage \in {"configured", "mapped"} /\ Begin(v, m)
        /\ UNCHANGED <<win, last_click, spot, locked>>
    BY <1>1 DEF RequestGrab, PressGrab, Decorated, At
  <2>2. QED BY <2>1, BeginStep
<1>2. ASSUME NEW v \in Views, PressTitlebar(v)
      PROVE  GrabInv'
  <2>1. "move" \in {"move", "resize"}
    OBVIOUS
  <2>2. QED BY <1>2, <2>1, BeginStep DEF PressTitlebar, Decorated, At
<1>3. ASSUME NEW v \in Views, DoubleClickTitlebar(v)
      PROVE  GrabInv'
  <2> DEFINE w == ToggleMaximize(win[v])
  <2>1. Sound(w) /\ w.stage = win[v].stage
    BY ToggleSound DEF GrabInv, SameStage
  <2>2. /\ Becomes(v, w) /\ last_click' = NoView
        /\ UNCHANGED <<mode, grabbed, pending, spot, locked>>
    BY <1>3 DEF DoubleClickTitlebar, grabVars
  <2> HIDE DEF w
  <2>3. /\ win' \in [Views -> Window] /\ \A u \in Views : Sound(win'[u])
        /\ \A u \in Views : win'[u].stage = win[u].stage
    BY <2>1, <2>2, BecomesSound
  <2>4. TypeOK' /\ GrabLive'
    BY <2>2, <2>3 DEF GrabInv, TypeOK, GrabLive
  <2>5. QED BY <2>3, <2>4 DEF GrabInv
<1>4. ASSUME NEW where \in Spots, NEW far \in BOOLEAN, Motion(where, far)
      PROVE  GrabInv'
  <2>1. /\ UNCHANGED <<mode, grabbed, last_click, locked>>
        /\ spot' \in Spots /\ (pending' = FALSE \/ pending' = pending)
    BY <1>4 DEF Motion, MotionMoves, MotionResizes
  <2>2. /\ win' \in [Views -> Window] /\ \A u \in Views : Sound(win'[u])
        /\ \A u \in Views : win'[u].stage = win[u].stage
    <3>1. CASE UNCHANGED win
      BY <3>1 DEF GrabInv, TypeOK
    <3>2. ASSUME mode # "passthrough"
          PROVE  grabbed \in Views /\ Sound(win[grabbed])
      BY <3>2 DEF GrabInv, GrabLive, TypeOK
    <3>3. ASSUME NEW w, grabbed \in Views, Sound(w), SameStage(win[grabbed], w),
                 Becomes(grabbed, w)
          PROVE  /\ win' \in [Views -> Window] /\ \A u \in Views : Sound(win'[u])
                 /\ \A u \in Views : win'[u].stage = win[u].stage
      BY <3>3, BecomesSound DEF SameStage
    <3>4. ASSUME NEW p \in Points, mode = "move", pending,
                 Becomes(grabbed, UnmaximizeToCursor(win[grabbed], p))
          PROVE  /\ win' \in [Views -> Window] /\ \A u \in Views : Sound(win'[u])
                 /\ \A u \in Views : win'[u].stage = win[u].stage
      BY <3>2, <3>3, <3>4, UnmaximizeSound
    <3>5. ASSUME NEW p \in Points, mode = "move",
                 Becomes(grabbed, [win[grabbed] EXCEPT !.pos = p])
          PROVE  /\ win' \in [Views -> Window] /\ \A u \in Views : Sound(win'[u])
                 /\ \A u \in Views : win'[u].stage = win[u].stage
      BY <3>2, <3>3, <3>5, MovedSound
    <3>6. ASSUME NEW p \in Points \cup {win[grabbed].pos}, NEW s \in Sizes,
                 mode = "resize",
                 Becomes(grabbed, [win[grabbed] EXCEPT !.pos = p, !.asked = s])
          PROVE  /\ win' \in [Views -> Window] /\ \A u \in Views : Sound(win'[u])
                 /\ \A u \in Views : win'[u].stage = win[u].stage
      <4> DEFINE w == win[grabbed]
                 x == [w EXCEPT !.pos = p, !.asked = s]
      <4>1. grabbed \in Views /\ Sound(w)
        BY <3>2, <3>6
      <4>2. /\ x \in Window /\ x.stage = w.stage /\ x.pos = p
            /\ x.maximized = w.maximized /\ x.fullscreen = w.fullscreen
            /\ x.snapped = w.snapped /\ x.saved_pos = w.saved_pos
        BY <4>1 DEF Sound, Window, Extents
      <4>3. Becomes(grabbed, x)
        BY <3>6
      <4> HIDE DEF x
      <4>4. Sound(x) /\ SameStage(w, x)
        BY <4>1, <4>2 DEF Sound, Special, SameStage
      <4>5. QED BY <3>3, <4>1, <4>3, <4>4
    <3>7. CASE MotionMoves(far)
      BY <3>1, <3>4, <3>5, <3>7 DEF MotionMoves
    <3>8. CASE MotionResizes
      BY <3>6, <3>8 DEF MotionResizes
    <3>9. QED BY <1>4, <3>1, <3>7, <3>8 DEF Motion
  <2>3. pending' \in BOOLEAN /\ (pending' => pending)
    <3>1. pending \in BOOLEAN
      BY DEF GrabInv, TypeOK
    <3>2. CASE pending' = FALSE
      BY <3>2
    <3>3. CASE pending' = pending
      BY <3>1, <3>3
    <3>4. QED BY <2>1, <3>2, <3>3
  <2>4. TypeOK'
    BY <2>1, <2>2, <2>3 DEF GrabInv, TypeOK
  <2>5. GrabLive'
    BY <2>1, <2>2, <2>3 DEF GrabInv, TypeOK, GrabLive
  <2>6. QED BY <2>2, <2>4, <2>5 DEF GrabInv
<1>5. CASE Release
  <2>1. /\ mode' = "passthrough" /\ grabbed' = NoView /\ pending' = FALSE
        /\ UNCHANGED <<last_click, spot, locked>>
    BY <1>5 DEF Release
  <2>2. /\ win' \in [Views -> Window] /\ \A u \in Views : Sound(win'[u])
        /\ \A u \in Views : win'[u].stage = win[u].stage
    <3>1. CASE mode = "move" /\ At(grabbed, "mapped")
      <4>1. grabbed \in Views /\ Sound(win[grabbed])
        BY <3>1 DEF GrabInv, GrabLive, TypeOK
      <4>2. PICK w \in Dropped(win[grabbed]) : Becomes(grabbed, w)
        BY <1>5, <3>1 DEF Release
      <4> DEFINE x == win[grabbed]
      <4>3. Sound(w) /\ SameStage(x, w)
        <5>1. CASE w = ToggleMaximize(x)
          BY <4>1, <5>1, ToggleSound
        <5>2. CASE spot \in SnapEdges /\ w \in Snapped(x, spot)
          <6>1. PICK placed \in BOOLEAN : w = SnapTo(x, spot, placed)
            BY <5>2 DEF Snapped
          <6>2. QED BY <4>1, <5>2, <6>1, SnapToSound
        <5>3. CASE w = x
          BY <4>1, <5>3 DEF SameStage
        <5>4. QED BY <4>2, <5>1, <5>2, <5>3 DEF Dropped
      <4>4. QED BY <4>1, <4>2, <4>3, BecomesSound DEF SameStage
    <3>2. CASE ~ (mode = "move" /\ At(grabbed, "mapped"))
      BY <1>5, <3>2 DEF Release, GrabInv, TypeOK
    <3>3. QED BY <3>1, <3>2
  <2>3. TypeOK' /\ GrabLive'
    BY <2>1, <2>2 DEF GrabInv, TypeOK, GrabLive
  <2>4. QED BY <2>2, <2>3 DEF GrabInv
<1>6. QED BY <1>1, <1>2, <1>3, <1>4, <1>5 DEF PointerNext

(* The invariant holds at the start and through every handler.             *)
LEMMA GrabInvariant == Spec => []GrabInv
<1>1. Init => GrabInv
  <2> SUFFICES ASSUME Init PROVE GrabInv
    OBVIOUS
  <2>1. PICK p \in Points : win = [v \in Views |-> Blank(p)]
    BY DEF Init
  <2>2. Sound(Blank(p)) /\ Blank(p) \in Window
    BY BlankSound DEF Sound
  <2>3. QED BY <2>1, <2>2 DEF Init, GrabInv, TypeOK, GrabLive, Spots
<1>2. GrabInv /\ [Next]_vars => GrabInv'
  <2> SUFFICES ASSUME GrabInv, [Next]_vars PROVE GrabInv'
    OBVIOUS
  <2>1. CASE Lock
    BY <2>1 DEF Lock, GrabInv, TypeOK, GrabLive
  <2>2. CASE Unlock
    BY <2>2 DEF Unlock, grabVars, GrabInv, TypeOK, GrabLive
  <2>3. CASE UNCHANGED vars
    BY <2>3 DEF vars, grabVars, GrabInv, TypeOK, GrabLive
  <2>4. QED BY <2>1, <2>2, <2>3, LifeNextStep, StateNextStep, PointerNextStep
            DEF Next
<1>3. QED BY <1>1, <1>2, PTL DEF Spec

(* A motion or a release always finds the view that its grab began on, and *)
(* the title bar clicked last is that of a view that the client has        *)
(* configured, mapped or not yet: handle_unmap and handle_destroy forget   *)
(* every pointer to a view that goes, in whatever order windows come, go   *)
(* and are grabbed.                                                        *)
THEOREM GrabStaysLive == Spec => []GrabLive
<1>1. GrabInv => GrabLive
  BY DEF GrabInv
<1>2. QED BY <1>1, GrabInvariant, PTL

(* unmaximize_to_cursor may choose between snap_to and apply_state by the  *)
(* snap edge alone: no window is snapped and maximized or fullscreen.      *)
THEOREM SnapStaysExclusive == Spec => []SnapExclusive
<1>1. GrabInv => SnapExclusive
  BY DEF GrabInv, Sound, SnapExclusive
<1>2. QED BY <1>1, GrabInvariant, PTL

(* No order of maximizing, snapping, fullscreen and dragging makes a       *)
(* window return to, or stay at, a position that it filled something from. *)
THEOREM GeometryComesBack == Spec => []GeometryReturns
<1>1. GrabInv => GeometryReturns
  BY DEF GrabInv, Sound, GeometryReturns
<1>2. QED BY <1>1, GrabInvariant, PTL

(* Every variable keeps its type through any sequence of requests.         *)
THEOREM GrabTypeCorrect == Spec => []TypeOK
<1>1. GrabInv => TypeOK
  BY DEF GrabInv
<1>2. QED BY <1>1, GrabInvariant, PTL

-----------------------------------------------------------------------------
(* The saved geometry                                                      *)

(* A function that finds the window in a special state leaves what it      *)
(* saved alone.                                                            *)
Remembers(w, x) ==
  Special(w) => x.saved_pos = w.saved_pos /\ x.saved_size = w.saved_size

(* The functions of view.cc save on the way in from floating, only.        *)
LEMMA OperatorsRemember ==
  ASSUME NEW w \in Window
  PROVE  /\ \A max, full \in BOOLEAN : Remembers(w, ApplyState(w, max, full))
         /\ \A edge \in SnapEdges, placed \in BOOLEAN :
              Remembers(w, SnapTo(w, edge, placed))
         /\ Remembers(w, Unsnap(w))
         /\ Remembers(w, ToggleMaximize(w))
<1>1. Special(w) => SaveGeometry(w) = w
  BY DEF SaveGeometry
<1>2. ASSUME Special(w), NEW max \in BOOLEAN, NEW full \in BOOLEAN
      PROVE  Remembers(w, ApplyState(w, max, full))
  <2> DEFINE zone  == IF full THEN "output" ELSE "work area"
             moved == IF max \/ full THEN Fill(SaveGeometry(w), zone)
                                     ELSE RestoreGeometry(w)
             after == [moved EXCEPT !.maximized = max, !.fullscreen = full,
                                    !.snapped = "none"]
  <2>1. /\ moved.saved_pos = w.saved_pos /\ moved.saved_size = w.saved_size
        /\ after.saved_pos = moved.saved_pos /\ after.saved_size = moved.saved_size
    BY <1>1, <1>2 DEF Fill, RestoreGeometry, Window
  <2>2. ApplyState(w, max, full) \in {w, after}
    BY DEF ApplyState
  <2> HIDE DEF moved, after
  <2>3. QED BY <2>1, <2>2 DEF Remembers
<1>3. ASSUME Special(w), NEW edge \in SnapEdges, NEW placed \in BOOLEAN
      PROVE  Remembers(w, SnapTo(w, edge, placed))
  <2> DEFINE after == [Fill(w, edge) EXCEPT !.maximized = FALSE,
                         !.fullscreen = FALSE, !.snapped = edge]
  <2>1. after.saved_pos = w.saved_pos /\ after.saved_size = w.saved_size
    BY DEF Fill, Window
  <2>2. SnapTo(w, edge, placed) \in {w, after}
    BY <1>1, <1>3 DEF SnapTo
  <2> HIDE DEF after
  <2>3. QED BY <2>1, <2>2 DEF Remembers
<1>4. Special(w) => Remembers(w, Unsnap(w))
  <2> DEFINE after == [RestoreGeometry(w) EXCEPT !.maximized = FALSE,
                         !.fullscreen = FALSE, !.snapped = "none"]
  <2>1. after.saved_pos = w.saved_pos /\ after.saved_size = w.saved_size
    BY DEF RestoreGeometry, Window
  <2>2. Unsnap(w) \in {w, after}
    BY DEF Unsnap
  <2> HIDE DEF after
  <2>3. QED BY <2>1, <2>2 DEF Remembers
<1>5. (~ w.maximized) \in BOOLEAN /\ w.fullscreen \in BOOLEAN
  BY DEF Window
<1>6. QED BY <1>2, <1>3, <1>4, <1>5 DEF Remembers, ToggleMaximize

(* So does the start of a drag.                                            *)
LEMMA UnmaximizeRemembers ==
  ASSUME NEW w, Sound(w), NEW p \in Points
  PROVE  Remembers(w, UnmaximizeToCursor(w, p))
<1> DEFINE x == IF w.snapped # "none" THEN Unsnap(w) ELSE ApplyState(w, FALSE, FALSE)
<1>1. x \in Window /\ Remembers(w, x)
  BY UnsnapSound, ApplyStateSound, OperatorsRemember DEF Sound
<1>2. UnmaximizeToCursor(w, p) \in {w, [x EXCEPT !.pos = p]}
  BY DEF UnmaximizeToCursor
<1> HIDE DEF x
<1>3. [x EXCEPT !.pos = p].saved_pos = x.saved_pos
      /\ [x EXCEPT !.pos = p].saved_size = x.saved_size
  BY <1>1 DEF Window
<1>4. QED BY <1>1, <1>2, <1>3 DEF Remembers

(* What a step has to show of the view that it changes.                    *)
SavedSame(v) ==
  Special(win[v]) /\ Special(win'[v]) =>
    /\ win'[v].saved_pos = win[v].saved_pos
    /\ win'[v].saved_size = win[v].saved_size

AllSavedSame == \A v \in Views : SavedSame(v)

(* A step that changes one view, and one that changes none.                *)
LEMMA BecomesSaved ==
  ASSUME GrabInv, NEW v \in Views, NEW w, Becomes(v, w),
         Remembers(win[v], w) \/ ~ Special(w)
  PROVE  AllSavedSame
  BY DEF GrabInv, TypeOK, Becomes, Remembers, AllSavedSame, SavedSame

LEMMA UnchangedSaved ==
  ASSUME win' = win
  PROVE  AllSavedSame
  BY DEF AllSavedSame, SavedSame

(* The life of a view: a commit, a map and an unmap leave the saved        *)
(* geometry, and a new view floats.                                        *)
LEMMA LifeSaved ==
  ASSUME GrabInv, LifeNext
  PROVE  AllSavedSame
<1> PICK v \in Views :
      \/ NewToplevel(v) \/ InitialCommit(v) \/ InitialConfigure(v) \/ Map(v)
      \/ ClientCommit(v) \/ Unmap(v) \/ Destroy(v)
  BY DEF LifeNext
<1> DEFINE w == win[v]
<1>0. w \in Window
  BY DEF GrabInv, TypeOK
<1>1. CASE NewToplevel(v) \/ Destroy(v)
  <2>1. PICK p \in Points :
          Becomes(v, Blank(p)) \/ Becomes(v, [Blank(p) EXCEPT !.stage = "new"])
    BY <1>1 DEF NewToplevel, Destroy
  <2>2. ~ Special(Blank(p)) /\ ~ Special([Blank(p) EXCEPT !.stage = "new"])
    BY DEF Blank, Special
  <2>3. QED BY <2>1, <2>2, BecomesSaved
<1>2. CASE InitialCommit(v)
  <2>1. Remembers(w, [w EXCEPT !.stage = "committed"])
    BY <1>0 DEF Remembers, Window
  <2>2. QED BY <1>2, <2>1, BecomesSaved DEF InitialCommit
<1>3. CASE InitialConfigure(v)
  <2> DEFINE x == IF w.wants_max \/ w.wants_full
                    THEN ApplyState(w, w.wants_max, w.wants_full)
                    ELSE [w EXCEPT !.asked = "own"]
             y == [x EXCEPT !.stage = "configured", !.wants_max = FALSE,
                            !.wants_full = FALSE]
  <2>1. Becomes(v, y)
    BY <1>3 DEF InitialConfigure
  <2>2. x \in Window /\ Remembers(w, x)
    <3>1. w.wants_max \in BOOLEAN /\ w.wants_full \in BOOLEAN /\ Sound(w)
      BY <1>0 DEF Window, GrabInv
    <3>2. /\ [w EXCEPT !.asked = "own"] \in Window
          /\ Remembers(w, [w EXCEPT !.asked = "own"])
      BY <1>0, Names DEF Window, Remembers
    <3>3. /\ ApplyState(w, w.wants_max, w.wants_full) \in Window
          /\ Remembers(w, ApplyState(w, w.wants_max, w.wants_full))
      BY <1>0, <3>1, ApplyStateSound, OperatorsRemember DEF Sound
    <3>4. QED BY <3>2, <3>3
  <2> HIDE DEF x
  <2>3. Remembers(w, y)
    BY <2>2 DEF Remembers, Window
  <2> HIDE DEF y
  <2>4. QED BY <2>1, <2>3, BecomesSaved
<1>4. CASE Map(v) \/ ClientCommit(v)
  <2>1. PICK s, x, p :
          /\ x = [w EXCEPT !.size = s, !.asked = "none"]
          /\ \/ Becomes(v, x)
             \/ Becomes(v, Place([x EXCEPT !.stage = "mapped", !.fresh = FALSE], p))
    BY <1>4 DEF Map, ClientCommit, Commits
  <2> DEFINE y == [x EXCEPT !.stage = "mapped", !.fresh = FALSE]
             z == [y EXCEPT !.pos = p]
  <2>2. /\ x.saved_pos = w.saved_pos /\ x.saved_size = w.saved_size
        /\ y.saved_pos = w.saved_pos /\ y.saved_size = w.saved_size
        /\ z.saved_pos = w.saved_pos /\ z.saved_size = w.saved_size
    BY <1>0, <2>1 DEF Window
  <2>3. Place(y, p) \in {y, z}
    BY DEF Place
  <2> HIDE DEF y, z
  <2>4. Remembers(w, x) /\ Remembers(w, Place(y, p))
    BY <2>2, <2>3 DEF Remembers
  <2>5. QED BY <2>1, <2>4, BecomesSaved DEF y
<1>5. CASE Unmap(v)
  <2>1. Remembers(w, [w EXCEPT !.stage = "new", !.size = "own", !.asked = "none"])
    BY <1>0 DEF Remembers, Window
  <2>2. QED BY <1>5, <2>1, BecomesSaved DEF Unmap
<1>6. QED BY <1>1, <1>2, <1>3, <1>4, <1>5

(* Requests for a state.                                                   *)
LEMMA StateSaved ==
  ASSUME GrabInv, StateNext
  PROVE  AllSavedSame
<1> PICK v \in Views :
      \/ \E on \in BOOLEAN :
           \/ RequestMaximized(v, on) \/ RequestFullscreen(v, on)
           \/ ForeignMaximize(v, on) \/ ForeignFullscreen(v, on)
      \/ UserMaximize(v) \/ ActionFullscreen(v)
      \/ \E edge \in SnapEdges : ActionSnap(v, edge)
  BY DEF StateNext
<1> DEFINE w == win[v]
<1>0. /\ w \in Window /\ w.maximized \in BOOLEAN /\ w.fullscreen \in BOOLEAN
      /\ (~ w.fullscreen) \in BOOLEAN
  BY DEF GrabInv, TypeOK, Window
<1>1. ASSUME NEW x \in Window, x.saved_pos = w.saved_pos, x.saved_size = w.saved_size,
             Special(x) = Special(w), NEW max \in BOOLEAN, NEW full \in BOOLEAN
      PROVE  Remembers(w, ApplyState(x, max, full))
  BY <1>1, OperatorsRemember DEF Remembers
<1>2. ASSUME NEW on \in BOOLEAN, RequestMaximized(v, on)
      PROVE  AllSavedSame
  <2> DEFINE x == [w EXCEPT !.wants_max = IF Unconfigured(v) THEN on ELSE @]
  <2>1. /\ x \in Window /\ x.saved_pos = w.saved_pos /\ x.saved_size = w.saved_size
        /\ x.maximized = w.maximized /\ x.fullscreen = w.fullscreen
        /\ x.snapped = w.snapped
    BY <1>0 DEF Window
  <2>2. Becomes(v, ApplyState(x, on, x.fullscreen))
    BY <1>2 DEF RequestMaximized
  <2> HIDE DEF x
  <2>3. QED BY <1>0, <1>1, <2>1, <2>2, BecomesSaved DEF Special
<1>3. ASSUME NEW on \in BOOLEAN, RequestFullscreen(v, on)
      PROVE  AllSavedSame
  <2> DEFINE x == [w EXCEPT !.wants_full = IF Unconfigured(v) THEN on ELSE @]
  <2>1. /\ x \in Window /\ x.saved_pos = w.saved_pos /\ x.saved_size = w.saved_size
        /\ x.maximized = w.maximized /\ x.fullscreen = w.fullscreen
        /\ x.snapped = w.snapped
    BY <1>0 DEF Window
  <2>2. Becomes(v, ApplyState(x, x.maximized, on))
    BY <1>3 DEF RequestFullscreen
  <2> HIDE DEF x
  <2>3. QED BY <1>0, <1>1, <2>1, <2>2, BecomesSaved DEF Special
<1>4. CASE \E on \in BOOLEAN : ForeignMaximize(v, on) \/ ForeignFullscreen(v, on)
  BY <1>0, <1>4, OperatorsRemember, BecomesSaved
     DEF ForeignMaximize, ForeignFullscreen
<1>5. CASE UserMaximize(v) \/ ActionFullscreen(v)
  BY <1>0, <1>5, OperatorsRemember, BecomesSaved DEF UserMaximize, ActionFullscreen
<1>6. CASE \E edge \in SnapEdges : ActionSnap(v, edge)
  <2>1. PICK edge \in SnapEdges, placed \in BOOLEAN :
          Becomes(v, SnapTo(w, edge, placed))
    BY <1>6 DEF ActionSnap, Snapped
  <2>2. QED BY <1>0, <2>1, OperatorsRemember, BecomesSaved
<1>7. QED BY <1>2, <1>3, <1>4, <1>5, <1>6

(* Presses, drags and their release.                                       *)
LEMMA PointerSaved ==
  ASSUME GrabInv, PointerNext
  PROVE  AllSavedSame
<1>1. CASE \E v \in Views :
             \/ \E m \in {"move", "resize"} : RequestGrab(v, m) \/ PressGrab(v, m)
             \/ PressTitlebar(v)
  BY <1>1, UnchangedSaved DEF RequestGrab, PressGrab, PressTitlebar
<1>2. ASSUME NEW v \in Views, DoubleClickTitlebar(v)
      PROVE  AllSavedSame
  <2>1. win[v] \in Window
    BY DEF GrabInv, TypeOK
  <2>2. QED BY <1>2, <2>1, OperatorsRemember, BecomesSaved DEF DoubleClickTitlebar
<1>3. ASSUME NEW where \in Spots, NEW far \in BOOLEAN, Motion(where, far)
      PROVE  AllSavedSame
  <2> DEFINE w == win[grabbed]
  <2>1. mode # "passthrough" => grabbed \in Views /\ Sound(w) /\ w \in Window
    BY DEF GrabInv, GrabLive, TypeOK
  <2>2. ASSUME NEW p, NEW s, w \in Window
        PROVE  /\ Remembers(w, [w EXCEPT !.pos = p])
               /\ Remembers(w, [w EXCEPT !.pos = p, !.asked = s])
    BY <2>2 DEF Remembers, Window
  <2>3. CASE MotionMoves(far)
    <3>1. CASE win' = win
      BY <3>1, UnchangedSaved
    <3>2. CASE win' # win
      <4>1. PICK p \in Points :
              \/ Becomes(grabbed, UnmaximizeToCursor(w, p))
              \/ Becomes(grabbed, [w EXCEPT !.pos = p])
        BY <2>3, <3>2 DEF MotionMoves
      <4>2. grabbed \in Views /\ Sound(w) /\ w \in Window
        BY <2>1, <2>3 DEF MotionMoves
      <4>3. QED BY <2>2, <4>1, <4>2, UnmaximizeRemembers, BecomesSaved
    <3>3. QED BY <3>1, <3>2
  <2>4. CASE MotionResizes
    BY <2>1, <2>2, <2>4, BecomesSaved DEF MotionResizes
  <2>5. CASE win' = win
    BY <2>5, UnchangedSaved
  <2>6. QED BY <1>3, <2>3, <2>4, <2>5 DEF Motion
<1>4. CASE Release
  <2>1. CASE mode = "move" /\ At(grabbed, "mapped")
    <3>1. grabbed \in Views /\ win[grabbed] \in Window
      BY <2>1 DEF GrabInv, GrabLive, TypeOK
    <3>2. PICK w \in Dropped(win[grabbed]) : Becomes(grabbed, w)
      BY <1>4, <2>1 DEF Release
    <3>3. Remembers(win[grabbed], w)
      <4>1. CASE w = ToggleMaximize(win[grabbed])
        BY <3>1, <4>1, OperatorsRemember
      <4>2. CASE spot \in SnapEdges /\ w \in Snapped(win[grabbed], spot)
        BY <3>1, <4>2, OperatorsRemember DEF Snapped
      <4>3. CASE w = win[grabbed]
        BY <4>3 DEF Remembers
      <4>4. QED BY <3>2, <4>1, <4>2, <4>3 DEF Dropped
    <3>4. QED BY <3>1, <3>2, <3>3, BecomesSaved
  <2>2. CASE ~ (mode = "move" /\ At(grabbed, "mapped"))
    BY <1>4, <2>2, UnchangedSaved DEF Release
  <2>3. QED BY <2>1, <2>2
<1>5. QED BY <1>1, <1>2, <1>3, <1>4 DEF PointerNext

(* From one special state to another, through any request, drag or commit, *)
(* the geometry saved first is the one a window returns to.                *)
THEOREM SavedStaysKept == Spec => SavedKept
<1>1. ASSUME GrabInv, [Next]_vars
      PROVE  AllSavedSame
  <2>1. CASE Lock \/ Unlock \/ UNCHANGED vars
    BY <2>1, UnchangedSaved DEF Lock, Unlock, vars
  <2>2. QED BY <1>1, <2>1, LifeSaved, StateSaved, PointerSaved DEF Next
<1>2. GrabInv /\ [Next]_vars =>
        [ \A v \in Views :
            Special(win[v]) /\ Special(win'[v]) =>
              /\ win'[v].saved_pos = win[v].saved_pos
              /\ win'[v].saved_size = win[v].saved_size ]_vars
  BY <1>1 DEF AllSavedSame, SavedSame
<1>3. QED BY <1>2, GrabInvariant, PTL DEF Spec, SavedKept
=============================================================================
