----------------------------- MODULE IdleProofs -----------------------------
(***************************************************************************)
(* Theorems about Idle.tla, for any windows and other surfaces: the cached *)
(* answer to "may the session go idle" follows the windows on the screen.  *)
(***************************************************************************)
EXTENDS Idle, WindowsProofs

(* What the notifier was told rests on a window that belongs on the screen *)
(* or on a surface that is no window.                                      *)
Justified ==
  inhibited /\ ~manual => inhibitors \cap (Belonging(srv) \cup Layers) # {}

(* The scene has to be consistent with the window list: a shown window is  *)
(* one that counts.                                                        *)
IdleInv == TypeOK /\ Consistent(srv) /\ Justified

(* The property as a step.                                                 *)
Follows ==
  /\ Justified'
  /\ srv'.shown # srv.shown =>
       \A v \in (inhibitors \cap srv.shown)' \ PinnedAway(srv') : inhibited'

(* A window that counts belongs on the screen, and a shown one counts,     *)
(* unless it is pinned elsewhere.                                          *)
LEMMA CountsBelongs ==
  ASSUME TypeOK, NEW t \in Server, Consistent(t)
  PROVE  /\ \A x : Counts(t, x) => x \in Belonging(t) \cup Layers
         /\ \A v \in t.shown \ PinnedAway(t) : Counts(t, v)
<1>1. ASSUME NEW x, Counts(t, x)
      PROVE  x \in Belonging(t) \cup Layers
  BY <1>1 DEF Counts, Belonging, Visible, TypeOK
<1>2. ASSUME NEW v \in t.shown \ PinnedAway(t)
      PROVE  Counts(t, v)
  BY <1>2 DEF Counts, PinnedAway, Consistent, ShownExcept, Visible
<1>3. QED BY <1>1, <1>2

(* A step that asks every inhibitor again is right whatever came before.   *)
LEMMA UpdateFollows ==
  ASSUME TypeOK, NEW t \in Server, Consistent(t), srv' = t,
         inhibitors' \subseteq Views \cup Layers, Update(t, inhibitors'),
         others' = others, manual' \in BOOLEAN
  PROVE  IdleInv' /\ Follows
<1>1. TypeOK'
  BY DEF TypeOK, Update
<1>2. inhibited' = (manual' \/ \E x \in inhibitors' : Counts(t, x))
  BY DEF Update
<1>3. Justified'
  BY <1>2, CountsBelongs DEF Justified
<1>4. \A v \in (inhibitors \cap srv.shown)' \ PinnedAway(srv') : inhibited'
  BY <1>2, CountsBelongs
<1>5. QED BY <1>1, <1>3, <1>4 DEF IdleInv, Follows

(* A step that asks every inhibitor again follows the screen.              *)
LEMMA AnewFollows ==
  ASSUME IdleInv, NEW t \in Server, Consistent(t), ShownAnew(t)
  PROVE  IdleInv' /\ Follows
  BY UpdateFollows DEF IdleInv, TypeOK, ShownAnew

(* A step that asks nobody takes no window off the screen and shows none.  *)
LEMMA AsBeforeFollows ==
  ASSUME IdleInv, NEW t \in Server, Consistent(t), t.shown = srv.shown,
         Belonging(srv) \subseteq Belonging(t), ShownAsBefore(t)
  PROVE  IdleInv' /\ Follows
<1>1. TypeOK'
  BY DEF IdleInv, TypeOK, ShownAsBefore
<1>2. Justified' /\ srv' = t
  BY DEF IdleInv, Justified, ShownAsBefore
<1>3. QED BY <1>1, <1>2 DEF IdleInv, Follows

(* view::focus of a window that is not minimized shows nothing anew.       *)
LEMMA ActivatedFollows ==
  ASSUME IdleInv, NEW v \in Views, Activated(v)
  PROVE  IdleInv' /\ Follows
<1> DEFINE t == Focus(srv, v)
<1>0. srv \in Server /\ Consistent(srv)
  BY DEF IdleInv, TypeOK
<1>1. t \in Server /\ Consistent(t)
  BY <1>0, FocusType, FocusConsistent
<1>2. CASE v \in srv.minimized
  BY <1>1, <1>2, AnewFollows DEF Activated
<1>3. CASE v \notin srv.minimized
  <2> DEFINE r == Restore(srv, v)
  <2>1. r = [srv EXCEPT !.urgent = @ \ {v}]
    BY <1>3 DEF Restore
  <2>2. r \in Server
    BY <1>0, RestoreType
  <2>3. /\ r.shown = srv.shown /\ r.mapped = srv.mapped /\ r.pinned = srv.pinned
        /\ r.minimized = srv.minimized /\ r.workspace = srv.workspace
        /\ r.current_workspace = srv.current_workspace
    BY <1>0, <2>1 DEF Server
  <2>4. t \in {srv, r, Activate(r, v)}
    BY DEF Focus
  <2> HIDE DEF r
  <2>5. LET a == Activate(r, v)
        IN  /\ a.shown = r.shown /\ a.mapped = r.mapped /\ a.pinned = r.pinned
            /\ a.minimized = r.minimized /\ a.workspace = r.workspace
            /\ a.current_workspace = r.current_workspace
    BY <2>2 DEF Activate, Server
  <2> HIDE DEF t
  <2>6. t.shown = srv.shown /\ Belonging(srv) = Belonging(t)
    BY <2>3, <2>4, <2>5 DEF Belonging, Visible
  <2>7. ShownAsBefore(t)
    BY <1>3 DEF Activated, t
  <2>8. QED BY <1>1, <2>6, <2>7, AsBeforeFollows
<1>4. QED BY <1>2, <1>3

(* Switching in an empty session shows nothing.                            *)
LEMMA SwitchToFollows ==
  ASSUME IdleInv, NEW w \in Workspaces, SwitchTo(w)
  PROVE  IdleInv' /\ Follows
<1> DEFINE t == WorkspaceSwitch(srv, w)
<1>0. srv \in Server /\ Consistent(srv)
  BY DEF IdleInv, TypeOK
<1>1. t \in Server /\ Consistent(t)
  BY <1>0, WorkspaceSwitchType, WorkspaceSwitchKeeps DEF Keeps
<1>2. CASE srv.views # <<>>
  BY <1>1, <1>2, AnewFollows DEF SwitchTo
<1>3. CASE srv.views = <<>>
  <2>1. DOMAIN srv.views = {}
    BY <1>3
  <2>2. srv.mapped = {}
    BY <1>0, <2>1 DEF Consistent, Listed, LinkedOnce, Server
  <2>3. t.mapped = srv.mapped
    <3> DEFINE u == ShowWorkspace(srv, w)
    <3>1. u \in Server /\ u.mapped = srv.mapped
      BY <1>0, ShowWorkspaceType DEF ShowWorkspace, Server
    <3>2. t \in {srv, FocusTopmost(u, NoSurface)}
      BY DEF WorkspaceSwitch
    <3> HIDE DEF u, t
    <3>3. FocusTopmost(u, NoSurface).mapped = u.mapped
      BY <3>1, FocusNextRefocus DEF Refocus, PlacesKept
    <3>4. QED BY <3>1, <3>2, <3>3
  <2> HIDE DEF t
  <2>4. srv.shown = {} /\ t.shown = {} /\ Belonging(srv) = {}
    BY <1>0, <1>1, <2>2, <2>3 DEF Consistent, ShownExcept, Belonging
  <2>5. ShownAsBefore(t)
    BY <1>3 DEF SwitchTo, t
  <2>6. QED BY <1>1, <2>4, <2>5, AsBeforeFollows
<1>4. QED BY <1>2, <1>3

(* The "pin" action hides nothing and shows nothing.                       *)
LEMMA PinFollows ==
  ASSUME IdleInv, NEW v \in Views, Pin(v)
  PROVE  IdleInv' /\ Follows
<1> DEFINE t == TogglePin(srv, v)
<1>0. srv \in Server /\ Consistent(srv)
  BY DEF IdleInv, TypeOK
<1>1. t \in Server /\ Consistent(t)
  BY <1>0, TogglePinType, TogglePinKeeps DEF Keeps
<1>2. t.shown = srv.shown /\ Belonging(srv) \subseteq Belonging(t)
  BY <1>0 DEF TogglePin, Belonging, Visible, Server
<1>3. ShownAsBefore(t)
  BY DEF Pin
<1> HIDE DEF t
<1>4. QED BY <1>1, <1>2, <1>3, AsBeforeFollows

(* A destroyed window takes its inhibitor along.                           *)
LEMMA DestroyFollows ==
  ASSUME IdleInv, NEW v \in Views, Destroy(v)
  PROVE  IdleInv' /\ Follows
<1> DEFINE t == HandleDestroy(srv, v)
<1>0. srv \in Server /\ Consistent(srv) /\ v \notin srv.mapped
  BY DEF IdleInv, TypeOK, Destroy
<1>1. t \in Server /\ Consistent(t)
  BY <1>0, HandleDestroyType, HandleDestroyKeeps DEF Keeps
<1>2. t.shown = srv.shown /\ Belonging(srv) = Belonging(t)
  BY <1>0 DEF HandleDestroy, Belonging, Visible, Server
<1>3. /\ srv' = t /\ inhibitors' = inhibitors \ {v} /\ others' = others
      /\ manual' = manual
      /\ IF v \in inhibitors THEN Update(t, inhibitors') ELSE UNCHANGED inhibited
  BY DEF Destroy
<1> HIDE DEF t
<1>4. CASE v \in inhibitors
  BY <1>1, <1>3, <1>4, UpdateFollows DEF IdleInv, TypeOK
<1>5. CASE v \notin inhibitors
  <2>1. inhibitors' = inhibitors /\ inhibited' = inhibited
    BY <1>3, <1>5
  <2>2. ShownAsBefore(t)
    BY <1>3, <2>1 DEF ShownAsBefore
  <2>3. QED BY <1>1, <1>2, <2>2, AsBeforeFollows
<1>6. QED BY <1>4, <1>5

(* Every step of a window.                                                 *)
LEMMA ViewFollows ==
  ASSUME IdleInv, NEW v \in Views,
         \/ Map(v) \/ Unmap(v) \/ Destroy(v)
         \/ RequestMinimize(v) \/ RequestRestore(v) \/ Activated(v) \/ Pin(v)
         \/ \E w \in Workspaces : Send(v, w)
  PROVE  IdleInv' /\ Follows
<1>0. srv \in Server /\ Consistent(srv)
  BY DEF IdleInv, TypeOK
<1>1. CASE Map(v)
  BY <1>0, <1>1, HandleMapType, HandleMapKeeps, AnewFollows DEF Map, Keeps
<1>2. CASE Unmap(v)
  BY <1>0, <1>2, HandleUnmapType, HandleUnmapKeeps, AnewFollows DEF Unmap, Keeps
<1>3. CASE RequestMinimize(v)
  BY <1>0, <1>3, MinimizeAndMoveOnType, MinimizeAndMoveOnKeeps, AnewFollows
     DEF RequestMinimize, Keeps
<1>4. CASE RequestRestore(v)
  <2>1. Minimize(srv, v, FALSE) \in Server
    BY <1>0, MinimizeType
  <2>2. /\ Focus(Minimize(srv, v, FALSE), v) \in Server
        /\ Consistent(Focus(Minimize(srv, v, FALSE), v))
    BY <1>0, <2>1, FocusType, FocusAfterRestoreKeeps DEF Keeps
  <2>3. QED BY <1>4, <2>2, AnewFollows DEF RequestRestore
<1>5. ASSUME NEW w \in Workspaces, Send(v, w)
      PROVE  IdleInv' /\ Follows
  BY <1>0, <1>5, MoveToWorkspaceType, MoveToWorkspaceKeeps, AnewFollows
     DEF Send, Keeps
<1>6. QED BY <1>1, <1>2, <1>3, <1>4, <1>5, DestroyFollows, ActivatedFollows, PinFollows

(* Every step of another surface, an inhibitor or the applet.              *)
LEMMA OtherFollows ==
  ASSUME IdleInv,
         \/ \E x \in Layers : MapOther(x) \/ UnmapOther(x)
         \/ \E x \in Views \cup Layers : NewInhibitor(x) \/ InhibitorDestroyed(x)
         \/ ToggleManual
  PROVE  IdleInv' /\ Follows
<1>0. srv \in Server /\ Consistent(srv) /\ TypeOK /\ Justified
  BY DEF IdleInv, TypeOK
<1>1. ASSUME NEW x \in Layers, MapOther(x) \/ UnmapOther(x)
      PROVE  IdleInv' /\ Follows
  BY <1>0, <1>1 DEF MapOther, UnmapOther, IdleInv, TypeOK, Justified, Follows
<1>2. ASSUME NEW x \in Views \cup Layers, NewInhibitor(x) \/ InhibitorDestroyed(x)
      PROVE  IdleInv' /\ Follows
  <2>1. /\ srv' = srv /\ others' = others /\ manual' \in BOOLEAN
        /\ inhibitors' \subseteq Views \cup Layers /\ Update(srv, inhibitors')
    BY <1>0, <1>2 DEF NewInhibitor, InhibitorDestroyed, TypeOK
  <2>2. QED BY <1>0, <2>1, UpdateFollows
<1>3. CASE ToggleManual
  <2>1. /\ srv' = srv /\ others' = others /\ manual' \in BOOLEAN
        /\ inhibitors' = inhibitors /\ Update(srv, inhibitors)
    BY <1>0, <1>3 DEF ToggleManual, TypeOK
  <2>2. inhibitors' \subseteq Views \cup Layers /\ Update(srv, inhibitors')
    BY <1>0, <2>1 DEF TypeOK
  <2>3. QED BY <1>0, <2>1, <2>2, UpdateFollows
<1>4. QED BY <1>1, <1>2, <1>3

(* The session starts with nothing on the screen.                          *)
LEMMA IdleInit == Init => IdleInv
<1>1. ASSUME Init
      PROVE  IdleInv
  <2>1. srv \in Server
    BY <1>1, InitServerType DEF Init
  <2>2. Consistent(srv)
    BY <1>1, InitConsistent DEF Init
  <2>3. QED BY <1>1, <2>1, <2>2 DEF Init, IdleInv, TypeOK, Justified
<1>2. QED BY <1>1

(* "hidden windows shouldn't keep blocking idle": in every order of window *)
(* events, workspace switches and inhibitors, what the notifier was told   *)
(* rests on a window that belongs on the screen or on a surface that is no *)
(* window, and a change of what is shown is answered at once.              *)
THEOREM InhibitorsFollowTheScreen == Spec => InhibitFollowsScreen
<1>1. ASSUME IdleInv, [Next]_vars
      PROVE  IdleInv' /\ (Follows \/ UNCHANGED vars)
  <2>1. ASSUME Next
        PROVE  IdleInv' /\ Follows
    BY <1>1, <2>1, ViewFollows, SwitchToFollows, OtherFollows DEF Next
  <2>2. ASSUME UNCHANGED vars
        PROVE  IdleInv'
    BY <1>1, <2>2 DEF vars, IdleInv, TypeOK, Justified
  <2>3. QED BY <1>1, <2>1, <2>2
<1>2. Follows =>
        /\ inhibited' /\ ~manual' =>
             inhibitors' \cap (Belonging(srv') \cup Layers) # {}
        /\ srv'.shown # srv.shown =>
             \A v \in (inhibitors \cap srv.shown)' \ PinnedAway(srv') : inhibited'
  BY DEF Follows, Justified
<1>3. QED BY <1>1, <1>2, IdleInit, PTL DEF Spec, InhibitFollowsScreen
=============================================================================
