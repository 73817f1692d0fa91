-------------------------------- MODULE Idle --------------------------------
(***************************************************************************)
(* The idle inhibitors of steppewm (src/src/input.cc): clients ask that    *)
(* the session does not go idle while one of their surfaces is visible,    *)
(* and the user may ask for it on the taskbar.                             *)
(*                                                                         *)
(* What the notifier was told last is a cache.  It is computed again by    *)
(* view::update_visibility and view::handle_unmap, thus in the middle of   *)
(* the handlers of Windows.tla, and when an inhibitor comes or goes.  The  *)
(* layer surfaces stand for every surface that is no window.  The session  *)
(* lock plays no part: `visible` does not look at it.                      *)
(***************************************************************************)
EXTENDS Windows

VARIABLES
  srv,           \* the server of Windows.tla
  others,        \* mapped surfaces that are no windows
  inhibitors,    \* surfaces with an inhibitor: idle_inhibit_mgr->inhibitors
  manual,        \* idle_inhibit_manual
  inhibited      \* what idle_notifier was told last

vars == <<srv, others, inhibitors, manual, inhibited>>

Init ==
  /\ srv = InitServer(TRUE)
  /\ others = {} /\ inhibitors = {}
  /\ manual = FALSE /\ inhibited = FALSE

-----------------------------------------------------------------------------

(* Fault: a minimized window is on its workspace, so it counts. *)
CountsMinimized(s, x) ==
  \/ x \in s.mapped /\ s.workspace[x] = s.current_workspace
  \/ x \in others

(* idle_inhibitor::visible *)
Counts(s, x) ==
  \/ /\ x \in s.mapped \ s.minimized
     /\ s.workspace[x] = s.current_workspace
  \/ x \in others

(* idle_inhibitor::update, without the inhibitors that are excluded *)
Update(s, with) == inhibited' = (manual' \/ \E x \in with : Counts(s, x))

(* A handler that calls update_visibility, or update itself; nothing that  *)
(* Counts reads changes after the last of these calls.                     *)
ShownAnew(t) ==
  /\ srv' = t
  /\ UNCHANGED <<others, inhibitors, manual>>
  /\ Update(t, inhibitors)

(* A handler that calls neither. *)
ShownAsBefore(t) ==
  /\ srv' = t
  /\ UNCHANGED <<others, inhibitors, manual, inhibited>>

-----------------------------------------------------------------------------
(* Windows *)

Map(v) == v \notin srv.mapped /\ ShownAnew(HandleMap(srv, v))

Unmap(v) == v \in srv.mapped /\ ShownAnew(HandleUnmap(srv, v))

RequestMinimize(v) == ShownAnew(MinimizeAndMoveOn(srv, v))

RequestRestore(v) ==
  v \in srv.mapped /\ ShownAnew(Focus(Minimize(srv, v, FALSE), v))

(* view::focus shows a window anew when it was minimized, only. *)
Activated(v) ==
  /\ v \in srv.mapped
  /\ IF v \in srv.minimized THEN ShownAnew(Focus(srv, v))
                            ELSE ShownAsBefore(Focus(srv, v))

SwitchTo(w) ==
  /\ w # srv.current_workspace
  /\ IF srv.views # <<>> THEN ShownAnew(WorkspaceSwitch(srv, w))
                         ELSE ShownAsBefore(WorkspaceSwitch(srv, w))

Send(v, w) ==
  /\ v = srv.focused_surface /\ CanMoveTo(srv, v, w)
  /\ ShownAnew(MoveToWorkspace(srv, v, w))

Pin(v) == v = srv.focused_surface /\ ShownAsBefore(TogglePin(srv, v))

-----------------------------------------------------------------------------
(* Other surfaces, inhibitors and the applet *)

(* The map and unmap handlers of a layer surface know of no inhibitors.    *)
MapOther(x) ==
  /\ x \notin others
  /\ others' = others \cup {x}
  /\ UNCHANGED <<srv, inhibitors, manual, inhibited>>

UnmapOther(x) ==
  /\ x \in others
  /\ others' = others \ {x}
  /\ UNCHANGED <<srv, inhibitors, manual, inhibited>>

NewInhibitor(x) ==
  /\ x \notin inhibitors
  /\ inhibitors' = inhibitors \cup {x}
  /\ UNCHANGED <<srv, others, manual>>
  /\ Update(srv, inhibitors')

(* The inhibitor is in the list until its listeners have run.              *)
InhibitorDestroyed(x) ==
  /\ x \in inhibitors
  /\ inhibitors' = inhibitors \ {x}
  /\ UNCHANGED <<srv, others, manual>>
  /\ Update(srv, inhibitors')

(* A window is destroyed with its surface and the inhibitor of this.       *)
Destroy(v) ==
  /\ v \notin srv.mapped
  /\ srv' = HandleDestroy(srv, v)
  /\ inhibitors' = inhibitors \ {v}
  /\ UNCHANGED <<others, manual>>
  /\ IF v \in inhibitors THEN Update(srv', inhibitors') ELSE UNCHANGED inhibited

ToggleManual ==
  /\ manual' = ~manual
  /\ UNCHANGED <<srv, others, inhibitors>>
  /\ Update(srv, inhibitors)

-----------------------------------------------------------------------------

Next ==
  \/ \E v \in Views :
       \/ Map(v) \/ Unmap(v) \/ Destroy(v)
       \/ RequestMinimize(v) \/ RequestRestore(v) \/ Activated(v) \/ Pin(v)
       \/ \E w \in Workspaces : Send(v, w)
  \/ \E w \in Workspaces : SwitchTo(w)
  \/ \E x \in Layers : MapOther(x) \/ UnmapOther(x)
  \/ \E x \in Views \cup Layers : NewInhibitor(x) \/ InhibitorDestroyed(x)
  \/ ToggleManual

Spec == Init /\ [][Next]_vars

-----------------------------------------------------------------------------

TypeOK ==
  /\ srv \in Server
  /\ others \subseteq Layers
  /\ inhibitors \subseteq Views \cup Layers
  /\ manual \in BOOLEAN /\ inhibited \in BOOLEAN

(* The windows that belong on the screen.  One of them may be hidden: the  *)
(* "pin" action moves a window to this workspace and shows it not.         *)
Belonging(s) == {v \in s.mapped : Visible(s, v)}

PinnedAway(s) == {v \in s.pinned : s.workspace[v] # s.current_workspace}

(* "hidden windows shouldn't keep blocking idle": what the notifier was    *)
(* told rests on a window that belongs on the screen still, whatever       *)
(* happened since; and when the windows on the screen changed, those that  *)
(* inhibit, but for windows pinned elsewhere, do so at once.  A surface    *)
(* that is no window may block after it is unmapped: nothing asks again.   *)
InhibitFollowsScreen ==
  [][ /\ inhibited' /\ ~manual' =>
           inhibitors' \cap (Belonging(srv') \cup Layers) # {}
      /\ srv'.shown # srv.shown =>
           \A v \in (inhibitors \cap srv.shown)' \ PinnedAway(srv') : inhibited' ]_vars
=============================================================================
