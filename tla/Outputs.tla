------------------------------ MODULE Outputs ------------------------------
(***************************************************************************)
(* The outputs of steppewm and the taskbars on them (src/src/output.cc),   *)
(* against windows that come, go and move, clients that reconfigure the    *)
(* outputs, and the user who reloads the configuration                     *)
(* (src/src/config.cc).                                                    *)
(*                                                                         *)
(* Modes, positions and scales are left out; commits of the backend        *)
(* succeed unless a client asked for them.  The order of the window list,  *)
(* which a new taskbar follows, is any order: Windows.tla has it.          *)
(***************************************************************************)
EXTENDS Taskbar

CONSTANTS
  Configs,        \* what the user writes to config.lua in a session
  MaxExecs        \* CFG_MAX_EXECS

ASSUME OutputsAssumption ==
  /\ Configs # {} /\ Configs \subseteq Config
  /\ MaxExecs \in Nat
  /\ \A cfg \in Configs : Len(cfg.execs) <= MaxExecs

VARIABLES
  desk,
  outputs,        \* server::outputs, the newest first
  scene,          \* outputs with a scene_output: those in the layout
  bars,           \* outputs with an output_taskbar
  bar,            \* the taskbars; NoBar where there is none
  execs           \* config::ran_execs, the commands forked in this session,
                  \* and those of them that were forked more than once

vars == <<desk, outputs, scene, bars, bar, execs>>

Execs == [ran: SUBSET Commands, started: SUBSET Commands, again: SUBSET Commands]

-----------------------------------------------------------------------------

(* The bars of a set of outputs, all of them in the layout, drawn anew.    *)
Redrawn(which, d) ==
  [o \in Names |-> IF o \in which THEN Layout(bar[o], d) ELSE bar[o]]

(* Fault: only the taskbar of the newest output. *)
RefreshFirst(d) == bar' = Redrawn({ o \in bars : o = outputs[1] }, d)

RefreshTaskbars(d) == bar' = Redrawn(bars, d)

(* Fault: a new taskbar waits for new windows. *)
EmptyBars(d) == {NoBar}

(* create_taskbar adds a button for each window of the list.               *)
NewBars(d) ==
  { [NoBar EXCEPT !.buttons = order] : order \in SetToSeqs(d.mapped) }

-----------------------------------------------------------------------------
(* Commands *)

(* Fault: the command is not remembered. *)
RunExecForgetful(e, command) ==
  IF command \in e.ran THEN e
  ELSE [e EXCEPT !.started = @ \cup {command},
                 !.again = @ \cup ({command} \cap e.started)]

RunExec(e, command) ==
  IF command \in e.ran THEN e
  ELSE [ran |-> IF Cardinality(e.ran) < MaxExecs THEN e.ran \cup {command}
                                                 ELSE e.ran,
        started |-> e.started \cup {command},
        again |-> e.again \cup ({command} \cap e.started)]

RunExecs(e, cfg) ==
  LET after[n \in 0 .. Len(cfg.execs)] ==
        IF n = 0 THEN e ELSE RunExec(after[n - 1], cfg.execs[n])
  IN  after[Len(cfg.execs)]

(* The commands of the first configuration run when the backend is up.     *)
Init ==
  /\ \E cfg \in Configs, app \in [Views -> Apps] :
       desk = [mapped |-> {}, app |-> app, workspace |-> [v \in Views |-> 0],
               pinned |-> {}, current |-> 0, cfg |-> cfg]
  /\ outputs = <<>> /\ scene = {}
  /\ bars = {} /\ bar = [o \in Names |-> NoBar]
  /\ execs = RunExecs([ran |-> {}, started |-> {}, again |-> {}], desk.cfg)

-----------------------------------------------------------------------------
(* Windows *)

Map(v) ==
  /\ v \notin desk.mapped
  /\ desk' = [desk EXCEPT !.mapped = @ \cup {v}, !.workspace[v] = desk.current]
  /\ bar' = [o \in Names |-> IF o \in bars THEN ViewAdded(bar[o], v, desk')
                                           ELSE bar[o]]
  /\ UNCHANGED <<outputs, scene, bars, execs>>

Unmap(v) ==
  /\ v \in desk.mapped
  /\ desk' = [desk EXCEPT !.mapped = @ \ {v}]
  /\ bar' = [o \in Names |-> IF o \in bars THEN ViewRemoved(bar[o], v, desk')
                                           ELSE bar[o]]
  /\ UNCHANGED <<outputs, scene, bars, execs>>

(* An unmapped window is destroyed; the next one at its place is unpinned. *)
Destroy(v) ==
  /\ v \notin desk.mapped
  /\ desk' = [desk EXCEPT !.pinned = @ \ {v}, !.workspace[v] = 0]
  /\ UNCHANGED <<outputs, scene, bars, bar, execs>>

(* A client names its app at any time.  No taskbar listens.                *)
SetAppId(v, app) ==
  /\ desk' = [desk EXCEPT !.app[v] = app]
  /\ UNCHANGED <<outputs, scene, bars, bar, execs>>

TogglePin(v) ==
  /\ v \in desk.mapped
  /\ desk' = IF v \in desk.pinned
               THEN [desk EXCEPT !.pinned = @ \ {v}, !.workspace[v] = desk.current]
               ELSE [desk EXCEPT !.pinned = @ \cup {v}]
  /\ RefreshTaskbars(desk')
  /\ UNCHANGED <<outputs, scene, bars, execs>>

WorkspaceSwitch(ws) ==
  /\ ws \in Workspaces \ {desk.current}
  /\ desk' = [desk EXCEPT !.current = ws]
  /\ RefreshTaskbars(desk')
  /\ UNCHANGED <<outputs, scene, bars, execs>>

(* Fault: a workspace that is not there is accepted. *)
MoveAnywhere(v, ws) ==
  /\ v \in desk.mapped
  /\ v \in desk.pinned \/ desk.workspace[v] # ws
  /\ desk' = [desk EXCEPT !.pinned = @ \ {v}, !.workspace[v] = ws]
  /\ RefreshTaskbars(desk')
  /\ UNCHANGED <<outputs, scene, bars, execs>>

MoveToWorkspace(v, ws) ==
  /\ v \in desk.mapped
  /\ ws \in Workspaces
  /\ v \in desk.pinned \/ desk.workspace[v] # ws
  /\ desk' = [desk EXCEPT !.pinned = @ \ {v}, !.workspace[v] = ws]
  /\ RefreshTaskbars(desk')
  /\ UNCHANGED <<outputs, scene, bars, execs>>

(* A click on the button of a window, which a pin may show from another    *)
(* workspace.  The one that has the keyboard is not focused again.         *)
ClickSlot(o, i) ==
  /\ o \in bars /\ bar[o].placed
  /\ i \in DOMAIN bar[o].slots
  /\ LET v == bar[o].slots[i].view
     IN  /\ v # NoView
         /\ desk' = IF v \in desk.pinned THEN desk
                    ELSE [desk EXCEPT !.current = desk.workspace[v]]
  /\ \/ RefreshTaskbars(desk')
     \/ desk' = desk /\ UNCHANGED bar
  /\ UNCHANGED <<outputs, scene, bars, execs>>

(* on_indicator_poll, every two seconds.  The many other refreshes, of     *)
(* focus, titles, volume and brightness, change nothing else.              *)
Poll ==
  /\ UNCHANGED <<desk, outputs, scene, bars, execs>>
  /\ RefreshTaskbars(desk)

-----------------------------------------------------------------------------
(* Outputs *)

(* on_layout_change, where the bars in the layout find their place.        *)
LayoutChanged(which, bar0, d) ==
  [o \in Names |-> IF o \in which THEN UpdateGeometry(bar0[o], d) ELSE NoBar]

AnyTaskbar == bars # {}

(* What apply_config keeps in the layout, or puts there: every output that *)
(* the configuration does not disable.                                     *)
ApplyConfig(cfg, which) == which \cap cfg.enabled

NewOutput(o) ==
  /\ o \notin ToSet(outputs)
  /\ outputs' = <<o>> \o outputs
  /\ scene' = scene \cup ApplyConfig(desk.cfg, {o})
  /\ IF o \in desk.cfg.enabled
       THEN /\ bars' = IF desk.cfg.all_outputs \/ ~AnyTaskbar
                         THEN bars \cup {o} ELSE bars
            /\ \E new \in NewBars(desk) :
                 bar' = LayoutChanged(bars', [bar EXCEPT ![o] = new], desk)
       ELSE UNCHANGED <<bars, bar>>
  /\ UNCHANGED <<desk, execs>>

(* on_destroy.  wlroots then takes the output out of the layout.           *)
DestroyOutput(o) ==
  /\ o \in ToSet(outputs)
  /\ outputs' = Without(outputs, o)
  /\ scene' = scene \ {o}
  /\ bars' = bars \ {o}
  /\ bar' = IF o \in scene THEN LayoutChanged(bars', bar, desk) ELSE bar
  /\ UNCHANGED <<desk, execs>>

Oldest(which) ==
  outputs[CHOOSE i \in DOMAIN outputs :
            /\ outputs[i] \in which
            /\ \A j \in DOMAIN outputs : outputs[j] \in which => j <= i]

(* Fault: a taskbar elsewhere does not matter. *)
PrimaryOldest(lit, left) == IF lit = {} THEN {} ELSE {Oldest(lit)}

(* Fault: without a taskbar to keep there is no primary output. *)
PrimaryKept(lit, left) == IF left = {} THEN {} ELSE {Oldest(left)}

(* Fault: with a single taskbar, all that are left stay. *)
PrimaryAll(lit, left) == IF left = {} /\ lit # {} THEN {Oldest(lit)} ELSE left

(* The output for a single taskbar, of those in the layout and those of    *)
(* them that have one: none or one.                                        *)
Primary(lit, left) ==
  CASE left # {} -> {Oldest(left)}
    [] left = {} /\ lit # {} -> {Oldest(lit)}
    [] OTHER -> {}

(* The loops of apply_config, or of on_output_mgr_apply, took taskbars and *)
(* outputs away; ensure_taskbars then gives each output what it needs.     *)
EnsureTaskbars(d, lit) ==
  LET left  == bars \cap lit
      needs == IF d.cfg.all_outputs THEN lit ELSE Primary(lit, left)
  IN  /\ bars' = needs
      /\ \E new \in [needs \ left -> NewBars(d)] :
           bar' = LayoutChanged(needs,
                    [o \in Names |-> IF o \in needs \ left THEN new[o]
                                                           ELSE bar[o]], d)

(* A client applies an output configuration, in which every output is on   *)
(* or off.                                                                 *)
OutputMgrApply(on) ==
  /\ on \subseteq ToSet(outputs)
  /\ scene' = on
  /\ EnsureTaskbars(desk, on)
  /\ UNCHANGED <<desk, outputs, execs>>

Reload(cfg) ==
  /\ desk' = [desk EXCEPT !.cfg = cfg]
  /\ execs' = RunExecs(execs, cfg)
  /\ scene' = ApplyConfig(cfg, ToSet(outputs))
  /\ EnsureTaskbars(desk', scene')
  /\ UNCHANGED outputs

-----------------------------------------------------------------------------

WindowNext == \E v \in Views :
  \/ Map(v) \/ Unmap(v) \/ Destroy(v) \/ TogglePin(v)
  \/ \E app \in Apps : SetAppId(v, app)
  \/ \E ws \in -1 .. NumWorkspaces : MoveToWorkspace(v, ws)

UserNext ==
  \/ \E ws \in Workspaces : WorkspaceSwitch(ws)
  \/ \E o \in bars : \E i \in DOMAIN bar[o].slots : ClickSlot(o, i)
  \/ \E cfg \in Configs : Reload(cfg)

OutputNext ==
  \/ \E o \in Names : NewOutput(o) \/ DestroyOutput(o)
  \/ \E on \in SUBSET Names : OutputMgrApply(on)

Next == WindowNext \/ UserNext \/ OutputNext \/ Poll

Spec == Init /\ [][Next]_vars /\ WF_vars(Poll)

-----------------------------------------------------------------------------

TypeOK ==
  /\ desk \in Desk
  /\ outputs \in Seq(Names)
  /\ scene \subseteq Names /\ bars \subseteq Names
  /\ bar \in [Names -> Bar]
  /\ execs \in Execs

(* Taskbars are where the configuration and the layout of the outputs put  *)
(* them: on an output that is there and is in the layout, on all of these  *)
(* if the configuration says so, else on at most one.                      *)
BarsPlaced ==
  /\ scene \subseteq ToSet(outputs)
  /\ bars \subseteq scene
  /\ IF desk.cfg.all_outputs THEN bars = scene
                             ELSE \A o, p \in bars : o = p
  /\ \A o \in Names : bar[o].placed <=> o \in bars

(* Every taskbar has one button for each open window, also the one of an   *)
(* output that was plugged in after the window had opened.                 *)
ButtonsExact ==
  \A o \in bars :
    /\ ToSet(bar[o].buttons) = desk.mapped
    /\ Len(bar[o].buttons) = Cardinality(desk.mapped)

(* A click on the row never meets a window that is gone or a pin that was  *)
(* configured away, and finds every window of the current workspace once.  *)
SlotsExact ==
  \A o \in bars :
    LET slots == bar[o].slots
        n     == Len(desk.cfg.pins)
        shown == { i \in DOMAIN slots : slots[i].view # NoView }
    IN  /\ \A i \in DOMAIN slots : slots[i].pin = IF i <= n THEN i ELSE 0
        /\ DOMAIN slots \ shown \subseteq 1 .. n /\ n <= Len(slots)
        /\ \A i, j \in shown : slots[i].view = slots[j].view => i = j
        /\ { slots[i].view : i \in shown } \subseteq desk.mapped
        /\ \A v \in desk.mapped : Listed(desk, v) =>
              \E i \in shown : slots[i].view = v
        /\ \A i \in shown : slots[i].pin = 0 => Listed(desk, slots[i].view)

(* "match running windows": the row comes to show what the pins and the    *)
(* app ids of the windows say, whenever a window names its app.            *)
SlotsCatchUp ==
  []<>(\A o \in bars : bar[o].slots = Slots(desk, bar[o].buttons))

(* A taskbar that can stay on its output stays: whatever is plugged,       *)
(* enabled or configured, one of the outputs that had a taskbar and remain *)
(* in the layout keeps it.                                                 *)
BarKept ==
  [][ bars \cap scene' # {} => bars \cap bars' # {} ]_vars

(* A new configuration leaves a taskbar somewhere if any output is lit,    *)
(* also after the output that had the only one was unplugged.              *)
BarReturns ==
  [][ desk'.cfg # desk.cfg /\ scene' # {} => bars' # {} ]_vars

(* A command that is remembered was started once, however often the        *)
(* configuration is reloaded; no other is started twice before the session *)
(* has started more commands than the table of run_execs holds.            *)
ExecsOnce ==
  /\ execs.again \cap execs.ran = {}
  /\ execs.again # {} => Cardinality(execs.started) > MaxExecs

(* "sync pin label scene buffers and icon cache to match config": each     *)
(* pin is drawn with its own icon.                                         *)
PinIconsMatch ==
  \A o \in bars :
    bar[o].pin_icons =
      [i \in DOMAIN desk.cfg.pins |-> desk.cfg.pins[i].icon]
=============================================================================
