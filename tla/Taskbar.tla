------------------------------ MODULE Taskbar ------------------------------
(***************************************************************************)
(* A taskbar of steppewm (src/src/taskbar.cc): the buttons it owns, one    *)
(* for each open window, and the row of slots that layout() last drew from *)
(* them.  Clicks are answered from the slots, which hold raw pointers to   *)
(* windows and indices of pins.                                            *)
(*                                                                         *)
(* The functions are operators on a bar and on the desk, the part of       *)
(* `server` that layout() reads; Outputs.tla turns them into actions.      *)
(* Indices start at 1, so that no pin is 0 and not -1.  Sizes, titles,     *)
(* hover and applets are left out.                                         *)
(***************************************************************************)
EXTENDS Lists, SequencesExt

CONSTANTS
  Views,          \* windows
  NoView,         \* the null view
  Apps,           \* app ids
  Icons,          \* where the icon of a pin is loaded from
  Names,          \* outputs, by name
  Commands,       \* arguments of exec()
  NumWorkspaces

ASSUME TaskbarAssumption ==
  /\ NoView \notin Views
  /\ NumWorkspaces \in Nat \ {0}

Workspaces == 0 .. NumWorkspaces - 1

Pin == [app: Apps, icon: Icons]

(* What one reading of config.lua yields.                                  *)
Config ==
  [pins: Seq(Pin), execs: Seq(Commands), enabled: SUBSET Names,
   all_outputs: BOOLEAN, all_workspaces: BOOLEAN]

Desk ==
  [mapped: SUBSET Views, app: [Views -> Apps], workspace: [Views -> Workspaces],
   pinned: SUBSET Views, current: Workspaces, cfg: Config]

Bar ==
  [buttons: Seq(Views),                    \* in the order they were added
   slots: Seq([view: Views \cup {NoView}, pin: Nat]),
   pin_icons: Seq(Icons),
   placed: BOOLEAN]                        \* width_ > 0

NoBar == [buttons |-> <<>>, slots |-> <<>>, pin_icons |-> <<>>, placed |-> FALSE]

-----------------------------------------------------------------------------

(* Each pin takes the first button of its app that no pin before it took.  *)
Claimed(desk, buttons, i) ==
  LET pins == desk.cfg.pins
      same == { k \in DOMAIN buttons : desk.app[buttons[k]] = pins[i].app }
      rank == Cardinality({ j \in 1 .. i : pins[j].app = pins[i].app })
  IN  IF rank <= Cardinality(same) THEN buttons[Nth(same, rank)] ELSE NoView

(* Windows that have a button whether or not a pin takes it.               *)
Listed(desk, v) ==
  \/ desk.cfg.all_workspaces
  \/ v \in desk.pinned
  \/ desk.workspace[v] = desk.current

Slots(desk, buttons) ==
  LET pins    == [i \in DOMAIN desk.cfg.pins |->
                    [view |-> Claimed(desk, buttons, i), pin |-> i]]
      claimed == { Claimed(desk, buttons, i) : i \in DOMAIN desk.cfg.pins }
      rest    == { k \in DOMAIN buttons :
                     Listed(desk, buttons[k]) /\ buttons[k] \notin claimed }
  IN  pins \o Kept([k \in DOMAIN buttons |-> [view |-> buttons[k], pin |-> 0]], rest)

(* The cache of icons is filled when the number of pins changes.           *)
PinIcons(bar, pins) ==
  IF Len(bar.pin_icons) = Len(pins) THEN bar.pin_icons
  ELSE [i \in DOMAIN pins |-> pins[i].icon]

Layout(bar, desk) ==
  IF ~bar.placed THEN bar
  ELSE [bar EXCEPT !.slots = Slots(desk, bar.buttons),
                   !.pin_icons = PinIcons(bar, desk.cfg.pins)]

ViewAdded(bar, v, desk) ==
  Layout([bar EXCEPT !.buttons = Append(@, v)], desk)

(* Fault: the row is not drawn again. *)
ViewRemovedSilently(bar, v, desk) == [bar EXCEPT !.buttons = Without(@, v)]

ViewRemoved(bar, v, desk) ==
  IF v \notin ToSet(bar.buttons) THEN bar
  ELSE Layout([bar EXCEPT !.buttons = Without(@, v)], desk)

(* The output of the bar is in the layout. *)
UpdateGeometry(bar, desk) == Layout([bar EXCEPT !.placed = TRUE], desk)
=============================================================================
