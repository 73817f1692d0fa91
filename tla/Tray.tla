-------------------------------- MODULE Tray --------------------------------
(***************************************************************************)
(* The system tray (src/src/tray.cc) and its icons on the taskbars         *)
(* (render_tray in src/src/taskbar.cc).                                    *)
(*                                                                         *)
(* Applications announce items on the session bus.  The host asks each for *)
(* its icon and the path of its menu with asynchronous calls, so requests, *)
(* replies, signals and the news that an application is gone are under way *)
(* while others are dispatched.  The bus keeps the order of what one       *)
(* application sends and of what is sent to it, not more.  A call that is  *)
(* not answered in time ends with an error.                                *)
(*                                                                         *)
(* An item is known by its address: the icons on the bars are a cache keyed*)
(* by it, and a freed address may be used again.  Icons are values; sizes, *)
(* positions, labels and the bus names of the standard are left out.       *)
(***************************************************************************)
EXTENDS Lists, Sequences

CONSTANTS
  Apps,           \* owners of bus names
  Services,       \* items they may announce: bus name and object path
  Owner,          \* the application of each
  Images,         \* icons that can be decoded or loaded
  NoImage,        \* no pixmap, no name, or a name without a file
  Slow,           \* applications whose answers may come too late
  Addrs,          \* where the allocator may put an item
  NoMenu,
  Bars,           \* taskbars there may be
  Looks,          \* what each item may look like
  MaxChanges,     \* bound: how often the icon of each item changes
  MaxQueue        \* bound: messages under way when an item is announced

(* The properties IconPixmap and IconName of an item. *)
Look == [pixmap: Images \cup {NoImage}, name: Images \cup {NoImage}]

ASSUME TrayAssumption ==
  /\ Owner \in [Services -> Apps]
  /\ Slow \subseteq Apps
  /\ NoImage \notin Images
  /\ NoMenu \notin [addr: Addrs, service: Services]
  /\ Looks \in [Services -> SUBSET Look]
  /\ MaxChanges \in [Services -> Nat] /\ MaxQueue \in Nat

VARIABLES
  alive,          \* applications that own their bus name
  announced,      \* items the living ones have announced
  look,           \* IconPixmap and IconName of each item
  changes,
  lost,           \* applications in whose present life a call ran out of time
  sent,           \* from each application, and about it, to the host
  asked,          \* from the host to each application
  items,          \* tray_host::items_
  menu,           \* menu_item_ and menu_proxy_
  bars,           \* the taskbars there are
  cells           \* tray_buf_state_, and what is drawn in each cell

vars ==
  <<alive, announced, look, changes, lost, sent, asked, items, menu, bars, cells>>
appVars == <<alive, announced, look, changes, lost>>

Item == [addr: Addrs, service: Services, icon: Images \cup {NoImage},
         gen: Nat, menu: BOOLEAN]                \* menu_path is not empty

Picture == [service: Services, icon: Images \cup {NoImage}]

Cell == [addr: Addrs, gen: Nat, drawn: Picture]

Request == [kind: {"pixmap", "name", "menu"}, service: Services]

Message ==
  [kind: {"register", "new icon"}, service: Services]
    \cup [kind: {"pixmap", "name"}, service: Services, icon: Images \cup {NoImage}]
    \cup [kind: {"menu"}, service: Services, path: BOOLEAN]
    \cup [kind: {"gone"}]

Init ==
  /\ alive = {} /\ announced = {}
  /\ look \in { l \in [Services -> Look] : \A s \in Services : l[s] \in Looks[s] }
  /\ changes = [s \in Services |-> 0] /\ lost = {}
  /\ sent = [a \in Apps |-> <<>>] /\ asked = [a \in Apps |-> <<>>]
  /\ items = <<>> /\ menu = NoMenu
  /\ bars = {} /\ cells = [b \in Bars |-> <<>>]

ServicesOf(a) == { s \in Services : Owner[s] = a }

Registered(s) == \E i \in DOMAIN items : items[i].service = s

-----------------------------------------------------------------------------
(* The icons on the bars *)

PictureOf(item) == [service |-> item.service, icon |-> item.icon]

(* Fault: the cell is taken for the item that was at its place.            *)
UpToDateByGen(cell, item) == cell.gen = item.gen

UpToDate(cell, item) == cell.addr = item.addr /\ cell.gen = item.gen

(* render_tray: one cell for each item, redrawn if it shows another one or *)
(* an older icon.                                                          *)
RenderTray(old, its) ==
  [i \in DOMAIN its |->
     IF i \in DOMAIN old /\ UpToDate(old[i], its[i]) THEN old[i]
     ELSE [addr |-> its[i].addr, gen |-> its[i].gen,
           drawn |-> PictureOf(its[i])]]

RefreshAll(its) ==
  cells' = [b \in Bars |-> IF b \in bars THEN RenderTray(cells[b], its)
                                         ELSE cells[b]]

(* A taskbar is created with its output and draws itself; it goes with it. *)
NewBar(b) ==
  /\ b \notin bars
  /\ bars' = bars \cup {b}
  /\ cells' = [cells EXCEPT ![b] = RenderTray(<<>>, items)]
  /\ UNCHANGED <<appVars, sent, asked, items, menu>>

BarGone(b) ==
  /\ b \in bars
  /\ bars' = bars \ {b}
  /\ cells' = [cells EXCEPT ![b] = <<>>]
  /\ UNCHANGED <<appVars, sent, asked, items, menu>>

-----------------------------------------------------------------------------
(* The applications and the bus *)

Send(a, message) == sent' = [sent EXCEPT ![a] = Append(@, message)]

(* An application, new or known, announces an item: once or again.         *)
Announce(s) ==
  /\ Len(sent[Owner[s]]) < MaxQueue
  /\ alive' = alive \cup {Owner[s]}
  /\ announced' = announced \cup {s}
  /\ Send(Owner[s], [kind |-> "register", service |-> s])
  /\ UNCHANGED <<look, changes, lost, asked, items, menu, bars, cells>>

(* The icon changes.  The signal reaches the host if it listens by then.   *)
Change(s, new) ==
  /\ s \in announced
  /\ changes[s] < MaxChanges[s]
  /\ changes' = [changes EXCEPT ![s] = @ + 1]
  /\ look' = [look EXCEPT ![s] = new]
  /\ IF Registered(s) THEN Send(Owner[s], [kind |-> "new icon", service |-> s])
                      ELSE UNCHANGED sent
  /\ UNCHANGED <<alive, announced, lost, asked, items, menu, bars, cells>>

(* An application answers the oldest request with what holds now.  A pixmap*)
(* that is missing, refused or broken is NoImage.                          *)
Answer(a) ==
  /\ asked[a] # <<>>
  /\ LET request == Head(asked[a])
         s       == request.service
     IN  \/ /\ request.kind = "pixmap"
            /\ Send(a, [kind |-> "pixmap", service |-> s, icon |-> look[s].pixmap])
         \/ /\ request.kind = "name"
            /\ Send(a, [kind |-> "name", service |-> s, icon |-> look[s].name])
         \/ /\ request.kind = "menu"
            /\ \E path \in BOOLEAN :
                 Send(a, [kind |-> "menu", service |-> s, path |-> path])
  /\ asked' = [asked EXCEPT ![a] = Tail(@)]
  /\ UNCHANGED <<appVars, items, menu, bars, cells>>

(* The bus refuses what the application has not answered, which changes    *)
(* nothing at the host, and announces that its name has no owner.          *)
Exit(a) ==
  /\ a \in alive
  /\ alive' = alive \ {a}
  /\ announced' = announced \ ServicesOf(a)
  /\ asked' = [asked EXCEPT ![a] = <<>>]
  /\ Send(a, [kind |-> "gone"])
  /\ UNCHANGED <<look, changes, lost, items, menu, bars, cells>>

-----------------------------------------------------------------------------
(* The host: what it does with the oldest message of an application *)

Receive(a, kind) ==
  /\ sent[a] # <<>>
  /\ Head(sent[a]).kind = kind
  /\ sent' = [sent EXCEPT ![a] = Tail(@)]

(* A request to a name without an owner is refused by the bus.             *)
Ask(a, kinds, s) ==
  asked' = IF a \in alive
             THEN [asked EXCEPT ![a] = @ \o
                     [i \in DOMAIN kinds |-> [kind |-> kinds[i], service |-> s]]]
             ELSE asked

Slot(s) == CHOOSE i \in DOMAIN items : items[i].service = s

(* Fault: an item that is announced again is another one.                  *)
KnownNever(s) == FALSE

Known(s) == Registered(s)

(* handle_register *)
HandleRegister(a) ==
  /\ Receive(a, "register")
  /\ LET s == Head(sent[a]).service
     IN  IF Known(s)
           THEN UNCHANGED <<asked, items, cells>>
           ELSE /\ Ask(a, <<"pixmap", "menu">>, s)
                /\ \E addr \in Addrs \ { items[i].addr : i \in DOMAIN items } :
                     items' = Append(items, [addr |-> addr, service |-> s,
                                             icon |-> NoImage, gen |-> 0,
                                             menu |-> FALSE])
                /\ RefreshAll(items')
  /\ UNCHANGED <<appVars, menu, bars>>

(* Fault: a new icon is looked up by its name alone. *)
FetchName(a, s) == Ask(a, <<"name">>, s)

FetchIcon(a, s) == Ask(a, <<"pixmap">>, s)

(* NewIcon or NewAttentionIcon: the item that is there fetches its icon.   *)
HandleNewIcon(a) ==
  /\ Receive(a, "new icon")
  /\ LET s == Head(sent[a]).service
     IN  IF Registered(s) THEN FetchIcon(a, s) /\ RefreshAll(items)
                          ELSE UNCHANGED <<asked, cells>>
  /\ UNCHANGED <<appVars, items, menu, bars>>

(* What decode_pixmaps and load_icon_file leave in the item.               *)
Load(s, icon) ==
  /\ items' = [items EXCEPT ![Slot(s)].icon = icon, ![Slot(s)].gen = @ + 1]
  /\ RefreshAll(items')

(* Fault: the item takes whatever comes. *)
UsableAlways(icon) == TRUE

Usable(icon) == icon # NoImage

(* The reply to fetch_icon: without a pixmap the icon has a name.          *)
HandlePixmap(a) ==
  /\ Receive(a, "pixmap")
  /\ LET s    == Head(sent[a]).service
         icon == Head(sent[a]).icon
     IN  CASE ~Registered(s) -> UNCHANGED <<asked, items, cells>>
           [] Registered(s) /\ Usable(icon) -> Load(s, icon) /\ UNCHANGED asked
           [] OTHER -> FetchName(a, s) /\ UNCHANGED <<items, cells>>
  /\ UNCHANGED <<appVars, menu, bars>>

(* The reply to fetch_icon_name: without a file the item keeps its icon.   *)
HandleName(a) ==
  /\ Receive(a, "name")
  /\ LET s    == Head(sent[a]).service
         icon == Head(sent[a]).icon
     IN  IF Registered(s) /\ Usable(icon) THEN Load(s, icon)
                                          ELSE UNCHANGED <<items, cells>>
  /\ UNCHANGED <<appVars, asked, menu, bars>>

IsReply(message) == message.kind \in {"pixmap", "name", "menu"}

(* A pixmap that could not be had is followed by the name of the icon.     *)
AfterError(a, call) ==
  IF call.kind = "pixmap" /\ a \in alive
    THEN <<[kind |-> "name", service |-> call.service]>> ELSE <<>>

(* The oldest call to an application runs out of time.  Its reply may have *)
(* come while the program waited for another one, in context_menu; come or *)
(* still to come, it is dropped.  Without a name or a path nothing changes.*)
TimeOut(a) ==
  /\ a \in Slow
  /\ lost' = lost \cup {a}
  /\ \/ \E i \in DOMAIN sent[a] :
          /\ IsReply(sent[a][i]) /\ \A j \in 1 .. i - 1 : ~ IsReply(sent[a][j])
          /\ sent' = [sent EXCEPT ![a] = Kept(@, DOMAIN @ \ {i})]
          /\ asked' = [asked EXCEPT ![a] = @ \o AfterError(a, sent[a][i])]
     \/ /\ asked[a] # <<>> /\ \A i \in DOMAIN sent[a] : ~ IsReply(sent[a][i])
        /\ asked' = [asked EXCEPT ![a] = Tail(@) \o AfterError(a, Head(@))]
        /\ UNCHANGED sent
  /\ UNCHANGED <<alive, announced, look, changes, items, menu, bars, cells>>

(* The reply to fetch_menu_path, which is asked for once.                  *)
HandleMenuPath(a) ==
  /\ Receive(a, "menu")
  /\ LET s == Head(sent[a]).service
     IN  items' = IF Registered(s)
                    THEN [items EXCEPT ![Slot(s)].menu = Head(sent[a]).path]
                    ELSE items
  /\ UNCHANGED <<appVars, asked, menu, bars, cells>>

(* Fault: the menu stays until the user closes it. *)
MenuStays(a) == UNCHANGED menu

CloseMenuOf(a) ==
  menu' = IF menu # NoMenu /\ Owner[menu.service] = a THEN NoMenu ELSE menu

EraseItems(a) ==
  Kept(items, { i \in DOMAIN items : Owner[items[i].service] # a })

(* What waits of a message queue when no reply is dispatched any more.     *)
WithoutReplies(queue) == Kept(queue, { i \in DOMAIN queue : ~ IsReply(queue[i]) })

(* handle_unregister.  With the proxies their pending calls are cancelled: *)
(* no reply to them, made or still to be made, is dispatched.              *)
HandleGone(a) ==
  /\ sent[a] # <<>> /\ Head(sent[a]).kind = "gone"
  /\ CloseMenuOf(a)
  /\ items' = EraseItems(a)
  /\ IF items' # items THEN RefreshAll(items') ELSE UNCHANGED cells
  /\ sent' = [sent EXCEPT ![a] = WithoutReplies(Tail(@))]
  /\ asked' = [asked EXCEPT ![a] = <<>>]
  /\ lost' = lost \ {a}
  /\ UNCHANGED <<alive, announced, look, changes, bars>>

-----------------------------------------------------------------------------
(* The user *)

(* tray_at: a cell that still has an item. *)
Hit(b) == DOMAIN cells[b] \cap DOMAIN items

(* context_menu, on a right click on cell i of a bar while no menu is open:*)
(* an open one takes every press.  The layout is fetched with calls that   *)
(* wait for the application, while what others send waits in the queues.   *)
(* One that is refused, late or answered with an empty layout changes      *)
(* nothing.                                                                *)
OpenMenu(b, i) ==
  /\ menu = NoMenu
  /\ b \in bars
  /\ i \in Hit(b)
  /\ items[i].menu
  /\ Owner[items[i].service] \in alive
  /\ menu' = [addr |-> items[i].addr, service |-> items[i].service]
  /\ UNCHANGED <<appVars, sent, asked, items, bars, cells>>

(* A press, on an entry or beside the menu, or Escape.                     *)
CloseMenu ==
  /\ menu # NoMenu
  /\ menu' = NoMenu
  /\ UNCHANGED <<appVars, sent, asked, items, bars, cells>>

-----------------------------------------------------------------------------

AppNext ==
  \/ \E s \in Services : Announce(s) \/ \E new \in Looks[s] : Change(s, new)
  \/ \E a \in Apps : Answer(a) \/ Exit(a)

HostNext == \E a \in Apps :
  \/ HandleRegister(a) \/ HandleNewIcon(a) \/ HandleGone(a)
  \/ HandlePixmap(a) \/ HandleName(a) \/ HandleMenuPath(a) \/ TimeOut(a)

BarNext == \E b \in Bars :
  \/ NewBar(b) \/ BarGone(b)
  \/ \E i \in DOMAIN cells[b] : OpenMenu(b, i)

Next == AppNext \/ HostNext \/ BarNext \/ CloseMenu

Spec == Init /\ [][Next]_vars

-----------------------------------------------------------------------------

(* Every variable has its type, no two items share an address, and an item *)
(* was drawn blank until its first icon was loaded.                        *)
TypeOK ==
  /\ alive \subseteq Apps /\ announced \subseteq Services
  /\ look \in [Services -> Look]
  /\ changes \in [Services -> Nat] /\ lost \subseteq Apps
  /\ sent \in [Apps -> Seq(Message)] /\ asked \in [Apps -> Seq(Request)]
  /\ items \in Seq(Item)
  /\ \A i, j \in DOMAIN items : items[i].addr = items[j].addr => i = j
  /\ \A i \in DOMAIN items : items[i].gen = 0 <=> items[i].icon = NoImage
  /\ menu \in [addr: Addrs, service: Services] \cup {NoMenu}
  /\ bars \subseteq Bars
  /\ cells \in [Bars -> Seq(Cell)]

(* "what each tray_bufs_ slot was rendered from": the cells of every bar   *)
(* show the items, in their order and with the icons they have, so a click *)
(* on a cell meets the item that is drawn in it.                           *)
CellsMatch ==
  \A b \in bars :
    /\ DOMAIN cells[b] = DOMAIN items
    /\ \A i \in DOMAIN items : cells[b][i].drawn = PictureOf(items[i])

(* The open menu is that of an item that is still listed: its proxy talks  *)
(* to the application of the item, and neither is left from another one.   *)
MenuLive ==
  menu # NoMenu =>
    \E i \in DOMAIN items :
      items[i].addr = menu.addr /\ items[i].service = menu.service

(* When nothing is under way from an application, exactly the items it has *)
(* announced are listed; at no time is one listed twice.                   *)
ItemsExact ==
  /\ \A i, j \in DOMAIN items : items[i].service = items[j].service => i = j
  /\ \A s \in Services :
       sent[Owner[s]] = <<>> => (Registered(s) <=> s \in announced)

Shown(l) == IF l.pixmap # NoImage THEN l.pixmap ELSE l.name

(* Whatever order icons change in and replies come back, the host ends up  *)
(* with the application's present icon if there is one to load and no call *)
(* ran out of time: no signal is missed and no late reply overwrites a     *)
(* newer icon for good.                                                    *)
IconCurrent ==
  \A i \in DOMAIN items :
    LET s == items[i].service
    IN  /\ sent[Owner[s]] = <<>> /\ asked[Owner[s]] = <<>>
        /\ Owner[s] \notin lost
        /\ Shown(look[s]) # NoImage
        => items[i].icon = Shown(look[s])
=============================================================================
