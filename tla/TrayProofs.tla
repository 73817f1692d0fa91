----------------------------- MODULE TrayProofs -----------------------------
(***************************************************************************)
(* Theorems about Tray.tla for any applications, items, icons, addresses   *)
(* and bars, and any number of messages under way: the list of items, the  *)
(* cells that are drawn of it, the open menu and the icons agree with what *)
(* the applications have said, in whatever order it arrives.               *)
(***************************************************************************)
EXTENDS Tray, ListsProofs

-----------------------------------------------------------------------------
(* Types *)

(* A queue holds only what concerns the application it belongs to.         *)
Owned ==
  \A a \in Apps :
    /\ \A i \in DOMAIN sent[a] :
         sent[a][i].kind # "gone" => Owner[sent[a][i].service] = a
    /\ \A i \in DOMAIN asked[a] : Owner[asked[a][i].service] = a

TypeInv == TypeOK /\ Owned

(* What a message of each kind carries.                                    *)
LEMMA MessageParts ==
  ASSUME NEW m \in Message
  PROVE  /\ m.kind \in {"register", "new icon", "pixmap", "name", "menu", "gone"}
         /\ m.kind # "gone" => m.service \in Services
         /\ m.kind \in {"pixmap", "name"} => m.icon \in Images \cup {NoImage}
         /\ m.kind = "menu" => m.path \in BOOLEAN
  BY DEF Message

(* What an application may send.                                           *)
LEMMA MessageKinds ==
  ASSUME NEW s \in Services, NEW icon \in Images \cup {NoImage}, NEW path \in BOOLEAN
  PROVE  /\ [kind |-> "register", service |-> s] \in Message
         /\ [kind |-> "new icon", service |-> s] \in Message
         /\ [kind |-> "pixmap", service |-> s, icon |-> icon] \in Message
         /\ [kind |-> "name", service |-> s, icon |-> icon] \in Message
         /\ [kind |-> "menu", service |-> s, path |-> path] \in Message
         /\ [kind |-> "gone"] \in Message
  BY DEF Message

(* Slot finds an item that is registered.                                  *)
LEMMA SlotFinds ==
  ASSUME NEW s, Registered(s)
  PROVE  Slot(s) \in DOMAIN items /\ items[Slot(s)].service = s
  BY DEF Slot, Registered

(* A row of cells is drawn for any row of items.                           *)
LEMMA RenderType ==
  ASSUME NEW old \in Seq(Cell), NEW its \in Seq(Item)
  PROVE  RenderTray(old, its) \in Seq(Cell)
<1>1. Len(its) \in Nat /\ DOMAIN its = 1 .. Len(its) /\ DOMAIN old = 1 .. Len(old)
  BY LenProperties
<1> DEFINE new(i) == [addr |-> its[i].addr, gen |-> its[i].gen,
                      drawn |-> PictureOf(its[i])]
<1>2. ASSUME NEW i \in 1 .. Len(its)
      PROVE  new(i) \in Cell
  <2>1. its[i] \in Item
    BY <1>2, ElementOfSeq
  <2>2. QED BY <2>1 DEF Item, Cell, Picture, PictureOf
<1>3. ASSUME NEW i \in DOMAIN old
      PROVE  old[i] \in Cell
  BY <1>1, <1>3, ElementOfSeq
<1> HIDE DEF new
<1> DEFINE e(i) == IF i \in DOMAIN old /\ UpToDate(old[i], its[i]) THEN old[i]
                   ELSE new(i)
<1>4. \A i \in 1 .. Len(its) : e(i) \in Cell
  BY <1>2, <1>3
<1>5. RenderTray(old, its) = [i \in 1 .. Len(its) |-> e(i)]
  BY <1>1 DEF RenderTray, new
<1> HIDE DEF e
<1>6. QED BY <1>1, <1>4, <1>5

(* Drawing the bars again keeps the type of their cells.                   *)
LEMMA RefreshType ==
  ASSUME TypeOK, NEW its \in Seq(Item), RefreshAll(its)
  PROVE  cells' \in [Bars -> Seq(Cell)]
  BY RenderType DEF TypeOK, RefreshAll

(* Sending keeps the queues typed.                                         *)
LEMMA SendType ==
  ASSUME TypeInv, NEW a \in Apps, NEW m \in Message,
         m.kind # "gone" => Owner[m.service] = a,
         Send(a, m)
  PROVE  /\ sent' \in [Apps -> Seq(Message)]
         /\ \A b \in Apps : \A i \in DOMAIN sent'[b] :
              sent'[b][i].kind # "gone" => Owner[sent'[b][i].service] = b
<1>1. sent \in [Apps -> Seq(Message)] /\ sent' = [sent EXCEPT ![a] = Append(@, m)]
  BY DEF TypeInv, TypeOK, Send
<1>2. ASSUME NEW b \in Apps
      PROVE  /\ sent'[b] \in Seq(Message)
             /\ \A i \in DOMAIN sent'[b] :
                  \/ sent'[b][i] = m /\ b = a
                  \/ \E j \in DOMAIN sent[b] : sent'[b][i] = sent[b][j]
  <2>1. sent'[b] = IF b = a THEN Append(sent[b], m) ELSE sent[b]
    BY <1>1
  <2>2. sent[b] \in Seq(Message)
    BY <1>1
  <2>3. QED BY <2>1, <2>2
<1>3. sent' \in [Apps -> Seq(Message)]
  BY <1>1, <1>2
<1>4. ASSUME NEW b \in Apps, NEW i \in DOMAIN sent'[b], sent'[b][i].kind # "gone"
      PROVE  Owner[sent'[b][i].service] = b
  BY <1>2, <1>4 DEF TypeInv, Owned
<1>5. QED BY <1>3, <1>4

(* Taking the oldest message keeps the queues typed.                       *)
LEMMA ReceiveType ==
  ASSUME TypeInv, NEW a \in Apps, sent[a] # <<>>,
         sent' = [sent EXCEPT ![a] = Tail(@)]
  PROVE  /\ sent' \in [Apps -> Seq(Message)]
         /\ \A b \in Apps : \A i \in DOMAIN sent'[b] :
              sent'[b][i].kind # "gone" => Owner[sent'[b][i].service] = b
         /\ Head(sent[a]) \in Message /\ Head(sent[a]) = sent[a][1]
         /\ Head(sent[a]).kind # "gone" => Owner[Head(sent[a]).service] = a
<1>1. sent \in [Apps -> Seq(Message)] /\ sent[a] \in Seq(Message)
  BY DEF TypeInv, TypeOK
<1>2. ASSUME NEW b \in Apps
      PROVE  /\ sent'[b] \in Seq(Message)
             /\ \A i \in DOMAIN sent'[b] :
                  \E j \in DOMAIN sent[b] : sent'[b][i] = sent[b][j]
  <2>1. sent'[b] = IF b = a THEN Tail(sent[b]) ELSE sent[b]
    BY <1>1
  <2>2. sent[b] \in Seq(Message)
    BY <1>1
  <2>3. QED BY <2>1, <2>2
<1>3. sent' \in [Apps -> Seq(Message)]
  BY <1>1, <1>2
<1>4. ASSUME NEW b \in Apps, NEW i \in DOMAIN sent'[b], sent'[b][i].kind # "gone"
      PROVE  Owner[sent'[b][i].service] = b
  BY <1>2, <1>4 DEF TypeInv, Owned
<1>5. Head(sent[a]) \in Message /\ Head(sent[a]) = sent[a][1] /\ 1 \in DOMAIN sent[a]
  BY <1>1
<1>6. QED BY <1>3, <1>4, <1>5 DEF TypeInv, Owned

(* Asking an application keeps the queues of requests typed.               *)
LEMMA AskType ==
  ASSUME TypeInv, NEW a \in Apps, NEW s \in Services, Owner[s] = a,
         NEW kinds \in Seq({"pixmap", "name", "menu"}), Ask(a, kinds, s)
  PROVE  /\ asked' \in [Apps -> Seq(Request)]
         /\ \A b \in Apps : \A i \in DOMAIN asked'[b] : Owner[asked'[b][i].service] = b
<1> DEFINE more == [i \in DOMAIN kinds |-> [kind |-> kinds[i], service |-> s]]
<1>1. asked \in [Apps -> Seq(Request)]
  BY DEF TypeInv, TypeOK
<1>2. /\ more \in Seq(Request) /\ \A i \in DOMAIN more : more[i].service = s
  <2>1. Len(kinds) \in Nat /\ DOMAIN kinds = 1 .. Len(kinds)
    BY LenProperties
  <2>2. \A i \in 1 .. Len(kinds) : [kind |-> kinds[i], service |-> s] \in Request
    BY ElementOfSeq DEF Request
  <2>3. QED BY <2>1, <2>2
<1> HIDE DEF more
<1>3. ASSUME NEW b \in Apps
      PROVE  /\ asked'[b] \in Seq(Request)
             /\ \A i \in DOMAIN asked'[b] : Owner[asked'[b][i].service] = b
  <2>1. asked[b] \in Seq(Request)
        /\ \A i \in DOMAIN asked[b] : Owner[asked[b][i].service] = b
    BY <1>1 DEF TypeInv, Owned
  <2>2. CASE b = a /\ a \in alive
    <3>1. asked'[b] = asked[b] \o more
      BY <1>1, <2>2 DEF Ask, more
    <3>2. QED BY <1>2, <2>1, <2>2, <3>1
  <2>3. CASE ~(b = a /\ a \in alive)
    <3>1. asked'[b] = asked[b]
      BY <1>1, <2>3 DEF Ask
    <3>2. QED BY <2>1, <3>1
  <2>4. QED BY <2>2, <2>3
<1>4. asked' \in [Apps -> Seq(Request)]
  <2>1. asked' = [b \in Apps |-> asked'[b]]
    BY <1>1 DEF Ask
  <2>2. QED BY <1>3, <2>1
<1>5. QED BY <1>3, <1>4

(* The list of items: typed, each at an address of its own, and blank until*)
(* the first icon is loaded.                                               *)
Fit(its) ==
  /\ its \in Seq(Item)
  /\ \A i, j \in DOMAIN its : its[i].addr = its[j].addr => i = j
  /\ \A i \in DOMAIN its : its[i].gen = 0 <=> its[i].icon = NoImage

(* A new item at a free address fits.                                      *)
LEMMA AppendFits ==
  ASSUME NEW its, Fit(its), NEW s \in Services,
         NEW addr \in Addrs \ { its[i].addr : i \in DOMAIN its }
  PROVE  Fit(Append(its, [addr |-> addr, service |-> s, icon |-> NoImage,
                          gen |-> 0, menu |-> FALSE]))
<1> DEFINE item == [addr |-> addr, service |-> s, icon |-> NoImage,
                    gen |-> 0, menu |-> FALSE]
           more == Append(its, item)
<1>1. item \in Item
  BY DEF Item
<1>2. its \in Seq(Item)
  BY DEF Fit
<1>3. item.addr = addr /\ item.gen = 0 /\ item.icon = NoImage
  OBVIOUS
<1> HIDE DEF item
<1>4. /\ more \in Seq(Item)
      /\ DOMAIN its = 1 .. Len(its) /\ DOMAIN more = 1 .. Len(its) + 1
      /\ Len(its) \in Nat
      /\ more[Len(its) + 1] = item
      /\ \A i \in DOMAIN its : more[i] = its[i]
  BY <1>1, <1>2
<1> HIDE DEF more
<1>5. ASSUME NEW i \in DOMAIN more, NEW j \in DOMAIN more, more[i].addr = more[j].addr
      PROVE  i = j
  <2>1. CASE i \in DOMAIN its /\ j \in DOMAIN its
    BY <1>4, <1>5, <2>1 DEF Fit
  <2>2. CASE i \in DOMAIN its /\ j = Len(its) + 1
    BY <1>3, <1>4, <1>5, <2>2
  <2>3. CASE j \in DOMAIN its /\ i = Len(its) + 1
    BY <1>3, <1>4, <1>5, <2>3
  <2>4. QED BY <1>4, <2>1, <2>2, <2>3
<1>6. ASSUME NEW i \in DOMAIN more
      PROVE  more[i].gen = 0 <=> more[i].icon = NoImage
  BY <1>3, <1>4 DEF Fit
<1>7. QED BY <1>4, <1>5, <1>6 DEF Fit, more, item

(* So does a list in which one item has loaded an icon.                    *)
LEMMA LoadFits ==
  ASSUME NEW its, Fit(its), NEW k \in DOMAIN its, NEW icon \in Images
  PROVE  Fit([its EXCEPT ![k].icon = icon, ![k].gen = @ + 1])
<1> DEFINE new == [its EXCEPT ![k].icon = icon, ![k].gen = @ + 1]
<1>1. its \in Seq(Item) /\ Len(its) \in Nat /\ DOMAIN its = 1 .. Len(its)
  BY LenProperties DEF Fit
<1>2. its[k] \in Item
  BY <1>1, ElementOfSeq
<1>3. /\ DOMAIN new = DOMAIN its
      /\ \A i \in DOMAIN its : i # k => new[i] = its[i]
      /\ new[k] = [its[k] EXCEPT !.icon = icon, !.gen = @ + 1]
  BY <1>1, <1>2
<1> HIDE DEF new
<1>4. /\ new[k] \in Item /\ new[k].addr = its[k].addr
      /\ new[k].icon = icon /\ new[k].gen # 0
  <2>1. its[k].gen \in Nat
    BY <1>2 DEF Item
  <2>2. /\ new[k].addr = its[k].addr /\ new[k].service = its[k].service
        /\ new[k].menu = its[k].menu
        /\ new[k].icon = icon /\ new[k].gen = its[k].gen + 1
    BY <1>2, <1>3 DEF Item
  <2>3. new[k] \in Item
    <3>1. new[k] = [addr |-> its[k].addr, service |-> its[k].service, icon |-> icon,
                    gen |-> its[k].gen + 1, menu |-> its[k].menu]
      BY <1>2, <1>3 DEF Item
    <3>2. /\ its[k].addr \in Addrs /\ its[k].service \in Services
          /\ its[k].menu \in BOOLEAN /\ its[k].gen + 1 \in Nat
      BY <1>2, <2>1 DEF Item
    <3>3. QED BY <3>1, <3>2 DEF Item
  <2>4. QED BY <2>1, <2>2, <2>3
<1>5. new \in Seq(Item)
  <2>1. \A i \in 1 .. Len(its) : new[i] \in Item
    BY <1>1, <1>3, <1>4, ElementOfSeq
  <2>2. new = [i \in 1 .. Len(its) |-> new[i]]
    BY <1>1 DEF new
  <2>3. QED BY <1>1, <2>1, <2>2
<1>6. \A i, j \in DOMAIN new : new[i].addr = new[j].addr => i = j
  <2>1. \A i \in DOMAIN its : new[i].addr = its[i].addr
    BY <1>3, <1>4
  <2>2. QED BY <1>3, <2>1 DEF Fit
<1>7. \A i \in DOMAIN new : new[i].gen = 0 <=> new[i].icon = NoImage
  BY <1>3, <1>4, TrayAssumption DEF Fit
<1>8. QED BY <1>5, <1>6, <1>7 DEF Fit, new

(* And one in which the path of a menu came in.                            *)
LEMMA MenuPathFits ==
  ASSUME NEW its, Fit(its), NEW k \in DOMAIN its, NEW path \in BOOLEAN
  PROVE  Fit([its EXCEPT ![k].menu = path])
<1> DEFINE new == [its EXCEPT ![k].menu = path]
<1>1. its \in Seq(Item) /\ Len(its) \in Nat /\ DOMAIN its = 1 .. Len(its)
  BY LenProperties DEF Fit
<1>2. \A i \in DOMAIN its : its[i] \in Item
  BY <1>1, ElementOfSeq
<1>3. /\ DOMAIN new = DOMAIN its
      /\ \A i \in DOMAIN its :
           /\ new[i] \in Item
           /\ new[i].addr = its[i].addr /\ new[i].gen = its[i].gen
           /\ new[i].icon = its[i].icon
  BY <1>1, <1>2 DEF Item
<1>4. new \in Seq(Item)
  <2>1. new = [i \in 1 .. Len(its) |-> new[i]]
    BY <1>1
  <2> HIDE DEF new
  <2>2. QED BY <1>1, <1>3, <2>1
<1> HIDE DEF new
<1>5. Fit(new)
  BY <1>3, <1>4 DEF Fit
<1>6. QED BY <1>5 DEF new

(* And what is left of a list.                                             *)
LEMMA KeptFits ==
  ASSUME NEW its, Fit(its), NEW I \in SUBSET (DOMAIN its)
  PROVE  Fit(Kept(its, I))
<1> DEFINE new == Kept(its, I)
<1>1. /\ new \in Seq(Item)
      /\ \A n \in DOMAIN new : Nth(I, n) \in I /\ new[n] = its[Nth(I, n)]
      /\ \A m, n \in DOMAIN new : m < n => Nth(I, m) < Nth(I, n)
  BY KeptProperties DEF Fit
<1>2. /\ DOMAIN its = 1 .. Len(its) /\ Len(its) \in Nat
      /\ DOMAIN new = 1 .. Len(new) /\ Len(new) \in Nat
  BY <1>1, LenProperties DEF Fit
<1> HIDE DEF new
<1>3. ASSUME NEW m \in DOMAIN new, NEW n \in DOMAIN new, new[m].addr = new[n].addr
      PROVE  m = n
  <2>1. Nth(I, m) = Nth(I, n)
    BY <1>1, <1>3 DEF Fit
  <2>2. ~ (m < n) /\ ~ (n < m)
    <3>1. Nth(I, m) \in Nat /\ Nth(I, n) \in Nat
      BY <1>1, <1>2
    <3>2. QED BY <1>1, <2>1, <3>1
  <2>3. QED BY <1>2, <2>2
<1>4. \A n \in DOMAIN new : new[n].gen = 0 <=> new[n].icon = NoImage
  BY <1>1 DEF Fit
<1>5. QED BY <1>1, <1>3, <1>4 DEF Fit, new

LEMMA TypeInit == Init => TypeInv
<1> SUFFICES ASSUME Init PROVE TypeInv
  OBVIOUS
<1>1. /\ <<>> \in Seq(Message) /\ <<>> \in Seq(Request)
      /\ <<>> \in Seq(Item) /\ <<>> \in Seq(Cell)
  BY EmptySeq
<1>2. TypeOK
  BY <1>1 DEF Init, TypeOK
<1>3. Owned
  BY DEF Init, Owned
<1>4. QED BY <1>2, <1>3 DEF TypeInv

(* The applications keep the types.                                        *)
LEMMA AppType ==
  ASSUME TypeInv, AppNext
  PROVE  TypeInv'
<1>1. ASSUME NEW s \in Services, Announce(s)
      PROVE  TypeInv'
  <2>1. Owner[s] \in Apps
    BY TrayAssumption
  <2>2. [kind |-> "register", service |-> s] \in Message
    BY DEF Message
  <2>3. /\ sent' \in [Apps -> Seq(Message)]
        /\ \A b \in Apps : \A i \in DOMAIN sent'[b] :
             sent'[b][i].kind # "gone" => Owner[sent'[b][i].service] = b
    BY <1>1, <2>1, <2>2, SendType DEF Announce
  <2>4. QED BY <1>1, <2>1, <2>3 DEF Announce, TypeInv, TypeOK, Owned
<1>2. ASSUME NEW s \in Services, NEW new \in Looks[s], Change(s, new)
      PROVE  TypeInv'
  <2>1. Owner[s] \in Apps /\ new \in Look
    BY TrayAssumption
  <2>2. [kind |-> "new icon", service |-> s] \in Message
    BY DEF Message
  <2>3. /\ sent' \in [Apps -> Seq(Message)]
        /\ \A b \in Apps : \A i \in DOMAIN sent'[b] :
             sent'[b][i].kind # "gone" => Owner[sent'[b][i].service] = b
    <3>1. CASE Registered(s)
      BY <1>2, <2>1, <2>2, <3>1, SendType DEF Change
    <3>2. CASE ~ Registered(s)
      BY <1>2, <3>2 DEF Change, TypeInv, TypeOK, Owned
    <3>3. QED BY <3>1, <3>2
  <2>4. look' \in [Services -> Look] /\ changes' \in [Services -> Nat]
    <3>1. look \in [Services -> Look] /\ look' = [look EXCEPT ![s] = new]
      BY <1>2 DEF Change, TypeInv, TypeOK
    <3>2. changes \in [Services -> Nat] /\ changes' = [changes EXCEPT ![s] = @ + 1]
      BY <1>2 DEF Change, TypeInv, TypeOK
    <3>3. look' \in [Services -> Look]
      BY <2>1, <3>1
    <3>4. changes' \in [Services -> Nat]
      BY <3>2
    <3>5. QED BY <3>3, <3>4
  <2>5. QED BY <1>2, <2>3, <2>4 DEF Change, TypeInv, TypeOK, Owned
<1>3. ASSUME NEW a \in Apps, Answer(a)
      PROVE  TypeInv'
  <2> DEFINE request == Head(asked[a])
             s == request.service
  <2>1. asked[a] \in Seq(Request) /\ asked[a] # <<>>
    BY <1>3 DEF Answer, TypeInv, TypeOK
  <2>2. request \in Request /\ Owner[s] = a /\ s \in Services
    <3>1. request \in Request /\ request = asked[a][1] /\ 1 \in DOMAIN asked[a]
      BY <2>1
    <3>2. QED BY <3>1 DEF TypeInv, Owned, Request
  <2>3. look[s].pixmap \in Images \cup {NoImage} /\ look[s].name \in Images \cup {NoImage}
    BY <2>2 DEF TypeInv, TypeOK, Look
  <2>4. \E m \in Message : m.kind # "gone" /\ m.service = s /\ Send(a, m)
    <3>1. CASE Send(a, [kind |-> "pixmap", service |-> s, icon |-> look[s].pixmap])
      BY <2>2, <2>3, <3>1, MessageKinds
    <3>2. CASE Send(a, [kind |-> "name", service |-> s, icon |-> look[s].name])
      BY <2>2, <2>3, <3>2, MessageKinds
    <3>3. CASE \E path \in BOOLEAN : Send(a, [kind |-> "menu", service |-> s, path |-> path])
      BY <2>2, <2>3, <3>3, MessageKinds
    <3>4. QED BY <1>3, <3>1, <3>2, <3>3 DEF Answer
  <2>5. /\ sent' \in [Apps -> Seq(Message)]
        /\ \A b \in Apps : \A i \in DOMAIN sent'[b] :
             sent'[b][i].kind # "gone" => Owner[sent'[b][i].service] = b
    BY <2>2, <2>4, SendType
  <2>6. /\ asked' \in [Apps -> Seq(Request)]
        /\ \A b \in Apps : \A i \in DOMAIN asked'[b] : Owner[asked'[b][i].service] = b
    <3>1. asked \in [Apps -> Seq(Request)] /\ asked' = [asked EXCEPT ![a] = Tail(@)]
      BY <1>3 DEF Answer, TypeInv, TypeOK
    <3>2. ASSUME NEW b \in Apps
          PROVE  /\ asked'[b] \in Seq(Request)
                 /\ \A i \in DOMAIN asked'[b] :
                      \E j \in DOMAIN asked[b] : asked'[b][i] = asked[b][j]
      <4>1. asked'[b] = IF b = a THEN Tail(asked[b]) ELSE asked[b]
        BY <3>1
      <4>2. asked[b] \in Seq(Request)
        BY <3>1
      <4>3. QED BY <2>1, <4>1, <4>2
    <3>3. QED BY <3>1, <3>2 DEF TypeInv, Owned
  <2>7. QED BY <1>3, <2>5, <2>6 DEF Answer, appVars, TypeInv, TypeOK, Owned
<1>4. ASSUME NEW a \in Apps, Exit(a)
      PROVE  TypeInv'
  <2>1. [kind |-> "gone"] \in Message /\ [kind |-> "gone"].kind = "gone"
    BY DEF Message
  <2>2. /\ sent' \in [Apps -> Seq(Message)]
        /\ \A b \in Apps : \A i \in DOMAIN sent'[b] :
             sent'[b][i].kind # "gone" => Owner[sent'[b][i].service] = b
    BY <1>4, <2>1, SendType DEF Exit
  <2>3. /\ asked' \in [Apps -> Seq(Request)]
        /\ \A b \in Apps : \A i \in DOMAIN asked'[b] : Owner[asked'[b][i].service] = b
    BY <1>4, EmptySeq DEF Exit, TypeInv, TypeOK, Owned
  <2>4. QED BY <1>4, <2>2, <2>3 DEF Exit, TypeInv, TypeOK, Owned
<1>5. QED BY <1>1, <1>2, <1>3, <1>4 DEF AppNext

(* p is what is left of the queue q when replies were taken out of it: the *)
(* others stay, in their order.                                            *)
Thinned(q, p) ==
  \E f \in [DOMAIN p -> DOMAIN q] :
    /\ \A n \in DOMAIN f : p[n] = q[f[n]]
    /\ \A m, n \in DOMAIN f : m < n => f[m] < f[n]
    /\ \A i \in DOMAIN q : ~ IsReply(q[i]) => \E n \in DOMAIN f : f[n] = i

LEMMA RepliesDropped ==
  ASSUME NEW q \in Seq(Message), NEW I \in SUBSET (DOMAIN q),
         \A i \in DOMAIN q : ~ IsReply(q[i]) => i \in I
  PROVE  /\ Kept(q, I) \in Seq(Message)
         /\ \A n \in DOMAIN Kept(q, I) : \E i \in I : Kept(q, I)[n] = q[i]
         /\ Thinned(q, Kept(q, I))
<1> DEFINE rest == Kept(q, I)
<1>1. /\ rest \in Seq(Message)
      /\ \A n \in DOMAIN rest : Nth(I, n) \in I /\ rest[n] = q[Nth(I, n)]
      /\ \A m, n \in DOMAIN rest : m < n => Nth(I, m) < Nth(I, n)
      /\ \A i \in I : \E n \in DOMAIN rest : Nth(I, n) = i
  BY KeptProperties
<1> DEFINE f == [n \in DOMAIN rest |-> Nth(I, n)]
<1>2. \A n \in DOMAIN rest : f[n] = Nth(I, n)
  OBVIOUS
<1>3. DOMAIN f = DOMAIN rest /\ f \in [DOMAIN rest -> DOMAIN q]
  BY <1>1
<1> HIDE DEF f, rest
<1>4. /\ \A n \in DOMAIN f : rest[n] = q[f[n]]
      /\ \A m, n \in DOMAIN f : m < n => f[m] < f[n]
      /\ \A i \in DOMAIN q : ~ IsReply(q[i]) => \E n \in DOMAIN f : f[n] = i
  BY <1>1, <1>2, <1>3
<1>5. Thinned(q, rest)
  BY <1>3, <1>4 DEF Thinned
<1>6. QED BY <1>1, <1>5 DEF rest

(* Cancelling all of them leaves none.                                     *)
LEMMA WithoutRepliesLeaves ==
  ASSUME NEW q \in Seq(Message)
  PROVE  /\ WithoutReplies(q) \in Seq(Message)
         /\ \A n \in DOMAIN WithoutReplies(q) :
              \E i \in DOMAIN q : ~ IsReply(q[i]) /\ WithoutReplies(q)[n] = q[i]
         /\ Thinned(q, WithoutReplies(q))
<1> DEFINE I == { i \in DOMAIN q : ~ IsReply(q[i]) }
<1>1. I \in SUBSET (DOMAIN q) /\ \A i \in DOMAIN q : ~ IsReply(q[i]) <=> i \in I
  OBVIOUS
<1>2. WithoutReplies(q) = Kept(q, I)
  BY DEF WithoutReplies
<1> HIDE DEF I
<1>3. /\ Kept(q, I) \in Seq(Message)
      /\ \A n \in DOMAIN Kept(q, I) : \E i \in I : Kept(q, I)[n] = q[i]
      /\ Thinned(q, Kept(q, I))
  BY <1>1, RepliesDropped
<1>4. QED BY <1>1, <1>2, <1>3

(* What a call that ran out of time leaves in the queues.                  *)
LEMMA TimeOutEffect ==
  ASSUME TypeInv, NEW a \in Apps, TimeOut(a)
  PROVE  /\ sent' \in [Apps -> Seq(Message)] /\ asked' \in [Apps -> Seq(Request)]
         /\ \A n \in DOMAIN sent'[a] : \E i \in DOMAIN sent[a] : sent'[a][n] = sent[a][i]
         /\ Thinned(sent[a], sent'[a])
         /\ \A n \in DOMAIN asked'[a] : Owner[asked'[a][n].service] = a
         /\ \A b \in Apps : b # a => sent'[b] = sent[b] /\ asked'[b] = asked[b]
<1> DEFINE q == sent[a]
<1>1. /\ sent \in [Apps -> Seq(Message)] /\ asked \in [Apps -> Seq(Request)]
      /\ q \in Seq(Message) /\ asked[a] \in Seq(Request)
      /\ \A i \in DOMAIN q : q[i].kind # "gone" => Owner[q[i].service] = a
      /\ \A i \in DOMAIN asked[a] : Owner[asked[a][i].service] = a
  BY DEF TypeInv, TypeOK, Owned
<1>2. ASSUME NEW call, call.kind = "pixmap" => call.service \in Services /\ Owner[call.service] = a
      PROVE  /\ AfterError(a, call) \in Seq(Request)
             /\ \A i \in DOMAIN AfterError(a, call) : Owner[AfterError(a, call)[i].service] = a
  <2> DEFINE request == [kind |-> "name", service |-> call.service]
  <2>1. CASE call.kind = "pixmap" /\ a \in alive
    <3>1. request \in Request /\ Owner[request.service] = a
      BY <1>2, <2>1 DEF Request
    <3>2. AfterError(a, call) = <<request>>
      BY <2>1 DEF AfterError
    <3> HIDE DEF request
    <3>3. QED BY <3>1, <3>2
  <2>2. CASE ~ (call.kind = "pixmap" /\ a \in alive)
    BY <2>2, EmptySeq DEF AfterError
  <2>3. QED BY <2>1, <2>2
<1>3. ASSUME NEW r \in Seq(Request), \A i \in DOMAIN r : Owner[r[i].service] = a,
             NEW more \in Seq(Request), \A i \in DOMAIN more : Owner[more[i].service] = a
      PROVE  /\ r \o more \in Seq(Request)
             /\ \A i \in DOMAIN (r \o more) : Owner[(r \o more)[i].service] = a
  BY <1>3
<1>4. CASE \E i \in DOMAIN sent[a] :
             /\ IsReply(sent[a][i])
             /\ sent' = [sent EXCEPT ![a] = Kept(@, DOMAIN @ \ {i})]
             /\ asked' = [asked EXCEPT ![a] = @ \o AfterError(a, sent[a][i])]
  <2>1. PICK i \in DOMAIN q :
          /\ IsReply(q[i])
          /\ sent' = [sent EXCEPT ![a] = Kept(q, DOMAIN q \ {i})]
          /\ asked' = [asked EXCEPT ![a] = asked[a] \o AfterError(a, q[i])]
    BY <1>4
  <2> HIDE DEF q
  <2> DEFINE I == DOMAIN q \ {i}
  <2>2. I \in SUBSET (DOMAIN q) /\ \A j \in DOMAIN q : ~ IsReply(q[j]) => j \in I
    BY <2>1
  <2>3. sent' = [sent EXCEPT ![a] = Kept(q, I)]
    BY <2>1
  <2> HIDE DEF I
  <2>4. /\ Kept(q, I) \in Seq(Message)
        /\ \A n \in DOMAIN Kept(q, I) : \E j \in I : Kept(q, I)[n] = q[j]
        /\ Thinned(q, Kept(q, I))
    BY <1>1, <2>2, RepliesDropped
  <2>5. q[i] \in Message
    BY <1>1, <2>1, ElementOfSeq, LenProperties
  <2>6. q[i].kind = "pixmap" => q[i].service \in Services /\ Owner[q[i].service] = a
    BY <1>1, <2>5, MessageParts
  <2> DEFINE more == AfterError(a, q[i])
  <2>7. more \in Seq(Request) /\ \A j \in DOMAIN more : Owner[more[j].service] = a
    BY <1>2, <2>6
  <2>8. asked' = [asked EXCEPT ![a] = asked[a] \o more]
    BY <2>1
  <2> HIDE DEF more
  <2>9. /\ asked[a] \o more \in Seq(Request)
        /\ \A j \in DOMAIN (asked[a] \o more) : Owner[(asked[a] \o more)[j].service] = a
    BY <1>1, <1>3, <2>7
  <2>10. sent'[a] = Kept(q, I) /\ asked'[a] = asked[a] \o more
    BY <1>1, <2>3, <2>8
  <2>11. /\ sent' \in [Apps -> Seq(Message)] /\ asked' \in [Apps -> Seq(Request)]
         /\ \A b \in Apps : b # a => sent'[b] = sent[b] /\ asked'[b] = asked[b]
    BY <1>1, <2>3, <2>4, <2>8, <2>9
  <2>12. \A n \in DOMAIN sent'[a] : \E j \in DOMAIN q : sent'[a][n] = q[j]
    BY <2>2, <2>4, <2>10
  <2>13. \A n \in DOMAIN asked'[a] : Owner[asked'[a][n].service] = a
    BY <2>9, <2>10
  <2>14. QED BY <2>4, <2>10, <2>11, <2>12, <2>13 DEF q
<1>5. CASE /\ asked[a] # <<>>
           /\ asked' = [asked EXCEPT ![a] = Tail(@) \o AfterError(a, Head(@))]
           /\ UNCHANGED sent
  <2> DEFINE more == AfterError(a, Head(asked[a]))
             rest == Tail(asked[a])
  <2>1. asked' = [asked EXCEPT ![a] = rest \o more]
    BY <1>1, <1>5
  <2>2. /\ rest \in Seq(Request) /\ \A i \in DOMAIN rest : Owner[rest[i].service] = a
        /\ Head(asked[a]) = asked[a][1] /\ 1 \in DOMAIN asked[a]
    BY <1>1, <1>5
  <2>3. Head(asked[a]).service \in Services /\ Owner[Head(asked[a]).service] = a
    <3>1. asked[a][1] \in Request
      BY <1>1, <2>2
    <3>2. QED BY <1>1, <2>2, <3>1 DEF Request
  <2>4. more \in Seq(Request) /\ \A i \in DOMAIN more : Owner[more[i].service] = a
    BY <1>2, <2>3
  <2> HIDE DEF more, rest
  <2>5. /\ rest \o more \in Seq(Request)
        /\ \A i \in DOMAIN (rest \o more) : Owner[(rest \o more)[i].service] = a
    BY <1>3, <2>2, <2>4
  <2>6. asked'[a] = rest \o more
    BY <1>1, <2>1
  <2>7. /\ asked' \in [Apps -> Seq(Request)]
        /\ \A b \in Apps : b # a => asked'[b] = asked[b]
    BY <1>1, <2>1, <2>5
  <2>8. Thinned(q, q)
    <3> DEFINE f == [n \in DOMAIN q |-> n]
    <3>1. /\ f \in [DOMAIN q -> DOMAIN q] /\ DOMAIN f = DOMAIN q
          /\ \A n \in DOMAIN q : f[n] = n
      OBVIOUS
    <3> HIDE DEF f, q
    <3>2. QED BY <3>1 DEF Thinned
  <2>9. QED BY <1>1, <1>5, <2>5, <2>6, <2>7, <2>8
<1>6. QED BY <1>4, <1>5 DEF TimeOut

(* The bars and the user keep the types.                                   *)
LEMMA BarType ==
  ASSUME TypeInv, BarNext \/ CloseMenu
  PROVE  TypeInv'
<1>0. items \in Seq(Item) /\ <<>> \in Seq(Cell) /\ cells \in [Bars -> Seq(Cell)]
  BY EmptySeq DEF TypeInv, TypeOK
<1>1. ASSUME NEW b \in Bars, NewBar(b)
      PROVE  TypeInv'
  <2>1. RenderTray(<<>>, items) \in Seq(Cell)
    BY <1>0, RenderType
  <2>2. cells' \in [Bars -> Seq(Cell)]
    BY <1>0, <1>1, <2>1 DEF NewBar
  <2>3. QED BY <1>1, <2>2 DEF NewBar, appVars, TypeInv, TypeOK, Owned
<1>2. ASSUME NEW b \in Bars, BarGone(b)
      PROVE  TypeInv'
  <2>1. cells' \in [Bars -> Seq(Cell)]
    BY <1>0, <1>2 DEF BarGone
  <2>2. QED BY <1>2, <2>1 DEF BarGone, appVars, TypeInv, TypeOK, Owned
<1>3. ASSUME NEW b \in Bars, NEW i, OpenMenu(b, i)
      PROVE  TypeInv'
  <2>1. i \in DOMAIN items
    BY <1>3 DEF OpenMenu, Hit
  <2>2. items[i] \in Item
    BY <1>0, <2>1
  <2>3. menu' \in [addr: Addrs, service: Services]
    BY <1>3, <2>2 DEF OpenMenu, Item
  <2>4. QED BY <1>3, <2>3 DEF OpenMenu, appVars, TypeInv, TypeOK, Owned
<1>4. ASSUME CloseMenu
      PROVE  TypeInv'
  BY <1>4 DEF CloseMenu, appVars, TypeInv, TypeOK, Owned
<1>5. QED BY <1>1, <1>2, <1>3, <1>4 DEF BarNext

(* Both queues after a step of the host, and what the step leaves alone.   *)
QueuesTyped ==
  /\ sent \in [Apps -> Seq(Message)] /\ asked \in [Apps -> Seq(Request)]
  /\ Owned

(* The rest of the type is that of the items, the menu and the cells.      *)
LEMMA HostTypedLost ==
  ASSUME TypeInv, QueuesTyped', Fit(items'), lost' \subseteq Apps,
         UNCHANGED <<alive, announced, look, changes, bars>>,
         cells' \in [Bars -> Seq(Cell)],
         menu' \in [addr: Addrs, service: Services] \cup {NoMenu}
  PROVE  TypeInv'
  BY DEF TypeInv, TypeOK, QueuesTyped, Fit

LEMMA HostTyped ==
  ASSUME TypeInv, QueuesTyped', Fit(items'), UNCHANGED <<appVars, bars>>,
         cells' \in [Bars -> Seq(Cell)],
         menu' \in [addr: Addrs, service: Services] \cup {NoMenu}
  PROVE  TypeInv'
  BY HostTypedLost DEF TypeInv, TypeOK, appVars

(* Loading an icon keeps the items fit and the cells typed.                *)
LEMMA LoadType ==
  ASSUME TypeInv, NEW s \in Services, Registered(s), NEW icon \in Images,
         Load(s, icon)
  PROVE  Fit(items') /\ cells' \in [Bars -> Seq(Cell)]
<1>1. Fit(items) /\ Slot(s) \in DOMAIN items
  BY SlotFinds DEF TypeInv, TypeOK, Fit
<1>2. Fit(items')
  BY <1>1, LoadFits DEF Load
<1>3. items' \in Seq(Item) /\ RefreshAll(items')
  BY <1>2 DEF Fit, Load
<1>4. QED BY <1>2, <1>3, RefreshType DEF TypeInv

(* The host keeps the types.                                               *)
LEMMA HostType ==
  ASSUME TypeInv, HostNext
  PROVE  TypeInv'
<1> USE DEF QueuesTyped
<1>0. /\ Fit(items) /\ menu \in [addr: Addrs, service: Services] \cup {NoMenu}
      /\ cells \in [Bars -> Seq(Cell)] /\ QueuesTyped
  BY DEF TypeInv, TypeOK, Fit
<1>a. ASSUME NEW a \in Apps, NEW kind \in {"register", "new icon", "pixmap", "name", "menu"},
             Receive(a, kind)
      PROVE  /\ sent' \in [Apps -> Seq(Message)]
             /\ \A b \in Apps : \A i \in DOMAIN sent'[b] :
                  sent'[b][i].kind # "gone" => Owner[sent'[b][i].service] = b
             /\ Head(sent[a]).kind = kind
             /\ Head(sent[a]).service \in Services
             /\ Owner[Head(sent[a]).service] = a
             /\ kind \in {"pixmap", "name"} => Head(sent[a]).icon \in Images \cup {NoImage}
             /\ kind = "menu" => Head(sent[a]).path \in BOOLEAN
  <2>1. /\ sent[a] # <<>> /\ sent' = [sent EXCEPT ![a] = Tail(@)]
        /\ Head(sent[a]).kind = kind
    BY <1>a DEF Receive
  <2>2. QED BY <2>1, ReceiveType, MessageParts
<1>b. <<"pixmap", "menu">> \in Seq({"pixmap", "name", "menu"})
      /\ <<"pixmap">> \in Seq({"pixmap", "name", "menu"})
      /\ <<"name">> \in Seq({"pixmap", "name", "menu"})
  OBVIOUS
<1>c. ASSUME NEW a \in Apps, NEW kind \in {"register", "new icon", "pixmap", "name", "menu"},
             Receive(a, kind),
             NEW kinds \in Seq({"pixmap", "name", "menu"}),
             Ask(a, kinds, Head(sent[a]).service)
      PROVE  QueuesTyped'
  <2>1. Head(sent[a]).service \in Services /\ Owner[Head(sent[a]).service] = a
    BY <1>a, <1>c
  <2>2. /\ asked' \in [Apps -> Seq(Request)]
        /\ \A b \in Apps : \A i \in DOMAIN asked'[b] : Owner[asked'[b][i].service] = b
    BY <1>c, <2>1, AskType
  <2>3. QED BY <1>a, <1>c, <2>2 DEF Owned
<1>1. ASSUME NEW a \in Apps, HandleRegister(a)
      PROVE  TypeInv'
  <2> DEFINE s == Head(sent[a]).service
  <2>1. Receive(a, "register") /\ UNCHANGED <<appVars, menu, bars>>
    BY <1>1 DEF HandleRegister
  <2>2. CASE Known(s)
    <3>1. UNCHANGED <<asked, items, cells>>
      BY <1>1, <2>2 DEF HandleRegister
    <3>2. QueuesTyped'
      BY <1>0, <1>a, <2>1, <3>1 DEF Owned
    <3>3. QED BY <1>0, <2>1, <3>1, <3>2, HostTyped DEF Fit
  <2>3. CASE ~ Known(s)
    <3>1. /\ Ask(a, <<"pixmap", "menu">>, s) /\ RefreshAll(items')
          /\ \E addr \in Addrs \ { items[i].addr : i \in DOMAIN items } :
               items' = Append(items, [addr |-> addr, service |-> s, icon |-> NoImage,
                                       gen |-> 0, menu |-> FALSE])
      BY <1>1, <2>3 DEF HandleRegister
    <3>2. Fit(items')
      <4>1. s \in Services
        BY <1>a, <2>1
      <4>2. PICK addr \in Addrs \ { items[i].addr : i \in DOMAIN items } :
              items' = Append(items, [addr |-> addr, service |-> s, icon |-> NoImage,
                                      gen |-> 0, menu |-> FALSE])
        BY <3>1
      <4>3. QED BY <1>0, <4>1, <4>2, AppendFits
    <3>3. cells' \in [Bars -> Seq(Cell)]
      BY <3>1, <3>2, RefreshType DEF TypeInv, Fit
    <3>4. QueuesTyped'
      BY <1>b, <1>c, <2>1, <3>1
    <3>5. QED BY <1>0, <2>1, <3>2, <3>3, <3>4, HostTyped
  <2>4. QED BY <2>2, <2>3
<1>2. ASSUME NEW a \in Apps, HandleNewIcon(a)
      PROVE  TypeInv'
  <2> DEFINE s == Head(sent[a]).service
  <2>1. Receive(a, "new icon") /\ UNCHANGED <<appVars, items, menu, bars>>
    BY <1>2 DEF HandleNewIcon
  <2>2. CASE Registered(s)
    <3>1. Ask(a, <<"pixmap">>, s) /\ RefreshAll(items)
      BY <1>2, <2>2 DEF HandleNewIcon, FetchIcon
    <3>2. cells' \in [Bars -> Seq(Cell)]
      BY <1>0, <3>1, RefreshType DEF TypeInv, Fit
    <3>3. QueuesTyped'
      BY <1>b, <1>c, <2>1, <3>1
    <3>4. QED BY <1>0, <2>1, <3>2, <3>3, HostTyped DEF Fit
  <2>3. CASE ~ Registered(s)
    <3>1. UNCHANGED <<asked, cells>>
      BY <1>2, <2>3 DEF HandleNewIcon
    <3>2. QueuesTyped'
      BY <1>0, <1>a, <2>1, <3>1 DEF Owned
    <3>3. QED BY <1>0, <2>1, <3>1, <3>2, HostTyped DEF Fit
  <2>4. QED BY <2>2, <2>3
<1>3. ASSUME NEW a \in Apps, HandlePixmap(a)
      PROVE  TypeInv'
  <2> DEFINE s == Head(sent[a]).service
             icon == Head(sent[a]).icon
  <2>1. Receive(a, "pixmap") /\ UNCHANGED <<appVars, menu, bars>>
    BY <1>3 DEF HandlePixmap
  <2>2. CASE ~ Registered(s)
    <3>1. UNCHANGED <<asked, items, cells>>
      BY <1>3, <2>2 DEF HandlePixmap
    <3>2. QueuesTyped'
      BY <1>0, <1>a, <2>1, <3>1 DEF Owned
    <3>3. QED BY <1>0, <2>1, <3>1, <3>2, HostTyped DEF Fit
  <2>3. CASE Registered(s) /\ Usable(icon)
    <3>1. Load(s, icon) /\ UNCHANGED asked
      BY <1>3, <2>3 DEF HandlePixmap
    <3>2. icon \in Images /\ s \in Services
      BY <1>a, <2>1, <2>3 DEF Usable
    <3>3. Fit(items') /\ cells' \in [Bars -> Seq(Cell)]
      BY <2>3, <3>1, <3>2, LoadType
    <3>4. QueuesTyped'
      BY <1>0, <1>a, <2>1, <3>1 DEF Owned
    <3>5. QED BY <1>0, <2>1, <3>3, <3>4, HostTyped
  <2>4. CASE Registered(s) /\ ~ Usable(icon)
    <3>1. Ask(a, <<"name">>, s) /\ UNCHANGED <<items, cells>>
      BY <1>3, <2>4 DEF HandlePixmap, FetchName
    <3>2. QueuesTyped'
      BY <1>b, <1>c, <2>1, <3>1
    <3>3. QED BY <1>0, <2>1, <3>1, <3>2, HostTyped DEF Fit
  <2>5. QED BY <2>2, <2>3, <2>4
<1>4. ASSUME NEW a \in Apps, HandleName(a)
      PROVE  TypeInv'
  <2> DEFINE s == Head(sent[a]).service
             icon == Head(sent[a]).icon
  <2>1. Receive(a, "name") /\ UNCHANGED <<appVars, asked, menu, bars>>
    BY <1>4 DEF HandleName
  <2>2. QueuesTyped'
    BY <1>0, <1>a, <2>1 DEF Owned
  <2>3. CASE Registered(s) /\ Usable(icon)
    <3>1. Load(s, icon)
      BY <1>4, <2>3 DEF HandleName
    <3>2. icon \in Images /\ s \in Services
      BY <1>a, <2>1, <2>3 DEF Usable
    <3>3. Fit(items') /\ cells' \in [Bars -> Seq(Cell)]
      BY <2>3, <3>1, <3>2, LoadType
    <3>4. QED BY <1>0, <2>1, <2>2, <3>3, HostTyped
  <2>4. CASE ~ (Registered(s) /\ Usable(icon))
    <3>1. UNCHANGED <<items, cells>>
      BY <1>4, <2>4 DEF HandleName
    <3>2. QED BY <1>0, <2>1, <2>2, <3>1, HostTyped DEF Fit
  <2>5. QED BY <2>3, <2>4
<1>5. ASSUME NEW a \in Apps, HandleMenuPath(a)
      PROVE  TypeInv'
  <2> DEFINE s == Head(sent[a]).service
  <2>1. Receive(a, "menu") /\ UNCHANGED <<appVars, asked, menu, bars, cells>>
    BY <1>5 DEF HandleMenuPath
  <2>2. QueuesTyped'
    BY <1>0, <1>a, <2>1 DEF Owned
  <2>3. Fit(items')
    <3>1. CASE Registered(s)
      <4>1. Slot(s) \in DOMAIN items
        BY <3>1, SlotFinds
      <4>2. Head(sent[a]).path \in BOOLEAN
        BY <1>a, <2>1
      <4>3. items' = [items EXCEPT ![Slot(s)].menu = Head(sent[a]).path]
        BY <1>5, <3>1 DEF HandleMenuPath
      <4>4. QED BY <1>0, <4>1, <4>2, <4>3, MenuPathFits
    <3>2. CASE ~ Registered(s)
      BY <1>0, <1>5, <3>2 DEF HandleMenuPath
    <3>3. QED BY <3>1, <3>2
  <2>4. QED BY <1>0, <2>1, <2>2, <2>3, HostTyped
<1>6. ASSUME NEW a \in Apps, HandleGone(a)
      PROVE  TypeInv'
  <2>1. /\ sent[a] # <<>> /\ CloseMenuOf(a) /\ items' = EraseItems(a)
        /\ sent' = [sent EXCEPT ![a] = WithoutReplies(Tail(@))]
        /\ asked' = [asked EXCEPT ![a] = <<>>]
        /\ UNCHANGED <<alive, announced, look, changes, bars>> /\ lost' = lost \ {a}
    BY <1>6 DEF HandleGone
  <2>2. Fit(items')
    BY <1>0, <2>1, KeptFits DEF EraseItems
  <2>3. cells' \in [Bars -> Seq(Cell)]
    BY <1>0, <1>6, <2>2, RefreshType DEF HandleGone, TypeInv, Fit
  <2>4. menu' \in [addr: Addrs, service: Services] \cup {NoMenu}
    BY <1>0, <2>1 DEF CloseMenuOf
  <2>5. asked' \in [Apps -> Seq(Request)]
        /\ \A b \in Apps : \A i \in DOMAIN asked'[b] : Owner[asked'[b][i].service] = b
    BY <1>0, <2>1, EmptySeq DEF Owned
  <2>6. ASSUME NEW b \in Apps
        PROVE  /\ sent'[b] \in Seq(Message)
               /\ \A i \in DOMAIN sent'[b] :
                    \E j \in DOMAIN sent[b] : sent'[b][i] = sent[b][j]
    <3>1. sent[b] \in Seq(Message)
      BY <1>0
    <3>2. CASE b # a
      BY <1>0, <2>1, <3>1, <3>2
    <3>3. CASE b = a
      <4>1. sent'[b] = WithoutReplies(Tail(sent[b])) /\ sent[b] # <<>>
        BY <1>0, <2>1, <3>3
      <4>2. /\ Tail(sent[b]) \in Seq(Message)
            /\ \A i \in DOMAIN Tail(sent[b]) :
                 i + 1 \in DOMAIN sent[b] /\ Tail(sent[b])[i] = sent[b][i + 1]
        BY <3>1, <4>1
      <4> DEFINE t == Tail(sent[b])
                 rest == WithoutReplies(t)
      <4>3. /\ rest \in Seq(Message)
            /\ \A n \in DOMAIN rest : \E i \in DOMAIN t : rest[n] = t[i]
        <5>1. t \in Seq(Message)
          BY <4>2
        <5> HIDE DEF t
        <5>2. QED BY <5>1, WithoutRepliesLeaves
      <4>4. sent'[b] = rest
        BY <4>1
      <4> HIDE DEF rest
      <4>5. QED BY <4>2, <4>3, <4>4
    <3>4. QED BY <3>2, <3>3
  <2>7. sent' \in [Apps -> Seq(Message)]
    BY <1>0, <2>1, <2>6
  <2>8. QueuesTyped'
    BY <1>0, <2>5, <2>6, <2>7 DEF Owned
  <2>9. lost' \subseteq Apps
    BY <2>1 DEF TypeInv, TypeOK
  <2>10. QED BY <1>0, <2>1, <2>2, <2>3, <2>4, <2>8, <2>9, HostTypedLost
<1>7. ASSUME NEW a \in Apps, TimeOut(a)
      PROVE  TypeInv'
  <2>1. /\ sent' \in [Apps -> Seq(Message)] /\ asked' \in [Apps -> Seq(Request)]
        /\ \A n \in DOMAIN sent'[a] : \E i \in DOMAIN sent[a] : sent'[a][n] = sent[a][i]
        /\ \A n \in DOMAIN asked'[a] : Owner[asked'[a][n].service] = a
        /\ \A b \in Apps : b # a => sent'[b] = sent[b] /\ asked'[b] = asked[b]
    BY <1>7, TimeOutEffect
  <2>2. Owned'
    <3>1. ASSUME NEW b \in Apps
          PROVE  /\ \A n \in DOMAIN sent'[b] :
                      sent'[b][n].kind # "gone" => Owner[sent'[b][n].service] = b
                 /\ \A n \in DOMAIN asked'[b] : Owner[asked'[b][n].service] = b
      <4>1. /\ \A i \in DOMAIN sent[b] :
                 sent[b][i].kind # "gone" => Owner[sent[b][i].service] = b
            /\ \A i \in DOMAIN asked[b] : Owner[asked[b][i].service] = b
        BY DEF TypeInv, Owned
      <4>2. CASE b = a
        BY <2>1, <4>1, <4>2
      <4>3. CASE b # a
        BY <2>1, <4>1, <4>3
      <4>4. QED BY <4>2, <4>3
    <3>2. QED BY <3>1 DEF Owned
  <2>3. UNCHANGED <<alive, announced, look, changes, items, menu, bars, cells>>
        /\ lost' = lost \cup {a}
    BY <1>7 DEF TimeOut
  <2>4. QED BY <2>1, <2>2, <2>3 DEF TypeInv, TypeOK
<1>8. QED BY <1>1, <1>2, <1>3, <1>4, <1>5, <1>6, <1>7 DEF HostNext

(* Every step keeps the types.                                             *)
LEMMA TypeStep ==
  ASSUME TypeInv, [Next]_vars
  PROVE  TypeInv'
<1>1. CASE UNCHANGED vars
  BY <1>1 DEF vars, TypeInv, TypeOK, Owned
<1>2. QED BY <1>1, AppType, HostType, BarType DEF Next

(* TypeOK holds in every state of every tray: with it, that no application *)
(* is asked or heard about an item of another.                             *)
THEOREM TrayTypeCorrect == Spec => []TypeOK
<1>1. TypeInv /\ [Next]_vars => TypeInv'
  BY TypeStep
<1>2. TypeInv => TypeOK
  BY DEF TypeInv
<1>3. QED BY <1>1, <1>2, TypeInit, PTL DEF Spec

-----------------------------------------------------------------------------
(* What a step does to the list of items *)

(* Loading changes the icon and the generation of one item.                *)
LEMMA LoadEffect ==
  ASSUME TypeInv, NEW s, Registered(s), NEW icon, Load(s, icon)
  PROVE  /\ DOMAIN items' = DOMAIN items
         /\ \A i \in DOMAIN items :
              /\ items'[i].addr = items[i].addr
              /\ items'[i].service = items[i].service
              /\ i # Slot(s) => items'[i] = items[i]
         /\ Slot(s) \in DOMAIN items
         /\ items'[Slot(s)].icon = icon
         /\ items'[Slot(s)].gen # items[Slot(s)].gen
<1> DEFINE k == Slot(s)
<1>1. k \in DOMAIN items
  BY SlotFinds
<1>2. \A i \in DOMAIN items : items[i] \in Item
  BY ElementOfSeq, LenProperties DEF TypeInv, TypeOK
<1>3. items' = [items EXCEPT ![k].icon = icon, ![k].gen = @ + 1]
  BY DEF Load
<1> HIDE DEF k
<1>4. DOMAIN items' = DOMAIN items /\ \A i \in DOMAIN items : i # k => items'[i] = items[i]
  BY <1>3
<1>5. items[k] \in Item /\ items[k].gen \in Nat
  BY <1>1, <1>2 DEF Item
<1>6. /\ items'[k].addr = items[k].addr /\ items'[k].service = items[k].service
      /\ items'[k].icon = icon /\ items'[k].gen = items[k].gen + 1
  BY <1>1, <1>3, <1>5 DEF Item
<1>7. QED BY <1>1, <1>4, <1>5, <1>6 DEF k

(* The path of a menu changes nothing that is drawn or looked up.          *)
LEMMA MenuPathEffect ==
  ASSUME TypeInv, NEW a, HandleMenuPath(a)
  PROVE  /\ DOMAIN items' = DOMAIN items
         /\ \A i \in DOMAIN items :
              /\ items'[i].addr = items[i].addr /\ items'[i].service = items[i].service
              /\ items'[i].icon = items[i].icon /\ items'[i].gen = items[i].gen
<1> DEFINE s == Head(sent[a]).service
<1>1. CASE ~ Registered(s)
  BY <1>1 DEF HandleMenuPath
<1>2. CASE Registered(s)
  <2>1. \A i \in DOMAIN items : items[i] \in Item
    BY ElementOfSeq, LenProperties DEF TypeInv, TypeOK
  <2>2. items' = [items EXCEPT ![Slot(s)].menu = Head(sent[a]).path]
    BY <1>2 DEF HandleMenuPath
  <2>3. QED BY <2>1, <2>2 DEF Item
<1>3. QED BY <1>1, <1>2

(* A new item comes last; no other has its service.                        *)
LEMMA RegisterEffect ==
  ASSUME TypeInv, NEW a \in Apps, HandleRegister(a), ~ Registered(Head(sent[a]).service)
  PROVE  /\ Len(items) \in Nat
         /\ DOMAIN items = 1 .. Len(items) /\ DOMAIN items' = 1 .. Len(items) + 1
         /\ \A i \in DOMAIN items : items'[i] = items[i]
         /\ items'[Len(items) + 1].service = Head(sent[a]).service
         /\ items'[Len(items) + 1].icon = NoImage
         /\ RefreshAll(items')
<1>1. PICK addr \in Addrs :
        items' = Append(items, [addr |-> addr, service |-> Head(sent[a]).service,
                                icon |-> NoImage, gen |-> 0, menu |-> FALSE])
  BY DEF HandleRegister, Known
<1>2. items \in Seq(Item) /\ RefreshAll(items')
  BY DEF HandleRegister, Known, TypeInv, TypeOK
<1> DEFINE item == [addr |-> addr, service |-> Head(sent[a]).service,
                    icon |-> NoImage, gen |-> 0, menu |-> FALSE]
<1>3. item.service = Head(sent[a]).service /\ item.icon = NoImage
  OBVIOUS
<1> HIDE DEF item
<1>4. items' = Append(items, item)
  BY <1>1 DEF item
<1>5. QED BY <1>2, <1>3, <1>4

(* Of the items of an application that is gone none is left, of the others *)
(* all, in their order.                                                    *)
LEMMA EraseEffect ==
  ASSUME TypeInv, NEW a, HandleGone(a)
  PROVE  /\ \A n \in DOMAIN items' : \E i \in DOMAIN items :
              items'[n] = items[i] /\ Owner[items[i].service] # a
         /\ \A i \in DOMAIN items : Owner[items[i].service] # a =>
              \E n \in DOMAIN items' : items'[n] = items[i]
         /\ \A m, n \in DOMAIN items' : m # n =>
              \E i, j \in DOMAIN items : /\ i # j
                                         /\ items'[m] = items[i] /\ items'[n] = items[j]
<1> DEFINE I == { i \in DOMAIN items : Owner[items[i].service] # a }
<1>1. items' = Kept(items, I) /\ items \in Seq(Item) /\ I \in SUBSET (DOMAIN items)
  BY DEF HandleGone, EraseItems, TypeInv, TypeOK
<1>2. \A i \in DOMAIN items : Owner[items[i].service] # a <=> i \in I
  OBVIOUS
<1> HIDE DEF I
<1>3. /\ items' \in Seq(Item)
      /\ \A n \in DOMAIN items' : Nth(I, n) \in I /\ items'[n] = items[Nth(I, n)]
      /\ \A m, n \in DOMAIN items' : m < n => Nth(I, m) < Nth(I, n)
      /\ \A i \in I : \E n \in DOMAIN items' : Nth(I, n) = i
  BY <1>1, KeptProperties
<1>4. /\ DOMAIN items = 1 .. Len(items) /\ Len(items) \in Nat
      /\ DOMAIN items' = 1 .. Len(items') /\ Len(items') \in Nat
  BY <1>1, <1>3, LenProperties
<1>5. ASSUME NEW m \in DOMAIN items', NEW n \in DOMAIN items', m # n
      PROVE  Nth(I, m) # Nth(I, n)
  <2>1. Nth(I, m) \in Nat /\ Nth(I, n) \in Nat
    BY <1>1, <1>3, <1>4
  <2>2. m < n \/ n < m
    BY <1>4, <1>5
  <2>3. QED BY <1>3, <2>1, <2>2
<1>6. QED BY <1>1, <1>2, <1>3, <1>5

-----------------------------------------------------------------------------
(* The icons on the bars *)

(* The cell that shows an item as it is.                                   *)
CellOf(item) == [addr |-> item.addr, gen |-> item.gen, drawn |-> PictureOf(item)]

(* The inductive form of CellsMatch: the keys of the cells agree as well.  *)
CellsExact == \A b \in bars : cells[b] = [i \in DOMAIN items |-> CellOf(items[i])]

CellsInv == TypeInv /\ CellsExact

(* Where an item of the old list and one of the new have the same key, they*)
(* look the same.                                                          *)
KeysTell(was, its) ==
  \A i \in DOMAIN was \cap DOMAIN its :
    was[i].addr = its[i].addr /\ was[i].gen = its[i].gen =>
      PictureOf(was[i]) = PictureOf(its[i])

(* Then a row that showed the old list is drawn to show the new.           *)
LEMMA RowRendered ==
  ASSUME NEW was, NEW its, KeysTell(was, its)
  PROVE  RenderTray([i \in DOMAIN was |-> CellOf(was[i])], its)
           = [i \in DOMAIN its |-> CellOf(its[i])]
<1> DEFINE row == [i \in DOMAIN was |-> CellOf(was[i])]
<1>1. ASSUME NEW i \in DOMAIN its
      PROVE  RenderTray(row, its)[i] = CellOf(its[i])
  <2>1. RenderTray(row, its)[i] =
          IF i \in DOMAIN was /\ UpToDate(CellOf(was[i]), its[i]) THEN CellOf(was[i])
          ELSE CellOf(its[i])
    BY DEF RenderTray, CellOf
  <2>2. CASE i \in DOMAIN was /\ UpToDate(CellOf(was[i]), its[i])
    <3>1. was[i].addr = its[i].addr /\ was[i].gen = its[i].gen
      BY <2>2 DEF UpToDate, CellOf
    <3>2. PictureOf(was[i]) = PictureOf(its[i])
      BY <2>2, <3>1 DEF KeysTell
    <3>3. QED BY <2>1, <2>2, <3>1, <3>2 DEF CellOf
  <2>3. CASE ~ (i \in DOMAIN was /\ UpToDate(CellOf(was[i]), its[i]))
    BY <2>1, <2>3
  <2>4. QED BY <2>2, <2>3
<1>2. RenderTray(row, its) = [i \in DOMAIN its |-> RenderTray(row, its)[i]]
  BY DEF RenderTray
<1> HIDE DEF row
<1>3. [i \in DOMAIN its |-> RenderTray(row, its)[i]] = [i \in DOMAIN its |-> CellOf(its[i])]
  BY <1>1
<1>4. QED BY <1>2, <1>3 DEF row

(* A handler that draws the bars leaves them exact.                        *)
LEMMA RefreshExact ==
  ASSUME CellsInv, RefreshAll(items'), UNCHANGED bars, KeysTell(items, items')
  PROVE  CellsExact'
<1> SUFFICES ASSUME NEW b \in bars
             PROVE  cells'[b] = [i \in DOMAIN items' |-> CellOf(items'[i])]
  BY DEF CellsExact, CellOf, PictureOf
<1>1. cells[b] = [i \in DOMAIN items |-> CellOf(items[i])]
  BY DEF CellsInv, CellsExact
<1>2. b \in Bars
  BY DEF CellsInv, TypeInv, TypeOK
<1>3. cells'[b] = RenderTray(cells[b], items')
  BY <1>2 DEF RefreshAll
<1>4. QED BY <1>1, <1>3, RowRendered

(* A step that leaves what is drawn of every item alone.                   *)
LEMMA UndrawnExact ==
  ASSUME CellsInv, UNCHANGED <<bars, cells>>, DOMAIN items' = DOMAIN items,
         \A i \in DOMAIN items :
           /\ items'[i].addr = items[i].addr /\ items'[i].service = items[i].service
           /\ items'[i].icon = items[i].icon /\ items'[i].gen = items[i].gen
  PROVE  CellsExact'
  BY DEF CellsInv, CellsExact, CellOf, PictureOf

LEMMA CellsInit == Init => CellsExact
  BY DEF Init, CellsExact

(* Every step keeps the cells exact.                                       *)
LEMMA CellsStep ==
  ASSUME CellsInv, [Next]_vars
  PROVE  CellsExact'
<1>0. TypeInv /\ TypeInv'
  BY TypeStep DEF CellsInv
<1>1. CASE UNCHANGED <<items, bars, cells>>
  BY <1>1 DEF CellsInv, CellsExact, CellOf, PictureOf
<1>2. ASSUME NEW s, NEW icon, Registered(s), Load(s, icon), UNCHANGED bars
      PROVE  CellsExact'
  <2>1. KeysTell(items, items')
    BY <1>0, <1>2, LoadEffect DEF KeysTell
  <2>2. QED BY <1>2, <2>1, RefreshExact DEF Load
<1>3. ASSUME NEW a \in Apps, HandleRegister(a)
      PROVE  CellsExact'
  <2>1. CASE Registered(Head(sent[a]).service)
    BY <1>1, <1>3, <2>1 DEF HandleRegister, Known
  <2>2. CASE ~ Registered(Head(sent[a]).service)
    <3>1. KeysTell(items, items') /\ RefreshAll(items')
      BY <1>0, <1>3, <2>2, RegisterEffect DEF KeysTell
    <3>2. QED BY <1>3, <3>1, RefreshExact DEF HandleRegister
  <2>3. QED BY <2>1, <2>2
<1>4. ASSUME NEW a \in Apps, HandleNewIcon(a)
      PROVE  CellsExact'
  <2>1. KeysTell(items, items') /\ UNCHANGED <<items, bars>>
    BY <1>4 DEF HandleNewIcon, KeysTell
  <2>2. CASE RefreshAll(items)
    BY <2>1, <2>2, RefreshExact
  <2>3. CASE UNCHANGED cells
    BY <1>1, <2>1, <2>3
  <2>4. QED BY <1>4, <2>2, <2>3 DEF HandleNewIcon
<1>5. ASSUME NEW a \in Apps, HandlePixmap(a)
      PROVE  CellsExact'
  BY <1>1, <1>2, <1>5 DEF HandlePixmap
<1>6. ASSUME NEW a \in Apps, HandleName(a)
      PROVE  CellsExact'
  BY <1>1, <1>2, <1>6 DEF HandleName
<1>7. ASSUME NEW a \in Apps, HandleMenuPath(a)
      PROVE  CellsExact'
  BY <1>0, <1>7, MenuPathEffect, UndrawnExact DEF HandleMenuPath
<1>8. ASSUME NEW a \in Apps, HandleGone(a)
      PROVE  CellsExact'
  <2>1. UNCHANGED bars /\ (RefreshAll(items') \/ UNCHANGED <<items, cells>>)
    BY <1>8 DEF HandleGone
  <2>2. KeysTell(items, items')
    <3> SUFFICES ASSUME NEW n \in DOMAIN items \cap DOMAIN items',
                        items[n].addr = items'[n].addr
                 PROVE  items[n] = items'[n]
      BY DEF KeysTell
    <3>1. PICK i \in DOMAIN items : items'[n] = items[i]
      BY <1>0, <1>8, EraseEffect
    <3>2. i = n
      BY <1>0, <3>1 DEF TypeInv, TypeOK
    <3>3. QED BY <3>1, <3>2
  <2>3. QED BY <1>1, <2>1, <2>2, RefreshExact
<1>9. ASSUME NEW b \in Bars, NewBar(b)
      PROVE  CellsExact'
  <2> SUFFICES ASSUME NEW c \in bars'
               PROVE  cells'[c] = [i \in DOMAIN items |-> CellOf(items[i])]
    BY <1>9 DEF NewBar, CellsExact, CellOf, PictureOf
  <2>1. CASE c = b
    <3>1. cells'[b] = RenderTray(<<>>, items)
      BY <1>0, <1>9 DEF NewBar, TypeInv, TypeOK
    <3>2. RenderTray(<<>>, items) = [i \in DOMAIN items |-> CellOf(items[i])]
      BY DEF RenderTray, CellOf
    <3>3. QED BY <2>1, <3>1, <3>2
  <2>2. CASE c # b
    <3>1. c \in bars /\ cells'[c] = cells[c]
      BY <1>0, <1>9, <2>2 DEF NewBar, TypeInv, TypeOK
    <3>2. QED BY <3>1 DEF CellsInv, CellsExact
  <2>3. QED BY <2>1, <2>2
<1>10. ASSUME NEW b \in Bars, BarGone(b)
       PROVE  CellsExact'
  <2> SUFFICES ASSUME NEW c \in bars'
               PROVE  cells'[c] = [i \in DOMAIN items |-> CellOf(items[i])]
    BY <1>10 DEF BarGone, CellsExact, CellOf, PictureOf
  <2>1. c \in bars /\ cells'[c] = cells[c]
    BY <1>0, <1>10 DEF BarGone, TypeInv, TypeOK
  <2>2. QED BY <2>1 DEF CellsInv, CellsExact
<1>11. CASE AppNext \/ \E a \in Apps : TimeOut(a)
  <2>1. UNCHANGED <<items, bars, cells>>
    BY <1>11 DEF AppNext, Announce, Change, Answer, Exit, TimeOut
  <2>2. QED BY <1>1, <2>1
<1>12. CASE CloseMenu \/ UNCHANGED vars \/ \E b \in Bars : \E i \in DOMAIN cells[b] : OpenMenu(b, i)
  <2>1. UNCHANGED <<items, bars, cells>>
    BY <1>12 DEF CloseMenu, OpenMenu, vars
  <2>2. QED BY <1>1, <2>1
<1>13. QED BY <1>3, <1>4, <1>5, <1>6, <1>7, <1>8, <1>9, <1>10, <1>11, <1>12
           DEF Next, HostNext, BarNext

(* The cells of every bar show the items, in their order and with the icons*)
(* they have: a click on a cell meets the item drawn in it.                *)
THEOREM CellsMatchHolds == Spec => []CellsMatch
<1>1. Init => CellsInv
  BY TypeInit, CellsInit DEF CellsInv
<1>2. CellsInv /\ [Next]_vars => CellsInv'
  <2> SUFFICES ASSUME CellsInv, [Next]_vars
               PROVE  CellsInv'
    OBVIOUS
  <2>1. TypeInv'
    BY TypeStep DEF CellsInv
  <2>2. QED BY <2>1, CellsStep DEF CellsInv
<1>3. CellsInv => CellsMatch
  <2> SUFFICES ASSUME CellsInv, NEW b \in bars
               PROVE  /\ DOMAIN cells[b] = DOMAIN items
                      /\ \A i \in DOMAIN items : cells[b][i].drawn = PictureOf(items[i])
    BY DEF CellsMatch
  <2>1. cells[b] = [i \in DOMAIN items |-> CellOf(items[i])]
    BY DEF CellsInv, CellsExact
  <2>2. QED BY <2>1 DEF CellOf
<1>4. QED BY <1>1, <1>2, <1>3, PTL DEF Spec

-----------------------------------------------------------------------------
(* The open menu *)

(* The menu is closed with the item: handle_unregister.                    *)
LEMMA MenuStep ==
  ASSUME TypeInv, MenuLive, [Next]_vars
  PROVE  MenuLive'
<1> DEFINE Open(m, its) == \E i \in DOMAIN its : its[i].addr = m.addr /\ its[i].service = m.service
<1>0. menu # NoMenu => Open(menu, items)
  BY DEF MenuLive
<1>1. CASE UNCHANGED <<items, menu>>
  BY <1>0, <1>1 DEF MenuLive
<1>2. ASSUME UNCHANGED menu, DOMAIN items \subseteq DOMAIN items',
             \A i \in DOMAIN items : /\ items'[i].addr = items[i].addr
                                     /\ items'[i].service = items[i].service
      PROVE  MenuLive'
  BY <1>0, <1>2 DEF MenuLive
<1>3. ASSUME NEW a \in Apps, HandleRegister(a)
      PROVE  MenuLive'
  <2>1. CASE Registered(Head(sent[a]).service)
    BY <1>1, <1>3, <2>1 DEF HandleRegister, Known
  <2>2. CASE ~ Registered(Head(sent[a]).service)
    <3>1. /\ DOMAIN items \subseteq DOMAIN items'
          /\ \A i \in DOMAIN items : items'[i] = items[i]
      BY <1>3, <2>2, RegisterEffect
    <3>2. QED BY <1>2, <1>3, <3>1 DEF HandleRegister
  <2>3. QED BY <2>1, <2>2
<1>4. ASSUME NEW s, NEW icon, Registered(s), Load(s, icon), UNCHANGED menu
      PROVE  MenuLive'
  BY <1>2, <1>4, LoadEffect
<1>5. ASSUME NEW a \in Apps, HandleMenuPath(a)
      PROVE  MenuLive'
  BY <1>2, <1>5, MenuPathEffect DEF HandleMenuPath
<1>6. ASSUME NEW a \in Apps, HandleGone(a)
      PROVE  MenuLive'
  <2> SUFFICES ASSUME menu' # NoMenu
               PROVE  Open(menu', items')
    BY DEF MenuLive
  <2>1. menu' = menu /\ Owner[menu.service] # a
    BY <1>6 DEF HandleGone, CloseMenuOf
  <2>2. PICK i \in DOMAIN items : items[i].addr = menu.addr /\ items[i].service = menu.service
    BY <1>0, <2>1
  <2>3. PICK n \in DOMAIN items' : items'[n] = items[i]
    BY <1>6, <2>1, <2>2, EraseEffect
  <2>4. QED BY <2>1, <2>2, <2>3
<1>7. ASSUME NEW b \in Bars, NEW i, OpenMenu(b, i)
      PROVE  MenuLive'
  <2>1. i \in DOMAIN items /\ menu' = [addr |-> items[i].addr, service |-> items[i].service]
    BY <1>7 DEF OpenMenu, Hit
  <2>2. QED BY <1>7, <2>1 DEF OpenMenu, MenuLive
<1>8. CASE CloseMenu
  BY <1>8 DEF CloseMenu, MenuLive
<1>9. CASE \/ AppNext \/ UNCHANGED vars
           \/ \E b \in Bars : NewBar(b) \/ BarGone(b)
           \/ \E a \in Apps : TimeOut(a)
  <2>1. UNCHANGED <<items, menu>>
    BY <1>9 DEF AppNext, Announce, Change, Answer, Exit, NewBar, BarGone, TimeOut, vars
  <2>2. QED BY <1>1, <2>1
<1>10. ASSUME NEW a \in Apps, HandleNewIcon(a) \/ HandlePixmap(a) \/ HandleName(a)
       PROVE  MenuLive'
  BY <1>1, <1>4, <1>10 DEF HandleNewIcon, HandlePixmap, HandleName
<1>11. QED BY <1>3, <1>5, <1>6, <1>7, <1>8, <1>9, <1>10 DEF Next, HostNext, BarNext

(* The open menu is that of a listed item, never of one that left.         *)
THEOREM MenuStaysLive == Spec => []MenuLive
<1>1. Init => TypeInv /\ MenuLive
  BY TypeInit DEF Init, MenuLive
<1>2. TypeInv /\ MenuLive /\ [Next]_vars => TypeInv' /\ MenuLive'
  <2> SUFFICES ASSUME TypeInv, MenuLive, [Next]_vars
               PROVE  TypeInv' /\ MenuLive'
    OBVIOUS
  <2>1. TypeInv'
    BY TypeStep
  <2>2. QED BY <2>1, MenuStep
<1>3. QED BY <1>1, <1>2, PTL DEF Spec

-----------------------------------------------------------------------------
(* Messages under way *)

(* q is a queue of messages and r one of requests; p is what q becomes when*)
(* m is added at its end, and t when the oldest is taken.                  *)
Pushed(q, m, p) ==
  /\ Len(q) \in Nat /\ DOMAIN q = 1 .. Len(q)
  /\ DOMAIN p = 1 .. Len(q) + 1
  /\ p[Len(q) + 1] = m
  /\ \A i \in DOMAIN q : p[i] = q[i]

Popped(q, t) ==
  /\ Len(q) \in Nat \ {0} /\ DOMAIN q = 1 .. Len(q)
  /\ Head(q) = q[1]
  /\ DOMAIN t = 1 .. Len(q) - 1
  /\ \A i \in DOMAIN t : t[i] = q[i + 1]

LEMMA PushedByAppend ==
  ASSUME NEW S, NEW q \in Seq(S), NEW m \in S
  PROVE  Pushed(q, m, Append(q, m))
  BY DEF Pushed

LEMMA PoppedByTail ==
  ASSUME NEW S, NEW q \in Seq(S), q # <<>>
  PROVE  Popped(q, Tail(q))
  BY DEF Popped

LEMMA PushedPlaces ==
  ASSUME NEW q, NEW m, NEW p, Pushed(q, m, p)
  PROVE  \A j \in DOMAIN p : p[j] = m \/ (j \in DOMAIN q /\ p[j] = q[j])
<1>1. Len(q) \in Nat /\ DOMAIN q = 1 .. Len(q) /\ DOMAIN p = 1 .. Len(q) + 1
  BY DEF Pushed
<1>2. \A j \in DOMAIN p : j = Len(q) + 1 \/ j \in DOMAIN q
  BY <1>1
<1>3. QED BY <1>2 DEF Pushed

LEMMA PoppedPlaces ==
  ASSUME NEW q, NEW t, Popped(q, t)
  PROVE  /\ 1 \in DOMAIN q /\ Head(q) = q[1]
         /\ \A i \in DOMAIN t : i + 1 \in DOMAIN q /\ t[i] = q[i + 1]
<1>1. Len(q) \in Nat \ {0} /\ DOMAIN q = 1 .. Len(q) /\ DOMAIN t = 1 .. Len(q) - 1
  BY DEF Popped
<1>2. 1 \in DOMAIN q /\ \A i \in DOMAIN t : i + 1 \in DOMAIN q
  BY <1>1
<1>3. QED BY <1>2 DEF Popped

(* The sender is gone: its name lost its owner, as far as q tells.         *)
Gone(q) == \E i \in DOMAIN q : q[i].kind = "gone"

GoneAfter(q, i) == \E j \in DOMAIN q : j > i /\ q[j].kind = "gone"

(* Something of one kind about one item is in q.                           *)
Has(q, kind, s) == \E i \in DOMAIN q : q[i].kind = kind /\ q[i].service = s

HasAfter(q, i, kind, s) ==
  \E j \in DOMAIN q : j > i /\ q[j].kind = kind /\ q[j].service = s

(* The item was announced, and that news is not followed by the other.     *)
ToRegister(q, s) ==
  \E i \in DOMAIN q :
    q[i].kind = "register" /\ q[i].service = s /\ ~ GoneAfter(q, i)

LEMMA GonePushed ==
  ASSUME NEW q, NEW m, NEW p, Pushed(q, m, p)
  PROVE  Gone(p) <=> Gone(q) \/ m.kind = "gone"
<1>1. Len(q) + 1 \in DOMAIN p
  BY DEF Pushed
<1>2. QED BY <1>1 DEF Pushed, Gone

LEMMA GonePopped ==
  ASSUME NEW q, NEW t, Popped(q, t)
  PROVE  Gone(q) <=> Gone(t) \/ Head(q).kind = "gone"
<1>1. /\ 1 \in DOMAIN q
      /\ \A i \in DOMAIN t : i + 1 \in DOMAIN q
      /\ \A i \in DOMAIN q \ {1} : i - 1 \in DOMAIN t /\ t[i - 1] = q[i]
  BY DEF Popped
<1>2. QED BY <1>1 DEF Popped, Gone

LEMMA HasPushed ==
  ASSUME NEW q, NEW m, NEW p, Pushed(q, m, p), NEW kind, NEW s
  PROVE  Has(p, kind, s) <=> Has(q, kind, s) \/ (m.kind = kind /\ m.service = s)
<1>1. Len(q) + 1 \in DOMAIN p
  BY DEF Pushed
<1>2. QED BY <1>1 DEF Pushed, Has

LEMMA HasPopped ==
  ASSUME NEW q, NEW t, Popped(q, t), NEW kind, NEW s
  PROVE  Has(q, kind, s) <=>
           Has(t, kind, s) \/ (Head(q).kind = kind /\ Head(q).service = s)
<1>1. /\ 1 \in DOMAIN q
      /\ \A i \in DOMAIN t : i + 1 \in DOMAIN q
      /\ \A i \in DOMAIN q \ {1} : i - 1 \in DOMAIN t /\ t[i - 1] = q[i]
  BY DEF Popped
<1>2. QED BY <1>1 DEF Popped, Has

LEMMA HasAfterPushed ==
  ASSUME NEW q, NEW m, NEW p, Pushed(q, m, p), NEW kind, NEW s, NEW i \in DOMAIN q
  PROVE  HasAfter(p, i, kind, s) <=>
           HasAfter(q, i, kind, s) \/ (m.kind = kind /\ m.service = s)
<1>1. Len(q) + 1 \in DOMAIN p /\ Len(q) + 1 > i
  BY DEF Pushed
<1>2. QED BY <1>1 DEF Pushed, HasAfter

LEMMA HasAfterPopped ==
  ASSUME NEW q, NEW t, Popped(q, t), NEW kind, NEW s
  PROVE  /\ \A i \in DOMAIN t :
              HasAfter(t, i, kind, s) <=> HasAfter(q, i + 1, kind, s)
         /\ HasAfter(q, 1, kind, s) <=> Has(t, kind, s)
<1>1. /\ \A i \in DOMAIN t : i \in Nat /\ i + 1 \in DOMAIN q
      /\ \A i \in DOMAIN q : i > 1 => i - 1 \in DOMAIN t /\ t[i - 1] = q[i]
      /\ \A i \in DOMAIN q : i \in Nat
  BY DEF Popped
<1>2. ASSUME NEW i \in DOMAIN t
      PROVE  HasAfter(t, i, kind, s) <=> HasAfter(q, i + 1, kind, s)
  <2>1. ASSUME NEW j \in DOMAIN t, j > i, t[j].kind = kind, t[j].service = s
        PROVE  HasAfter(q, i + 1, kind, s)
    <3>1. j + 1 \in DOMAIN q /\ j + 1 > i + 1 /\ q[j + 1] = t[j]
      BY <1>1, <2>1 DEF Popped
    <3>2. QED BY <2>1, <3>1 DEF HasAfter
  <2>2. ASSUME NEW j \in DOMAIN q, j > i + 1, q[j].kind = kind, q[j].service = s
        PROVE  HasAfter(t, i, kind, s)
    <3>1. j - 1 \in DOMAIN t /\ j - 1 > i /\ t[j - 1] = q[j]
      BY <1>1, <2>2
    <3>2. QED BY <2>2, <3>1 DEF HasAfter
  <2>3. QED BY <2>1, <2>2 DEF HasAfter
<1>3. HasAfter(q, 1, kind, s) <=> Has(t, kind, s)
  <2>1. ASSUME NEW j \in DOMAIN t, t[j].kind = kind, t[j].service = s
        PROVE  HasAfter(q, 1, kind, s)
    <3>1. j + 1 \in DOMAIN q /\ j + 1 > 1 /\ q[j + 1] = t[j]
      BY <1>1 DEF Popped
    <3>2. QED BY <2>1, <3>1 DEF HasAfter
  <2>2. ASSUME NEW j \in DOMAIN q, j > 1, q[j].kind = kind, q[j].service = s
        PROVE  Has(t, kind, s)
    <3>1. j - 1 \in DOMAIN t /\ t[j - 1] = q[j]
      BY <1>1, <2>2
    <3>2. QED BY <2>2, <3>1 DEF Has
  <2>3. QED BY <2>1, <2>2 DEF HasAfter, Has
<1>4. QED BY <1>2, <1>3

LEMMA ToRegisterPushed ==
  ASSUME NEW q, NEW m, NEW p, Pushed(q, m, p), NEW s
  PROVE  ToRegister(p, s) <=>
           \/ m.kind = "register" /\ m.service = s
           \/ m.kind # "gone" /\ ToRegister(q, s)
<1>1. /\ Len(q) + 1 \in DOMAIN p /\ DOMAIN p = DOMAIN q \cup {Len(q) + 1}
      /\ \A i \in DOMAIN q : i < Len(q) + 1
  BY DEF Pushed
<1>2. ~ GoneAfter(p, Len(q) + 1)
  BY DEF Pushed, GoneAfter
<1>3. \A i \in DOMAIN q : GoneAfter(p, i) <=> GoneAfter(q, i) \/ m.kind = "gone"
  BY <1>1 DEF Pushed, GoneAfter
<1>4. QED BY <1>1, <1>2, <1>3 DEF Pushed, ToRegister

LEMMA ToRegisterPopped ==
  ASSUME NEW q, NEW t, Popped(q, t), NEW s
  PROVE  ToRegister(q, s) <=>
           \/ Head(q).kind = "register" /\ Head(q).service = s /\ ~ Gone(t)
           \/ ToRegister(t, s)
<1>1. /\ \A i \in DOMAIN t : i \in Nat /\ i + 1 \in DOMAIN q
      /\ \A i \in DOMAIN q : i # 1 => i - 1 \in DOMAIN t /\ t[i - 1] = q[i]
      /\ \A i \in DOMAIN q : i \in Nat /\ i >= 1
      /\ 1 \in DOMAIN q
  BY DEF Popped
<1>2. GoneAfter(q, 1) <=> Gone(t)
  <2>1. ASSUME NEW j \in DOMAIN t, t[j].kind = "gone"
        PROVE  GoneAfter(q, 1)
    <3>1. j + 1 \in DOMAIN q /\ j + 1 > 1 /\ q[j + 1] = t[j]
      BY <1>1 DEF Popped
    <3>2. QED BY <2>1, <3>1 DEF GoneAfter
  <2>2. QED BY <1>1, <2>1 DEF GoneAfter, Gone
<1>3. ASSUME NEW i \in DOMAIN t
      PROVE  GoneAfter(q, i + 1) <=> GoneAfter(t, i)
  <2>1. ASSUME NEW j \in DOMAIN t, j > i, t[j].kind = "gone"
        PROVE  GoneAfter(q, i + 1)
    <3>1. j + 1 \in DOMAIN q /\ j + 1 > i + 1 /\ q[j + 1] = t[j]
      BY <1>1, <2>1 DEF Popped
    <3>2. QED BY <2>1, <3>1 DEF GoneAfter
  <2>2. ASSUME NEW j \in DOMAIN q, j > i + 1, q[j].kind = "gone"
        PROVE  GoneAfter(t, i)
    <3>1. j - 1 \in DOMAIN t /\ j - 1 > i /\ t[j - 1] = q[j]
      BY <1>1, <2>2
    <3>2. QED BY <2>2, <3>1 DEF GoneAfter
  <2>3. QED BY <2>1, <2>2 DEF GoneAfter
<1>4. ASSUME NEW i \in DOMAIN q, q[i].kind = "register", q[i].service = s, ~ GoneAfter(q, i)
      PROVE  \/ Head(q).kind = "register" /\ Head(q).service = s /\ ~ Gone(t)
             \/ ToRegister(t, s)
  <2>1. CASE i = 1
    BY <1>2, <1>4, <2>1 DEF Popped
  <2>2. CASE i # 1
    <3>1. i - 1 \in DOMAIN t /\ t[i - 1] = q[i] /\ (i - 1) + 1 = i
      BY <1>1, <2>2
    <3>2. ~ GoneAfter(t, i - 1)
      BY <1>3, <1>4, <3>1
    <3>3. QED BY <1>4, <3>1, <3>2 DEF ToRegister
  <2>3. QED BY <2>1, <2>2
<1>5. ASSUME Head(q).kind = "register", Head(q).service = s, ~ Gone(t)
      PROVE  ToRegister(q, s)
  BY <1>1, <1>2, <1>5 DEF Popped, ToRegister
<1>6. ASSUME NEW i \in DOMAIN t, t[i].kind = "register", t[i].service = s, ~ GoneAfter(t, i)
      PROVE  ToRegister(q, s)
  <2>1. i + 1 \in DOMAIN q /\ q[i + 1] = t[i] /\ ~ GoneAfter(q, i + 1)
    BY <1>1, <1>3, <1>6 DEF Popped
  <2>2. QED BY <1>6, <2>1 DEF ToRegister
<1>7. QED BY <1>4, <1>5, <1>6 DEF ToRegister

(* Taking replies out changes neither what was announced nor whether the   *)
(* sender is gone.                                                         *)
LEMMA DroppedStays ==
  ASSUME NEW q \in Seq(Message), NEW p \in Seq(Message), Thinned(q, p), NEW s
  PROVE  /\ Gone(p) <=> Gone(q)
         /\ ToRegister(p, s) <=> ToRegister(q, s)
<1>1. PICK f \in [DOMAIN p -> DOMAIN q] :
        /\ \A n \in DOMAIN f : p[n] = q[f[n]]
        /\ \A m, n \in DOMAIN f : m < n => f[m] < f[n]
        /\ \A i \in DOMAIN q : ~ IsReply(q[i]) => \E n \in DOMAIN f : f[n] = i
  BY DEF Thinned
<1>2. \A i \in DOMAIN q : q[i].kind \in {"register", "gone"} => ~ IsReply(q[i])
  BY DEF IsReply
<1>3. DOMAIN f = DOMAIN p /\ DOMAIN p \subseteq Nat /\ DOMAIN q \subseteq Nat
  <2>1. DOMAIN f = DOMAIN p
    OBVIOUS
  <2>2. DOMAIN p = 1 .. Len(p) /\ DOMAIN q = 1 .. Len(q)
    BY LenProperties
  <2>3. QED BY <2>1, <2>2
<1>4. \A m, n \in DOMAIN p : f[m] < f[n] => m < n
  <2> SUFFICES ASSUME NEW m \in DOMAIN p, NEW n \in DOMAIN p, f[m] < f[n], ~ (m < n)
               PROVE  FALSE
    OBVIOUS
  <2>1. f[m] \in Nat /\ f[n] \in Nat
    BY <1>1, <1>3
  <2>2. m = n \/ n < m
    BY <1>3
  <2>3. CASE m = n
    BY <2>1, <2>3
  <2>4. CASE n < m
    <3>1. f[n] < f[m]
      BY <1>1, <1>3, <2>4
    <3>2. QED BY <2>1, <3>1
  <2>5. QED BY <2>2, <2>3, <2>4
<1>5. Gone(p) <=> Gone(q)
  <2>1. ASSUME NEW n \in DOMAIN p, p[n].kind = "gone"
        PROVE  Gone(q)
    <3>1. f[n] \in DOMAIN q /\ q[f[n]].kind = "gone"
      BY <1>1, <1>3, <2>1
    <3>2. QED BY <3>1 DEF Gone
  <2>2. ASSUME NEW i \in DOMAIN q, q[i].kind = "gone"
        PROVE  Gone(p)
    <3>1. PICK n \in DOMAIN f : f[n] = i
      BY <1>1, <1>2, <2>2
    <3>2. n \in DOMAIN p /\ p[n] = q[i]
      BY <1>1, <1>3, <3>1
    <3>3. QED BY <2>2, <3>2 DEF Gone
  <2>3. QED BY <2>1, <2>2 DEF Gone
<1>6. \A n \in DOMAIN p : GoneAfter(p, n) <=> GoneAfter(q, f[n])
  <2> SUFFICES ASSUME NEW n \in DOMAIN p
               PROVE  GoneAfter(p, n) <=> GoneAfter(q, f[n])
    OBVIOUS
  <2>1. ASSUME NEW m \in DOMAIN p, m > n, p[m].kind = "gone"
        PROVE  GoneAfter(q, f[n])
    <3>1. f[m] \in DOMAIN q /\ f[n] < f[m] /\ q[f[m]].kind = "gone"
      BY <1>1, <1>3, <2>1
    <3>2. f[m] > f[n]
      BY <1>1, <1>3, <3>1
    <3>3. QED BY <3>1, <3>2 DEF GoneAfter
  <2>2. ASSUME NEW j \in DOMAIN q, j > f[n], q[j].kind = "gone"
        PROVE  GoneAfter(p, n)
    <3>1. PICK m \in DOMAIN p : f[m] = j
      BY <1>1, <1>2, <1>3, <2>2
    <3>2. f[n] \in Nat /\ j \in Nat
      BY <1>1, <1>3
    <3>3. n < m /\ p[m].kind = "gone"
      BY <1>1, <1>3, <1>4, <2>2, <3>1, <3>2
    <3>4. m > n
      BY <1>3, <3>3
    <3>5. QED BY <3>3, <3>4 DEF GoneAfter
  <2>3. QED BY <2>1, <2>2 DEF GoneAfter
<1>7. ToRegister(p, s) <=> ToRegister(q, s)
  <2>1. ASSUME NEW n \in DOMAIN p, p[n].kind = "register", p[n].service = s, ~ GoneAfter(p, n)
        PROVE  ToRegister(q, s)
    BY <1>1, <1>3, <1>6, <2>1 DEF ToRegister
  <2>2. ASSUME NEW i \in DOMAIN q, q[i].kind = "register", q[i].service = s, ~ GoneAfter(q, i)
        PROVE  ToRegister(p, s)
    <3>1. PICK n \in DOMAIN p : f[n] = i
      BY <1>1, <1>2, <1>3, <2>2
    <3>2. QED BY <1>1, <1>3, <1>6, <2>2, <3>1 DEF ToRegister
  <2>3. QED BY <2>1, <2>2 DEF ToRegister
<1>8. QED BY <1>5, <1>7

(* x is a queue of requests to which those of the kinds K about t have been*)
(* added, or nothing if there are none.                                    *)
More(r, K, t, x) ==
  /\ DOMAIN r \subseteq DOMAIN x /\ DOMAIN x \subseteq Nat
  /\ \A k \in DOMAIN r : x[k] = r[k]
  /\ \A k \in DOMAIN x \ DOMAIN r : x[k].service = t /\ x[k].kind \in K
  /\ \A kind \in K : \E j \in DOMAIN x :
       /\ x[j].kind = kind /\ x[j].service = t
       /\ \A k \in DOMAIN r : j > k

LEMMA MoreNothing ==
  ASSUME NEW r, DOMAIN r \subseteq Nat, NEW t
  PROVE  More(r, {}, t, r)
  BY DEF More

LEMMA MoreByAsking ==
  ASSUME NEW r \in Seq(Request), NEW kinds \in Seq({"pixmap", "name", "menu"}),
         NEW t \in Services
  PROVE  More(r, { kinds[i] : i \in DOMAIN kinds }, t,
              r \o [i \in DOMAIN kinds |-> [kind |-> kinds[i], service |-> t]])
<1> DEFINE more == [i \in DOMAIN kinds |-> [kind |-> kinds[i], service |-> t]]
           x == r \o more
           K == { kinds[i] : i \in DOMAIN kinds }
<1>1. /\ Len(kinds) \in Nat /\ DOMAIN kinds = 1 .. Len(kinds)
      /\ Len(r) \in Nat /\ DOMAIN r = 1 .. Len(r)
  BY LenProperties
<1>2. \A i \in 1 .. Len(kinds) : more[i].kind = kinds[i] /\ more[i].service = t
  BY <1>1
<1>3. more \in Seq(Request) /\ Len(more) = Len(kinds)
  <2>1. \A i \in 1 .. Len(kinds) : more[i] \in Request
    BY <1>1, ElementOfSeq DEF Request
  <2>2. more = [i \in 1 .. Len(kinds) |-> more[i]]
    BY <1>1
  <2> HIDE DEF more
  <2>3. QED BY <1>1, <2>1, <2>2
<1> HIDE DEF more
<1>4. /\ DOMAIN x = 1 .. Len(r) + Len(kinds)
      /\ \A k \in 1 .. Len(r) : x[k] = r[k]
      /\ \A k \in Len(r) + 1 .. Len(r) + Len(kinds) : x[k] = more[k - Len(r)]
  <2>1. /\ x \in Seq(Request) /\ Len(x) = Len(r) + Len(more)
        /\ \A i \in 1 .. Len(r) + Len(more) :
             x[i] = IF i <= Len(r) THEN r[i] ELSE more[i - Len(r)]
    BY <1>3, ConcatProperties
  <2>2. DOMAIN x = 1 .. Len(r) + Len(kinds)
    BY <1>3, <2>1, LenProperties
  <2> HIDE DEF x
  <2>3. QED BY <1>1, <1>3, <2>1, <2>2
<1> HIDE DEF x
<1>5. ASSUME NEW k \in DOMAIN x \ DOMAIN r
      PROVE  x[k].service = t /\ x[k].kind \in K
  <2>1. k \in Len(r) + 1 .. Len(r) + Len(kinds) /\ k - Len(r) \in 1 .. Len(kinds)
    BY <1>1, <1>4
  <2>2. QED BY <1>1, <1>2, <1>4, <2>1
<1>6. ASSUME NEW kind \in K
      PROVE  \E j \in DOMAIN x : /\ x[j].kind = kind /\ x[j].service = t
                                 /\ \A k \in DOMAIN r : j > k
  <2>1. PICK i \in DOMAIN kinds : kind = kinds[i]
    OBVIOUS
  <2>2. /\ Len(r) + i \in DOMAIN x /\ x[Len(r) + i] = more[i]
        /\ \A k \in DOMAIN r : Len(r) + i > k
    BY <1>1, <1>4
  <2>3. QED BY <1>1, <1>2, <2>1, <2>2
<1>7. DOMAIN r \subseteq DOMAIN x /\ DOMAIN x \subseteq Nat
  BY <1>1, <1>4
<1>8. QED BY <1>1, <1>4, <1>5, <1>6, <1>7 DEF More, x, more

LEMMA HasMore ==
  ASSUME NEW r, NEW K, NEW t, NEW x, More(r, K, t, x), NEW kind, NEW s
  PROVE  /\ Has(r, kind, s) => Has(x, kind, s)
         /\ Has(x, kind, s) => Has(r, kind, s) \/ (kind \in K /\ s = t)
         /\ kind \in K => Has(x, kind, t)
         /\ \A k \in DOMAIN r : HasAfter(r, k, kind, s) => HasAfter(x, k, kind, s)
         /\ kind \in K => \A k \in DOMAIN r : HasAfter(x, k, kind, t)
  BY DEF More, Has, HasAfter

-----------------------------------------------------------------------------
(* The icon of an item that is listed: l is its look.                      *)

(* A reply that is no longer true is followed by the news that the icon has*)
(* changed.                                                                *)
StaleFollowed(q, s, l) ==
  \A i \in DOMAIN q :
    /\ q[i].service = s
    /\ \/ q[i].kind = "pixmap" /\ q[i].icon # l.pixmap
       \/ q[i].kind = "name" /\ q[i].icon # l.name
    => HasAfter(q, i, "new icon", s)

(* A name that will be loaded over a pixmap, or asked for in its stead, is *)
(* followed by the pixmap.                                                 *)
NamesFollowed(q, r, s, l) ==
  l.pixmap # NoImage /\ ~ Has(q, "new icon", s) =>
    /\ \A i \in DOMAIN q : q[i].kind = "name" /\ q[i].service = s =>
         HasAfter(q, i, "pixmap", s) \/ Has(r, "pixmap", s)
    /\ \A k \in DOMAIN r : r[k].kind = "name" /\ r[k].service = s =>
         HasAfter(r, k, "pixmap", s)

(* The icon is being fetched, or will be.                                  *)
Renewed(q, r, s, l) ==
  \/ Has(q, "new icon", s) \/ Has(r, "pixmap", s) \/ Has(q, "pixmap", s)
  \/ l.pixmap = NoImage /\ (Has(r, "name", s) \/ Has(q, "name", s))

Fetched(I, q, r, s, l) ==
  /\ StaleFollowed(q, s, l)
  /\ NamesFollowed(q, r, s, l)
  /\ \A icon \in I : Shown(l) \in {NoImage, icon} \/ Renewed(q, r, s, l)

(* What is under way when an item is not listed is of no icon.             *)
NoStray(q, r, s) ==
  /\ ~ Has(q, "pixmap", s) /\ ~ Has(q, "name", s)
  /\ ~ Has(r, "pixmap", s) /\ ~ Has(r, "name", s)

(* I holds the icon of the item if it is listed and is empty if not.       *)
Upheld(I, q, r, s, l) ==
  ~ Gone(q) => IF I = {} THEN NoStray(q, r, s) ELSE Fetched(I, q, r, s, l)

LEMMA StalePopped ==
  ASSUME NEW q, NEW t, Popped(q, t), NEW s, NEW l, StaleFollowed(q, s, l)
  PROVE  /\ StaleFollowed(t, s, l)
         /\ /\ Head(q).service = s
            /\ \/ Head(q).kind = "pixmap" /\ Head(q).icon # l.pixmap
               \/ Head(q).kind = "name" /\ Head(q).icon # l.name
            => Has(t, "new icon", s)
<1>1. /\ 1 \in DOMAIN q /\ Head(q) = q[1]
      /\ \A i \in DOMAIN t : i + 1 \in DOMAIN q /\ t[i] = q[i + 1]
  BY PoppedPlaces
<1>2. /\ \A i \in DOMAIN t :
           HasAfter(t, i, "new icon", s) <=> HasAfter(q, i + 1, "new icon", s)
      /\ HasAfter(q, 1, "new icon", s) <=> Has(t, "new icon", s)
  BY HasAfterPopped
<1>3. QED BY <1>1, <1>2 DEF StaleFollowed

LEMMA StalePushed ==
  ASSUME NEW q, NEW m, NEW p, Pushed(q, m, p), NEW s, NEW l, StaleFollowed(q, s, l),
         ~ /\ m.service = s
           /\ \/ m.kind = "pixmap" /\ m.icon # l.pixmap
              \/ m.kind = "name" /\ m.icon # l.name
  PROVE  StaleFollowed(p, s, l)
<1>1. \A j \in DOMAIN p : p[j] = m \/ (j \in DOMAIN q /\ p[j] = q[j])
  BY ONLY Pushed(q, m, p), PushedPlaces
<1>2. \A i \in DOMAIN q : HasAfter(q, i, "new icon", s) => HasAfter(p, i, "new icon", s)
  BY HasAfterPushed
<1>3. QED BY <1>1, <1>2 DEF StaleFollowed

LEMMA StaleOvertaken ==
  ASSUME NEW q, NEW m, NEW p, Pushed(q, m, p), NEW s, NEW l,
         \A i \in DOMAIN q : HasAfter(p, i, "new icon", s),
         m.kind \notin {"pixmap", "name"}
  PROVE  StaleFollowed(p, s, l)
<1>1. \A j \in DOMAIN p : p[j] = m \/ (j \in DOMAIN q /\ p[j] = q[j])
  BY ONLY Pushed(q, m, p), PushedPlaces
<1>2. QED BY <1>1 DEF StaleFollowed

LEMMA StaleAnnounced ==
  ASSUME NEW q, NEW m, NEW p, Pushed(q, m, p), NEW s, NEW l,
         m.kind = "new icon", m.service = s
  PROVE  StaleFollowed(p, s, l)
<1>1. \A i \in DOMAIN q : HasAfter(p, i, "new icon", s)
  BY HasAfterPushed
<1>2. m.kind \notin {"pixmap", "name"}
  OBVIOUS
<1>3. QED BY <1>1, <1>2, StaleOvertaken

LEMMA NamesPopped ==
  ASSUME NEW q, NEW t, Popped(q, t), NEW r, NEW s, NEW l, NamesFollowed(q, r, s, l),
         ~ (Head(q).kind = "new icon" /\ Head(q).service = s)
  PROVE  /\ NamesFollowed(t, r, s, l)
         /\ Head(q).kind = "name" /\ Head(q).service = s /\ l.pixmap # NoImage =>
              Has(t, "new icon", s) \/ Has(t, "pixmap", s) \/ Has(r, "pixmap", s)
<1>1. /\ 1 \in DOMAIN q /\ Head(q) = q[1]
      /\ \A i \in DOMAIN t : i + 1 \in DOMAIN q /\ t[i] = q[i + 1]
  BY PoppedPlaces
<1>2. /\ \A i \in DOMAIN t :
           HasAfter(t, i, "pixmap", s) <=> HasAfter(q, i + 1, "pixmap", s)
      /\ HasAfter(q, 1, "pixmap", s) <=> Has(t, "pixmap", s)
  BY HasAfterPopped
<1>3. Has(q, "new icon", s) <=> Has(t, "new icon", s)
  BY HasPopped
<1>4. QED BY <1>1, <1>2, <1>3 DEF NamesFollowed

LEMMA NamesPushed ==
  ASSUME NEW q, NEW m, NEW p, Pushed(q, m, p), NEW r, NEW s, NEW l,
         NamesFollowed(q, r, s, l), m.kind # "name"
  PROVE  NamesFollowed(p, r, s, l)
<1>1. \A j \in DOMAIN p : p[j] = m \/ (j \in DOMAIN q /\ p[j] = q[j])
  BY ONLY Pushed(q, m, p), PushedPlaces
<1>2. \A i \in DOMAIN q : HasAfter(q, i, "pixmap", s) => HasAfter(p, i, "pixmap", s)
  BY HasAfterPushed
<1>3. Has(q, "new icon", s) => Has(p, "new icon", s)
  BY HasPushed
<1>4. QED BY <1>1, <1>2, <1>3 DEF NamesFollowed

(* The oldest request becomes the last message.                            *)
LEMMA NamesAnswered ==
  ASSUME NEW q, NEW m, NEW p, Pushed(q, m, p), NEW r, NEW x, Popped(r, x), NEW s, NEW l,
         m.kind = Head(r).kind, m.service = Head(r).service,
         NamesFollowed(q, r, s, l)
  PROVE  NamesFollowed(p, x, s, l)
<1>1. \A j \in DOMAIN p : p[j] = m \/ (j \in DOMAIN q /\ p[j] = q[j])
  BY ONLY Pushed(q, m, p), PushedPlaces
<1>2. \A i \in DOMAIN q :
        HasAfter(p, i, "pixmap", s) <=>
          HasAfter(q, i, "pixmap", s) \/ (m.kind = "pixmap" /\ m.service = s)
  BY HasAfterPushed
<1>3. Has(q, "new icon", s) => Has(p, "new icon", s)
  BY HasPushed
<1>4. /\ 1 \in DOMAIN r /\ Head(r) = r[1]
      /\ \A k \in DOMAIN x : k + 1 \in DOMAIN r /\ x[k] = r[k + 1]
  BY PoppedPlaces
<1>5. /\ \A k \in DOMAIN x :
           HasAfter(x, k, "pixmap", s) <=> HasAfter(r, k + 1, "pixmap", s)
      /\ HasAfter(r, 1, "pixmap", s) <=> Has(x, "pixmap", s)
  BY HasAfterPopped
<1>6. Has(r, "pixmap", s) <=> Has(x, "pixmap", s) \/ (m.kind = "pixmap" /\ m.service = s)
  BY HasPopped
<1>7. SUFFICES ASSUME l.pixmap # NoImage, ~ Has(p, "new icon", s)
               PROVE  /\ \A i \in DOMAIN p : p[i].kind = "name" /\ p[i].service = s =>
                           HasAfter(p, i, "pixmap", s) \/ Has(x, "pixmap", s)
                      /\ \A k \in DOMAIN x : x[k].kind = "name" /\ x[k].service = s =>
                           HasAfter(x, k, "pixmap", s)
  BY DEF NamesFollowed
<1>8. /\ \A i \in DOMAIN q : q[i].kind = "name" /\ q[i].service = s =>
           HasAfter(q, i, "pixmap", s) \/ Has(r, "pixmap", s)
      /\ \A k \in DOMAIN r : r[k].kind = "name" /\ r[k].service = s =>
           HasAfter(r, k, "pixmap", s)
  BY <1>3, <1>7 DEF NamesFollowed
<1>9. QED BY <1>1, <1>2, <1>4, <1>5, <1>6, <1>8

LEMMA NamesAsked ==
  ASSUME NEW r, NEW K, NEW t, NEW x, More(r, K, t, x), NEW q, NEW s, NEW l,
         ~ ("name" \in K /\ t = s), NamesFollowed(q, r, s, l)
  PROVE  NamesFollowed(q, x, s, l)
<1>1. /\ Has(r, "pixmap", s) => Has(x, "pixmap", s)
      /\ \A k \in DOMAIN r : HasAfter(r, k, "pixmap", s) => HasAfter(x, k, "pixmap", s)
  BY HasMore
<1>2. /\ \A k \in DOMAIN r : x[k] = r[k]
      /\ \A k \in DOMAIN x \ DOMAIN r : x[k].service = t /\ x[k].kind \in K
  BY DEF More
<1>3. QED BY <1>1, <1>2 DEF NamesFollowed

(* Steps in which the item is listed and stays so.                         *)

(* The application sends what is no reply about the item.                  *)
LEMMA FetchedPushed ==
  ASSUME NEW q, NEW m, NEW p, Pushed(q, m, p), NEW I, NEW r, NEW s, NEW l,
         m.kind \notin {"pixmap", "name"}, Fetched(I, q, r, s, l)
  PROVE  Fetched(I, p, r, s, l)
<1>1. StaleFollowed(p, s, l) /\ NamesFollowed(p, r, s, l)
  BY StalePushed, NamesPushed DEF Fetched
<1>2. Renewed(q, r, s, l) => Renewed(p, r, s, l)
  BY HasPushed DEF Renewed
<1>3. QED BY <1>1, <1>2 DEF Fetched

(* The icon changes.                                                       *)
LEMMA FetchedChanged ==
  ASSUME NEW q, NEW m, NEW p, Pushed(q, m, p), NEW I, NEW r, NEW s, NEW l,
         m.kind = "new icon", m.service = s
  PROVE  Fetched(I, p, r, s, l)
<1>1. StaleFollowed(p, s, l)
  BY StaleAnnounced
<1>2. Has(p, "new icon", s)
  BY HasPushed
<1>3. QED BY <1>1, <1>2 DEF Fetched, NamesFollowed, Renewed

(* The oldest request is answered with what holds now.                     *)
LEMMA FetchedAnswered ==
  ASSUME NEW q, NEW m, NEW p, Pushed(q, m, p), NEW r, NEW x, Popped(r, x),
         NEW I, NEW s, NEW l, Fetched(I, q, r, s, l),
         m.kind = Head(r).kind, m.service = Head(r).service,
         m.service = s /\ m.kind = "pixmap" => m.icon = l.pixmap,
         m.service = s /\ m.kind = "name" => m.icon = l.name
  PROVE  Fetched(I, p, x, s, l)
<1>1. StaleFollowed(p, s, l)
  BY StalePushed DEF Fetched
<1>2. NamesFollowed(p, x, s, l)
  BY NamesAnswered DEF Fetched
<1>3. \A kind : /\ Has(q, kind, s) => Has(p, kind, s)
                /\ Has(r, kind, s) => Has(p, kind, s) \/ Has(x, kind, s)
  BY HasPushed, HasPopped
<1>4. Renewed(q, r, s, l) => Renewed(p, x, s, l)
  BY <1>3 DEF Renewed
<1>5. QED BY <1>1, <1>2, <1>4 DEF Fetched

(* The host takes a message that is not about the icon of the item, and may*)
(* ask for what is not its name.                                           *)
LEMMA FetchedPopped ==
  ASSUME NEW q, NEW t, Popped(q, t), NEW r, NEW K, NEW u, NEW x, More(r, K, u, x),
         NEW I, NEW s, NEW l, Fetched(I, q, r, s, l),
         ~ (Head(q).service = s /\ Head(q).kind \in {"new icon", "pixmap", "name"}),
         ~ ("name" \in K /\ u = s)
  PROVE  Fetched(I, t, x, s, l)
<1>1. StaleFollowed(t, s, l)
  BY StalePopped DEF Fetched
<1>2. NamesFollowed(t, r, s, l)
  BY NamesPopped DEF Fetched
<1>3. NamesFollowed(t, x, s, l)
  BY <1>2, NamesAsked
<1>4. /\ \A kind : Has(r, kind, s) => Has(x, kind, s)
      /\ \A kind \in {"new icon", "pixmap", "name"} : Has(q, kind, s) => Has(t, kind, s)
  BY HasMore, HasPopped
<1>5. Renewed(q, r, s, l) => Renewed(t, x, s, l)
  BY <1>4 DEF Renewed
<1>6. QED BY <1>1, <1>3, <1>5 DEF Fetched

(* The host hears of a new icon and asks for the pixmap.                   *)
LEMMA FetchedNewIcon ==
  ASSUME NEW q, NEW t, Popped(q, t), NEW r, NEW s, NEW x, More(r, {"pixmap"}, s, x),
         NEW I, NEW l, Fetched(I, q, r, s, l)
  PROVE  Fetched(I, t, x, s, l)
<1>1. StaleFollowed(t, s, l)
  BY StalePopped DEF Fetched
<1>2. /\ Has(x, "pixmap", s)
      /\ \A k \in DOMAIN r : HasAfter(x, k, "pixmap", s)
  BY HasMore
<1>3. \A k \in DOMAIN x : x[k].kind = "name" => k \in DOMAIN r
  BY DEF More
<1>4. QED BY <1>1, <1>2, <1>3 DEF Fetched, NamesFollowed, Renewed

(* The pixmap comes in and is loaded.                                      *)
LEMMA FetchedPixmap ==
  ASSUME NEW q, NEW t, Popped(q, t), NEW r, NEW s, NEW I, NEW l,
         Fetched(I, q, r, s, l),
         Head(q).kind = "pixmap", Head(q).service = s, Head(q).icon # NoImage
  PROVE  Fetched({Head(q).icon}, t, r, s, l)
<1>1. StaleFollowed(t, s, l) /\ NamesFollowed(t, r, s, l)
  BY StalePopped, NamesPopped DEF Fetched
<1>2. Head(q).icon # l.pixmap => Has(t, "new icon", s)
  BY StalePopped DEF Fetched
<1>3. QED BY <1>1, <1>2 DEF Fetched, Renewed, Shown

(* There is no pixmap: the host asks for the name.                         *)
LEMMA FetchedNoPixmap ==
  ASSUME NEW q, NEW t, Popped(q, t), NEW r, NEW s, NEW x, More(r, {"name"}, s, x),
         NEW I, NEW l, Fetched(I, q, r, s, l),
         Head(q).kind = "pixmap", Head(q).service = s, Head(q).icon = NoImage
  PROVE  Fetched(I, t, x, s, l)
<1>1. StaleFollowed(t, s, l)
  BY StalePopped DEF Fetched
<1>2. l.pixmap # NoImage => Has(t, "new icon", s)
  BY StalePopped DEF Fetched
<1>3. Has(x, "name", s)
  BY HasMore
<1>4. QED BY <1>1, <1>2, <1>3 DEF Fetched, NamesFollowed, Renewed

(* The name comes in and its file is loaded, if there is one.              *)
LEMMA FetchedName ==
  ASSUME NEW q, NEW t, Popped(q, t), NEW r, NEW s, NEW I, NEW l, NEW J,
         Fetched(I, q, r, s, l),
         Head(q).kind = "name", Head(q).service = s,
         J = IF Head(q).icon # NoImage THEN {Head(q).icon} ELSE I
  PROVE  Fetched(J, t, r, s, l)
<1>1. StaleFollowed(t, s, l) /\ NamesFollowed(t, r, s, l)
  BY StalePopped, NamesPopped DEF Fetched
<1>2. Head(q).icon # l.name => Has(t, "new icon", s)
  BY StalePopped DEF Fetched
<1>3. l.pixmap # NoImage =>
        Has(t, "new icon", s) \/ Has(t, "pixmap", s) \/ Has(r, "pixmap", s)
  BY NamesPopped DEF Fetched
<1>4. QED BY <1>1, <1>2, <1>3 DEF Fetched, Renewed, Shown

(* An item is listed with a blank icon, and its pixmap is asked for.       *)
LEMMA FetchedRegister ==
  ASSUME NEW q, NEW t, Popped(q, t), NEW r, NEW s, NEW x,
         More(r, {"pixmap", "menu"}, s, x), NEW I, NEW l, NoStray(q, r, s)
  PROVE  Fetched(I, t, x, s, l)
<1>1. ~ Has(t, "pixmap", s) /\ ~ Has(t, "name", s)
  BY HasPopped DEF NoStray
<1>2. Has(x, "pixmap", s) /\ ~ Has(x, "name", s)
  BY HasMore DEF NoStray
<1>3. StaleFollowed(t, s, l)
  BY <1>1 DEF StaleFollowed, Has
<1>4. NamesFollowed(t, x, s, l)
  BY <1>1, <1>2 DEF NamesFollowed, Has
<1>5. QED BY <1>2, <1>3, <1>4 DEF Fetched, Renewed

-----------------------------------------------------------------------------
(* The queues of an application                                            *)

LEMMA PushedBySend ==
  ASSUME TypeInv, NEW a \in Apps, NEW m \in Message, Send(a, m)
  PROVE  /\ Pushed(sent[a], m, sent'[a])
         /\ \A b \in Apps : b # a => sent'[b] = sent[b]
<1>1. sent \in [Apps -> Seq(Message)] /\ sent' = [sent EXCEPT ![a] = Append(@, m)]
  BY DEF TypeInv, TypeOK, Send
<1>2. sent[a] \in Seq(Message) /\ sent'[a] = Append(sent[a], m)
  BY <1>1
<1>3. Pushed(sent[a], m, sent'[a])
  BY <1>2, PushedByAppend
<1>4. QED BY <1>1, <1>3

LEMMA PoppedByReceive ==
  ASSUME TypeInv, NEW a \in Apps, NEW kind, Receive(a, kind)
  PROVE  /\ Popped(sent[a], sent'[a])
         /\ \A b \in Apps : b # a => sent'[b] = sent[b]
         /\ Head(sent[a]).kind = kind
<1>1. /\ sent \in [Apps -> Seq(Message)] /\ sent' = [sent EXCEPT ![a] = Tail(@)]
      /\ sent[a] # <<>> /\ Head(sent[a]).kind = kind
  BY DEF TypeInv, TypeOK, Receive
<1>2. sent[a] \in Seq(Message) /\ sent'[a] = Tail(sent[a])
  BY <1>1
<1>3. Popped(sent[a], sent'[a])
  BY <1>1, <1>2, PoppedByTail
<1>4. QED BY <1>1, <1>3

LEMMA PoppedByAnswer ==
  ASSUME TypeInv, NEW a \in Apps, Answer(a)
  PROVE  /\ Popped(asked[a], asked'[a])
         /\ \A b \in Apps : b # a => asked'[b] = asked[b]
<1>1. /\ asked \in [Apps -> Seq(Request)] /\ asked' = [asked EXCEPT ![a] = Tail(@)]
      /\ asked[a] # <<>>
  BY DEF TypeInv, TypeOK, Answer
<1>2. asked[a] \in Seq(Request) /\ asked'[a] = Tail(asked[a])
  BY <1>1
<1>3. Popped(asked[a], asked'[a])
  BY <1>1, <1>2, PoppedByTail
<1>4. QED BY <1>1, <1>3

(* What an application answers to its oldest request.                      *)
LEMMA AnswerSends ==
  ASSUME TypeInv, NEW a \in Apps, Answer(a)
  PROVE  \E m \in Message :
           /\ Pushed(sent[a], m, sent'[a])
           /\ \A b \in Apps : b # a => sent'[b] = sent[b]
           /\ m.kind = Head(asked[a]).kind /\ m.service = Head(asked[a]).service
           /\ m.kind \in {"pixmap", "name", "menu"}
           /\ m.kind = "pixmap" => m.icon = look[m.service].pixmap
           /\ m.kind = "name" => m.icon = look[m.service].name
<1> DEFINE request == Head(asked[a])
           s == request.service
<1>1. asked[a] \in Seq(Request) /\ asked[a] # <<>>
  BY DEF Answer, TypeInv, TypeOK
<1>2. request \in Request /\ s \in Services
  <2>1. request \in Request
    BY <1>1
  <2>2. QED BY <2>1 DEF Request
<1>3. look[s].pixmap \in Images \cup {NoImage} /\ look[s].name \in Images \cup {NoImage}
  BY <1>2 DEF TypeInv, TypeOK, Look
<1>4. \E m \in Message :
        /\ m.kind = request.kind /\ m.service = s
        /\ m.kind \in {"pixmap", "name", "menu"}
        /\ m.kind = "pixmap" => m.icon = look[s].pixmap
        /\ m.kind = "name" => m.icon = look[s].name
        /\ Send(a, m)
  <2>1. CASE request.kind = "pixmap"
             /\ Send(a, [kind |-> "pixmap", service |-> s, icon |-> look[s].pixmap])
    BY <1>2, <1>3, <2>1, MessageKinds
  <2>2. CASE request.kind = "name"
             /\ Send(a, [kind |-> "name", service |-> s, icon |-> look[s].name])
    BY <1>2, <1>3, <2>2, MessageKinds
  <2>3. CASE request.kind = "menu"
             /\ \E path \in BOOLEAN : Send(a, [kind |-> "menu", service |-> s, path |-> path])
    BY <1>2, <1>3, <2>3, MessageKinds
  <2>4. QED BY <2>1, <2>2, <2>3 DEF Answer
<1>5. QED BY <1>4, PushedBySend

LEMMA MoreByAsk ==
  ASSUME TypeInv, NEW a \in Apps, a \in alive, NEW s \in Services,
         NEW kinds \in Seq({"pixmap", "name", "menu"}), Ask(a, kinds, s)
  PROVE  /\ More(asked[a], { kinds[i] : i \in DOMAIN kinds }, s, asked'[a])
         /\ \A b \in Apps : b # a => asked'[b] = asked[b]
<1> DEFINE x == asked[a] \o [i \in DOMAIN kinds |-> [kind |-> kinds[i], service |-> s]]
<1>1. asked \in [Apps -> Seq(Request)] /\ asked' = [asked EXCEPT ![a] = x]
  BY DEF TypeInv, TypeOK, Ask
<1>2. asked[a] \in Seq(Request) /\ asked'[a] = x
  BY <1>1
<1>3. More(asked[a], { kinds[i] : i \in DOMAIN kinds }, s, x)
  BY <1>2, MoreByAsking
<1>4. QED BY <1>1, <1>2, <1>3

-----------------------------------------------------------------------------
(* The list against what the applications announced                        *)

Once == \A i, j \in DOMAIN items : items[i].service = items[j].service => i = j

(* What is announced is listed, or will be when the queue has been read.   *)
Ledger ==
  \A s \in Services :
    /\ s \in announced => Owner[s] \in alive
    /\ s \in announced <=> \/ Registered(s) /\ ~ Gone(sent[Owner[s]])
                           \/ ToRegister(sent[Owner[s]], s)

LedgerInv == TypeInv /\ Once /\ Ledger

LEMMA SameListed ==
  ASSUME DOMAIN items' = DOMAIN items,
         \A i \in DOMAIN items : items'[i].service = items[i].service
  PROVE  /\ Once => Once'
         /\ \A s : Registered(s)' <=> Registered(s)
  BY DEF Once, Registered

(* The host takes a message of one kind from an application.               *)
Handles(a, kind) ==
  \/ HandleRegister(a) /\ kind = "register"
  \/ HandleNewIcon(a) /\ kind = "new icon"
  \/ HandlePixmap(a) /\ kind = "pixmap"
  \/ HandleName(a) /\ kind = "name"
  \/ HandleMenuPath(a) /\ kind = "menu"

(* What becomes of the list in a step of the host that takes a message of  *)
(* one kind.                                                               *)
LEMMA Relisted ==
  ASSUME TypeInv, Once, NEW a \in Apps, NEW kind, Handles(a, kind)
  PROVE  /\ Receive(a, kind)
         /\ Once'
         /\ \A s : Registered(s)' <=>
              Registered(s) \/ (kind = "register" /\ s = Head(sent[a]).service)
<1>1. ASSUME NEW s, NEW icon, Registered(s), Load(s, icon)
      PROVE  Once' /\ \A u : Registered(u)' <=> Registered(u)
  BY <1>1, LoadEffect, SameListed
<1>2. ASSUME UNCHANGED items
      PROVE  Once' /\ \A u : Registered(u)' <=> Registered(u)
  BY <1>2, SameListed
<1>3. CASE HandleRegister(a) /\ kind = "register"
  <2>1. Receive(a, kind)
    BY <1>3 DEF HandleRegister
  <2>2. CASE Registered(Head(sent[a]).service)
    <3>1. UNCHANGED items
      BY <1>3, <2>2 DEF HandleRegister, Known
    <3>2. QED BY <1>2, <1>3, <2>1, <2>2, <3>1
  <2>3. CASE ~ Registered(Head(sent[a]).service)
    <3>1. /\ Len(items) \in Nat
          /\ DOMAIN items = 1 .. Len(items) /\ DOMAIN items' = 1 .. Len(items) + 1
          /\ \A i \in DOMAIN items : items'[i] = items[i]
          /\ items'[Len(items) + 1].service = Head(sent[a]).service
      BY <1>3, <2>3, RegisterEffect
    <3>2. /\ Len(items) + 1 \in DOMAIN items'
          /\ \A i \in DOMAIN items : i \in DOMAIN items'
          /\ \A i \in DOMAIN items' : i \in DOMAIN items \/ i = Len(items) + 1
      BY <3>1
    <3> DEFINE n == Len(items) + 1
    <3>3. /\ n \in DOMAIN items' /\ items'[n].service = Head(sent[a]).service
          /\ \A i \in DOMAIN items' : i \in DOMAIN items \/ i = n
      BY <3>1, <3>2
    <3> HIDE DEF n
    <3>4. Once'
      BY <2>3, <3>1, <3>3 DEF Once, Registered
    <3>5. \A s : Registered(s)' <=> Registered(s) \/ s = Head(sent[a]).service
      BY <3>1, <3>2, <3>3 DEF Registered
    <3>6. QED BY <1>3, <2>1, <3>4, <3>5
  <2>4. QED BY <2>2, <2>3
<1>4. CASE HandleNewIcon(a) /\ kind = "new icon"
  BY <1>2, <1>4 DEF HandleNewIcon
<1>5. CASE HandlePixmap(a) /\ kind = "pixmap"
  BY <1>1, <1>2, <1>5 DEF HandlePixmap
<1>6. CASE HandleName(a) /\ kind = "name"
  BY <1>1, <1>2, <1>6 DEF HandleName
<1>7. CASE HandleMenuPath(a) /\ kind = "menu"
  BY <1>7, MenuPathEffect, SameListed DEF HandleMenuPath
<1>8. QED BY <1>3, <1>4, <1>5, <1>6, <1>7 DEF Handles

(* What is left of the list when an application is gone.                   *)
LEMMA Unlisted ==
  ASSUME TypeInv, Once, NEW a \in Apps, HandleGone(a)
  PROVE  /\ Once'
         /\ \A s : Registered(s)' <=> Registered(s) /\ Owner[s] # a
<1>1. Once'
  <2> SUFFICES ASSUME NEW m \in DOMAIN items', NEW n \in DOMAIN items',
                      items'[m].service = items'[n].service, m # n
               PROVE  FALSE
    BY DEF Once
  <2>1. PICK i \in DOMAIN items, j \in DOMAIN items :
          i # j /\ items'[m] = items[i] /\ items'[n] = items[j]
    BY EraseEffect
  <2>2. QED BY <2>1 DEF Once
<1>2. QED BY <1>1, EraseEffect DEF Registered

LEMMA LedgerInit == Init => Once /\ Ledger
<1> SUFFICES ASSUME Init PROVE Once /\ Ledger
  OBVIOUS
<1>1. Once /\ \A s : ~ Registered(s)
  BY DEF Init, Once, Registered
<1>2. ASSUME NEW s \in Services
      PROVE  ~ ToRegister(sent[Owner[s]], s)
  <2>1. sent[Owner[s]] = <<>>
    BY TrayAssumption DEF Init
  <2>2. QED BY <2>1 DEF ToRegister
<1>3. QED BY <1>1, <1>2 DEF Init, Ledger

(* The applications keep the ledger.                                       *)
LEMMA LedgerApps ==
  ASSUME LedgerInv, AppNext
  PROVE  Once' /\ Ledger'
<1>0. TypeInv /\ Ledger
  BY DEF LedgerInv
<1>1. UNCHANGED items
  BY DEF AppNext, Announce, Change, Answer, Exit
<1>2. Once' /\ \A s : Registered(s)' <=> Registered(s)
  BY <1>1, SameListed DEF LedgerInv
<1>3. \A s \in Services : Owner[s] \in Apps
  BY TrayAssumption
<1>4. ASSUME NEW t \in Services, Announce(t)
      PROVE  Ledger'
  <2> DEFINE m == [kind |-> "register", service |-> t]
             a == Owner[t]
  <2>1. m \in Message /\ m.kind = "register" /\ m.service = t
    BY DEF Message
  <2>2. Pushed(sent[a], m, sent'[a]) /\ \A b \in Apps : b # a => sent'[b] = sent[b]
    BY <1>0, <1>3, <1>4, <2>1, PushedBySend DEF Announce
  <2>3. announced' = announced \cup {t} /\ alive' = alive \cup {a}
    BY <1>4 DEF Announce
  <2> HIDE DEF m
  <2>4. ASSUME NEW s \in Services
        PROVE  /\ s \in announced' => Owner[s] \in alive'
               /\ s \in announced' <=> \/ Registered(s)' /\ ~ Gone(sent'[Owner[s]])
                                       \/ ToRegister(sent'[Owner[s]], s)
    <3>1. CASE Owner[s] # a
      BY <1>0, <1>2, <1>3, <2>2, <2>3, <3>1 DEF Ledger
    <3>2. CASE Owner[s] = a
      <4>1. Gone(sent'[a]) <=> Gone(sent[a])
        BY <2>1, <2>2, GonePushed
      <4>2. ToRegister(sent'[a], s) <=> s = t \/ ToRegister(sent[a], s)
        BY <2>1, <2>2, ToRegisterPushed
      <4>3. QED BY <1>0, <1>2, <2>3, <3>2, <4>1, <4>2 DEF Ledger
    <3>3. QED BY <3>1, <3>2
  <2>5. QED BY <2>4 DEF Ledger
<1>5. ASSUME NEW a \in Apps, NEW m \in Message, m.kind \notin {"register", "gone"},
             Pushed(sent[a], m, sent'[a]),
             \A b \in Apps : b # a => sent'[b] = sent[b],
             UNCHANGED <<alive, announced>>
      PROVE  Ledger'
  <2>1. ASSUME NEW s \in Services
        PROVE  /\ s \in announced' => Owner[s] \in alive'
               /\ s \in announced' <=> \/ Registered(s)' /\ ~ Gone(sent'[Owner[s]])
                                       \/ ToRegister(sent'[Owner[s]], s)
    <3>1. CASE Owner[s] # a
      BY <1>0, <1>2, <1>3, <1>5, <3>1 DEF Ledger
    <3>2. CASE Owner[s] = a
      <4>1. Gone(sent'[a]) <=> Gone(sent[a])
        BY <1>5, GonePushed
      <4>2. ToRegister(sent'[a], s) <=> ToRegister(sent[a], s)
        BY <1>5, ToRegisterPushed
      <4>3. QED BY <1>0, <1>2, <1>5, <3>2, <4>1, <4>2 DEF Ledger
    <3>3. QED BY <3>1, <3>2
  <2>2. QED BY <2>1 DEF Ledger
<1>6. ASSUME NEW t \in Services, NEW new, Change(t, new)
      PROVE  Ledger'
  <2>1. CASE Registered(t)
    <3> DEFINE m == [kind |-> "new icon", service |-> t]
    <3>1. m \in Message /\ m.kind \notin {"register", "gone"}
      BY DEF Message
    <3>2. Send(Owner[t], m) /\ UNCHANGED <<alive, announced>>
      BY <1>6, <2>1 DEF Change
    <3> HIDE DEF m
    <3>3. QED BY <1>0, <1>3, <1>5, <3>1, <3>2, PushedBySend
  <2>2. CASE ~ Registered(t)
    BY <1>0, <1>2, <1>6, <2>2 DEF Change, Ledger
  <2>3. QED BY <2>1, <2>2
<1>7. ASSUME NEW a \in Apps, Answer(a)
      PROVE  Ledger'
  <2>1. PICK m \in Message : /\ Pushed(sent[a], m, sent'[a])
                             /\ \A b \in Apps : b # a => sent'[b] = sent[b]
                             /\ m.kind \in {"pixmap", "name", "menu"}
    BY <1>0, <1>7, AnswerSends
  <2>2. UNCHANGED <<alive, announced>>
    BY <1>7 DEF Answer, appVars
  <2>3. m.kind \notin {"register", "gone"}
    BY <2>1
  <2>4. QED BY <1>5, <2>1, <2>2, <2>3
<1>8. ASSUME NEW a \in Apps, Exit(a)
      PROVE  Ledger'
  <2> DEFINE m == [kind |-> "gone"]
  <2>1. m \in Message /\ m.kind = "gone"
    BY DEF Message
  <2>2. Pushed(sent[a], m, sent'[a]) /\ \A b \in Apps : b # a => sent'[b] = sent[b]
    BY <1>0, <1>8, <2>1, PushedBySend DEF Exit
  <2>3. announced' = announced \ ServicesOf(a) /\ alive' = alive \ {a}
    BY <1>8 DEF Exit
  <2> HIDE DEF m
  <2>4. ASSUME NEW s \in Services
        PROVE  /\ s \in announced' => Owner[s] \in alive'
               /\ s \in announced' <=> \/ Registered(s)' /\ ~ Gone(sent'[Owner[s]])
                                       \/ ToRegister(sent'[Owner[s]], s)
    <3>1. CASE Owner[s] # a
      BY <1>0, <1>2, <1>3, <2>2, <2>3, <3>1 DEF Ledger, ServicesOf
    <3>2. CASE Owner[s] = a
      <4>1. Gone(sent'[a])
        BY <2>1, <2>2, GonePushed
      <4>2. ~ ToRegister(sent'[a], s)
        BY <2>1, <2>2, ToRegisterPushed
      <4>3. s \notin announced'
        BY <2>3, <3>2 DEF ServicesOf
      <4>4. QED BY <3>2, <4>1, <4>2, <4>3
    <3>3. QED BY <3>1, <3>2
  <2>5. QED BY <2>4 DEF Ledger
<1>9. QED BY <1>2, <1>4, <1>6, <1>7, <1>8 DEF AppNext

(* The sender of the oldest message is gone: what it leaves in its queue.  *)
LEMMA GoneEffect ==
  ASSUME TypeInv, NEW a \in Apps, HandleGone(a)
  PROVE  /\ Gone(sent[a])
         /\ \A s : ToRegister(sent'[a], s) <=> ToRegister(sent[a], s)
         /\ \A s : ~ Has(sent'[a], "pixmap", s) /\ ~ Has(sent'[a], "name", s)
         /\ asked'[a] = <<>>
         /\ \A b \in Apps : b # a => sent'[b] = sent[b] /\ asked'[b] = asked[b]
<1>1. /\ sent \in [Apps -> Seq(Message)] /\ asked \in [Apps -> Seq(Request)]
      /\ sent' = [sent EXCEPT ![a] = WithoutReplies(Tail(@))]
      /\ asked' = [asked EXCEPT ![a] = <<>>]
      /\ sent[a] # <<>> /\ Head(sent[a]).kind = "gone"
  BY DEF HandleGone, TypeInv, TypeOK
<1> DEFINE t == Tail(sent[a])
<1>2. sent[a] \in Seq(Message) /\ t \in Seq(Message) /\ sent'[a] = WithoutReplies(t)
  BY <1>1
<1>3. Popped(sent[a], t)
  BY <1>1, <1>2, PoppedByTail
<1> HIDE DEF t
<1>4. Gone(sent[a])
  BY <1>1, <1>3, GonePopped
<1>5. ASSUME NEW s
      PROVE  /\ ToRegister(sent'[a], s) <=> ToRegister(sent[a], s)
             /\ ~ Has(sent'[a], "pixmap", s) /\ ~ Has(sent'[a], "name", s)
  <2>1. /\ ToRegister(sent'[a], s) <=> ToRegister(t, s)
        /\ \A i \in DOMAIN sent'[a] : sent'[a][i].kind \notin {"pixmap", "name", "menu"}
    <3>1. /\ sent'[a] \in Seq(Message) /\ Thinned(t, sent'[a])
          /\ \A n \in DOMAIN sent'[a] : \E i \in DOMAIN t : ~ IsReply(t[i]) /\ sent'[a][n] = t[i]
      BY <1>2, WithoutRepliesLeaves
    <3>2. ToRegister(sent'[a], s) <=> ToRegister(t, s)
      BY <1>2, <3>1, DroppedStays
    <3>3. QED BY <3>1, <3>2 DEF IsReply
  <2>2. ToRegister(sent[a], s) <=> ToRegister(t, s)
    BY <1>1, <1>3, ToRegisterPopped
  <2>3. QED BY <2>1, <2>2 DEF Has
<1>6. QED BY <1>1, <1>4, <1>5

(* Every step keeps the ledger.                                            *)
LEMMA LedgerStep ==
  ASSUME LedgerInv, [Next]_vars
  PROVE  LedgerInv'
<1>0. TypeInv /\ Once /\ Ledger /\ TypeInv'
  BY TypeStep DEF LedgerInv
<1>1. CASE UNCHANGED <<alive, announced, sent, items>>
  BY <1>0, <1>1 DEF LedgerInv, Once, Ledger, Registered
<1>2. CASE AppNext
  BY <1>0, <1>2, LedgerApps DEF LedgerInv
<1>3. \A s \in Services : Owner[s] \in Apps
  BY TrayAssumption
<1>4. ASSUME NEW a \in Apps, NEW kind \in {"register", "new icon", "pixmap", "name", "menu"},
             Handles(a, kind)
      PROVE  Once' /\ Ledger'
  <2>1. /\ Receive(a, kind) /\ Once'
        /\ \A s : Registered(s)' <=>
             Registered(s) \/ (kind = "register" /\ s = Head(sent[a]).service)
    BY <1>0, <1>4, Relisted
  <2>2. UNCHANGED <<alive, announced>>
    BY <1>4 DEF Handles, HandleRegister, HandleNewIcon, HandlePixmap, HandleName,
                HandleMenuPath, appVars
  <2>3. /\ Popped(sent[a], sent'[a])
        /\ \A b \in Apps : b # a => sent'[b] = sent[b]
        /\ Head(sent[a]).kind = kind
    BY <1>0, <2>1, PoppedByReceive
  <2>4. Gone(sent[a]) <=> Gone(sent'[a])
    BY <2>3, GonePopped
  <2>5. ASSUME NEW s \in Services
        PROVE  /\ s \in announced' => Owner[s] \in alive'
               /\ s \in announced' <=> \/ Registered(s)' /\ ~ Gone(sent'[Owner[s]])
                                       \/ ToRegister(sent'[Owner[s]], s)
    <3>1. CASE Owner[s] # a
      <4>1. ~ (kind = "register" /\ s = Head(sent[a]).service)
        <5>1. ASSUME kind = "register"
              PROVE  Owner[Head(sent[a]).service] = a
          <6>1. sent[a] # <<>> /\ sent' = [sent EXCEPT ![a] = Tail(@)]
            BY <2>1 DEF Receive
          <6>2. Head(sent[a]).kind # "gone"
            BY <2>3, <5>1
          <6>3. QED BY <1>0, <6>1, <6>2, ReceiveType
        <5>2. QED BY <3>1, <5>1
      <4>2. QED BY <1>0, <1>3, <2>1, <2>2, <2>3, <3>1, <4>1 DEF Ledger
    <3>2. CASE Owner[s] = a
      <4>1. ToRegister(sent[a], s) <=>
              \/ kind = "register" /\ Head(sent[a]).service = s /\ ~ Gone(sent'[a])
              \/ ToRegister(sent'[a], s)
        BY <2>3, ToRegisterPopped
      <4>2. /\ s \in announced => a \in alive
            /\ s \in announced <=> \/ Registered(s) /\ ~ Gone(sent[a])
                                   \/ ToRegister(sent[a], s)
        BY <1>0, <3>2 DEF Ledger
      <4>3. QED BY <2>1, <2>2, <2>4, <3>2, <4>1, <4>2
    <3>3. QED BY <3>1, <3>2
  <2>6. QED BY <2>1, <2>5 DEF Ledger
<1>5. ASSUME NEW a \in Apps, HandleGone(a)
      PROVE  Once' /\ Ledger'
  <2>1. /\ Once' /\ \A s : Registered(s)' <=> Registered(s) /\ Owner[s] # a
    BY <1>0, <1>5, Unlisted
  <2>2. /\ Gone(sent[a])
        /\ \A s : ToRegister(sent'[a], s) <=> ToRegister(sent[a], s)
        /\ \A b \in Apps : b # a => sent'[b] = sent[b]
    BY <1>0, <1>5, GoneEffect
  <2>3. UNCHANGED <<alive, announced>>
    BY <1>5 DEF HandleGone
  <2>4. QED BY <1>0, <1>3, <2>1, <2>2, <2>3 DEF Ledger
<1>6. ASSUME NEW a \in Apps, TimeOut(a)
       PROVE  Once' /\ Ledger'
  <2>1. UNCHANGED <<alive, announced, items>>
    BY <1>6 DEF TimeOut
  <2>2. Once' /\ \A s : Registered(s)' <=> Registered(s)
    BY <1>0, <2>1, SameListed
  <2>3. /\ sent[a] \in Seq(Message) /\ sent'[a] \in Seq(Message)
        /\ Thinned(sent[a], sent'[a])
        /\ \A b \in Apps : b # a => sent'[b] = sent[b]
    BY <1>0, <1>6, TimeOutEffect DEF TypeInv, TypeOK
  <2>4. \A s : /\ Gone(sent'[a]) <=> Gone(sent[a])
               /\ ToRegister(sent'[a], s) <=> ToRegister(sent[a], s)
    BY <2>3, DroppedStays
  <2>5. ASSUME NEW s \in Services
        PROVE  /\ s \in announced' => Owner[s] \in alive'
               /\ s \in announced' <=> \/ Registered(s)' /\ ~ Gone(sent'[Owner[s]])
                                       \/ ToRegister(sent'[Owner[s]], s)
    <3>1. CASE Owner[s] = a
      BY <1>0, <2>1, <2>2, <2>4, <3>1 DEF Ledger
    <3>2. CASE Owner[s] # a
      BY <1>0, <1>3, <2>1, <2>2, <2>3, <3>2 DEF Ledger
    <3>3. QED BY <3>1, <3>2
  <2>6. QED BY <2>2, <2>5 DEF Ledger
<1>7. CASE HostNext
  <2>1. PICK a \in Apps :
          \/ HandleRegister(a) \/ HandleNewIcon(a) \/ HandleGone(a)
          \/ HandlePixmap(a) \/ HandleName(a) \/ HandleMenuPath(a) \/ TimeOut(a)
    BY <1>7 DEF HostNext
  <2>2. \/ HandleGone(a) \/ TimeOut(a)
        \/ \E kind \in {"register", "new icon", "pixmap", "name", "menu"} : Handles(a, kind)
    BY <2>1 DEF Handles
  <2>3. Once' /\ Ledger'
    BY <1>4, <1>5, <1>6, <2>2
  <2>4. QED BY <1>0, <2>3 DEF LedgerInv
<1>8. CASE BarNext \/ CloseMenu \/ UNCHANGED vars
  <2>1. UNCHANGED <<alive, announced, sent, items>>
    BY <1>8 DEF BarNext, NewBar, BarGone, OpenMenu, CloseMenu, vars, appVars
  <2>2. QED BY <1>1, <2>1
<1>9. QED BY <1>2, <1>7, <1>8 DEF Next

(* When nothing is under way from an application, exactly the items it has *)
(* announced are listed; at no time is one listed twice.                   *)
THEOREM ItemsExactHolds == Spec => []ItemsExact
<1>1. Init => LedgerInv
  BY TypeInit, LedgerInit DEF LedgerInv
<1>2. LedgerInv /\ [Next]_vars => LedgerInv'
  BY LedgerStep
<1>3. LedgerInv => ItemsExact
  <2> SUFFICES ASSUME LedgerInv
               PROVE  ItemsExact
    OBVIOUS
  <2>1. ASSUME NEW s \in Services, sent[Owner[s]] = <<>>
        PROVE  Registered(s) <=> s \in announced
    <3>1. ~ Gone(sent[Owner[s]]) /\ ~ ToRegister(sent[Owner[s]], s)
      BY <2>1 DEF Gone, ToRegister
    <3>2. QED BY <3>1 DEF LedgerInv, Ledger
  <2>2. QED BY <2>1 DEF LedgerInv, Once, ItemsExact
<1>4. QED BY <1>1, <1>2, <1>3, PTL DEF Spec

-----------------------------------------------------------------------------
(* The icons of the items                                                  *)

(* The icon an item has, if it is listed.                                  *)
Icons(s) == { items[i].icon : i \in { j \in DOMAIN items : items[j].service = s } }

LEMMA IconsListed ==
  ASSUME NEW s
  PROVE  Registered(s) <=> Icons(s) # {}
  BY DEF Registered, Icons

LEMMA SameIcons ==
  ASSUME DOMAIN items' = DOMAIN items,
         \A i \in DOMAIN items : /\ items'[i].service = items[i].service
                                 /\ items'[i].icon = items[i].icon
  PROVE  \A s : Icons(s)' = Icons(s)
  BY DEF Icons

LEMMA LoadedIcons ==
  ASSUME TypeInv, Once, NEW t, NEW icon, Registered(t), Load(t, icon)
  PROVE  /\ Icons(t)' = {icon}
         /\ \A s : s # t => Icons(s)' = Icons(s)
<1> DEFINE k == Slot(t)
<1>1. k \in DOMAIN items /\ items[k].service = t
  BY SlotFinds
<1>2. /\ DOMAIN items' = DOMAIN items
      /\ \A i \in DOMAIN items :
           items'[i].service = items[i].service /\ (i # k => items'[i] = items[i])
      /\ items'[k].icon = icon
  BY LoadEffect
<1> HIDE DEF k
<1>3. \A i \in DOMAIN items : items'[i].service = t <=> i = k
  BY <1>1, <1>2 DEF Once
<1>4. Icons(t)' = {icon}
  BY <1>1, <1>2, <1>3 DEF Icons
<1>5. ASSUME NEW s, s # t
      PROVE  Icons(s)' = Icons(s)
  <2>1. \A i \in DOMAIN items : items'[i].service = s => i # k
    BY <1>3, <1>5
  <2>2. QED BY <1>2, <2>1 DEF Icons
<1>6. QED BY <1>4, <1>5

LEMMA NewIcons ==
  ASSUME TypeInv, NEW a \in Apps, HandleRegister(a),
         NEW t, t = Head(sent[a]).service, ~ Registered(t)
  PROVE  /\ Icons(t)' # {}
         /\ \A s : s # t => Icons(s)' = Icons(s)
<1> DEFINE n == Len(items) + 1
<1>1. /\ n \in DOMAIN items' /\ n \notin DOMAIN items
      /\ \A i \in DOMAIN items' : i \in DOMAIN items \/ i = n
      /\ \A i \in DOMAIN items : i \in DOMAIN items' /\ items'[i] = items[i]
      /\ items'[n].service = t
  <2>1. /\ Len(items) \in Nat
        /\ DOMAIN items = 1 .. Len(items) /\ DOMAIN items' = 1 .. Len(items) + 1
        /\ \A i \in DOMAIN items : items'[i] = items[i]
        /\ items'[Len(items) + 1].service = t
    BY RegisterEffect
  <2>2. QED BY <2>1
<1> HIDE DEF n
<1>2. Icons(t)' # {}
  BY <1>1 DEF Icons
<1>3. ASSUME NEW s, s # t
      PROVE  Icons(s)' = Icons(s)
  BY <1>1, <1>3 DEF Icons
<1>4. QED BY <1>2, <1>3

LEMMA LeftIcons ==
  ASSUME TypeInv, NEW a \in Apps, HandleGone(a)
  PROVE  \A s : Icons(s)' = IF Owner[s] = a THEN {} ELSE Icons(s)
<1>1. /\ \A n \in DOMAIN items' : \E i \in DOMAIN items :
           items'[n] = items[i] /\ Owner[items[i].service] # a
      /\ \A i \in DOMAIN items : Owner[items[i].service] # a =>
           \E n \in DOMAIN items' : items'[n] = items[i]
  BY EraseEffect
<1>2. ASSUME NEW s, Owner[s] = a
      PROVE  Icons(s)' = {}
  BY <1>1, <1>2 DEF Icons
<1>3. ASSUME NEW s, Owner[s] # a
      PROVE  Icons(s)' = Icons(s)
  <2>1. \A icon : icon \in Icons(s)' <=>
          \E n \in DOMAIN items' : items'[n].service = s /\ items'[n].icon = icon
    BY DEF Icons
  <2>2. \A icon : icon \in Icons(s) <=>
          \E i \in DOMAIN items : items[i].service = s /\ items[i].icon = icon
    BY DEF Icons
  <2>3. \A icon : icon \in Icons(s)' <=> icon \in Icons(s)
    BY <1>1, <1>3, <2>1, <2>2
  <2>4. QED BY <2>3
<1>4. QED BY <1>2, <1>3

(* What is fetched, has come in and is loaded agrees with the look of every*)
(* item, or will, but for applications of which a call ran out of time.    *)
AllUpheld ==
  \A s \in Services : Owner[s] \notin lost =>
    Upheld(Icons(s), sent[Owner[s]], asked[Owner[s]], s, look[s])

IconInv == LedgerInv /\ AllUpheld

LEMMA UpheldInit == Init => AllUpheld
<1> SUFFICES ASSUME Init, NEW s \in Services
             PROVE  Upheld(Icons(s), sent[Owner[s]], asked[Owner[s]], s, look[s])
  BY DEF AllUpheld
<1>1. sent[Owner[s]] = <<>> /\ asked[Owner[s]] = <<>> /\ items = <<>>
  BY TrayAssumption DEF Init
<1>2. Icons(s) = {}
  BY <1>1 DEF Icons
<1>3. QED BY <1>1, <1>2 DEF Upheld, NoStray, Has

(* The applications.                                                       *)
LEMMA UpheldApps ==
  ASSUME IconInv, AppNext
  PROVE  AllUpheld'
<1>0. TypeInv /\ AllUpheld /\ \A s \in Services : Owner[s] \in Apps
  BY TrayAssumption DEF IconInv, LedgerInv
<1>1. \A s : Icons(s)' = Icons(s)
  <2>1. UNCHANGED items
    BY DEF AppNext, Announce, Change, Answer, Exit
  <2>2. QED BY <2>1, SameIcons
<1>2. UNCHANGED lost
  BY DEF AppNext, Announce, Change, Answer, Exit, appVars
<1>3. ASSUME NEW a \in Apps, NEW m \in Message, Send(a, m),
             m.kind \notin {"pixmap", "name"},
             UNCHANGED <<look, asked>>
      PROVE  AllUpheld'
  <2> SUFFICES ASSUME NEW s \in Services, Owner[s] \notin lost'
               PROVE  Upheld(Icons(s)', sent'[Owner[s]], asked'[Owner[s]], s, look'[s])
    BY DEF AllUpheld
  <2>1. Pushed(sent[a], m, sent'[a]) /\ \A b \in Apps : b # a => sent'[b] = sent[b]
    BY <1>0, <1>3, PushedBySend
  <2>2. Upheld(Icons(s), sent[Owner[s]], asked[Owner[s]], s, look[s])
    BY <1>0, <1>2 DEF AllUpheld
  <2>3. CASE Owner[s] # a
    BY <1>0, <1>1, <1>3, <2>1, <2>2, <2>3
  <2>4. CASE Owner[s] = a
    <3>1. Gone(sent[a]) => Gone(sent'[a])
      BY <2>1, GonePushed
    <3>2. NoStray(sent[a], asked[a], s) => NoStray(sent'[a], asked[a], s)
      BY <1>3, <2>1, HasPushed DEF NoStray
    <3>3. Fetched(Icons(s), sent[a], asked[a], s, look[s]) =>
            Fetched(Icons(s), sent'[a], asked[a], s, look[s])
      BY <1>3, <2>1, FetchedPushed
    <3>4. QED BY <1>1, <1>3, <2>2, <2>4, <3>1, <3>2, <3>3 DEF Upheld
  <2>5. QED BY <2>3, <2>4
<1>4. ASSUME NEW t \in Services, Announce(t)
      PROVE  AllUpheld'
  <2>1. [kind |-> "register", service |-> t] \in Message
    BY DEF Message
  <2>2. QED BY <1>0, <1>3, <1>4, <2>1 DEF Announce
<1>5. ASSUME NEW t \in Services, NEW new, Change(t, new)
      PROVE  AllUpheld'
  <2> SUFFICES ASSUME NEW s \in Services, Owner[s] \notin lost'
               PROVE  Upheld(Icons(s)', sent'[Owner[s]], asked'[Owner[s]], s, look'[s])
    BY DEF AllUpheld
  <2>1. /\ s # t => look'[s] = look[s]
        /\ UNCHANGED asked
    BY <1>0, <1>5 DEF Change, TypeInv, TypeOK
  <2>2. Upheld(Icons(s), sent[Owner[s]], asked[Owner[s]], s, look[s])
    BY <1>0, <1>2 DEF AllUpheld
  <2>3. CASE ~ Registered(t)
    <3>1. UNCHANGED sent
      BY <1>5, <2>3 DEF Change
    <3>2. s = t => Icons(s) = {}
      BY <2>3, IconsListed
    <3>3. QED BY <1>1, <2>1, <2>2, <3>1, <3>2 DEF Upheld
  <2>4. CASE Registered(t)
    <3> DEFINE m == [kind |-> "new icon", service |-> t]
               a == Owner[t]
    <3>1. m \in Message /\ m.kind = "new icon" /\ m.service = t
      BY DEF Message
    <3>2. Send(a, m)
      BY <1>5, <2>4 DEF Change
    <3> HIDE DEF m
    <3>3. Pushed(sent[a], m, sent'[a]) /\ \A b \in Apps : b # a => sent'[b] = sent[b]
      BY <1>0, <3>1, <3>2, PushedBySend
    <3>4. CASE Owner[s] # a
      BY <1>0, <1>1, <2>1, <2>2, <3>3, <3>4
    <3>5. CASE s = t
      <4>1. Icons(s) # {}
        BY <2>4, <3>5, IconsListed
      <4>2. Fetched(Icons(s), sent'[a], asked[a], s, look'[s])
        BY <3>1, <3>3, <3>5, FetchedChanged
      <4>3. QED BY <1>1, <2>1, <3>5, <4>1, <4>2 DEF Upheld
    <3>6. CASE s # t /\ Owner[s] = a
      <4>1. Gone(sent[a]) => Gone(sent'[a])
        BY <3>3, GonePushed
      <4>2. m.kind \notin {"pixmap", "name"}
        BY <3>1
      <4>3. NoStray(sent[a], asked[a], s) => NoStray(sent'[a], asked[a], s)
        BY <3>3, <4>2, HasPushed DEF NoStray
      <4>4. Fetched(Icons(s), sent[a], asked[a], s, look[s]) =>
              Fetched(Icons(s), sent'[a], asked[a], s, look[s])
        BY <3>3, <4>2, FetchedPushed
      <4>5. QED BY <1>1, <2>1, <2>2, <3>6, <4>1, <4>3, <4>4 DEF Upheld
    <3>7. QED BY <3>4, <3>5, <3>6
  <2>5. QED BY <2>3, <2>4
<1>6. ASSUME NEW a \in Apps, Answer(a)
      PROVE  AllUpheld'
  <2> SUFFICES ASSUME NEW s \in Services, Owner[s] \notin lost'
               PROVE  Upheld(Icons(s)', sent'[Owner[s]], asked'[Owner[s]], s, look'[s])
    BY DEF AllUpheld
  <2>1. PICK m \in Message :
           /\ Pushed(sent[a], m, sent'[a])
           /\ \A b \in Apps : b # a => sent'[b] = sent[b]
           /\ m.kind = Head(asked[a]).kind /\ m.service = Head(asked[a]).service
           /\ m.kind \in {"pixmap", "name", "menu"}
           /\ m.kind = "pixmap" => m.icon = look[m.service].pixmap
           /\ m.kind = "name" => m.icon = look[m.service].name
    BY <1>0, <1>6, AnswerSends
  <2>2. /\ Popped(asked[a], asked'[a])
        /\ \A b \in Apps : b # a => asked'[b] = asked[b]
    BY <1>0, <1>6, PoppedByAnswer
  <2>3. UNCHANGED look
    BY <1>6 DEF Answer, appVars
  <2>4. Upheld(Icons(s), sent[Owner[s]], asked[Owner[s]], s, look[s])
    BY <1>0, <1>2 DEF AllUpheld
  <2>5. CASE Owner[s] # a
    BY <1>0, <1>1, <2>1, <2>2, <2>3, <2>4, <2>5
  <2>6. CASE Owner[s] = a
    <3>1. Gone(sent[a]) => Gone(sent'[a])
      BY <2>1, GonePushed
    <3>2. NoStray(sent[a], asked[a], s) => NoStray(sent'[a], asked'[a], s)
      <4>1. \A kind : Has(asked[a], kind, s) <=>
              Has(asked'[a], kind, s) \/ (m.kind = kind /\ m.service = s)
        BY <2>1, <2>2, HasPopped
      <4>2. \A kind : Has(sent'[a], kind, s) <=>
              Has(sent[a], kind, s) \/ (m.kind = kind /\ m.service = s)
        BY <2>1, HasPushed
      <4>3. QED BY <4>1, <4>2 DEF NoStray
    <3>3. Fetched(Icons(s), sent[a], asked[a], s, look[s]) =>
            Fetched(Icons(s), sent'[a], asked'[a], s, look[s])
      BY <2>1, <2>2, FetchedAnswered
    <3>4. QED BY <1>1, <2>3, <2>4, <2>6, <3>1, <3>2, <3>3 DEF Upheld
  <2>7. QED BY <2>5, <2>6
<1>7. ASSUME NEW a \in Apps, Exit(a)
      PROVE  AllUpheld'
  <2> SUFFICES ASSUME NEW s \in Services, Owner[s] \notin lost'
               PROVE  Upheld(Icons(s)', sent'[Owner[s]], asked'[Owner[s]], s, look'[s])
    BY DEF AllUpheld
  <2> DEFINE m == [kind |-> "gone"]
  <2>1. m \in Message /\ m.kind = "gone"
    BY DEF Message
  <2>2. Pushed(sent[a], m, sent'[a]) /\ \A b \in Apps : b # a => sent'[b] = sent[b]
    BY <1>0, <1>7, <2>1, PushedBySend DEF Exit
  <2> HIDE DEF m
  <2>3. Gone(sent'[a])
    BY <2>1, <2>2, GonePushed
  <2>4. UNCHANGED look /\ \A b \in Apps : b # a => asked'[b] = asked[b]
    BY <1>0, <1>7 DEF Exit, TypeInv, TypeOK
  <2>5. Upheld(Icons(s), sent[Owner[s]], asked[Owner[s]], s, look[s])
    BY <1>0, <1>2 DEF AllUpheld
  <2>6. CASE Owner[s] = a
    BY <2>3, <2>6 DEF Upheld
  <2>7. CASE Owner[s] # a
    BY <1>0, <1>1, <2>2, <2>4, <2>5, <2>7
  <2>8. QED BY <2>6, <2>7
<1>8. QED BY <1>4, <1>5, <1>6, <1>7 DEF AppNext

(* The host asks an application that is alive, and asks no other one.      *)
LEMMA AskMore ==
  ASSUME TypeInv, NEW a \in Apps, NEW s \in Services,
         NEW kinds \in Seq({"pixmap", "name", "menu"}), Ask(a, kinds, s)
  PROVE  /\ \E K : /\ More(asked[a], K, s, asked'[a])
                   /\ a \in alive => K = { kinds[i] : i \in DOMAIN kinds }
         /\ \A b \in Apps : b # a => asked'[b] = asked[b]
<1>1. CASE a \in alive
  BY <1>1, MoreByAsk
<1>2. CASE a \notin alive
  <2>1. asked' = asked
    BY <1>2 DEF Ask
  <2>2. asked[a] \in Seq(Request)
    BY DEF TypeInv, TypeOK
  <2>3. DOMAIN asked[a] \subseteq Nat
    BY <2>2, LenProperties
  <2>4. More(asked[a], {}, s, asked'[a])
    BY <2>1, <2>3, MoreNothing
  <2>5. QED BY <1>2, <2>1, <2>4
<1>3. QED BY <1>1, <1>2

LEMMA AskNothing ==
  ASSUME TypeInv, NEW a \in Apps, NEW s, UNCHANGED asked
  PROVE  /\ More(asked[a], {}, s, asked'[a])
         /\ \A b \in Apps : asked'[b] = asked[b]
<1>1. asked[a] \in Seq(Request)
  BY DEF TypeInv, TypeOK
<1>2. DOMAIN asked[a] \subseteq Nat
  BY <1>1, LenProperties
<1>3. QED BY <1>2, MoreNothing

(* The host takes a message that changes nothing for the item.             *)
LEMMA UpheldPopped ==
  ASSUME NEW q, NEW p, Popped(q, p), NEW r, NEW K, NEW u, NEW x, More(r, K, u, x),
         NEW I, NEW s, NEW l, Upheld(I, q, r, s, l),
         Head(q).kind # "gone",
         I = {} \/ ~ (Head(q).service = s /\ Head(q).kind \in {"new icon", "pixmap", "name"}),
         K = {} \/ u # s
  PROVE  Upheld(I, p, x, s, l)
<1>1. Gone(q) <=> Gone(p)
  BY GonePopped
<1>2. CASE I = {}
  <2>1. \A kind : Has(p, kind, s) => Has(q, kind, s)
    BY HasPopped
  <2>2. \A kind : Has(x, kind, s) => Has(r, kind, s) \/ (kind \in K /\ s = u)
    BY HasMore
  <2>3. QED BY <1>1, <1>2, <2>1, <2>2 DEF Upheld, NoStray
<1>3. CASE I # {}
  <2>1. Fetched(I, q, r, s, l) => Fetched(I, p, x, s, l)
    BY <1>3, FetchedPopped
  <2>2. QED BY <1>1, <1>3, <2>1 DEF Upheld
<1>4. QED BY <1>2, <1>3

(* When the host has taken a message about an item and asked about no other*)
(* one, it is enough to look at that item.                                 *)
LEMMA UpheldByOne ==
  ASSUME IconInv, NEW a \in Apps, NEW kind, Receive(a, kind), kind # "gone",
         NEW t \in Services, t = Head(sent[a]).service, Owner[t] = a,
         NEW K, More(asked[a], K, t, asked'[a]),
         \A b \in Apps : b # a => asked'[b] = asked[b],
         UNCHANGED <<look, lost>>,
         \A s : s # t => Icons(s)' = Icons(s),
         a \notin lost => Upheld(Icons(t)', sent'[a], asked'[a], t, look[t])
  PROVE  AllUpheld'
<1> SUFFICES ASSUME NEW s \in Services, Owner[s] \notin lost'
             PROVE  Upheld(Icons(s)', sent'[Owner[s]], asked'[Owner[s]], s, look'[s])
  BY DEF AllUpheld
<1>0. TypeInv /\ Upheld(Icons(s), sent[Owner[s]], asked[Owner[s]], s, look[s])
  BY DEF IconInv, LedgerInv, AllUpheld
<1>1. /\ Popped(sent[a], sent'[a]) /\ Head(sent[a]).kind = kind
      /\ \A b \in Apps : b # a => sent'[b] = sent[b]
  BY <1>0, PoppedByReceive
<1>2. CASE s = t
  BY <1>2
<1>3. CASE s # t /\ Owner[s] = a
  <2>0. More(asked[a], K, t, asked'[a])
    OBVIOUS
  <2>1. Head(sent[a]).service # s /\ Head(sent[a]).kind # "gone"
    BY <1>1, <1>3
  <2>2. /\ Icons(s) = {}
           \/ ~ (Head(sent[a]).service = s /\ Head(sent[a]).kind \in {"new icon", "pixmap", "name"})
        /\ K = {} \/ t # s
    BY <1>3, <2>1
  <2>3. Upheld(Icons(s), sent[a], asked[a], s, look[s])
    BY <1>0, <1>3
  <2>4. Upheld(Icons(s), sent'[a], asked'[a], s, look[s])
    BY ONLY <1>1, <2>0, <2>1, <2>2, <2>3, UpheldPopped
  <2>5. QED BY <1>3, <2>4
<1>4. CASE s # t /\ Owner[s] # a
  <2>1. Owner[s] \in Apps
    BY TrayAssumption
  <2>2. QED BY <1>0, <1>1, <1>4, <2>1
<1>5. QED BY <1>2, <1>3, <1>4

(* A message that the host takes from an application it has not been told  *)
(* is gone comes from a living one, if it is about a listed item or lists  *)
(* it.                                                                     *)
LEMMA SenderLives ==
  ASSUME LedgerInv, NEW a \in Apps, NEW t \in Services, Owner[t] = a,
         ~ Gone(sent[a]), Registered(t) \/ ToRegister(sent[a], t)
  PROVE  a \in alive
  BY DEF LedgerInv, Ledger

LEMMA UpheldRegister ==
  ASSUME IconInv, NEW a \in Apps, HandleRegister(a)
  PROVE  AllUpheld'
<1> DEFINE m == Head(sent[a])
<1>0. TypeInv /\ Once /\ LedgerInv /\ AllUpheld
  BY DEF IconInv, LedgerInv
<1>1. PICK t : t = m.service
  OBVIOUS
<1>2. Receive(a, "register") /\ UNCHANGED <<look, lost>>
  BY DEF HandleRegister, appVars
<1>3. m \in Message /\ m.kind = "register" /\ Popped(sent[a], sent'[a])
  BY <1>0, <1>2, PoppedByReceive, ReceiveType DEF Receive
<1>4. t \in Services /\ Owner[t] = a
  <2>1. m.kind # "gone"
    BY <1>3
  <2>2. Owner[m.service] = a
    BY <1>0, <1>2, <2>1, ReceiveType DEF Receive
  <2>3. QED BY <1>1, <1>3, <2>1, <2>2, MessageParts
<1>5. a \notin lost => Upheld(Icons(t), sent[a], asked[a], t, look[t])
  BY <1>0, <1>4 DEF AllUpheld
<1> HIDE DEF m
<1>6. CASE Registered(t)
  <2>1. UNCHANGED <<items, asked>>
    BY <1>1, <1>6 DEF HandleRegister, Known, m
  <2>2. \A s : Icons(s)' = Icons(s)
    BY <2>1, SameIcons
  <2>3. More(asked[a], {}, t, asked'[a]) /\ \A b \in Apps : asked'[b] = asked[b]
    BY <1>0, <2>1, AskNothing
  <2>4. a \notin lost => Upheld(Icons(t), sent'[a], asked'[a], t, look[t])
    BY <1>3, <1>5, <2>3, UpheldPopped DEF m
  <2>5. QED BY <1>1, <1>2, <1>4, <2>2, <2>3, <2>4, UpheldByOne DEF m
<1>7. CASE ~ Registered(t)
  <2> DEFINE kinds == <<"pixmap", "menu">>
  <2>1. Ask(a, kinds, t)
    BY <1>1, <1>7 DEF HandleRegister, Known, m
  <2>2. kinds \in Seq({"pixmap", "name", "menu"})
        /\ { kinds[i] : i \in DOMAIN kinds } = {"pixmap", "menu"}
    OBVIOUS
  <2> HIDE DEF kinds
  <2>3. PICK K : /\ More(asked[a], K, t, asked'[a])
                 /\ a \in alive => K = { kinds[i] : i \in DOMAIN kinds }
    BY <1>0, <1>4, <2>1, <2>2, AskMore
  <2>4. \A b \in Apps : b # a => asked'[b] = asked[b]
    BY <1>0, <1>4, <2>1, <2>2, AskMore
  <2>5. Icons(t)' # {} /\ \A s : s # t => Icons(s)' = Icons(s)
    BY <1>0, <1>1, <1>7, NewIcons DEF m
  <2>6. Icons(t) = {}
    BY <1>7, IconsListed
  <2>7. a \notin lost => Upheld(Icons(t)', sent'[a], asked'[a], t, look[t])
    <3>1. SUFFICES ASSUME a \notin lost, ~ Gone(sent'[a])
                   PROVE  Fetched(Icons(t)', sent'[a], asked'[a], t, look[t])
      BY <2>5 DEF Upheld
    <3>2. ~ Gone(sent[a])
      BY <1>3, <3>1, GonePopped DEF m
    <3>3. ToRegister(sent[a], t)
      BY <1>1, <1>3, <3>1, ToRegisterPopped DEF m
    <3>4. K = {"pixmap", "menu"}
      BY <1>0, <1>4, <2>2, <2>3, <3>2, <3>3, SenderLives
    <3>5. NoStray(sent[a], asked[a], t)
      BY <1>5, <2>6, <3>1, <3>2 DEF Upheld
    <3>6. QED BY <1>3, <2>3, <3>4, <3>5, FetchedRegister
  <2>8. QED BY <1>1, <1>2, <1>4, <2>3, <2>4, <2>5, <2>7, UpheldByOne DEF m
<1>8. QED BY <1>6, <1>7

LEMMA UpheldNewIcon ==
  ASSUME IconInv, NEW a \in Apps, HandleNewIcon(a)
  PROVE  AllUpheld'
<1> DEFINE m == Head(sent[a])
<1>0. TypeInv /\ Once /\ LedgerInv /\ AllUpheld
  BY DEF IconInv, LedgerInv
<1>1. PICK t : t = m.service
  OBVIOUS
<1>2. Receive(a, "new icon") /\ UNCHANGED <<look, lost, items>>
  BY DEF HandleNewIcon, appVars
<1>3. m \in Message /\ m.kind = "new icon" /\ Popped(sent[a], sent'[a])
  BY <1>0, <1>2, PoppedByReceive, ReceiveType DEF Receive
<1>4. t \in Services /\ Owner[t] = a
  <2>1. m.kind # "gone"
    BY <1>3
  <2>2. Owner[m.service] = a
    BY <1>0, <1>2, <2>1, ReceiveType DEF Receive
  <2>3. QED BY <1>1, <1>3, <2>1, <2>2, MessageParts
<1>5. a \notin lost => Upheld(Icons(t), sent[a], asked[a], t, look[t])
  BY <1>0, <1>4 DEF AllUpheld
<1>6. \A s : Icons(s)' = Icons(s)
  BY <1>2, SameIcons
<1> HIDE DEF m
<1>7. CASE ~ Registered(t)
  <2>1. UNCHANGED asked
    BY <1>1, <1>7 DEF HandleNewIcon, m
  <2>2. More(asked[a], {}, t, asked'[a]) /\ \A b \in Apps : asked'[b] = asked[b]
    BY <1>0, <2>1, AskNothing
  <2>3. Icons(t) = {}
    BY <1>7, IconsListed
  <2>4. a \notin lost => Upheld(Icons(t), sent'[a], asked'[a], t, look[t])
    BY <1>3, <1>5, <2>2, <2>3, UpheldPopped DEF m
  <2>5. QED BY <1>1, <1>2, <1>4, <1>6, <2>2, <2>4, UpheldByOne DEF m
<1>8. CASE Registered(t)
  <2> DEFINE kinds == <<"pixmap">>
  <2>1. Ask(a, kinds, t)
    BY <1>1, <1>8 DEF HandleNewIcon, FetchIcon, m
  <2>2. kinds \in Seq({"pixmap", "name", "menu"})
        /\ { kinds[i] : i \in DOMAIN kinds } = {"pixmap"}
    OBVIOUS
  <2> HIDE DEF kinds
  <2>3. PICK K : /\ More(asked[a], K, t, asked'[a])
                 /\ a \in alive => K = { kinds[i] : i \in DOMAIN kinds }
    BY <1>0, <1>4, <2>1, <2>2, AskMore
  <2>4. \A b \in Apps : b # a => asked'[b] = asked[b]
    BY <1>0, <1>4, <2>1, <2>2, AskMore
  <2>5. Icons(t) # {}
    BY <1>8, IconsListed
  <2>6. a \notin lost => Upheld(Icons(t), sent'[a], asked'[a], t, look[t])
    <3>1. SUFFICES ASSUME a \notin lost, ~ Gone(sent'[a])
                   PROVE  Fetched(Icons(t), sent'[a], asked'[a], t, look[t])
      BY <2>5 DEF Upheld
    <3>2. ~ Gone(sent[a])
      BY <1>3, <3>1, GonePopped DEF m
    <3>3. K = {"pixmap"}
      BY <1>0, <1>4, <1>8, <2>2, <2>3, <3>2, SenderLives
    <3>4. Fetched(Icons(t), sent[a], asked[a], t, look[t])
      BY <1>5, <2>5, <3>1, <3>2 DEF Upheld
    <3>5. QED BY <1>3, <2>3, <3>3, <3>4, FetchedNewIcon
  <2>7. QED BY <1>1, <1>2, <1>4, <1>6, <2>3, <2>4, <2>6, UpheldByOne DEF m
<1>9. QED BY <1>7, <1>8

LEMMA UpheldPixmap ==
  ASSUME IconInv, NEW a \in Apps, HandlePixmap(a)
  PROVE  AllUpheld'
<1> DEFINE m == Head(sent[a])
<1>0. TypeInv /\ Once /\ LedgerInv /\ AllUpheld
  BY DEF IconInv, LedgerInv
<1>1. PICK t : t = m.service
  OBVIOUS
<1>2. Receive(a, "pixmap") /\ UNCHANGED <<look, lost>>
  BY DEF HandlePixmap, appVars
<1>3. m \in Message /\ m.kind = "pixmap" /\ Popped(sent[a], sent'[a])
  BY <1>0, <1>2, PoppedByReceive, ReceiveType DEF Receive
<1>4. t \in Services /\ Owner[t] = a
  <2>1. m.kind # "gone"
    BY <1>3
  <2>2. Owner[m.service] = a
    BY <1>0, <1>2, <2>1, ReceiveType DEF Receive
  <2>3. QED BY <1>1, <1>3, <2>1, <2>2, MessageParts
<1>5. a \notin lost => Upheld(Icons(t), sent[a], asked[a], t, look[t])
  BY <1>0, <1>4 DEF AllUpheld
<1> HIDE DEF m
<1>6. Registered(t) => Icons(t) # {}
  BY IconsListed
<1>7. CASE ~ Registered(t)
  <2>1. UNCHANGED <<asked, items>>
    BY <1>1, <1>7 DEF HandlePixmap, m
  <2>2. More(asked[a], {}, t, asked'[a]) /\ \A b \in Apps : asked'[b] = asked[b]
    BY <1>0, <2>1, AskNothing
  <2>3. Icons(t) = {} /\ \A s : Icons(s)' = Icons(s)
    BY <1>7, <2>1, IconsListed, SameIcons
  <2>4. a \notin lost => Upheld(Icons(t), sent'[a], asked'[a], t, look[t])
    BY <1>3, <1>5, <2>2, <2>3, UpheldPopped DEF m
  <2>5. QED BY <1>1, <1>2, <1>4, <2>2, <2>3, <2>4, UpheldByOne DEF m
<1>8. CASE Registered(t) /\ Usable(m.icon)
  <2>1. Load(t, m.icon) /\ UNCHANGED asked
    BY <1>1, <1>8 DEF HandlePixmap, m
  <2>2. More(asked[a], {}, t, asked'[a]) /\ \A b \in Apps : asked'[b] = asked[b]
    BY <1>0, <2>1, AskNothing
  <2>3. PICK icon : icon = m.icon
    OBVIOUS
  <2>4. Icons(t)' = {icon} /\ \A s : s # t => Icons(s)' = Icons(s)
    BY <1>0, <1>8, <2>1, <2>3, LoadedIcons
  <2>5. a \notin lost => Upheld({icon}, sent'[a], asked'[a], t, look[t])
    <3>1. SUFFICES ASSUME a \notin lost, ~ Gone(sent'[a])
                   PROVE  Fetched({icon}, sent'[a], asked'[a], t, look[t])
      BY DEF Upheld
    <3>2. ~ Gone(sent[a])
      BY <1>3, <3>1, GonePopped DEF m
    <3>3. Fetched(Icons(t), sent[a], asked[a], t, look[t])
      BY <1>5, <1>6, <1>8, <3>1, <3>2 DEF Upheld
    <3>4. Fetched({icon}, sent'[a], asked[a], t, look[t])
      BY <1>1, <1>3, <1>8, <2>3, <3>3, FetchedPixmap DEF m, Usable
    <3>5. QED BY <2>1, <3>4
  <2>6. QED BY <1>1, <1>2, <1>4, <2>2, <2>4, <2>5, UpheldByOne DEF m
<1>9. CASE Registered(t) /\ ~ Usable(m.icon)
  <2> DEFINE kinds == <<"name">>
  <2>1. Ask(a, kinds, t) /\ UNCHANGED items
    BY <1>1, <1>9 DEF HandlePixmap, FetchName, m
  <2>2. kinds \in Seq({"pixmap", "name", "menu"})
        /\ { kinds[i] : i \in DOMAIN kinds } = {"name"}
    OBVIOUS
  <2> HIDE DEF kinds
  <2>3. PICK K : /\ More(asked[a], K, t, asked'[a])
                 /\ a \in alive => K = { kinds[i] : i \in DOMAIN kinds }
    BY <1>0, <1>4, <2>1, <2>2, AskMore
  <2>4. \A b \in Apps : b # a => asked'[b] = asked[b]
    BY <1>0, <1>4, <2>1, <2>2, AskMore
  <2>5. Icons(t) # {} /\ \A s : Icons(s)' = Icons(s)
    BY <1>6, <1>9, <2>1, SameIcons
  <2>6. a \notin lost => Upheld(Icons(t), sent'[a], asked'[a], t, look[t])
    <3>1. SUFFICES ASSUME a \notin lost, ~ Gone(sent'[a])
                   PROVE  Fetched(Icons(t), sent'[a], asked'[a], t, look[t])
      BY <2>5 DEF Upheld
    <3>2. ~ Gone(sent[a])
      BY <1>3, <3>1, GonePopped DEF m
    <3>3. K = {"name"}
      BY <1>0, <1>4, <1>9, <2>2, <2>3, <3>2, SenderLives
    <3>4. Fetched(Icons(t), sent[a], asked[a], t, look[t])
      BY <1>5, <2>5, <3>1, <3>2 DEF Upheld
    <3>5. QED BY <1>1, <1>3, <1>9, <2>3, <3>3, <3>4, FetchedNoPixmap DEF m, Usable
  <2>7. QED BY <1>1, <1>2, <1>4, <2>3, <2>4, <2>5, <2>6, UpheldByOne DEF m
<1>10. QED BY <1>7, <1>8, <1>9

LEMMA UpheldName ==
  ASSUME IconInv, NEW a \in Apps, HandleName(a)
  PROVE  AllUpheld'
<1> DEFINE m == Head(sent[a])
<1>0. TypeInv /\ Once /\ LedgerInv /\ AllUpheld
  BY DEF IconInv, LedgerInv
<1>1. PICK t : t = m.service
  OBVIOUS
<1>2. Receive(a, "name") /\ UNCHANGED <<look, lost, asked>>
  BY DEF HandleName, appVars
<1>3. m \in Message /\ m.kind = "name" /\ Popped(sent[a], sent'[a])
  BY <1>0, <1>2, PoppedByReceive, ReceiveType DEF Receive
<1>4. t \in Services /\ Owner[t] = a
  <2>1. m.kind # "gone"
    BY <1>3
  <2>2. Owner[m.service] = a
    BY <1>0, <1>2, <2>1, ReceiveType DEF Receive
  <2>3. QED BY <1>1, <1>3, <2>1, <2>2, MessageParts
<1>5. a \notin lost => Upheld(Icons(t), sent[a], asked[a], t, look[t])
  BY <1>0, <1>4 DEF AllUpheld
<1> HIDE DEF m
<1>6. Registered(t) <=> Icons(t) # {}
  BY IconsListed
<1>7. More(asked[a], {}, t, asked'[a]) /\ \A b \in Apps : asked'[b] = asked[b]
  BY <1>0, <1>2, AskNothing
<1>8. PICK J : J = Icons(t)'
  OBVIOUS
<1>9. /\ \A s : s # t => Icons(s)' = Icons(s)
      /\ J = IF Registered(t) /\ Usable(m.icon) THEN {m.icon} ELSE Icons(t)
  <2>1. CASE Registered(t) /\ Usable(m.icon)
    <3>1. Load(t, m.icon)
      BY <1>1, <2>1 DEF HandleName, m
    <3>2. PICK icon : icon = m.icon
      OBVIOUS
    <3>3. Icons(t)' = {icon} /\ \A s : s # t => Icons(s)' = Icons(s)
      BY <1>0, <2>1, <3>1, <3>2, LoadedIcons
    <3>4. QED BY <1>8, <2>1, <3>2, <3>3
  <2>2. CASE ~ (Registered(t) /\ Usable(m.icon))
    <3>1. UNCHANGED items
      BY <1>1, <2>2 DEF HandleName, m
    <3>2. QED BY <1>8, <2>2, <3>1, SameIcons
  <2>3. QED BY <2>1, <2>2
<1>10. a \notin lost => Upheld(J, sent'[a], asked'[a], t, look[t])
  <2>1. CASE ~ Registered(t)
    <3>1. J = {} /\ Icons(t) = {}
      BY <1>6, <1>9, <2>1
    <3>2. a \notin lost => Upheld({}, sent[a], asked[a], t, look[t])
      BY <1>5, <3>1
    <3>3. m.kind # "gone"
      BY <1>3
    <3>4. a \notin lost => Upheld({}, sent'[a], asked'[a], t, look[t])
      BY ONLY <1>3, <1>7, <3>2, <3>3, UpheldPopped DEF m
    <3>5. QED BY <3>1, <3>4
  <2>2. CASE Registered(t)
    <3>1. J # {}
      BY <1>6, <1>9, <2>2
    <3>2. SUFFICES ASSUME a \notin lost, ~ Gone(sent'[a])
                   PROVE  Fetched(J, sent'[a], asked[a], t, look[t])
      BY <1>2, <3>1 DEF Upheld
    <3>3. ~ Gone(sent[a])
      BY <1>3, <3>2, GonePopped DEF m
    <3>4. Fetched(Icons(t), sent[a], asked[a], t, look[t])
      BY <1>5, <1>6, <2>2, <3>2, <3>3 DEF Upheld
    <3>5. J = IF m.icon # NoImage THEN {m.icon} ELSE Icons(t)
      BY <1>9, <2>2 DEF Usable
    <3>6. QED BY <1>1, <1>3, <3>4, <3>5, FetchedName DEF m
  <2>3. QED BY <2>1, <2>2
<1>11. a \notin lost => Upheld(Icons(t)', sent'[a], asked'[a], t, look[t])
  BY <1>8, <1>10
<1>12. QED BY <1>1, <1>2, <1>4, <1>7, <1>9, <1>11, UpheldByOne DEF m

LEMMA UpheldMenuPath ==
  ASSUME IconInv, NEW a \in Apps, HandleMenuPath(a)
  PROVE  AllUpheld'
<1> DEFINE m == Head(sent[a])
<1>0. TypeInv /\ Once /\ LedgerInv /\ AllUpheld
  BY DEF IconInv, LedgerInv
<1>1. PICK t : t = m.service
  OBVIOUS
<1>2. Receive(a, "menu") /\ UNCHANGED <<look, lost, asked>>
  BY DEF HandleMenuPath, appVars
<1>3. m \in Message /\ m.kind = "menu" /\ Popped(sent[a], sent'[a])
  BY <1>0, <1>2, PoppedByReceive, ReceiveType DEF Receive
<1>4. t \in Services /\ Owner[t] = a
  <2>1. m.kind # "gone"
    BY <1>3
  <2>2. Owner[m.service] = a
    BY <1>0, <1>2, <2>1, ReceiveType DEF Receive
  <2>3. QED BY <1>1, <1>3, <2>1, <2>2, MessageParts
<1>5. a \notin lost => Upheld(Icons(t), sent[a], asked[a], t, look[t])
  BY <1>0, <1>4 DEF AllUpheld
<1> HIDE DEF m
<1>6. \A s : Icons(s)' = Icons(s)
  BY <1>0, MenuPathEffect, SameIcons
<1>7. More(asked[a], {}, t, asked'[a]) /\ \A b \in Apps : asked'[b] = asked[b]
  BY <1>0, <1>2, AskNothing
<1>8. a \notin lost => Upheld(Icons(t), sent'[a], asked'[a], t, look[t])
  BY <1>3, <1>5, <1>7, UpheldPopped DEF m
<1>9. QED BY <1>1, <1>2, <1>4, <1>6, <1>7, <1>8, UpheldByOne DEF m

LEMMA UpheldGone ==
  ASSUME IconInv, NEW a \in Apps, HandleGone(a)
  PROVE  AllUpheld'
<1> SUFFICES ASSUME NEW s \in Services, Owner[s] \notin lost'
             PROVE  Upheld(Icons(s)', sent'[Owner[s]], asked'[Owner[s]], s, look'[s])
  BY DEF AllUpheld
<1>0. /\ TypeInv
      /\ Owner[s] \notin lost => Upheld(Icons(s), sent[Owner[s]], asked[Owner[s]], s, look[s])
  BY DEF IconInv, LedgerInv, AllUpheld
<1>1. /\ ~ Has(sent'[a], "pixmap", s) /\ ~ Has(sent'[a], "name", s)
      /\ asked'[a] = <<>>
      /\ \A b \in Apps : b # a => sent'[b] = sent[b] /\ asked'[b] = asked[b]
  BY <1>0, GoneEffect
<1>2. Icons(s)' = IF Owner[s] = a THEN {} ELSE Icons(s)
  BY <1>0, LeftIcons
<1>3. UNCHANGED look /\ lost' = lost \ {a} /\ Owner[s] \in Apps
  BY TrayAssumption DEF HandleGone
<1>4. CASE Owner[s] = a
  <2>1. NoStray(sent'[a], asked'[a], s)
    BY <1>1 DEF NoStray, Has
  <2>2. QED BY <1>2, <1>4, <2>1 DEF Upheld
<1>5. CASE Owner[s] # a
  BY <1>0, <1>1, <1>2, <1>3, <1>5
<1>6. QED BY <1>4, <1>5

(* What is said of an application ends with a call that runs out of time.  *)
LEMMA UpheldTimeOut ==
  ASSUME IconInv, NEW a \in Apps, TimeOut(a)
  PROVE  AllUpheld'
<1> SUFFICES ASSUME NEW s \in Services, Owner[s] \notin lost'
             PROVE  Upheld(Icons(s)', sent'[Owner[s]], asked'[Owner[s]], s, look'[s])
  BY DEF AllUpheld
<1>1. UNCHANGED <<look, items>> /\ lost' = lost \cup {a}
  BY DEF TimeOut
<1>2. Owner[s] \in Apps /\ Owner[s] # a /\ Owner[s] \notin lost
  BY <1>1, TrayAssumption
<1>3. Upheld(Icons(s), sent[Owner[s]], asked[Owner[s]], s, look[s]) /\ TypeInv
  BY <1>2 DEF IconInv, LedgerInv, AllUpheld
<1>4. \A b \in Apps : b # a => sent'[b] = sent[b] /\ asked'[b] = asked[b]
  BY <1>3, TimeOutEffect
<1>5. Icons(s)' = Icons(s)
  BY <1>1, SameIcons
<1>6. QED BY <1>1, <1>2, <1>3, <1>4, <1>5

(* Every step keeps what is fetched in order.                              *)
LEMMA IconStep ==
  ASSUME IconInv, [Next]_vars
  PROVE  IconInv'
<1>1. LedgerInv'
  BY LedgerStep DEF IconInv
<1>2. ASSUME AppNext
      PROVE  AllUpheld'
  BY <1>2, UpheldApps
<1>3. ASSUME HostNext
      PROVE  AllUpheld'
  BY <1>3, UpheldRegister, UpheldNewIcon, UpheldPixmap, UpheldName, UpheldMenuPath,
     UpheldGone, UpheldTimeOut DEF HostNext
<1>4. ASSUME BarNext \/ CloseMenu \/ UNCHANGED vars
      PROVE  AllUpheld'
  <2>1. UNCHANGED <<sent, asked, look, lost, items>>
    BY <1>4 DEF BarNext, NewBar, BarGone, OpenMenu, CloseMenu, vars, appVars
  <2>2. \A s : Icons(s)' = Icons(s)
    BY <2>1, SameIcons
  <2>3. QED BY <2>1, <2>2 DEF IconInv, AllUpheld
<1>5. AllUpheld'
  BY <1>2, <1>3, <1>4 DEF Next
<1>6. QED BY <1>1, <1>5 DEF IconInv

(* Whatever order icons change in and replies come back, an item whose     *)
(* application has said and answered everything in time shows its present  *)
(* icon.                                                                   *)
THEOREM IconCurrentHolds == Spec => []IconCurrent
<1>1. Init => IconInv
  BY TypeInit, LedgerInit, UpheldInit DEF IconInv, LedgerInv
<1>2. IconInv /\ [Next]_vars => IconInv'
  BY IconStep
<1>3. IconInv => IconCurrent
  <2> SUFFICES ASSUME IconInv, NEW i \in DOMAIN items,
                      sent[Owner[items[i].service]] = <<>>,
                      asked[Owner[items[i].service]] = <<>>,
                      Owner[items[i].service] \notin lost,
                      Shown(look[items[i].service]) # NoImage
               PROVE  items[i].icon = Shown(look[items[i].service])
    BY DEF IconCurrent
  <2> DEFINE s == items[i].service
             a == Owner[s]
  <2>1. s \in Services
    <3>1. items[i] \in Item
      BY ElementOfSeq, LenProperties DEF IconInv, LedgerInv, TypeInv, TypeOK
    <3>2. QED BY <3>1 DEF Item
  <2>2. items[i].icon \in Icons(s)
    BY DEF Icons
  <2>3. Upheld(Icons(s), sent[a], asked[a], s, look[s])
    BY <2>1 DEF IconInv, AllUpheld
  <2>4. ~ Gone(sent[a]) /\ ~ Renewed(sent[a], asked[a], s, look[s])
    BY DEF Gone, Renewed, Has
  <2>5. Fetched(Icons(s), sent[a], asked[a], s, look[s])
    BY <2>2, <2>3, <2>4 DEF Upheld
  <2>6. QED BY <2>2, <2>4, <2>5 DEF Fetched
<1>4. QED BY <1>1, <1>2, <1>3, PTL DEF Spec

=============================================================================
