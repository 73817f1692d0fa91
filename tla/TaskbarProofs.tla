---------------------------- MODULE TaskbarProofs ----------------------------
(***************************************************************************)
(* Theorems about what the taskbars show.                                  *)
(*                                                                         *)
(* Of Outputs.tla, for any windows, outputs and configurations, and any    *)
(* number of pins: taskbars are where they belong, each has one button for *)
(* each open window and a row that names no window that is gone and goes   *)
(* out of date only when a client names its app, and the commands of the   *)
(* configuration run once.                                                 *)
(*                                                                         *)
(* Of Volume.tla, for any daemon, any number of sinks and changes, and any *)
(* interleaving of the two threads: no wake-up of the volume monitor is    *)
(* lost, and when it has nothing left to do, what is shown is true.        *)
(***************************************************************************)
EXTENDS Outputs, Volume, ListsProofs

-----------------------------------------------------------------------------
(* A taskbar *)

(* A list that has each element of a set once.                             *)
Enumerates(list, S) ==
  /\ list \in Seq(S)
  /\ \A x \in S : \E i \in DOMAIN list : list[i] = x
  /\ \A i, j \in DOMAIN list : list[i] = list[j] => i = j

(* It is as long as the set is large.                                      *)
LEMMA EnumeratesSize ==
  ASSUME NEW list, NEW S, Enumerates(list, S)
  PROVE  ToSet(list) = S /\ IsFiniteSet(S) /\ Len(list) = Cardinality(S)
<1> DEFINE D == 1 .. Len(list)
<1>1. Len(list) \in Nat /\ list \in [D -> S] /\ DOMAIN list = D
  BY LenProperties DEF Enumerates
<1>2. IsFiniteSet(D) /\ Cardinality(D) = Len(list)
  BY <1>1, FS_Interval
<1>3. ToSet(list) = S
  BY <1>1 DEF ToSet, Enumerates
<1>4. list \in Injection(D, S)
  BY <1>1 DEF Injection, IsInjective, Enumerates
<1>5. list \in Surjection(D, S)
  BY <1>1 DEF Surjection, Enumerates
<1> HIDE DEF D
<1>6. IsFiniteSet(S) /\ Cardinality(S) = Cardinality(D)
  BY <1>2, <1>4, <1>5, FS_Surjection
<1>7. QED BY <1>2, <1>3, <1>6

(* The buttons of a new taskbar: every order of the set.                   *)
LEMMA OrderEnumerates ==
  ASSUME NEW S, IsFiniteSet(S), NEW list \in SetToSeqs(S)
  PROVE  Enumerates(list, S)
<1> DEFINE D == 1 .. Cardinality(S)
<1>1. Cardinality(S) \in Nat
  BY FS_CardinalityType
<1>2. list \in [D -> S] /\ \A i, j \in D : i # j => list[i] # list[j]
  BY DEF SetToSeqs
<1>3. IsFiniteSet(D) /\ Cardinality(D) = Cardinality(S)
  BY <1>1, FS_Interval
<1>4. list \in Injection(D, S)
  BY <1>2 DEF Injection, IsInjective
<1>5. list \in Seq(S)
  BY <1>1, <1>2
<1> HIDE DEF D
<1>6. list \in Surjection(D, S)
  BY <1>3, <1>4, FS_Injection
<1>7. QED BY <1>2, <1>4, <1>5, <1>6
        DEF Enumerates, Injection, IsInjective, Surjection

(* What each pin shows is a window that has a button, and not one that     *)
(* another pin shows: pins of the same app take its windows in turn.       *)
LEMMA ClaimedProperties ==
  ASSUME NEW d \in Desk, NEW buttons \in Seq(Views),
         \A k, l \in DOMAIN buttons : buttons[k] = buttons[l] => k = l
  PROVE  /\ \A i \in DOMAIN d.cfg.pins :
              \/ Claimed(d, buttons, i) = NoView
              \/ \E k \in DOMAIN buttons : Claimed(d, buttons, i) = buttons[k]
         /\ \A i, j \in DOMAIN d.cfg.pins :
              /\ Claimed(d, buttons, i) # NoView
              /\ Claimed(d, buttons, i) = Claimed(d, buttons, j)
              => i = j
<1> DEFINE pins == d.cfg.pins
           Same(i) == { k \in DOMAIN buttons : d.app[buttons[k]] = pins[i].app }
           Upto(i) == { j \in 1 .. i : pins[j].app = pins[i].app }
           Taken(i) == Nth(Same(i), Cardinality(Upto(i)))
<1>1. Len(pins) \in Nat /\ DOMAIN pins = 1 .. Len(pins)
  BY LenProperties DEF Desk, Config
<1>2. /\ Len(buttons) \in Nat /\ DOMAIN buttons = 1 .. Len(buttons)
      /\ \A k \in DOMAIN buttons : buttons[k] \in Views
  BY LenProperties, ElementOfSeq
<1>3. ASSUME NEW i \in DOMAIN pins
      PROVE  /\ IsFiniteSet(Upto(i))
             /\ Cardinality(Upto(i)) \in Nat \ {0}
             /\ Same(i) \in SUBSET (1 .. Len(buttons))
             /\ Cardinality(Same(i)) \in Nat
  <2>1. i \in Nat /\ i \in 1 .. i
    BY <1>1
  <2>2. IsFiniteSet(1 .. i) /\ IsFiniteSet(1 .. Len(buttons))
    <3>1. \A l \in Nat : IsFiniteSet(1 .. l)
      BY ONLY FS_Interval
    <3>2. QED BY ONLY <1>2, <2>1, <3>1
  <2>3. Upto(i) \in SUBSET (1 .. i) /\ Same(i) \in SUBSET (1 .. Len(buttons))
    BY <1>2
  <2>4. IsFiniteSet(Upto(i)) /\ IsFiniteSet(Same(i)) /\ i \in Upto(i)
    BY <2>1, <2>2, <2>3, FS_Subset
  <2> HIDE DEF Upto, Same
  <2>5. Cardinality(Upto(i)) # 0
    BY <2>4, FS_EmptySet
  <2>6. QED BY <2>3, <2>4, <2>5, FS_CardinalityType
<1>4. ASSUME NEW i \in DOMAIN pins, Cardinality(Upto(i)) <= Cardinality(Same(i))
      PROVE  /\ Taken(i) \in Same(i)
             /\ Rank(Same(i), Taken(i)) = Cardinality(Upto(i))
  <2> HIDE DEF Upto, Same
  <2>1. Cardinality(Upto(i)) \in 1 .. Cardinality(Same(i))
    BY <1>3, <1>4
  <2>2. QED BY <1>2, <1>3, <2>1, NthProperties
<1>5. ASSUME NEW i \in DOMAIN pins, NEW j \in DOMAIN pins, i < j,
             pins[i].app = pins[j].app
      PROVE  Cardinality(Upto(i)) < Cardinality(Upto(j))
  <2>1. Upto(i) \in SUBSET Upto(j) /\ j \in Upto(j) /\ j \notin Upto(i)
    BY <1>1, <1>5
  <2>2. IsFiniteSet(Upto(j)) /\ Cardinality(Upto(j)) \in Nat
        /\ Cardinality(Upto(i)) \in Nat
    BY <1>3
  <2> HIDE DEF Upto
  <2>3. Cardinality(Upto(i)) <= Cardinality(Upto(j))
        /\ Cardinality(Upto(i)) # Cardinality(Upto(j))
    BY <2>1, <2>2, FS_Subset
  <2>4. QED BY <2>2, <2>3
<1>6. ASSUME NEW i \in DOMAIN pins
      PROVE  Claimed(d, buttons, i) =
               IF Cardinality(Upto(i)) <= Cardinality(Same(i))
                 THEN buttons[Taken(i)] ELSE NoView
  BY DEF Claimed
<1>7. ASSUME NEW i \in DOMAIN pins, Claimed(d, buttons, i) # NoView
      PROVE  /\ Cardinality(Upto(i)) <= Cardinality(Same(i))
             /\ Taken(i) \in DOMAIN buttons
             /\ Claimed(d, buttons, i) = buttons[Taken(i)]
             /\ d.app[buttons[Taken(i)]] = pins[i].app
             /\ Rank(Same(i), Taken(i)) = Cardinality(Upto(i))
  <2>1. Cardinality(Upto(i)) <= Cardinality(Same(i))
    BY <1>6, <1>7
  <2>2. Taken(i) \in Same(i) /\ Rank(Same(i), Taken(i)) = Cardinality(Upto(i))
    BY <1>4, <2>1
  <2>3. QED BY <1>6, <2>1, <2>2
<1>8. ASSUME NEW i \in DOMAIN pins, NEW j \in DOMAIN pins, i < j,
             Claimed(d, buttons, i) # NoView,
             Claimed(d, buttons, i) = Claimed(d, buttons, j)
      PROVE  FALSE
  <2>0. /\ Taken(i) \in DOMAIN buttons /\ Taken(j) \in DOMAIN buttons
        /\ buttons[Taken(i)] = buttons[Taken(j)]
        /\ d.app[buttons[Taken(i)]] = pins[i].app
        /\ d.app[buttons[Taken(j)]] = pins[j].app
    <3> HIDE DEF Taken, pins, Same, Upto
    <3>1. QED BY <1>7, <1>8
  <2>1. Taken(i) = Taken(j) /\ pins[i].app = pins[j].app
    <3> HIDE DEF Taken, pins
    <3>1. QED BY <2>0
  <2>2. Same(i) = Same(j)
    BY <2>1
  <2>3. Rank(Same(i), Taken(i)) = Cardinality(Upto(i))
        /\ Rank(Same(j), Taken(j)) = Cardinality(Upto(j))
    BY <1>7, <1>8
  <2>4. Cardinality(Upto(i)) < Cardinality(Upto(j))
        /\ Cardinality(Upto(i)) \in Nat
    BY <1>3, <1>5, <1>8, <2>1
  <2> HIDE DEF Same, Upto, Taken
  <2>5. QED BY <2>1, <2>2, <2>3, <2>4
<1>9. \A i \in DOMAIN pins :
        \/ Claimed(d, buttons, i) = NoView
        \/ \E k \in DOMAIN buttons : Claimed(d, buttons, i) = buttons[k]
  BY <1>7
<1>10. ASSUME NEW i \in DOMAIN pins, NEW j \in DOMAIN pins,
              Claimed(d, buttons, i) # NoView,
              Claimed(d, buttons, i) = Claimed(d, buttons, j)
       PROVE  i = j
  <2>1. ~ (i < j) /\ ~ (j < i)
    BY <1>8, <1>10
  <2>2. QED BY <1>1, <2>1
<1> HIDE DEF pins
<1>11. QED BY <1>9, <1>10 DEF pins

(* What a row of slots says: the pins come first, each with its number; it *)
(* shows no window twice, none that is not open, and all that are listed.  *)
RowExact(d, slots) ==
  LET n     == Len(d.cfg.pins)
      shown == { i \in DOMAIN slots : slots[i].view # NoView }
  IN  /\ \A i \in DOMAIN slots : slots[i].pin = IF i <= n THEN i ELSE 0
      /\ DOMAIN slots \ shown \subseteq 1 .. n /\ n <= Len(slots)
      /\ \A i, j \in shown : slots[i].view = slots[j].view => i = j
      /\ { slots[i].view : i \in shown } \subseteq d.mapped
      /\ \A v \in d.mapped : Listed(d, v) =>
            \E i \in shown : slots[i].view = v
      /\ \A i \in shown : slots[i].pin = 0 => Listed(d, slots[i].view)

Slot == [view: Views \cup {NoView}, pin: Nat]

(* A row of the pins and then m windows, at the places of the buttons of   *)
(* listed windows no pin shows.                                            *)
RowParts(d, buttons, m, place) ==
  LET n     == Len(d.cfg.pins)
      slots == Slots(d, buttons)
      free  == { k \in DOMAIN buttons :
                   /\ \A i \in 1 .. n : Claimed(d, buttons, i) # buttons[k]
                   /\ Listed(d, buttons[k]) }
  IN  /\ slots \in Seq(Slot) /\ Len(slots) = n + m
      /\ \A i \in 1 .. n : /\ slots[i].view = Claimed(d, buttons, i)
                           /\ slots[i].pin = i
      /\ \A i \in 1 .. m : /\ place[i] \in free
                           /\ slots[n + i].view = buttons[place[i]]
                           /\ slots[n + i].pin = 0
      /\ \A i, j \in 1 .. m : place[i] = place[j] => i = j
      /\ \A k \in free : \E i \in 1 .. m : place[i] = k

(* layout() draws such a row.                                              *)
LEMMA SlotsParts ==
  ASSUME NEW d \in Desk, NEW buttons \in Seq(Views),
         \A k, l \in DOMAIN buttons : buttons[k] = buttons[l] => k = l
  PROVE  \E m \in Nat : \E place \in [1 .. m -> DOMAIN buttons] :
           RowParts(d, buttons, m, place)
<1> DEFINE n == Len(d.cfg.pins)
           first == [i \in DOMAIN d.cfg.pins |->
                       [view |-> Claimed(d, buttons, i), pin |-> i]]
           claimed == { Claimed(d, buttons, i) : i \in DOMAIN d.cfg.pins }
           I == { k \in DOMAIN buttons :
                    Listed(d, buttons[k]) /\ buttons[k] \notin claimed }
           free == { k \in DOMAIN buttons :
                       /\ \A i \in 1 .. n : Claimed(d, buttons, i) # buttons[k]
                       /\ Listed(d, buttons[k]) }
           cells == [k \in DOMAIN buttons |-> [view |-> buttons[k], pin |-> 0]]
           last == Kept(cells, I)
<1>1. n \in Nat /\ DOMAIN d.cfg.pins = 1 .. n
  BY LenProperties DEF Desk, Config
<1>2. ASSUME NEW i \in 1 .. n
      PROVE  Claimed(d, buttons, i) \in Views \cup {NoView}
  <2>1. \/ Claimed(d, buttons, i) = NoView
        \/ \E k \in DOMAIN buttons : Claimed(d, buttons, i) = buttons[k]
    BY <1>1, ClaimedProperties
  <2>2. QED BY <2>1
<1>3. /\ first \in Seq(Slot) /\ Len(first) = n
      /\ \A i \in 1 .. n : first[i] = [view |-> Claimed(d, buttons, i), pin |-> i]
  <2>1. \A i \in 1 .. n : [view |-> Claimed(d, buttons, i), pin |-> i] \in Slot
    BY <1>1, <1>2 DEF Slot
  <2>2. first = [i \in 1 .. n |-> [view |-> Claimed(d, buttons, i), pin |-> i]]
    BY <1>1
  <2> HIDE DEF n, first
  <2>3. QED BY <1>1, <2>1, <2>2
<1>4. I = free
  BY <1>1
<1>5. I \in SUBSET (DOMAIN buttons)
  OBVIOUS
<1>6. Slots(d, buttons) = first \o last
  BY DEF Slots
<1> HIDE DEF I, first
<1>7. /\ cells \in Seq(Slot) /\ DOMAIN cells = DOMAIN buttons
      /\ \A k \in DOMAIN buttons : cells[k] = [view |-> buttons[k], pin |-> 0]
  <2>1. \A k \in DOMAIN buttons : [view |-> buttons[k], pin |-> 0] \in Slot
    BY ElementOfSeq DEF Slot
  <2>2. Len(buttons) \in Nat /\ DOMAIN buttons = 1 .. Len(buttons)
    BY LenProperties
  <2>3. cells = [k \in 1 .. Len(buttons) |-> [view |-> buttons[k], pin |-> 0]]
    BY <2>2
  <2> HIDE DEF cells
  <2>4. QED BY <2>1, <2>2, <2>3
<1> HIDE DEF cells
<1>8. /\ last \in Seq(Slot)
      /\ \A k \in DOMAIN last : Nth(I, k) \in I /\ last[k] = cells[Nth(I, k)]
      /\ \A k, l \in DOMAIN last : k < l => Nth(I, k) < Nth(I, l)
      /\ \A k \in I : \E l \in DOMAIN last : Nth(I, l) = k
  <2>1. I \in SUBSET (DOMAIN cells)
    BY <1>5, <1>7
  <2>2. QED BY <1>7, <2>1, KeptProperties
<1> DEFINE m == Len(last)
           place == [i \in 1 .. m |-> Nth(I, i)]
<1> HIDE DEF last
<1>9. m \in Nat /\ DOMAIN last = 1 .. m
  BY <1>8, LenProperties
<1> HIDE DEF m, n, free
<1>10. /\ Slots(d, buttons) \in Seq(Slot) /\ Len(Slots(d, buttons)) = n + m
       /\ \A i \in 1 .. n + m :
            Slots(d, buttons)[i] = IF i <= n THEN first[i] ELSE last[i - n]
  <2>1. /\ first \o last \in Seq(Slot)
        /\ Len(first \o last) = Len(first) + Len(last)
        /\ \A i \in 1 .. Len(first) + Len(last) :
             (first \o last)[i] = IF i <= Len(first) THEN first[i]
                                  ELSE last[i - Len(first)]
    BY ONLY <1>3, <1>8, ConcatProperties DEF m
  <2>2. QED BY ONLY <1>3, <1>6, <1>9, <2>1 DEF m
<1>11. \A i \in 1 .. n : /\ Slots(d, buttons)[i].view = Claimed(d, buttons, i)
                         /\ Slots(d, buttons)[i].pin = i
  BY <1>1, <1>3, <1>9, <1>10
<1>12. ASSUME NEW i \in 1 .. m
       PROVE  /\ place[i] \in free
              /\ Slots(d, buttons)[n + i].view = buttons[place[i]]
              /\ Slots(d, buttons)[n + i].pin = 0
  <2> DEFINE j == n + i
  <2>1. j \in 1 .. n + m /\ ~ (j <= n) /\ j - n = i
    BY <1>1, <1>9
  <2>2. Slots(d, buttons)[n + i] = last[i]
    <3> HIDE DEF j
    <3>1. Slots(d, buttons)[j] = last[j - n]
      BY <1>10, <2>1
    <3>2. QED BY <2>1, <3>1 DEF j
  <2>3. /\ place[i] \in I
        /\ last[i] = [view |-> buttons[place[i]], pin |-> 0]
    BY <1>5, <1>7, <1>8, <1>9
  <2>4. QED BY <1>4, <2>2, <2>3
<1>13. ASSUME NEW i \in 1 .. m, NEW j \in 1 .. m, place[i] = place[j]
       PROVE  i = j
  <2>1. place[i] \in Int /\ place[j] \in Int
    <3>1. place[i] \in I /\ place[j] \in I /\ DOMAIN buttons = 1 .. Len(buttons)
      BY <1>8, <1>9, LenProperties
    <3>2. QED BY <1>5, <3>1
  <2>2. ~ (i < j) /\ ~ (j < i)
    BY <1>8, <1>9, <1>13, <2>1
  <2>3. QED BY <1>9, <2>2
<1>14. \A k \in free : \E i \in 1 .. m : place[i] = k
  BY <1>4, <1>8, <1>9
<1>15. place \in [1 .. m -> DOMAIN buttons]
  BY <1>5, <1>8, <1>9
<1> HIDE DEF place
<1>16. RowParts(d, buttons, m, place)
  BY <1>10, <1>11, <1>12, <1>13, <1>14 DEF RowParts, n, free
<1>17. QED BY <1>9, <1>15, <1>16

(* The row of a taskbar that has a button for each window is exact.        *)
LEMMA SlotsExactly ==
  ASSUME NEW d \in Desk, NEW buttons, Enumerates(buttons, d.mapped)
  PROVE  Slots(d, buttons) \in Seq(Slot) /\ RowExact(d, Slots(d, buttons))
<1> DEFINE n == Len(d.cfg.pins)
           slots == Slots(d, buttons)
           shown == { i \in DOMAIN slots : slots[i].view # NoView }
           claim(i) == Claimed(d, buttons, i)
           free == { k \in DOMAIN buttons :
                       /\ \A i \in 1 .. n : claim(i) # buttons[k]
                       /\ Listed(d, buttons[k]) }
<1>1. /\ d.mapped \in SUBSET Views
      /\ n \in Nat /\ DOMAIN d.cfg.pins = 1 .. n
  BY LenProperties DEF Desk, Config
<1>2. /\ buttons \in Seq(d.mapped) /\ buttons \in Seq(Views)
      /\ DOMAIN buttons = 1 .. Len(buttons)
      /\ \A k \in DOMAIN buttons : buttons[k] \in d.mapped
      /\ \A v \in d.mapped : \E k \in DOMAIN buttons : buttons[k] = v
      /\ \A k, l \in DOMAIN buttons : buttons[k] = buttons[l] => k = l
  BY <1>1, SeqMonotonic, LenProperties, ElementOfSeq DEF Enumerates
<1>3. NoView \notin d.mapped
  BY <1>1, TaskbarAssumption
<1>rows. PICK m \in Nat : \E place \in [1 .. m -> DOMAIN buttons] :
                               RowParts(d, buttons, m, place)
  BY <1>2, SlotsParts
<1>4. PICK place \in [1 .. m -> DOMAIN buttons] : RowParts(d, buttons, m, place)
  BY <1>rows
<1>5. /\ slots \in Seq(Slot) /\ Len(slots) = n + m
      /\ \A i \in 1 .. n : slots[i].view = claim(i) /\ slots[i].pin = i
      /\ \A i \in 1 .. m : /\ place[i] \in free
                           /\ slots[n + i].view = buttons[place[i]]
                           /\ slots[n + i].pin = 0
      /\ \A i, j \in 1 .. m : place[i] = place[j] => i = j
      /\ \A k \in free : \E i \in 1 .. m : place[i] = k
  BY <1>4 DEF RowParts
<1>6. /\ \A i \in 1 .. n : \/ claim(i) = NoView
                           \/ \E k \in DOMAIN buttons : claim(i) = buttons[k]
      /\ \A i, j \in 1 .. n : claim(i) # NoView /\ claim(i) = claim(j) => i = j
  <2>1. /\ d \in Desk /\ buttons \in Seq(Views)
        /\ \A k, l \in DOMAIN buttons : buttons[k] = buttons[l] => k = l
    BY <1>2
  <2>2. /\ \A i \in DOMAIN d.cfg.pins :
              \/ Claimed(d, buttons, i) = NoView
              \/ \E k \in DOMAIN buttons : Claimed(d, buttons, i) = buttons[k]
        /\ \A i, j \in DOMAIN d.cfg.pins :
              /\ Claimed(d, buttons, i) # NoView
              /\ Claimed(d, buttons, i) = Claimed(d, buttons, j)
              => i = j
    BY ONLY <2>1, ClaimedProperties
  <2>3. DOMAIN d.cfg.pins = 1 .. n
    BY <1>1
  <2> HIDE DEF n
  <2>4. QED BY ONLY <2>2, <2>3
<1>7. DOMAIN slots = 1 .. n + m
  BY <1>5, LenProperties
<1> HIDE DEF slots, n, claim
<1>8. ASSUME NEW i \in DOMAIN slots
      PROVE  \/ i \in 1 .. n
             \/ i - n \in 1 .. m /\ i = n + (i - n) /\ ~ (i <= n)
  BY <1>1, <1>7
<1>9. \A k \in free : /\ k \in DOMAIN buttons /\ Listed(d, buttons[k])
                      /\ \A i \in 1 .. n : claim(i) # buttons[k]
  OBVIOUS
<1>10. \A i \in shown : i \in DOMAIN slots /\ slots[i].view # NoView
  OBVIOUS
<1>11. \A i \in DOMAIN slots : slots[i].view # NoView => i \in shown
  OBVIOUS
<1>12. \A k \in DOMAIN buttons :
         /\ \A i \in 1 .. n : claim(i) # buttons[k]
         /\ Listed(d, buttons[k])
         => k \in free
  OBVIOUS
<1> HIDE DEF free, shown
<1>13. ASSUME NEW i \in DOMAIN slots
       PROVE  slots[i].pin = IF i <= n THEN i ELSE 0
  <2>1. CASE i \in 1 .. n
    BY <1>1, <1>5, <2>1
  <2>2. CASE i - n \in 1 .. m /\ i = n + (i - n) /\ ~ (i <= n)
    BY <1>5, <2>2
  <2>3. QED BY <1>8, <2>1, <2>2
<1>14. ASSUME NEW i \in DOMAIN slots, ~ (i \in 1 .. n)
       PROVE  /\ i - n \in 1 .. m /\ slots[i].view = buttons[place[i - n]]
              /\ slots[i].view \in d.mapped /\ Listed(d, slots[i].view)
              /\ slots[i].view # NoView
              /\ \A j \in 1 .. n : slots[i].view # claim(j)
  <2>1. i - n \in 1 .. m /\ i = n + (i - n)
    BY <1>8, <1>14
  <2>2. slots[i].view = buttons[place[i - n]] /\ place[i - n] \in free
    BY <1>5, <2>1
  <2>3. QED BY <1>2, <1>3, <1>9, <2>1, <2>2
<1>15. \A i \in DOMAIN slots : i \notin shown => i \in 1 .. n
  BY <1>11, <1>14
<1>16. n <= Len(slots)
  BY <1>1, <1>5
<1>17. ASSUME NEW i \in shown, NEW j \in shown, slots[i].view = slots[j].view
       PROVE  i = j
  <2>1. CASE i \in 1 .. n /\ j \in 1 .. n
    BY <1>5, <1>6, <1>10, <1>17, <2>1
  <2>2. CASE i \in 1 .. n /\ ~ (j \in 1 .. n)
    BY <1>5, <1>10, <1>14, <1>17, <2>2
  <2>3. CASE ~ (i \in 1 .. n) /\ j \in 1 .. n
    BY <1>5, <1>10, <1>14, <1>17, <2>3
  <2>4. CASE ~ (i \in 1 .. n) /\ ~ (j \in 1 .. n)
    <3>1. /\ i - n \in 1 .. m /\ j - n \in 1 .. m
          /\ buttons[place[i - n]] = buttons[place[j - n]]
      BY <1>10, <1>14, <1>17, <2>4
    <3>2. place[i - n] = place[j - n]
      BY <1>2, <1>5, <1>9, <3>1
    <3>3. i - n = j - n
      BY <1>5, <3>1, <3>2
    <3>4. i \in Int /\ j \in Int
      BY <1>7, <1>10
    <3>5. QED BY <1>1, <3>3, <3>4
  <2>5. QED BY <2>1, <2>2, <2>3, <2>4
<1>18. ASSUME NEW i \in shown
       PROVE  /\ slots[i].view \in d.mapped
              /\ slots[i].pin = 0 => Listed(d, slots[i].view)
  <2>1. CASE i \in 1 .. n
    <3>1. slots[i].view = claim(i) /\ slots[i].pin = i /\ i # 0
      BY <1>1, <1>5, <2>1
    <3>2. QED BY <1>2, <1>6, <1>10, <2>1, <3>1
  <2>2. CASE ~ (i \in 1 .. n)
    BY <1>10, <1>14, <2>2
  <2>3. QED BY <2>1, <2>2
<1>19. ASSUME NEW v \in d.mapped, Listed(d, v)
       PROVE  \E i \in shown : slots[i].view = v
  <2>1. PICK k \in DOMAIN buttons : buttons[k] = v
    BY <1>2
  <2>2. CASE \E i \in 1 .. n : claim(i) = v
    <3>1. PICK i \in 1 .. n : claim(i) = v
      BY <2>2
    <3>2. i \in DOMAIN slots /\ slots[i].view = v /\ v # NoView
      BY <1>1, <1>3, <1>5, <1>7, <3>1
    <3>3. QED BY <1>11, <3>2
  <2>3. CASE \A i \in 1 .. n : claim(i) # v
    <3>1. k \in free
      BY <1>12, <1>19, <2>1, <2>3
    <3>2. PICK i \in 1 .. m : place[i] = k
      BY <1>5, <3>1
    <3>3. n + i \in DOMAIN slots
      BY <1>1, <1>7
    <3>4. slots[n + i].view = v /\ v # NoView
      BY <1>3, <1>5, <2>1, <3>2
    <3>5. QED BY <1>11, <3>3, <3>4
  <2>4. QED BY <2>2, <2>3
<1>20. RowExact(d, slots)
  <2> HIDE DEF slots
  <2>1. QED BY <1>13, <1>15, <1>16, <1>17, <1>18, <1>19 DEF RowExact, n, shown
<1>21. QED BY <1>5, <1>20 DEF slots

(* A taskbar in the layout: a button for each window, and an exact row.    *)
Good(b, d) ==
  /\ b \in Bar /\ b.placed
  /\ Enumerates(b.buttons, d.mapped)
  /\ RowExact(d, b.slots)

(* Drawing the row of a taskbar with the right buttons.                    *)
LEMMA LayoutGood ==
  ASSUME NEW d \in Desk, NEW b \in Bar, b.placed, Enumerates(b.buttons, d.mapped)
  PROVE  Good(Layout(b, d), d)
<1> DEFINE s == Slots(d, b.buttons)
           p == PinIcons(b, d.cfg.pins)
<1>1. s \in Seq(Slot) /\ RowExact(d, s)
  BY SlotsExactly
<1>2. p \in Seq(Icons)
  <2> DEFINE pins == d.cfg.pins
  <2>1. pins \in Seq(Pin) /\ b.pin_icons \in Seq(Icons)
    BY DEF Desk, Config, Bar
  <2> HIDE DEF pins
  <2>2. /\ Len(pins) \in Nat /\ DOMAIN pins = 1 .. Len(pins)
        /\ \A i \in 1 .. Len(pins) : pins[i].icon \in Icons
    <3>1. Len(pins) \in Nat /\ DOMAIN pins = 1 .. Len(pins)
      BY <2>1, LenProperties
    <3>2. ASSUME NEW i \in 1 .. Len(pins)
          PROVE  pins[i] \in Pin
      BY <2>1, ElementOfSeq
    <3>3. QED BY <3>1, <3>2 DEF Pin
  <2>3. [i \in 1 .. Len(pins) |-> pins[i].icon] \in Seq(Icons)
    BY <2>2
  <2>4. PinIcons(b, pins) \in Seq(Icons)
    BY <2>1, <2>2, <2>3 DEF PinIcons
  <2>5. QED BY <2>4 DEF pins
<1>3. Layout(b, d) = [b EXCEPT !.slots = s, !.pin_icons = p]
  BY DEF Layout
<1> HIDE DEF s, p
<1>4. /\ Layout(b, d) \in Bar /\ Layout(b, d).placed
      /\ Layout(b, d).buttons = b.buttons /\ Layout(b, d).slots = s
  BY <1>1, <1>2, <1>3 DEF Bar, Slot
<1>5. QED BY <1>1, <1>4 DEF Good

(* A taskbar that finds its place in the layout.                           *)
LEMMA UpdateGeometryGood ==
  ASSUME NEW d \in Desk, NEW b \in Bar, Enumerates(b.buttons, d.mapped)
  PROVE  Good(UpdateGeometry(b, d), d)
<1> DEFINE c == [b EXCEPT !.placed = TRUE]
<1>1. c \in Bar /\ c.placed /\ c.buttons = b.buttons
  BY DEF Bar
<1>2. UpdateGeometry(b, d) = Layout(c, d)
  BY DEF UpdateGeometry
<1> HIDE DEF c
<1>3. QED BY <1>1, <1>2, LayoutGood

(* A window opens.                                                         *)
LEMMA ViewAddedGood ==
  ASSUME NEW d \in Desk, NEW b \in Bar, b.placed, NEW S,
         Enumerates(b.buttons, S), NEW v \in Views, v \notin S,
         d.mapped = S \cup {v}
  PROVE  Good(ViewAdded(b, v, d), d)
<1> DEFINE list == b.buttons
           more == Append(list, v)
           c == [b EXCEPT !.buttons = more]
<1>1. list \in Seq(S) /\ list \in Seq(S \cup {v}) /\ list \in Seq(Views)
  BY SeqMonotonic DEF Enumerates, Bar
<1>2. /\ Len(list) \in Nat /\ DOMAIN list = 1 .. Len(list)
      /\ \A i \in 1 .. Len(list) : list[i] \in S
      /\ \A i, j \in 1 .. Len(list) : list[i] = list[j] => i = j
      /\ \A x \in S : \E i \in 1 .. Len(list) : list[i] = x
  <2>1. Len(list) \in Nat /\ DOMAIN list = 1 .. Len(list)
    BY <1>1, LenProperties
  <2>2. QED BY <1>1, <2>1, ElementOfSeq DEF Enumerates
<1>3. ViewAdded(b, v, d) = Layout(c, d)
  BY DEF ViewAdded
<1>4. c \in Bar /\ c.placed /\ c.buttons = more
  <2>1. more \in Seq(Views)
    BY <1>1
  <2> HIDE DEF more
  <2>2. QED BY <2>1 DEF Bar
<1> HIDE DEF list, c
<1>5. /\ more \in Seq(S \cup {v}) /\ DOMAIN more = 1 .. Len(list) + 1
      /\ \A i \in 1 .. Len(list) : more[i] = list[i]
      /\ more[Len(list) + 1] = v
  BY <1>1, <1>2
<1> HIDE DEF more
<1>6. ASSUME NEW x \in S \cup {v}
      PROVE  \E i \in DOMAIN more : more[i] = x
  <2>1. CASE x = v
    BY <1>2, <1>5, <2>1
  <2>2. CASE x \in S
    <3>1. PICK i \in 1 .. Len(list) : list[i] = x
      BY <1>2, <2>2
    <3>2. i \in DOMAIN more /\ more[i] = x
      BY <1>2, <1>5, <3>1
    <3>3. QED BY <3>2
  <2>3. QED BY <2>1, <2>2
<1>7. ASSUME NEW i \in DOMAIN more, NEW j \in DOMAIN more, more[i] = more[j]
      PROVE  i = j
  <2>1. /\ i \in 1 .. Len(list) \/ i = Len(list) + 1
        /\ j \in 1 .. Len(list) \/ j = Len(list) + 1
    BY <1>2, <1>5
  <2>2. QED BY <1>2, <1>5, <1>7, <2>1
<1>8. Enumerates(more, d.mapped)
  BY <1>5, <1>6, <1>7 DEF Enumerates
<1>9. QED BY <1>3, <1>4, <1>8, LayoutGood

(* A window goes.                                                          *)
LEMMA ViewRemovedGood ==
  ASSUME NEW d \in Desk, NEW b \in Bar, b.placed, NEW S,
         Enumerates(b.buttons, S), NEW v \in S, d.mapped = S \ {v}
  PROVE  Good(ViewRemoved(b, v, d), d)
<1> DEFINE list == b.buttons
           less == Without(list, v)
           c == [b EXCEPT !.buttons = less]
<1>1. list \in Seq(S) /\ list \in Seq(Views)
  BY DEF Enumerates, Bar
<1>2. /\ \A i, j \in DOMAIN list : list[i] = list[j] => i = j
      /\ ToSet(list) = S
      /\ \A x \in S : \E i \in DOMAIN list : list[i] = x
  BY EnumeratesSize DEF Enumerates
<1>3. ViewRemoved(b, v, d) = Layout(c, d)
  BY <1>2 DEF ViewRemoved
<1> HIDE DEF list
<1>4. /\ less \in Seq(S) /\ less \in Seq(Views)
      /\ Elements(less) = Elements(list) \ {v}
      /\ \A m, n \in DOMAIN less : less[m] = less[n] => m = n
  BY <1>1, <1>2, WithoutProperties
<1> HIDE DEF less
<1>5. c \in Bar /\ c.placed /\ c.buttons = less
  BY <1>4 DEF Bar
<1> HIDE DEF c
<1>6. less \in Seq(S \ {v})
  <2>1. Len(less) \in Nat /\ DOMAIN less = 1 .. Len(less)
    BY <1>4, LenProperties
  <2>2. ASSUME NEW i \in 1 .. Len(less)
        PROVE  less[i] \in S \ {v}
    BY <1>4, <2>1, <2>2, ElementOfSeq DEF Elements
  <2>3. less \in [1 .. Len(less) -> S]
    BY <1>4, LenProperties
  <2>4. less \in [1 .. Len(less) -> S \ {v}]
    BY <2>2, <2>3
  <2>5. QED BY <2>1, <2>4
<1>7. Enumerates(less, d.mapped)
  <2>1. ASSUME NEW x \in S \ {v}
        PROVE  \E i \in DOMAIN less : less[i] = x
    <3>1. x \in Elements(list)
      BY <1>2 DEF Elements
    <3>2. x \in Elements(less)
      BY <1>4, <3>1
    <3>3. QED BY <3>2 DEF Elements
  <2>2. QED BY <1>4, <1>6, <2>1 DEF Enumerates
<1>8. QED BY <1>3, <1>5, <1>7, LayoutGood

(* A taskbar that is not drawn again: what changed does not concern it.    *)
LEMMA GoodStays ==
  ASSUME NEW d, NEW e, NEW b, Good(b, d),
         e.mapped = d.mapped, e.cfg = d.cfg,
         \A v \in d.mapped : Listed(e, v) <=> Listed(d, v)
  PROVE  Good(b, e)
<1>1. Enumerates(b.buttons, e.mapped)
  BY DEF Good
<1>2. RowExact(e, b.slots)
  <2>1. RowExact(d, b.slots)
    BY DEF Good
  <2>2. QED BY <2>1 DEF RowExact
<1>3. QED BY <1>1, <1>2 DEF Good

LEMMA NoBarType == NoBar \in Bar /\ ~ NoBar.placed
  BY DEF NoBar, Bar

(* A new taskbar has a button for each window.                             *)
LEMMA NewBarGood ==
  ASSUME NEW d \in Desk, IsFiniteSet(d.mapped), NEW b \in NewBars(d)
  PROVE  b \in Bar /\ Enumerates(b.buttons, d.mapped)
<1>1. PICK order \in SetToSeqs(d.mapped) : b = [NoBar EXCEPT !.buttons = order]
  BY DEF NewBars
<1>2. Enumerates(order, d.mapped)
  BY OrderEnumerates
<1>3. order \in Seq(Views)
  <2>1. d.mapped \in SUBSET Views /\ order \in Seq(d.mapped)
    BY <1>2 DEF Desk, Enumerates
  <2>2. QED BY <2>1, SeqMonotonic
<1>4. b \in Bar /\ b.buttons = order
  BY <1>1, <1>3, NoBarType DEF Bar
<1>5. QED BY <1>2, <1>4

-----------------------------------------------------------------------------
(* Commands *)

(* A command that was started and is not remembered found the table full,  *)
(* which stays so; only such a command is started again.                   *)
Remembered(e) ==
  /\ e \in Execs
  /\ IsFiniteSet(e.started) /\ e.ran \subseteq e.started
  /\ e.again \subseteq e.started \ e.ran
  /\ e.started # e.ran => ~ (Cardinality(e.ran) < MaxExecs)

(* One exec() of the configuration.                                        *)
LEMMA RunExecRemembers ==
  ASSUME NEW e, Remembered(e), NEW command \in Commands
  PROVE  Remembered(RunExec(e, command))
<1> DEFINE f == RunExec(e, command)
<1>1. CASE command \in e.ran
  BY <1>1 DEF RunExec
<1>2. CASE command \notin e.ran
  <2>1. /\ f.ran = IF Cardinality(e.ran) < MaxExecs THEN e.ran \cup {command}
                                                    ELSE e.ran
        /\ f.started = e.started \cup {command}
        /\ f.again = e.again \cup ({command} \cap e.started)
        /\ f = [ran |-> f.ran, started |-> f.started, again |-> f.again]
    BY <1>2 DEF RunExec
  <2>2. /\ e.ran \in SUBSET Commands /\ e.started \in SUBSET Commands
        /\ e.again \in SUBSET Commands
        /\ IsFiniteSet(e.started) /\ e.ran \subseteq e.started
        /\ e.again \subseteq e.started \ e.ran
        /\ e.started # e.ran => ~ (Cardinality(e.ran) < MaxExecs)
    BY DEF Remembered, Execs
  <2> HIDE DEF f
  <2>3. f \in Execs
    <3>1. /\ f.ran \in SUBSET Commands /\ f.started \in SUBSET Commands
          /\ f.again \in SUBSET Commands
      BY <2>1, <2>2
    <3>2. QED BY <2>1, <3>1 DEF Execs
  <2>4. IsFiniteSet(f.started) /\ f.ran \subseteq f.started
    BY <2>1, <2>2, FS_AddElement
  <2>5. /\ f.again \subseteq f.started \ f.ran
        /\ f.started # f.ran => ~ (Cardinality(f.ran) < MaxExecs)
    <3>1. CASE Cardinality(e.ran) < MaxExecs
      <4>1. e.started = e.ran /\ e.again = {}
        BY <2>2, <3>1
      <4>2. f.ran = f.started /\ f.again = {}
        BY <1>2, <2>1, <3>1, <4>1
      <4>3. QED BY <4>2
    <3>2. CASE ~ (Cardinality(e.ran) < MaxExecs)
      <4>1. f.ran = e.ran
        BY <2>1, <3>2
      <4>2. QED BY <1>2, <2>1, <2>2, <3>2, <4>1
    <3>3. QED BY <3>1, <3>2
  <2>6. QED BY <2>3, <2>4, <2>5 DEF Remembered, f
<1>3. QED BY <1>1, <1>2

(* All of them, in their order; by the least one that would not.           *)
LEMMA RunExecsRemember ==
  ASSUME NEW e, Remembered(e), NEW cfg \in Config
  PROVE  Remembered(RunExecs(e, cfg))
<1> DEFINE list == cfg.execs
           L == Len(list)
           Step(f, n) == IF n = 0 THEN e ELSE RunExec(f[n - 1], list[n])
           after == CHOOSE f : f = [n \in 0 .. L |-> Step(f, n)]
<1>1. L \in Nat /\ \A n \in 1 .. L : list[n] \in Commands
  <2>1. list \in Seq(Commands)
    BY DEF Config
  <2> HIDE DEF list
  <2>2. QED BY <2>1, LenProperties, ElementOfSeq
<1>2. RunExecs(e, cfg) = after[L]
  BY DEF RunExecs
<1> HIDE DEF list, L
<1>3. ASSUME NEW m \in 0 .. L
      PROVE  \E f : f = [n \in 0 .. m |-> Step(f, n)]
  <2> DEFINE Bad == { k \in 0 .. L : ~ \E f : f = [n \in 0 .. k |-> Step(f, n)] }
  <2>1. CASE Bad = {}
    BY <2>1
  <2>2. CASE Bad # {}
    <3>1. Bad \in SUBSET Nat
      BY <1>1
    <3>2. PICK k \in Bad : \A j \in Bad : k <= j
      BY <2>2, <3>1, LeastExists
    <3>3. k # 0
      <4> DEFINE g == [n \in 0 .. 0 |-> e]
      <4>1. g = [n \in 0 .. 0 |-> Step(g, n)]
        OBVIOUS
      <4>2. QED BY <4>1
    <3>4. k \in 0 .. L /\ k - 1 \in 0 .. L /\ k - 1 \notin Bad
      <4>1. k \in 0 .. L
        OBVIOUS
      <4> HIDE DEF Bad
      <4>2. QED BY <1>1, <3>2, <3>3, <4>1
    <3>5. PICK f : f = [n \in 0 .. k - 1 |-> Step(f, n)]
      BY <3>4
    <3> DEFINE g == [n \in 0 .. k |-> IF n = k THEN RunExec(f[k - 1], list[k])
                                      ELSE f[n]]
    <3>6. ASSUME NEW n \in 0 .. k
          PROVE  g[n] = Step(g, n)
      <4>1. CASE n = k
        <5>1. k - 1 \in 0 .. k /\ k - 1 # k
          BY <1>1, <3>3, <3>4
        <5>2. g[k - 1] = f[k - 1]
          BY <5>1
        <5>3. QED BY <3>3, <4>1, <5>2
      <4>2. CASE n # k
        <5>1. n \in 0 .. k - 1 /\ (n # 0 => n - 1 \in 0 .. k /\ n - 1 # k)
          BY <1>1, <3>3, <3>4, <4>2
        <5>2. g[n] = f[n] /\ (n # 0 => g[n - 1] = f[n - 1])
          BY <4>2, <5>1
        <5>3. f[n] = Step(f, n)
          BY <3>5, <5>1
        <5>4. QED BY <5>2, <5>3
      <4>3. QED BY <4>1, <4>2
    <3>7. g = [n \in 0 .. k |-> g[n]]
      OBVIOUS
    <3> HIDE DEF g
    <3>8. g = [n \in 0 .. k |-> Step(g, n)]
      BY <3>6, <3>7
    <3>9. QED BY <3>2, <3>8
  <2>3. QED BY <2>1, <2>2
<1>4. after = [n \in 0 .. L |-> Step(after, n)]
  <2>1. \E f : f = [n \in 0 .. L |-> Step(f, n)]
    BY <1>1, <1>3
  <2>2. QED BY <2>1
<1> HIDE DEF after
<1>5. \A n \in 0 .. L : after[n] = Step(after, n)
  BY <1>4
<1> DEFINE Bad == { k \in 0 .. L : ~ Remembered(after[k]) }
<1>6. CASE Bad = {}
  <2>1. L \in 0 .. L
    BY <1>1
  <2>2. Remembered(after[L])
    BY <1>6, <2>1
  <2>3. QED BY <1>2, <2>2
<1>7. CASE Bad # {}
  <2>1. Bad \in SUBSET Nat
    BY <1>1
  <2>2. PICK k \in Bad : \A j \in Bad : k <= j
    BY <1>7, <2>1, LeastExists
  <2>3. k \in 0 .. L /\ ~ Remembered(after[k])
    OBVIOUS
  <2>4. k # 0
    BY <1>5, <2>3
  <2>5. k - 1 \in 0 .. L /\ k - 1 \notin Bad /\ k \in 1 .. L
    BY <1>1, <2>1, <2>2, <2>3, <2>4
  <2>6. Remembered(after[k - 1]) /\ list[k] \in Commands
    BY <1>1, <2>5
  <2>7. after[k] = RunExec(after[k - 1], list[k])
    BY <1>5, <2>3, <2>4
  <2> HIDE DEF Bad
  <2>8. Remembered(after[k])
    BY <2>6, <2>7, RunExecRemembers
  <2>9. QED BY <2>3, <2>8
<1>8. QED BY <1>6, <1>7

-----------------------------------------------------------------------------
(* The inductive invariant *)

(* Types; the list of windows is finite, as the length of a row needs.     *)
TypeInv == TypeOK /\ IsFiniteSet(desk.mapped) /\ Remembered(execs)

(* The taskbars are on outputs of the layout: one, or all of them.         *)
Placed ==
  /\ scene \subseteq ToSet(outputs)
  /\ bars \subseteq scene
  /\ IF desk.cfg.all_outputs THEN bars = scene ELSE \A o, p \in bars : o = p

(* Whoever has a taskbar has a good one.                                   *)
BarsGood ==
  \A o \in Names : IF o \in bars THEN Good(bar[o], desk) ELSE ~ bar[o].placed

OutputsInv == TypeInv /\ Placed /\ BarsGood

(* Before the first output there is no taskbar.                            *)
LEMMA OutputsInit == Init => OutputsInv
<1> SUFFICES ASSUME Init PROVE OutputsInv
  OBVIOUS
<1> DEFINE none == [ran |-> {}, started |-> {}, again |-> {}]
<1>1. PICK cfg \in Configs, app \in [Views -> Apps] :
        desk = [mapped |-> {}, app |-> app, workspace |-> [v \in Views |-> 0],
                pinned |-> {}, current |-> 0, cfg |-> cfg]
  BY DEF Init
<1>2. cfg \in Config
  BY OutputsAssumption
<1>3. desk \in Desk /\ desk.cfg = cfg /\ desk.mapped = {}
  <2>1. 0 \in Workspaces
    BY TaskbarAssumption DEF Workspaces
  <2>2. QED BY <1>1, <1>2, <2>1 DEF Desk
<1>4. Remembered(none)
  <2>1. IsFiniteSet(none.started)
    BY FS_EmptySet
  <2>2. QED BY <2>1 DEF Remembered, Execs
<1>5. Remembered(execs)
  <2> HIDE DEF none
  <2>1. Remembered(RunExecs(none, cfg))
    BY <1>2, <1>4, RunExecsRemember
  <2>2. execs = RunExecs(none, desk.cfg)
    BY DEF Init, none
  <2>3. QED BY <1>3, <2>1, <2>2
<1>6. /\ outputs = <<>> /\ scene = {} /\ bars = {}
      /\ bar = [o \in Names |-> NoBar]
  BY DEF Init
<1>7. TypeInv
  <2>1. IsFiniteSet(desk.mapped)
    BY <1>3, FS_EmptySet
  <2>2. bar \in [Names -> Bar]
    BY <1>6, NoBarType
  <2>3. execs \in Execs
    BY <1>5 DEF Remembered
  <2>4. outputs \in Seq(Names)
    BY <1>6
  <2>5. QED BY <1>3, <1>5, <1>6, <2>1, <2>2, <2>3, <2>4 DEF TypeInv, TypeOK
<1>8. Placed
  BY <1>6 DEF Placed
<1>9. BarsGood
  BY <1>6, NoBarType DEF BarsGood
<1>10. QED BY <1>7, <1>8, <1>9 DEF OutputsInv

-----------------------------------------------------------------------------
(* Windows come, go and move *)

(* What concerns windows alone: every taskbar stays where it is.           *)
LEMMA BarsStay ==
  ASSUME OutputsInv, desk' \in Desk, IsFiniteSet(desk'.mapped),
         desk'.cfg = desk.cfg, UNCHANGED <<outputs, scene, bars, execs>>,
         bar' = [o \in Names |-> bar'[o]],
         \A o \in bars : Good(bar'[o], desk'),
         \A o \in Names \ bars : bar'[o] = bar[o]
  PROVE  OutputsInv'
<1>1. /\ outputs \in Seq(Names) /\ scene \subseteq Names /\ bars \subseteq Names
      /\ bar \in [Names -> Bar] /\ execs \in Execs /\ Remembered(execs)
  BY DEF OutputsInv, TypeInv, TypeOK
<1>2. \A o \in Names : bar'[o] \in Bar
  BY <1>1 DEF Good
<1>3. bar' \in [Names -> Bar]
  BY <1>2
<1>4. TypeInv'
  BY <1>1, <1>3 DEF TypeInv, TypeOK
<1>5. Placed'
  BY DEF OutputsInv, Placed
<1>6. BarsGood'
  BY <1>1 DEF OutputsInv, BarsGood
<1>7. QED BY <1>4, <1>5, <1>6 DEF OutputsInv

(* update_taskbars, when the same windows are open.                        *)
LEMMA RefreshKeeps ==
  ASSUME OutputsInv, desk' \in Desk, desk'.mapped = desk.mapped,
         desk'.cfg = desk.cfg, RefreshTaskbars(desk'),
         UNCHANGED <<outputs, scene, bars, execs>>
  PROVE  OutputsInv'
<1>1. IsFiniteSet(desk'.mapped) /\ bars \subseteq Names
  BY DEF OutputsInv, TypeInv, TypeOK
<1>2. bar' = [o \in Names |-> IF o \in bars THEN Layout(bar[o], desk') ELSE bar[o]]
  BY DEF RefreshTaskbars, Redrawn
<1>3. ASSUME NEW o \in bars
      PROVE  Good(bar'[o], desk')
  <2>1. /\ bar[o] \in Bar /\ bar[o].placed
        /\ Enumerates(bar[o].buttons, desk'.mapped)
    BY <1>1 DEF OutputsInv, BarsGood, Good
  <2>2. Good(Layout(bar[o], desk'), desk')
    BY <2>1, LayoutGood
  <2>3. QED BY <1>1, <1>2, <2>2
<1>4. QED BY <1>1, <1>2, <1>3, BarsStay

LEMMA MapKeeps ==
  ASSUME OutputsInv, NEW v \in Views, Map(v)
  PROVE  OutputsInv'
<1>1. desk \in Desk /\ IsFiniteSet(desk.mapped) /\ bars \subseteq Names
  BY DEF OutputsInv, TypeInv, TypeOK
<1>2. /\ desk' = [desk EXCEPT !.mapped = @ \cup {v}, !.workspace[v] = desk.current]
      /\ v \notin desk.mapped
      /\ UNCHANGED <<outputs, scene, bars, execs>>
      /\ bar' = [o \in Names |-> IF o \in bars THEN ViewAdded(bar[o], v, desk')
                                               ELSE bar[o]]
  BY DEF Map
<1>3. /\ desk' \in Desk /\ desk'.mapped = desk.mapped \cup {v}
      /\ desk'.cfg = desk.cfg
  BY <1>1, <1>2 DEF Desk
<1>4. IsFiniteSet(desk'.mapped)
  BY <1>1, <1>3, FS_AddElement
<1>5. ASSUME NEW o \in bars
      PROVE  Good(bar'[o], desk')
  <2>1. /\ bar[o] \in Bar /\ bar[o].placed
        /\ Enumerates(bar[o].buttons, desk.mapped)
    BY <1>1 DEF OutputsInv, BarsGood, Good
  <2>2. Good(ViewAdded(bar[o], v, desk'), desk')
    BY <1>2, <1>3, <2>1, ViewAddedGood
  <2>3. QED BY <1>1, <1>2, <2>2
<1>6. QED BY <1>2, <1>3, <1>4, <1>5, BarsStay

LEMMA UnmapKeeps ==
  ASSUME OutputsInv, NEW v \in Views, Unmap(v)
  PROVE  OutputsInv'
<1>1. desk \in Desk /\ IsFiniteSet(desk.mapped) /\ bars \subseteq Names
  BY DEF OutputsInv, TypeInv, TypeOK
<1>2. /\ desk' = [desk EXCEPT !.mapped = @ \ {v}]
      /\ v \in desk.mapped
      /\ UNCHANGED <<outputs, scene, bars, execs>>
      /\ bar' = [o \in Names |-> IF o \in bars THEN ViewRemoved(bar[o], v, desk')
                                               ELSE bar[o]]
  BY DEF Unmap
<1>3. /\ desk' \in Desk /\ desk'.mapped = desk.mapped \ {v}
      /\ desk'.cfg = desk.cfg
  BY <1>1, <1>2 DEF Desk
<1>4. IsFiniteSet(desk'.mapped)
  BY <1>1, <1>3, FS_RemoveElement
<1>5. ASSUME NEW o \in bars
      PROVE  Good(bar'[o], desk')
  <2>1. /\ bar[o] \in Bar /\ bar[o].placed
        /\ Enumerates(bar[o].buttons, desk.mapped)
    BY <1>1 DEF OutputsInv, BarsGood, Good
  <2>2. Good(ViewRemoved(bar[o], v, desk'), desk')
    BY <1>2, <1>3, <2>1, ViewRemovedGood
  <2>3. QED BY <1>1, <1>2, <2>2
<1>6. QED BY <1>2, <1>3, <1>4, <1>5, BarsStay

(* No taskbar is drawn again: nothing it shows has changed.                *)
LEMMA UnseenKeeps ==
  ASSUME OutputsInv, desk' \in Desk, desk'.mapped = desk.mapped,
         desk'.cfg = desk.cfg,
         \A v \in desk.mapped : Listed(desk', v) <=> Listed(desk, v),
         UNCHANGED <<outputs, scene, bars, bar, execs>>
  PROVE  OutputsInv'
<1>1. IsFiniteSet(desk'.mapped) /\ bars \subseteq Names /\ bar \in [Names -> Bar]
  BY DEF OutputsInv, TypeInv, TypeOK
<1>2. ASSUME NEW o \in bars
      PROVE  Good(bar'[o], desk')
  <2>1. Good(bar[o], desk)
    BY <1>1 DEF OutputsInv, BarsGood
  <2>2. Good(bar[o], desk')
    BY <2>1, GoodStays
  <2>3. QED BY <2>2
<1>3. bar' = [o \in Names |-> bar'[o]]
  BY <1>1
<1>4. QED BY <1>1, <1>2, <1>3, BarsStay

LEMMA WindowKeeps ==
  ASSUME OutputsInv, WindowNext
  PROVE  OutputsInv'
<1>0. desk \in Desk
  BY DEF OutputsInv, TypeInv, TypeOK
<1>1. PICK v \in Views :
        \/ Map(v) \/ Unmap(v) \/ Destroy(v) \/ TogglePin(v)
        \/ \E app \in Apps : SetAppId(v, app)
        \/ \E ws \in -1 .. NumWorkspaces : MoveToWorkspace(v, ws)
  BY DEF WindowNext
<1>2. CASE Map(v)
  BY <1>2, MapKeeps
<1>3. CASE Unmap(v)
  BY <1>3, UnmapKeeps
<1>4. CASE Destroy(v)
  <2>1. /\ desk' = [desk EXCEPT !.pinned = @ \ {v}, !.workspace[v] = 0]
        /\ v \notin desk.mapped
        /\ UNCHANGED <<outputs, scene, bars, bar, execs>>
    BY <1>4 DEF Destroy
  <2>2. 0 \in Workspaces
    BY TaskbarAssumption DEF Workspaces
  <2>3. /\ desk' \in Desk /\ desk'.mapped = desk.mapped
        /\ desk'.cfg = desk.cfg /\ desk'.current = desk.current
        /\ desk'.pinned = desk.pinned \ {v}
        /\ \A u \in Views : u # v => desk'.workspace[u] = desk.workspace[u]
    BY <1>0, <2>1, <2>2 DEF Desk
  <2>4. \A u \in desk.mapped : Listed(desk', u) <=> Listed(desk, u)
    <3>1. desk.mapped \subseteq Views
      BY <1>0 DEF Desk
    <3>2. QED BY <2>1, <2>3, <3>1 DEF Listed
  <2>5. QED BY <2>1, <2>3, <2>4, UnseenKeeps
<1>5. CASE TogglePin(v)
  <2>1. /\ desk' = IF v \in desk.pinned
                     THEN [desk EXCEPT !.pinned = @ \ {v},
                                       !.workspace[v] = desk.current]
                     ELSE [desk EXCEPT !.pinned = @ \cup {v}]
        /\ RefreshTaskbars(desk')
        /\ UNCHANGED <<outputs, scene, bars, execs>>
    BY <1>5 DEF TogglePin
  <2>2. desk' \in Desk /\ desk'.mapped = desk.mapped /\ desk'.cfg = desk.cfg
    BY <1>0, <2>1 DEF Desk
  <2>3. QED BY <2>1, <2>2, RefreshKeeps
<1>6. ASSUME NEW app \in Apps, SetAppId(v, app)
      PROVE  OutputsInv'
  <2>1. /\ desk' = [desk EXCEPT !.app[v] = app]
        /\ UNCHANGED <<outputs, scene, bars, bar, execs>>
    BY <1>6 DEF SetAppId
  <2>2. /\ desk' \in Desk /\ desk'.mapped = desk.mapped
        /\ desk'.cfg = desk.cfg /\ desk'.current = desk.current
        /\ desk'.pinned = desk.pinned /\ desk'.workspace = desk.workspace
    BY <1>0, <2>1 DEF Desk
  <2>3. \A u \in desk.mapped : Listed(desk', u) <=> Listed(desk, u)
    BY <2>2 DEF Listed
  <2>4. QED BY <2>1, <2>2, <2>3, UnseenKeeps
<1>7. ASSUME NEW ws, MoveToWorkspace(v, ws)
      PROVE  OutputsInv'
  <2>1. /\ desk' = [desk EXCEPT !.pinned = @ \ {v}, !.workspace[v] = ws]
        /\ ws \in Workspaces
        /\ RefreshTaskbars(desk')
        /\ UNCHANGED <<outputs, scene, bars, execs>>
    BY <1>7 DEF MoveToWorkspace
  <2>2. desk' \in Desk /\ desk'.mapped = desk.mapped /\ desk'.cfg = desk.cfg
    BY <1>0, <2>1 DEF Desk
  <2>3. QED BY <2>1, <2>2, RefreshKeeps
<1>8. QED BY <1>1, <1>2, <1>3, <1>4, <1>5, <1>6, <1>7

LEMMA WorkspaceSwitchKeeps ==
  ASSUME OutputsInv, NEW ws \in Workspaces, WorkspaceSwitch(ws)
  PROVE  OutputsInv'
<1>1. /\ desk' = [desk EXCEPT !.current = ws]
      /\ RefreshTaskbars(desk')
      /\ UNCHANGED <<outputs, scene, bars, execs>>
  BY DEF WorkspaceSwitch
<1>2. desk' \in Desk /\ desk'.mapped = desk.mapped /\ desk'.cfg = desk.cfg
  BY <1>1 DEF OutputsInv, TypeInv, TypeOK, Desk
<1>3. QED BY <1>1, <1>2, RefreshKeeps

(* A click finds an open window in the row, hence a workspace.             *)
LEMMA ClickSlotKeeps ==
  ASSUME OutputsInv, NEW o \in bars, NEW i \in DOMAIN bar[o].slots, ClickSlot(o, i)
  PROVE  OutputsInv'
<1> DEFINE v == bar[o].slots[i].view
<1>1. desk \in Desk /\ bars \subseteq Names
  BY DEF OutputsInv, TypeInv, TypeOK
<1>2. /\ v # NoView
      /\ desk' = IF v \in desk.pinned THEN desk
                 ELSE [desk EXCEPT !.current = desk.workspace[v]]
      /\ \/ RefreshTaskbars(desk')
         \/ desk' = desk /\ UNCHANGED bar
      /\ UNCHANGED <<outputs, scene, bars, execs>>
  BY DEF ClickSlot
<1>3. v \in desk.mapped
  <2>1. RowExact(desk, bar[o].slots)
    BY <1>1 DEF OutputsInv, BarsGood, Good
  <2>2. QED BY <1>2, <2>1 DEF RowExact
<1> HIDE DEF v
<1>4. desk' \in Desk /\ desk'.mapped = desk.mapped /\ desk'.cfg = desk.cfg
  BY <1>1, <1>2, <1>3 DEF Desk
<1>5. CASE RefreshTaskbars(desk')
  BY <1>2, <1>4, <1>5, RefreshKeeps
<1>6. CASE desk' = desk /\ UNCHANGED bar
  <2>1. \A u \in desk.mapped : Listed(desk', u) <=> Listed(desk, u)
    BY <1>6
  <2>2. QED BY <1>2, <1>4, <1>6, <2>1, UnseenKeeps
<1>7. QED BY <1>2, <1>5, <1>6

LEMMA PollKeeps ==
  ASSUME OutputsInv, Poll
  PROVE  OutputsInv'
<1>1. desk' = desk /\ desk \in Desk
  BY DEF Poll, OutputsInv, TypeInv, TypeOK
<1>2. RefreshTaskbars(desk') /\ UNCHANGED <<outputs, scene, bars, execs>>
  BY <1>1 DEF Poll
<1>3. QED BY <1>1, <1>2, RefreshKeeps

-----------------------------------------------------------------------------
(* Outputs come, go and are configured *)

(* The layout of the outputs changes: each taskbar finds its place and is  *)
(* drawn, and there is none elsewhere.                                     *)
LEMMA LayoutChangedGood ==
  ASSUME NEW which \in SUBSET Names, NEW bar0, NEW d \in Desk,
         \A o \in which : bar0[o] \in Bar /\ Enumerates(bar0[o].buttons, d.mapped)
  PROVE  LET new == LayoutChanged(which, bar0, d)
         IN  /\ new \in [Names -> Bar]
             /\ \A o \in Names : IF o \in which THEN Good(new[o], d)
                                                ELSE ~ new[o].placed
<1> DEFINE new == LayoutChanged(which, bar0, d)
<1>1. /\ new = [o \in Names |-> IF o \in which THEN UpdateGeometry(bar0[o], d)
                                               ELSE NoBar]
  BY DEF LayoutChanged
<1>2. ASSUME NEW o \in which
      PROVE  Good(new[o], d)
  BY <1>1, UpdateGeometryGood
<1>3. ASSUME NEW o \in Names \ which
      PROVE  new[o] = NoBar
  BY <1>1
<1> HIDE DEF new
<1>4. ASSUME NEW o \in Names
      PROVE  new[o] \in Bar
  BY <1>2, <1>3, NoBarType DEF Good
<1>5. new = [o \in Names |-> new[o]]
  BY <1>1
<1>6. new \in [Names -> Bar]
  BY <1>4, <1>5
<1>7. QED BY <1>2, <1>3, <1>6, NoBarType DEF new

(* The invariant after such a change.                                      *)
LEMMA LayoutChangedKeeps ==
  ASSUME OutputsInv, NEW bar0,
         desk' \in Desk, desk'.mapped = desk.mapped,
         outputs' \in Seq(Names), Remembered(execs'),
         bar' = LayoutChanged(bars', bar0, desk'),
         \A o \in bars' :
           bar0[o] \in Bar /\ Enumerates(bar0[o].buttons, desk'.mapped),
         Placed'
  PROVE  OutputsInv'
<1>1. ToSet(outputs') \subseteq Names
  BY DEF ToSet
<1>2. scene' \subseteq Names /\ bars' \subseteq Names
  BY <1>1 DEF Placed
<1>3. /\ bar' \in [Names -> Bar]
      /\ \A o \in Names : IF o \in bars' THEN Good(bar'[o], desk')
                                         ELSE ~ bar'[o].placed
  BY <1>2, LayoutChangedGood
<1>4. IsFiniteSet(desk'.mapped) /\ execs' \in Execs
  BY DEF OutputsInv, TypeInv, Remembered
<1>5. TypeInv'
  BY <1>2, <1>3, <1>4 DEF TypeInv, TypeOK
<1>6. BarsGood'
  BY <1>3 DEF BarsGood
<1>7. QED BY <1>5, <1>6 DEF OutputsInv

(* What any taskbar brings along.                                          *)
LEMMA BarsEnumerate ==
  ASSUME OutputsInv, NEW o \in bars
  PROVE  bar[o] \in Bar /\ Enumerates(bar[o].buttons, desk.mapped)
  BY DEF OutputsInv, TypeInv, TypeOK, BarsGood, Good

(* The oldest of some outputs is one of them.                              *)
LEMMA OldestIn ==
  ASSUME TypeOK, NEW which \in SUBSET ToSet(outputs), which # {}
  PROVE  Oldest(which) \in which
<1> DEFINE I == { i \in DOMAIN outputs : outputs[i] \in which }
<1>1. Len(outputs) \in Nat /\ DOMAIN outputs = 1 .. Len(outputs)
  BY LenProperties DEF TypeOK
<1>2. I \in SUBSET (1 .. Len(outputs)) /\ I # {}
  BY <1>1 DEF ToSet
<1>3. \A i \in DOMAIN outputs : outputs[i] \in which => i \in I
  OBVIOUS
<1>4. \A i \in I : i \in DOMAIN outputs /\ outputs[i] \in which
  OBVIOUS
<1> HIDE DEF I
<1>5. \E i \in DOMAIN outputs :
        /\ outputs[i] \in which
        /\ \A j \in DOMAIN outputs : outputs[j] \in which => j <= i
  <2>1. PICK i \in I : \A j \in I : j <= i
    BY <1>1, <1>2, GreatestExists
  <2>2. QED BY <1>3, <1>4, <2>1
<1>6. QED BY <1>5 DEF Oldest

LEMMA NewOutputKeeps ==
  ASSUME OutputsInv, NEW o \in Names, NewOutput(o)
  PROVE  OutputsInv' /\ bars \subseteq bars'
<1>1. /\ desk \in Desk /\ outputs \in Seq(Names) /\ scene \subseteq Names
      /\ bars \subseteq Names /\ IsFiniteSet(desk.mapped) /\ Remembered(execs)
      /\ bar \in [Names -> Bar]
  BY DEF OutputsInv, TypeInv, TypeOK
<1>2. /\ scene \subseteq ToSet(outputs) /\ bars \subseteq scene
      /\ IF desk.cfg.all_outputs THEN bars = scene ELSE \A p, q \in bars : p = q
  BY DEF OutputsInv, Placed
<1>3. /\ o \notin ToSet(outputs)
      /\ outputs' = <<o>> \o outputs
      /\ scene' = scene \cup ({o} \cap desk.cfg.enabled)
      /\ desk' = desk /\ execs' = execs
  BY DEF NewOutput, ApplyConfig
<1>4. outputs' \in Seq(Names) /\ ToSet(outputs') = {o} \cup ToSet(outputs)
  <2>1. /\ Len(outputs) \in Nat /\ DOMAIN outputs = 1 .. Len(outputs)
        /\ <<o>> \in Seq(Names) /\ Len(<<o>>) = 1
    BY <1>1, LenProperties
  <2>2. /\ outputs' \in Seq(Names) /\ Len(outputs') = 1 + Len(outputs)
        /\ \A i \in 1 .. 1 + Len(outputs) :
             outputs'[i] = IF i <= 1 THEN <<o>>[i] ELSE outputs[i - 1]
    BY <1>1, <1>3, <2>1, ConcatProperties
  <2>3. DOMAIN outputs' = 1 .. 1 + Len(outputs)
    BY <2>2, LenProperties
  <2>4. ASSUME NEW x \in ToSet(outputs')
        PROVE  x \in {o} \cup ToSet(outputs)
    <3>1. PICK i \in 1 .. 1 + Len(outputs) : x = outputs'[i]
      BY <2>3 DEF ToSet
    <3>2. CASE i = 1
      BY <2>1, <2>2, <3>1, <3>2
    <3>3. CASE i # 1
      <4>1. i - 1 \in 1 .. Len(outputs) /\ x = outputs[i - 1]
        BY <2>1, <2>2, <3>1, <3>3
      <4>2. QED BY <2>1, <4>1 DEF ToSet
    <3>4. QED BY <3>2, <3>3
  <2>5. ASSUME NEW x \in {o} \cup ToSet(outputs)
        PROVE  x \in ToSet(outputs')
    <3>1. CASE x = o
      <4>1. 1 \in 1 .. 1 + Len(outputs) /\ outputs'[1] = o
        BY <2>1, <2>2
      <4>2. QED BY <2>3, <3>1, <4>1 DEF ToSet
    <3>2. CASE x \in ToSet(outputs)
      <4>1. PICK i \in 1 .. Len(outputs) : x = outputs[i]
        BY <2>1, <3>2 DEF ToSet
      <4>2. i + 1 \in 1 .. 1 + Len(outputs) /\ outputs'[i + 1] = outputs[i]
        BY <2>1, <2>2
      <4>3. QED BY <2>3, <4>1, <4>2 DEF ToSet
    <3>3. QED BY <3>1, <3>2
  <2>6. QED BY <2>2, <2>4, <2>5
<1>5. CASE o \in desk.cfg.enabled
  <2>1. bars' = IF desk.cfg.all_outputs \/ bars = {} THEN bars \cup {o} ELSE bars
    BY <1>5 DEF NewOutput, AnyTaskbar
  <2>2. PICK new \in NewBars(desk) :
          bar' = LayoutChanged(bars', [bar EXCEPT ![o] = new], desk)
    BY <1>5 DEF NewOutput
  <2>3. new \in Bar /\ Enumerates(new.buttons, desk.mapped)
    BY <1>1, NewBarGood
  <2>4. ASSUME NEW p \in bars'
        PROVE  /\ [bar EXCEPT ![o] = new][p] \in Bar
               /\ Enumerates([bar EXCEPT ![o] = new][p].buttons, desk.mapped)
    <3>1. CASE p = o
      <4>1. [bar EXCEPT ![o] = new][p] = new
        BY <1>1, <3>1
      <4>2. QED BY <2>3, <4>1
    <3>2. CASE p # o
      <4>1. p \in bars /\ [bar EXCEPT ![o] = new][p] = bar[p]
        BY <1>1, <2>1, <3>2
      <4>2. QED BY <4>1, BarsEnumerate
    <3>3. QED BY <3>1, <3>2
  <2>5. Placed'
    BY <1>2, <1>3, <1>4, <1>5, <2>1 DEF Placed
  <2>6. OutputsInv'
    BY <1>1, <1>3, <1>4, <2>2, <2>4, <2>5, LayoutChangedKeeps
  <2>7. QED BY <2>1, <2>6
<1>6. CASE o \notin desk.cfg.enabled
  <2>1. bars' = bars /\ bar' = bar /\ scene' = scene
    BY <1>3, <1>6 DEF NewOutput
  <2>2. Placed'
    BY <1>2, <1>3, <1>4, <2>1 DEF Placed
  <2>3. TypeInv' /\ BarsGood'
    BY <1>3, <1>4, <2>1 DEF OutputsInv, TypeInv, TypeOK, BarsGood
  <2>4. QED BY <2>1, <2>2, <2>3 DEF OutputsInv
<1>7. QED BY <1>5, <1>6

(* on_destroy takes the output, and no other, off the list.                *)
LEMMA WithoutSet ==
  ASSUME NEW S, NEW list \in Seq(S), NEW e
  PROVE  /\ Without(list, e) \in Seq(S)
         /\ ToSet(Without(list, e)) = ToSet(list) \ {e}
<1>1. \A l : ToSet(l) = Elements(l)
  BY DEF ToSet, Elements
<1>2. QED BY <1>1, WithoutProperties

LEMMA DestroyOutputKeeps ==
  ASSUME OutputsInv, NEW o \in Names, DestroyOutput(o)
  PROVE  OutputsInv'
<1>1. /\ desk \in Desk /\ outputs \in Seq(Names) /\ Remembered(execs)
      /\ scene \subseteq Names /\ bars \subseteq Names /\ bar \in [Names -> Bar]
  BY DEF OutputsInv, TypeInv, TypeOK
<1>2. /\ scene \subseteq ToSet(outputs) /\ bars \subseteq scene
      /\ IF desk.cfg.all_outputs THEN bars = scene ELSE \A p, q \in bars : p = q
  BY DEF OutputsInv, Placed
<1>3. /\ outputs' = Without(outputs, o)
      /\ scene' = scene \ {o} /\ bars' = bars \ {o}
      /\ desk' = desk /\ execs' = execs
      /\ bar' = IF o \in scene THEN LayoutChanged(bars', bar, desk) ELSE bar
  BY DEF DestroyOutput
<1>4. outputs' \in Seq(Names) /\ ToSet(outputs') = ToSet(outputs) \ {o}
  <2>1. /\ Without(outputs, o) \in Seq(Names)
        /\ ToSet(Without(outputs, o)) = ToSet(outputs) \ {o}
    BY <1>1, WithoutSet
  <2>2. QED BY <1>3, <2>1
<1>5. Placed'
  BY <1>2, <1>3, <1>4 DEF Placed
<1>6. CASE o \in scene
  <2>1. \A p \in bars' : bar[p] \in Bar /\ Enumerates(bar[p].buttons, desk'.mapped)
    BY <1>3, BarsEnumerate
  <2>2. bar' = LayoutChanged(bars', bar, desk')
    BY <1>3, <1>6
  <2>3. QED BY <1>1, <1>3, <1>4, <1>5, <2>1, <2>2, LayoutChangedKeeps
<1>7. CASE o \notin scene
  <2>1. bars' = bars /\ bar' = bar /\ scene' = scene
    BY <1>2, <1>3, <1>7
  <2>2. TypeInv' /\ BarsGood'
    BY <1>3, <1>4, <2>1 DEF OutputsInv, TypeInv, TypeOK, BarsGood
  <2>3. QED BY <1>5, <2>2 DEF OutputsInv
<1>8. QED BY <1>6, <1>7

(* ensure_taskbars, after outputs were lit or taken out of the layout: the *)
(* taskbars are placed, a taskbar that can stay on its output stays, and   *)
(* there is one if any output is lit.                                      *)
LEMMA EnsureTaskbarsKeeps ==
  ASSUME OutputsInv, desk' \in Desk, desk'.mapped = desk.mapped,
         EnsureTaskbars(desk', scene'), scene' \subseteq ToSet(outputs),
         outputs' = outputs, Remembered(execs')
  PROVE  /\ OutputsInv'
         /\ bars \cap scene' # {} => bars \cap bars' # {}
         /\ scene' # {} => bars' # {}
<1> DEFINE left == bars \cap scene'
<1>1. TypeOK /\ IsFiniteSet(desk.mapped) /\ outputs \in Seq(Names)
  BY DEF OutputsInv, TypeInv, TypeOK
<1>2. bars' = IF desk'.cfg.all_outputs THEN scene' ELSE Primary(scene', left)
  BY DEF EnsureTaskbars
<1>3. PICK new \in [bars' \ left -> NewBars(desk')] :
        bar' = LayoutChanged(bars',
                 [o \in Names |-> IF o \in bars' \ left THEN new[o] ELSE bar[o]],
                 desk')
  BY DEF EnsureTaskbars
<1>4. /\ bars' \subseteq scene'
      /\ ~ desk'.cfg.all_outputs => \A o, p \in bars' : o = p
      /\ left # {} => left \cap bars' # {}
      /\ scene' # {} => bars' # {}
  <2>1. CASE desk'.cfg.all_outputs
    BY <1>2, <2>1
  <2>2. CASE ~ desk'.cfg.all_outputs /\ left # {}
    <3>1. bars' = {Oldest(left)}
      BY <1>2, <2>2 DEF Primary
    <3>2. Oldest(left) \in left
      <4>1. left \in SUBSET ToSet(outputs)
        OBVIOUS
      <4> HIDE DEF left
      <4>2. QED BY <1>1, <2>2, <4>1, OldestIn
    <3>3. QED BY <2>2, <3>1, <3>2
  <2>3. CASE ~ desk'.cfg.all_outputs /\ left = {} /\ scene' # {}
    <3>1. bars' = {Oldest(scene')}
      BY <1>2, <2>3 DEF Primary
    <3>2. Oldest(scene') \in scene'
      <4>1. PICK lit \in SUBSET ToSet(outputs) : lit = scene'
        OBVIOUS
      <4>2. Oldest(lit) \in lit
        BY <1>1, <2>3, <4>1, OldestIn
      <4>3. QED BY <4>1, <4>2
    <3>3. QED BY <2>3, <3>1, <3>2
  <2>4. CASE ~ desk'.cfg.all_outputs /\ left = {} /\ scene' = {}
    BY <1>2, <2>4 DEF Primary
  <2>5. QED BY <2>1, <2>2, <2>3, <2>4
<1>5. Placed'
  BY <1>2, <1>4 DEF Placed
<1>6. bars' \subseteq Names
  BY <1>1, <1>4 DEF ToSet
<1> DEFINE bar0 == [o \in Names |-> IF o \in bars' \ left THEN new[o] ELSE bar[o]]
<1>7. ASSUME NEW o \in bars'
      PROVE  bar0[o] \in Bar /\ Enumerates(bar0[o].buttons, desk'.mapped)
  <2>1. CASE o \in left
    <3>1. bar0[o] = bar[o] /\ o \in bars
      BY <1>6, <2>1
    <3>2. QED BY <3>1, BarsEnumerate
  <2>2. CASE o \notin left
    <3>1. bar0[o] = new[o] /\ new[o] \in NewBars(desk')
      BY <1>6, <2>2
    <3>2. QED BY <1>1, <3>1, NewBarGood
  <2>3. QED BY <2>1, <2>2
<1>8. bar' = LayoutChanged(bars', bar0, desk')
  BY <1>3
<1> HIDE DEF bar0
<1>9. OutputsInv'
  BY <1>1, <1>5, <1>7, <1>8, LayoutChangedKeeps
<1>10. QED BY <1>4, <1>9

LEMMA OutputMgrApplyKeeps ==
  ASSUME OutputsInv, NEW on, OutputMgrApply(on)
  PROVE  OutputsInv' /\ (bars \cap scene' # {} => bars \cap bars' # {})
<1>1. /\ desk \in Desk /\ Remembered(execs)
  BY DEF OutputsInv, TypeInv, TypeOK
<1>2. /\ scene' = on /\ on \subseteq ToSet(outputs)
      /\ UNCHANGED <<desk, outputs, execs>>
      /\ EnsureTaskbars(desk, on)
  BY DEF OutputMgrApply
<1>3. EnsureTaskbars(desk', scene')
  BY <1>2
<1>4. QED BY <1>1, <1>2, <1>3, EnsureTaskbarsKeeps

LEMMA ReloadKeeps ==
  ASSUME OutputsInv, NEW cfg \in Configs, Reload(cfg)
  PROVE  /\ OutputsInv'
         /\ bars \cap scene' # {} => bars \cap bars' # {}
         /\ scene' # {} => bars' # {}
<1>1. /\ desk \in Desk /\ Remembered(execs) /\ cfg \in Config
  BY OutputsAssumption DEF OutputsInv, TypeInv, TypeOK
<1>2. /\ desk' = [desk EXCEPT !.cfg = cfg]
      /\ execs' = RunExecs(execs, cfg)
      /\ scene' = ToSet(outputs) \cap cfg.enabled
      /\ EnsureTaskbars(desk', scene')
      /\ outputs' = outputs
  BY DEF Reload, ApplyConfig
<1>3. desk' \in Desk /\ desk'.mapped = desk.mapped
  BY <1>1, <1>2 DEF Desk
<1>4. Remembered(execs')
  BY <1>1, <1>2, RunExecsRemember
<1>5. scene' \subseteq ToSet(outputs)
  BY <1>2
<1>6. QED BY <1>2, <1>3, <1>4, <1>5, EnsureTaskbarsKeeps

-----------------------------------------------------------------------------
(* The theorems *)

(* Every step keeps the invariant, leaves a taskbar where one can stay,    *)
(* and lights one if it configures the desk and any output is lit.         *)
LEMMA OutputsStep ==
  ASSUME OutputsInv, [Next]_vars
  PROVE  /\ OutputsInv'
         /\ bars \cap scene' # {} => bars \cap bars' # {}
         /\ desk'.cfg # desk.cfg /\ scene' # {} => bars' # {}
<1>0. bars \subseteq scene
  BY DEF OutputsInv, Placed
<1>1. CASE WindowNext
  <2>1. bars' = bars /\ scene' = scene /\ desk'.cfg = desk.cfg
    <3>1. desk \in Desk
      BY DEF OutputsInv, TypeInv, TypeOK
    <3>2. QED BY <1>1, <3>1 DEF WindowNext, Map, Unmap, Destroy, TogglePin,
            SetAppId, MoveToWorkspace, Desk
  <2>2. QED BY <1>1, <2>1, WindowKeeps
<1>2. ASSUME NEW ws \in Workspaces, WorkspaceSwitch(ws)
      PROVE  OutputsInv' /\ bars' = bars /\ scene' = scene /\ desk'.cfg = desk.cfg
  <2>1. bars' = bars /\ scene' = scene /\ desk'.cfg = desk.cfg
    BY <1>2 DEF WorkspaceSwitch, OutputsInv, TypeInv, TypeOK, Desk
  <2>2. QED BY <1>2, <2>1, WorkspaceSwitchKeeps
<1>3. ASSUME NEW o \in bars, NEW i \in DOMAIN bar[o].slots, ClickSlot(o, i)
      PROVE  OutputsInv' /\ bars' = bars /\ scene' = scene /\ desk'.cfg = desk.cfg
  <2>1. bars' = bars /\ scene' = scene /\ desk'.cfg = desk.cfg
    BY <1>3 DEF ClickSlot, OutputsInv, TypeInv, TypeOK, Desk
  <2>2. QED BY <1>3, <2>1, ClickSlotKeeps
<1>4. ASSUME NEW cfg \in Configs, Reload(cfg)
      PROVE  /\ OutputsInv'
             /\ bars \cap scene' # {} => bars \cap bars' # {}
             /\ scene' # {} => bars' # {}
  BY <1>4, ReloadKeeps
<1>5. CASE UserNext
  BY <1>0, <1>2, <1>3, <1>4, <1>5 DEF UserNext
<1>6. CASE OutputNext
  <2>1. ASSUME NEW o \in Names, NewOutput(o)
        PROVE  OutputsInv' /\ bars \subseteq bars' /\ desk' = desk
    BY <2>1, NewOutputKeeps DEF NewOutput
  <2>2. ASSUME NEW o \in Names, DestroyOutput(o)
        PROVE  /\ OutputsInv' /\ desk' = desk
               /\ bars \cap scene' # {} => bars \cap bars' # {}
    BY <1>0, <2>2, DestroyOutputKeeps DEF DestroyOutput
  <2>3. ASSUME NEW on \in SUBSET Names, OutputMgrApply(on)
        PROVE  /\ OutputsInv' /\ desk' = desk
               /\ bars \cap scene' # {} => bars \cap bars' # {}
    BY <2>3, OutputMgrApplyKeeps DEF OutputMgrApply
  <2>4. QED BY <1>0, <1>6, <2>1, <2>2, <2>3 DEF OutputNext
<1>7. CASE Poll
  <2>1. bars' = bars /\ scene' = scene /\ desk' = desk
    BY <1>7 DEF Poll
  <2>2. QED BY <1>0, <1>7, <2>1, PollKeeps
<1>8. CASE UNCHANGED vars
  <2>1. /\ desk' = desk /\ outputs' = outputs /\ scene' = scene /\ bars' = bars
        /\ bar' = bar /\ execs' = execs
    BY <1>8 DEF vars
  <2>2. OutputsInv'
    BY <2>1 DEF OutputsInv, TypeInv, TypeOK, Placed, BarsGood
  <2>3. QED BY <1>0, <2>1, <2>2
<1>9. QED BY <1>1, <1>5, <1>6, <1>7, <1>8 DEF Next

LEMMA OutputsInvariant == Spec => []OutputsInv
<1>1. OutputsInv /\ [Next]_vars => OutputsInv'
  BY OutputsStep
<1>2. QED BY OutputsInit, <1>1, PTL DEF Spec

(* Every variable keeps its type through every handler: a click finds a    *)
(* window, a new taskbar an order of the windows, a single taskbar an      *)
(* output.                                                                 *)
THEOREM OutputsTypeCorrect == Spec => []TypeOK
<1>1. OutputsInv => TypeOK
  BY DEF OutputsInv, TypeInv
<1>2. QED BY OutputsInvariant, <1>1, PTL

(* Taskbars are where the configuration and the layout put them, and only  *)
(* these answer clicks, whatever is plugged, applied or reloaded.          *)
THEOREM BarsPlacedHolds == Spec => []BarsPlaced
<1>1. OutputsInv => BarsPlaced
  BY DEF OutputsInv, Placed, BarsGood, Good, BarsPlaced
<1>2. QED BY OutputsInvariant, <1>1, PTL

(* Each taskbar has one button for each open window, also one that was     *)
(* made when many windows were open.                                       *)
THEOREM ButtonsExactHolds == Spec => []ButtonsExact
<1>1. OutputsInv => ButtonsExact
  BY BarsEnumerate, EnumeratesSize DEF ButtonsExact
<1>2. QED BY OutputsInvariant, <1>1, PTL

(* A row names no window that is gone and no pin that was configured away, *)
(* shows no window twice, and shows each window of the workspace.          *)
THEOREM SlotsExactHolds == Spec => []SlotsExact
<1>1. ASSUME OutputsInv, NEW o \in bars
      PROVE  RowExact(desk, bar[o].slots)
  BY <1>1 DEF OutputsInv, TypeInv, TypeOK, BarsGood, Good
<1>2. OutputsInv => SlotsExact
  BY <1>1 DEF SlotsExact, RowExact
<1>3. QED BY OutputsInvariant, <1>2, PTL

(* A taskbar that can stay on its output stays.                            *)
THEOREM BarKeptHolds == Spec => BarKept
<1>1. OutputsInv /\ [Next]_vars =>
        [bars \cap scene' # {} => bars \cap bars' # {}]_vars
  BY OutputsStep
<1>2. QED BY OutputsInvariant, <1>1, PTL DEF Spec, BarKept

(* A new configuration leaves a taskbar somewhere if any output is lit.    *)
THEOREM BarReturnsHolds == Spec => BarReturns
<1>1. OutputsInv /\ [Next]_vars =>
        [desk'.cfg # desk.cfg /\ scene' # {} => bars' # {}]_vars
  BY OutputsStep
<1>2. QED BY OutputsInvariant, <1>1, PTL DEF Spec, BarReturns

(* run_execs never starts again a command of ran_execs, and starts none    *)
(* twice before the session has started more commands than ran_execs       *)
(* holds, however often the configuration is reloaded.                     *)
THEOREM ExecsRunOnce == Spec => []ExecsOnce
<1>1. OutputsInv => ExecsOnce
  <2> SUFFICES ASSUME Remembered(execs)
               PROVE  ExecsOnce
    BY DEF OutputsInv, TypeInv
  <2>1. execs.again \cap execs.ran = {}
    BY DEF Remembered
  <2>2. ASSUME execs.again # {}
        PROVE  Cardinality(execs.started) > MaxExecs
    <3>1. /\ IsFiniteSet(execs.started) /\ execs.ran \subseteq execs.started
          /\ execs.ran # execs.started
          /\ ~ (Cardinality(execs.ran) < MaxExecs)
      BY <2>2 DEF Remembered
    <3>2. /\ Cardinality(execs.ran) \in Nat /\ Cardinality(execs.started) \in Nat
          /\ MaxExecs \in Nat
      BY <3>1, FS_Subset, FS_CardinalityType, OutputsAssumption
    <3>3. Cardinality(execs.ran) < Cardinality(execs.started)
      BY <3>1, <3>2, FS_Subset
    <3>4. QED BY <3>1, <3>2, <3>3
  <2>3. QED BY <2>1, <2>2 DEF ExecsOnce
<1>2. QED BY OutputsInvariant, <1>1, PTL

-----------------------------------------------------------------------------
(* Rows that are out of date *)

RowsCurrent == \A o \in bars : bar[o].slots = Slots(desk, bar[o].buttons)

Renamed == \E v \in Views, app \in Apps : SetAppId(v, app)

LEMMA LayoutCurrent ==
  ASSUME NEW d, NEW b \in Bar, b.placed
  PROVE  Layout(b, d).slots = Slots(d, Layout(b, d).buttons)
BY DEF Layout, Bar

LEMMA RefreshCurrent ==
  ASSUME OutputsInv, RefreshTaskbars(desk'), bars' = bars
  PROVE  RowsCurrent'
<1>1. ASSUME NEW o \in bars
      PROVE  /\ bar[o] \in Bar /\ bar[o].placed
             /\ bar'[o] = Layout(bar[o], desk')
  BY DEF OutputsInv, TypeInv, TypeOK, BarsGood, Good, RefreshTaskbars, Redrawn
<1>2. QED BY <1>1, LayoutCurrent DEF RowsCurrent

LEMMA LayoutChangedCurrent ==
  ASSUME NEW bar0, bar' = LayoutChanged(bars', bar0, desk'), bars' \subseteq Names,
         \A o \in bars' : bar0[o] \in Bar
  PROVE  RowsCurrent'
<1>1. ASSUME NEW o \in bars'
      PROVE  bar'[o].slots = Slots(desk', bar'[o].buttons)
  <2> DEFINE b == [bar0[o] EXCEPT !.placed = TRUE]
  <2>1. b \in Bar /\ b.placed
    BY DEF Bar
  <2>2. bar'[o] = Layout(b, desk')
    BY DEF LayoutChanged, UpdateGeometry
  <2> HIDE DEF b
  <2>3. QED BY <2>1, <2>2, LayoutCurrent
<1>2. QED BY <1>1 DEF RowsCurrent

LEMMA EnsureCurrent ==
  ASSUME OutputsInv, desk' \in Desk, desk'.mapped = desk.mapped,
         NEW lit, EnsureTaskbars(desk', lit), bars' \subseteq Names
  PROVE  RowsCurrent'
<1> DEFINE left == bars \cap lit
<1>1. PICK new \in [bars' \ left -> NewBars(desk')] :
        bar' = LayoutChanged(bars',
                 [o \in Names |-> IF o \in bars' \ left THEN new[o] ELSE bar[o]],
                 desk')
  BY DEF EnsureTaskbars
<1>2. IsFiniteSet(desk'.mapped)
  BY DEF OutputsInv, TypeInv
<1> DEFINE bar0 == [o \in Names |-> IF o \in bars' \ left THEN new[o] ELSE bar[o]]
<1>3. ASSUME NEW o \in bars'
      PROVE  bar0[o] \in Bar
  <2>1. CASE o \in left
    BY <2>1, BarsEnumerate
  <2>2. CASE o \notin left
    <3>1. bar0[o] = new[o] /\ new[o] \in NewBars(desk')
      BY <2>2
    <3>2. QED BY <1>2, <3>1, NewBarGood
  <2>3. QED BY <2>1, <2>2
<1> HIDE DEF bar0
<1>4. bar' = LayoutChanged(bars', bar0, desk')
  BY <1>1 DEF bar0
<1>5. QED BY <1>3, <1>4, LayoutChangedCurrent

(* A window that opens, closes, moves or is destroyed.                     *)
LEMMA WindowCurrent ==
  ASSUME OutputsInv, RowsCurrent, WindowNext, ~Renamed
  PROVE  RowsCurrent'
<1>1. PICK v \in Views :
        \/ Map(v) \/ Unmap(v) \/ Destroy(v) \/ TogglePin(v)
        \/ \E ws \in -1 .. NumWorkspaces : MoveToWorkspace(v, ws)
  BY DEF WindowNext, Renamed
<1>2. /\ bars \subseteq Names /\ desk \in Desk
      /\ \A o \in bars : /\ bar[o] \in Bar /\ bar[o].placed
                         /\ Enumerates(bar[o].buttons, desk.mapped)
  BY BarsEnumerate DEF OutputsInv, TypeInv, TypeOK, BarsGood, Good
<1>3. CASE Map(v)
  <2>1. ASSUME NEW o \in bars
        PROVE  bar'[o].slots = Slots(desk', bar'[o].buttons)
    <3> DEFINE b == [bar[o] EXCEPT !.buttons = Append(@, v)]
    <3>1. bar[o] \in Bar /\ bar[o].placed
      BY <1>2
    <3>2. Append(bar[o].buttons, v) \in Seq(Views)
      BY <3>1, AppendProperties DEF Bar
    <3>3. b \in Bar /\ b.placed
      BY <3>1, <3>2 DEF Bar
    <3>4. bar'[o] = Layout(b, desk')
      BY <1>2, <1>3 DEF Map, ViewAdded
    <3> HIDE DEF b
    <3>5. QED BY <3>3, <3>4, LayoutCurrent
  <2>2. QED BY <1>3, <2>1 DEF RowsCurrent, Map
<1>4. CASE Unmap(v)
  <2>1. ASSUME NEW o \in bars
        PROVE  bar'[o].slots = Slots(desk', bar'[o].buttons)
    <3> DEFINE less == Without(bar[o].buttons, v)
               b    == [bar[o] EXCEPT !.buttons = less]
    <3>1. /\ bar[o] \in Bar /\ bar[o].placed
          /\ bar[o].buttons \in Seq(Views)
          /\ Enumerates(bar[o].buttons, desk.mapped)
      BY <1>2 DEF Bar
    <3>2. less \in Seq(Views)
      BY <3>1, WithoutSet
    <3>3. v \in ToSet(bar[o].buttons)
      BY <1>4, <3>1, EnumeratesSize DEF Unmap
    <3>4. b = [bar[o] EXCEPT !.buttons = less]
      OBVIOUS
    <3>5. bar'[o] = Layout(b, desk')
      BY <1>2, <1>4, <3>3 DEF Unmap, ViewRemoved
    <3> HIDE DEF less, b
    <3>6. b \in Bar /\ b.placed
      BY <3>1, <3>2, <3>4 DEF Bar
    <3>7. QED BY <3>5, <3>6, LayoutCurrent
  <2>2. QED BY <1>4, <2>1 DEF RowsCurrent, Unmap
<1>5. CASE Destroy(v)
  <2>1. /\ desk' = [desk EXCEPT !.pinned = @ \ {v}, !.workspace[v] = 0]
        /\ v \notin desk.mapped /\ bars' = bars /\ bar' = bar
    BY <1>5 DEF Destroy
  <2>2. /\ desk'.cfg = desk.cfg /\ desk'.current = desk.current
        /\ desk'.app = desk.app /\ desk'.pinned = desk.pinned \ {v}
        /\ \A u \in Views : u # v => desk'.workspace[u] = desk.workspace[u]
    BY <1>2, <2>1 DEF Desk
  <2>3. \A u \in desk.mapped : Listed(desk', u) <=> Listed(desk, u)
    <3>1. desk.mapped \subseteq Views
      BY <1>2 DEF Desk
    <3>2. QED BY <2>1, <2>2, <3>1 DEF Listed
  <2>4. ASSUME NEW o \in bars
        PROVE  Slots(desk', bar[o].buttons) = Slots(desk, bar[o].buttons)
    <3> DEFINE list == bar[o].buttons
               Free(d, claimed) == { k \in DOMAIN list :
                                       Listed(d, list[k]) /\ list[k] \notin claimed }
    <3>1. \A k \in DOMAIN list : list[k] \in desk.mapped
      BY <1>2, ElementOfSeq DEF Enumerates
    <3>2. \A i : Claimed(desk', list, i) = Claimed(desk, list, i)
      BY <2>2 DEF Claimed
    <3>3. \A claimed : Free(desk', claimed) = Free(desk, claimed)
      BY <2>3, <3>1
    <3> DEFINE Pins(d) == [i \in DOMAIN d.cfg.pins |->
                             [view |-> Claimed(d, list, i), pin |-> i]]
               Claims(d) == { Claimed(d, list, i) : i \in DOMAIN d.cfg.pins }
               Row(p, I) ==
                 p \o Kept([k \in DOMAIN list |-> [view |-> list[k], pin |-> 0]], I)
    <3>4. Pins(desk') = Pins(desk) /\ Claims(desk') = Claims(desk)
      BY <2>2, <3>2
    <3>5. /\ Slots(desk, list) = Row(Pins(desk), Free(desk, Claims(desk)))
          /\ Slots(desk', list) = Row(Pins(desk'), Free(desk', Claims(desk')))
      BY DEF Slots
    <3> HIDE DEF Pins, Claims, Row, Free, list
    <3>6. Slots(desk', list) = Slots(desk, list)
      BY <3>3, <3>4, <3>5
    <3>7. QED BY <3>6 DEF list
  <2>5. QED BY <2>1, <2>4 DEF RowsCurrent
<1>6. ASSUME TogglePin(v) \/ \E ws \in -1 .. NumWorkspaces : MoveToWorkspace(v, ws)
      PROVE  RefreshTaskbars(desk') /\ bars' = bars
  BY <1>6 DEF TogglePin, MoveToWorkspace
<1>7. QED BY <1>1, <1>3, <1>4, <1>5, <1>6, RefreshCurrent

LEMMA RowsStep ==
  ASSUME OutputsInv, OutputsInv', RowsCurrent, [Next]_vars, ~Renamed
  PROVE  RowsCurrent'
<1>0. /\ desk \in Desk /\ desk' \in Desk /\ bars \subseteq Names
      /\ bars' \subseteq Names /\ IsFiniteSet(desk.mapped)
      /\ bar \in [Names -> Bar]
  BY DEF OutputsInv, TypeInv, TypeOK
<1>1. CASE WindowNext
  BY <1>1, WindowCurrent
<1>2. CASE \/ Poll
           \/ \E ws \in Workspaces : WorkspaceSwitch(ws)
           \/ \E o \in bars : \E i \in DOMAIN bar[o].slots : ClickSlot(o, i)
  <2>1. /\ bars' = bars
        /\ RefreshTaskbars(desk') \/ (desk' = desk /\ bar' = bar)
    BY <1>2 DEF Poll, WorkspaceSwitch, ClickSlot
  <2>2. QED BY <2>1, RefreshCurrent DEF RowsCurrent
<1>3. ASSUME NEW cfg \in Configs, Reload(cfg)
      PROVE  RowsCurrent'
  <2>1. desk' = [desk EXCEPT !.cfg = cfg] /\ EnsureTaskbars(desk', scene')
    BY <1>3 DEF Reload
  <2>2. desk'.mapped = desk.mapped
    BY <1>0, <2>1 DEF Desk
  <2>3. PICK lit : EnsureTaskbars(desk', lit)
    BY <2>1
  <2>4. QED BY <1>0, <2>2, <2>3, EnsureCurrent
<1>4. ASSUME NEW on, OutputMgrApply(on)
      PROVE  RowsCurrent'
  <2>1. desk' = desk /\ EnsureTaskbars(desk', on)
    BY <1>4 DEF OutputMgrApply
  <2>2. QED BY <1>0, <2>1, EnsureCurrent
<1>5. ASSUME NEW o \in Names, NewOutput(o)
      PROVE  RowsCurrent'
  <2>1. desk' = desk
    BY <1>5 DEF NewOutput
  <2>2. CASE o \in desk.cfg.enabled
    <3>1. PICK new \in NewBars(desk) :
            bar' = LayoutChanged(bars', [bar EXCEPT ![o] = new], desk')
      BY <1>5, <2>1, <2>2 DEF NewOutput
    <3>2. new \in Bar
      BY <1>0, <3>1, NewBarGood
    <3> DEFINE bar0 == [bar EXCEPT ![o] = new]
    <3>3. \A p \in bars' : bar0[p] \in Bar
      BY <1>0, <3>2
    <3>4. bar' = LayoutChanged(bars', bar0, desk')
      BY <3>1
    <3> HIDE DEF bar0
    <3>5. QED BY <1>0, <3>3, <3>4, LayoutChangedCurrent
  <2>3. CASE o \notin desk.cfg.enabled
    BY <1>5, <2>1, <2>3 DEF NewOutput, RowsCurrent
  <2>4. QED BY <2>2, <2>3
<1>6. ASSUME NEW o \in Names, DestroyOutput(o)
      PROVE  RowsCurrent'
  <2>1. desk' = desk /\ bars' = bars \ {o}
    BY <1>6 DEF DestroyOutput
  <2>2. CASE o \in scene
    <3>1. bar' = LayoutChanged(bars', bar, desk')
      BY <1>6, <2>1, <2>2 DEF DestroyOutput
    <3>2. \A p \in bars' : bar[p] \in Bar
      BY <1>0
    <3>3. QED BY <1>0, <3>1, <3>2, LayoutChangedCurrent
  <2>3. CASE o \notin scene
    BY <1>6, <2>1, <2>3 DEF DestroyOutput, RowsCurrent
  <2>4. QED BY <2>2, <2>3
<1>7. CASE UNCHANGED vars
  BY <1>7 DEF vars, RowsCurrent
<1>8. QED BY <1>1, <1>2, <1>3, <1>4, <1>5, <1>6, <1>7
         DEF Next, UserNext, OutputNext

(* The row of a taskbar is the one that layout() would draw now, and any   *)
(* step keeps it so but the one that no taskbar listens to: a client that  *)
(* names the app of its window.  No other handler forgets a refresh.       *)
THEOREM RowsStaleByAppId == Spec => [][RowsCurrent => RowsCurrent' \/ Renamed]_vars
<1>1. OutputsInv /\ OutputsInv' /\ [Next]_vars =>
        [RowsCurrent => RowsCurrent' \/ Renamed]_vars
  BY RowsStep
<1>2. QED BY OutputsInvariant, <1>1, PTL DEF Spec

-----------------------------------------------------------------------------
(* The volume monitor *)


(* What travels between the daemon and the monitor. *)
Reply ==
  [is: {"sink event"}, sink: Sinks] \cup [is: {"server event"}]
    \cup [is: {"server info"}, sink: Sinks]
    \cup [is: {"sink info"}, sink: Sinks, state: States]

Query == [ask: {"server", "subscribe"}] \cup [ask: {"sink"}, sink: Sinks]

LinkType ==
  /\ sinks \in [Sinks -> States]
  /\ default_sink \in Sinks
  /\ requests \in Seq(Query)
  /\ replies \in Seq(Reply)

(* A draw began with a volume, and once there is one it stays.             *)
DrawsVolume == loop_at.step = "draw bar" => ~ (volume < 0)

(* A wake-up is pending, or the pulse thread is bound to write one.        *)
Pending ==
  \/ wake
  \/ pulse_at.step = "notify"
  \/ pulse_at.step = "mute" /\ pulse_at.differs

(* The inductive form: outside of a draw a stale applet has a wake-up to   *)
(* come, and so has a draw that loaded a flag which is no longer true.     *)
Fresh ==
  /\ loop_at.step \notin {"bar", "draw bar"} /\ applet # Shown => Pending
  /\ loop_at.step = "draw bar" /\ loop_at.mute # muted => Pending

WakeInv == LinkType /\ DrawsVolume /\ Fresh

(* A level gives a percentage, not the -1 of an unknown volume.            *)
LEMMA PercentType ==
  ASSUME NEW l \in Levels
  PROVE  Percent(l) \in Nat
<1>1. MaxLevel \in Nat
  BY DEF MaxLevel
<1>2. l \in 0 .. MaxLevel
  BY VolumeAssumption
<1>3. l \in Nat
  BY <1>1, <1>2
<1>4. QED BY <1>3 DEF Percent

(* The monitor starts with nothing shown and no volume.                    *)
LEMMA WakeInit == VolumeInit => WakeInv
<1> SUFFICES ASSUME VolumeInit PROVE WakeInv
  OBVIOUS
<1>1. OnReady \in Seq(Query) /\ <<>> \in Seq(Reply)
  BY DEF OnReady, Query, ServerQuery, SubscribeQuery
<1>2. QED BY <1>1 DEF VolumeInit, WakeInv, LinkType, DrawsVolume, Fresh, Shown, Idle

(* What the daemon does leaves the threads alone and keeps the link typed. *)
LEMMA DaemonStep ==
  ASSUME WakeInv, Daemon
  PROVE  WakeInv'
<1> USE DEF WakeInv, LinkType
<1>1. ASSUME NEW r \in Reply
      PROVE  Append(replies, r) \in Seq(Reply)
  BY AppendProperties
<1>2. ASSUME NEW s \in Sinks, NEW state \in States, ChangeSink(s, state)
      PROVE  LinkType' /\ UNCHANGED <<pulseVars, atomicVars, wake, loopVars>>
  <2>1. [is |-> "sink event", sink |-> s] \in Reply
    BY DEF Reply
  <2>2. replies' \in Seq(Reply)
    BY <1>1, <1>2, <2>1 DEF ChangeSink, Announce
  <2>3. QED BY <1>2, <2>2 DEF ChangeSink
<1>3. ASSUME NEW s \in Sinks, ChangeDefault(s)
      PROVE  LinkType' /\ UNCHANGED <<pulseVars, atomicVars, wake, loopVars>>
  <2>1. [is |-> "server event"] \in Reply
    BY DEF Reply
  <2>2. replies' \in Seq(Reply)
    BY <1>1, <1>3, <2>1 DEF ChangeDefault, Announce
  <2>3. QED BY <1>3, <2>2 DEF ChangeDefault
<1>4. ASSUME Serve
      PROVE  LinkType' /\ UNCHANGED <<pulseVars, atomicVars, wake, loopVars>>
  <2> DEFINE q == Head(requests)
  <2>1. q \in Query /\ requests' \in Seq(Query)
    BY <1>4, HeadTailProperties DEF Serve
  <2>2. replies' \in Seq(Reply)
    <3>1. CASE q.ask = "server"
      <4>1. [is |-> "server info", sink |-> default_sink] \in Reply
        BY DEF Reply
      <4>2. replies' = Append(replies, [is |-> "server info", sink |-> default_sink])
        BY <1>4, <3>1 DEF Serve
      <4>3. QED BY <1>1, <4>1, <4>2
    <3>2. CASE q.ask = "sink"
      <4>1. q.sink \in Sinks
        BY <2>1, <3>2 DEF Query
      <4>2. [is |-> "sink info", sink |-> q.sink, state |-> sinks[q.sink]] \in Reply
        BY <4>1 DEF Reply
      <4>3. replies' = Append(replies, [is |-> "sink info", sink |-> q.sink,
                                        state |-> sinks[q.sink]])
        BY <1>4, <3>2 DEF Serve
      <4>4. QED BY <1>1, <4>2, <4>3
    <3>3. CASE q.ask = "subscribe"
      BY <1>4, <3>3 DEF Serve
    <3>4. q.ask \in {"server", "subscribe", "sink"}
      BY <2>1 DEF Query
    <3>5. QED BY <3>1, <3>2, <3>3, <3>4
  <2>3. QED BY <1>4, <2>1, <2>2 DEF Serve
<1>5. LinkType' /\ UNCHANGED <<pulseVars, atomicVars, wake, loopVars>>
  BY <1>2, <1>3, <1>4 DEF Daemon
<1>6. QED BY <1>5 DEF DrawsVolume, Fresh, Shown, Pending, pulseVars, atomicVars,
                      loopVars

(* What the pulse thread publishes is announced, or was shown already.     *)
LEMMA PulseStep ==
  ASSUME WakeInv, PulseThread
  PROVE  WakeInv'
<1> USE DEF WakeInv
<1>1. ASSUME replies # <<>>
      PROVE  Head(replies) \in Reply /\ Tail(replies) \in Seq(Reply)
  BY <1>1, HeadTailProperties DEF LinkType
<1>2. ASSUME NEW q \in Query
      PROVE  Append(requests, q) \in Seq(Query)
  BY AppendProperties DEF LinkType
<1>3. CASE OnSinkEvent \/ OnServerEvent \/ OnServerInfo
  <2>1. UNCHANGED <<daemonVars, pulse_at, atomicVars, wake, loopVars>>
    BY <1>3 DEF OnSinkEvent, OnServerEvent, OnServerInfo, pulseVars
  <2>2. replies' \in Seq(Reply)
    BY <1>1, <1>3 DEF OnSinkEvent, OnServerEvent, OnServerInfo, Receive
  <2>3. requests' \in Seq(Query)
    <3>1. ServerQuery \in Query
      BY DEF ServerQuery, Query
    <3>2. \A s \in Sinks : SinkQuery(s) \in Query
      BY DEF SinkQuery, Query
    <3>3. CASE OnServerEvent
      BY <1>2, <3>1, <3>3 DEF OnServerEvent, Ask
    <3>4. CASE OnSinkEvent
      <4>1. Head(replies).sink \in Sinks
        BY <1>1, <3>4 DEF OnSinkEvent, Receive, Reply
      <4>2. QED BY <1>2, <3>2, <3>4, <4>1 DEF OnSinkEvent, Ask
    <3>5. CASE OnServerInfo
      <4>1. Head(replies).sink \in Sinks
        BY <1>1, <3>5 DEF OnServerInfo, Receive, Reply
      <4>2. QED BY <1>2, <3>2, <3>5, <4>1 DEF OnServerInfo, Ask
    <3>6. QED BY <1>3, <3>3, <3>4, <3>5
  <2>4. QED BY <2>1, <2>2, <2>3
            DEF LinkType, DrawsVolume, Fresh, Shown, Pending, daemonVars,
                atomicVars, loopVars
<1>4. CASE OnSinkInfo
  <2> DEFINE info == Head(replies)
             pct  == Percent(info.state.level)
  <2>1. info.state \in States /\ replies' \in Seq(Reply)
    BY <1>1, <1>4 DEF OnSinkInfo, Receive, Reply
  <2>2. pct \in Nat /\ info.state.mute \in BOOLEAN
    BY <2>1, PercentType DEF States
  <2>3. LinkType'
    BY <1>4, <2>1 DEF OnSinkInfo, LinkType, daemonVars
  <2>4. /\ pulse_at = Idle
        /\ UNCHANGED <<muted, wake, loopVars>>
        /\ \/ UNCHANGED <<volume, pulse_at>>
           \/ /\ volume' = pct
              /\ pulse_at' = [step |-> "mute", mute |-> info.state.mute,
                              differs |-> pct # volume]
    BY <1>4 DEF OnSinkInfo, Receive
  <2> HIDE DEF info, pct
  <2>5. CASE UNCHANGED <<volume, pulse_at>>
    BY <2>3, <2>4, <2>5 DEF DrawsVolume, Fresh, Shown, Pending, loopVars
  <2>6. CASE /\ volume' = pct
             /\ pulse_at' = [step |-> "mute", mute |-> info.state.mute,
                             differs |-> pct # volume]
    <3>1. DrawsVolume'
      <4>1. volume' \in Nat
        BY <2>2, <2>6
      <4>2. ~ (volume' < 0)
        BY <4>1
      <4>3. QED BY <4>2 DEF DrawsVolume
    <3>2. Pending => Pending'
      BY <2>4, <2>6 DEF Pending, Idle
    <3>3. ~Pending' => volume' = volume
      BY <2>6 DEF Pending
    <3>4. Fresh'
      BY <2>4, <3>2, <3>3 DEF Fresh, Shown, loopVars
    <3>5. QED BY <2>3, <3>1, <3>4
  <2>7. QED BY <2>4, <2>5, <2>6
<1>5. CASE ExchangeMuted
  <2>1. pulse_at.step = "mute"
    BY <1>5 DEF ExchangeMuted
  <2>2. LinkType' /\ UNCHANGED <<volume, wake, loopVars>>
    BY <1>5 DEF ExchangeMuted, LinkType, daemonVars, linkVars
  <2>3. CASE pulse_at.differs \/ pulse_at.mute # muted
    <3>1. pulse_at' = [step |-> "notify"]
      BY <1>5, <2>1, <2>3 DEF ExchangeMuted
    <3>2. QED BY <2>2, <3>1 DEF DrawsVolume, Fresh, Shown, Pending, loopVars
  <2>4. CASE ~ (pulse_at.differs \/ pulse_at.mute # muted)
    <3>1. pulse_at' = Idle /\ muted' = muted
      BY <1>5, <2>4 DEF ExchangeMuted
    <3>2. Pending => Pending'
      BY <2>1, <2>2, <2>4 DEF Pending
    <3>3. QED BY <2>2, <3>1, <3>2 DEF DrawsVolume, Fresh, Shown, loopVars
  <2>5. QED BY <2>3, <2>4
<1>6. CASE Notify
  BY <1>6 DEF Notify, LinkType, DrawsVolume, Fresh, Shown, Pending, daemonVars,
              linkVars, atomicVars, loopVars
<1>7. QED BY <1>3, <1>4, <1>5, <1>6 DEF PulseThread

(* A draw ends with what is published, or with a wake-up to come.          *)
LEMMA LoopStep ==
  ASSUME WakeInv, EventLoop
  PROVE  WakeInv'
<1> USE DEF WakeInv
<1>1. LinkType' /\ UNCHANGED <<pulse_at, volume, muted>>
  BY DEF EventLoop, OnWake, OtherRefresh, LoadForBar, DrawBar, LoadForOsd,
         DrawOsd, LinkType, daemonVars, linkVars, pulseVars, atomicVars
<1>2. CASE OnWake
  BY <1>1, <1>2 DEF OnWake, DrawsVolume, Fresh
<1>3. CASE OtherRefresh
  BY <1>1, <1>3 DEF OtherRefresh, DrawsVolume, Fresh
<1>4. CASE LoadForBar
  <2>1. loop_at.step = "bar"
    BY <1>4 DEF LoadForBar
  <2>2. CASE volume < 0
    <3>1. applet' = Nothing /\ wake' = wake /\ loop_at'.step \in {"idle", "osd"}
      BY <1>4, <2>2 DEF LoadForBar, AfterBar, Idle
    <3>2. QED BY <1>1, <2>2, <3>1 DEF DrawsVolume, Fresh, Shown, Idle
  <2>3. CASE ~ (volume < 0)
    <3>1. /\ loop_at' = [step |-> "draw bar", mute |-> muted,
                         woken |-> loop_at.woken]
          /\ wake' = wake
      BY <1>4, <2>3 DEF LoadForBar
    <3>2. DrawsVolume'
      BY <1>1, <2>1, <2>3, <3>1 DEF DrawsVolume
    <3>3. QED BY <1>1, <3>1, <3>2 DEF Fresh
  <2>4. QED BY <2>2, <2>3
<1>5. CASE DrawBar
  <2>1. loop_at.step = "draw bar" /\ ~ (volume < 0)
    BY <1>5 DEF DrawBar, DrawsVolume
  <2>2. /\ applet' = Text(loop_at.mute, volume) /\ wake' = wake
        /\ loop_at'.step \in {"idle", "osd"}
    BY <1>5 DEF DrawBar, AfterBar, Idle
  <2>3. DrawsVolume'
    BY <1>1, <2>2 DEF DrawsVolume, Idle
  <2>4. Pending' <=> Pending
    BY <1>1, <2>2 DEF Pending
  <2>5. CASE loop_at.mute = muted
    <3>1. applet' = Shown'
      BY <1>1, <2>1, <2>2, <2>5 DEF Shown, DrawsVolume
    <3>2. QED BY <1>1, <2>2, <2>3, <3>1 DEF Fresh, Idle
  <2>6. CASE loop_at.mute # muted
    BY <1>1, <2>1, <2>3, <2>4, <2>6 DEF Fresh
  <2>7. QED BY <2>5, <2>6
<1>6. CASE LoadForOsd
  BY <1>1, <1>6 DEF LoadForOsd, DrawsVolume, Fresh, Shown, Pending
<1>7. CASE DrawOsd
  BY <1>1, <1>7 DEF DrawOsd, DrawsVolume, Fresh, Shown, Pending, Idle
<1>8. QED BY <1>2, <1>3, <1>4, <1>5, <1>6, <1>7 DEF EventLoop

LEMMA WakeStep ==
  ASSUME WakeInv, [VolumeNext]_volumeVars
  PROVE  WakeInv'
<1>1. CASE UNCHANGED volumeVars
  BY <1>1 DEF volumeVars, daemonVars, linkVars, pulseVars, atomicVars, loopVars,
              WakeInv, LinkType, DrawsVolume, Fresh, Shown, Pending
<1>2. QED BY <1>1, DaemonStep, PulseStep, LoopStep DEF VolumeNext

(* An idle event loop that shows an outdated volume is about to be woken,  *)
(* wherever the loads of its last draw fell between the two exchanges.     *)
THEOREM NoWakeUpLost == VolumeSpec => []StaleOnlyIfWoken
<1>1. WakeInv /\ [VolumeNext]_volumeVars => WakeInv'
  BY WakeStep
<1>2. WakeInv => StaleOnlyIfWoken
  BY DEF WakeInv, DrawsVolume, Fresh, StaleOnlyIfWoken, Pending, Idle
<1>3. QED BY WakeInit, <1>1, <1>2, PTL DEF VolumeSpec

-----------------------------------------------------------------------------

(* What the threads hold is typed: a callback that stands between the two  *)
(* exchanges holds the mute flag it is about to publish.                   *)
ThreadsType ==
  /\ VolumeTypeOK
  /\ pulse_at.step = "mute" => pulse_at.mute \in BOOLEAN

LEMMA ThreadsInit == VolumeInit => ThreadsType
<1> SUFFICES ASSUME VolumeInit PROVE ThreadsType
  OBVIOUS
<1>1. /\ volume = -1 /\ muted = FALSE /\ wake = FALSE
      /\ sink_name = NoSink /\ pulse_at.step = "idle" /\ loop_at.step = "idle"
  BY DEF VolumeInit, Idle
<1>2. volume \in {-1} \cup { Percent(l) : l \in Levels }
  BY <1>1
<1>3. QED BY <1>1, <1>2 DEF ThreadsType, VolumeTypeOK

(* Every step of either thread keeps what they hold typed: each level they *)
(* publish is one that a sink had, as a percentage.                        *)
LEMMA ThreadsStep ==
  ASSUME WakeInv, ThreadsType, [VolumeNext]_volumeVars
  PROVE  ThreadsType'
<1> DEFINE Known == {-1} \cup { Percent(l) : l \in Levels }
<1>0. /\ volume \in Known /\ muted \in BOOLEAN /\ wake \in BOOLEAN
      /\ sink_name \in Sinks \cup {NoSink}
      /\ pulse_at.step \in {"idle", "mute", "notify"}
      /\ pulse_at.step = "mute" => pulse_at.mute \in BOOLEAN
      /\ loop_at.step \in {"idle", "bar", "draw bar", "osd", "draw osd"}
  BY DEF ThreadsType, VolumeTypeOK
<1> SUFFICES
      /\ volume' \in Known /\ muted' \in BOOLEAN /\ wake' \in BOOLEAN
      /\ sink_name' \in Sinks \cup {NoSink}
      /\ pulse_at'.step \in {"idle", "mute", "notify"}
      /\ pulse_at'.step = "mute" => pulse_at'.mute \in BOOLEAN
      /\ loop_at'.step \in {"idle", "bar", "draw bar", "osd", "draw osd"}
  BY DEF ThreadsType, VolumeTypeOK
<1>known. \A l \in Levels : Percent(l) \in Known
  OBVIOUS
<1> HIDE DEF Known
<1>1. ASSUME replies # <<>>
      PROVE  Head(replies) \in Reply
  BY <1>1, HeadTailProperties DEF WakeInv, LinkType
<1>2. CASE Daemon
  BY <1>0, <1>2 DEF Daemon, ChangeSink, ChangeDefault, Serve, pulseVars, atomicVars,
              loopVars
<1>3. CASE OnSinkEvent \/ OnServerEvent
  BY <1>0, <1>3 DEF OnSinkEvent, OnServerEvent, pulseVars, atomicVars, loopVars
<1>4. CASE OnServerInfo
  <2>1. Head(replies).sink \in Sinks
    BY <1>1, <1>4 DEF OnServerInfo, Receive, Reply
  <2>2. QED BY <1>0, <1>4, <2>1 DEF OnServerInfo, atomicVars, loopVars
<1>5. CASE OnSinkInfo
  <2> DEFINE info == Head(replies)
             pct  == Percent(info.state.level)
  <2>1. info.state \in States
    BY <1>1, <1>5 DEF OnSinkInfo, Receive, Reply
  <2>2. pct \in Known /\ info.state.mute \in BOOLEAN
    BY <1>known, <2>1 DEF States
  <2>3. /\ UNCHANGED <<sink_name, muted, wake, loopVars>>
        /\ \/ UNCHANGED <<volume, pulse_at>>
           \/ /\ volume' = pct
              /\ pulse_at' = [step |-> "mute", mute |-> info.state.mute,
                              differs |-> pct # volume]
    BY <1>5 DEF OnSinkInfo
  <2> HIDE DEF info, pct
  <2>4. volume' \in Known
    BY <1>0, <2>2, <2>3
  <2>5. /\ pulse_at'.step \in {"idle", "mute", "notify"}
        /\ pulse_at'.step = "mute" => pulse_at'.mute \in BOOLEAN
    <3>1. CASE UNCHANGED <<volume, pulse_at>>
      BY <1>0, <3>1
    <3>2. CASE pulse_at' = [step |-> "mute", mute |-> info.state.mute,
                            differs |-> pct # volume]
      BY <2>2, <3>2
    <3>3. QED BY <2>3, <3>1, <3>2
  <2>6. QED BY <1>0, <2>3, <2>4, <2>5 DEF loopVars
<1>6. CASE ExchangeMuted
  <2>1. pulse_at.mute \in BOOLEAN
    BY <1>0, <1>6 DEF ExchangeMuted
  <2>2. /\ muted' = pulse_at.mute /\ pulse_at'.step \in {"notify", "idle"}
        /\ UNCHANGED <<sink_name, volume, wake, loopVars>>
    BY <1>6 DEF ExchangeMuted, Idle
  <2>3. QED BY <1>0, <2>1, <2>2 DEF loopVars
<1>7. CASE Notify
  BY <1>0, <1>7 DEF Notify, Idle, atomicVars, loopVars
<1>8. CASE EventLoop
  <2>1. UNCHANGED <<pulseVars, atomicVars>> /\ wake' \in BOOLEAN
    BY <1>0, <1>8 DEF EventLoop, OnWake, OtherRefresh, LoadForBar, DrawBar, LoadForOsd,
                DrawOsd
  <2>2. loop_at'.step \in {"idle", "bar", "draw bar", "osd", "draw osd"}
    <3>1. \A b : AfterBar(b).step \in {"idle", "osd"}
      BY DEF AfterBar, Idle
    <3>2. CASE OnWake \/ OtherRefresh
      <4>1. PICK b \in BOOLEAN : loop_at' = [step |-> "bar", woken |-> b]
        BY <3>2 DEF OnWake, OtherRefresh
      <4>2. QED BY ONLY <4>1
    <3>3. CASE LoadForBar
      <4>1. \/ loop_at' = AfterBar(loop_at.woken)
            \/ loop_at' = [step |-> "draw bar", mute |-> muted,
                           woken |-> loop_at.woken]
        BY <3>3 DEF LoadForBar
      <4>2. CASE loop_at' = AfterBar(loop_at.woken)
        BY <3>1, <4>2
      <4>3. CASE loop_at' = [step |-> "draw bar", mute |-> muted,
                             woken |-> loop_at.woken]
        BY <4>3
      <4>4. QED BY <4>1, <4>2, <4>3
    <3>4. CASE DrawBar
      BY <3>1, <3>4 DEF DrawBar
    <3>5. CASE LoadForOsd \/ DrawOsd
      <4>1. \/ loop_at' = [step |-> "draw osd", mute |-> muted]
            \/ loop_at' = [step |-> "idle"]
        BY <3>5 DEF LoadForOsd, DrawOsd, Idle
      <4>2. CASE loop_at' = [step |-> "draw osd", mute |-> muted]
        BY <4>2
      <4>3. CASE loop_at' = [step |-> "idle"]
        BY <4>3
      <4>4. QED BY <4>1, <4>2, <4>3
    <3>6. QED BY <1>8, <3>2, <3>3, <3>4, <3>5 DEF EventLoop
  <2>3. QED BY <1>0, <2>1, <2>2 DEF pulseVars, atomicVars
<1>9. CASE UNCHANGED volumeVars
  BY <1>0, <1>9 DEF volumeVars, pulseVars, atomicVars, loopVars
<1>10. QED BY <1>2, <1>3, <1>4, <1>5, <1>6, <1>7, <1>8, <1>9 DEF VolumeNext, PulseThread

(* The published volume is that of a sink, or none yet; each thread is at  *)
(* one of its steps.                                                       *)
THEOREM VolumeTypeCorrect == VolumeSpec => []VolumeTypeOK
<1>1. WakeInv /\ ThreadsType /\ [VolumeNext]_volumeVars => WakeInv' /\ ThreadsType'
  BY WakeStep, ThreadsStep
<1>2. ThreadsType => VolumeTypeOK
  BY DEF ThreadsType
<1>3. QED BY WakeInit, ThreadsInit, <1>1, <1>2, PTL DEF VolumeSpec

-----------------------------------------------------------------------------
(* When nothing is under way any more, the monitor knows the truth.        *)

(* Of the elements of K in a list, the last, if there is one, is in G.     *)
Ends(list, K, G) ==
  \A i \in DOMAIN list : list[i] \in K =>
    \/ list[i] \in G
    \/ \E j \in DOMAIN list : i < j /\ list[j] \in K

(* A list grows at its end by one element ...                              *)
LEMMA AppendElements ==
  ASSUME NEW S, NEW list \in Seq(S), NEW e \in S
  PROVE  Elements(Append(list, e)) = Elements(list) \cup {e}
<1> DEFINE w == Append(list, e)
<1>1. /\ DOMAIN w = DOMAIN list \cup {Len(list) + 1}
      /\ \A i \in DOMAIN list : w[i] = list[i]
      /\ w[Len(list) + 1] = e
  BY AppendProperties, LenProperties
<1> HIDE DEF w
<1>2. Elements(w) = Elements(list) \cup {e}
  BY <1>1 DEF Elements
<1>3. QED BY <1>2 DEF w

LEMMA AppendEnds ==
  ASSUME NEW S, NEW list \in Seq(S), NEW e \in S, NEW K, NEW G
  PROVE  /\ e \in K /\ e \in G => Ends(Append(list, e), K, G)
         /\ e \notin K /\ Ends(list, K, G) => Ends(Append(list, e), K, G)
<1> DEFINE w == Append(list, e)
<1>1. /\ Len(list) \in Nat /\ DOMAIN list = 1 .. Len(list)
      /\ DOMAIN w = 1 .. Len(list) + 1
      /\ \A i \in 1 .. Len(list) : w[i] = list[i]
      /\ w[Len(list) + 1] = e
  BY AppendProperties, LenProperties
<1> HIDE DEF w
<1>2. ASSUME e \in K, e \in G
      PROVE  Ends(w, K, G)
  <2> SUFFICES ASSUME NEW i \in DOMAIN w, w[i] \in K
               PROVE  w[i] \in G \/ \E j \in DOMAIN w : i < j /\ w[j] \in K
    BY DEF Ends
  <2>1. CASE i = Len(list) + 1
    BY <1>1, <1>2, <2>1
  <2>2. CASE i # Len(list) + 1
    <3>1. i < Len(list) + 1 /\ Len(list) + 1 \in DOMAIN w
      BY <1>1, <2>2
    <3>2. QED BY <1>1, <1>2, <3>1
  <2>3. QED BY <2>1, <2>2
<1>3. ASSUME e \notin K, Ends(list, K, G)
      PROVE  Ends(w, K, G)
  <2> SUFFICES ASSUME NEW i \in DOMAIN w, w[i] \in K
               PROVE  w[i] \in G \/ \E j \in DOMAIN w : i < j /\ w[j] \in K
    BY DEF Ends
  <2>1. i \in DOMAIN list /\ list[i] = w[i]
    BY <1>1, <1>3
  <2>2. list[i] \in G \/ \E j \in DOMAIN list : i < j /\ list[j] \in K
    BY <1>3, <2>1 DEF Ends
  <2>3. \A j \in DOMAIN list : j \in DOMAIN w /\ w[j] = list[j]
    BY <1>1
  <2>4. QED BY <2>1, <2>2, <2>3
<1>4. QED BY <1>2, <1>3 DEF w

(* ... and gives up its first; when that was the last of K, it is in G.    *)
LEMMA TailPlaces ==
  ASSUME NEW S, NEW list \in Seq(S), list # <<>>
  PROVE  /\ Head(list) \in S /\ Tail(list) \in Seq(S)
         /\ DOMAIN list \in SUBSET Nat /\ DOMAIN Tail(list) \in SUBSET Nat
         /\ 1 \in DOMAIN list /\ Head(list) = list[1]
         /\ \A i \in DOMAIN list : i # 1 =>
              i - 1 \in DOMAIN Tail(list) /\ Tail(list)[i - 1] = list[i]
         /\ \A i \in DOMAIN Tail(list) :
              i + 1 \in DOMAIN list /\ Tail(list)[i] = list[i + 1]
<1> DEFINE w == Tail(list)
<1>1. /\ Head(list) \in S /\ w \in Seq(S)
      /\ Len(list) \in Nat \ {0} /\ DOMAIN list = 1 .. Len(list)
      /\ DOMAIN w = 1 .. Len(list) - 1
      /\ \A i \in 1 .. Len(list) - 1 : w[i] = list[i + 1]
      /\ Head(list) = list[1]
  BY HeadTailProperties, EmptySeq, LenProperties
<1> HIDE DEF w
<1>2. /\ 1 \in DOMAIN list
      /\ DOMAIN list \in SUBSET Nat /\ DOMAIN w \in SUBSET Nat
      /\ \A i \in DOMAIN list : i # 1 => i - 1 \in DOMAIN w /\ w[i - 1] = list[i]
      /\ \A i \in DOMAIN w : i + 1 \in DOMAIN list /\ w[i] = list[i + 1]
  BY <1>1
<1>3. QED BY <1>1, <1>2 DEF w

LEMMA TailElements ==
  ASSUME NEW S, NEW list \in Seq(S), list # <<>>
  PROVE  Elements(list) = {Head(list)} \cup Elements(Tail(list))
<1> DEFINE w == Tail(list)
<1>1. /\ 1 \in DOMAIN list /\ Head(list) = list[1]
      /\ \A i \in DOMAIN list : i # 1 => i - 1 \in DOMAIN w /\ w[i - 1] = list[i]
      /\ \A i \in DOMAIN w : i + 1 \in DOMAIN list /\ w[i] = list[i + 1]
  BY TailPlaces
<1> HIDE DEF w
<1>2. ASSUME NEW i \in DOMAIN list
      PROVE  list[i] \in {Head(list)} \cup Elements(w)
  BY <1>1 DEF Elements
<1>3. ASSUME NEW i \in DOMAIN w
      PROVE  w[i] \in Elements(list)
  BY <1>1 DEF Elements
<1>4. Elements(list) = {Head(list)} \cup Elements(w)
  BY <1>1, <1>2, <1>3 DEF Elements
<1>5. QED BY <1>4 DEF w

LEMMA TailEnds ==
  ASSUME NEW S, NEW list \in Seq(S), list # <<>>, NEW K, NEW G,
         Ends(list, K, G)
  PROVE  /\ Ends(Tail(list), K, G)
         /\ Head(list) \in K /\ Elements(Tail(list)) \cap K = {} =>
              Head(list) \in G
<1> DEFINE w == Tail(list)
<1>1. /\ 1 \in DOMAIN list /\ Head(list) = list[1]
      /\ DOMAIN list \in SUBSET Nat /\ DOMAIN w \in SUBSET Nat
      /\ \A i \in DOMAIN list : i # 1 => i - 1 \in DOMAIN w /\ w[i - 1] = list[i]
      /\ \A i \in DOMAIN w : i + 1 \in DOMAIN list /\ w[i] = list[i + 1]
  BY TailPlaces
<1> HIDE DEF w
<1>2. ASSUME NEW i \in DOMAIN w, w[i] \in K
      PROVE  w[i] \in G \/ \E j \in DOMAIN w : i < j /\ w[j] \in K
  <2>1. \/ list[i + 1] \in G
        \/ \E j \in DOMAIN list : i + 1 < j /\ list[j] \in K
    BY <1>1, <1>2 DEF Ends
  <2>2. ASSUME NEW j \in DOMAIN list, i + 1 < j, list[j] \in K
        PROVE  j - 1 \in DOMAIN w /\ i < j - 1 /\ w[j - 1] \in K
    <3>1. i \in Nat /\ j \in Nat /\ j # 1
      BY <1>1, <2>2
    <3>2. QED BY <1>1, <2>2, <3>1
  <2>3. QED BY <1>1, <2>1, <2>2
<1>3. ASSUME Head(list) \in K, Elements(w) \cap K = {}
      PROVE  Head(list) \in G
  <2>1. \/ list[1] \in G
        \/ \E j \in DOMAIN list : 1 < j /\ list[j] \in K
    BY <1>1, <1>3 DEF Ends
  <2>2. ASSUME NEW j \in DOMAIN list, 1 < j
        PROVE  list[j] \in Elements(w)
    <3>1. j # 1
      BY <1>1, <2>2
    <3>2. QED BY <1>1, <3>1 DEF Elements
  <2>3. QED BY <1>1, <1>3, <2>1, <2>2
<1>4. QED BY <1>2, <1>3 DEF w, Ends

(* The default sink, or a sink, is going to be asked for anew.             *)
ServerDue ==
  \/ \E q \in Elements(requests) : q.ask = "server"
  \/ \E r \in Elements(replies) : r.is = "server event"

SinkDue(s) ==
  \/ \E q \in Elements(requests) : q.ask = "sink" /\ q.sink = s
  \/ \E r \in Elements(replies) : r.is = "sink event" /\ r.sink = s

ServerInfos == { r \in Reply : r.is = "server info" }
SinkInfos(s) == { r \in Reply : r.is = "sink info" /\ r.sink = s }

(* What is published, or is about to be, is the state of the default sink. *)
Published ==
  /\ volume = Percent(sinks[default_sink].level)
  /\ sinks[default_sink].mute =
       IF pulse_at.step = "mute" THEN pulse_at.mute ELSE muted

(* No event is missed before the subscription: nothing was asked by then.  *)
Subscribes ==
  ~subscribed => requests = OnReady /\ replies = <<>>

(* The last answer about the default sink, and about each sink, is true    *)
(* unless a newer one is due.                                              *)
ServerFollowed ==
  ServerDue \/ Ends(replies, ServerInfos, { r \in Reply : r.sink = default_sink })

SinksFollowed ==
  \A s \in Sinks :
    SinkDue(s) \/ Ends(replies, SinkInfos(s), { r \in Reply : r.state = sinks[s] })

(* With no answer to come about the default sink, its name is known; with  *)
(* none to come about the sink of that name, so is its volume.             *)
MonitorKnows ==
  \/ ServerDue
  \/ Elements(replies) \cap ServerInfos # {}
  \/ /\ sink_name = default_sink
     /\ \/ SinkDue(default_sink)
        \/ Elements(replies) \cap SinkInfos(default_sink) # {}
        \/ Published

TruthInv == Subscribes /\ ServerFollowed /\ SinksFollowed /\ MonitorKnows

LEMMA TruthInit == VolumeInit => TruthInv
<1> SUFFICES ASSUME VolumeInit PROVE TruthInv
  OBVIOUS
<1>1. requests = OnReady /\ replies = <<>>
  BY DEF VolumeInit
<1>2. ServerDue
  <2>1. OnReady[2].ask = "server" /\ 2 \in DOMAIN OnReady
    BY DEF OnReady, ServerQuery
  <2>2. QED BY <1>1, <2>1 DEF ServerDue, Elements
<1>3. \A K, G : Ends(replies, K, G)
  <2>1. DOMAIN replies = {}
    BY <1>1
  <2>2. QED BY <2>1 DEF Ends
<1>4. QED BY <1>1, <1>2, <1>3 DEF TruthInv, Subscribes, ServerFollowed,
             SinksFollowed, MonitorKnows

(* Whatever users do at the daemon is announced, or nothing was asked yet; *)
(* each answer of the daemon is true when it is sent.                      *)
LEMMA DaemonTruth ==
  ASSUME WakeInv, TruthInv, Daemon
  PROVE  TruthInv'
<1> USE DEF TruthInv
<1>0. /\ default_sink \in Sinks /\ sinks \in [Sinks -> States]
      /\ requests \in Seq(Query) /\ replies \in Seq(Reply)
  BY DEF WakeInv, LinkType
<1>grow. ASSUME NEW e \in Reply
         PROVE  Elements(Append(replies, e)) = Elements(replies) \cup {e}
  BY ONLY <1>0, <1>grow, AppendElements
<1>1. ASSUME ~subscribed
      PROVE  ServerDue /\ Elements(replies) = {} /\ Head(requests).ask = "subscribe"
             /\ \A K, G : Ends(replies, K, G)
  <2>1. requests = OnReady /\ replies = <<>>
    BY <1>1 DEF Subscribes
  <2>2. /\ OnReady[2].ask = "server" /\ 2 \in DOMAIN OnReady
        /\ Head(OnReady).ask = "subscribe"
    BY DEF OnReady, ServerQuery, SubscribeQuery
  <2>3. ServerDue
    BY <2>1, <2>2 DEF ServerDue, Elements
  <2>4. DOMAIN replies = {}
    BY <2>1
  <2>5. QED BY <2>1, <2>2, <2>3, <2>4 DEF Elements, Ends
<1>2. ASSUME NEW s \in Sinks, NEW state \in States, ChangeSink(s, state)
      PROVE  TruthInv'
  <2> DEFINE e == [is |-> "sink event", sink |-> s]
  <2>1. /\ sinks' = [sinks EXCEPT ![s] = state]
        /\ UNCHANGED <<default_sink, subscribed, requests, pulseVars, atomicVars>>
        /\ replies' = IF subscribed THEN Append(replies, e) ELSE replies
    BY <1>2 DEF ChangeSink, Announce
  <2>2. CASE ~subscribed
    <3>1. replies' = replies /\ requests' = requests
      BY <2>1, <2>2
    <3>2. ServerDue'
      BY <1>1, <2>2, <3>1 DEF ServerDue
    <3>3. \A K, G : Ends(replies', K, G)
      BY <1>1, <2>2, <3>1
    <3>4. Subscribes'
      BY <2>1, <3>1 DEF Subscribes
    <3>5. QED BY <3>2, <3>3, <3>4 DEF ServerFollowed, SinksFollowed,
                 MonitorKnows
  <2>3. CASE subscribed
    <3>1. e \in Reply /\ e.is = "sink event" /\ e.sink = s
      BY DEF Reply
    <3> HIDE DEF e
    <3>2. replies' = Append(replies, e)
      BY <2>1, <2>3
    <3>3. Elements(replies') = Elements(replies) \cup {e}
      BY <1>grow, <3>1, <3>2
    <3>4. ASSUME NEW K, NEW G, e \notin K, Ends(replies, K, G)
          PROVE  Ends(replies', K, G)
      BY <1>0, <3>1, <3>2, <3>4, AppendEnds
    <3>5. SinkDue(s)'
      BY <3>1, <3>3 DEF SinkDue
    <3>6. \A t \in Sinks : SinkDue(t) => SinkDue(t)'
      BY <2>1, <3>3 DEF SinkDue
    <3>7. ServerDue => ServerDue'
      BY <2>1, <3>3 DEF ServerDue
    <3>8. ServerFollowed'
      BY <2>1, <3>1, <3>4, <3>7 DEF ServerFollowed, ServerInfos
    <3>9. ASSUME NEW t \in Sinks
          PROVE  \/ SinkDue(t)'
                 \/ Ends(replies', SinkInfos(t), { r \in Reply : r.state = sinks'[t] })
      <4>1. CASE t = s
        BY <3>5, <4>1
      <4>2. CASE t # s
        <5>1. sinks'[t] = sinks[t]
          BY <1>0, <2>1, <4>2
        <5>2. e \notin SinkInfos(t)
          BY <3>1 DEF SinkInfos
        <5>3. CASE SinkDue(t)
          BY <3>6, <5>3
        <5>4. CASE Ends(replies, SinkInfos(t), { r \in Reply : r.state = sinks[t] })
          BY <3>4, <5>1, <5>2, <5>4
        <5>5. QED BY <5>3, <5>4 DEF SinksFollowed
      <4>3. QED BY <4>1, <4>2
    <3>10. MonitorKnows'
      <4>1. CASE default_sink = s
        BY <2>1, <3>3, <3>5, <3>7, <4>1 DEF MonitorKnows, pulseVars, ServerInfos
      <4>2. CASE default_sink # s
        <5>1. sinks'[default_sink] = sinks[default_sink]
          BY <1>0, <2>1, <4>2
        <5>2. Published => Published'
          BY <2>1, <5>1 DEF Published, pulseVars, atomicVars
        <5>3. SinkDue(default_sink) => SinkDue(default_sink)'
          BY <2>1, <3>3 DEF SinkDue
        <5>4. QED BY <2>1, <3>3, <3>7, <5>2, <5>3
                  DEF MonitorKnows, pulseVars, ServerInfos, SinkInfos
      <4>3. QED BY <4>1, <4>2
    <3>11. Subscribes'
      BY <2>1, <2>3 DEF Subscribes
    <3>12. QED BY <3>8, <3>9, <3>10, <3>11 DEF SinksFollowed
  <2>4. QED BY <2>2, <2>3
<1>3. ASSUME NEW s \in Sinks, ChangeDefault(s)
      PROVE  TruthInv'
  <2> DEFINE e == [is |-> "server event"]
  <2>1. /\ UNCHANGED <<sinks, subscribed, requests>>
        /\ replies' = IF subscribed THEN Append(replies, e) ELSE replies
    BY <1>3 DEF ChangeDefault, Announce
  <2>2. Subscribes' /\ ServerDue' /\ SinksFollowed'
    <3>1. CASE ~subscribed
      <4>1. replies' = replies /\ requests' = requests
        BY <2>1, <3>1
      <4>2. ServerDue' /\ Subscribes'
        BY <1>1, <2>1, <3>1, <4>1 DEF ServerDue, Subscribes
      <4>3. \A K, G : Ends(replies', K, G)
        BY <1>1, <3>1, <4>1
      <4>4. QED BY <4>2, <4>3 DEF SinksFollowed
    <3>2. CASE subscribed
      <4>1. e \in Reply /\ e.is = "server event"
        BY DEF Reply
      <4> HIDE DEF e
      <4>2. replies' = Append(replies, e)
        BY <2>1, <3>2
      <4>3. Elements(replies') = Elements(replies) \cup {e}
        BY <1>grow, <4>1, <4>2
      <4>4. ServerDue' /\ Subscribes'
        BY <2>1, <3>2, <4>1, <4>3 DEF ServerDue, Subscribes
      <4>5. ASSUME NEW t \in Sinks
            PROVE  \/ SinkDue(t)'
                   \/ Ends(replies', SinkInfos(t), { r \in Reply : r.state = sinks'[t] })
        <5>1. e \notin SinkInfos(t)
          BY <4>1 DEF SinkInfos
        <5>2. SinkDue(t) => SinkDue(t)'
          BY <2>1, <4>3 DEF SinkDue
        <5>3. CASE Ends(replies, SinkInfos(t), { r \in Reply : r.state = sinks[t] })
          <6>1. Ends(replies', SinkInfos(t), { r \in Reply : r.state = sinks[t] })
            BY <1>0, <4>1, <4>2, <5>1, <5>3, AppendEnds
          <6>2. QED BY <2>1, <6>1
        <5>4. QED BY <5>2, <5>3 DEF SinksFollowed
      <4>6. QED BY <4>4, <4>5 DEF SinksFollowed
    <3>3. QED BY <3>1, <3>2
  <2>3. QED BY <2>2 DEF ServerFollowed, MonitorKnows
<1>4. ASSUME Serve
      PROVE  TruthInv'
  <2> DEFINE q == Head(requests)
  <2>1. /\ requests # <<>> /\ requests' = Tail(requests)
        /\ subscribed' = (subscribed \/ q.ask = "subscribe")
        /\ UNCHANGED <<sinks, default_sink, pulseVars, atomicVars>>
    BY <1>4 DEF Serve
  <2>2. q \in Query /\ Elements(requests) = {q} \cup Elements(requests')
    BY <1>0, <2>1, TailElements
  <2>3. q.ask \in {"server", "sink", "subscribe"} /\ (q.ask = "sink" => q.sink \in Sinks)
    BY <2>2 DEF Query
  <2>4. /\ q.ask = "server" =>
             replies' = Append(replies, [is |-> "server info", sink |-> default_sink])
        /\ q.ask = "sink" =>
             replies' = Append(replies, [is |-> "sink info", sink |-> q.sink,
                                         state |-> sinks[q.sink]])
        /\ q.ask = "subscribe" => replies' = replies
    BY <1>4 DEF Serve
  <2>5. ~subscribed => q.ask = "subscribe"
    BY <1>1
  <2> HIDE DEF q
  <2>6. Subscribes'
    BY <2>1, <2>5 DEF Subscribes
  <2>7. Published => Published'
    BY <2>1 DEF Published, pulseVars, atomicVars
  <2>8. CASE q.ask = "subscribe"
    <3>1. ServerDue => ServerDue'
      BY <2>2, <2>4, <2>8 DEF ServerDue
    <3>2. \A s \in Sinks : SinkDue(s) => SinkDue(s)'
      BY <2>2, <2>4, <2>8 DEF SinkDue
    <3>3. SinkDue(default_sink) => SinkDue(default_sink)'
      BY <2>1, <2>2, <2>4, <2>8 DEF SinkDue
    <3>4. ServerFollowed' /\ SinksFollowed'
      BY <2>1, <2>4, <2>8, <3>1, <3>2 DEF ServerFollowed, SinksFollowed
    <3>5. MonitorKnows'
      BY <2>1, <2>4, <2>7, <2>8, <3>1, <3>3
         DEF MonitorKnows, pulseVars, SinkInfos, ServerInfos
    <3>6. QED BY <2>6, <3>4, <3>5
  <2>9. CASE q.ask = "server"
    <3> DEFINE e == [is |-> "server info", sink |-> default_sink]
    <3>1. e \in Reply /\ e.is = "server info" /\ e.sink = default_sink
      BY <1>0 DEF Reply
    <3>2. replies' = Append(replies, e)
      BY <2>4, <2>9
    <3> HIDE DEF e
    <3>3. Elements(replies') = Elements(replies) \cup {e}
      BY <1>grow, <3>1, <3>2
    <3>4. ServerFollowed'
      <4>1. e \in ServerInfos /\ e \in { r \in Reply : r.sink = default_sink }
        BY <3>1 DEF ServerInfos
      <4>2. Ends(replies', ServerInfos, { r \in Reply : r.sink = default_sink })
        BY <1>0, <3>1, <3>2, <4>1, AppendEnds
      <4>3. QED BY <2>1, <4>2 DEF ServerFollowed, ServerInfos
    <3>5. ASSUME NEW t \in Sinks
          PROVE  \/ SinkDue(t)'
                 \/ Ends(replies', SinkInfos(t), { r \in Reply : r.state = sinks'[t] })
      <4>1. e \notin SinkInfos(t)
        BY <3>1 DEF SinkInfos
      <4>2. SinkDue(t) => SinkDue(t)'
        BY <2>2, <2>9, <3>3 DEF SinkDue
      <4>3. CASE Ends(replies, SinkInfos(t), { r \in Reply : r.state = sinks[t] })
        BY <1>0, <2>1, <3>1, <3>2, <4>1, <4>3, AppendEnds
      <4>4. QED BY <4>2, <4>3 DEF SinksFollowed
    <3>6. MonitorKnows'
      BY <3>1, <3>3 DEF MonitorKnows, ServerInfos
    <3>7. QED BY <2>6, <3>4, <3>5, <3>6 DEF SinksFollowed
  <2>10. CASE q.ask = "sink"
    <3> DEFINE e == [is |-> "sink info", sink |-> q.sink, state |-> sinks[q.sink]]
    <3>1. e \in Reply /\ e.is = "sink info" /\ e.sink = q.sink
          /\ e.state = sinks[q.sink]
      BY <1>0, <2>3, <2>10 DEF Reply
    <3>2. replies' = Append(replies, e)
      BY <2>4, <2>10
    <3> HIDE DEF e
    <3>3. Elements(replies') = Elements(replies) \cup {e}
      BY <1>grow, <3>1, <3>2
    <3>4. ServerDue => ServerDue'
      BY <2>2, <2>10, <3>3 DEF ServerDue
    <3>5. ServerFollowed'
      <4>1. e \notin ServerInfos
        BY <3>1 DEF ServerInfos
      <4>2. CASE Ends(replies, ServerInfos, { r \in Reply : r.sink = default_sink })
        <5>1. Ends(replies', ServerInfos, { r \in Reply : r.sink = default_sink })
          BY <1>0, <3>1, <3>2, <4>1, <4>2, AppendEnds
        <5>2. QED BY <2>1, <5>1 DEF ServerFollowed, ServerInfos
      <4>3. QED BY <3>4, <4>2 DEF ServerFollowed
    <3>6. ASSUME NEW t \in Sinks
          PROVE  \/ SinkDue(t)'
                 \/ Ends(replies', SinkInfos(t), { r \in Reply : r.state = sinks'[t] })
      <4>1. CASE t = q.sink
        <5>1. e \in SinkInfos(t) /\ e \in { r \in Reply : r.state = sinks[t] }
          BY <3>1, <4>1 DEF SinkInfos
        <5>2. QED BY <1>0, <2>1, <3>1, <3>2, <5>1, AppendEnds
      <4>2. CASE t # q.sink
        <5>1. e \notin SinkInfos(t)
          BY <3>1, <4>2 DEF SinkInfos
        <5>2. SinkDue(t) => SinkDue(t)'
          BY <2>2, <3>3, <4>2 DEF SinkDue
        <5>3. CASE Ends(replies, SinkInfos(t), { r \in Reply : r.state = sinks[t] })
          BY <1>0, <2>1, <3>1, <3>2, <5>1, <5>3, AppendEnds
        <5>4. QED BY <5>2, <5>3 DEF SinksFollowed
      <4>3. QED BY <4>1, <4>2
    <3>7. MonitorKnows'
      <4>1. CASE q.sink = default_sink
        <5>1. e \in SinkInfos(default_sink)
          BY <3>1, <4>1 DEF SinkInfos
        <5>2. Elements(replies') \cap SinkInfos(default_sink)' # {}
          BY <2>1, <3>3, <5>1 DEF SinkInfos
        <5>3. QED BY <2>1, <3>3, <3>4, <5>2 DEF MonitorKnows, pulseVars, ServerInfos
      <4>2. CASE q.sink # default_sink
        <5>1. SinkDue(default_sink) => SinkDue(default_sink)'
          BY <2>1, <2>2, <3>3, <4>2 DEF SinkDue
        <5>2. QED BY <2>1, <2>7, <3>3, <3>4, <5>1
                  DEF MonitorKnows, pulseVars, ServerInfos, SinkInfos
      <4>3. QED BY <4>1, <4>2
    <3>8. QED BY <2>6, <3>5, <3>6, <3>7 DEF SinksFollowed
  <2>11. QED BY <2>3, <2>8, <2>9, <2>10
<1>5. QED BY <1>2, <1>3, <1>4 DEF Daemon

(* An event is followed by a query; the last answer is what is published.  *)
LEMMA PulseTruth ==
  ASSUME WakeInv, TruthInv, PulseThread
  PROVE  TruthInv'
<1> USE DEF TruthInv
<1>0. /\ default_sink \in Sinks /\ sinks \in [Sinks -> States]
      /\ requests \in Seq(Query) /\ replies \in Seq(Reply)
  BY DEF WakeInv, LinkType
<1>ask. ASSUME NEW q \in Query
        PROVE  Elements(Append(requests, q)) = Elements(requests) \cup {q}
  BY ONLY <1>0, <1>ask, AppendElements
<1> DEFINE r == Head(replies)
<1>take. ASSUME replies # <<>>, replies' = Tail(replies)
         PROVE  /\ r \in Reply /\ subscribed
                /\ Elements(replies) = {r} \cup Elements(replies')
  <2>1. r \in Reply
    BY <1>0, <1>take, TailPlaces
  <2>2. Elements(replies) = {r} \cup Elements(Tail(replies))
    BY ONLY <1>0, <1>take, TailElements
  <2>3. QED BY <1>take, <2>1, <2>2 DEF Subscribes
<1>follow. ASSUME replies # <<>>, replies' = Tail(replies), NEW K, NEW G,
                  Ends(replies, K, G)
           PROVE  /\ Ends(replies', K, G)
                  /\ r \in K /\ Elements(replies') \cap K = {} => r \in G
  BY ONLY <1>0, <1>follow, TailEnds
<1>query. /\ ServerQuery.ask = "server"
          /\ \A s \in Sinks : SinkQuery(s).ask = "sink" /\ SinkQuery(s).sink = s
  BY DEF ServerQuery, SinkQuery
<1>event. CASE OnSinkEvent
  <2>1. /\ replies # <<>> /\ replies' = Tail(replies) /\ r.is = "sink event"
        /\ requests' = Append(requests, SinkQuery(r.sink))
        /\ UNCHANGED <<daemonVars, pulseVars, atomicVars>>
    BY <1>event DEF OnSinkEvent, Receive, Ask
  <2>2. r \in Reply /\ subscribed /\ Elements(replies) = {r} \cup Elements(replies')
    BY <1>take, <2>1
  <2>3. r.sink \in Sinks
    BY <2>1, <2>2 DEF Reply
  <2>4. ASSUME NEW K, NEW G, Ends(replies, K, G)
        PROVE  Ends(replies', K, G)
    BY <1>follow, <2>1, <2>4
  <2> HIDE DEF r
  <2>5. Elements(requests') = Elements(requests) \cup {SinkQuery(r.sink)}
    BY <1>ask, <2>1, <2>3 DEF SinkQuery, Query
  <2>6. ServerDue => ServerDue'
    BY <2>1, <2>2, <2>5 DEF ServerDue
  <2>7. \A s \in Sinks : SinkDue(s) => SinkDue(s)'
    BY <1>query, <2>1, <2>2, <2>3, <2>5 DEF SinkDue
  <2>8. SinkDue(default_sink) => SinkDue(default_sink)'
    BY <1>0, <2>1, <2>7 DEF daemonVars, SinkDue
  <2>9. r \notin ServerInfos /\ r \notin SinkInfos(default_sink)
    BY <2>1 DEF ServerInfos, SinkInfos
  <2>10. Subscribes' /\ ServerFollowed' /\ SinksFollowed'
    BY <2>1, <2>2, <2>4, <2>6, <2>7
       DEF Subscribes, ServerFollowed, SinksFollowed, daemonVars
  <2>11. MonitorKnows'
    BY <2>1, <2>2, <2>6, <2>8, <2>9
       DEF MonitorKnows, Published, daemonVars, pulseVars, atomicVars,
           ServerInfos, SinkInfos
  <2>12. QED BY <2>10, <2>11
<1>default. CASE OnServerEvent
  <2>1. /\ replies # <<>> /\ replies' = Tail(replies) /\ r.is = "server event"
        /\ requests' = Append(requests, ServerQuery)
        /\ UNCHANGED daemonVars
    BY <1>default DEF OnServerEvent, Receive, Ask
  <2>2. subscribed /\ Elements(replies) = {r} \cup Elements(replies')
    BY <1>take, <2>1
  <2>3. ASSUME NEW K, NEW G, Ends(replies, K, G)
        PROVE  Ends(replies', K, G)
    BY <1>follow, <2>1, <2>3
  <2> HIDE DEF r
  <2>4. Elements(requests') = Elements(requests) \cup {ServerQuery}
    BY <1>ask, <2>1 DEF ServerQuery, Query
  <2>5. ServerDue'
    BY <1>query, <2>4 DEF ServerDue
  <2>6. \A s \in Sinks : SinkDue(s) => SinkDue(s)'
    BY <2>1, <2>2, <2>4 DEF SinkDue
  <2>7. QED BY <2>1, <2>2, <2>3, <2>5, <2>6
            DEF Subscribes, ServerFollowed, SinksFollowed, MonitorKnows, daemonVars
<1>server. CASE OnServerInfo
  <2>1. /\ replies # <<>> /\ replies' = Tail(replies) /\ r.is = "server info"
        /\ sink_name' = r.sink
        /\ requests' = Append(requests, SinkQuery(r.sink))
        /\ UNCHANGED daemonVars
    BY <1>server DEF OnServerInfo, Receive, Ask
  <2>2. r \in Reply /\ subscribed /\ Elements(replies) = {r} \cup Elements(replies')
    BY <1>take, <2>1
  <2>3. r.sink \in Sinks
    BY <2>1, <2>2 DEF Reply
  <2>4. ASSUME NEW K, NEW G, Ends(replies, K, G)
        PROVE  /\ Ends(replies', K, G)
               /\ r \in K /\ Elements(replies') \cap K = {} => r \in G
    BY <1>follow, <2>1, <2>4
  <2> HIDE DEF r
  <2>5. Elements(requests') = Elements(requests) \cup {SinkQuery(r.sink)}
    BY <1>ask, <2>1, <2>3 DEF SinkQuery, Query
  <2>6. ServerDue => ServerDue'
    BY <2>1, <2>2, <2>5 DEF ServerDue
  <2>7. \A s \in Sinks : SinkDue(s) => SinkDue(s)'
    BY <2>1, <2>2, <2>5 DEF SinkDue
  <2>8. Subscribes' /\ ServerFollowed' /\ SinksFollowed'
    BY <2>1, <2>2, <2>4, <2>6, <2>7
       DEF Subscribes, ServerFollowed, SinksFollowed, daemonVars
  <2>9. MonitorKnows'
    <3>1. CASE ServerDue
      BY <2>6, <3>1 DEF MonitorKnows
    <3>2. CASE Elements(replies') \cap ServerInfos # {}
      BY <3>2 DEF MonitorKnows, ServerInfos
    <3>3. CASE ~ServerDue /\ Elements(replies') \cap ServerInfos = {}
      <4>1. r \in ServerInfos
        BY <2>1, <2>2 DEF ServerInfos
      <4>2. r.sink = default_sink
        BY <2>4, <3>3, <4>1 DEF ServerFollowed
      <4>3. SinkDue(default_sink)'
        BY <1>query, <2>1, <2>3, <2>5, <4>2 DEF SinkDue, daemonVars
      <4>4. QED BY <2>1, <4>2, <4>3 DEF MonitorKnows, daemonVars
    <3>4. QED BY <3>1, <3>2, <3>3
  <2>10. QED BY <2>8, <2>9
<1>sink. CASE OnSinkInfo
  <2>1. /\ replies # <<>> /\ replies' = Tail(replies) /\ r.is = "sink info"
        /\ pulse_at = Idle
        /\ UNCHANGED <<daemonVars, requests, sink_name, muted>>
        /\ IF Tracked(r.sink)
             THEN /\ volume' = Percent(r.state.level)
                  /\ pulse_at'.step = "mute" /\ pulse_at'.mute = r.state.mute
             ELSE UNCHANGED <<volume, pulse_at>>
    <3>1. \A m, d : LET p == [step |-> "mute", mute |-> m, differs |-> d]
                    IN  p.step = "mute" /\ p.mute = m
      OBVIOUS
    <3>2. /\ replies # <<>> /\ replies' = Tail(replies) /\ r.is = "sink info"
          /\ pulse_at = Idle
          /\ UNCHANGED <<daemonVars, requests, sink_name, muted>>
          /\ ~Tracked(r.sink) => UNCHANGED <<volume, pulse_at>>
          /\ Tracked(r.sink) => volume' = Percent(r.state.level)
      BY <1>sink DEF OnSinkInfo, Receive
    <3>3. ASSUME Tracked(r.sink)
          PROVE  pulse_at' = [step |-> "mute", mute |-> r.state.mute,
                              differs |-> Percent(r.state.level) # volume]
      BY <1>sink, <3>3 DEF OnSinkInfo
    <3>4. Tracked(r.sink) => pulse_at'.step = "mute" /\ pulse_at'.mute = r.state.mute
      BY <3>1, <3>3
    <3>5. QED BY <3>2, <3>4
  <2>2. r \in Reply /\ subscribed /\ Elements(replies) = {r} \cup Elements(replies')
    BY <1>take, <2>1
  <2>3. ASSUME NEW K, NEW G, Ends(replies, K, G)
        PROVE  /\ Ends(replies', K, G)
               /\ r \in K /\ Elements(replies') \cap K = {} => r \in G
    BY <1>follow, <2>1, <2>3
  <2> HIDE DEF r
  <2>4. ServerDue => ServerDue'
    BY <2>1, <2>2 DEF ServerDue
  <2>5. \A s \in Sinks : SinkDue(s) => SinkDue(s)'
    BY <2>1, <2>2 DEF SinkDue
  <2>6. Subscribes' /\ ServerFollowed' /\ SinksFollowed'
    BY <2>1, <2>2, <2>3, <2>4, <2>5
       DEF Subscribes, ServerFollowed, SinksFollowed, daemonVars
  <2>7. MonitorKnows'
    <3>1. CASE ServerDue
      BY <2>4, <3>1 DEF MonitorKnows
    <3>2. CASE Elements(replies) \cap ServerInfos # {}
      <4>1. r \notin ServerInfos
        BY <2>1 DEF ServerInfos
      <4>2. QED BY <2>2, <3>2, <4>1 DEF MonitorKnows, ServerInfos
    <3>3. CASE sink_name = default_sink
      <4>1. sink_name' = default_sink' /\ sinks' = sinks
        BY <2>1, <3>3 DEF daemonVars
      <4>2. CASE SinkDue(default_sink)
        <5>1. SinkDue(default_sink)'
          BY <2>1, <2>2, <4>1, <4>2 DEF SinkDue, daemonVars
        <5>2. QED BY <4>1, <5>1 DEF MonitorKnows
      <4>3. CASE Elements(replies') \cap SinkInfos(default_sink) # {}
        BY <2>1, <4>1, <4>3 DEF MonitorKnows, SinkInfos, daemonVars
      <4>4. CASE /\ ~SinkDue(default_sink) /\ r \in SinkInfos(default_sink)
                 /\ Elements(replies') \cap SinkInfos(default_sink) = {}
        <5>1. r.sink = default_sink /\ Tracked(r.sink)
          BY <3>3, <4>4 DEF SinkInfos, Tracked
        <5>2. r.state = sinks[default_sink]
          <6>1. Ends(replies, SinkInfos(default_sink),
                     { x \in Reply : x.state = sinks[default_sink] })
            BY <1>0, <4>4 DEF SinksFollowed
          <6>2. QED BY <2>3, <4>4, <6>1
        <5>3. /\ volume' = Percent(sinks[default_sink].level)
              /\ pulse_at'.step = "mute"
              /\ pulse_at'.mute = sinks[default_sink].mute
          BY <2>1, <5>1, <5>2
        <5>4. Published'
          BY <2>1, <4>1, <5>3 DEF Published, daemonVars
        <5>5. QED BY <4>1, <5>4 DEF MonitorKnows
      <4>5. CASE Published /\ r \notin SinkInfos(default_sink)
        <5>1. r.sink # default_sink
          BY <2>1, <2>2, <4>5 DEF SinkInfos
        <5>2. ~Tracked(r.sink)
          BY <1>0, <3>3, <5>1, VolumeAssumption DEF Tracked
        <5>3. Published'
          BY <2>1, <4>1, <4>5, <5>2 DEF Published, daemonVars
        <5>4. QED BY <4>1, <5>3 DEF MonitorKnows
      <4>6. QED BY <2>2, <3>1, <3>2, <4>2, <4>3, <4>4, <4>5 DEF MonitorKnows
    <3>4. QED BY <3>1, <3>2, <3>3 DEF MonitorKnows
  <2>8. QED BY <2>6, <2>7
<1>publish. CASE ExchangeMuted \/ Notify
  <2>1. UNCHANGED <<daemonVars, linkVars, sink_name>>
    BY <1>publish DEF ExchangeMuted, Notify
  <2>2. Published => Published'
    BY <1>publish, <2>1 DEF ExchangeMuted, Notify, Published, Idle, daemonVars,
                            atomicVars
  <2>3. QED BY <2>1, <2>2
            DEF Subscribes, ServerFollowed, SinksFollowed, MonitorKnows, ServerDue,
                SinkDue, SinkInfos, ServerInfos, daemonVars, linkVars
<1>5. QED BY <1>event, <1>default, <1>server, <1>sink, <1>publish DEF PulseThread

LEMMA LoopTruth ==
  ASSUME TruthInv, EventLoop \/ UNCHANGED volumeVars
  PROVE  TruthInv'
<1>1. UNCHANGED <<daemonVars, linkVars, pulseVars, atomicVars>>
  BY DEF EventLoop, OnWake, OtherRefresh, LoadForBar, DrawBar, LoadForOsd,
         DrawOsd, volumeVars
<1>2. QED BY <1>1
          DEF TruthInv, Subscribes, ServerFollowed, SinksFollowed, MonitorKnows,
              Published, ServerDue, SinkDue, SinkInfos, ServerInfos, daemonVars,
              linkVars, pulseVars, atomicVars

(* The loop is on the way to a new text of the display.                    *)
OsdBound ==
  \/ loop_at.step \in {"osd", "draw osd"}
  \/ loop_at.step \in {"bar", "draw bar"} /\ loop_at.woken

(* Nothing is announced before there is a volume; an outdated display has  *)
(* a wake-up to come, as the applet has.                                   *)
Heard == pulse_at.step \in {"mute", "notify"} \/ wake \/ OsdBound => ~ (volume < 0)

FreshOsd ==
  /\ ~OsdBound /\ osd # Shown => Pending
  /\ loop_at.step = "draw osd" /\ loop_at.mute # muted => Pending

OsdInv == Heard /\ FreshOsd

LEMMA OsdInit == VolumeInit => OsdInv
<1> SUFFICES ASSUME VolumeInit PROVE OsdInv
  OBVIOUS
<1>1. /\ volume = -1 /\ wake = FALSE /\ osd = Nothing
      /\ pulse_at.step = "idle" /\ loop_at.step = "idle"
  BY DEF VolumeInit, Idle
<1>2. ~OsdBound /\ osd = Shown
  BY <1>1 DEF OsdBound, Shown
<1>3. QED BY <1>1, <1>2 DEF OsdInv, Heard, FreshOsd

LEMMA PulseOsd ==
  ASSUME WakeInv, OsdInv, PulseThread
  PROVE  OsdInv'
<1> USE DEF OsdInv
<1>1. UNCHANGED loopVars /\ (OsdBound' <=> OsdBound)
  <2>1. UNCHANGED loopVars
    BY DEF PulseThread, OnSinkEvent, OnServerEvent, OnServerInfo, OnSinkInfo,
           ExchangeMuted, Notify
  <2>2. QED BY <2>1 DEF OsdBound, loopVars
<1>2. ASSUME Pending => Pending', ~Pending' => UNCHANGED atomicVars
      PROVE  FreshOsd'
  BY <1>1, <1>2 DEF FreshOsd, Shown, loopVars, atomicVars
<1>3. CASE OnSinkEvent \/ OnServerEvent \/ OnServerInfo
  <2>1. UNCHANGED <<pulse_at, atomicVars, wake>>
    BY <1>3 DEF OnSinkEvent, OnServerEvent, OnServerInfo, pulseVars
  <2>2. QED BY <1>1, <1>2, <2>1 DEF Heard, Pending, atomicVars
<1>4. CASE OnSinkInfo
  <2> DEFINE info == Head(replies)
             pct  == Percent(info.state.level)
  <2>1. pulse_at = Idle /\ UNCHANGED <<muted, wake>>
    BY <1>4 DEF OnSinkInfo, Receive
  <2>2. \/ UNCHANGED <<volume, pulse_at>>
        \/ /\ volume' = pct
           /\ pulse_at' = [step |-> "mute", mute |-> info.state.mute,
                           differs |-> pct # volume]
    BY <1>4 DEF OnSinkInfo
  <2>3. pct \in Nat
    <3>1. replies # <<>> /\ info.is = "sink info"
      BY <1>4 DEF OnSinkInfo, Receive
    <3>2. info \in Reply
      BY <3>1, HeadTailProperties DEF WakeInv, LinkType
    <3>3. info.state.level \in Levels
      BY <3>1, <3>2 DEF Reply, States
    <3>4. QED BY <3>3, PercentType
  <2> HIDE DEF info, pct
  <2>4. CASE UNCHANGED <<volume, pulse_at>>
    BY <1>1, <1>2, <2>1, <2>4 DEF Heard, Pending, atomicVars
  <2>5. CASE /\ volume' = pct
             /\ pulse_at' = [step |-> "mute", mute |-> info.state.mute,
                             differs |-> pct # volume]
    <3>1. ~ (volume' < 0)
      BY <2>3, <2>5
    <3>2. Pending => Pending'
      BY <2>1, <2>5 DEF Pending, Idle
    <3>3. ~Pending' => volume' = volume
      BY <2>5 DEF Pending
    <3>4. QED BY <1>2, <2>1, <3>1, <3>2, <3>3 DEF Heard, atomicVars
  <2>6. QED BY <2>2, <2>4, <2>5
<1>5. CASE ExchangeMuted
  <2>1. pulse_at.step = "mute" /\ UNCHANGED <<volume, wake>>
    BY <1>5 DEF ExchangeMuted
  <2>2. ~ (volume' < 0)
    BY <2>1 DEF Heard
  <2>3. CASE pulse_at.differs \/ pulse_at.mute # muted
    <3>1. pulse_at' = [step |-> "notify"]
      BY <1>5, <2>1, <2>3 DEF ExchangeMuted
    <3>2. Pending'
      BY <3>1 DEF Pending
    <3>3. QED BY <1>2, <2>2, <3>2 DEF Heard
  <2>4. CASE ~ (pulse_at.differs \/ pulse_at.mute # muted)
    <3>1. muted' = muted
      BY <1>5, <2>4 DEF ExchangeMuted
    <3>2. Pending => Pending'
      BY <2>1, <2>4 DEF Pending
    <3>3. QED BY <1>2, <2>1, <2>2, <3>1, <3>2 DEF Heard, atomicVars
  <2>5. QED BY <2>3, <2>4
<1>6. CASE Notify
  <2>1. pulse_at.step = "notify" /\ wake' = TRUE /\ UNCHANGED atomicVars
    BY <1>6 DEF Notify
  <2>2. Pending' /\ ~ (volume' < 0)
    BY <2>1 DEF Pending, Heard, atomicVars
  <2>3. QED BY <1>2, <2>2 DEF Heard
<1>7. QED BY <1>3, <1>4, <1>5, <1>6 DEF PulseThread

LEMMA LoopOsd ==
  ASSUME OsdInv, EventLoop
  PROVE  OsdInv'
<1> USE DEF OsdInv
<1>1. UNCHANGED <<pulse_at, volume, muted>>
  BY DEF EventLoop, OnWake, OtherRefresh, LoadForBar, DrawBar, LoadForOsd,
         DrawOsd, pulseVars, atomicVars
<1>2. CASE OnWake
  <2>1. wake /\ loop_at' = [step |-> "bar", woken |-> TRUE]
    BY <1>2 DEF OnWake
  <2>2. loop_at'.step = "bar" /\ loop_at'.woken
    BY ONLY <2>1
  <2>3. OsdBound' /\ ~ (volume < 0)
    BY <2>1, <2>2 DEF OsdBound, Heard
  <2>4. QED BY <1>1, <2>2, <2>3 DEF Heard, FreshOsd
<1>3. CASE OtherRefresh
  <2>1. /\ loop_at = Idle /\ loop_at' = [step |-> "bar", woken |-> FALSE]
        /\ UNCHANGED <<wake, osd>>
    BY <1>3 DEF OtherRefresh
  <2>2. loop_at'.step = "bar" /\ ~loop_at'.woken /\ loop_at.step = "idle"
    BY ONLY <2>1 DEF Idle
  <2>3. ~OsdBound /\ ~OsdBound'
    BY <2>2 DEF OsdBound
  <2>4. QED BY <1>1, <2>1, <2>2, <2>3 DEF Heard, FreshOsd, Shown, Pending
<1>4. CASE LoadForBar \/ DrawBar
  <2>1. loop_at.step \in {"bar", "draw bar"} /\ UNCHANGED <<wake, osd>>
    BY <1>4 DEF LoadForBar, DrawBar
  <2>2. /\ loop_at'.step # "draw osd"
        /\ OsdBound' <=> OsdBound
    <3>1. CASE loop_at' = AfterBar(loop_at.woken)
      <4>1. CASE loop_at.woken
        <5>1. OsdBound /\ loop_at'.step = "osd"
          BY <2>1, <3>1, <4>1 DEF OsdBound, AfterBar
        <5>2. QED BY <5>1 DEF OsdBound
      <4>2. CASE ~loop_at.woken
        <5>1. loop_at'.step = "idle"
          BY <3>1, <4>2 DEF AfterBar, Idle
        <5>2. QED BY <2>1, <4>2, <5>1 DEF OsdBound
      <4>3. QED BY <4>1, <4>2
    <3>2. CASE loop_at' = [step |-> "draw bar", mute |-> muted,
                           woken |-> loop_at.woken]
      <4>1. loop_at'.step = "draw bar" /\ loop_at'.woken = loop_at.woken
        BY <3>2
      <4>2. QED BY <2>1, <4>1 DEF OsdBound
    <3>3. QED BY <1>4, <3>1, <3>2 DEF LoadForBar, DrawBar
  <2>3. QED BY <1>1, <2>1, <2>2 DEF Heard, FreshOsd, Shown, Pending
<1>5. CASE LoadForOsd
  <2>1. /\ loop_at.step = "osd" /\ UNCHANGED wake
        /\ loop_at' = [step |-> "draw osd", mute |-> muted]
    BY <1>5 DEF LoadForOsd
  <2>2. loop_at'.step = "draw osd" /\ loop_at'.mute = muted
    BY ONLY <2>1
  <2>3. OsdBound /\ OsdBound'
    BY <2>1, <2>2 DEF OsdBound
  <2>4. QED BY <1>1, <2>2, <2>3 DEF Heard, FreshOsd
<1>6. CASE DrawOsd
  <2>1. /\ loop_at.step = "draw osd" /\ loop_at' = Idle /\ wake' = wake
        /\ osd' = Text(loop_at.mute, volume)
    BY <1>6 DEF DrawOsd
  <2>2. OsdBound /\ ~OsdBound' /\ loop_at'.step # "draw osd"
    BY <2>1 DEF OsdBound, Idle
  <2>3. ~ (volume < 0) /\ (Pending' <=> Pending)
    BY <1>1, <2>1, <2>2 DEF Heard, Pending
  <2>4. loop_at.mute = muted => osd' = Shown'
    BY <1>1, <2>1, <2>3 DEF Shown
  <2>5. QED BY <1>1, <2>1, <2>2, <2>3, <2>4 DEF Heard, FreshOsd
<1>7. QED BY <1>2, <1>3, <1>4, <1>5, <1>6 DEF EventLoop

LEMMA OsdStep ==
  ASSUME WakeInv, OsdInv, [VolumeNext]_volumeVars
  PROVE  OsdInv'
<1>1. CASE Daemon \/ UNCHANGED volumeVars
  <2>1. UNCHANGED <<pulseVars, atomicVars, wake, loopVars>>
    BY <1>1 DEF Daemon, ChangeSink, ChangeDefault, Serve, volumeVars
  <2>2. QED BY <2>1 DEF OsdInv, Heard, FreshOsd, OsdBound, Shown, Pending,
                        pulseVars, atomicVars, loopVars
<1>2. QED BY <1>1, PulseOsd, LoopOsd DEF VolumeNext

(* Nothing travels, nothing is being published or drawn, and no wake-up is *)
(* pending.                                                                *)
Quiet ==
  requests = <<>> /\ replies = <<>> /\ pulse_at = Idle /\ loop_at = Idle /\ ~wake

(* Whenever the monitor and the event loop have nothing left to do, the    *)
(* applet and the last text of the display show the default sink as it is: *)
(* no event, no answer and no wake-up got lost on the way, however the     *)
(* changes of users crossed the queries.                                   *)
THEOREM QuietShowsTruth ==
  VolumeSpec => [](Quiet => applet = TrueText /\ osd = TrueText)
<1> DEFINE Inv == WakeInv /\ TruthInv /\ OsdInv
<1>1. Inv /\ [VolumeNext]_volumeVars => Inv'
  <2> SUFFICES ASSUME Inv, [VolumeNext]_volumeVars
               PROVE  Inv'
    OBVIOUS
  <2>1. TruthInv'
    BY DaemonTruth, PulseTruth, LoopTruth DEF VolumeNext
  <2>2. QED BY <2>1, WakeStep, OsdStep
<1>2. ASSUME Inv, Quiet
      PROVE  applet = TrueText /\ osd = TrueText
  <2>1. Elements(requests) = {} /\ Elements(replies) = {}
    BY <1>2 DEF Quiet, Elements
  <2>2. Published
    BY <1>2, <2>1 DEF TruthInv, MonitorKnows, ServerDue, SinkDue
  <2>3. muted = sinks[default_sink].mute
    BY <1>2, <2>2 DEF Published, Quiet, Idle
  <2>4. volume \in Nat
    <3>1. sinks[default_sink].level \in Levels
      BY <1>2 DEF WakeInv, LinkType, States
    <3>2. QED BY <2>2, <3>1, PercentType DEF Published
  <2>5. Shown = TrueText
    BY <2>2, <2>3, <2>4 DEF Published, Shown, TrueText
  <2>6. ~Pending
    BY <1>2 DEF Quiet, Pending, Idle
  <2>7. applet = Shown
    BY <1>2, <2>6 DEF Quiet, WakeInv, Fresh, Idle
  <2>8. osd = Shown
    BY <1>2, <2>6 DEF Quiet, OsdInv, FreshOsd, OsdBound, Idle
  <2>9. QED BY <2>5, <2>7, <2>8
<1>3. VolumeInit => Inv
  BY WakeInit, TruthInit, OsdInit
<1> HIDE DEF Inv
<1>4. Inv => (Quiet => applet = TrueText /\ osd = TrueText)
  BY <1>2
<1>5. QED BY <1>1, <1>3, <1>4, PTL DEF VolumeSpec
==============================================================================
