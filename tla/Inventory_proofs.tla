---------------------------- MODULE Inventory_proofs ----------------------------
(***************************************************************************)
(* Writes of the sheet reach the line they were aimed at, for any number of *)
(* tabs, requests, lines and writes: a request whose version is the row's    *)
(* was computed from the row, and the position it was computed for is that  *)
(* of the line the player saw.                                              *)
(*                                                                         *)
(* The armor class follows the names of the worn lines: no copy of the list *)
(* anywhere has a line with the stats of an item it does not name, and on a  *)
(* list without one the loops over it find the best that the names give.     *)
(***************************************************************************)
EXTENDS Inventory, FiniteSetTheorems, SequenceTheorems, WellFoundedInduction, TLAPS

\* A row whose lines stay apart and were all added by its version.
Aged(list, version) == \A i \in DOMAIN list : list[i].id[1] <= version
Whole(s) ==
    s \in Rows /\ Distinct(s.inv) /\ Aged(s.inv, s.version) /\ Len(s.attuned) <= Slots

\* What may be written over a row of this version.
Sound(patch, version) ==
    /\ patch \in Patches
    /\ patch.inv # None => Distinct(patch.inv) /\ Aged(patch.inv, version + 1)
    /\ patch.attuned # None => Len(patch.attuned) <= Slots

WithInv(list) == [NothingSent EXCEPT !.inv = list]
WithCoins(coins) == [NothingSent EXCEPT !.coins = coins]
WithAttuned(list) == [NothingSent EXCEPT !.attuned = list]

\* The transforms of a list.

LEMMA NoneIsNoList ==
    /\ None \notin Seq(Lines) /\ None \notin Nat /\ None \notin Rows
    /\ None \notin Seq([id : Ids, name : Names])
    /\ None \notin [index : Nat, id : Ids, name : Names]
  BY NoneAssumption

LEMMA InvPatched ==
    ASSUME NEW s \in Rows, NEW list \in Seq(Lines)
    PROVE  /\ WithInv(list) \in Patches
           /\ WithInv(list).inv = list /\ WithInv(list).attuned = None
           /\ Patched(s, WithInv(list)) =
                [version |-> s.version + 1, inv |-> list, coins |-> s.coins, attuned |-> s.attuned]
<1>1. WithInv(list) = [inv |-> list, coins |-> None, attuned |-> None]
  BY DEF WithInv, NothingSent
<1>2. list # None
  BY NoneIsNoList
<1>3. WithInv(list) \in Patches
  BY <1>1 DEF Patches
<1>4. Patched(s, WithInv(list)) = [version |-> s.version + 1, inv |-> list, coins |-> s.coins, attuned |-> s.attuned]
  BY <1>1, <1>2 DEF Patched
<1>5. QED
  BY <1>1, <1>3, <1>4

LEMMA CoinsPatched ==
    ASSUME NEW s \in Rows, NEW coins \in Nat
    PROVE  /\ WithCoins(coins) \in Patches
           /\ WithCoins(coins).inv = None /\ WithCoins(coins).attuned = None
           /\ Patched(s, WithCoins(coins)) =
                [version |-> s.version + 1, inv |-> s.inv, coins |-> coins, attuned |-> s.attuned]
<1>1. WithCoins(coins) = [inv |-> None, coins |-> coins, attuned |-> None]
  BY DEF WithCoins, NothingSent
<1>2. coins # None
  BY NoneIsNoList
<1>3. WithCoins(coins) \in Patches
  BY <1>1 DEF Patches
<1>4. Patched(s, WithCoins(coins)) = [version |-> s.version + 1, inv |-> s.inv, coins |-> coins, attuned |-> s.attuned]
  BY <1>1, <1>2 DEF Patched
<1>5. QED
  BY <1>1, <1>3, <1>4

LEMMA AttunedPatched ==
    ASSUME NEW s \in Rows, NEW list \in Seq([id : Ids, name : Names])
    PROVE  /\ WithAttuned(list) \in Patches
           /\ WithAttuned(list).inv = None /\ WithAttuned(list).attuned = list
           /\ Patched(s, WithAttuned(list)) =
                [version |-> s.version + 1, inv |-> s.inv, coins |-> s.coins, attuned |-> list]
<1>1. WithAttuned(list) = [inv |-> None, coins |-> None, attuned |-> list]
  BY DEF WithAttuned, NothingSent
<1>2. list # None
  BY NoneIsNoList
<1>3. WithAttuned(list) \in Patches
  BY <1>1 DEF Patches
<1>4. Patched(s, WithAttuned(list)) = [version |-> s.version + 1, inv |-> s.inv, coins |-> s.coins, attuned |-> list]
  BY <1>1, <1>2 DEF Patched
<1>5. QED
  BY <1>1, <1>3, <1>4

LEMMA IdsAreDated ==
    ASSUME NEW list \in Seq(Lines), NEW j \in DOMAIN list
    PROVE  list[j] \in Lines /\ list[j].id \in Ids /\ list[j].id[1] \in Nat
<1>1. list[j] \in Lines
  OBVIOUS
<1>2. list[j].id \in Ids
  BY <1>1 DEF Lines
<1>3. \A p \in Ids : p[1] \in Nat
  BY DEF Ids
<1>4. QED
  BY <1>1, <1>2, <1>3

LEMMA RemovedAt ==
    ASSUME NEW S, NEW list \in Seq(S), NEW i \in DOMAIN list
    PROVE  /\ RemoveAt(list, i) \in Seq(S)
           /\ Len(RemoveAt(list, i)) = Len(list) - 1
           /\ \A j \in 1..(Len(list) - 1) : RemoveAt(list, i)[j] = list[IF j < i THEN j ELSE j + 1]
<1> DEFINE head == SubSeq(list, 1, i - 1)
           tail == SubSeq(list, i + 1, Len(list))
<1>1. i \in 1..Len(list) /\ Len(list) \in Nat
  OBVIOUS
<1>2. /\ head \in Seq(S) /\ Len(head) = i - 1
      /\ \A j \in 1..(i - 1) : head[j] = list[j]
  BY <1>1
<1>3. /\ tail \in Seq(S) /\ Len(tail) = Len(list) - i
      /\ \A j \in 1..(Len(list) - i) : tail[j] = list[i + j]
  BY <1>1
<1>4. RemoveAt(list, i) = head \o tail
  BY DEF RemoveAt
<1> HIDE DEF head, tail
<1>5. RemoveAt(list, i) \in Seq(S) /\ Len(RemoveAt(list, i)) = Len(list) - 1
  BY <1>1, <1>2, <1>3, <1>4
<1>6. ASSUME NEW j \in 1..(Len(list) - 1)
      PROVE  RemoveAt(list, i)[j] = list[IF j < i THEN j ELSE j + 1]
  <2>1. CASE j < i
    BY <2>1, <1>1, <1>2, <1>3, <1>4
  <2>2. CASE j >= i
    <3> DEFINE k == j - (i - 1)
    <3>1. /\ k \in 1..(Len(list) - i) /\ i + k = j + 1 /\ ~(j < i)
          /\ k = j - (i - 1) /\ ~(j <= i - 1) /\ j \in 1..((i - 1) + (Len(list) - i))
      BY <2>2, <1>1
    <3> HIDE DEF k
    <3>2. (head \o tail)[j] = IF j <= Len(head) THEN head[j] ELSE tail[j - Len(head)]
      BY <3>1, <1>2, <1>3, ConcatProperties
    <3>4. (head \o tail)[j] = tail[k]
      BY <3>1, <3>2, <1>2
    <3>3. QED
      BY <3>1, <3>4, <1>3, <1>4
  <2>3. QED
    BY <2>1, <2>2, <1>1
<1>7. QED
  BY <1>5, <1>6

\* A list with one line of the same id in the place of another.
LEMMA AlteredSound ==
    ASSUME NEW list \in Seq(Lines), NEW i \in DOMAIN list, NEW e \in Lines, e.id = list[i].id,
           NEW v \in Nat, Distinct(list), Aged(list, v)
    PROVE  /\ Altered(list, i, e) \in Seq(Lines)
           /\ Altered(list, i, e) = [list EXCEPT ![i] = e]
           /\ Distinct(Altered(list, i, e)) /\ Aged(Altered(list, i, e), v)
<1>1. Altered(list, i, e) = [list EXCEPT ![i] = e]
  BY DEF Altered
<1>2. [list EXCEPT ![i] = e] \in Seq(Lines)
  OBVIOUS
<1>3. /\ DOMAIN Altered(list, i, e) = DOMAIN list
      /\ \A j \in DOMAIN list : Altered(list, i, e)[j].id = list[j].id
  BY DEF Altered
<1>4. QED
  BY <1>1, <1>2, <1>3 DEF Distinct, Aged

LEMMA RemovedSound ==
    ASSUME NEW list \in Seq(Lines), NEW i \in DOMAIN list,
           NEW v \in Nat, Distinct(list), Aged(list, v)
    PROVE  /\ RemoveAt(list, i) \in Seq(Lines)
           /\ Distinct(RemoveAt(list, i)) /\ Aged(RemoveAt(list, i), v)
<1> DEFINE old(j) == IF j < i THEN j ELSE j + 1
           rest == RemoveAt(list, i)
<1>1. /\ rest \in Seq(Lines) /\ Len(rest) = Len(list) - 1
      /\ \A j \in 1..(Len(list) - 1) : rest[j] = list[old(j)]
  BY RemovedAt
<1>2. DOMAIN rest = 1..(Len(list) - 1) /\ i \in 1..Len(list) /\ DOMAIN list = 1..Len(list)
        /\ Len(list) \in Nat
  BY <1>1
<1>3. \A j \in DOMAIN rest : old(j) \in DOMAIN list
  BY <1>2
<1>4. \A j, k \in DOMAIN rest : old(j) = old(k) => j = k
  BY <1>2
<1> HIDE DEF rest, old
<1>5. Distinct(rest)
  BY <1>1, <1>2, <1>3, <1>4 DEF Distinct
<1>6. Aged(rest, v)
  BY <1>1, <1>2, <1>3 DEF Aged
<1>7. QED
  BY <1>1, <1>5, <1>6 DEF rest

\* A line that is new to its list.
LEMMA AppendedSound ==
    ASSUME NEW list \in Seq(Lines), NEW e \in Lines, NEW v \in Nat, e.id = <<v + 1, 1>>,
           Distinct(list), Aged(list, v)
    PROVE  /\ Append(list, e) \in Seq(Lines)
           /\ Distinct(Append(list, e)) /\ Aged(Append(list, e), v + 1)
<1> DEFINE longer == Append(list, e)
<1>1. /\ longer \in Seq(Lines) /\ DOMAIN longer = 1..(Len(list) + 1) /\ Len(list) \in Nat
      /\ DOMAIN list = 1..Len(list)
      /\ \A j \in 1..Len(list) : longer[j] = list[j]
      /\ longer[Len(list) + 1] = e
  OBVIOUS
<1>2. \A j \in DOMAIN list : list[j].id \in Ids /\ list[j].id[1] \in Nat
  BY IdsAreDated
<1>3. \A j \in DOMAIN list : list[j].id # e.id /\ list[j].id[1] <= v + 1
  BY <1>2 DEF Aged
<1> HIDE DEF longer
<1>4. Distinct(longer)
  BY <1>1, <1>3 DEF Distinct
<1>5. Aged(longer, v + 1)
  BY <1>1, <1>3 DEF Aged
<1>6. QED
  BY <1>1, <1>4, <1>5 DEF longer

LEMMA Older ==
    ASSUME NEW list \in Seq(Lines), NEW v \in Nat, Aged(list, v)
    PROVE  Aged(list, v + 1) /\ \A w \in Nat : v <= w => Aged(list, w)
<1>1. \A j \in DOMAIN list : list[j].id[1] \in Nat
  BY IdsAreDated
<1>2. QED
  BY <1>1 DEF Aged
--------------------------------------------------------------------------------
(* What each control sends is sound for the row it was computed from, and  *)
(* reaches what the player aimed at in that row.                            *)

LEMMA InvSound ==
    ASSUME NEW s, Whole(s), NEW list \in Seq(Lines), Distinct(list), Aged(list, s.version + 1)
    PROVE  Sound(WithInv(list), s.version)
  BY InvPatched DEF Whole, Sound

LEMMA CoinsSound ==
    ASSUME NEW s, Whole(s), NEW coins \in Nat
    PROVE  Sound(WithCoins(coins), s.version)
  BY CoinsPatched DEF Whole, Sound

LEMMA AttunedSound ==
    ASSUME NEW s, Whole(s), NEW list \in Seq([id : Ids, name : Names]), Len(list) <= Slots
    PROVE  Sound(WithAttuned(list), s.version)
  BY AttunedPatched DEF Whole, Sound

LEMMA WholeRow ==
    ASSUME NEW s, Whole(s)
    PROVE  /\ s \in Rows /\ s.version \in Nat /\ s.version + 1 \in Nat /\ s.version <= s.version + 1
           /\ s.inv \in Seq(Lines) /\ s.coins \in Nat
           /\ s.attuned \in Seq([id : Ids, name : Names])
  BY DEF Whole, Rows

\* What is left to show of a request that sends one list.
LEMMA ToggleAimed ==
    ASSUME NEW s \in Rows, NEW list \in Seq(Lines), NEW aim, aim.kind = "toggle",
           NEW i \in DOMAIN s.inv, s.inv[i].id = aim.id,
           list = [s.inv EXCEPT ![i].equipped = ~@]
    PROVE  Reaches(aim, s, Patched(s, WithInv(list)))
<1> DEFINE t == Patched(s, WithInv(list))
<1>1. t = [version |-> s.version + 1, inv |-> list, coins |-> s.coins, attuned |-> s.attuned]
  BY InvPatched
<1> HIDE DEF t
<1>2. t.version = s.version + 1 /\ t.inv = list /\ t.coins = s.coins /\ t.attuned = s.attuned
  BY <1>1
<1>3. aim.kind \notin {"remove", "edit", "add", "coins", "attune", "release"}
  OBVIOUS
<1>4. Reaches(aim, s, t)
  BY <1>2, <1>3, Zenon DEF Reaches
<1>5. QED
  BY <1>4 DEF t

LEMMA RemoveAimed ==
    ASSUME NEW s \in Rows, NEW list \in Seq(Lines), NEW aim, aim.kind = "remove",
           NEW i \in DOMAIN s.inv, s.inv[i].id = aim.id, list = RemoveAt(s.inv, i)
    PROVE  Reaches(aim, s, Patched(s, WithInv(list)))
<1> DEFINE t == Patched(s, WithInv(list))
<1>1. t = [version |-> s.version + 1, inv |-> list, coins |-> s.coins, attuned |-> s.attuned]
  BY InvPatched
<1> HIDE DEF t
<1>2. t.version = s.version + 1 /\ t.inv = list /\ t.coins = s.coins /\ t.attuned = s.attuned
  BY <1>1
<1>3. aim.kind \notin {"toggle", "edit", "add", "coins", "attune", "release"}
  OBVIOUS
<1>4. Reaches(aim, s, t)
  BY <1>2, <1>3, Zenon DEF Reaches
<1>5. QED
  BY <1>4 DEF t

LEMMA EditAimed ==
    ASSUME NEW s \in Rows, NEW list \in Seq(Lines), NEW aim, aim.kind = "edit",
           NEW i \in DOMAIN s.inv, s.inv[i].id = aim.id,
           list = [s.inv EXCEPT ![i] =
                     [id |-> s.inv[i].id, name |-> aim.name,
                      link |-> IF aim.name = s.inv[i].name THEN s.inv[i].link ELSE None,
                      gear |-> IF aim.name = s.inv[i].name THEN s.inv[i].gear ELSE NoGear,
                      quantity |-> aim.quantity, equipped |-> s.inv[i].equipped]]
    PROVE  Reaches(aim, s, Patched(s, WithInv(list)))
<1> DEFINE t == Patched(s, WithInv(list))
<1>1. t = [version |-> s.version + 1, inv |-> list, coins |-> s.coins, attuned |-> s.attuned]
  BY InvPatched
<1> HIDE DEF t
<1>2. t.version = s.version + 1 /\ t.inv = list /\ t.coins = s.coins /\ t.attuned = s.attuned
  BY <1>1
<1>3. aim.kind \notin {"toggle", "remove", "add", "coins", "attune", "release"}
  OBVIOUS
<1>4. \E k \in {j \in DOMAIN s.inv : s.inv[j].id = aim.id} :
         LET e == s.inv[k]
             kept == aim.name = e.name
         IN  t.inv = [s.inv EXCEPT ![k] =
               [id |-> e.id, name |-> aim.name, link |-> IF kept THEN e.link ELSE None,
                gear |-> IF kept THEN e.gear ELSE NoGear, quantity |-> aim.quantity,
                equipped |-> e.equipped]]
  BY <1>2
<1>5. Reaches(aim, s, t)
  BY <1>2, <1>3, <1>4, Zenon DEF Reaches
<1>6. QED
  BY <1>5 DEF t

LEMMA AddAimed ==
    ASSUME NEW s \in Rows, NEW list \in Seq(Lines), NEW aim, aim.kind = "add",
           list = Append(s.inv, aim.line)
    PROVE  Reaches(aim, s, Patched(s, WithInv(list)))
<1> DEFINE t == Patched(s, WithInv(list))
<1>1. t = [version |-> s.version + 1, inv |-> list, coins |-> s.coins, attuned |-> s.attuned]
  BY InvPatched
<1> HIDE DEF t
<1>2. t.version = s.version + 1 /\ t.inv = list /\ t.coins = s.coins /\ t.attuned = s.attuned
  BY <1>1
<1>3. aim.kind \notin {"toggle", "remove", "edit", "coins", "attune", "release"}
  OBVIOUS
<1>4. Reaches(aim, s, t)
  BY <1>2, <1>3, Zenon DEF Reaches
<1>5. QED
  BY <1>4 DEF t

LEMMA AttuneAimed ==
    ASSUME NEW s \in Rows, NEW list \in Seq([id : Ids, name : Names]), NEW aim, aim.kind = "attune",
           list = Append(s.attuned, [id |-> <<s.version + 1, 1>>, name |-> aim.name])
    PROVE  Reaches(aim, s, Patched(s, WithAttuned(list)))
<1> DEFINE t == Patched(s, WithAttuned(list))
<1>1. t = [version |-> s.version + 1, inv |-> s.inv, coins |-> s.coins, attuned |-> list]
  BY AttunedPatched
<1> HIDE DEF t
<1>2. t.version = s.version + 1 /\ t.inv = s.inv /\ t.coins = s.coins /\ t.attuned = list
  BY <1>1
<1>3. aim.kind \notin {"toggle", "remove", "edit", "add", "coins", "release"}
  OBVIOUS
<1>4. Reaches(aim, s, t)
  BY <1>2, <1>3, Zenon DEF Reaches
<1>5. QED
  BY <1>4 DEF t

LEMMA ReleaseAimed ==
    ASSUME NEW s \in Rows, NEW list \in Seq([id : Ids, name : Names]), NEW aim, aim.kind = "release",
           NEW i \in DOMAIN s.attuned, s.attuned[i].id = aim.id, list = RemoveAt(s.attuned, i)
    PROVE  Reaches(aim, s, Patched(s, WithAttuned(list)))
<1> DEFINE t == Patched(s, WithAttuned(list))
<1>1. t = [version |-> s.version + 1, inv |-> s.inv, coins |-> s.coins, attuned |-> list]
  BY AttunedPatched
<1> HIDE DEF t
<1>2. t.version = s.version + 1 /\ t.inv = s.inv /\ t.coins = s.coins /\ t.attuned = list
  BY <1>1
<1>3. aim.kind \notin {"toggle", "remove", "edit", "add", "coins", "attune"}
  OBVIOUS
<1>4. Reaches(aim, s, t)
  BY <1>2, <1>3, Zenon DEF Reaches
<1>5. QED
  BY <1>4 DEF t

LEMMA StrippedLine ==
    ASSUME NEW e \in Lines
    PROVE  Stripped(e) = [id |-> e.id, name |-> e.name, link |-> None, gear |-> NoGear,
                          quantity |-> e.quantity, equipped |-> e.equipped]
<1>1. e = [id |-> e.id, name |-> e.name, link |-> e.link, gear |-> e.gear,
           quantity |-> e.quantity, equipped |-> e.equipped]
  BY DEF Lines
<1>2. Stripped(e) = [[e EXCEPT !.link = None] EXCEPT !.gear = NoGear]
  BY DEF Stripped
<1>3. [e EXCEPT !.link = None]
        = [id |-> e.id, name |-> e.name, link |-> None, gear |-> e.gear,
           quantity |-> e.quantity, equipped |-> e.equipped]
  BY DEF Lines
<1>4. QED
  BY <1>2, <1>3

LEMMA ToggleReaches ==
    ASSUME NEW s, Whole(s), NEW i \in DOMAIN s.inv
    PROVE  LET e == s.inv[i]
               patch == WithInv(Altered(s.inv, i, [e EXCEPT !.equipped = ~@]))
           IN  /\ Sound(patch, s.version)
               /\ Reaches([kind |-> "toggle", id |-> e.id], s, Patched(s, patch))
<1> DEFINE e == s.inv[i]
           worn == [e EXCEPT !.equipped = ~@]
           list == Altered(s.inv, i, worn)
<1>1. s \in Rows /\ s.version \in Nat /\ s.inv \in Seq(Lines) /\ e \in Lines
  BY WholeRow
<1>2. worn \in Lines /\ worn.id = e.id
  BY <1>1 DEF Lines
<1>3. Distinct(s.inv) /\ Aged(s.inv, s.version)
  BY DEF Whole
<1> HIDE DEF worn
<1>4. /\ list \in Seq(Lines) /\ Distinct(list) /\ Aged(list, s.version)
      /\ list = [s.inv EXCEPT ![i] = worn]
  BY <1>1, <1>2, <1>3, AlteredSound
<1>5. Aged(list, s.version + 1)
  BY <1>1, <1>4, Older
<1>6. [s.inv EXCEPT ![i].equipped = ~@] = [s.inv EXCEPT ![i] = worn]
  BY DEF worn
<1> HIDE DEF list
<1>7. Reaches([kind |-> "toggle", id |-> e.id], s, Patched(s, WithInv(list)))
  <2> DEFINE aim == [kind |-> "toggle", id |-> e.id]
  <2>1. aim.kind = "toggle" /\ aim.id = e.id
    OBVIOUS
  <2> HIDE DEF aim
  <2>2. Reaches(aim, s, Patched(s, WithInv(list)))
    BY <2>1, <1>1, <1>4, <1>6, ToggleAimed
  <2>3. QED
    BY <2>2 DEF aim
<1>8. QED
  BY <1>4, <1>5, <1>7, InvSound DEF list, worn

LEMMA RemoveReaches ==
    ASSUME NEW s, Whole(s), NEW i \in DOMAIN s.inv
    PROVE  LET patch == WithInv(RemoveAt(s.inv, i))
           IN  /\ Sound(patch, s.version)
               /\ Reaches([kind |-> "remove", id |-> s.inv[i].id], s, Patched(s, patch))
<1> DEFINE list == RemoveAt(s.inv, i)
<1>1. s \in Rows /\ s.version \in Nat /\ s.inv \in Seq(Lines)
  BY WholeRow
<1>2. Distinct(s.inv) /\ Aged(s.inv, s.version)
  BY DEF Whole
<1>3. list \in Seq(Lines) /\ Distinct(list) /\ Aged(list, s.version)
  BY <1>1, <1>2, RemovedSound
<1> HIDE DEF list
<1>4. Aged(list, s.version + 1)
  BY <1>1, <1>3, Older
<1>5. Reaches([kind |-> "remove", id |-> s.inv[i].id], s, Patched(s, WithInv(list)))
  <2> DEFINE aim == [kind |-> "remove", id |-> s.inv[i].id]
  <2>1. aim.kind = "remove" /\ aim.id = s.inv[i].id
    OBVIOUS
  <2> HIDE DEF aim
  <2>2. Reaches(aim, s, Patched(s, WithInv(list)))
    BY <2>1, <1>1, <1>3, RemoveAimed DEF list
  <2>3. QED
    BY <2>2 DEF aim
<1>6. QED
  BY <1>3, <1>4, <1>5, InvSound DEF list

LEMMA EditReaches ==
    ASSUME NEW s, Whole(s), NEW i \in DOMAIN s.inv, NEW name \in Names, NEW n \in Nat
    PROVE  LET patch == WithInv(Edited(s.inv, i, name, n))
           IN  /\ Sound(patch, s.version)
               /\ Reaches([kind |-> "edit", id |-> s.inv[i].id, name |-> name,
                           quantity |-> NoLess(n, 1)], s, Patched(s, patch))
<1> DEFINE e == s.inv[i]
           q == NoLess(n, 1)
           new == [Renamed(e, name) EXCEPT !.quantity = q]
           list == Edited(s.inv, i, name, n)
           aim == [kind |-> "edit", id |-> e.id, name |-> name, quantity |-> q]
<1>1. s \in Rows /\ s.version \in Nat /\ s.inv \in Seq(Lines) /\ e \in Lines
  BY WholeRow
<1>2. q \in Nat \ {0}
  BY DEF NoLess
<1> HIDE DEF q
<1>3. e = [id |-> e.id, name |-> e.name, link |-> e.link, gear |-> e.gear,
           quantity |-> e.quantity, equipped |-> e.equipped]
  BY <1>1 DEF Lines
<1>4. new = [id |-> e.id, name |-> name,
             link |-> IF name = e.name THEN e.link ELSE None,
             gear |-> IF name = e.name THEN e.gear ELSE NoGear,
             quantity |-> q, equipped |-> e.equipped]
  <2>1. CASE name = e.name
    BY <2>1, <1>1 DEF Renamed, Lines
  <2>2. CASE name # e.name
    <3> DEFINE called == [e EXCEPT !.name = name]
    <3>1. Renamed(e, name) = Stripped(called)
      BY <2>2 DEF Renamed
    <3>2. called = [id |-> e.id, name |-> name, link |-> e.link, gear |-> e.gear,
                    quantity |-> e.quantity, equipped |-> e.equipped]
      BY <1>1 DEF Lines
    <3> HIDE DEF called
    <3>3. Stripped(called) = [id |-> e.id, name |-> name, link |-> None, gear |-> NoGear,
                              quantity |-> e.quantity, equipped |-> e.equipped]
      <4>1. called \in Lines
        BY <1>1, <3>2 DEF Lines
      <4>2. QED
        BY <3>2, <4>1, StrippedLine
    <3>4. QED
      BY <2>2, <3>1, <3>3
  <2>3. QED
    BY <2>1, <2>2
<1> HIDE DEF new
<1>5. new \in Lines /\ new.id = e.id
  BY <1>1, <1>2, <1>4 DEF Lines, Gears
<1>6. list = Altered(s.inv, i, new)
  BY DEF Edited, new, q
<1>7. Distinct(s.inv) /\ Aged(s.inv, s.version)
  BY DEF Whole
<1> HIDE DEF list
<1>8. /\ list \in Seq(Lines) /\ Distinct(list) /\ Aged(list, s.version)
      /\ list = [s.inv EXCEPT ![i] = new]
  BY <1>1, <1>5, <1>6, <1>7, AlteredSound
<1>9. Aged(list, s.version + 1)
  BY <1>1, <1>8, Older
<1>10. Reaches(aim, s, Patched(s, WithInv(list)))
  <2>1. aim.kind = "edit" /\ aim.id = e.id /\ aim.name = name /\ aim.quantity = q
    OBVIOUS
  <2> HIDE DEF aim
  <2>2. list = [s.inv EXCEPT ![i] =
                  [id |-> e.id, name |-> aim.name,
                   link |-> IF aim.name = e.name THEN e.link ELSE None,
                   gear |-> IF aim.name = e.name THEN e.gear ELSE NoGear,
                   quantity |-> aim.quantity, equipped |-> e.equipped]]
    BY <2>1, <1>4, <1>8
  <2>3. QED
    BY <2>1, <2>2, <1>1, <1>8, EditAimed
<1>11. QED
  BY <1>8, <1>9, <1>10, InvSound DEF list, q

LEMMA AddReaches ==
    ASSUME NEW s, Whole(s), NEW line \in Lines, line.id = <<s.version + 1, 1>>
    PROVE  LET patch == WithInv(Append(s.inv, line))
           IN  /\ Sound(patch, s.version)
               /\ Reaches([kind |-> "add", line |-> line], s, Patched(s, patch))
<1> DEFINE list == Append(s.inv, line)
<1>1. s \in Rows /\ s.version \in Nat /\ s.inv \in Seq(Lines)
  BY WholeRow
<1>2. Distinct(s.inv) /\ Aged(s.inv, s.version)
  BY DEF Whole
<1>3. list \in Seq(Lines) /\ Distinct(list) /\ Aged(list, s.version + 1)
  BY <1>1, <1>2, AppendedSound
<1> HIDE DEF list
<1>4. Reaches([kind |-> "add", line |-> line], s, Patched(s, WithInv(list)))
  <2> DEFINE aim == [kind |-> "add", line |-> line]
  <2>1. aim.kind = "add" /\ aim.line = line
    OBVIOUS
  <2> HIDE DEF aim
  <2>2. Reaches(aim, s, Patched(s, WithInv(list)))
    BY <2>1, <1>1, <1>3, AddAimed DEF list
  <2>3. QED
    BY <2>2 DEF aim
<1>5. QED
  BY <1>3, <1>4, InvSound DEF list

LEMMA CoinsReach ==
    ASSUME NEW s, Whole(s), NEW by \in Int
    PROVE  LET patch == WithCoins(Adjusted(s.coins, by))
           IN  /\ Sound(patch, s.version)
               /\ Reaches([kind |-> "coins", by |-> by], s, Patched(s, patch))
<1>1. s \in Rows /\ s.coins \in Nat
  BY WholeRow
<1>2. Adjusted(s.coins, by) = NoLess(s.coins + by, 0) /\ Adjusted(s.coins, by) \in Nat
  BY <1>1 DEF Adjusted, NoLess
<1>3. QED
  BY <1>1, <1>2, CoinsPatched, CoinsSound DEF Reaches

LEMMA AttuneReaches ==
    ASSUME NEW s, Whole(s), NEW name \in Names, Len(s.attuned) < Slots
    PROVE  LET patch == WithAttuned(Append(s.attuned, [id |-> <<s.version + 1, 1>>, name |-> name]))
           IN  /\ Sound(patch, s.version)
               /\ Reaches([kind |-> "attune", name |-> name], s, Patched(s, patch))
<1> DEFINE entry == [id |-> <<s.version + 1, 1>>, name |-> name]
           list == Append(s.attuned, entry)
<1>1. s \in Rows /\ s.version \in Nat /\ s.attuned \in Seq([id : Ids, name : Names])
  BY WholeRow
<1>2. entry \in [id : Ids, name : Names]
  BY <1>1 DEF Ids
<1>3. list \in Seq([id : Ids, name : Names]) /\ Len(list) <= Slots
  BY <1>1, <1>2, InventoryAssumption
<1> HIDE DEF list
<1>4. Reaches([kind |-> "attune", name |-> name], s, Patched(s, WithAttuned(list)))
  <2> DEFINE aim == [kind |-> "attune", name |-> name]
  <2>1. aim.kind = "attune" /\ aim.name = name
    OBVIOUS
  <2> HIDE DEF aim
  <2>2. Reaches(aim, s, Patched(s, WithAttuned(list)))
    BY <2>1, <1>1, <1>3, AttuneAimed DEF list, entry
  <2>3. QED
    BY <2>2 DEF aim
<1>5. QED
  BY <1>3, <1>4, AttunedSound DEF list

LEMMA ReleaseReaches ==
    ASSUME NEW s, Whole(s), NEW i \in DOMAIN s.attuned
    PROVE  LET patch == WithAttuned(RemoveAt(s.attuned, i))
           IN  /\ Sound(patch, s.version)
               /\ Reaches([kind |-> "release", id |-> s.attuned[i].id], s, Patched(s, patch))
<1> DEFINE list == RemoveAt(s.attuned, i)
<1>1. s \in Rows /\ s.attuned \in Seq([id : Ids, name : Names]) /\ Len(s.attuned) <= Slots
  BY WholeRow DEF Whole
<1>2. list \in Seq([id : Ids, name : Names]) /\ Len(list) = Len(s.attuned) - 1
  BY <1>1, RemovedAt
<1>3. Len(list) <= Slots
  BY <1>1, <1>2, InventoryAssumption
<1> HIDE DEF list
<1>4. Reaches([kind |-> "release", id |-> s.attuned[i].id], s, Patched(s, WithAttuned(list)))
  <2> DEFINE aim == [kind |-> "release", id |-> s.attuned[i].id]
  <2>1. aim.kind = "release" /\ aim.id = s.attuned[i].id
    OBVIOUS
  <2> HIDE DEF aim
  <2>2. Reaches(aim, s, Patched(s, WithAttuned(list)))
    BY <2>1, <1>1, <1>2, ReleaseAimed DEF list
  <2>3. QED
    BY <2>2 DEF aim
<1>5. QED
  BY <1>2, <1>3, <1>4, AttunedSound DEF list
--------------------------------------------------------------------------------
(* The inductive invariant.                                                 *)

\* What a tab shows is the past, or it is the row.
Shown(s) ==
    /\ Whole(s) /\ s.version <= row.version
    /\ s.version = row.version => s = row

\* An edit form is no newer than the cache whose version its write will carry.
Filled(s, version) == s # None => Whole(s) /\ s.version <= version

\* An editor is open on the line whose draft it holds.
OnLine(e, list) ==
    e # None => /\ e.index \in DOMAIN list
                /\ list[e.index].id = e.id /\ list[e.index].name = e.name

\* A request that still matches the row does to it what was aimed at.
OnItsWay(q) ==
    q.at = "sent" =>
      /\ q.expected <= row.version /\ Sound(q.patch, q.expected)
      /\ q.aim # None /\ q.expected = row.version => Reaches(q.aim, row, Patched(row, q.patch))

\* The edit form replaces the sheet and its editors.
OnePage(t) ==
    /\ Filled(form[t], view[t].version)
    /\ OnLine(editing[t], view[t].inv)
    /\ form[t] = None \/ editing[t] = None

TabsTyped ==
    /\ view \in [Tabs -> Rows] /\ form \in [Tabs -> Rows \cup {None}]
    /\ editing \in [Tabs -> [index : Nat, id : Ids, name : Names] \cup {None}]
    /\ saving \in [Tabs -> BOOLEAN]

RequestsTyped == req = [r \in Requests |-> req[r]] /\ \A r \in Requests : IsRequest(req[r])

IInv ==
    /\ TypeOK
    /\ Whole(row)
    /\ \A t \in Tabs : Shown(view[t]) /\ OnePage(t)
    /\ \A r \in Requests : OnItsWay(req[r])

\* The parts of TypeOK, without what is said of the row.
LEMMA Parts ==
    ASSUME IInv
    PROVE  /\ view \in [Tabs -> Rows] /\ form \in [Tabs -> Rows \cup {None}]
           /\ editing \in [Tabs -> [index : Nat, id : Ids, name : Names] \cup {None}]
           /\ saving \in [Tabs -> BOOLEAN]
           /\ req = [r \in Requests |-> req[r]]
           /\ \A r \in Requests : IsRequest(req[r]) /\ OnItsWay(req[r])
           /\ Whole(row) /\ row.version \in Nat
           /\ \A t \in Tabs : /\ Shown(view[t]) /\ view[t].version \in Nat
                              /\ Filled(form[t], view[t].version)
                              /\ OnLine(editing[t], view[t].inv)
                              /\ form[t] = None \/ editing[t] = None
<1>1. \A t \in Tabs : Shown(view[t])
  BY DEF IInv
<1>2. \A t \in Tabs : view[t].version \in Nat
  BY <1>1, WholeRow DEF Shown
<1>3. row.version \in Nat
  BY WholeRow DEF IInv
<1>4. QED
  BY <1>1, <1>2, <1>3 DEF IInv, TypeOK, OnePage

\* IInv' from its parts.
LEMMA Together ==
    ASSUME Whole(row)', TabsTyped', RequestsTyped',
           \A r \in Requests : OnItsWay(req[r])',
           \A t \in Tabs : Shown(view[t])',
           \A t \in Tabs : OnePage(t)'
    PROVE  IInv'
<1>1. TypeOK'
  BY DEF TypeOK, Whole, TabsTyped, RequestsTyped
<1>2. QED
  BY <1>1 DEF IInv

LEMMA IdleIsRequest ==
    /\ IsRequest(Idle)
    /\ \A at \in {"saved", "conflict"}, t \in Tabs :
         IsRequest([Idle EXCEPT !.at = at, !.tab = t])
<1>1. NothingSent \in Patches
  BY DEF NothingSent, Patches
<1>2. IsRequest(Idle)
  BY <1>1 DEF Idle, IsRequest
<1>3. ASSUME NEW at \in {"saved", "conflict"}, NEW t \in Tabs
      PROVE  IsRequest([Idle EXCEPT !.at = at, !.tab = t])
  <2>1. [Idle EXCEPT !.at = at, !.tab = t] = [[Idle EXCEPT !.at = at] EXCEPT !.tab = t]
    OBVIOUS
  <2> DEFINE p == [Idle EXCEPT !.at = at]
           q == [Idle EXCEPT !.at = at, !.tab = t]
  <2>2. p = [at |-> at, tab |-> None, aim |-> None, expected |-> 0, patch |-> NothingSent]
    BY DEF Idle
  <2> HIDE DEF p, q
  <2>3. q = [at |-> at, tab |-> t, aim |-> None, expected |-> 0, patch |-> NothingSent]
    <3>1. q = [p EXCEPT !.tab = t]
      BY <2>1 DEF p, q
    <3>2. QED
      BY <2>2, <3>1
  <2>4. IsRequest(q)
    BY <1>1, <2>3 DEF IsRequest
  <2>5. QED
    BY <2>4 DEF q
<1>4. QED
  BY <1>2, <1>3

LEMMA DoneIsRequest ==
    ASSUME NEW r \in Requests, IsRequest(req[r]), NEW at \in {"saved", "conflict"}
    PROVE  IsRequest(Done(r, at)) /\ Done(r, at).at # "sent"
<1>1. Idle.at # "sent"
  BY DEF Idle
<1>2. \A t : [Idle EXCEPT !.at = at, !.tab = t].at = at
  BY DEF Idle
<1>3. QED
  BY <1>1, <1>2, IdleIsRequest DEF Done, IsRequest

\* A step that leaves the row alone, and in which requests only come to rest.
LEMMA Rests ==
    ASSUME IInv, row' = row,
           req' = [r \in Requests |-> req'[r]],
           \A r \in Requests : /\ IsRequest(req'[r])
                               /\ \/ req'[r].at # "sent"
                                  \/ /\ req[r].at = "sent" /\ req'[r].aim = req[r].aim
                                     /\ req'[r].expected = req[r].expected
                                     /\ req'[r].patch = req[r].patch
    PROVE  \A r \in Requests : OnItsWay(req[r])'
<1>1. ASSUME NEW r \in Requests PROVE OnItsWay(req[r])'
  <2>1. OnItsWay(req[r])
    BY DEF IInv
  <2>2. QED
    BY <2>1 DEF OnItsWay
<1>2. QED
  BY <1>1

LEMMA ShownStays ==
    ASSUME IInv, row' = row, view' = view
    PROVE  \A t \in Tabs : Shown(view[t])'
<1>1. \A t \in Tabs : Shown(view[t])
  BY DEF IInv
<1>2. QED
  BY <1>1 DEF Shown

\* A control of the sheet, or the form, sends a write.
LEMMA Sends ==
    ASSUME IInv, NEW t \in Tabs, NEW aim, NEW patch, Send(t, aim, patch),
           UNCHANGED <<row, view, form>>,
           editing' = editing \/ editing' = [editing EXCEPT ![t] = None],
           Sound(patch, view[t].version),
           aim = None \/ Reaches(aim, view[t], Patched(view[t], patch))
    PROVE  IInv'
<1>1. PICK r \in Requests :
        req' = [req EXCEPT ![r] = [at |-> "sent", tab |-> t, aim |-> aim,
                                   expected |-> view[t].version, patch |-> patch]]
  BY DEF Send
<1> DEFINE q == [at |-> "sent", tab |-> t, aim |-> aim, expected |-> view[t].version,
                 patch |-> patch]
<1>2. view[t].version \in Nat /\ Shown(view[t])
  BY Parts
<1>3. q.at = "sent" /\ q.aim = aim /\ q.expected = view[t].version /\ q.patch = patch
        /\ IsRequest(q)
  BY <1>2 DEF IsRequest, Sound
<1> HIDE DEF q
<1>4. req' = [req EXCEPT ![r] = q]
  BY <1>1 DEF q
<1>5. OnItsWay(q)
  BY <1>2, <1>3 DEF OnItsWay, Shown
<1>6. req' = [s \in Requests |-> req'[s]]
  BY <1>4, Parts
<1>7. \A s \in Requests : IsRequest(req'[s]) /\ OnItsWay(req'[s])
  BY <1>3, <1>4, <1>5, Parts
<1>8. \A s \in Requests : OnItsWay(req[s])'
  BY <1>7 DEF OnItsWay
<1>9. \A u \in Tabs : Shown(view[u])'
  BY ShownStays
<1>10. \A u \in Tabs : OnePage(u)'
  BY Parts DEF OnePage, Filled, OnLine
<1>11. TabsTyped'
  BY Parts DEF TabsTyped, Send
<1>12. RequestsTyped'
  BY <1>6, <1>7 DEF RequestsTyped
<1>13. Whole(row)'
  BY Parts DEF Whole
<1>14. QED
  BY <1>8, <1>9, <1>10, <1>11, <1>12, <1>13, Together

\* A step that writes the row.
LEMMA Writes ==
    ASSUME IInv, Whole(row)', row'.version = row.version + 1,
           UNCHANGED <<view, editing, saving, form>>,
           \/ req' = req
           \/ \E r \in Requests : \E q : IsRequest(q) /\ q.at # "sent" /\ req' = [req EXCEPT ![r] = q]
    PROVE  IInv'
<1>1. row.version \in Nat /\ row'.version \in Nat
  BY Parts
<1>2. req' = [s \in Requests |-> req'[s]]
  BY Parts
<1>3. \A s \in Requests : IsRequest(req'[s]) /\ (req'[s] = req[s] \/ req'[s].at # "sent")
  BY Parts
<1>4. ASSUME NEW s \in Requests PROVE OnItsWay(req[s])'
  <2>1. CASE req'[s].at # "sent"
    BY <2>1 DEF OnItsWay
  <2>2. CASE req'[s].at = "sent"
    <3>1. req'[s] = req[s] /\ OnItsWay(req[s]) /\ IsRequest(req[s])
      BY <1>3, <2>2, Parts
    <3>2. req[s].expected \in Nat /\ req[s].expected <= row.version
            /\ Sound(req[s].patch, req[s].expected)
      BY <3>1, <2>2 DEF OnItsWay, IsRequest
    <3>3. req[s].expected <= row'.version /\ req[s].expected # row'.version
      BY <1>1, <3>2
    <3>4. QED
      BY <3>1, <3>2, <3>3 DEF OnItsWay
  <2>3. QED
    BY <2>1, <2>2
<1>5. ASSUME NEW t \in Tabs PROVE Shown(view[t])'
  <2>1. Shown(view[t]) /\ view[t].version \in Nat
    BY Parts
  <2>2. Whole(view[t])' /\ view[t].version <= row'.version /\ view[t].version # row'.version
    BY <1>1, <2>1 DEF Shown, Whole
  <2>3. QED
    BY <2>2 DEF Shown
<1>6. \A t \in Tabs : OnePage(t)'
  BY Parts DEF OnePage, Filled, OnLine
<1>7. TabsTyped' /\ RequestsTyped'
  BY <1>2, <1>3, Parts DEF TabsTyped, RequestsTyped
<1>8. QED
  BY <1>4, <1>5, <1>6, <1>7, Together
--------------------------------------------------------------------------------
(* The controls of the sheet.                                               *)

LEMMA GearTyped == \A i \in Items : GearOf(Catalog[i]) \in Gears /\ Catalog[i].name \in Names
<1> SUFFICES ASSUME NEW i \in Items
             PROVE  GearOf(Catalog[i]) \in Gears /\ Catalog[i].name \in Names
  OBVIOUS
<1>1. /\ Catalog[i].name \in DOMAIN Fold /\ Catalog[i].kind \in STRING
      /\ Catalog[i].ac \in Nat \cup {Unstated}
  BY GearAssumption
<1> DEFINE c == Catalog[i]
<1>2. GearOf(c) \in Gears
  <2> HIDE DEF c
  <2>1. CASE IsShield(c) /\ c.sign # "-"
    <3> DEFINE n == IF c.ac = Unstated THEN 2 ELSE c.ac
    <3>1. GearOf(c) = [type |-> "shield", ac |-> n]
      BY <2>1 DEF GearOf
    <3>2. n \in Nat
      BY <1>1 DEF c
    <3> HIDE DEF n
    <3>3. QED
      BY <3>1, <3>2 DEF Gears, Worn
  <2>2. CASE ~(IsShield(c) /\ c.sign # "-") /\ c.ac # Unstated
    <3>1. CASE c.kind \in BodyArmor
      <4>1. GearOf(c) = [type |-> c.kind, ac |-> c.ac] \/ GearOf(c) = NoGear
        BY <2>2 DEF GearOf
      <4>2. c.ac \in Nat
        BY <1>1, <2>2 DEF c
      <4>3. QED
        BY <3>1, <4>1, <4>2 DEF Gears, Worn
    <3>2. CASE c.kind \notin BodyArmor
      BY <2>2, <3>2 DEF GearOf, Gears
    <3>3. QED
      BY <3>1, <3>2
  <2>3. CASE ~(IsShield(c) /\ c.sign # "-") /\ c.ac = Unstated
    BY <2>3 DEF GearOf, Gears
  <2>4. QED
    BY <2>1, <2>2, <2>3
<1>3. QED
  BY <1>1, <1>2 DEF Names

LEMMA ViewIsWhole == ASSUME IInv, NEW t \in Tabs PROVE Whole(view[t])
  BY Parts DEF Shown

LEMMA ToggleStep ==
    ASSUME IInv, NEW t \in Tabs, NEW i \in DOMAIN view[t].inv, Toggle(t, i)
    PROVE  IInv'
<1> DEFINE e == view[t].inv[i]
           aim == [kind |-> "toggle", id |-> e.id]
           patch == WithInv(Altered(view[t].inv, i, [e EXCEPT !.equipped = ~@]))
<1>1. Send(t, aim, patch) /\ UNCHANGED <<row, view, form>> /\ editing' = editing
  BY DEF Toggle, Play, Keep, WithInv
<1>2. Sound(patch, view[t].version) /\ Reaches(aim, view[t], Patched(view[t], patch))
  BY ViewIsWhole, ToggleReaches
<1> HIDE DEF aim, patch
<1>3. QED
  BY <1>1, <1>2, Sends

LEMMA RemoveStep ==
    ASSUME IInv, NEW t \in Tabs, NEW i \in DOMAIN view[t].inv, RemoveItem(t, i)
    PROVE  IInv'
<1> DEFINE aim == [kind |-> "remove", id |-> view[t].inv[i].id]
           patch == WithInv(RemoveAt(view[t].inv, i))
<1>1. Send(t, aim, patch) /\ UNCHANGED <<row, view, form>>
        /\ editing' = [editing EXCEPT ![t] = None]
  BY DEF RemoveItem, Play, Close, WithInv
<1>2. Sound(patch, view[t].version) /\ Reaches(aim, view[t], Patched(view[t], patch))
  BY ViewIsWhole, RemoveReaches
<1> HIDE DEF aim, patch
<1>3. QED
  BY <1>1, <1>2, Sends

LEMMA EditStep ==
    ASSUME IInv, NEW t \in Tabs, NEW typed \in Typed \cup {None}, NEW n \in Quantities \cup {0},
           SaveEdit(t, typed, n)
    PROVE  IInv'
<1> DEFINE name == IF typed = None THEN editing[t].name ELSE typed
           i == editing[t].index
           aim == [kind |-> "edit", id |-> editing[t].id, name |-> name,
                   quantity |-> NoLess(n, 1)]
           patch == WithInv(Edited(view[t].inv, i, name, n))
<1>1. editing[t] # None
  BY DEF SaveEdit
<1>2. /\ i \in DOMAIN view[t].inv /\ view[t].inv[i].id = editing[t].id
      /\ editing[t] \in [index : Nat, id : Ids, name : Names]
  BY <1>1, Parts DEF OnLine
<1>3. name \in Names /\ n \in Nat
  BY <1>2, InventoryAssumption
<1>4. Send(t, aim, patch) /\ UNCHANGED <<row, view, form>>
        /\ editing' = [editing EXCEPT ![t] = None]
  BY DEF SaveEdit, Play, Close, WithInv
<1> HIDE DEF name, i
<1>5. Sound(patch, view[t].version) /\ Reaches(aim, view[t], Patched(view[t], patch))
  BY <1>2, <1>3, ViewIsWhole, EditReaches
<1> HIDE DEF aim, patch
<1>6. QED
  BY <1>4, <1>5, Sends

LEMMA AddStep ==
    ASSUME IInv, NEW t \in Tabs, NEW picked \in Items \cup {None}, NEW typed \in Typed \cup {None},
           picked \in Items \/ typed \in Typed, NEW n \in Quantities, Add(t, picked, typed, n)
    PROVE  IInv'
<1> DEFINE d == Draft(picked, typed)
           line == Line(NewId(t), d.name, d.link, d.gear, NoLess(n, 1))
           aim == [kind |-> "add", line |-> line]
           patch == WithInv(Append(view[t].inv, line))
<1>1. Whole(view[t]) /\ view[t].version \in Nat
  BY ViewIsWhole, Parts
<1>2. NewId(t) \in Ids
  BY <1>1 DEF NewId, Ids
<1>3. None \notin Typed
  BY InventoryAssumption
<1>4. d.name \in Names /\ d.link \in Items \cup {None} /\ d.gear \in Gears
  BY <1>3, GearTyped, InventoryAssumption DEF Draft, Gears
<1>5. NoLess(n, 1) \in Nat \ {0}
  BY InventoryAssumption DEF NoLess
<1> HIDE DEF d
<1>6. line \in Lines /\ line.id = <<view[t].version + 1, 1>>
  BY <1>2, <1>4, <1>5 DEF Line, Lines, NewId
<1>7. Send(t, aim, patch) /\ UNCHANGED <<row, view, form>> /\ editing' = editing
  BY DEF Add, Play, Keep, WithInv, d
<1> HIDE DEF line
<1>8. Sound(patch, view[t].version) /\ Reaches(aim, view[t], Patched(view[t], patch))
  BY <1>1, <1>6, AddReaches
<1> HIDE DEF aim, patch
<1>9. QED
  BY <1>7, <1>8, Sends

LEMMA CoinStep ==
    ASSUME IInv, NEW t \in Tabs, NEW by \in Int, AdjustCoin(t, by)
    PROVE  IInv'
<1> DEFINE aim == [kind |-> "coins", by |-> by]
           patch == WithCoins(Adjusted(view[t].coins, by))
<1>1. Send(t, aim, patch) /\ UNCHANGED <<row, view, form>> /\ editing' = editing
  BY DEF AdjustCoin, Play, Keep, WithCoins
<1>2. Sound(patch, view[t].version) /\ Reaches(aim, view[t], Patched(view[t], patch))
  BY ViewIsWhole, CoinsReach
<1> HIDE DEF aim, patch
<1>3. QED
  BY <1>1, <1>2, Sends

LEMMA AttuneStep ==
    ASSUME IInv, NEW t \in Tabs, NEW name \in Typed, Attune(t, name)
    PROVE  IInv'
<1> DEFINE aim == [kind |-> "attune", name |-> name]
           entry == [id |-> <<view[t].version + 1, 1>>, name |-> name]
           patch == WithAttuned(Append(view[t].attuned, entry))
<1>1. Send(t, aim, patch) /\ UNCHANGED <<row, view, form>> /\ editing' = editing
  BY DEF Attune, Play, Keep, WithAttuned, NewId
<1>2. name \in Names /\ Len(view[t].attuned) < Slots
  BY InventoryAssumption DEF Attune
<1>3. Sound(patch, view[t].version) /\ Reaches(aim, view[t], Patched(view[t], patch))
  BY <1>2, ViewIsWhole, AttuneReaches
<1> HIDE DEF aim, patch
<1>4. QED
  BY <1>1, <1>3, Sends

LEMMA ReleaseStep ==
    ASSUME IInv, NEW t \in Tabs, NEW i \in DOMAIN view[t].attuned, Release(t, i)
    PROVE  IInv'
<1> DEFINE aim == [kind |-> "release", id |-> view[t].attuned[i].id]
           patch == WithAttuned(RemoveAt(view[t].attuned, i))
<1>1. Send(t, aim, patch) /\ UNCHANGED <<row, view, form>> /\ editing' = editing
  BY DEF Release, Play, Keep, WithAttuned
<1>2. Sound(patch, view[t].version) /\ Reaches(aim, view[t], Patched(view[t], patch))
  BY ViewIsWhole, ReleaseReaches
<1> HIDE DEF aim, patch
<1>3. QED
  BY <1>1, <1>2, Sends
--------------------------------------------------------------------------------
(* The other steps of a tab, the server and the shop.                       *)

\* Only editors open and close, or forms are left.
LEMMA TabOnly ==
    ASSUME IInv, UNCHANGED <<row, view, req>>, saving' = saving,
           editing' \in [Tabs -> [index : Nat, id : Ids, name : Names] \cup {None}],
           form' \in [Tabs -> Rows \cup {None}],
           \A t \in Tabs : /\ form'[t] = form[t] \/ form'[t] = None
                           /\ OnLine(editing'[t], view[t].inv)
                           /\ form'[t] = None \/ editing'[t] = None
    PROVE  IInv'
<1>1. \A r \in Requests : OnItsWay(req[r])'
  BY Rests, Parts
<1>2. \A t \in Tabs : Shown(view[t])'
  BY ShownStays
<1>3. \A t \in Tabs : OnePage(t)'
  BY Parts DEF OnePage, Filled, OnLine
<1>4. Whole(row)' /\ TabsTyped' /\ RequestsTyped'
  BY Parts DEF Whole, TabsTyped, RequestsTyped
<1>5. QED
  BY <1>1, <1>2, <1>3, <1>4, Together

LEMMA EditorStep ==
    ASSUME IInv, NEW t \in Tabs,
           \/ \E i \in DOMAIN view[t].inv : StartEdit(t, i)
           \/ CancelEdit(t)
    PROVE  IInv'
<1>1. CASE CancelEdit(t)
  <2>1. editing' = [editing EXCEPT ![t] = None] /\ UNCHANGED <<row, view, saving, form, req>>
    BY <1>1 DEF CancelEdit, Close
  <2>2. editing' \in [Tabs -> [index : Nat, id : Ids, name : Names] \cup {None}]
    BY <2>1, Parts
  <2>3. \A u \in Tabs : OnLine(editing'[u], view[u].inv) /\ (form'[u] = None \/ editing'[u] = None)
    BY <2>1, Parts DEF OnLine
  <2>4. QED
    BY <2>1, <2>2, <2>3, Parts, TabOnly
<1>2. ASSUME NEW i \in DOMAIN view[t].inv, StartEdit(t, i) PROVE IInv'
  <2> DEFINE e == [index |-> i, id |-> view[t].inv[i].id, name |-> view[t].inv[i].name]
  <2>1. /\ editing' = [editing EXCEPT ![t] = e] /\ form[t] = None
        /\ UNCHANGED <<row, view, saving, form, req>>
    BY <1>2 DEF StartEdit
  <2>2. view[t].inv \in Seq(Lines)
    BY ViewIsWhole, WholeRow
  <2>3. i \in Nat /\ view[t].inv[i] \in Lines
    BY <2>2
  <2>4. e \in [index : Nat, id : Ids, name : Names] /\ OnLine(e, view[t].inv)
    BY <2>3 DEF Lines, OnLine
  <2> HIDE DEF e
  <2>5. editing' \in [Tabs -> [index : Nat, id : Ids, name : Names] \cup {None}]
    BY <2>1, <2>4, Parts
  <2>6. \A u \in Tabs : OnLine(editing'[u], view[u].inv) /\ (form'[u] = None \/ editing'[u] = None)
    BY <2>1, <2>4, Parts
  <2>7. QED
    BY <2>1, <2>5, <2>6, Parts, TabOnly
<1>3. QED
  BY <1>1, <1>2

LEMMA LeaveStep ==
    ASSUME IInv, NEW t \in Tabs, LeaveForm(t)
    PROVE  IInv'
<1>1. form' = [form EXCEPT ![t] = None] /\ UNCHANGED <<row, view, editing, saving, req>>
  BY DEF LeaveForm
<1>2. form' \in [Tabs -> Rows \cup {None}] /\ \A u \in Tabs : form'[u] = form[u] \/ form'[u] = None
  BY <1>1, Parts
<1>3. QED
  BY <1>1, <1>2, Parts, TabOnly

LEMMA RowIsShown == ASSUME IInv PROVE Shown(row)
  BY Parts DEF Shown

LEMMA RefetchStep ==
    ASSUME IInv, NEW t \in Tabs, Refetch(t)
    PROVE  IInv'
<1>1. /\ view' = [view EXCEPT ![t] = row] /\ editing' = [editing EXCEPT ![t] = EditorAfter(t, row)]
      /\ UNCHANGED <<row, saving, form, req>> /\ view[t] # row
  BY DEF Refetch
<1>2. Shown(view[t]) /\ view[t].version \in Nat /\ row.version \in Nat
  BY Parts
<1>3. EditorAfter(t, row) = None /\ view[t].version <= row.version
  BY <1>1, <1>2 DEF EditorAfter, Shown
<1>4. Whole(row) /\ row \in Rows
  BY Parts, WholeRow
<1>5. \A u \in Tabs : Shown(view'[u])
  BY <1>1, RowIsShown, Parts
<1>6. \A u \in Tabs : Shown(view[u])'
  BY <1>1, <1>5 DEF Shown
<1>7. \A u \in Tabs : OnLine(editing'[u], view'[u].inv) /\ (form'[u] = None \/ editing'[u] = None)
  BY <1>1, <1>3, Parts DEF OnLine
<1>8. ASSUME NEW u \in Tabs PROVE Filled(form'[u], view'[u].version)
  <2>1. CASE u # t
    BY <2>1, <1>1, Parts DEF Filled
  <2>2. CASE u = t /\ form[t] # None
    <3>1. Filled(form[t], view[t].version)
      BY Parts
    <3>2. Whole(form[t]) /\ form[t].version <= view[t].version /\ form[t].version \in Nat
      BY <2>2, <3>1, WholeRow DEF Filled
    <3>3. form[t].version <= row.version /\ view'[t] = row
      BY <1>1, <1>2, <1>3, <3>2, Parts
    <3>4. QED
      BY <2>2, <3>2, <3>3, <1>1 DEF Filled
  <2>3. CASE u = t /\ form[t] = None
    BY <2>3, <1>1 DEF Filled
  <2>4. QED
    BY <2>1, <2>2, <2>3
<1>9. \A r \in Requests : OnItsWay(req[r])'
  BY <1>1, Rests, Parts
<1>10. Whole(row)' /\ TabsTyped' /\ RequestsTyped'
  BY <1>1, <1>3, <1>4, Parts DEF Whole, TabsTyped, RequestsTyped
<1>11. \A u \in Tabs : OnePage(u)'
  BY <1>7, <1>8 DEF OnePage
<1>12. QED
  BY <1>6, <1>9, <1>10, <1>11, Together

LEMMA OpenStep ==
    ASSUME IInv, NEW t \in Tabs, OpenForm(t)
    PROVE  IInv'
<1> DEFINE rest(r) == IF req[r].tab # t THEN req[r]
                      ELSE IF r \in Pending THEN [req[r] EXCEPT !.tab = None]
                      ELSE Idle
<1>1. /\ form' = [form EXCEPT ![t] = view[t]] /\ editing' = [editing EXCEPT ![t] = None]
      /\ saving' = [saving EXCEPT ![t] = FALSE] /\ req' = [r \in Requests |-> rest(r)]
      /\ row' = row /\ view' = view
  BY DEF OpenForm, Close
<1>2. ASSUME NEW r \in Requests
      PROVE  /\ IsRequest(rest(r))
             /\ \/ rest(r).at # "sent"
                \/ /\ req[r].at = "sent" /\ rest(r).aim = req[r].aim
                   /\ rest(r).expected = req[r].expected /\ rest(r).patch = req[r].patch
  <2>1. IsRequest(req[r])
    BY Parts
  <2>2. CASE req[r].tab # t
    BY <2>1, <2>2
  <2>3. CASE req[r].tab = t /\ r \in Pending
    <3>1. rest(r) = [at |-> req[r].at, tab |-> None, aim |-> req[r].aim,
                     expected |-> req[r].expected, patch |-> req[r].patch]
      BY <2>1, <2>3 DEF IsRequest
    <3>2. req[r].at = "sent"
      BY <2>3 DEF Pending
    <3> HIDE DEF rest
    <3>3. QED
      BY <2>1, <3>1, <3>2 DEF IsRequest
  <2>4. CASE req[r].tab = t /\ r \notin Pending
    <3>1. Idle.at # "sent"
      BY DEF Idle
    <3>2. QED
      BY <2>4, <3>1, IdleIsRequest
  <2>5. QED
    BY <2>2, <2>3, <2>4
<1> HIDE DEF rest
<1>3. req' = [r \in Requests |-> req'[r]] /\ \A r \in Requests : req'[r] = rest(r)
  BY <1>1
<1>4. \A r \in Requests : OnItsWay(req[r])'
  BY <1>1, <1>2, <1>3, Rests
<1>5. \A u \in Tabs : Shown(view[u])'
  BY <1>1, ShownStays
<1>6. Whole(view[t]) /\ view[t] \in Rows
  BY ViewIsWhole, WholeRow
<1>7. \A u \in Tabs : OnePage(u)'
  <2>1. view[t].version \in Nat
    BY Parts
  <2>2. ASSUME NEW u \in Tabs
        PROVE  /\ Filled(form'[u], view'[u].version) /\ OnLine(editing'[u], view'[u].inv)
               /\ form'[u] = None \/ editing'[u] = None
    BY <1>1, <1>6, <2>1, Parts DEF Filled, OnLine
  <2>3. QED
    BY <2>2 DEF OnePage
<1>8. Whole(row)' /\ TabsTyped'
  BY <1>1, <1>6, Parts DEF Whole, TabsTyped
<1>9. RequestsTyped'
  BY <1>2, <1>3 DEF RequestsTyped
<1>10. QED
  BY <1>4, <1>5, <1>7, <1>8, <1>9, Together

LEMMA SubmitStep ==
    ASSUME IInv, NEW t \in Tabs, SubmitForm(t)
    PROVE  IInv'
<1> DEFINE f == form[t]
           patch == [NothingSent EXCEPT !.inv = f.inv, !.coins = f.coins]
<1>1. f # None /\ Send(t, None, patch) /\ UNCHANGED <<row, view, editing, form>>
  BY DEF SubmitForm
<1>2. /\ Whole(f) /\ f.version <= view[t].version /\ view[t].version \in Nat
      /\ f.version \in Nat /\ f.inv \in Seq(Lines) /\ f.coins \in Nat
  BY <1>1, Parts, WholeRow DEF Filled
<1>3. f.version <= view[t].version + 1 /\ view[t].version + 1 \in Nat
  BY <1>2
<1>4. Distinct(f.inv) /\ Aged(f.inv, view[t].version + 1)
  BY <1>2, <1>3, Older DEF Whole
<1>5. patch = [inv |-> f.inv, coins |-> f.coins, attuned |-> None]
  <2> DEFINE packed == [NothingSent EXCEPT !.inv = f.inv]
  <2>1. packed = [inv |-> f.inv, coins |-> None, attuned |-> None]
    BY DEF NothingSent
  <2>2. patch = [packed EXCEPT !.coins = f.coins]
    OBVIOUS
  <2> HIDE DEF packed, patch
  <2>3. QED
    BY <2>1, <2>2
<1> HIDE DEF f, patch
<1>6. patch \in Patches /\ patch.inv = f.inv /\ patch.attuned = None
  BY <1>2, <1>5 DEF Patches
<1>7. Sound(patch, view[t].version)
  BY <1>4, <1>6 DEF Sound
<1>8. QED
  BY <1>1, <1>7, Sends

\* A tab hears of its request, or gives it up.
LEMMA AnswerStep ==
    ASSUME IInv, NEW r \in Requests, NEW fetched \in BOOLEAN, Answer(r, fetched)
    PROVE  IInv'
<1> DEFINE t == req[r].tab
           edit == form[t] # None
           again == edit /\ req[r].at = "conflict" /\ fetched
<1>1. /\ saving' = [saving EXCEPT ![t] = FALSE] /\ req' = [req EXCEPT ![r] = Idle]
      /\ view' = IF again THEN [view EXCEPT ![t] = row] ELSE view
      /\ form' = IF again THEN [form EXCEPT ![t] = row]
                 ELSE IF edit /\ req[r].at = "saved" THEN [form EXCEPT ![t] = None]
                 ELSE form
      /\ row' = row /\ editing' = editing
  BY DEF Answer
<1> HIDE DEF t
<1>2. Idle.at # "sent" /\ IsRequest(Idle)
  BY IdleIsRequest DEF Idle
<1>3. /\ req' = [s \in Requests |-> req'[s]]
      /\ \A s \in Requests : /\ IsRequest(req'[s])
                             /\ req'[s] = req[s] \/ req'[s].at # "sent"
  BY <1>1, <1>2, Parts
<1>4. \A s \in Requests : OnItsWay(req[s])'
  BY <1>1, <1>3, Rests
<1>5. \A u \in Tabs : view'[u] = view[u] \/ (view'[u] = row /\ u = t /\ again)
  BY <1>1, Parts
<1>6. \A u \in Tabs : Shown(view'[u])
  BY <1>5, RowIsShown, Parts
<1>7. \A u \in Tabs : Shown(view[u])'
  BY <1>1, <1>6 DEF Shown
<1>8. \A u \in Tabs : form'[u] = form[u] \/ form'[u] = None \/ (form'[u] = row /\ u = t /\ again)
  BY <1>1, Parts
<1>9. \A u \in Tabs : u = t /\ again => view'[u] = row /\ form'[u] = row /\ editing[u] = None
  BY <1>1, Parts
<1>10. Whole(row) /\ row \in Rows /\ row.version \in Nat
  BY Parts, WholeRow
<1> HIDE DEF again
<1>11. \A u \in Tabs : ~(u = t /\ again) => view'[u] = view[u] /\ (form'[u] = form[u] \/ form'[u] = None)
  BY <1>5, <1>8
<1>12. ASSUME NEW u \in Tabs
       PROVE  /\ Filled(form'[u], view'[u].version) /\ OnLine(editing'[u], view'[u].inv)
              /\ form'[u] = None \/ editing'[u] = None
  <2>1. CASE u = t /\ again
    BY <2>1, <1>1, <1>9, <1>10 DEF Filled, OnLine
  <2>2. CASE ~(u = t /\ again)
    BY <2>2, <1>1, <1>11, Parts DEF Filled, OnLine
  <2>3. QED
    BY <2>1, <2>2
<1>13. view' \in [Tabs -> Rows] /\ form' \in [Tabs -> Rows \cup {None}]
  BY <1>1, <1>10, Parts
<1>14. Whole(row)' /\ TabsTyped' /\ RequestsTyped'
  BY <1>1, <1>3, <1>10, <1>13, Parts DEF Whole, TabsTyped, RequestsTyped
<1>15. \A u \in Tabs : OnePage(u)'
  BY <1>12 DEF OnePage
<1>16. QED
  BY <1>4, <1>7, <1>14, <1>15, Together

LEMMA GiveUpStep ==
    ASSUME IInv, NEW r \in Requests, LoseAnswer(r) \/ Forget(r)
    PROVE  IInv'
<1>1. /\ UNCHANGED <<row, view, editing, form>> /\ saving' \in [Tabs -> BOOLEAN]
      /\ \/ req' = [req EXCEPT ![r] = Idle]
         \/ req[r].at = "sent" /\ req' = [req EXCEPT ![r] = [req[r] EXCEPT !.tab = None]]
  BY Parts DEF LoseAnswer, Forget, Pending
<1>2. Idle.at # "sent" /\ IsRequest(Idle)
  BY IdleIsRequest DEF Idle
<1> DEFINE left == [req[r] EXCEPT !.tab = None]
<1>3. left = [at |-> req[r].at, tab |-> None, aim |-> req[r].aim, expected |-> req[r].expected,
              patch |-> req[r].patch]
  BY Parts DEF IsRequest
<1>4. IsRequest(req[r])
  BY Parts
<1> HIDE DEF left
<1>5. IsRequest(left) /\ left.aim = req[r].aim /\ left.expected = req[r].expected
        /\ left.patch = req[r].patch
  BY <1>3, <1>4 DEF IsRequest
<1>6. /\ req' = [s \in Requests |-> req'[s]]
      /\ \A s \in Requests : IsRequest(req'[s])
      /\ \A s \in Requests :
           \/ req'[s].at # "sent"
           \/ /\ req[s].at = "sent" /\ req'[s].aim = req[s].aim
              /\ req'[s].expected = req[s].expected /\ req'[s].patch = req[s].patch
  <2>1. CASE req' = [req EXCEPT ![r] = Idle]
    BY <2>1, <1>2, Parts
  <2>2. CASE req[r].at = "sent" /\ req' = [req EXCEPT ![r] = left]
    BY <2>2, <1>5, Parts
  <2>3. QED
    BY <1>1, <2>1, <2>2 DEF left
<1>7. \A s \in Requests : OnItsWay(req[s])'
  BY <1>1, <1>6, Rests
<1>8. \A u \in Tabs : Shown(view[u])'
  BY <1>1, ShownStays
<1>9. \A u \in Tabs : OnePage(u)'
  BY <1>1, Parts DEF OnePage, Filled, OnLine
<1>10. Whole(row)' /\ TabsTyped' /\ RequestsTyped'
  BY <1>1, <1>6, Parts DEF Whole, TabsTyped, RequestsTyped
<1>11. QED
  BY <1>7, <1>8, <1>9, <1>10, Together

LEMMA PatchedWhole ==
    ASSUME NEW s, Whole(s), NEW patch, Sound(patch, s.version)
    PROVE  Whole(Patched(s, patch)) /\ Patched(s, patch).version = s.version + 1
<1> DEFINE t == Patched(s, patch)
           inv == IF patch.inv = None THEN s.inv ELSE patch.inv
           coins == IF patch.coins = None THEN s.coins ELSE patch.coins
           attuned == IF patch.attuned = None THEN s.attuned ELSE patch.attuned
<1>1. t = [version |-> s.version + 1, inv |-> inv, coins |-> coins, attuned |-> attuned]
  BY DEF Patched
<1>2. /\ s.version \in Nat /\ s.version + 1 \in Nat /\ s.inv \in Seq(Lines) /\ s.coins \in Nat
      /\ s.attuned \in Seq([id : Ids, name : Names])
  BY WholeRow
<1>3. patch \in Patches
  BY DEF Sound
<1>4. inv \in Seq(Lines)
  BY <1>2, <1>3 DEF Patches
<1>5. coins \in Nat /\ attuned \in Seq([id : Ids, name : Names])
  BY <1>2, <1>3 DEF Patches
<1>6. Aged(s.inv, s.version + 1)
  BY <1>2, Older DEF Whole
<1>7. Distinct(inv) /\ Aged(inv, s.version + 1) /\ Len(attuned) <= Slots
  BY <1>6 DEF Sound, Whole
<1> HIDE DEF t, inv, coins, attuned
<1>8. Whole(t) /\ t.version = s.version + 1
  BY <1>1, <1>2, <1>4, <1>5, <1>7 DEF Whole, Rows
<1>9. QED
  BY <1>8 DEF t

LEMMA WriteStep ==
    ASSUME IInv, NEW r \in Requests, Write(r)
    PROVE  IInv'
<1>1. /\ req[r].at = "sent" /\ IsRequest(req[r]) /\ OnItsWay(req[r]) /\ Whole(row)
      /\ UNCHANGED <<view, editing, saving, form>>
  BY Parts DEF Write
<1>2. CASE Guard(r)
  <2>1. row' = Patched(row, req[r].patch) /\ req' = [req EXCEPT ![r] = Done(r, "saved")]
    BY <1>2 DEF Write
  <2>2. Sound(req[r].patch, row.version)
    BY <1>1, <1>2 DEF OnItsWay, Guard
  <2>3. Whole(Patched(row, req[r].patch)) /\ Patched(row, req[r].patch).version = row.version + 1
    BY <1>1, <2>2, PatchedWhole
  <2>4. Whole(row)' /\ row'.version = row.version + 1
    BY <2>1, <2>3 DEF Whole
  <2>5. IsRequest(Done(r, "saved")) /\ Done(r, "saved").at # "sent"
    BY <1>1, DoneIsRequest
  <2>6. QED
    BY <1>1, <2>1, <2>4, <2>5, Writes
<1>3. CASE ~Guard(r)
  <2>1. row' = row /\ req' = [req EXCEPT ![r] = Done(r, "conflict")]
    BY <1>3 DEF Write
  <2>2. IsRequest(Done(r, "conflict")) /\ Done(r, "conflict").at # "sent"
    BY <1>1, DoneIsRequest
  <2>3. /\ req' = [s \in Requests |-> req'[s]]
        /\ \A s \in Requests : IsRequest(req'[s]) /\ (req'[s] = req[s] \/ req'[s].at # "sent")
    BY <2>1, <2>2, Parts
  <2>4. \A s \in Requests : OnItsWay(req[s])'
    BY <2>1, <2>3, Rests
  <2>5. \A u \in Tabs : Shown(view[u])'
    BY <1>1, <2>1, ShownStays
  <2>6. \A u \in Tabs : OnePage(u)'
    BY <1>1, Parts DEF OnePage, Filled, OnLine
  <2>7. Whole(row)' /\ TabsTyped' /\ RequestsTyped'
    BY <1>1, <2>1, <2>3, Parts DEF Whole, TabsTyped, RequestsTyped
  <2>8. QED
    BY <2>4, <2>5, <2>6, <2>7, Together
<1>4. QED
  BY <1>2, <1>3

\* Goods that are merged into a line leave the ids as they are.
LEMMA MergedSound ==
    ASSUME NEW list \in Seq(Lines), NEW e \in Lines, NEW v \in Nat, e.id = <<v + 1, 1>>,
           Distinct(list), Aged(list, v)
    PROVE  /\ Merged(list, e) \in Seq(Lines)
           /\ Distinct(Merged(list, e)) /\ Aged(Merged(list, e), v + 1)
<1> DEFINE same == {i \in DOMAIN list : e.link # None /\ list[i].link = e.link}
           first == CHOOSE i \in same : \A j \in same : i <= j
           more == [list EXCEPT ![first].quantity = @ + e.quantity]
<1>1. Merged(list, e) = IF same = {} THEN Append(list, e) ELSE more
  BY DEF Merged
<1> HIDE DEF same, first
<1>2. CASE first \in DOMAIN list
  <2> DEFINE line == [list[first] EXCEPT !.quantity = @ + e.quantity]
  <2>1. list[first] \in Lines
    BY <1>2
  <2>2. line \in Lines /\ line.id = list[first].id
    <3> DEFINE sum == list[first].quantity + e.quantity
    <3>1. sum \in Nat \ {0}
      BY <2>1 DEF Lines
    <3>2. line = [list[first] EXCEPT !.quantity = sum]
      BY <2>1 DEF Lines
    <3> HIDE DEF sum
    <3>3. QED
      BY <2>1, <3>1, <3>2 DEF Lines
  <2>3. more = Altered(list, first, line)
    BY <1>2 DEF Altered
  <2> HIDE DEF line, more
  <2>4. more \in Seq(Lines) /\ Distinct(more) /\ Aged(more, v)
    BY <1>2, <2>2, <2>3, AlteredSound
  <2>5. Aged(more, v + 1)
    BY <2>4, Older
  <2>6. QED
    BY <1>1, <2>4, <2>5, AppendedSound
<1>3. CASE first \notin DOMAIN list
  <2>1. more = list
    BY <1>3
  <2> HIDE DEF more
  <2>2. QED
    BY <1>1, <2>1, Older, AppendedSound
<1>4. QED
  BY <1>2, <1>3

LEMMA BuyStep ==
    ASSUME IInv, NEW ware \in Wares, Buy(ware)
    PROVE  IInv'
<1> DEFINE bought == Line(<<row.version + 1, 1>>, ware.name, ware.link, NoGear, 1)
           inv == Merged(row.inv, bought)
<1>1. /\ row' = [row EXCEPT !.version = @ + 1, !.coins = @ - 1, !.inv = inv] /\ row.coins > 0
      /\ UNCHANGED <<view, editing, saving, form, req>>
  BY DEF Buy
<1>2. /\ Whole(row) /\ row \in Rows /\ row.version \in Nat /\ row.inv \in Seq(Lines)
      /\ row.coins \in Nat /\ row.attuned \in Seq([id : Ids, name : Names])
  BY Parts, WholeRow
<1>3. ware.name \in Names /\ ware.link \in Items \cup {None}
  BY InventoryAssumption
<1>4. bought \in Lines /\ bought.id = <<row.version + 1, 1>>
  BY <1>2, <1>3 DEF Line, Lines, Ids, Gears
<1> HIDE DEF bought
<1>5. inv \in Seq(Lines) /\ Distinct(inv) /\ Aged(inv, row.version + 1)
  BY <1>2, <1>4, MergedSound DEF Whole
<1> HIDE DEF inv
<1>6. row' = [version |-> row.version + 1, inv |-> inv, coins |-> row.coins - 1,
              attuned |-> row.attuned]
  <2> DEFINE counted == [row EXCEPT !.version = @ + 1]
             paid == [counted EXCEPT !.coins = @ - 1]
  <2>1. row = [version |-> row.version, inv |-> row.inv, coins |-> row.coins,
               attuned |-> row.attuned]
    BY <1>2 DEF Rows
  <2>2. counted = [version |-> row.version + 1, inv |-> row.inv, coins |-> row.coins,
                   attuned |-> row.attuned]
    BY <2>1
  <2>3. row' = [paid EXCEPT !.inv = inv]
    BY <1>1
  <2> HIDE DEF counted
  <2>4. paid = [version |-> row.version + 1, inv |-> row.inv, coins |-> row.coins - 1,
                attuned |-> row.attuned]
    BY <2>2
  <2> HIDE DEF paid
  <2>5. QED
    BY <2>3, <2>4
<1>7. row' \in Rows /\ row'.version = row.version + 1 /\ row'.inv = inv
        /\ row'.attuned = row.attuned
  <2>1. row.coins - 1 \in Nat /\ row.version + 1 \in Nat
    BY <1>1, <1>2
  <2>2. QED
    BY <1>2, <1>5, <1>6, <2>1 DEF Rows
<1>8. Whole(row)'
  BY <1>2, <1>5, <1>7 DEF Whole
<1>9. QED
  BY <1>1, <1>7, <1>8, Writes
--------------------------------------------------------------------------------
(* The beginning.                                                            *)

\* A line that finds its catalog row keeps its id.
LEMMA Resolved ==
    ASSUME NEW line \in Lines
    PROVE  Resolve(line) \in Lines /\ Resolve(line).id = line.id
<1>1. CASE Cardinality(Denoted(line.name)) # 1
  BY <1>1 DEF Resolve
<1>2. CASE Cardinality(Denoted(line.name)) = 1
  <2> DEFINE i == CHOOSE i \in Denoted(line.name) : TRUE
             linked == [line EXCEPT !.link = i]
  <2>1. Denoted(line.name) # {}
    BY <1>2, FS_EmptySet
  <2>2. i \in Items
    BY <2>1 DEF Denoted
  <2>3. Resolve(line) = [linked EXCEPT !.gear = GearOf(Catalog[i])]
    BY <1>2 DEF Resolve
  <2> HIDE DEF i
  <2>4. linked \in Lines /\ linked.id = line.id
    BY <2>2 DEF Lines
  <2>5. GearOf(Catalog[i]) \in Gears
    BY <2>2, GearTyped
  <2> HIDE DEF linked
  <2>6. QED
    BY <2>3, <2>4, <2>5 DEF Lines
<1>3. QED
  BY <1>1, <1>2

LEMMA Dressed ==
    ASSUME NEW list \in Seq(Lines)
    PROVE  /\ AutoEquip(list) \in Seq(Lines) /\ DOMAIN AutoEquip(list) = DOMAIN list
           /\ \A i \in DOMAIN list : AutoEquip(list)[i].id = list[i].id
<1> DEFINE bodies == {i \in DOMAIN list : list[i].gear # NoGear /\ list[i].gear.type \in BodyArmor}
           shields == {i \in DOMAIN list : list[i].gear # NoGear /\ list[i].gear.type = "shield"}
           Base(i) == list[i].gear.ac
           worn == {i \in bodies : \A j \in bodies : Base(j) < Base(i) \/ (Base(j) = Base(i) /\ i <= j)}
                     \cup {i \in shields : \A j \in shields : i <= j}
<1>1. AutoEquip(list) = [i \in DOMAIN list |->
                           IF i \in worn THEN [list[i] EXCEPT !.equipped = TRUE] ELSE list[i]]
  BY DEF AutoEquip
<1> HIDE DEF worn
<1>2. \A i \in DOMAIN list : list[i] \in Lines
  OBVIOUS
<1>3. \A e \in Lines : [e EXCEPT !.equipped = TRUE] \in Lines /\ [e EXCEPT !.equipped = TRUE].id = e.id
  BY DEF Lines
<1>4. \A i \in DOMAIN list : AutoEquip(list)[i] \in Lines /\ AutoEquip(list)[i].id = list[i].id
  BY <1>1, <1>2, <1>3
<1>5. DOMAIN list = 1..Len(list) /\ Len(list) \in Nat
  OBVIOUS
<1>6. AutoEquip(list) = [i \in 1..Len(list) |-> AutoEquip(list)[i]]
  BY <1>1, <1>5
<1>7. QED
  BY <1>4, <1>5, <1>6

LEMMA Created ==
    ASSUME NEW kit \in Kits, NEW seeded \in BOOLEAN, NEW wear \in BOOLEAN
    PROVE  LET inv == Create(kit, seeded, wear)
           IN  inv \in Seq(Lines) /\ Distinct(inv) /\ Aged(inv, 0)
<1> DEFINE bare == [i \in DOMAIN kit |-> Line(<<0, i>>, kit[i], None, NoGear, 1)]
           found == [i \in DOMAIN kit |-> IF seeded THEN Resolve(bare[i]) ELSE bare[i]]
           inv == Create(kit, seeded, wear)
<1>1. kit \in Seq(Names)
  BY InventoryAssumption
<1>2. DOMAIN kit = 1..Len(kit) /\ Len(kit) \in Nat /\ \A i \in DOMAIN kit : kit[i] \in Names /\ i \in Nat
  BY <1>1
<1>3. \A i \in DOMAIN kit : bare[i] \in Lines /\ bare[i].id = <<0, i>>
  BY <1>2 DEF Line, Lines, Ids, Gears
<1>4. inv = IF wear THEN AutoEquip(found) ELSE found
  BY DEF Create
<1> HIDE DEF bare
<1>5. \A i \in DOMAIN kit : found[i] \in Lines /\ found[i].id = <<0, i>>
  BY <1>3, Resolved
<1>6. found = [i \in 1..Len(kit) |-> found[i]]
  BY <1>2
<1>7. DOMAIN found = DOMAIN kit
  OBVIOUS
<1> HIDE DEF found
<1>8. found \in Seq(Lines)
  BY <1>2, <1>5, <1>6
<1> HIDE DEF inv
<1>9. inv \in Seq(Lines) /\ DOMAIN inv = DOMAIN kit /\ \A i \in DOMAIN kit : inv[i].id = <<0, i>>
  BY <1>4, <1>5, <1>7, <1>8, Dressed
<1>10. Distinct(inv) /\ Aged(inv, 0)
  BY <1>9 DEF Distinct, Aged
<1>11. QED
  BY <1>9, <1>10 DEF inv

LEMMA InitInv == Init => IInv
<1> SUFFICES ASSUME Init PROVE IInv
  OBVIOUS
<1>1. PICK kit \in Kits, seeded \in BOOLEAN, wear \in BOOLEAN, coins \in Purses :
        row = [version |-> 0, inv |-> Create(kit, seeded, wear), coins |-> coins, attuned |-> <<>>]
  BY DEF Init
<1> DEFINE inv == Create(kit, seeded, wear)
<1>2. inv \in Seq(Lines) /\ Distinct(inv) /\ Aged(inv, 0)
  BY Created
<1> HIDE DEF inv
<1>3. row = [version |-> 0, inv |-> inv, coins |-> coins, attuned |-> <<>>]
  BY <1>1 DEF inv
<1>4. coins \in Nat /\ <<>> \in Seq([id : Ids, name : Names]) /\ Len(<<>>) <= Slots
  BY InventoryAssumption
<1>5. Whole(row) /\ row \in Rows /\ row.version \in Nat
  BY <1>2, <1>3, <1>4 DEF Whole, Rows
<1>6. \A t \in Tabs : view[t] = row /\ editing[t] = None /\ form[t] = None
  BY DEF Init
<1>7. \A t \in Tabs : Shown(view[t]) /\ OnePage(t)
  BY <1>5, <1>6 DEF Shown, OnePage, Filled, OnLine
<1>8. TabsTyped
  BY <1>5 DEF Init, TabsTyped
<1>9. \A r \in Requests : req[r] = Idle
  BY DEF Init
<1>10. req = [r \in Requests |-> req[r]]
  BY DEF Init
<1>11. Idle.at # "sent"
  BY DEF Idle
<1>12. \A r \in Requests : IsRequest(req[r]) /\ OnItsWay(req[r])
  BY <1>9, <1>11, IdleIsRequest DEF OnItsWay
<1>13. TypeOK
  BY <1>5, <1>8, <1>10, <1>12 DEF TypeOK, TabsTyped, Whole
<1>14. QED
  BY <1>5, <1>7, <1>12, <1>13 DEF IInv
--------------------------------------------------------------------------------
(* The theorems.                                                             *)

LEMMA StepInv == IInv /\ [Next]_vars => IInv'
<1> SUFFICES ASSUME IInv, [Next]_vars PROVE IInv'
  OBVIOUS
<1>1. CASE UNCHANGED vars
  <2>1. /\ row' = row /\ view' = view /\ editing' = editing /\ saving' = saving
        /\ form' = form /\ req' = req
    BY <1>1 DEF vars
  <2>2. /\ editing' \in [Tabs -> [index : Nat, id : Ids, name : Names] \cup {None}]
        /\ form' \in [Tabs -> Rows \cup {None}]
    BY <2>1, Parts
  <2>3. ASSUME NEW t \in Tabs
        PROVE  /\ form'[t] = form[t] \/ form'[t] = None
               /\ OnLine(editing'[t], view[t].inv)
               /\ form'[t] = None \/ editing'[t] = None
    BY <2>1, Parts
  <2>4. QED
    BY <2>1, <2>2, <2>3, TabOnly
<1>2. CASE \E t \in Tabs, i \in Nat :
             /\ i \in DOMAIN view[t].inv
             /\ Toggle(t, i) \/ RemoveItem(t, i) \/ StartEdit(t, i)
  BY <1>2, ToggleStep, RemoveStep, EditorStep
<1>3. CASE \E t \in Tabs : \/ CancelEdit(t)
                           \/ \E name \in Typed \cup {None}, q \in Quantities \cup {0} : SaveEdit(t, name, q)
  BY <1>3, EditorStep, EditStep
<1>4. CASE \E t \in Tabs : \/ \E name \in Typed, q \in Quantities : Add(t, None, name, q)
                           \/ \E item \in Items, q \in Quantities : Add(t, item, None, q)
  BY <1>4, AddStep
<1>5. CASE \E t \in Tabs : \/ \E by \in {1, -2} : AdjustCoin(t, by)
                           \/ \E name \in Typed : Attune(t, name)
                           \/ \E i \in DOMAIN view[t].attuned : Release(t, i)
  BY <1>5, CoinStep, AttuneStep, ReleaseStep
<1>6. CASE \E t \in Tabs : Refetch(t) \/ OpenForm(t) \/ SubmitForm(t) \/ LeaveForm(t)
  BY <1>6, RefetchStep, OpenStep, SubmitStep, LeaveStep
<1>7. CASE \E ware \in Wares : Buy(ware)
  BY <1>7, BuyStep
<1>8. CASE \E r \in Requests : \/ Write(r) \/ LoseAnswer(r) \/ Forget(r)
                               \/ \E fetched \in BOOLEAN : Answer(r, fetched)
  BY <1>8, WriteStep, GiveUpStep, AnswerStep
<1>9. ASSUME NEW t \in Tabs, NEW i \in DOMAIN view[t].inv PROVE i \in Nat
  BY ViewIsWhole, WholeRow
<1>10. QED
  BY <1>1, <1>2, <1>3, <1>4, <1>5, <1>6, <1>7, <1>8, <1>9 DEF Next

LEMMA Invariant == Spec => []IInv
  BY InitInv, StepInv, PTL DEF Spec

\* Every variable keeps its type: no line of quantity 0, no debts, no two lines
\* in one place, and no more attuned items than slots.
THEOREM TypeCorrect == Spec => []TypeOK
<1>1. IInv => TypeOK
  BY DEF IInv
<1>2. QED
  BY <1>1, Invariant, PTL

\* A write that succeeds does what the player aimed at on the page, to the row
\* as it is then.
THEOREM WriteReachesItsItemHolds == Spec => WriteReachesItsItem
<1> DEFINE Aimed == \A r \in Requests : Commits(r) /\ req[r].aim # None => Reaches(req[r].aim, row, row')
<1>1. ASSUME IInv, [Next]_vars PROVE Aimed
  <2> SUFFICES ASSUME NEW r \in Requests, Commits(r), req[r].aim # None
               PROVE  Reaches(req[r].aim, row, row')
    OBVIOUS
  <2>1. req[r].at = "sent" /\ req'[r] # req[r] /\ row' # row
    BY DEF Commits
  <2>2. PICK s \in Requests : Write(s)
    BY <1>1, <2>1 DEF Next, vars, Toggle, RemoveItem, StartEdit, CancelEdit, SaveEdit, Add,
         AdjustCoin, Attune, Release, Play, Refetch, OpenForm, SubmitForm, LeaveForm, Buy,
         LoseAnswer, Forget, Answer
  <2>3. Guard(s) /\ row' = Patched(row, req[s].patch) /\ s = r
    BY <1>1, <2>1, <2>2, Parts DEF Write
  <2>4. OnItsWay(req[r]) /\ req[r].expected = row.version
    BY <1>1, <2>3, Parts DEF Guard
  <2>5. QED
    BY <2>1, <2>3, <2>4 DEF OnItsWay
<1>2. QED
  BY <1>1, Invariant, PTL DEF Spec, WriteReachesItsItem
--------------------------------------------------------------------------------
(* The loops of the armor class. A loop over a list is a function on how far *)
(* it has got, and what it has found by then is shown for the first place at *)
(* which it would fail.                                                      *)

LEMMA Least ==
    ASSUME NEW T, T \subseteq Nat, T # {}
    PROVE  \E m \in T : \A n \in T : m <= n
<1>1. PICK m \in T : \A n \in T : ~(<<n, m>> \in OpToRel(<, Nat))
  BY NatLessThanWellFounded, WFMin
<1>2. \A n \in T : ~(n < m)
  BY <1>1 DEF OpToRel
<1> QED
  BY <1>2

\* A set of places that has 0 and with each place the next has them all.
LEMMA EveryPlace ==
    ASSUME NEW n \in Nat, NEW G \in SUBSET (0..n), 0 \in G,
           \A k \in 1..n : k - 1 \in G => k \in G
    PROVE  G = 0..n
<1> DEFINE B == (0..n) \ G
<1> SUFFICES ASSUME B # {} PROVE FALSE
  OBVIOUS
<1>1. PICK m \in B : \A j \in B : m <= j
  <2>1. B \subseteq Nat
    OBVIOUS
  <2> HIDE DEF B
  <2> QED
    BY <2>1, Least
<1>2. m \in 1..n /\ m - 1 \in 0..n
  BY <1>1
<1>3. m - 1 \notin B
  <2> HIDE DEF B
  <2> QED
    BY <1>1, <1>2
<1> QED
  BY <1>1, <1>2, <1>3

\* A loop from base by step, as far as place n.
Loop(g, base, step, n) == g[0] = base /\ \A k \in 1..n : g[k] = step[<<k, g[k - 1]>>]

LEMMA LoopRuns ==
    ASSUME NEW n \in Nat, NEW S, NEW base \in S, NEW step \in [(1..n) \X S -> S]
    PROVE  \E g \in [0..n -> S] : Loop(g, base, step, n)
<1> DEFINE Run(g, m) == Loop(g, base, step, m)
           G == {m \in 0..n : \E g \in [0..m -> S] : Run(g, m)}
<1>1. 0 \in G
  <2> DEFINE g == [k \in 0..0 |-> base]
  <2>1. g \in [0..0 -> S] /\ Run(g, 0) /\ 0 \in 0..n
    BY DEF Loop
  <2> HIDE DEF g, Run
  <2> QED
    BY <2>1
<1>2. ASSUME NEW k \in 1..n, k - 1 \in G PROVE k \in G
  <2>1. PICK h \in [0..(k - 1) -> S] : Run(h, k - 1)
    BY <1>2
  <2> DEFINE last == step[<<k, h[k - 1]>>]
             g == [j \in 0..k |-> IF j = k THEN last ELSE h[j]]
  <2>2. last \in S
    BY <2>1
  <2> HIDE DEF last
  <2>3. g \in [0..k -> S] /\ \A j \in 0..(k - 1) : g[j] = h[j]
    BY <2>2
  <2>4. Run(g, k)
    <3>1. g[0] = base
      BY <2>1, <2>3 DEF Loop
    <3>2. ASSUME NEW j \in 1..k PROVE g[j] = step[<<j, g[j - 1]>>]
      <4>0. j - 1 \in 0..(k - 1)
        OBVIOUS
      <4>1. g[j - 1] = h[j - 1]
        BY <2>3, <4>0
      <4>2. CASE j = k
        <5>1. g[k] = last /\ h[k - 1] = g[k - 1]
          BY <2>2, <4>1, <4>2
        <5> HIDE DEF g
        <5> QED
          BY <4>2, <5>1 DEF last
      <4>3. CASE j # k
        <5>1. j \in 1..(k - 1) /\ j \in 0..(k - 1)
          BY <4>3
        <5>2. g[j] = h[j] /\ h[j] = step[<<j, h[j - 1]>>]
          BY <2>1, <2>3, <5>1 DEF Loop
        <5> HIDE DEF g
        <5> QED
          BY <4>1, <5>2
      <4> QED
        BY <4>2, <4>3
    <3> HIDE DEF g
    <3> QED
      BY <3>1, <3>2 DEF Loop
  <2> HIDE DEF g, Run
  <2> QED
    BY <2>3, <2>4
<1>3. G = 0..n
  <2>1. G \in SUBSET (0..n)
    OBVIOUS
  <2> HIDE DEF G
  <2> QED
    BY <1>1, <1>2, <2>1, EveryPlace
<1> QED
  BY <1>3

\* What the loops find of the first k lines.
Seen(inv, types, k) == {j \in 1..k : Wears(inv[j], types)}

\* A worn body armor that none outdoes, if one is worn.
Outdoes(g, inv, dex, k) ==
    IF Seen(inv, BodyArmor, k) = {} THEN g = NoGear
    ELSE /\ \E j \in Seen(inv, BodyArmor, k) : g = inv[j].gear
         /\ \A j \in Seen(inv, BodyArmor, k) : Worth(inv[j].gear, dex) <= Worth(g, dex)

\* The best bonus of the worn shields, if one is worn, else nothing.
Tops(n, inv, k) ==
    /\ n = 0 \/ \E j \in Seen(inv, {"shield"}, k) : n = inv[j].gear.ac
    /\ n >= 0 /\ \A j \in Seen(inv, {"shield"}, k) : inv[j].gear.ac <= n

LEMMA WornTyped ==
    ASSUME NEW e \in Lines, NEW types, Wears(e, types)
    PROVE  e.gear \in Worn /\ e.gear \in Gears /\ e.gear # NoGear /\ e.gear.ac \in Nat
<1>1. e.gear \in Gears /\ e.gear # NoGear
  BY DEF Lines, Wears
<1> QED
  BY <1>1 DEF Gears, Worn

LEMMA WorthTyped ==
    ASSUME NEW g \in Worn, NEW dex \in Int
    PROVE  Worth(g, dex) \in Int
  BY DEF Worth, DexFor, AtMost, Worn

LEMMA SeenMore ==
    ASSUME NEW inv \in Seq(Lines), NEW types, NEW k \in 1..Len(inv)
    PROVE  Seen(inv, types, k) = IF Wears(inv[k], types) THEN Seen(inv, types, k - 1) \cup {k}
                                 ELSE Seen(inv, types, k - 1)
<1>1. 1..k = (1..(k - 1)) \cup {k}
  OBVIOUS
<1> QED
  BY <1>1 DEF Seen

LEMMA SeenLine ==
    ASSUME NEW inv \in Seq(Lines), NEW types, NEW k \in 0..Len(inv), NEW j \in Seen(inv, types, k)
    PROVE  j \in DOMAIN inv /\ inv[j] \in Lines /\ Wears(inv[j], types)
<1>1. j \in 1..Len(inv)
  BY DEF Seen
<1> QED
  BY <1>1 DEF Seen

LEMMA BestBodyFound ==
    ASSUME NEW inv \in Seq(Lines), NEW dex \in Int
    PROVE  Outdoes(BestBody(inv, dex), inv, dex, Len(inv))
<1> DEFINE n == Len(inv)
           After(k, b) == IF Wears(inv[k], BodyArmor) THEN Better(b, inv[k].gear, dex) ELSE b
           Is(g) == g = [k \in 0..n |-> IF k = 0 THEN NoGear
                                        ELSE IF Wears(inv[k], BodyArmor)
                                             THEN Better(g[k - 1], inv[k].gear, dex)
                                        ELSE g[k - 1]]
           best == CHOOSE g : Is(g)
           step == [p \in (1..n) \X Gears |-> After(p[1], p[2])]
<1>1. n \in Nat /\ DOMAIN inv = 1..n /\ \A k \in 1..n : inv[k] \in Lines
  OBVIOUS
<1>2. BestBody(inv, dex) = best[n]
  BY DEF BestBody
<1>3. \A k \in 1..n, b \in Gears : After(k, b) \in Gears /\ step[<<k, b>>] = After(k, b)
  BY <1>1, WornTyped DEF Better
<1>4. step \in [(1..n) \X Gears -> Gears]
  BY <1>3
<1>5. NoGear \in Gears
  BY DEF Gears
<1> HIDE DEF step, n
<1>6. PICK g \in [0..n -> Gears] : Loop(g, NoGear, step, n)
  BY <1>1, <1>4, <1>5, LoopRuns
<1>7. Is(g)
  <2>1. \A k \in 1..n : k - 1 \in 0..n
    BY <1>1
  <2>2. \A k \in 1..n : g[k] = After(k, g[k - 1])
    BY <1>3, <1>6, <2>1 DEF Loop
  <2>3. \A k \in 0..n : k # 0 => k \in 1..n
    BY <1>1
  <2> QED
    BY <1>6, <2>2, <2>3 DEF Loop
<1>8. Is(best)
  BY <1>7
<1> HIDE DEF best
<1>9. best[0] = NoGear /\ \A k \in 1..n : best[k] = After(k, best[k - 1])
  <2>1. 0 \in 0..n /\ \A k \in 1..n : k \in 0..n /\ k # 0
    BY <1>1
  <2> QED
    BY <1>8, <2>1
<1> DEFINE G == {k \in 0..n : Outdoes(best[k], inv, dex, k)}
<1>10. 0 \in G
  <2>1. Seen(inv, BodyArmor, 0) = {} /\ 0 \in 0..n
    BY <1>1 DEF Seen
  <2> QED
    BY <1>9, <2>1 DEF Outdoes
<1>11. ASSUME NEW k \in 1..n, k - 1 \in G PROVE k \in G
  <2> DEFINE b == best[k - 1]
             old == Seen(inv, BodyArmor, k - 1)
             new == Seen(inv, BodyArmor, k)
  <2>1. k \in 0..n /\ k - 1 \in 0..n /\ inv[k] \in Lines
    BY <1>1
  <2>2. Outdoes(b, inv, dex, k - 1)
    BY <1>11
  <2>3. best[k] = After(k, b)
    BY <1>9
  <2>4. new = IF Wears(inv[k], BodyArmor) THEN old \cup {k} ELSE old
    BY SeenMore DEF n
  <2>5. \A j \in old : inv[j].gear \in Worn /\ inv[j].gear # NoGear /\ Worth(inv[j].gear, dex) \in Int
    BY <2>1, SeenLine, WornTyped, WorthTyped DEF n
  <2>6. Outdoes(best[k], inv, dex, k)
    <3>1. CASE ~Wears(inv[k], BodyArmor)
      BY <2>2, <2>3, <2>4, <3>1 DEF Outdoes
    <3>2. CASE Wears(inv[k], BodyArmor)
      <4> DEFINE own == inv[k].gear
      <4>1. own \in Worn /\ own # NoGear /\ Worth(own, dex) \in Int
        BY <2>1, <3>2, WornTyped, WorthTyped
      <4>2. best[k] = IF b = NoGear \/ Worth(own, dex) > Worth(b, dex) THEN own ELSE b
        BY <2>3, <3>2 DEF Better
      <4>3. new = old \cup {k}
        BY <2>4, <3>2
      <4> HIDE DEF b, old, new, own
      <4>4. CASE old = {}
        <5>1. b = NoGear
          BY <2>2, <4>4 DEF Outdoes, old
        <5>2. best[k] = own /\ new = {k}
          BY <4>2, <4>3, <4>4, <5>1
        <5> QED
          BY <4>1, <5>2 DEF Outdoes, own, new
      <4>5. CASE old # {}
        <5>1. PICK i \in old : b = inv[i].gear
          BY <2>2, <4>5 DEF Outdoes, old
        <5>2. \A j \in old : Worth(inv[j].gear, dex) <= Worth(b, dex)
          BY <2>2, <4>5 DEF Outdoes, old
        <5>3. b # NoGear /\ Worth(b, dex) \in Int
          BY <2>5, <5>1
        <5>4. new # {} /\ i \in new /\ k \in new
          BY <4>3, <5>1
        <5>5. best[k] = inv[i].gear \/ best[k] = inv[k].gear
          BY <4>2, <5>1 DEF own
        <5>6. Worth(b, dex) <= Worth(best[k], dex) /\ Worth(own, dex) <= Worth(best[k], dex)
                /\ Worth(best[k], dex) \in Int
          BY <4>1, <4>2, <5>3
        <5>7. \A j \in new : Worth(inv[j].gear, dex) <= Worth(best[k], dex)
          <6>1. \A j \in old : Worth(inv[j].gear, dex) <= Worth(best[k], dex)
            BY <2>5, <5>2, <5>3, <5>6
          <6> QED
            BY <4>3, <5>6, <6>1 DEF own
        <5> QED
          BY <5>4, <5>5, <5>7 DEF Outdoes, new
      <4> QED
        BY <4>4, <4>5
    <3> QED
      BY <3>1, <3>2
  <2> QED
    BY <2>1, <2>6
<1>12. G = 0..n
  <2>1. G \in SUBSET (0..n)
    OBVIOUS
  <2> HIDE DEF G
  <2> QED
    BY <1>1, <1>10, <1>11, <2>1, EveryPlace
<1>13. n \in G
  BY <1>1, <1>12
<1> QED
  BY <1>2, <1>13 DEF n

LEMMA BestShieldFound ==
    ASSUME NEW inv \in Seq(Lines)
    PROVE  BestShield(inv) \in Nat /\ Tops(BestShield(inv), inv, Len(inv))
<1> DEFINE n == Len(inv)
           After(k, b) == IF Wears(inv[k], {"shield"}) THEN NoLess(inv[k].gear.ac, b) ELSE b
           Is(g) == g = [k \in 0..n |-> IF k = 0 THEN 0
                                        ELSE IF Wears(inv[k], {"shield"})
                                             THEN NoLess(inv[k].gear.ac, g[k - 1])
                                        ELSE g[k - 1]]
           best == CHOOSE g : Is(g)
           step == [p \in (1..n) \X Nat |-> After(p[1], p[2])]
<1>1. n \in Nat /\ DOMAIN inv = 1..n /\ \A k \in 1..n : inv[k] \in Lines
  OBVIOUS
<1>2. BestShield(inv) = best[n]
  BY DEF BestShield
<1>3. \A k \in 1..n, b \in Nat : After(k, b) \in Nat /\ step[<<k, b>>] = After(k, b)
  BY <1>1, WornTyped DEF NoLess
<1>4. step \in [(1..n) \X Nat -> Nat]
  BY <1>3
<1> HIDE DEF step, n
<1>6. PICK g \in [0..n -> Nat] : Loop(g, 0, step, n)
  BY <1>1, <1>4, LoopRuns
<1>7. Is(g)
  <2>1. \A k \in 1..n : k - 1 \in 0..n
    BY <1>1
  <2>2. \A k \in 1..n : g[k] = After(k, g[k - 1])
    BY <1>3, <1>6, <2>1 DEF Loop
  <2>3. \A k \in 0..n : k # 0 => k \in 1..n
    BY <1>1
  <2> QED
    BY <1>6, <2>2, <2>3 DEF Loop
<1>8. Is(best)
  BY <1>7
<1> HIDE DEF best
<1>9. best[0] = 0 /\ \A k \in 1..n : best[k] = After(k, best[k - 1])
  <2>1. 0 \in 0..n /\ \A k \in 1..n : k \in 0..n /\ k # 0
    BY <1>1
  <2> QED
    BY <1>8, <2>1
<1> DEFINE G == {k \in 0..n : best[k] \in Nat /\ Tops(best[k], inv, k)}
<1>10. 0 \in G
  <2>1. Seen(inv, {"shield"}, 0) = {} /\ 0 \in 0..n
    BY <1>1 DEF Seen
  <2> QED
    BY <1>9, <2>1 DEF Tops
<1>11. ASSUME NEW k \in 1..n, k - 1 \in G PROVE k \in G
  <2> DEFINE b == best[k - 1]
             old == Seen(inv, {"shield"}, k - 1)
             new == Seen(inv, {"shield"}, k)
  <2>1. k \in 0..n /\ k - 1 \in 0..n /\ inv[k] \in Lines
    BY <1>1
  <2>2. b \in Nat /\ Tops(b, inv, k - 1)
    BY <1>11
  <2>3. best[k] = After(k, b)
    BY <1>9
  <2>4. new = IF Wears(inv[k], {"shield"}) THEN old \cup {k} ELSE old
    BY SeenMore DEF n
  <2>5. \A j \in old : inv[j].gear.ac \in Nat
    BY <2>1, SeenLine, WornTyped DEF n
  <2>6. best[k] \in Nat /\ Tops(best[k], inv, k)
    <3>1. CASE ~Wears(inv[k], {"shield"})
      BY <2>2, <2>3, <2>4, <3>1 DEF Tops
    <3>2. CASE Wears(inv[k], {"shield"})
      <4> DEFINE own == inv[k].gear.ac
      <4>1. own \in Nat
        BY <2>1, <3>2, WornTyped
      <4>2. best[k] = IF own < b THEN b ELSE own
        BY <2>3, <3>2 DEF NoLess
      <4>3. new = old \cup {k}
        BY <2>4, <3>2
      <4> HIDE DEF b, old, new
      <4>4. b = 0 \/ \E j \in old : b = inv[j].gear.ac
        BY <2>2 DEF Tops, old
      <4>5. \A j \in old : inv[j].gear.ac <= b
        BY <2>2 DEF Tops, old
      <4>6. best[k] = 0 \/ \E j \in new : best[k] = inv[j].gear.ac
        BY <4>2, <4>3, <4>4
      <4>7. \A j \in new : inv[j].gear.ac <= best[k]
        BY <2>2, <2>5, <4>1, <4>2, <4>3, <4>5
      <4>8. best[k] \in Nat
        BY <2>2, <4>1, <4>2
      <4> QED
        BY <4>6, <4>7, <4>8 DEF Tops, new
    <3> QED
      BY <3>1, <3>2
  <2> QED
    BY <2>1, <2>6
<1>12. G = 0..n
  <2>1. G \in SUBSET (0..n)
    OBVIOUS
  <2> HIDE DEF G
  <2> QED
    BY <1>1, <1>10, <1>11, <2>1, EveryPlace
<1>13. n \in G
  BY <1>1, <1>12
<1> QED
  BY <1>2, <1>13 DEF n

\* The greatest of a set of numbers, once one is known that none exceeds.
LEMMA MaxIs ==
    ASSUME NEW T, T \subseteq Int, NEW m \in T, \A x \in T : x <= m
    PROVE  Max(T) = m
<1> DEFINE top == CHOOSE x \in T : \A y \in T : x >= y
<1>1. m \in Int /\ \A y \in T : m >= y
  OBVIOUS
<1>2. top \in T /\ \A y \in T : top >= y
  BY <1>1
<1>3. Max(T) = top
  BY DEF Max
<1> HIDE DEF top
<1> QED
  BY <1>1, <1>2, <1>3

\* No line carries the stats of an item it does not name.
Honest(list) == \A i \in DOMAIN list : list[i].gear = NoGear \/ Genuine(list[i])

\* Where that is so, what the loops find is the best that the names give.
LEMMA ByName ==
    ASSUME NEW inv \in Seq(Lines), NEW dex \in Int, Honest(inv)
    PROVE  ArmorClass(inv, dex) = NamedArmorClass(inv, dex)
<1> DEFINE n == Len(inv)
           bodied == Seen(inv, BodyArmor, n)
           shielded == Seen(inv, {"shield"}, n)
           worn == {inv[i].gear : i \in {i \in DOMAIN inv : inv[i].equipped /\ Genuine(inv[i])}}
           bodies == {g \in worn : g # NoGear /\ g.type \in BodyArmor}
           bonuses == {g.ac : g \in {g \in worn : g # NoGear /\ g.type = "shield"}} \cup {0}
           worths == {Worth(g, dex) : g \in bodies}
<1>1. DOMAIN inv = 1..n /\ n \in 0..n /\ \A i \in 1..n : inv[i] \in Lines
  OBVIOUS
<1>2. NamedArmorClass(inv, dex) = (IF bodies = {} THEN 10 + dex ELSE Max(worths)) + Max(bonuses)
  BY DEF NamedArmorClass
<1>3. bodies = {inv[j].gear : j \in bodied}
  <2>1. ASSUME NEW g \in bodies PROVE \E j \in bodied : g = inv[j].gear
    <3>1. PICK j \in 1..n : inv[j].equipped /\ g = inv[j].gear
      BY <1>1
    <3> QED
      BY <3>1 DEF Seen, Wears
  <2>2. ASSUME NEW j \in bodied PROVE inv[j].gear \in bodies
    <3>1. j \in 1..n /\ inv[j].equipped /\ inv[j].gear # NoGear /\ inv[j].gear.type \in BodyArmor
      BY DEF Seen, Wears
    <3>2. Genuine(inv[j])
      BY <1>1, <3>1 DEF Honest
    <3> QED
      BY <1>1, <3>1, <3>2
  <2> HIDE DEF bodies, bodied
  <2> QED
    BY <2>1, <2>2
<1>4. bonuses = {inv[j].gear.ac : j \in shielded} \cup {0}
  <2>1. ASSUME NEW b \in bonuses, b # 0 PROVE \E j \in shielded : b = inv[j].gear.ac
    <3>1. PICK j \in 1..n : /\ inv[j].equipped /\ b = inv[j].gear.ac
                            /\ inv[j].gear # NoGear /\ inv[j].gear.type = "shield"
      BY <1>1, <2>1
    <3> QED
      BY <3>1 DEF Seen, Wears
  <2>2. ASSUME NEW j \in shielded PROVE inv[j].gear.ac \in bonuses
    <3>1. j \in 1..n /\ inv[j].equipped /\ inv[j].gear # NoGear /\ inv[j].gear.type = "shield"
      BY DEF Seen, Wears
    <3>2. Genuine(inv[j])
      BY <1>1, <3>1 DEF Honest
    <3>3. inv[j].gear \in worn
      BY <1>1, <3>1, <3>2
    <3> HIDE DEF worn
    <3> QED
      BY <3>1, <3>3
  <2>3. 0 \in bonuses
    OBVIOUS
  <2> HIDE DEF bonuses, shielded
  <2> QED
    BY <2>1, <2>2, <2>3
<1> HIDE DEF bodies, bonuses, worn, bodied, shielded, n
<1>5. \A j \in bodied : inv[j].gear \in Worn /\ inv[j].gear # NoGear /\ Worth(inv[j].gear, dex) \in Int
  BY <1>1, SeenLine, WornTyped, WorthTyped DEF bodied, n
<1>6. \A j \in shielded : inv[j].gear.ac \in Nat
  BY <1>1, SeenLine, WornTyped DEF shielded, n
<1>7. (IF bodies = {} THEN 10 + dex ELSE Max(worths))
        = (IF BestBody(inv, dex) = NoGear THEN 10 + dex ELSE Worth(BestBody(inv, dex), dex))
  <2> DEFINE b == BestBody(inv, dex)
  <2>1. Outdoes(b, inv, dex, n)
    BY BestBodyFound DEF n
  <2> HIDE DEF b
  <2>2. CASE bodied = {}
    <3>1. b = NoGear /\ bodies = {}
      BY <1>3, <2>1, <2>2 DEF Outdoes, bodied
    <3> QED
      BY <3>1 DEF b
  <2>3. CASE bodied # {}
    <3>1. PICK i \in bodied : b = inv[i].gear
      BY <2>1, <2>3 DEF Outdoes, bodied
    <3>2. \A j \in bodied : Worth(inv[j].gear, dex) <= Worth(b, dex)
      BY <2>1, <2>3 DEF Outdoes, bodied
    <3>3. b # NoGear /\ b \in bodies /\ bodies # {}
      BY <1>3, <1>5, <3>1
    <3>4. worths \subseteq Int /\ Worth(b, dex) \in worths /\ \A x \in worths : x <= Worth(b, dex)
      BY <1>3, <1>5, <3>2, <3>3
    <3> HIDE DEF worths
    <3>5. Max(worths) = Worth(b, dex)
      BY <3>4, MaxIs
    <3> QED
      BY <3>3, <3>5 DEF b
  <2> QED
    BY <2>2, <2>3
<1>8. Max(bonuses) = BestShield(inv)
  <2>1. BestShield(inv) \in Nat /\ Tops(BestShield(inv), inv, n)
    BY BestShieldFound DEF n
  <2>2. BestShield(inv) \in bonuses /\ \A x \in bonuses : x <= BestShield(inv)
    BY <1>4, <2>1 DEF Tops, shielded
  <2>3. bonuses \subseteq Int
    BY <1>4, <1>6
  <2> QED
    BY <2>2, <2>3, MaxIs
<1> HIDE DEF worths
<1> QED
  BY <1>2, <1>7, <1>8 DEF ArmorClass
--------------------------------------------------------------------------------
(* No line ever carries the stats of an item it does not name.               *)

\* Every copy of the list, wherever it is, is honest: it does not matter that
\* most are of older rows, because nothing is ever added to a line's stats.
HonestInv ==
    /\ Honest(row.inv)
    /\ \A t \in Tabs : Honest(view[t].inv) /\ (form[t] = None \/ Honest(form[t].inv))
    /\ \A r \in Requests : req[r].patch.inv = None \/ Honest(req[r].patch.inv)

LEMMA SameNameAndGear ==
    ASSUME NEW e, NEW f, f.name = e.name, f.gear = e.gear, e.gear = NoGear \/ Genuine(e)
    PROVE  f.gear = NoGear \/ Genuine(f)
  BY DEF Genuine

LEMMA AlteredHonest ==
    ASSUME NEW list \in Seq(Lines), NEW i \in DOMAIN list, NEW e \in Lines, Honest(list),
           e.gear = NoGear \/ Genuine(e)
    PROVE  Honest(Altered(list, i, e))
  BY DEF Altered, Honest

LEMMA AppendedHonest ==
    ASSUME NEW list \in Seq(Lines), NEW e \in Lines, Honest(list), e.gear = NoGear \/ Genuine(e)
    PROVE  Honest(Append(list, e))
<1> DEFINE longer == Append(list, e)
<1>1. /\ DOMAIN longer = 1..(Len(list) + 1) /\ Len(list) \in Nat /\ DOMAIN list = 1..Len(list)
      /\ \A j \in 1..Len(list) : longer[j] = list[j]
      /\ longer[Len(list) + 1] = e
  OBVIOUS
<1> HIDE DEF longer
<1>2. Honest(longer)
  BY <1>1 DEF Honest
<1> QED
  BY <1>2 DEF longer

LEMMA RemovedHonest ==
    ASSUME NEW list \in Seq(Lines), NEW i \in DOMAIN list, Honest(list)
    PROVE  Honest(RemoveAt(list, i))
<1> DEFINE rest == RemoveAt(list, i)
<1>1. /\ rest \in Seq(Lines) /\ Len(rest) = Len(list) - 1
      /\ \A j \in 1..(Len(list) - 1) : rest[j] = list[IF j < i THEN j ELSE j + 1]
  BY RemovedAt
<1>2. DOMAIN rest = 1..(Len(list) - 1) /\ i \in 1..Len(list) /\ DOMAIN list = 1..Len(list)
        /\ Len(list) \in Nat
  BY <1>1
<1> HIDE DEF rest
<1>3. \A j \in DOMAIN rest : \E k \in DOMAIN list : rest[j] = list[k]
  BY <1>1, <1>2
<1>4. Honest(rest)
  BY <1>3 DEF Honest
<1> QED
  BY <1>4 DEF rest

LEMMA MergedHonest ==
    ASSUME NEW list \in Seq(Lines), NEW e \in Lines, Honest(list), e.gear = NoGear
    PROVE  Honest(Merged(list, e))
<1> DEFINE same == {i \in DOMAIN list : e.link # None /\ list[i].link = e.link}
           first == CHOOSE i \in same : \A j \in same : i <= j
           more == [list EXCEPT ![first].quantity = @ + e.quantity]
<1>1. Merged(list, e) = IF same = {} THEN Append(list, e) ELSE more
  BY DEF Merged
<1> HIDE DEF same, first
<1>2. \A j \in DOMAIN list : list[j] \in Lines
  OBVIOUS
<1>3. \A l \in Lines : \A q : [l EXCEPT !.quantity = q].name = l.name /\ [l EXCEPT !.quantity = q].gear = l.gear
  BY DEF Lines
<1>4. DOMAIN more = DOMAIN list
        /\ \A j \in DOMAIN list : more[j].name = list[j].name /\ more[j].gear = list[j].gear
  BY <1>2, <1>3
<1> HIDE DEF more
<1>5. Honest(more)
  BY <1>4, SameNameAndGear DEF Honest
<1> QED
  BY <1>1, <1>5, AppendedHonest

\* A step that shows, keeps and sends only honest lists.
LEMMA HonestStep ==
    ASSUME HonestInv, Honest(row'.inv),
           \A t \in Tabs : view'[t] = view[t] \/ view'[t] = row,
           \A t \in Tabs : form'[t] = form[t] \/ form'[t] = view[t] \/ form'[t] = row \/ form'[t] = None,
           \A r \in Requests : \/ req'[r].patch = req[r].patch
                               \/ req'[r].patch.inv = None \/ Honest(req'[r].patch.inv)
    PROVE  HonestInv'
<1>1. Honest(row.inv) /\ \A t \in Tabs : Honest(view[t].inv) /\ (form[t] = None \/ Honest(form[t].inv))
  BY DEF HonestInv
<1>2. \A r \in Requests : req[r].patch.inv = None \/ Honest(req[r].patch.inv)
  BY DEF HonestInv
<1>3. \A t \in Tabs : Honest(view'[t].inv) /\ (form'[t] = None \/ Honest(form'[t].inv))
  BY <1>1
<1>4. \A r \in Requests : req'[r].patch.inv = None \/ Honest(req'[r].patch.inv)
  BY <1>2
<1> QED
  BY <1>3, <1>4 DEF HonestInv

LEMMA SendsHonest ==
    ASSUME IInv, HonestInv, NEW t \in Tabs, NEW aim, NEW patch, Send(t, aim, patch),
           UNCHANGED <<row, view, form>>, patch.inv = None \/ Honest(patch.inv)
    PROVE  HonestInv'
<1> DEFINE q == [at |-> "sent", tab |-> t, aim |-> aim, expected |-> view[t].version,
                 patch |-> patch]
<1>1. PICK r \in Requests : req' = [req EXCEPT ![r] = q]
  BY DEF Send
<1>2. q.patch = patch
  OBVIOUS
<1> HIDE DEF q
<1>3. \A s \in Requests : req'[s].patch = req[s].patch \/ req'[s].patch = patch
  BY <1>1, <1>2, Parts
<1>4. Honest(row'.inv)
  BY DEF HonestInv
<1> QED
  BY <1>3, <1>4, HonestStep

\* What a control sends instead of the list of a view.
LEMMA PlaysHonest ==
    ASSUME IInv, HonestInv, NEW t \in Tabs, NEW aim, NEW list, Honest(list),
           Play(t, aim, WithInv(list))
    PROVE  HonestInv'
<1>1. WithInv(list).inv = list
  BY DEF WithInv, NothingSent
<1> QED
  BY <1>1, SendsHonest DEF Play

LEMMA ShownHonest ==
    ASSUME IInv, HonestInv, NEW t \in Tabs
    PROVE  view[t].inv \in Seq(Lines) /\ Honest(view[t].inv)
  BY ViewIsWhole, WholeRow DEF HonestInv

LEMMA ToggleHonest ==
    ASSUME IInv, HonestInv, NEW t \in Tabs, NEW i \in DOMAIN view[t].inv, Toggle(t, i)
    PROVE  HonestInv'
<1> DEFINE e == view[t].inv[i]
           f == [e EXCEPT !.equipped = ~@]
<1>1. view[t].inv \in Seq(Lines) /\ Honest(view[t].inv) /\ e \in Lines
        /\ (e.gear = NoGear \/ Genuine(e))
  BY ShownHonest DEF Honest
<1>2. f \in Lines /\ f.name = e.name /\ f.gear = e.gear
  BY <1>1 DEF Lines
<1>4. Play(t, [kind |-> "toggle", id |-> e.id], WithInv(Altered(view[t].inv, i, f)))
  BY DEF Toggle, WithInv
<1> HIDE DEF e, f
<1>3. f.gear = NoGear \/ Genuine(f)
  BY <1>1, <1>2, SameNameAndGear
<1>5. Honest(Altered(view[t].inv, i, f))
  BY <1>1, <1>2, <1>3, AlteredHonest
<1> QED
  BY <1>4, <1>5, PlaysHonest

LEMMA RemoveHonest ==
    ASSUME IInv, HonestInv, NEW t \in Tabs, NEW i \in DOMAIN view[t].inv, RemoveItem(t, i)
    PROVE  HonestInv'
<1>1. Honest(RemoveAt(view[t].inv, i))
  BY ShownHonest, RemovedHonest
<1>2. Play(t, [kind |-> "remove", id |-> view[t].inv[i].id], WithInv(RemoveAt(view[t].inv, i)))
  BY DEF RemoveItem, WithInv
<1> QED
  BY <1>1, <1>2, PlaysHonest

\* A renamed line loses its stats, one that keeps its name keeps them.
LEMMA EditedHonest ==
    ASSUME NEW list \in Seq(Lines), NEW i \in Nat, NEW name \in Names, NEW quantity \in Nat,
           Honest(list)
    PROVE  Honest(Edited(list, i, name, quantity))
<1>1. CASE i \notin DOMAIN list
  BY <1>1 DEF Edited
<1>2. CASE i \in DOMAIN list
  <2> DEFINE e == list[i]
             n == NoLess(quantity, 1)
             l == [Renamed(e, name) EXCEPT !.quantity = n]
  <2>1. e \in Lines /\ (e.gear = NoGear \/ Genuine(e)) /\ n \in Nat \ {0}
    BY <1>2 DEF Honest, NoLess
  <2>2. Edited(list, i, name, quantity) = Altered(list, i, l)
    BY <1>2 DEF Edited
  <2>3. l \in Lines /\ (l.gear = NoGear \/ Genuine(l))
    <3> HIDE DEF e, n
    <3>1. CASE name = e.name
      <4>1. l = [e EXCEPT !.quantity = n]
        BY <3>1 DEF Renamed
      <4>2. l \in Lines /\ l.name = e.name /\ l.gear = e.gear
        BY <2>1, <4>1 DEF Lines
      <4> QED
        BY <2>1, <4>2, SameNameAndGear
    <3>2. CASE name # e.name
      <4> DEFINE called == [e EXCEPT !.name = name]
      <4>1. Renamed(e, name) = Stripped(called) /\ called \in Lines
        BY <2>1, <3>2 DEF Renamed, Lines
      <4> DEFINE bare == Stripped(called)
      <4>2. bare = [id |-> called.id, name |-> called.name, link |-> None, gear |-> NoGear,
                    quantity |-> called.quantity, equipped |-> called.equipped]
        BY <4>1, StrippedLine
      <4> HIDE DEF called
      <4>3. bare \in Lines /\ bare.gear = NoGear
        BY <4>1, <4>2 DEF Lines, Gears
      <4>4. l = [bare EXCEPT !.quantity = n]
        BY <4>1
      <4> HIDE DEF bare, l
      <4>5. l \in Lines /\ l.gear = NoGear
        BY <2>1, <4>3, <4>4 DEF Lines
      <4> QED
        BY <4>5
    <3> QED
      BY <3>1, <3>2
  <2> HIDE DEF l
  <2> QED
    BY <1>2, <2>2, <2>3, AlteredHonest
<1> QED
  BY <1>1, <1>2

LEMMA EditHonest ==
    ASSUME IInv, HonestInv, NEW t \in Tabs, NEW typed \in Typed \cup {None},
           NEW quantity \in Quantities \cup {0}, SaveEdit(t, typed, quantity)
    PROVE  HonestInv'
<1> DEFINE name == IF typed = None THEN editing[t].name ELSE typed
           list == Edited(view[t].inv, editing[t].index, name, quantity)
<1>1. editing[t] \in [index : Nat, id : Ids, name : Names]
  BY Parts DEF SaveEdit
<1>2. name \in Names /\ editing[t].index \in Nat /\ quantity \in Nat
  BY <1>1, InventoryAssumption
<1> HIDE DEF name
<1>3. Honest(list)
  BY <1>2, ShownHonest, EditedHonest
<1>4. \E aim : Play(t, aim, WithInv(list))
  BY DEF SaveEdit, WithInv, name
<1> HIDE DEF list
<1> QED
  BY <1>3, <1>4, PlaysHonest

LEMMA AddHonest ==
    ASSUME IInv, HonestInv, NEW t \in Tabs, NEW picked, NEW typed, NEW n \in Quantities,
           \/ picked = None /\ typed \in Typed
           \/ picked \in Items /\ typed = None,
           Add(t, picked, typed, n)
    PROVE  HonestInv'
<1> DEFINE d == Draft(picked, typed)
           line == Line(NewId(t), d.name, d.link, d.gear, NoLess(n, 1))
<1>1. d.name \in Names /\ d.link \in Items \cup {None} /\ d.gear \in Gears
  BY GearTyped, InventoryAssumption DEF Draft, Gears
<1>2. d.gear = NoGear \/ \E i \in Items : d.name = Catalog[i].name /\ d.gear = GearOf(Catalog[i])
  BY InventoryAssumption DEF Draft
<1>3. NewId(t) \in Ids /\ NoLess(n, 1) \in Nat \ {0}
  BY Parts, InventoryAssumption DEF NewId, Ids, NoLess
<1>4. \E aim : Play(t, aim, WithInv(Append(view[t].inv, line)))
  BY DEF Add, WithInv
<1> HIDE DEF d
<1>5. line \in Lines /\ line.name = d.name /\ line.gear = d.gear
  BY <1>1, <1>3 DEF Line, Lines
<1> HIDE DEF line
<1>6. line.gear = NoGear \/ Genuine(line)
  BY <1>2, <1>5 DEF Genuine
<1>7. Honest(Append(view[t].inv, line))
  BY <1>5, <1>6, ShownHonest, AppendedHonest
<1> QED
  BY <1>4, <1>7, PlaysHonest

\* Coins and attunement send no list.
LEMMA OtherControlsHonest ==
    ASSUME IInv, HonestInv, NEW t \in Tabs,
           \/ \E by \in {1, -2} : AdjustCoin(t, by)
           \/ \E name \in Typed : Attune(t, name)
           \/ \E i \in DOMAIN view[t].attuned : Release(t, i)
    PROVE  HonestInv'
<1>1. \A coins : WithCoins(coins).inv = None
  BY DEF WithCoins, NothingSent
<1>2. \A list : WithAttuned(list).inv = None
  BY DEF WithAttuned, NothingSent
<1>3. \E aim, patch : Play(t, aim, patch) /\ patch.inv = None
  <2>1. CASE \E by \in {1, -2} : AdjustCoin(t, by)
    <3>1. \E aim, coins : Play(t, aim, WithCoins(coins))
      BY <2>1 DEF AdjustCoin, WithCoins
    <3> QED
      BY <1>1, <3>1
  <2>2. CASE \/ \E name \in Typed : Attune(t, name)
             \/ \E i \in DOMAIN view[t].attuned : Release(t, i)
    <3>1. \E aim, list : Play(t, aim, WithAttuned(list))
      BY <2>2 DEF Attune, Release, WithAttuned
    <3> QED
      BY <1>2, <3>1
  <2> QED
    BY <2>1, <2>2
<1> QED
  BY <1>3, SendsHonest DEF Play

LEMMA PageHonest ==
    ASSUME IInv, HonestInv, NEW t \in Tabs,
           \/ CancelEdit(t) \/ Refetch(t) \/ OpenForm(t) \/ SubmitForm(t) \/ LeaveForm(t)
           \/ \E i \in DOMAIN view[t].inv : StartEdit(t, i)
    PROVE  HonestInv'
<1>0. Honest(row.inv) /\ (form[t] = None \/ Honest(form[t].inv))
  BY DEF HonestInv
<1>1. CASE CancelEdit(t) \/ Refetch(t) \/ LeaveForm(t) \/ \E i \in DOMAIN view[t].inv : StartEdit(t, i)
  <2>1. row' = row /\ req' = req
    BY <1>1 DEF CancelEdit, Refetch, LeaveForm, StartEdit
  <2>2. \A u \in Tabs : view'[u] = view[u] \/ view'[u] = row
    BY <1>1, Parts DEF CancelEdit, Refetch, LeaveForm, StartEdit
  <2>3. \A u \in Tabs : form'[u] = form[u] \/ form'[u] = None
    BY <1>1, Parts DEF CancelEdit, Refetch, LeaveForm, StartEdit
  <2> QED
    BY <1>0, <2>1, <2>2, <2>3, HonestStep
<1>2. CASE OpenForm(t)
  <2>1. row' = row /\ view' = view
    BY <1>2 DEF OpenForm
  <2>2. \A u \in Tabs : form'[u] = form[u] \/ form'[u] = view[u]
    BY <1>2, Parts DEF OpenForm
  <2>3. Idle.patch.inv = None
    BY DEF Idle, NothingSent
  <2>4. \A r \in Requests : [req[r] EXCEPT !.tab = None].patch = req[r].patch
    BY Parts DEF IsRequest
  <2>5. \A r \in Requests : req'[r].patch = req[r].patch \/ req'[r].patch.inv = None
    BY <1>2, <2>3, <2>4 DEF OpenForm
  <2> QED
    BY <1>0, <2>1, <2>2, <2>5, HonestStep
<1>3. CASE SubmitForm(t)
  <2> DEFINE patch == [NothingSent EXCEPT !.inv = form[t].inv, !.coins = form[t].coins]
  <2>1. Send(t, None, patch) /\ UNCHANGED <<row, view, form>> /\ form[t] # None
    BY <1>3 DEF SubmitForm
  <2>2. patch.inv = form[t].inv
    BY DEF NothingSent
  <2> HIDE DEF patch
  <2> QED
    BY <1>0, <2>1, <2>2, SendsHonest
<1> QED
  BY <1>1, <1>2, <1>3

LEMMA IdleHonest ==
    ASSUME NEW r \in Requests, NEW at
    PROVE  Idle.patch.inv = None /\ Done(r, at).patch.inv = None
  BY DEF Idle, Done, NothingSent

LEMMA WriteHonest ==
    ASSUME IInv, HonestInv, NEW r \in Requests, Write(r)
    PROVE  HonestInv'
<1>1. view' = view /\ form' = form /\ \E at : req' = [req EXCEPT ![r] = Done(r, at)]
  BY DEF Write
<1>2. \A s \in Requests : req'[s].patch = req[s].patch \/ req'[s].patch.inv = None
  BY <1>1, IdleHonest, Parts
<1>3. Honest(row'.inv)
  <2>1. Honest(row.inv) /\ (req[r].patch.inv = None \/ Honest(req[r].patch.inv))
    BY DEF HonestInv
  <2>2. row' = row \/ row' = Patched(row, req[r].patch)
    BY DEF Write
  <2>3. Patched(row, req[r].patch).inv
          = IF req[r].patch.inv = None THEN row.inv ELSE req[r].patch.inv
    BY DEF Patched
  <2> QED
    BY <2>1, <2>2, <2>3
<1> QED
  BY <1>1, <1>2, <1>3, HonestStep

\* A bought line has no stats at all.
LEMMA BuyHonest ==
    ASSUME IInv, HonestInv, NEW ware \in Wares, Buy(ware)
    PROVE  HonestInv'
<1> DEFINE bought == Line(<<row.version + 1, 1>>, ware.name, ware.link, NoGear, 1)
           inv == Merged(row.inv, bought)
<1>1. row' = [row EXCEPT !.version = @ + 1, !.coins = @ - 1, !.inv = inv]
        /\ view' = view /\ form' = form /\ req' = req
  BY DEF Buy
<1>2. row \in Rows /\ row.version \in Nat /\ row.inv \in Seq(Lines) /\ Honest(row.inv)
  BY Parts, WholeRow DEF HonestInv
<1>3. ware.name \in Names /\ ware.link \in Items \cup {None}
  BY InventoryAssumption
<1>4. bought \in Lines /\ bought.gear = NoGear
  BY <1>2, <1>3 DEF Line, Lines, Ids, Gears
<1> HIDE DEF bought
<1>5. Honest(inv)
  BY <1>2, <1>4, MergedHonest
<1> HIDE DEF inv
<1>6. row'.inv = inv
  BY <1>1, <1>2 DEF Rows
<1> QED
  BY <1>1, <1>5, <1>6, HonestStep

LEMMA AnswerHonest ==
    ASSUME IInv, HonestInv, NEW r \in Requests,
           LoseAnswer(r) \/ Forget(r) \/ \E fetched \in BOOLEAN : Answer(r, fetched)
    PROVE  HonestInv'
<1>1. row' = row /\ Honest(row.inv)
  BY DEF LoseAnswer, Forget, Answer, HonestInv
<1>2. Idle.patch.inv = None
  BY IdleHonest
<1>3. [req[r] EXCEPT !.tab = None].patch = req[r].patch
  BY Parts DEF IsRequest
<1>4. req' = [req EXCEPT ![r] = [req[r] EXCEPT !.tab = None]] \/ req' = [req EXCEPT ![r] = Idle]
  BY DEF LoseAnswer, Forget, Answer
<1>5. \A s \in Requests : req'[s].patch = req[s].patch \/ req'[s].patch.inv = None
  BY <1>2, <1>3, <1>4, Parts
<1>6. (\A t \in Tabs : view'[t] = view[t] \/ view'[t] = row)
        /\ \A t \in Tabs : form'[t] = form[t] \/ form'[t] = row \/ form'[t] = None
  BY Parts DEF LoseAnswer, Forget, Answer
<1> QED
  BY <1>1, <1>5, <1>6, HonestStep

\* A new line has the stats of the row its name leads to, or none.
LEMMA CreatedHonest ==
    ASSUME NEW kit \in Kits, NEW seeded \in BOOLEAN, NEW wear \in BOOLEAN
    PROVE  Honest(Create(kit, seeded, wear))
<1> DEFINE bare == [i \in DOMAIN kit |-> Line(<<0, i>>, kit[i], None, NoGear, 1)]
           found == [i \in DOMAIN kit |-> IF seeded THEN Resolve(bare[i]) ELSE bare[i]]
           inv == Create(kit, seeded, wear)
<1>1. kit \in Seq(Names)
  BY InventoryAssumption
<1>2. DOMAIN kit = 1..Len(kit) /\ \A i \in DOMAIN kit : kit[i] \in Names /\ i \in Nat
  BY <1>1
<1>3. \A i \in DOMAIN kit : bare[i] \in Lines /\ bare[i].gear = NoGear
  BY <1>2 DEF Line, Lines, Ids, Gears
<1>4. inv = IF wear THEN AutoEquip(found) ELSE found
  BY DEF Create
<1> HIDE DEF bare, inv
<1>5. ASSUME NEW line \in Lines, line.gear = NoGear
      PROVE  Resolve(line) \in Lines /\ (Resolve(line).gear = NoGear \/ Genuine(Resolve(line)))
  <2>0. Resolve(line) \in Lines
    BY Resolved
  <2>1. CASE Cardinality(Denoted(line.name)) # 1
    BY <1>5, <2>0, <2>1 DEF Resolve
  <2>2. CASE Cardinality(Denoted(line.name)) = 1
    <3> DEFINE i == CHOOSE i \in Denoted(line.name) : TRUE
    <3>1. Denoted(line.name) # {}
      BY <2>2, FS_EmptySet
    <3>2. i \in Items /\ Fold[Catalog[i].name] = Alias[Fold[line.name]]
      BY <3>1 DEF Denoted
    <3>3. Resolve(line) = [line EXCEPT !.link = i, !.gear = GearOf(Catalog[i])]
      BY <2>2 DEF Resolve
    <3> HIDE DEF i
    <3>4. Resolve(line).name = line.name /\ Resolve(line).gear = GearOf(Catalog[i])
      BY <3>3 DEF Lines
    <3> QED
      BY <2>0, <3>2, <3>4 DEF Genuine
  <2> QED
    BY <2>1, <2>2
<1>6. \A i \in DOMAIN kit : found[i] \in Lines /\ (found[i].gear = NoGear \/ Genuine(found[i]))
  BY <1>3, <1>5
<1>7. DOMAIN found = DOMAIN kit
  OBVIOUS
<1> HIDE DEF found
<1>8. DOMAIN AutoEquip(found) = DOMAIN found
        /\ \A i \in DOMAIN found : /\ AutoEquip(found)[i].name = found[i].name
                                   /\ AutoEquip(found)[i].gear = found[i].gear
  <2>1. \A e \in Lines : [e EXCEPT !.equipped = TRUE].name = e.name /\ [e EXCEPT !.equipped = TRUE].gear = e.gear
    BY DEF Lines
  <2>2. \E worn : AutoEquip(found) = [i \in DOMAIN found |->
                     IF i \in worn THEN [found[i] EXCEPT !.equipped = TRUE] ELSE found[i]]
    BY DEF AutoEquip
  <2> QED
    BY <1>6, <1>7, <2>1, <2>2
<1>9. Honest(found)
  BY <1>6, <1>7 DEF Honest
<1>10. Honest(AutoEquip(found))
  BY <1>8, <1>9, SameNameAndGear DEF Honest
<1> QED
  BY <1>4, <1>9, <1>10 DEF inv

LEMMA InitHonest == Init => HonestInv
<1> SUFFICES ASSUME Init PROVE HonestInv
  OBVIOUS
<1>1. Honest(row.inv)
  BY CreatedHonest DEF Init
<1>2. \A t \in Tabs : view[t] = row /\ form[t] = None
  BY DEF Init
<1>3. \A r \in Requests : req[r].patch.inv = None
  BY IdleHonest DEF Init
<1> QED
  BY <1>1, <1>2, <1>3 DEF HonestInv

LEMMA StepHonest == IInv /\ HonestInv /\ [Next]_vars => HonestInv'
<1> SUFFICES ASSUME IInv, HonestInv, [Next]_vars PROVE HonestInv'
  OBVIOUS
<1>1. CASE UNCHANGED vars
  BY <1>1 DEF vars, HonestInv
<1>2. CASE \E t \in Tabs : \E i \in DOMAIN view[t].inv : Toggle(t, i) \/ RemoveItem(t, i)
  BY <1>2, ToggleHonest, RemoveHonest
<1>3. CASE \E t \in Tabs :
             \/ \E i \in DOMAIN view[t].inv : StartEdit(t, i)
             \/ CancelEdit(t) \/ Refetch(t) \/ OpenForm(t) \/ SubmitForm(t) \/ LeaveForm(t)
  BY <1>3, PageHonest
<1>4. CASE \E t \in Tabs : \E name \in Typed \cup {None}, q \in Quantities \cup {0} : SaveEdit(t, name, q)
  BY <1>4, EditHonest
<1>5. CASE \E t \in Tabs : \/ \E name \in Typed, q \in Quantities : Add(t, None, name, q)
                           \/ \E item \in Items, q \in Quantities : Add(t, item, None, q)
  BY <1>5, AddHonest
<1>6. CASE \E t \in Tabs : \/ \E by \in {1, -2} : AdjustCoin(t, by)
                           \/ \E name \in Typed : Attune(t, name)
                           \/ \E i \in DOMAIN view[t].attuned : Release(t, i)
  BY <1>6, OtherControlsHonest
<1>7. CASE \E ware \in Wares : Buy(ware)
  BY <1>7, BuyHonest
<1>8. CASE \E r \in Requests : \/ Write(r) \/ LoseAnswer(r) \/ Forget(r)
                               \/ \E fetched \in BOOLEAN : Answer(r, fetched)
  BY <1>8, WriteHonest, AnswerHonest
<1> QED
  BY <1>1, <1>2, <1>3, <1>4, <1>5, <1>6, <1>7, <1>8 DEF Next

\* The armor class is the best that the worn lines give by their names, whatever
\* was renamed, retyped, merged, bought or sent from an old copy.
THEOREM ArmorClassFollowsNamesHolds == Spec => []ArmorClassFollowsNames
<1>1. Spec => []HonestInv
  BY InitHonest, StepHonest, Invariant, PTL DEF Spec
<1>2. IInv /\ HonestInv => ArmorClassFollowsNames
  <2> SUFFICES ASSUME IInv, HonestInv, NEW dex \in Dexterities
               PROVE  ArmorClass(row.inv, dex) = NamedArmorClass(row.inv, dex)
    BY DEF ArmorClassFollowsNames
  <2>1. row.inv \in Seq(Lines) /\ Honest(row.inv) /\ dex \in Int
    BY Parts, WholeRow, InventoryAssumption DEF HonestInv
  <2> QED
    BY <2>1, ByName
<1> QED
  BY <1>1, <1>2, Invariant, PTL
================================================================================
