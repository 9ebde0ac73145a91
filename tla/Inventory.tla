------------------------------- MODULE Inventory -------------------------------
(***************************************************************************)
(* The inventory, the coins and the attuned items of one character's sheet, *)
(* changed from several tabs (frontend/src/app/characters/[id]), by the      *)
(* edit form and by purchases.                                              *)
(*                                                                         *)
(* A tab sends whole arrays computed from the row its query cache holds,     *)
(* `view`, and addresses lines by position; the row may have been written    *)
(* since. Every write carries `expectedVersion`. The ghosts follow the lines *)
(* themselves: id tells a line from all others, and a request remembers what *)
(* the player aimed at.                                                     *)
(***************************************************************************)
EXTENDS Gear

CONSTANTS
    Tabs, Requests,
    Kits,         \* sequences of names a character is created with
    Typed,        \* names the player types
    Wares,        \* what shops sell: [name, link]
    Quantities,   \* quantities the player types; an empty box is 0
    Dexterities,  \* dexterity modifiers
    Purses, MaxCoins, Slots,
    MaxLines,     \* bounds the inventory
    MaxVersion    \* bounds the writes, those asked for included

Names == DOMAIN Fold

ASSUME InventoryAssumption ==
    /\ Kits \subseteq Seq(Names) /\ Typed \subseteq Names
    /\ Wares \subseteq [name : Names, link : Items \cup {None}]
    /\ {Purses, Quantities} \subseteq SUBSET Nat
    /\ {MaxCoins, Slots, MaxLines, MaxVersion} \subseteq Nat /\ Dexterities \subseteq Int
    /\ None \notin Items \cup Names \cup Tabs

VARIABLES
    row,      \* the character's row: version, inv, coins and attuned
    view,     \* view[t]: the row in tab t's query cache
    editing,  \* editing[t]: the line tab t's row editor is open on, or None
    saving,   \* saving[t]: a write of tab t is in flight (isSaving)
    form,     \* form[t]: the row tab t's edit form was filled from, or None
    req       \* req[r]: where request r is

vars == <<row, view, editing, saving, form, req>>

Ids == Nat \X Nat
Lines ==
    [id : Ids, name : Names, link : Items \cup {None}, gear : Gears,
     quantity : Nat \ {0}, equipped : BOOLEAN]
Rows == [version : Nat, inv : Seq(Lines), coins : Nat, attuned : Seq([id : Ids, name : Names])]

\* The fields a request sends; None is a field it does not send.
Patches ==
    [inv : Seq(Lines) \cup {None}, coins : Nat \cup {None},
     attuned : Seq([id : Ids, name : Names]) \cup {None}]

ASSUME NoneAssumption ==
    None \notin Rows \cup Seq(Lines) \cup Seq([id : Ids, name : Names]) \cup Nat
                  \cup [index : Nat, id : Ids, name : Names]

NothingSent == [inv |-> None, coins |-> None, attuned |-> None]

Line(id, name, link, gear, quantity) ==
    [id |-> id, name |-> name, link |-> link, gear |-> gear, quantity |-> quantity,
     equipped |-> FALSE]

Idle == [at |-> "idle", tab |-> None, aim |-> None, expected |-> 0, patch |-> NothingSent]

Distinct(list) == \A i, j \in DOMAIN list : list[i].id = list[j].id => i = j

IsRequest(q) ==
    /\ q = [at |-> q.at, tab |-> q.tab, aim |-> q.aim, expected |-> q.expected, patch |-> q.patch]
    /\ q.at \in {"idle", "sent", "saved", "conflict"} /\ q.tab \in Tabs \cup {None}
    /\ q.expected \in Nat /\ q.patch \in Patches

\* Types: no line of quantity 0, no debts; the lines stay apart, and no more is
\* attuned than there are slots.
TypeOK ==
    /\ row \in Rows /\ Distinct(row.inv) /\ Len(row.attuned) <= Slots
    /\ view \in [Tabs -> Rows]
    /\ editing \in [Tabs -> [index : Nat, id : Ids, name : Names] \cup {None}]
    /\ saving \in [Tabs -> BOOLEAN]
    /\ form \in [Tabs -> Rows \cup {None}]
    /\ req = [r \in Requests |-> req[r]] /\ \A r \in Requests : IsRequest(req[r])

\* create; the guided builder asks for its armor to be put on. Before the first
\* seed there is no catalog.
Create(kit, seeded, wear) ==
    LET bare == [i \in DOMAIN kit |-> Line(<<0, i>>, kit[i], None, NoGear, 1)]
        inv == [i \in DOMAIN kit |-> IF seeded THEN Resolve(bare[i]) ELSE bare[i]]
    IN  IF wear THEN AutoEquip(inv) ELSE inv

Init ==
    /\ \E kit \in Kits, seeded, wear \in BOOLEAN, coins \in Purses :
         row = [version |-> 0, inv |-> Create(kit, seeded, wear), coins |-> coins,
                attuned |-> <<>>]
    /\ view = [t \in Tabs |-> row]
    /\ editing = [t \in Tabs |-> None]
    /\ saving = [t \in Tabs |-> FALSE]
    /\ form = [t \in Tabs |-> None]
    /\ req = [r \in Requests |-> Idle]
--------------------------------------------------------------------------------
(* The tab *)

Pending == {r \in Requests : req[r].at = "sent"}

\* The write of tab t: `expectedVersion` is the version in the query cache.
Send(t, aim, patch) ==
    /\ ~saving[t] /\ row.version + Cardinality(Pending) < MaxVersion
    /\ \E r \in Requests :
         /\ req[r] = Idle
         /\ req' = [req EXCEPT ![r] = [at |-> "sent", tab |-> t, aim |-> aim,
                                       expected |-> view[t].version, patch |-> patch]]
    /\ saving' = [saving EXCEPT ![t] = TRUE]

\* A control of the sheet, which is shown when the edit form is not.
Play(t, aim, patch) ==
    /\ form[t] = None
    /\ Send(t, aim, patch)
    /\ UNCHANGED <<row, view, form>>

Keep(t) == editing' = editing
Close(t) == editing' = [editing EXCEPT ![t] = None]

\* The ghost of the line that the next write of tab t adds.
NewId(t) == <<view[t].version + 1, 1>>

Toggle(t, i) ==
    LET e == view[t].inv[i]
    IN  /\ Play(t, [kind |-> "toggle", id |-> e.id],
                [NothingSent EXCEPT !.inv = Altered(view[t].inv, i, [e EXCEPT !.equipped = ~@])])
        /\ Keep(t)

RemoveItem(t, i) ==
    /\ Play(t, [kind |-> "remove", id |-> view[t].inv[i].id],
            [NothingSent EXCEPT !.inv = RemoveAt(view[t].inv, i)])
    /\ Close(t)

\* startEdit; the draft matters when it is saved.
StartEdit(t, i) ==
    /\ form[t] = None /\ ~saving[t]
    /\ editing' = [editing EXCEPT ![t] = [index |-> i, id |-> view[t].inv[i].id, name |-> view[t].inv[i].name]]
    /\ UNCHANGED <<row, view, saving, form, req>>

CancelEdit(t) ==
    /\ editing[t] # None /\ ~saving[t]
    /\ Close(t)
    /\ UNCHANGED <<row, view, saving, form, req>>

\* Mutated form: the name alone is written over.
Relabelled(e, name) == [e EXCEPT !.name = name]

\* A rename drops the catalog link and the gear of the old item.
Renamed(e, name) ==
    IF name = e.name THEN e ELSE Stripped([e EXCEPT !.name = name])

\* The transforms of an array leave it as it is when the position is outside.
Edited(inv, i, name, quantity) ==
    IF i \notin DOMAIN inv THEN inv
    ELSE Altered(inv, i, [Renamed(inv[i], name) EXCEPT !.quantity = NoLess(quantity, 1)])

\* The draft's name is the line's until it is typed over.
SaveEdit(t, typed, quantity) ==
    LET name == IF typed = None THEN editing[t].name ELSE typed
        aim == [kind |-> "edit", id |-> editing[t].id, name |-> name,
                quantity |-> NoLess(quantity, 1)]
    IN  /\ editing[t] # None
        /\ Play(t, aim,
                [NothingSent EXCEPT !.inv = Edited(view[t].inv, editing[t].index, name, quantity)])
        /\ Close(t)

\* The add form: filled from the catalog or not, then typed over or not. Typing
\* a name clears what the picker had filled in.
Draft(picked, typed) ==
    IF typed # None THEN [name |-> typed, link |-> None, gear |-> NoGear]
    ELSE [name |-> Catalog[picked].name, link |-> picked, gear |-> GearOf(Catalog[picked])]

Add(t, picked, typed, quantity) ==
    LET d == Draft(picked, typed)
        line == Line(NewId(t), d.name, d.link, d.gear, NoLess(quantity, 1))
    IN  /\ Len(view[t].inv) < MaxLines
        /\ Play(t, [kind |-> "add", line |-> line],
                [NothingSent EXCEPT !.inv = Append(view[t].inv, line)])
        /\ Keep(t)

\* Mutated form: a purse may go into debt.
InDebt(coins, by) == coins + by

Adjusted(coins, by) == NoLess(coins + by, 0)

AdjustCoin(t, by) ==
    LET next == Adjusted(view[t].coins, by)
    IN  /\ next # view[t].coins /\ next <= MaxCoins
        /\ Play(t, [kind |-> "coins", by |-> by], [NothingSent EXCEPT !.coins = next])
        /\ Keep(t)

Attune(t, name) ==
    /\ Len(view[t].attuned) < Slots
    /\ Play(t, [kind |-> "attune", name |-> name],
            [NothingSent EXCEPT !.attuned =
                Append(view[t].attuned, [id |-> NewId(t), name |-> name])])
    /\ Keep(t)

Release(t, i) ==
    /\ Play(t, [kind |-> "release", id |-> view[t].attuned[i].id],
            [NothingSent EXCEPT !.attuned = RemoveAt(view[t].attuned, i)])
    /\ Keep(t)

\* Mutated form: an open editor stays where it is.
StillOpen(t, s) == editing[t]

\* A change of version closes the row editor.
EditorAfter(t, s) == IF s.version = view[t].version THEN editing[t] ELSE None

\* The query is fetched again: after a write, after a 409, when the network is
\* back, or when a page mounts on a cache that has gone stale.
Refetch(t) ==
    /\ view[t] # row
    /\ view' = [view EXCEPT ![t] = row]
    /\ editing' = [editing EXCEPT ![t] = EditorAfter(t, row)]
    /\ UNCHANGED <<row, saving, form, req>>

\* The edit page replaces the sheet. Its form is filled once, from the cache.
OpenForm(t) ==
    /\ form[t] = None
    /\ form' = [form EXCEPT ![t] = view[t]]
    /\ Close(t)
    /\ saving' = [saving EXCEPT ![t] = FALSE]
    /\ req' = [r \in Requests |->
                  IF req[r].tab # t THEN req[r]
                  ELSE IF r \in Pending THEN [req[r] EXCEPT !.tab = None]
                  ELSE Idle]
    /\ UNCHANGED <<row, view>>

\* The form sends the inventory and the coins as they were when it was filled.
SubmitForm(t) ==
    /\ form[t] # None
    /\ Send(t, None, [NothingSent EXCEPT !.inv = form[t].inv, !.coins = form[t].coins])
    /\ UNCHANGED <<row, view, editing, form>>

LeaveForm(t) ==
    /\ form[t] # None /\ ~saving[t]
    /\ form' = [form EXCEPT ![t] = None]
    /\ UNCHANGED <<row, view, editing, saving, req>>
--------------------------------------------------------------------------------
(* The server *)

\* What became of the request, if there is still a tab to tell.
Done(r, at) ==
    IF req[r].tab = None THEN Idle ELSE [Idle EXCEPT !.at = at, !.tab = req[r].tab]

\* Mutated form: the write is not guarded by the version.
Unguarded(r) == TRUE

Guard(r) == row.version = req[r].expected

Patched(s, patch) ==
    [version |-> s.version + 1,
     inv |-> IF patch.inv = None THEN s.inv ELSE patch.inv,
     coins |-> IF patch.coins = None THEN s.coins ELSE patch.coins,
     attuned |-> IF patch.attuned = None THEN s.attuned ELSE patch.attuned]

\* writeCharacter
Write(r) ==
    /\ req[r].at = "sent"
    /\ IF Guard(r)
       THEN /\ row' = Patched(row, req[r].patch)
            /\ req' = [req EXCEPT ![r] = Done(r, "saved")]
       ELSE /\ req' = [req EXCEPT ![r] = Done(r, "conflict")]
            /\ UNCHANGED row
    /\ UNCHANGED <<view, editing, saving, form>>

\* A purchase reads the row and writes it guarded by the version it read; one
\* that finds a newer version changes nothing. A ware costs a coin.
Buy(ware) ==
    LET bought == Line(<<row.version + 1, 1>>, ware.name, ware.link, NoGear, 1)
        inv == Merged(row.inv, bought)
    IN  /\ row.coins > 0 /\ row.version + Cardinality(Pending) < MaxVersion
        /\ Len(inv) <= MaxLines
        /\ row' = [row EXCEPT !.version = @ + 1, !.coins = @ - 1, !.inv = inv]
        /\ UNCHANGED <<view, editing, saving, form, req>>
--------------------------------------------------------------------------------
(* The answer *)

\* A saved form is left. After a conflict the form is filled again, unless the
\* fetch it waits for fails.
Answer(r, fetched) ==
    LET t == req[r].tab
        edit == form[t] # None
        again == edit /\ req[r].at = "conflict" /\ fetched
    IN  /\ req[r].at \in {"saved", "conflict"}
        /\ saving' = [saving EXCEPT ![t] = FALSE]
        /\ req' = [req EXCEPT ![r] = Idle]
        /\ view' = IF again THEN [view EXCEPT ![t] = row] ELSE view
        /\ form' = IF again THEN [form EXCEPT ![t] = row]
                   ELSE IF edit /\ req[r].at = "saved" THEN [form EXCEPT ![t] = None]
                   ELSE form
        /\ UNCHANGED <<row, editing>>

\* The tab is told of a failure. A request that was not handled yet may still be.
LoseAnswer(r) ==
    /\ req[r].tab # None
    /\ saving' = [saving EXCEPT ![req[r].tab] = FALSE]
    /\ req' = [req EXCEPT ![r] = IF r \in Pending THEN [@ EXCEPT !.tab = None] ELSE Idle]
    /\ UNCHANGED <<row, view, editing, form>>

\* A request nobody waits for never arrives.
Forget(r) ==
    /\ req[r].tab = None /\ req[r].at = "sent"
    /\ req' = [req EXCEPT ![r] = Idle]
    /\ UNCHANGED <<row, view, editing, saving, form>>

Next ==
    \/ \E t \in Tabs :
         \/ \E i \in DOMAIN view[t].inv : Toggle(t, i) \/ RemoveItem(t, i) \/ StartEdit(t, i)
         \/ CancelEdit(t)
         \/ \E name \in Typed \cup {None}, q \in Quantities \cup {0} : SaveEdit(t, name, q)
         \/ \E name \in Typed, q \in Quantities : Add(t, None, name, q)
         \/ \E item \in Items, q \in Quantities : Add(t, item, None, q)
         \/ \E by \in {1, -2} : AdjustCoin(t, by)
         \/ \E name \in Typed : Attune(t, name)
         \/ \E i \in DOMAIN view[t].attuned : Release(t, i)
         \/ Refetch(t)
         \/ OpenForm(t) \/ SubmitForm(t) \/ LeaveForm(t)
    \/ \E ware \in Wares : Buy(ware)
    \/ \E r \in Requests :
         \/ Write(r) \/ LoseAnswer(r) \/ Forget(r)
         \/ \E fetched \in BOOLEAN : Answer(r, fetched)

Spec == Init /\ [][Next]_vars
--------------------------------------------------------------------------------
\* The row t is the row s but for what the player aimed at.
Reaches(aim, s, t) ==
    LET At(list) == {i \in DOMAIN list : list[i].id = aim.id}
        Entry == [id |-> <<s.version + 1, 1>>, name |-> aim.name]
    IN  /\ t.version = s.version + 1
        /\ aim.kind \in {"toggle", "remove", "edit", "add"} \/ t.inv = s.inv
        /\ aim.kind = "coins" \/ t.coins = s.coins
        /\ aim.kind \in {"attune", "release"} \/ t.attuned = s.attuned
        /\ aim.kind = "toggle" =>
             \E i \in At(s.inv) : t.inv = [s.inv EXCEPT ![i].equipped = ~@]
        /\ aim.kind = "remove" => \E i \in At(s.inv) : t.inv = RemoveAt(s.inv, i)
        /\ aim.kind = "edit" =>
             \E i \in At(s.inv) :
               LET e == s.inv[i]
                   kept == aim.name = e.name
               IN  t.inv = [s.inv EXCEPT ![i] =
                     [id |-> e.id, name |-> aim.name, link |-> IF kept THEN e.link ELSE None,
                      gear |-> IF kept THEN e.gear ELSE NoGear, quantity |-> aim.quantity,
                      equipped |-> e.equipped]]
        /\ aim.kind = "add" => t.inv = Append(s.inv, aim.line)
        /\ aim.kind = "coins" => t.coins = NoLess(s.coins + aim.by, 0)
        /\ aim.kind = "attune" => t.attuned = Append(s.attuned, Entry)
        /\ aim.kind = "release" =>
             \E i \in At(s.attuned) : t.attuned = RemoveAt(s.attuned, i)

Commits(r) == req[r].at = "sent" /\ req'[r] # req[r] /\ row' # row

\* A write of the sheet changes the line, the coins or the attuned item that the
\* player aimed at on the page, in the row as it is now, and nothing else:
\* positions do not slip, and what other tabs, shops and the form wrote
\* meanwhile is not undone.
WriteReachesItsItem ==
    [][\A r \in Requests : Commits(r) /\ req[r].aim # None => Reaches(req[r].aim, row, row')]_vars

\* A line gives what an item gives that its name, or the name it is an alias of,
\* spells.
Genuine(e) == \E i \in Items : /\ Fold[Catalog[i].name] \in {Fold[e.name], Alias[Fold[e.name]]}
                               /\ GearOf(Catalog[i]) = e.gear

NamedArmorClass(inv, dex) ==
    LET worn == {inv[i].gear : i \in {i \in DOMAIN inv : inv[i].equipped /\ Genuine(inv[i])}}
        bodies == {g \in worn : g # NoGear /\ g.type \in BodyArmor}
        bonuses == {g.ac : g \in {g \in worn : g # NoGear /\ g.type = "shield"}} \cup {0}
        worths == {Worth(g, dex) : g \in bodies}
    IN  (IF bodies = {} THEN 10 + dex ELSE Max(worths)) + Max(bonuses)

\* The armor class is the best that the worn lines give by their names: one body
\* armor, whatever its base, and one shield. A line that was renamed, retyped or
\* bought carries no item's stats along.
ArmorClassFollowsNames ==
    \A dex \in Dexterities : ArmorClass(row.inv, dex) = NamedArmorClass(row.inv, dex)
================================================================================
