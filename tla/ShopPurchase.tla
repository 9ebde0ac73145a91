----------------------------- MODULE ShopPurchase -----------------------------
(***************************************************************************)
(* A shop and the characters that buy from it: the purchase transaction     *)
(* (shop-purchase.service.ts, purchase.domain.ts), the storefront that      *)
(* starts it (ShopPurchasePanel.tsx), the owner's unguarded edits of the    *)
(* shop (shops.service.ts) and the writes of a character's sheet that race  *)
(* it: the sheet's quick actions and the editor form                        *)
(* (useCharacterMutation.ts, characters/[id]/edit/page.tsx).                *)
(*                                                                         *)
(* A shop line is a ware, a price and a stock.  Each buyer's client has one *)
(* query cache, for the storefront, the sheet and the editor.              *)
(***************************************************************************)
EXTENDS Coins, Sequences

CONSTANTS
    Buyers,     \* characters, each with its player
    Editing,    \* those whose player also writes the sheet
    Silent,     \* those whose client does not send the versions it holds
    Wares,
    Prices,     \* the price of a unit
    Stocks,     \* finite stocks the owner puts on a line
    Quantities, \* what a buyer asks for
    Purses,     \* purses a player may set on the sheet
    Requests,   \* purchase requests under way at once
    None,       \* unlimited stock, no form, no request
    MaxLines,   \* bound: lines of the shop
    MaxShop,    \* bound: no write of the shop beyond this version
    MaxSheet    \* bound: no write of a sheet beyond this version

ASSUME ShopAssumption ==
    /\ Prices \subseteq Currency /\ Purses \subseteq Currency
    /\ Stocks \subseteq Nat /\ Quantities \subseteq Nat \ {0}
    /\ MaxLines \in Nat /\ MaxShop \in Nat /\ MaxSheet \in Nat
    /\ Editing \subseteq Buyers /\ Silent \subseteq Buyers
    /\ None \notin Nat

VARIABLES
    shop,    \* the shop's row
    sheet,   \* sheet[b]: the purse, goods and version of character b's row
    front,   \* front[b]: both rows as b's client has them in its cache
    waiting, \* waiting[b]: the request whose answer b's storefront waits for
    order,   \* order[r]: the purchase request r
    form,    \* form[b]: the row b's editor form was filled in from
    stocking \* the lines in the owner's edit form

vars == <<shop, sheet, front, waiting, order, form, stocking>>

Line == [ware : Wares, price : Prices, stock : Nat \cup {None}]
Shop == [lines : Seq(Line), open : BOOLEAN, version : Nat]
Sheet == [coins : Currency, goods : [Wares -> Nat], version : Nat]

Page == [shop : Shop, sheet : Sheet]

Idle == [pc |-> "idle"]

Order == [pc : {"sent", "shopRead", "priced"}, by : Buyers,
          index : Nat \ {0}, quantity : Quantities, echo : Page \cup {None},
          shop : Shop \cup {None}, sheet : Sheet \cup {None}]

\* Purses, goods and stocks never go below nothing, though purchases check
\* and subtract on rows they read before.
TypeOK ==
    /\ shop \in Shop
    /\ sheet \in [Buyers -> Sheet]
    /\ front \in [Buyers -> Page]
    /\ waiting \in [Buyers -> Requests \cup {None}]
    /\ order \in [Requests -> {Idle} \cup Order]
    /\ form \in [Buyers -> Sheet \cup {None}]
    /\ stocking \in Seq(Line) \cup {None}

Counts == Stocks \cup {None}

Stocked == [ware : Wares, price : Prices, stock : Counts]

Init ==
    /\ shop \in [lines : UNION {[1 .. n -> Stocked] : n \in 0 .. MaxLines},
                 open : {TRUE}, version : {0}]
    /\ \E purse \in Purses :
         sheet = [b \in Buyers |->
                    [coins |-> purse, goods |-> [w \in Wares |-> 0], version |-> 0]]
    /\ front = [b \in Buyers |-> [shop |-> shop, sheet |-> sheet[b]]]
    /\ waiting = [b \in Buyers |-> None]
    /\ order = [r \in Requests |-> Idle]
    /\ form = [b \in Buyers |-> None]
    /\ stocking = None

-----------------------------------------------------------------------------
(* The rules of a purchase (purchase.domain.ts).                            *)

Covers(line, quantity) == line.stock # None => quantity <= line.stock

\* Mutated form: a purse pays for one unit of what it cannot afford.
CoversUnit(coins, line, quantity) == CanAfford(coins, line.price)

Affords(coins, line, quantity) == CanAfford(coins, LineTotal(line.price, quantity))

Paid(s, line, quantity) ==
    [s EXCEPT !.coins = Settle(@, LineTotal(line.price, quantity)),
              !.goods[line.ware] = @ + quantity]

Sold(lines, n, quantity) ==
    [lines EXCEPT ![n].stock = IF @ = None THEN None ELSE @ - quantity]

\* Mutated form: an owner's edit that leaves the version alone.
Unversioned(row) == row

\* version: { increment: 1 }
Bumped(row) == [row EXCEPT !.version = @ + 1]

-----------------------------------------------------------------------------
(* The storefront.  A click echoes the versions on the page, which the API  *)
(* leaves to the client; an answer lost on the way lets the player click    *)
(* again while the request still runs.                                      *)

Click(b, r) ==
    /\ waiting[b] = None /\ form[b] = None
    /\ order[r] = Idle
    /\ front[b].shop.open
    /\ \E n \in 1 .. Len(front[b].shop.lines), quantity \in Quantities :
         /\ Covers(front[b].shop.lines[n], quantity)
         /\ Affords(front[b].sheet.coins, front[b].shop.lines[n], quantity)
         /\ order' = [order EXCEPT ![r] =
              [pc |-> "sent", by |-> b, index |-> n, quantity |-> quantity,
               echo |-> IF b \in Silent THEN None ELSE front[b],
               shop |-> None, sheet |-> None]]
    /\ waiting' = [waiting EXCEPT ![b] = r]
    /\ UNCHANGED <<shop, sheet, front, form, stocking>>

GiveUp(b) ==
    /\ waiting[b] # None
    /\ waiting' = [waiting EXCEPT ![b] = None]
    /\ UNCHANGED <<shop, sheet, front, order, form, stocking>>

RefetchShop(b) ==
    /\ front' = [front EXCEPT ![b].shop = shop]
    /\ UNCHANGED <<shop, sheet, waiting, order, form, stocking>>

RefetchSheet(b) ==
    /\ front' = [front EXCEPT ![b].sheet = sheet[b]]
    /\ UNCHANGED <<shop, sheet, waiting, order, form, stocking>>

-----------------------------------------------------------------------------
(* ShopPurchaseService.purchase.                                           *)

ReadShop(r) ==
    /\ order[r].pc = "sent"
    /\ shop.open
    /\ order' = [order EXCEPT ![r].pc = "shopRead", ![r].shop = shop]
    /\ UNCHANGED <<shop, sheet, front, waiting, form, stocking>>

Chosen(r) == order[r].shop.lines[order[r].index]

Sellable(r) == /\ order[r].index <= Len(order[r].shop.lines)
               /\ Covers(Chosen(r), order[r].quantity)
               /\ Affords(sheet[order[r].by].coins, Chosen(r), order[r].quantity)

ReadSheet(r) ==
    /\ order[r].pc = "shopRead"
    /\ Sellable(r)
    /\ order' = [order EXCEPT ![r].pc = "priced", ![r].sheet = sheet[order[r].by]]
    /\ UNCHANGED <<shop, sheet, front, waiting, form, stocking>>

Finish(r) ==
    /\ order' = [order EXCEPT ![r] = Idle]
    /\ waiting' = [b \in Buyers |-> IF waiting[b] = r THEN None ELSE waiting[b]]

\* Closed, or no such line, too little stock, too little coin.
Refuse(r) ==
    /\ \/ order[r].pc = "sent" /\ ~shop.open
       \/ order[r].pc = "shopRead" /\ ~Sellable(r)
    /\ Finish(r)
    /\ UNCHANGED <<shop, sheet, front, form, stocking>>

Finite(r) == Chosen(r).stock # None

Echoes(r) == order[r].echo # None

\* The versions a write is guarded on: the client's echo, or what was read.
Guards(r) == IF Echoes(r) THEN order[r].echo
             ELSE [shop |-> order[r].shop, sheet |-> order[r].sheet]

\* Mutated form: the sheet's version is not compared.
ShopUnmoved(r) == Finite(r) => shop.version = Guards(r).shop.version

\* The two updateMany guards: only a finite line looks at the shop's version.
Unmoved(r) ==
    /\ Finite(r) => shop.version = Guards(r).shop.version
    /\ sheet[order[r].by].version = Guards(r).sheet.version

Commit(r) ==
    /\ order[r].pc = "priced"
    /\ Unmoved(r)
    /\ Finite(r) => Guards(r).shop.version < MaxShop
    /\ Guards(r).sheet.version < MaxSheet
    /\ shop' = IF Finite(r)
               THEN Bumped([shop EXCEPT !.lines =
                              Sold(order[r].shop.lines, order[r].index, order[r].quantity)])
               ELSE shop
    /\ sheet' = [sheet EXCEPT ![order[r].by] =
         LET paid == Paid(order[r].sheet, Chosen(r), order[r].quantity)
         IN Bumped([@ EXCEPT !.coins = paid.coins, !.goods = paid.goods])]
    /\ Finish(r)
    /\ UNCHANGED <<front, form, stocking>>

\* 409, and the transaction rolls back.
Conflict(r) ==
    /\ order[r].pc = "priced"
    /\ ~Unmoved(r)
    /\ Finish(r)
    /\ UNCHANGED <<shop, sheet, front, form, stocking>>

-----------------------------------------------------------------------------
(* The owner's edit page sends every line it was opened with, edited or     *)
(* not, and no version.                                                    *)

OpenShopForm ==
    /\ stocking = None
    /\ stocking' = shop.lines
    /\ UNCHANGED <<shop, sheet, front, waiting, order, form>>

Repriced(lines) == {[lines EXCEPT ![n].price = p] : n \in 1 .. Len(lines), p \in Prices}

Restocked(lines) == {[lines EXCEPT ![n].stock = k] : n \in 1 .. Len(lines), k \in Counts}

Dropped(lines, n) == SubSeq(lines, 1, n - 1) \o SubSeq(lines, n + 1, Len(lines))

Reduced(lines) == {Dropped(lines, n) : n \in 1 .. Len(lines)}

Extended(lines) == {Append(lines, line) : line \in {s \in Stocked : Len(lines) < MaxLines}}

Edits(lines) == {lines} \cup Repriced(lines) \cup Restocked(lines)
                        \cup Reduced(lines) \cup Extended(lines)

SaveShop ==
    /\ stocking # None
    /\ shop.version < MaxShop
    /\ \E lines \in Edits(stocking), open \in BOOLEAN :
         shop' = Bumped([shop EXCEPT !.lines = lines, !.open = open])
    /\ stocking' = None
    /\ UNCHANGED <<sheet, front, waiting, order, form>>

-----------------------------------------------------------------------------
(* The sheet.  A quick action writes from the cached row, under its          *)
(* version.  The editor form is seeded once, from whatever the cache then   *)
(* holds, and is saved under the version the cache holds by then.           *)

SetPurse(b) ==
    /\ form[b] = None
    /\ front[b].sheet.version = sheet[b].version
    /\ sheet[b].version < MaxSheet
    /\ \E coins \in Purses : sheet' = [sheet EXCEPT ![b] = Bumped([@ EXCEPT !.coins = coins])]
    /\ UNCHANGED <<shop, front, waiting, order, form, stocking>>

OpenEditor(b) ==
    /\ form[b] = None
    /\ form' = [form EXCEPT ![b] = front[b].sheet]
    /\ UNCHANGED <<shop, sheet, front, waiting, order, stocking>>

SaveEditor(b) ==
    /\ form[b] # None
    /\ front[b].sheet.version = sheet[b].version
    /\ sheet[b].version < MaxSheet
    /\ sheet' = [sheet EXCEPT ![b] =
         Bumped([@ EXCEPT !.coins = form[b].coins, !.goods = form[b].goods])]
    /\ form' = [form EXCEPT ![b] = None]
    /\ UNCHANGED <<shop, front, waiting, order, stocking>>

\* 409: the row is fetched again and the form seeded from it.
ReloadEditor(b) ==
    /\ form[b] # None
    /\ front[b].sheet.version # sheet[b].version
    /\ front' = [front EXCEPT ![b].sheet = sheet[b]]
    /\ form' = [form EXCEPT ![b] = sheet[b]]
    /\ UNCHANGED <<shop, sheet, waiting, order, stocking>>

LeaveEditor(b) ==
    /\ form[b] # None
    /\ form' = [form EXCEPT ![b] = None]
    /\ UNCHANGED <<shop, sheet, front, waiting, order, stocking>>

Next ==
    \/ \E b \in Buyers :
         \/ \E r \in Requests : Click(b, r)
         \/ GiveUp(b) \/ RefetchShop(b) \/ RefetchSheet(b)
    \/ \E b \in Editing :
         \/ SetPurse(b)
         \/ OpenEditor(b) \/ SaveEditor(b) \/ ReloadEditor(b) \/ LeaveEditor(b)
    \/ \E r \in Requests :
         ReadShop(r) \/ ReadSheet(r) \/ Refuse(r) \/ Commit(r) \/ Conflict(r)
    \/ OpenShopForm \/ SaveShop

Spec == Init /\ [][Next]_vars

-----------------------------------------------------------------------------
(* Properties.                                                             *)

\* "Guard each write on the version we read (or the client's echo) ... so two
\* concurrent buyers can't both settle off the same snapshot": a sale whose
\* client echoes its versions comes from a page that shows the purse, and for a
\* finite line the shop, exactly as they are at that moment.  So neither a
\* click repeated after a lost answer, nor another buyer, nor the owner's edit
\* or closing of the shop gets in between unnoticed.
SaleMatchesPage ==
    [][\A r \in Requests : Commit(r) /\ Echoes(r) =>
         /\ sheet[order[r].by] = order[r].echo.sheet
         /\ Finite(r) => shop = order[r].echo.shop]_vars

\* "move coin, goods, and stock in one atomic, version-guarded transaction",
\* "even a client that never opted into explicit locking is safe": counted
\* from the rows as they are, a sale takes the price of what it adds, whatever
\* coins it is paid and changed in, and a finite stock goes down by as much.
SaleSettles ==
    [][\A r \in Requests : Commit(r) =>
         LET s == sheet[order[r].by]
             t == sheet'[order[r].by]
             line == Chosen(r)
         IN /\ ToCopper(t.coins) =
                 ToCopper(s.coins) - ToCopper(line.price) * order[r].quantity
            /\ t.goods[line.ware] = s.goods[line.ware] + order[r].quantity
            /\ \A w \in Wares \ {line.ware} : t.goods[w] = s.goods[w]
            /\ Finite(r) =>
                 shop'.lines = Sold(shop.lines, order[r].index, order[r].quantity)]_vars


\* "Optimistic-locking guard: reject if the row moved on since we loaded it,
\* rather than silently clobbering a concurrent edit": a save that is let
\* through was filled in from the row it replaces.
EditorKeepsNewerSheet ==
    [][\A b \in Buyers : SaveEditor(b) => form[b] = sheet[b]]_vars
=============================================================================
