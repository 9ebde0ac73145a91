-------------------------- MODULE ShopPurchase_proofs --------------------------
(***************************************************************************)
(* A purchase settles from the rows its page showed, and from the rows as   *)
(* they are, for any number of buyers, requests, tabs and edits.           *)
(***************************************************************************)
EXTENDS ShopPurchase, SequenceTheorems, TLAPS

-----------------------------------------------------------------------------
(* Change is exact: re-denominating a sum keeps its worth, and a purchase   *)
(* takes exactly the price from a purse that covers it.                    *)

LEMMA Division ==
    /\ \A m \in Nat : m % 1000 \in Nat /\ m \div 1000 \in Nat
                        /\ m = 1000 * (m \div 1000) + (m % 1000)
    /\ \A m \in Nat : m % 100 \in Nat /\ m \div 100 \in Nat
                        /\ m = 100 * (m \div 100) + (m % 100)
    /\ \A m \in Nat : m % 10 \in Nat /\ m \div 10 \in Nat
                        /\ m = 10 * (m \div 10) + (m % 10)
<1>1. ASSUME NEW m \in Nat
      PROVE  m % 1000 \in Nat /\ m \div 1000 \in Nat /\ m = 1000 * (m \div 1000) + (m % 1000)
  OBVIOUS
<1>2. ASSUME NEW m \in Nat
      PROVE  m % 100 \in Nat /\ m \div 100 \in Nat /\ m = 100 * (m \div 100) + (m % 100)
  OBVIOUS
<1>3. ASSUME NEW m \in Nat
      PROVE  m % 10 \in Nat /\ m \div 10 \in Nat /\ m = 10 * (m \div 10) + (m % 10)
  OBVIOUS
<1>4. QED
  BY <1>1, <1>2, <1>3

\* The breakdown of a sum is a purse of that worth, without electrum.
THEOREM FromCopperExact ==
    ASSUME NEW n \in Nat
    PROVE  /\ FromCopper(n) \in Currency
           /\ ToCopper(FromCopper(n)) = n
           /\ FromCopper(n).ep = 0
<1>1. PICK p \in Nat : p = n % 1000
  BY Division
<1>2. PICK g \in Nat : g = p % 100
  BY Division
<1>3. PICK pp \in Nat, gp \in Nat, sp \in Nat, cp \in Nat :
        /\ n = 1000 * pp + p /\ p = 100 * gp + g /\ g = 10 * sp + cp
        /\ pp = n \div 1000 /\ gp = p \div 100 /\ sp = g \div 10 /\ cp = g % 10
  BY <1>1, <1>2, Division
<1>4. FromCopper(n) = [pp |-> pp, gp |-> gp, ep |-> 0, sp |-> sp, cp |-> cp]
  BY <1>1, <1>2, <1>3 DEF FromCopper
<1>5. QED
  BY <1>3, <1>4 DEF Currency, ToCopper

LEMMA ToCopperTyped == \A c \in Currency : ToCopper(c) \in Nat
BY DEF Currency, ToCopper

LEMMA SettleExact ==
    ASSUME NEW balance \in Currency, NEW price \in Currency, CanAfford(balance, price)
    PROVE  /\ Settle(balance, price) \in Currency
           /\ ToCopper(Settle(balance, price)) = ToCopper(balance) - ToCopper(price)
<1>1. ToCopper(balance) - ToCopper(price) \in Nat
  BY ToCopperTyped DEF CanAfford
<1>2. QED
  BY <1>1, FromCopperExact DEF Settle

\* A purse that covers a quantity of a price pays exactly that.
THEOREM PurchaseExact ==
    ASSUME NEW balance \in Currency, NEW price \in Currency, NEW quantity \in Nat,
           CanAfford(balance, LineTotal(price, quantity))
    PROVE  LET left == Settle(balance, LineTotal(price, quantity))
           IN  /\ left \in Currency
               /\ ToCopper(left) = ToCopper(balance) - ToCopper(price) * quantity
<1>1. ToCopper(price) \in Nat
  BY ToCopperTyped
<1>2. ToCopper(price) * quantity \in Nat
  BY <1>1
<1>3. LineTotal(price, quantity) \in Currency
      /\ ToCopper(LineTotal(price, quantity)) = ToCopper(price) * quantity
  BY <1>2, FromCopperExact DEF LineTotal
<1>4. QED
  BY <1>3, SettleExact

-----------------------------------------------------------------------------
(* The rules of a purchase keep their types.                                *)

LEMMA SoldTyped ==
    ASSUME NEW lines \in Seq(Line), NEW n \in 1 .. Len(lines), NEW quantity \in Nat,
           Covers(lines[n], quantity)
    PROVE  Sold(lines, n, quantity) \in Seq(Line)
<1> DEFINE left == [lines[n] EXCEPT !.stock = IF @ = None THEN None ELSE @ - quantity]
<1>1. lines[n] \in Line
  BY ElementOfSeq
<1>2. left \in Line
  BY <1>1 DEF Covers, Line
<1>3. Sold(lines, n, quantity) = [lines EXCEPT ![n] = left]
  BY DEF Sold
<1>4. QED
  BY <1>2, <1>3, ExceptSeq

LEMMA PaidTyped ==
    ASSUME NEW s \in Sheet, NEW line \in Line, NEW quantity \in Nat,
           Affords(s.coins, line, quantity)
    PROVE  /\ Paid(s, line, quantity) \in Sheet
           /\ ToCopper(Paid(s, line, quantity).coins) =
                ToCopper(s.coins) - ToCopper(line.price) * quantity
           /\ Paid(s, line, quantity).goods =
                [s.goods EXCEPT ![line.ware] = @ + quantity]
<1>1. line.price \in Currency /\ line.ware \in Wares
  BY ShopAssumption DEF Line
<1>2. s.coins \in Currency
  BY DEF Sheet
<1>3. PICK left : left = Settle(s.coins, LineTotal(line.price, quantity))
  OBVIOUS
<1>4. left \in Currency
      /\ ToCopper(left) = ToCopper(s.coins) - ToCopper(line.price) * quantity
  BY <1>1, <1>2, <1>3, PurchaseExact DEF Affords
<1>5. [s.goods EXCEPT ![line.ware] = @ + quantity] \in [Wares -> Nat]
  BY <1>1 DEF Sheet
<1>6. Paid(s, line, quantity) =
        [s EXCEPT !.coins = left,
                  !.goods = [s.goods EXCEPT ![line.ware] = @ + quantity]]
  BY <1>3 DEF Paid
<1>7. QED
  BY <1>4, <1>5, <1>6 DEF Sheet

LEMMA RepricedTyped ==
    ASSUME NEW lines \in Seq(Line), NEW edited \in Repriced(lines)
    PROVE  edited \in Seq(Line)
<1>1. PICK n \in 1 .. Len(lines), p \in Prices : edited = [lines EXCEPT ![n].price = p]
  BY DEF Repriced
<1>2. lines[n] \in Line
  BY ElementOfSeq
<1>3. [lines[n] EXCEPT !.price = p] \in Line
  BY <1>2 DEF Line
<1>4. QED
  BY <1>1, <1>3, ExceptSeq

LEMMA RestockedTyped ==
    ASSUME NEW lines \in Seq(Line), NEW edited \in Restocked(lines)
    PROVE  edited \in Seq(Line)
<1>1. PICK n \in 1 .. Len(lines), k \in Counts : edited = [lines EXCEPT ![n].stock = k]
  BY DEF Restocked
<1>2. lines[n] \in Line /\ k \in Nat \cup {None}
  BY ElementOfSeq, ShopAssumption DEF Counts
<1>3. [lines[n] EXCEPT !.stock = k] \in Line
  BY <1>2 DEF Line
<1>4. QED
  BY <1>1, <1>3, ExceptSeq

LEMMA ReducedTyped ==
    ASSUME NEW lines \in Seq(Line), NEW edited \in Reduced(lines)
    PROVE  edited \in Seq(Line)
<1>1. PICK n \in 1 .. Len(lines) : edited = Dropped(lines, n)
  BY DEF Reduced
<1>2. Len(lines) \in Nat /\ \A i \in 1 .. Len(lines) : lines[i] \in Line
  BY ElementOfSeq, LenProperties
<1>3. SubSeq(lines, 1, n - 1) \in Seq(Line)
  BY <1>2, SubSeqProperties
<1>4. SubSeq(lines, n + 1, Len(lines)) \in Seq(Line)
  BY <1>2, SubSeqProperties
<1>5. QED
  BY <1>1, <1>3, <1>4, ConcatProperties DEF Dropped

LEMMA ExtendedTyped ==
    ASSUME NEW lines \in Seq(Line), NEW edited \in Extended(lines)
    PROVE  edited \in Seq(Line)
<1>1. PICK line \in Stocked : edited = Append(lines, line)
  BY DEF Extended
<1>2. line \in Line
  BY ShopAssumption DEF Stocked, Counts, Line
<1>3. QED
  BY <1>1, <1>2

LEMMA EditsTyped ==
    ASSUME NEW lines \in Seq(Line), NEW edited \in Edits(lines)
    PROVE  edited \in Seq(Line)
BY RepricedTyped, RestockedTyped, ReducedTyped, ExtendedTyped DEF Edits

-----------------------------------------------------------------------------
(* The inductive invariant.  A copy of a row is older than the row, or it   *)
(* is the row; a request reads no older rows than its client echoed, and has *)
(* checked stock and purse against what it read.                            *)

Copy(c, row) == c.version <= row.version /\ (c.version = row.version => c = row)

Priced(r) ==
    /\ order[r].index \in 1 .. Len(order[r].shop.lines)
    /\ Covers(Chosen(r), order[r].quantity)
    /\ Affords(order[r].sheet.coins, Chosen(r), order[r].quantity)

Pages == \A b \in Buyers : Copy(front[b].shop, shop) /\ Copy(front[b].sheet, sheet[b])

ReadsShop(r) ==
    /\ order[r].shop \in Shop /\ Copy(order[r].shop, shop)
    /\ Echoes(r) => order[r].echo.shop.version <= order[r].shop.version

ReadsSheet(r) ==
    /\ order[r].sheet \in Sheet /\ Copy(order[r].sheet, sheet[order[r].by])
    /\ Echoes(r) => order[r].echo.sheet.version <= order[r].sheet.version

Pending(r) ==
    /\ Echoes(r) => /\ Copy(order[r].echo.shop, shop)
                    /\ Copy(order[r].echo.sheet, sheet[order[r].by])
    /\ order[r].pc # "sent" => ReadsShop(r)
    /\ order[r].pc = "priced" => ReadsSheet(r) /\ Priced(r)

Coherent == Pages /\ \A r \in Requests : order[r] # Idle => Pending(r)

Inv == TypeOK /\ Coherent

-----------------------------------------------------------------------------
(* Initially, every copy is the row.                                        *)

LEMMA InitInv == Init => Inv
<1> SUFFICES ASSUME Init PROVE Inv
  OBVIOUS
<1>1. shop \in Shop
  <2>1. PICK n \in 0 .. MaxLines : shop.lines \in [1 .. n -> Stocked]
    BY DEF Init
  <2>2. Stocked \subseteq Line
    BY ShopAssumption DEF Stocked, Counts, Line
  <2>3. shop.lines \in [1 .. n -> Line] /\ n \in Nat
    BY <2>1, <2>2, ShopAssumption
  <2>4. shop.lines \in Seq(Line)
    BY <2>3, SeqDef
  <2>5. QED
    <3> DEFINE stock == UNION {[1 .. m -> Stocked] : m \in 0 .. MaxLines}
    <3>1. shop \in [lines : stock, open : {TRUE}, version : {0}]
      BY DEF Init
    <3> HIDE DEF stock
    <3>2. shop = [lines |-> shop.lines, open |-> TRUE, version |-> 0]
      BY <3>1
    <3>3. \A l \in Seq(Line) : [lines |-> l, open |-> TRUE, version |-> 0] \in Shop
      BY DEF Shop
    <3>4. QED
      BY <3>2, <3>3, <2>4
<1>2. PICK purse \in Purses :
        sheet = [b \in Buyers |->
                   [coins |-> purse, goods |-> [w \in Wares |-> 0], version |-> 0]]
  BY DEF Init
<1>3. sheet \in [Buyers -> Sheet]
  BY <1>2, ShopAssumption DEF Sheet
<1>4. front = [b \in Buyers |-> [shop |-> shop, sheet |-> sheet[b]]]
      /\ order = [r \in Requests |-> Idle]
  BY DEF Init
<1>5. TypeOK
  <2>1. front \in [Buyers -> Page]
    BY <1>1, <1>3, <1>4 DEF Page
  <2>2. waiting \in [Buyers -> Requests \cup {None}]
    BY DEF Init
  <2>3. order \in [Requests -> {Idle} \cup Order]
    BY <1>4
  <2>4. form \in [Buyers -> Sheet \cup {None}]
    BY DEF Init
  <2>5. QED
    BY <1>1, <1>3, <2>1, <2>2, <2>3, <2>4 DEF TypeOK, Init
<1>6. Coherent
  <2>1. shop.version \in Nat /\ \A b \in Buyers : sheet[b].version \in Nat
    BY <1>1, <1>3 DEF Shop, Sheet
  <2>2. QED
    BY <1>4, <2>1 DEF Coherent, Pages, Copy
<1>7. QED
  BY <1>5, <1>6 DEF Inv

-----------------------------------------------------------------------------
(* What every step leaves intact.                                           *)

LEMMA OrderTyped ==
    ASSUME TypeOK, NEW r \in Requests, order[r] # Idle
    PROVE  /\ order[r] \in Order /\ order[r].by \in Buyers
           /\ order[r].quantity \in Nat \ {0} /\ order[r].index \in Nat \ {0}
           /\ Echoes(r) => order[r].echo.shop \in Shop /\ order[r].echo.sheet \in Sheet
           /\ shop \in Shop /\ sheet[order[r].by] \in Sheet
<1>1. order[r] \in Order
  BY DEF TypeOK
<1>2. order[r].echo \in Page \cup {None} /\ order[r].by \in Buyers
      /\ order[r].quantity \in Quantities /\ order[r].index \in Nat \ {0}
  BY <1>1 DEF Order
<1>3. Echoes(r) => order[r].echo.shop \in Shop /\ order[r].echo.sheet \in Sheet
  BY <1>2 DEF Page, Echoes
<1>4. QED
  BY <1>1, <1>2, <1>3, ShopAssumption DEF TypeOK

LEMMA VersionTyped ==
    /\ \A c \in Shop : c.version \in Nat
    /\ \A c \in Sheet : c.version \in Nat
BY DEF Shop, Sheet

LEMMA CopyKept ==
    ASSUME NEW c, NEW row, NEW next, c.version \in Int, row.version \in Int,
           Copy(c, row), next = row \/ next.version = row.version + 1
    PROVE  Copy(c, next)
BY DEF Copy

\* A write of a row moves its version on by one.
Moves ==
    /\ shop' = shop \/ shop'.version = shop.version + 1
    /\ \A b \in Buyers : \/ sheet'[b] = sheet[b]
                         \/ sheet'[b].version = sheet[b].version + 1

LEMMA PagesKept == ASSUME Inv, Moves, front' = front PROVE Pages'
<1> SUFFICES ASSUME NEW b \in Buyers
             PROVE  Copy(front[b].shop, shop') /\ Copy(front[b].sheet, sheet'[b])
  BY DEF Pages
<1>1. front[b].shop \in Shop /\ front[b].sheet \in Sheet
  BY DEF Inv, TypeOK, Page
<1>2. shop \in Shop /\ sheet[b] \in Sheet
  BY DEF Inv, TypeOK
<1>3. front[b].shop.version \in Int /\ front[b].sheet.version \in Int
      /\ shop.version \in Int /\ sheet[b].version \in Int
  BY <1>1, <1>2, VersionTyped
<1>4. Copy(front[b].shop, shop) /\ Copy(front[b].sheet, sheet[b])
  BY DEF Inv, Coherent, Pages
<1>5. QED
  BY <1>3, <1>4, CopyKept DEF Moves

LEMMA PendingKept ==
    ASSUME Inv, Moves, NEW r \in Requests, order[r] # Idle, order'[r] = order[r]
    PROVE  Pending(r)'
<1>1. Pending(r)
  BY DEF Inv, Coherent
<1>2. /\ order[r].by \in Buyers
      /\ Echoes(r) => order[r].echo.shop \in Shop /\ order[r].echo.sheet \in Sheet
      /\ shop \in Shop /\ sheet[order[r].by] \in Sheet
  BY OrderTyped DEF Inv
<1>3. shop.version \in Int /\ sheet[order[r].by].version \in Int
  BY <1>2, VersionTyped
<1>4. \A c \in Shop : Copy(c, shop) => Copy(c, shop')
  BY <1>3, VersionTyped, CopyKept DEF Moves
<1>5. \A c \in Sheet : Copy(c, sheet[order[r].by]) => Copy(c, sheet'[order[r].by])
  BY <1>2, <1>3, VersionTyped, CopyKept DEF Moves
<1>6. Echoes(r) => /\ Copy(order[r].echo.shop, shop')
                   /\ Copy(order[r].echo.sheet, sheet'[order[r].by])
  BY <1>1, <1>2, <1>4, <1>5 DEF Pending
<1>7. order[r].pc # "sent" => ReadsShop(r)'
  BY <1>1, <1>4 DEF Pending, ReadsShop, Echoes
<1>8. order[r].pc = "priced" => ReadsSheet(r)'
  BY <1>1, <1>5 DEF Pending, ReadsSheet, Echoes
<1>9. order[r].pc = "priced" => Priced(r)'
  BY <1>1 DEF Pending, Priced, Chosen
<1>10. QED
  BY <1>6, <1>7, <1>8, <1>9 DEF Pending, Echoes

\* Every step but a click and a read leaves a request as it is, or ends it.
Ends == \A r \in Requests : order'[r] \in {order[r], Idle}

LEMMA CoherentKept == ASSUME Inv, Moves, front' = front, Ends PROVE Coherent'
<1>1. ASSUME NEW r \in Requests, order'[r] # Idle PROVE Pending(r)'
  BY <1>1, PendingKept DEF Ends
<1>2. QED
  BY <1>1, PagesKept DEF Coherent

-----------------------------------------------------------------------------
(* One lemma per group of steps.                                           *)

\* A request that got past the guards was priced from the rows as they are.
LEMMA Settled ==
    ASSUME Inv, NEW r \in Requests, order[r].pc = "priced", Unmoved(r)
    PROVE  /\ order[r] \in Order /\ Priced(r)
           /\ order[r].by \in Buyers /\ order[r].quantity \in Nat \ {0}
           /\ sheet[order[r].by] = order[r].sheet
           /\ Echoes(r) => sheet[order[r].by] = order[r].echo.sheet
           /\ order[r].shop \in Shop
           /\ Finite(r) => shop = order[r].shop
           /\ Finite(r) /\ Echoes(r) => shop = order[r].echo.shop
<1>1. order[r] # Idle
  BY DEF Idle
<1>2. Pending(r) /\ ReadsShop(r) /\ ReadsSheet(r) /\ Priced(r)
  BY <1>1 DEF Inv, Coherent, Pending
<1>3. /\ order[r] \in Order /\ order[r].by \in Buyers
      /\ order[r].quantity \in Nat \ {0}
      /\ Echoes(r) => order[r].echo.shop \in Shop /\ order[r].echo.sheet \in Sheet
      /\ shop \in Shop /\ sheet[order[r].by] \in Sheet
  BY <1>1, OrderTyped DEF Inv
<1>4. /\ Echoes(r) => /\ order[r].echo.shop.version \in Nat
                      /\ order[r].echo.sheet.version \in Nat
      /\ shop.version \in Nat /\ sheet[order[r].by].version \in Nat
      /\ order[r].shop.version \in Nat /\ order[r].sheet.version \in Nat
  BY <1>2, <1>3, VersionTyped DEF ReadsShop, ReadsSheet
<1>5. CASE Echoes(r)
  <2>1. Guards(r) = order[r].echo
    BY <1>5 DEF Guards
  <2>2. sheet[order[r].by] = order[r].echo.sheet /\ sheet[order[r].by] = order[r].sheet
    BY <1>2, <1>4, <1>5, <2>1 DEF Unmoved, Pending, ReadsSheet, Copy
  <2>3. Finite(r) => shop = order[r].echo.shop /\ shop = order[r].shop
    BY <1>2, <1>4, <1>5, <2>1 DEF Unmoved, Pending, ReadsShop, Copy
  <2>4. QED
    BY <1>2, <1>3, <2>2, <2>3 DEF ReadsShop
<1>6. CASE ~Echoes(r)
  <2>1. Guards(r).shop = order[r].shop /\ Guards(r).sheet = order[r].sheet
    BY <1>6 DEF Guards
  <2>2. sheet[order[r].by] = order[r].sheet
    BY <1>2, <1>4, <2>1 DEF Unmoved, ReadsSheet, Copy
  <2>3. Finite(r) => shop = order[r].shop
    BY <1>2, <1>4, <2>1 DEF Unmoved, ReadsShop, Copy
  <2>4. QED
    BY <1>2, <1>3, <1>6, <2>2, <2>3 DEF ReadsShop
<1>7. QED
  BY <1>5, <1>6

LEMMA RestockedShop ==
    ASSUME NEW s \in Shop, NEW l \in Seq(Line)
    PROVE  /\ Bumped([s EXCEPT !.lines = l]) \in Shop
           /\ Bumped([s EXCEPT !.lines = l]).lines = l
           /\ Bumped([s EXCEPT !.lines = l]).version = s.version + 1
<1>1. PICK t : t = [s EXCEPT !.lines = l]
  OBVIOUS
<1>2. t \in Shop /\ t.lines = l /\ t.version = s.version
  BY <1>1 DEF Shop
<1>3. Bumped(t) \in Shop /\ Bumped(t).lines = t.lines /\ Bumped(t).version = t.version + 1
  BY <1>2 DEF Bumped, Shop
<1>4. QED
  BY <1>1, <1>2, <1>3

LEMMA WrittenSheet ==
    ASSUME NEW s \in Sheet, NEW p \in Sheet
    PROVE  LET w == Bumped([s EXCEPT !.coins = p.coins, !.goods = p.goods])
           IN  w \in Sheet /\ w.coins = p.coins /\ w.goods = p.goods
                 /\ w.version = s.version + 1
<1>1. PICK t : t = [s EXCEPT !.coins = p.coins, !.goods = p.goods]
  OBVIOUS
<1>2. t \in Sheet /\ t.coins = p.coins /\ t.goods = p.goods /\ t.version = s.version
  BY <1>1 DEF Sheet
<1>3. /\ Bumped(t) \in Sheet /\ Bumped(t).coins = t.coins /\ Bumped(t).goods = t.goods
      /\ Bumped(t).version = t.version + 1
  BY <1>2 DEF Bumped, Sheet
<1>4. QED
  BY <1>1, <1>2, <1>3

LEMMA CommitStep ==
    ASSUME Inv, NEW r \in Requests, Commit(r)
    PROVE  /\ shop' \in Shop /\ sheet' \in [Buyers -> Sheet] /\ Moves
           /\ ToCopper(sheet'[order[r].by].coins) =
                ToCopper(sheet[order[r].by].coins)
                  - ToCopper(Chosen(r).price) * order[r].quantity
           /\ sheet'[order[r].by].goods =
                [sheet[order[r].by].goods EXCEPT ![Chosen(r).ware] = @ + order[r].quantity]
           /\ Finite(r) => shop'.lines = Sold(shop.lines, order[r].index, order[r].quantity)
<1>1. order[r].pc = "priced" /\ Unmoved(r)
  BY DEF Commit
<1> DEFINE b == order[r].by
           quantity == order[r].quantity
           paid == Paid(order[r].sheet, Chosen(r), quantity)
           sold == Sold(order[r].shop.lines, order[r].index, quantity)
<1>2. /\ Priced(r) /\ b \in Buyers /\ quantity \in Nat
      /\ sheet[b] = order[r].sheet /\ order[r].shop \in Shop
      /\ Finite(r) => shop = order[r].shop
  BY <1>1, Settled
<1>3. shop \in Shop /\ sheet \in [Buyers -> Sheet]
  BY DEF Inv, TypeOK
<1>4. order[r].shop.lines \in Seq(Line)
  BY <1>2 DEF Shop
<1>5. Chosen(r) \in Line
  BY <1>2, <1>4, ElementOfSeq DEF Priced, Chosen
<1>6. sold \in Seq(Line)
  BY <1>2, <1>4, SoldTyped DEF Priced, Chosen
<1>7. /\ paid \in Sheet
      /\ ToCopper(paid.coins) =
           ToCopper(sheet[b].coins) - ToCopper(Chosen(r).price) * quantity
      /\ paid.goods = [sheet[b].goods EXCEPT ![Chosen(r).ware] = @ + quantity]
  <2>1. order[r].sheet \in Sheet /\ Affords(order[r].sheet.coins, Chosen(r), quantity)
    BY <1>2, <1>3 DEF Priced
  <2>2. QED
    BY <2>1, <1>2, <1>5, PaidTyped
<1>8. shop' = IF Finite(r) THEN Bumped([shop EXCEPT !.lines = sold]) ELSE shop
  BY DEF Commit
<1>9. sheet' = [sheet EXCEPT ![b] = Bumped([@ EXCEPT !.coins = paid.coins, !.goods = paid.goods])]
  BY DEF Commit
<1> HIDE DEF paid, sold, quantity, b
<1>10. /\ shop' \in Shop /\ (shop' = shop \/ shop'.version = shop.version + 1)
       /\ Finite(r) => shop'.lines = sold
  BY <1>3, <1>6, <1>8, RestockedShop
<1>11. sheet[b] \in Sheet
  BY <1>2, <1>3
<1>12. /\ sheet'[b] \in Sheet /\ sheet'[b].version = sheet[b].version + 1
       /\ sheet'[b].coins = paid.coins /\ sheet'[b].goods = paid.goods
  BY <1>2, <1>3, <1>7, <1>9, <1>11, WrittenSheet
<1>13. sheet' \in [Buyers -> Sheet]
       /\ \A c \in Buyers : c # b => sheet'[c] = sheet[c]
  BY <1>3, <1>9, <1>12
<1>14. Moves
  BY <1>10, <1>12, <1>13 DEF Moves
<1>15. QED
  BY <1>2, <1>7, <1>10, <1>12, <1>13, <1>14 DEF b, quantity, sold

\* A click shows the page; a read takes the row as it is.
LEMMA Reads ==
    ASSUME Inv, UNCHANGED <<shop, sheet, front>>, NEW r \in Requests,
           order' \in [Requests -> {Idle} \cup Order],
           \A q \in Requests \ {r} : order'[q] = order[q],
           Pending(r)'
    PROVE  Coherent'
<1>1. Moves
  BY DEF Moves
<1>2. ASSUME NEW q \in Requests, order'[q] # Idle PROVE Pending(q)'
  BY <1>1, <1>2, PendingKept
<1>3. QED
  BY <1>1, <1>2, PagesKept DEF Coherent

LEMMA ClickStep ==
    ASSUME Inv, NEW b \in Buyers, NEW r \in Requests, Click(b, r)
    PROVE  Inv'
<1> DEFINE Sent(n, quantity) ==
             [pc |-> "sent", by |-> b, index |-> n, quantity |-> quantity,
              echo |-> IF b \in Silent THEN None ELSE front[b],
              shop |-> None, sheet |-> None]
<1>1. PICK n \in 1 .. Len(front[b].shop.lines), quantity \in Quantities :
        order' = [order EXCEPT ![r] = Sent(n, quantity)]
  BY DEF Click
<1>2. UNCHANGED <<shop, sheet, front, form, stocking>>
      /\ waiting' = [waiting EXCEPT ![b] = r]
  BY DEF Click
<1>3. front[b] \in Page /\ front[b].shop \in Shop
  BY DEF Inv, TypeOK, Page
<1>4. Len(front[b].shop.lines) \in Nat
  BY <1>3, LenProperties DEF Shop
<1>5. Sent(n, quantity) \in Order
  BY <1>3, <1>4 DEF Order
<1>6. order' \in [Requests -> {Idle} \cup Order] /\ order'[r] = Sent(n, quantity)
      /\ \A q \in Requests \ {r} : order'[q] = order[q]
  BY <1>1, <1>5 DEF Inv, TypeOK
<1>7. waiting' \in [Buyers -> Requests \cup {None}]
  BY <1>2 DEF Inv, TypeOK
<1>8. TypeOK'
  BY <1>2, <1>6, <1>7 DEF Inv, TypeOK
<1>9. /\ order'[r].pc = "sent" /\ order'[r].by = b
      /\ order'[r].echo # None => order'[r].echo = front[b]
  BY <1>6
<1>10. Copy(front[b].shop, shop) /\ Copy(front[b].sheet, sheet[b])
  BY DEF Inv, Coherent, Pages
<1>11. Pending(r)'
  BY <1>2, <1>9, <1>10 DEF Pending, Echoes
<1>12. Coherent'
  BY <1>2, <1>6, <1>11, Reads
<1>13. QED
  BY <1>8, <1>12 DEF Inv

LEMMA ReadShopStep == ASSUME Inv, NEW r \in Requests, ReadShop(r) PROVE Inv'
<1> DEFINE read == [order[r] EXCEPT !.pc = "shopRead", !.shop = shop]
<1>1. order[r].pc = "sent" /\ order[r] # Idle
  BY DEF ReadShop, Idle
<1>2. UNCHANGED <<shop, sheet, front, waiting, form, stocking>>
      /\ order' = [order EXCEPT ![r] = read]
  BY DEF ReadShop
<1>3. /\ order[r] \in Order /\ shop \in Shop
      /\ Echoes(r) => order[r].echo.shop \in Shop
  BY <1>1, OrderTyped DEF Inv
<1>4. read \in Order /\ read.pc = "shopRead" /\ read.shop = shop
      /\ read.by = order[r].by /\ read.echo = order[r].echo
  BY <1>3 DEF Order
<1>5. order' \in [Requests -> {Idle} \cup Order] /\ order'[r] = read
      /\ \A q \in Requests \ {r} : order'[q] = order[q]
  BY <1>2, <1>4 DEF Inv, TypeOK
<1> HIDE DEF read
<1>6. TypeOK'
  BY <1>2, <1>5 DEF Inv, TypeOK
<1>7. Echoes(r) => /\ Copy(order[r].echo.shop, shop)
                   /\ Copy(order[r].echo.sheet, sheet[order[r].by])
  BY <1>1 DEF Inv, Coherent, Pending
<1>8. Copy(shop, shop)
  BY <1>3, VersionTyped DEF Copy
<1>9. ReadsShop(r)'
  BY <1>2, <1>3, <1>4, <1>5, <1>7, <1>8 DEF ReadsShop, Copy, Echoes
<1>10. Pending(r)'
  BY <1>2, <1>4, <1>5, <1>7, <1>9 DEF Pending, Echoes
<1>11. Coherent'
  BY <1>2, <1>5, <1>10, Reads
<1>12. QED
  BY <1>6, <1>11 DEF Inv

LEMMA ReadSheetStep == ASSUME Inv, NEW r \in Requests, ReadSheet(r) PROVE Inv'
<1> DEFINE s == sheet[order[r].by]
           read == [order[r] EXCEPT !.pc = "priced", !.sheet = s]
<1>1. order[r].pc = "shopRead" /\ order[r] # Idle /\ Sellable(r)
  BY DEF ReadSheet, Idle
<1>2. UNCHANGED <<shop, sheet, front, waiting, form, stocking>>
      /\ order' = [order EXCEPT ![r] = read]
  BY DEF ReadSheet
<1>3. /\ order[r] \in Order /\ s \in Sheet
      /\ Echoes(r) => order[r].echo.sheet \in Sheet
      /\ order[r].index \in Nat \ {0}
  BY <1>1, OrderTyped DEF Inv
<1>4. /\ read \in Order /\ read.pc = "priced" /\ read.sheet = s
      /\ read.by = order[r].by /\ read.echo = order[r].echo
      /\ read.shop = order[r].shop /\ read.index = order[r].index
      /\ read.quantity = order[r].quantity
  BY <1>3 DEF Order
<1>5. order' \in [Requests -> {Idle} \cup Order] /\ order'[r] = read
      /\ \A q \in Requests \ {r} : order'[q] = order[q]
  BY <1>2, <1>4 DEF Inv, TypeOK
<1> HIDE DEF read
<1>6. TypeOK'
  BY <1>2, <1>5 DEF Inv, TypeOK
<1>7. /\ Echoes(r) => Copy(order[r].echo.shop, shop) /\ Copy(order[r].echo.sheet, s)
      /\ ReadsShop(r)
  BY <1>1 DEF Inv, Coherent, Pending
<1>8. Copy(s, s) /\ (Echoes(r) => order[r].echo.sheet.version <= s.version)
  BY <1>3, <1>7, VersionTyped DEF Copy
<1>9. ReadsSheet(r)'
  BY <1>2, <1>3, <1>4, <1>5, <1>8 DEF ReadsSheet, Echoes
<1>10. ReadsShop(r)'
  BY <1>2, <1>4, <1>5, <1>7 DEF ReadsShop, Echoes
<1>11. Len(order[r].shop.lines) \in Nat
  BY <1>7, LenProperties DEF ReadsShop, Shop
<1>12. Priced(r)'
  <2>1. order[r].index \in 1 .. Len(order[r].shop.lines)
    BY <1>1, <1>3, <1>11 DEF Sellable
  <2>2. QED
    BY <2>1, <1>1, <1>4, <1>5 DEF Sellable, Priced, Chosen
<1>13. Pending(r)'
  BY <1>2, <1>4, <1>5, <1>7, <1>9, <1>10, <1>12 DEF Pending, Echoes
<1>14. Coherent'
  BY <1>2, <1>5, <1>13, Reads
<1>15. QED
  BY <1>6, <1>14 DEF Inv

LEMMA Finishes ==
    ASSUME TypeOK, NEW r \in Requests, Finish(r)
    PROVE  /\ Ends
           /\ order' \in [Requests -> {Idle} \cup Order]
           /\ waiting' \in [Buyers -> Requests \cup {None}]
BY DEF TypeOK, Finish, Ends

LEMMA RequestStep ==
    ASSUME Inv, NEW r \in Requests, Refuse(r) \/ Commit(r) \/ Conflict(r)
    PROVE  Inv'
<1>1. Finish(r) /\ UNCHANGED <<front, form, stocking>>
  BY DEF Refuse, Commit, Conflict
<1>2. Ends /\ order' \in [Requests -> {Idle} \cup Order]
      /\ waiting' \in [Buyers -> Requests \cup {None}]
  BY <1>1, Finishes DEF Inv
<1>3. shop' \in Shop /\ sheet' \in [Buyers -> Sheet] /\ Moves
  <2>1. CASE Commit(r)
    BY <2>1, CommitStep
  <2>2. CASE Refuse(r) \/ Conflict(r)
    <3>1. shop' = shop /\ sheet' = sheet
      BY <2>2 DEF Refuse, Conflict
    <3>2. QED
      BY <3>1 DEF Inv, TypeOK, Moves
  <2>3. QED
    BY <2>1, <2>2
<1>4. TypeOK'
  BY <1>1, <1>2, <1>3 DEF Inv, TypeOK
<1>5. Coherent'
  BY <1>1, <1>2, <1>3, CoherentKept
<1>6. QED
  BY <1>4, <1>5 DEF Inv

LEMMA RefetchStep ==
    ASSUME Inv, NEW b \in Buyers, RefetchShop(b) \/ RefetchSheet(b) \/ ReloadEditor(b)
    PROVE  Inv'
<1>1. UNCHANGED <<shop, sheet, waiting, order, stocking>>
  BY DEF RefetchShop, RefetchSheet, ReloadEditor
<1>2. \/ front' = [front EXCEPT ![b] = [@ EXCEPT !.shop = shop]]
      \/ front' = [front EXCEPT ![b] = [@ EXCEPT !.sheet = sheet[b]]]
  BY DEF RefetchShop, RefetchSheet, ReloadEditor
<1>3. shop \in Shop /\ sheet[b] \in Sheet /\ front[b] \in Page /\ front \in [Buyers -> Page]
  BY DEF Inv, TypeOK
<1>4. \A p \in Page : /\ [p EXCEPT !.shop = shop] \in Page
                      /\ [p EXCEPT !.sheet = sheet[b]] \in Page
  BY <1>3 DEF Page
<1>5. front' \in [Buyers -> Page] /\ \A c \in Buyers \ {b} : front'[c] = front[c]
  BY <1>2, <1>3, <1>4
<1>6. front'[b].shop \in {shop, front[b].shop} /\ front'[b].sheet \in {sheet[b], front[b].sheet}
  BY <1>2, <1>3 DEF Page
<1>7. Copy(shop, shop) /\ Copy(sheet[b], sheet[b])
  BY <1>3, VersionTyped DEF Copy
<1>8. Pages'
  BY <1>1, <1>5, <1>6, <1>7 DEF Inv, Coherent, Pages
<1>9. Moves
  BY <1>1 DEF Moves
<1>10. \A r \in Requests : order'[r] # Idle => Pending(r)'
  BY <1>1, <1>9, PendingKept
<1>11. form' \in [Buyers -> Sheet \cup {None}]
  BY <1>3 DEF Inv, TypeOK, RefetchShop, RefetchSheet, ReloadEditor
<1>12. TypeOK'
  BY <1>1, <1>5, <1>11 DEF Inv, TypeOK
<1>13. QED
  BY <1>8, <1>10, <1>12 DEF Inv, Coherent

LEMMA ShopFormStep == ASSUME Inv, OpenShopForm \/ SaveShop PROVE Inv'
<1>1. UNCHANGED <<sheet, front, waiting, order, form>>
  BY DEF OpenShopForm, SaveShop
<1>2. shop \in Shop
  BY DEF Inv, TypeOK
<1>3. shop' \in Shop /\ Moves /\ stocking' \in Seq(Line) \cup {None}
  <2>1. CASE OpenShopForm
    BY <2>1, <1>1, <1>2 DEF OpenShopForm, Moves, Shop
  <2>2. CASE SaveShop
    <3>1. stocking \in Seq(Line) /\ stocking' = None
      BY <2>2 DEF SaveShop, Inv, TypeOK
    <3>2. PICK lines \in Edits(stocking), open \in BOOLEAN :
            shop' = Bumped([shop EXCEPT !.lines = lines, !.open = open])
      BY <2>2 DEF SaveShop
    <3>3. lines \in Seq(Line)
      BY <3>1, EditsTyped
    <3>4. PICK t : t = [shop EXCEPT !.lines = lines, !.open = open]
      OBVIOUS
    <3>5. t \in Shop /\ t.version = shop.version
      BY <3>3, <3>4, <1>2 DEF Shop
    <3>6. Bumped(t) \in Shop /\ Bumped(t).version = t.version + 1
      BY <3>5 DEF Bumped, Shop
    <3>7. QED
      BY <1>1, <3>1, <3>2, <3>4, <3>5, <3>6 DEF Moves
  <2>3. QED
    BY <2>1, <2>2
<1>4. TypeOK'
  BY <1>1, <1>3 DEF Inv, TypeOK
<1>5. Ends
  BY <1>1 DEF Ends
<1>6. Coherent'
  BY <1>1, <1>3, <1>5, CoherentKept
<1>7. QED
  BY <1>4, <1>6 DEF Inv

LEMMA SheetStep ==
    ASSUME Inv, NEW b \in Buyers,
           SetPurse(b) \/ OpenEditor(b) \/ SaveEditor(b) \/ LeaveEditor(b)
    PROVE  Inv'
<1>1. UNCHANGED <<shop, front, waiting, order, stocking>>
  BY DEF SetPurse, OpenEditor, SaveEditor, LeaveEditor
<1>2. /\ sheet \in [Buyers -> Sheet] /\ sheet[b] \in Sheet
      /\ form \in [Buyers -> Sheet \cup {None}] /\ form[b] \in Sheet \cup {None}
      /\ front[b].sheet \in Sheet
  BY DEF Inv, TypeOK, Page
<1>3. form' \in [Buyers -> Sheet \cup {None}]
  BY <1>2 DEF SetPurse, OpenEditor, SaveEditor, LeaveEditor
<1>4. \/ sheet' = sheet
      \/ \E s \in Sheet : s.version = sheet[b].version + 1 /\ sheet' = [sheet EXCEPT ![b] = s]
  <2>1. CASE SetPurse(b)
    <3>1. PICK coins \in Purses :
            sheet' = [sheet EXCEPT ![b] = Bumped([@ EXCEPT !.coins = coins])]
      BY <2>1 DEF SetPurse
    <3>2. PICK t : t = [sheet[b] EXCEPT !.coins = coins]
      OBVIOUS
    <3>3. t \in Sheet /\ t.version = sheet[b].version
      BY <3>2, <1>2, ShopAssumption DEF Sheet
    <3>4. Bumped(t) \in Sheet /\ Bumped(t).version = sheet[b].version + 1
      BY <3>3 DEF Bumped, Sheet
    <3>5. QED
      BY <3>1, <3>2, <3>4
  <2>2. CASE SaveEditor(b)
    <3>1. form[b] \in Sheet
      BY <2>2, <1>2 DEF SaveEditor
    <3>2. PICK s : s = Bumped([sheet[b] EXCEPT !.coins = form[b].coins,
                                               !.goods = form[b].goods])
      OBVIOUS
    <3>3. s \in Sheet /\ s.version = sheet[b].version + 1
      BY <3>1, <3>2, <1>2, WrittenSheet
    <3>4. sheet' = [sheet EXCEPT ![b] = s]
      BY <2>2, <3>2 DEF SaveEditor
    <3>5. QED
      BY <3>3, <3>4
  <2>3. QED
    BY <2>1, <2>2 DEF OpenEditor, LeaveEditor
<1>5. sheet' \in [Buyers -> Sheet] /\ Moves
  BY <1>1, <1>2, <1>4 DEF Moves
<1>6. TypeOK'
  BY <1>1, <1>3, <1>5 DEF Inv, TypeOK
<1>7. Ends
  BY <1>1 DEF Ends
<1>8. Coherent'
  BY <1>1, <1>5, <1>7, CoherentKept
<1>9. QED
  BY <1>6, <1>8 DEF Inv

\* A step that only changes what a tab waits for, or nothing.
LEMMA QuietStep ==
    ASSUME Inv, UNCHANGED <<shop, sheet, front, order, form, stocking>>,
           waiting' \in [Buyers -> Requests \cup {None}]
    PROVE  Inv'
<1>1. Moves /\ Ends
  BY DEF Moves, Ends
<1>2. Coherent'
  BY <1>1, CoherentKept
<1>3. QED
  BY <1>2 DEF Inv, TypeOK

LEMMA InvStep == ASSUME Inv, [Next]_vars PROVE Inv'
<1>1. ASSUME NEW b \in Buyers, NEW r \in Requests, Click(b, r) PROVE Inv'
  BY <1>1, ClickStep
<1>2. ASSUME NEW b \in Buyers, GiveUp(b) PROVE Inv'
  <2>1. waiting' \in [Buyers -> Requests \cup {None}]
    BY <1>2 DEF GiveUp, Inv, TypeOK
  <2>2. QED
    BY <2>1, <1>2, QuietStep DEF GiveUp
<1>3. ASSUME NEW b \in Buyers, RefetchShop(b) \/ RefetchSheet(b) \/ ReloadEditor(b)
      PROVE  Inv'
  BY <1>3, RefetchStep
<1>4. ASSUME NEW b \in Buyers,
             SetPurse(b) \/ OpenEditor(b) \/ SaveEditor(b) \/ LeaveEditor(b)
      PROVE  Inv'
  BY <1>4, SheetStep
<1>5. ASSUME NEW r \in Requests,
             ReadShop(r) \/ ReadSheet(r) \/ Refuse(r) \/ Commit(r) \/ Conflict(r)
      PROVE  Inv'
  BY <1>5, ReadShopStep, ReadSheetStep, RequestStep
<1>6. CASE OpenShopForm \/ SaveShop
  BY <1>6, ShopFormStep
<1>7. CASE UNCHANGED vars
  BY <1>7, QuietStep DEF vars, Inv, TypeOK
<1>8. QED
  BY <1>1, <1>2, <1>3, <1>4, <1>5, <1>6, <1>7, ShopAssumption DEF Next

-----------------------------------------------------------------------------
(* The theorems.                                                           *)

THEOREM Invariance == Spec => []Inv
<1>1. Init => Inv
  BY InitInv
<1>2. Inv /\ [Next]_vars => Inv'
  BY InvStep
<1>3. QED
  BY <1>1, <1>2, PTL DEF Spec

\* No purse, stock or count of goods ever goes below nothing, and every row,
\* page, form and request keeps its shape.
THEOREM TypeCorrect == Spec => []TypeOK
<1>1. Inv => TypeOK
  BY DEF Inv
<1>2. QED
  BY <1>1, Invariance, PTL

\* A sale comes from a page that shows the rows as they are: two buyers, a
\* click repeated after a lost answer, or an owner's edit cannot both settle
\* off one snapshot.
THEOREM SaleMatchesPageHolds == Spec => SaleMatchesPage
<1>1. ASSUME Inv, NEW r \in Requests, Commit(r), Echoes(r)
      PROVE  /\ sheet[order[r].by] = order[r].echo.sheet
             /\ Finite(r) => shop = order[r].echo.shop
  BY <1>1, Settled DEF Commit
<1>2. Inv /\ [Next]_vars =>
        [\A r \in Requests : Commit(r) /\ Echoes(r) =>
           /\ sheet[order[r].by] = order[r].echo.sheet
           /\ Finite(r) => shop = order[r].echo.shop]_vars
  BY <1>1
<1>3. QED
  BY <1>2, Invariance, PTL DEF Spec, SaleMatchesPage

\* Coin, goods and stock move together, and from the rows as they are.
THEOREM SaleSettlesHolds == Spec => SaleSettles
<1> DEFINE Settles(r) ==
      LET s == sheet[order[r].by]
          t == sheet'[order[r].by]
          line == Chosen(r)
      IN /\ ToCopper(t.coins) =
              ToCopper(s.coins) - ToCopper(line.price) * order[r].quantity
         /\ t.goods[line.ware] = s.goods[line.ware] + order[r].quantity
         /\ \A w \in Wares \ {line.ware} : t.goods[w] = s.goods[w]
         /\ Finite(r) =>
              shop'.lines = Sold(shop.lines, order[r].index, order[r].quantity)
<1>1. ASSUME Inv, NEW r \in Requests, Commit(r) PROVE Settles(r)
  <2>1. order[r].by \in Buyers /\ order[r].shop \in Shop /\ Priced(r)
    BY <1>1, Settled DEF Commit
  <2>2. sheet[order[r].by] \in Sheet
    BY <1>1, <2>1 DEF Inv, TypeOK
  <2>3. order[r].shop.lines \in Seq(Line)
    BY <2>1 DEF Shop
  <2>4. Chosen(r) \in Line
    BY <2>1, <2>3, ElementOfSeq DEF Priced, Chosen
  <2>5. Chosen(r).ware \in Wares /\ sheet[order[r].by].goods \in [Wares -> Nat]
    BY <2>2, <2>4 DEF Line, Sheet
  <2>6. QED
    BY <1>1, <2>5, CommitStep
<1>2. Inv /\ [Next]_vars => [\A r \in Requests : Commit(r) => Settles(r)]_vars
  BY <1>1
<1>3. QED
  BY <1>2, Invariance, PTL DEF Spec, SaleSettles

================================================================================
