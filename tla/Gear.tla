--------------------------------- MODULE Gear ---------------------------------
(***************************************************************************)
(* What an inventory line contributes to the armor class                    *)
(* (shared/src/gear.ts) and how the lines a character is created with find  *)
(* their catalog rows and are worn (backend/src/characters/inventory).      *)
(*                                                                         *)
(* A catalog row is [name, kind, sign, ac]: its category, and the sign and   *)
(* the number its armor class text begins with, Unstated when it has none.   *)
(* A line is [id, name, link, gear, quantity, equipped]; id is a ghost.      *)
(* Weapons, weights and prices are left out.                                *)
(***************************************************************************)
EXTENDS Integers, FiniteSetsExt, SequencesExt

CONSTANTS
    Items, Catalog,  \* Catalog[i]: the srd row i
    Fold,            \* Fold[n]: the name n without case, glyph and spacing
    Alias,           \* Alias[k]: the folded name that k stands for, mostly k
    Unstated, NoGear, None

BodyArmor == {"light", "medium", "heavy"}
Worn == [type : BodyArmor \cup {"shield"}, ac : Nat]
Gears == Worn \cup {NoGear}

ASSUME GearAssumption ==
    /\ Catalog \in [Items -> [name : DOMAIN Fold, kind : STRING, sign : {"none", "+", "-"},
                             ac : Nat \cup {Unstated}]]
    /\ NoGear \notin Worn

NoLess(n, low) == IF n < low THEN low ELSE n
AtMost(n, top) == IF n > top THEN top ELSE n
--------------------------------------------------------------------------------
(* The catalog *)

IsShield(row) ==
    \/ row.kind = "shield"
    \/ row.kind = "magic shield" /\ row.ac # Unstated /\ row.sign = "+"

\* gearMetaFromItem: a base is never signed, and a bonus is never a penalty.
GearOf(row) ==
    IF IsShield(row) /\ row.sign # "-"
    THEN [type |-> "shield", ac |-> IF row.ac = Unstated THEN 2 ELSE row.ac]
    ELSE IF row.kind \in BodyArmor /\ row.sign = "none" /\ row.ac # Unstated
    THEN [type |-> row.kind, ac |-> row.ac]
    ELSE NoGear

\* buildItemNameIndex and lookupItemByName: a folded name that two rows share
\* leads to neither.
Denoted(name) == {i \in Items : Fold[Catalog[i].name] = Alias[Fold[name]]}

\* resolveLine for a line that carries no link and no gear.
Resolve(line) ==
    IF Cardinality(Denoted(line.name)) # 1 THEN line
    ELSE LET i == CHOOSE i \in Denoted(line.name) : TRUE
         IN  [line EXCEPT !.link = i, !.gear = GearOf(Catalog[i])]

\* autoEquipStartingArmor: the first body armor of the highest base, and the
\* first shield.
AutoEquip(inv) ==
    LET bodies == {i \in DOMAIN inv : inv[i].gear # NoGear /\ inv[i].gear.type \in BodyArmor}
        shields == {i \in DOMAIN inv : inv[i].gear # NoGear /\ inv[i].gear.type = "shield"}
        Base(i) == inv[i].gear.ac
        worn == {i \in bodies : \A j \in bodies : Base(j) < Base(i) \/ (Base(j) = Base(i) /\ i <= j)}
                  \cup {i \in shields : \A j \in shields : i <= j}
    IN  [i \in DOMAIN inv |-> IF i \in worn THEN [inv[i] EXCEPT !.equipped = TRUE] ELSE inv[i]]
--------------------------------------------------------------------------------
(* The armor class *)

DexFor(type, dex) ==
    IF type = "heavy" THEN 0 ELSE IF type = "medium" THEN AtMost(dex, 2) ELSE dex

Worth(gear, dex) == gear.ac + DexFor(gear.type, dex)

\* equippedGear
Wears(e, types) == e.equipped /\ e.gear # NoGear /\ e.gear.type \in types

\* Mutated form: the armors are ranked by their base.
HigherBase(best, gear, dex) == IF best = NoGear \/ gear.ac > best.ac THEN gear ELSE best

Better(best, gear, dex) ==
    IF best = NoGear \/ Worth(gear, dex) > Worth(best, dex) THEN gear ELSE best

\* The best of the first k lines' body armors, and of their shields.
BestBody(inv, dex) ==
    LET best[k \in 0..Len(inv)] ==
          IF k = 0 THEN NoGear
          ELSE IF Wears(inv[k], BodyArmor) THEN Better(best[k - 1], inv[k].gear, dex)
          ELSE best[k - 1]
    IN  best[Len(inv)]

BestShield(inv) ==
    LET best[k \in 0..Len(inv)] ==
          IF k = 0 THEN 0
          ELSE IF Wears(inv[k], {"shield"}) THEN NoLess(inv[k].gear.ac, best[k - 1])
          ELSE best[k - 1]
    IN  best[Len(inv)]

\* deriveArmorClass, without the player's own override.
ArmorClass(inv, dex) ==
    (IF BestBody(inv, dex) = NoGear THEN 10 + dex ELSE Worth(BestBody(inv, dex), dex))
      + BestShield(inv)
--------------------------------------------------------------------------------
(* The transforms of the array *)

Altered(inv, i, e) == [j \in DOMAIN inv |-> IF j = i THEN e ELSE inv[j]]

\* stripCatalogLinkAt
Stripped(e) == [e EXCEPT !.link = None, !.gear = NoGear]

\* mergeInventory: only lines of one catalog row are merged.
Merged(inv, bought) ==
    LET same == {i \in DOMAIN inv : bought.link # None /\ inv[i].link = bought.link}
        first == CHOOSE i \in same : \A j \in same : i <= j
    IN  IF same = {} THEN Append(inv, bought)
        ELSE [inv EXCEPT ![first].quantity = @ + bought.quantity]
================================================================================
