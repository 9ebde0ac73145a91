------------------------------ MODULE MC_Inventory ------------------------------
EXTENDS Inventory, TLC

CONSTANTS breastplate, studded, buckler

\* A breastplate, which has the higher base, studded leather, which is better on
\* the nimble, and a shield.
Wardrobe ==
    breastplate :> [name |-> "Breastplate", kind |-> "medium", sign |-> "none", ac |-> 14]
      @@ studded :> [name |-> "Studded", kind |-> "light", sign |-> "none", ac |-> 12]
      @@ buckler :> [name |-> "Shield", kind |-> "shield", sign |-> "none", ac |-> Unstated]
Spelled == {"Breastplate", "breastplate", "Studded", "Shield", "wooden shield", "rope"}
Folded == [n \in Spelled |-> CASE n = "Breastplate" -> "breastplate" [] n = "Studded" -> "studded"
                               [] n = "Shield" -> "shield" [] OTHER -> n]
Aliases == [k \in {Folded[n] : n \in Spelled} |-> IF k = "wooden shield" THEN "shield" ELSE k]

Outfits == {<<"breastplate", "wooden shield">>}
Sold == {[name |-> "Shield", link |-> buckler]}
Either == {-1, 5}

Interchangeable == Permutations(Tabs) \cup Permutations(Requests)
================================================================================
