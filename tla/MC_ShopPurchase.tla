---------------------------- MODULE MC_ShopPurchase ----------------------------
(* Instances of ShopPurchase for TLC: the requests are interchangeable, the *)
(* purse holds electrum and a unit costs most of it.                       *)
EXTENDS ShopPurchase, TLC

Coin(gp, ep, sp) == [pp |-> 0, gp |-> gp, ep |-> ep, sp |-> sp, cp |-> 0]

TwoElectrum == {Coin(0, 2, 0)}
SixSilver == {Coin(0, 0, 6)}
SilverPrices == {Coin(0, 0, 3), Coin(0, 0, 4)}

Symmetry == Permutations(Requests)
================================================================================
