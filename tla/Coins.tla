--------------------------------- MODULE Coins ---------------------------------
(***************************************************************************)
(* Coin amounts and the change a purchase makes (shared/src/coin.ts).  A    *)
(* purse may hold electrum, but change is never given in it.               *)
(***************************************************************************)
EXTENDS Integers

Currency == [pp : Nat, gp : Nat, ep : Nat, sp : Nat, cp : Nat]

ToCopper(coin) == 1000 * coin.pp + 100 * coin.gp + 50 * coin.ep + 10 * coin.sp + coin.cp

FromCopper(copper) ==
    LET belowPlatinum == copper % 1000
        belowGold == belowPlatinum % 100
    IN [pp |-> copper \div 1000, gp |-> belowPlatinum \div 100, ep |-> 0,
        sp |-> belowGold \div 10, cp |-> belowGold % 10]

LineTotal(price, quantity) == FromCopper(ToCopper(price) * quantity)

CanAfford(balance, price) == ToCopper(balance) >= ToCopper(price)

\* What is left of a balance that covers the price.
Settle(balance, price) == FromCopper(ToCopper(balance) - ToCopper(price))
================================================================================
