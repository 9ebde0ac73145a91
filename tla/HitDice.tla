-------------------------------- MODULE HitDice --------------------------------
(***************************************************************************)
(* The arithmetic of hit dice (shared/src/embedded.ts and                   *)
(* frontend/src/lib/character-play.ts, character-level.ts). A sheet holds a *)
(* sequence of pools [die, total, spent]; the classes it is built from come *)
(* as a sequence of [die, level], with NoDie for a class that resolves to   *)
(* no row or whose row carries no real hit die.                             *)
(***************************************************************************)
EXTENDS Integers, Sequences, FiniteSetsExt, Functions

CONSTANT NoDie

AtMost(n, top) == IF n > top THEN top ELSE n
NoLess(n, low) == IF n < low THEN low ELSE n

\* Positions of a sequence of pools or of classes that use the die.
Using(seq, die) == {i \in DOMAIN seq : seq[i].die = die}

\* The dice of the classes, each once, in the order they first appear.
DiceOf(built) ==
    LET First == {i \in DOMAIN built :
                    built[i].die # NoDie /\ i = Min(Using(built, built[i].die))}
        Nth(k) == CHOOSE i \in First : Cardinality({j \in First : j < i}) = k - 1
    IN  [k \in 1..Cardinality(First) |-> built[Nth(k)].die]

HitDiceTotal(pools) == MapThenSumSet(LAMBDA i : pools[i].total, DOMAIN pools)
HitDiceSpent(pools) == MapThenSumSet(LAMBDA i : pools[i].spent, DOMAIN pools)

LevelsOf(built, die) == MapThenSumSet(LAMBDA i : built[i].level, Using(built, die))

\* hitDicePoolsFor. Spent dice stay with their die. Those of a die no class has
\* any more go to the first pool that carries none of its own.
PoolsFor(built, carried) ==
    LET dice == DiceOf(built)
        foreign == MapThenSumSet(LAMBDA i : NoLess(carried[i].spent, 0),
                                 {i \in DOMAIN carried : carried[i].die \notin Range(dice)})
        new == {k \in DOMAIN dice : Using(carried, dice[k]) = {}}
        Spent(k) == IF k \notin new THEN carried[Min(Using(carried, dice[k]))].spent
                    ELSE IF k = Min(new) THEN foreign ELSE 0
        Pool(k) == LET total == NoLess(LevelsOf(built, dice[k]), 1)
                   IN  [die |-> dice[k], total |-> total,
                        spent |-> AtMost(NoLess(Spent(k), 0), total)]
    IN  IF dice = <<>> THEN carried ELSE [k \in DOMAIN dice |-> Pool(k)]

\* Mutated form: dice are restored that were never spent.
Unclamped(pools, die, delta) ==
    [i \in DOMAIN pools |->
        IF pools[i].die = die THEN [pools[i] EXCEPT !.spent = @ + delta] ELSE pools[i]]

\* adjustHitDiceSpent: within every pool of the die.
AdjustSpent(pools, die, delta) ==
    [i \in DOMAIN pools |->
        IF pools[i].die # die THEN pools[i]
        ELSE [pools[i] EXCEPT !.spent = NoLess(AtMost(@ + delta, pools[i].total), 0)]]

\* shortRestPool: where the first pool with a die left stands, or 0.
ShortRestPool(pools) ==
    LET left == {i \in DOMAIN pools : pools[i].spent < pools[i].total}
    IN  IF left = {} THEN 0 ELSE Min(left)

\* The dice half of applyLongRest: half the dice come back, at least one, to
\* the pools in their order.
Regain(pools) ==
    LET regained == NoLess(HitDiceTotal(pools) \div 2, 1)
        Left(i) == NoLess(regained - HitDiceSpent(SubSeq(pools, 1, i - 1)), 0)
    IN  [i \in DOMAIN pools |-> [pools[i] EXCEPT !.spent = @ - AtMost(@, Left(i))]]

\* The pools of applyLevelUp: the level's die joins its pool or starts one, and
\* a sheet with no pool gets all of its dice.
Gain(pools, die, level) ==
    IF pools = <<>> THEN <<[die |-> die, total |-> level, spent |-> 0]>>
    ELSE IF Using(pools, die) = {}
    THEN Append(pools, [die |-> die, total |-> 1, spent |-> 0])
    ELSE [i \in DOMAIN pools |->
            IF pools[i].die = die THEN [pools[i] EXCEPT !.total = @ + 1] ELSE pools[i]]
================================================================================
