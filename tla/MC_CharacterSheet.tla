--------------------------- MODULE MC_CharacterSheet ---------------------------
EXTENDS CharacterSheet, TLC

CONSTANTS d8, d10, bard, own

ClassDice == bard :> d8 @@ own :> d10

\* A homebrew class is deleted.
SomeChanges == {<<own, NoDie>>}

\* A character of two classes, and one of none with a pool that was sent and is
\* overspent.
SomeBuilds ==
    {[classes |-> <<[class |-> bard, level |-> 1], [class |-> own, level |-> 1]>>,
      level |-> None, pools |-> <<>>, wounds |-> 0],
     [classes |-> <<>>, level |-> 1, pools |-> <<[die |-> d8, total |-> 0, spent |-> 1]>>,
      wounds |-> 1]}

\* Another class: a level up for the second, a step down for a character that
\* has reached the third level, and no change of level between. And the
\* homebrew class, with a first pool that may repeat the second's die.
SomeEdits ==
    {[class |-> bard, level |-> 2, pool |-> None, wounds |-> None],
     [class |-> own, level |-> 1, pool |-> [die |-> d10, total |-> 1, spent |-> 2], wounds |-> 1]}

Interchangeable == Permutations(Tabs) \cup Permutations(Requests)
================================================================================
