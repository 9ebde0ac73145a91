------------------------- MODULE MC_EncounterTracker -------------------------
(* Instances of EncounterTracker for TLC: trackers are interchangeable, and *)
(* so are monsters among themselves.                                        *)
EXTENDS EncounterTracker, TLC

Symmetry == Permutations(Trackers) \cup Permutations(Monsters)

(* Of a request that is out of date only the fact that it will be refused   *)
(* matters, and of one that is through only what it rolls loot for.         *)
Doomed(c) == c.stage = "sent" /\ c.write.version < row.version

Essence(c) == IF c.stage = "sent" THEN c
              ELSE <<c.stage, c.answer, c.write.fallen, c.write.at, IsRoll(c.write)>>

WhatMatters ==
    <<row, view, leaving,
      [i \in Trackers |-> Cardinality({c \in calls[i] : Doomed(c)})],
      [i \in Trackers |-> {Essence(c) : c \in {d \in calls[i] : ~Doomed(d)}}],
      [i \in Trackers |-> Cardinality(calls[i])]>>
=============================================================================
