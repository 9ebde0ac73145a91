--------------------------- MODULE EncounterTracker ---------------------------
(***************************************************************************)
(* One encounter: its row on the server (encounters.service.ts), the combat *)
(* trackers that show it and write it under an optimistic lock              *)
(* (useEncounter.ts, useEncounterActions.ts, encounter-rows.ts), and the    *)
(* cleanup of a leaving player's combatants (campaigns.service.ts).         *)
(*                                                                         *)
(* A tracker computes a write from the row it last saw.  The server commits *)
(* it if the version still matches and then, in a statement of its own,     *)
(* reads the row that it answers with, so the answer may hold a later write *)
(* of somebody else.  Combatants have distinct names, as the dialogs that   *)
(* add them make sure; hit points are reduced to standing or down.          *)
(***************************************************************************)
EXTENDS Integers, FiniteSets, Sequences

CONSTANTS
    Combatants, \* who can be in the encounter
    Monsters,   \* those linked to a monster (the others are the players')
    Departing,  \* the characters of a player who leaves the campaign
    Trackers,   \* open tracker pages
    Initiatives,\* initiative values
    None,       \* absent
    MaxVersion, \* bound: no write beyond this version
    MaxRound,   \* bound: no turn is advanced beyond this round
    MaxCalls    \* bound: requests the trackers have in flight

Combatant == [id : Combatants, initiative : Initiatives, up : BOOLEAN, loot : BOOLEAN]

ASSUME TrackerAssumption ==
    /\ Monsters \subseteq Combatants
    /\ Departing \subseteq Combatants \ Monsters
    /\ Initiatives \subseteq Int
    /\ MaxVersion \in Nat /\ MaxRound \in Nat \ {0} /\ MaxCalls \in Nat \ {0}
    /\ None \notin Combatants \cup Nat \cup Seq(Combatant)

VARIABLES
    row,     \* the encounter's row
    view,    \* view[i]: the row as tracker i has it in its query cache
    calls,   \* calls[i]: its requests in flight
    leaving  \* the cleanup: "idle", what its transaction has read, "done"

vars == <<row, view, calls, leaving>>

IsRow(r) ==
    /\ r.list \in Seq(Combatant)
    /\ r.turn \in Nat /\ r.round \in Nat \ {0} /\ r.version \in Nat

\* The round stays at least 1 and the turn at least 0, stepping back included,
\* and every copy of the row is a row.
TypeOK ==
    /\ IsRow(row)
    /\ \A i \in Trackers : IsRow(view[i])
    /\ \A i \in Trackers : \A c \in calls[i] :
         /\ c.stage \in {"sent", "written", "answered"}
         /\ c.stage = "answered" => IsRow(c.answer)
         /\ c.write.list = None \/ c.write.list \in Seq(Combatant)
         /\ c.write.turn \in Nat \cup {None} /\ c.write.round \in (Nat \ {0}) \cup {None}

Fresh(c, x) == [id |-> c, initiative |-> x, up |-> TRUE, loot |-> FALSE]

\* What an encounter may be created with: anyone, at any initiative.
Created ==
    UNION {{[n \in 1 .. k |-> Fresh(who[n], init[n])] :
              who \in {w \in [1 .. k -> Combatants] :
                         \A m, n \in 1 .. k : w[m] = w[n] => m = n},
              init \in [1 .. k -> Initiatives]} :
           k \in 0 .. Cardinality(Combatants)}

Row(list, turn, round, version) ==
    [list |-> list, turn |-> turn, round |-> round, version |-> version]

Init ==
    /\ row \in {Row(list, 0, 1, 0) : list \in Created}
    /\ view = [i \in Trackers |-> row]
    /\ calls = [i \in Trackers |-> {}]
    /\ leaving = [pc |-> "idle", list |-> <<>>, turn |-> 0]

-----------------------------------------------------------------------------
(* The order of the tracker's rows: highest initiative first, ties in the   *)
(* stored order.                                                           *)

\* The combatants in the given places of a list, in the order ahead puts them.
Arranged(list, places, ahead) ==
    [n \in 1 .. Cardinality(places) |->
       list[CHOOSE k \in places : Cardinality({j \in places : <<j, k>> \in ahead}) = n - 1]]

Places(list) == 1 .. Len(list)

Ahead(list) ==
    {p \in Places(list) \X Places(list) :
       LET x == list[p[1]].initiative
           y == list[p[2]].initiative
       IN x > y \/ (x = y /\ p[1] < p[2])}

Sorted(list) == Arranged(list, Places(list), Ahead(list))

\* The sorted index, from 0, of combatant c.
IndexOf(list, c) == (CHOOSE n \in 1 .. Len(list) : Sorted(list)[n].id = c) - 1

Names(list) == {list[n].id : n \in 1 .. Len(list)}

\* Who has the turn, if the pointer addresses anyone.
Active(r) == IF r.turn < Len(r.list) THEN Sorted(r.list)[r.turn + 1].id ELSE None

-----------------------------------------------------------------------------
(* The writes a tracker computes from its view v.  None is a field that the *)
(* PATCH leaves out.                                                       *)

Write(kind, v, list, turn, round, fallen, at) ==
    [kind |-> kind, version |-> v.version, list |-> list, turn |-> turn,
     round |-> round, fallen |-> fallen, at |-> at]

Patch(kind, v, list, turn, round) == Write(kind, v, list, turn, round, None, None)

IfMoved(v, turn) == IF turn = v.turn THEN None ELSE turn

AnyoneUp(v) == \E n \in 1 .. Len(v.list) : v.list[n].up

NextTurn(v) ==
    LET wraps == v.turn + 1 >= Len(v.list)
    IN {w \in {Patch("turn", v, None,
                     IF wraps THEN 0 ELSE v.turn + 1,
                     IF wraps THEN v.round + 1 ELSE v.round)} :
          AnyoneUp(v) /\ w.round <= MaxRound}

\* Mutated form: the tracker reverses before the encounter began.
NeverAtStart(v) == FALSE

AtStart(v) == v.round = 1 /\ v.turn = 0

PreviousTurn(v) ==
    LET last == Len(v.list) - 1
        wraps == v.turn = 0
        back == IF wraps THEN last ELSE v.turn - 1
    IN {w \in {Patch("turn", v, None, IF back < last THEN back ELSE last,
                     IF wraps THEN v.round - 1 ELSE v.round)} :
          AnyoneUp(v) /\ ~AtStart(v)}

\* Mutated form: the pointer keeps its number.
SameNumber(v, list) == None

\* The pointer follows the active combatant into the new list.
ReAnchor(v, list) ==
    IF Active(v) = None THEN None ELSE IfMoved(v, IndexOf(list, Active(v)))

Rearranged(v, list) == Patch("edit", v, list, ReAnchor(v, list), None)

\* commitCombatantInitiative: the list is sorted, changed and sorted again.
Requeued(v, n, x) == Sorted([Sorted(v.list) EXCEPT ![n].initiative = x])

SetInitiative(v) ==
    UNION {{Rearranged(v, Requeued(v, n, x)) :
              x \in Initiatives \ {Sorted(v.list)[n].initiative}} : n \in 1 .. Len(v.list)}

\* rollNpcInitiatives: every monster rolls, and the list keeps its order.
Rolled(v, roll) ==
    [n \in 1 .. Len(v.list) |->
       IF v.list[n].id \in Monsters
       THEN [v.list[n] EXCEPT !.initiative = roll[v.list[n].id]]
       ELSE v.list[n]]

RollInitiatives(v) ==
    {Rearranged(v, Rolled(v, roll)) :
       roll \in {r \in [Monsters -> Initiatives] : Monsters \cap Names(v.list) # {}}}

\* moveCombatant swaps neighbours of equal initiative.
Swap(list, n) == [list EXCEPT ![n] = list[n + 1], ![n + 1] = list[n]]

Move(v) ==
    LET sorted == Sorted(v.list)
    IN {Rearranged(v, Swap(sorted, n)) :
          n \in {m \in 1 .. Len(sorted) - 1 :
                   sorted[m].initiative = sorted[m + 1].initiative}}

AppendCombatant(v) ==
    {LET list == Append(v.list, Fresh(c, x))
     IN Patch("append", v, list, ReAnchor(v, list), None) :
       c \in Combatants \ Names(v.list), x \in Initiatives}

\* Damage and healing.  The fall of a monster without loot rolls some once
\* the write has landed (maybeAutoRollLootOnDeath).
SetHp(v) ==
    LET sorted == Sorted(v.list)
    IN {LET falls == sorted[n].up /\ sorted[n].id \in Monsters /\ ~sorted[n].loot
        IN Write("edit", v, [sorted EXCEPT ![n].up = ~@], None, None,
               IF falls THEN sorted[n].id ELSE None, n) :
          n \in 1 .. Len(sorted)}

\* mutateCombatantRow: conditions, notes, exhaustion, death saves, the monster
\* link; here only the sorted list that it writes back.
EditField(v) == {Patch("edit", v, Sorted(v.list), None, None) : n \in 1 .. Len(v.list)}

ToggleActive(v) == {Patch("turn", v, None, None, None)}

Without(list, n) == SubSeq(list, 1, n - 1) \o SubSeq(list, n + 1, Len(list))

\* Mutated form: the pointer is left where it was.
Unclamped(turn, len) == turn

Clamp(turn, len) == IF turn < len THEN turn ELSE IF len = 0 THEN 0 ELSE len - 1

Remove(v) ==
    {Patch("remove", v, Without(Sorted(v.list), n),
           IfMoved(v, Clamp(v.turn, Len(v.list) - 1)), None) : n \in 1 .. Len(v.list)}

Clear(v) == {Patch("clear", v, <<>>, 0, 1)}

\* rollLoot of row n (an index into the stored list), by hand or on a death.
Roll(kind, r, n, target) ==
    Write(kind, r, None, None, None, target, n)
RollByHand(v) ==
    {Roll("roll", v, n, None) : n \in {m \in 1 .. Len(v.list) : v.list[m].id \in Monsters}}

\* Actions that refuse to start while a write is pending, and those that do not.
Locked(v) == SetInitiative(v) \cup RollInitiatives(v) \cup Move(v) \cup SetHp(v)
                \cup EditField(v) \cup Remove(v) \cup Clear(v) \cup RollByHand(v)
Unlocked(v) == NextTurn(v) \cup PreviousTurn(v) \cup ToggleActive(v) \cup AppendCombatant(v)

Stage(w, stage, answer) == [write |-> w, stage |-> stage, answer |-> answer]

InFlight == UNION {{<<i, c>> : c \in calls[i]} : i \in Trackers}

Submit(i) ==
    /\ Cardinality(InFlight) < MaxCalls
    /\ \E w \in Unlocked(view[i]) \cup (IF calls[i] = {} THEN Locked(view[i]) ELSE {}) :
         calls' = [calls EXCEPT ![i] = @ \cup {Stage(w, "sent", None)}]
    /\ UNCHANGED <<row, view, leaving>>

-----------------------------------------------------------------------------
(* The server: writeWithVersionGuard and rollLoot.                          *)

\* Mutated form: a write that leaves the version alone.
SameVersion(v) == v

NextVersion(v) == v + 1

IsRoll(w) == w.kind \in {"roll", "autoroll"}

\* A loot roll is refused if its index is out of range or not a monster's.
Accepts(w) ==
    IsRoll(w) => w.at <= Len(row.list) /\ row.list[w.at].id \in Monsters

Applied(w) ==
    Row(IF IsRoll(w) THEN [row.list EXCEPT ![w.at].loot = TRUE]
        ELSE IF w.list = None THEN row.list ELSE w.list,
        IF w.turn = None THEN row.turn ELSE w.turn,
        IF w.round = None THEN row.round ELSE w.round,
        NextVersion(row.version))

Commit(i, c) ==
    /\ c.stage = "sent"
    /\ c.write.version = row.version
    /\ Accepts(c.write)
    /\ row.version < MaxVersion
    /\ row' = Applied(c.write)
    /\ calls' = [calls EXCEPT ![i] = (@ \ {c}) \cup {Stage(c.write, "written", None)}]
    /\ UNCHANGED <<view, leaving>>

ReRead(i, c) ==
    /\ c.stage = "written"
    /\ calls' = [calls EXCEPT ![i] =
                   (@ \ {c}) \cup {Stage(c.write, "answered", row)}]
    /\ UNCHANGED <<row, view, leaving>>

\* 409: the tracker refetches.
Conflict(i, c) ==
    /\ c.stage = "sent"
    /\ c.write.version # row.version
    /\ calls' = [calls EXCEPT ![i] = @ \ {c}]
    /\ view' = [view EXCEPT ![i] = row]
    /\ UNCHANGED <<row, leaving>>

\* The request or its answer is lost, or refused: the view stays as it is.
Fail(i, c) ==
    /\ calls' = [calls EXCEPT ![i] = @ \ {c}]
    /\ UNCHANGED <<row, view, leaving>>

Land(i, c) ==
    /\ c.stage = "answered"
    /\ view' = [view EXCEPT ![i] = c.answer]
    /\ calls' = [calls EXCEPT ![i] =
         (@ \ {c}) \cup (IF c.write.fallen = None \/ IsRoll(c.write) THEN {}
                         ELSE {Stage(Roll("autoroll", c.answer, c.write.at, c.write.fallen),
                                     "sent", None)})]
    /\ UNCHANGED <<row, leaving>>

\* Every mount of the page refetches.
Refetch(i) ==
    /\ view[i] # row
    /\ calls[i] = {}
    /\ view' = [view EXCEPT ![i] = row]
    /\ UNCHANGED <<row, calls, leaving>>

-----------------------------------------------------------------------------
(* cleanupPlayerMembership, step 3: read the encounters, then rewrite those *)
(* that held the leaving player's characters.                               *)

Strip(list) ==
    LET staying == {n \in Places(list) : list[n].id \notin Departing}
    IN Arranged(list, staying, {p \in staying \X staying : p[1] < p[2]})

CleanupRead ==
    /\ leaving.pc = "idle"
    /\ Departing # {}
    /\ leaving' = [pc |-> "read", list |-> row.list, turn |-> row.turn]
    /\ UNCHANGED <<row, view, calls>>

CleanupWrite ==
    LET kept == Strip(leaving.list)
        turn == Clamp(leaving.turn, Len(kept))
    IN /\ leaving.pc = "read"
       /\ row.version < MaxVersion
       /\ row' = IF Len(kept) = Len(leaving.list) THEN row
                 ELSE Row(kept, IF turn = leaving.turn THEN row.turn ELSE turn,
                          row.round, NextVersion(row.version))
       /\ leaving' = [pc |-> "done", list |-> <<>>, turn |-> 0]
       /\ UNCHANGED <<view, calls>>

Next ==
    \/ \E i \in Trackers :
         \/ Submit(i) \/ Refetch(i)
         \/ \E c \in calls[i] : \/ Commit(i, c) \/ ReRead(i, c) \/ Conflict(i, c)
                                \/ Fail(i, c) \/ Land(i, c)
    \/ CleanupRead \/ CleanupWrite

Spec == Init /\ [][Next]_vars

-----------------------------------------------------------------------------
(* Properties.                                                             *)

Committed(kinds) == \E i \in Trackers : \E c \in calls[i] : c.write.kind \in kinds /\ Commit(i, c)

\* A version names one state of the row: whatever a tracker holds under the
\* row's current version is the row, so a guarded write never overwrites
\* what its author had not seen.
VersionNamesRow ==
    /\ \A i \in Trackers : view[i].version = row.version => view[i] = row
    /\ \A i \in Trackers : \A c \in calls[i] :
         c.stage = "answered" /\ c.answer.version = row.version => c.answer = row

\* "The turn marker must never jump to whoever re-sorted into its row": no
\* initiative edit, reorder, roll, append or hit takes the turn away.
EditsKeepTurn ==
    [][Committed({"edit", "append"}) /\ Active(row) # None => Active(row') = Active(row)]_vars

TurnAddressesRow == row.turn < Len(row.list) \/ row.turn = 0

\* removeCombatant: "so the turn pointer can never address a missing row".  No
\* write of a tracker leaves the pointer beyond the list, whatever mixture of
\* turn steps, removals and edits the others have committed.
WritesKeepTurnInRange ==
    [][TurnAddressesRow /\ (\E i \in Trackers : \E c \in calls[i] : Commit(i, c)) =>
         TurnAddressesRow']_vars
=============================================================================
