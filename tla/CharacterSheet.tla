---------------------------- MODULE CharacterSheet ----------------------------
(***************************************************************************)
(* One character's sheet, played from several tabs (or by its owner and the *)
(* API): hits, hit dice, short and long rests, level-ups and the edit form  *)
(* (frontend/src/app/characters/[id]), and the guarded write with its       *)
(* automatic snapshot (backend/src/characters/characters.service.ts).       *)
(*                                                                         *)
(* A tab shows the row its query cache holds, `view`; the row may have been *)
(* written since. Every write carries `expectedVersion`, as all the writes  *)
(* of the client do. A request whose answer the tab no longer waits for     *)
(* (the network failed, or the player left the page) may still be handled.  *)
(*                                                                         *)
(* A class is a row of the catalogue by its key or name. What that row says *)
(* of the hit die may change, and no sheet is told.                         *)
(***************************************************************************)
EXTENDS HitDice

CONSTANTS
    Tabs, Requests,
    Dice,        \* the dice a player can pick
    Classes,
    HitDie,      \* HitDie[c]: the die of the row class c resolves to at first, or NoDie
    Changes,     \* the class, and the die (or NoDie) its row may come to have
    Builds,      \* a creation: classes, level (or None), pools, wounds
    Edits,       \* what the edit form may send: class, level, first pool, wounds
    MaxLevel,    \* MAX_CHARACTER_LEVEL
    MaxWounds,   \* hit points missing, at most
    MaxHeal,     \* what one die heals, at most
    MaxVersion,  \* bounds the writes, those asked for included
    None

ASSUME SheetAssumption ==
    /\ HitDie \in [Classes -> Dice \cup {NoDie}] /\ NoDie \notin Dice
    /\ Changes \subseteq Classes \X (Dice \cup {NoDie})
    /\ MaxLevel \in Nat \ {0} /\ {MaxWounds, MaxHeal, MaxVersion} \subseteq Nat
    /\ None \notin Tabs \cup Classes

VARIABLES
    hitDie,     \* hitDie[c]: the die of the row class c resolves to, or NoDie
    row,        \* the character's row, with its version
    built,      \* the dice and levels its pools were last resolved from
    snapshots,  \* the snapshots level-ups have kept
    view,       \* view[t]: the row in tab t's query cache
    saving,     \* saving[t]: a write of tab t is in flight (isSaving)
    dialog,     \* dialog[t]: Closed, or the level its confirmed write targets, or 0
    form,       \* form[t]: the row tab t's edit form was filled from, or None
    gained,     \* gained[t]: level-ups committed for tab t's open dialog
    req         \* req[r]: where request r is

vars == <<hitDie, row, built, snapshots, view, saving, dialog, form, gained, req>>

Closed == -1
LevelOf(classes) == MapThenSumSet(LAMBDA i : classes[i].level, DOMAIN classes)
OneClass(c, level) == IF c = None THEN <<>> ELSE <<[class |-> c, level |-> level]>>

\* resolveClassEntries: what the catalogue says of the classes now.
Built(classes) ==
    [i \in DOMAIN classes |-> [die |-> hitDie[classes[i].class], level |-> classes[i].level]]

AddsUp(s) == s.classes = <<>> \/ LevelOf(s.classes) = s.level

\* create: the level is the one sent, else the sum of the class levels, or 1.
LevelSent(b) == IF b.level # None THEN b.level ELSE NoLess(LevelOf(b.classes), 1)

\* HitDiceDto: any numbers, any dice, repeated or not.
AnyPool == [die : Dice, total : Nat, spent : Nat]

\* create refuses classes that do not sum to the level, or past the cap.
ASSUME BuildsAssumption ==
    \A b \in Builds :
        /\ b.classes \in Seq([class : Classes, level : 1..MaxLevel]) /\ b.pools \in Seq(AnyPool)
        /\ b.wounds \in 0..MaxWounds
        /\ LevelSent(b) \in 1..MaxLevel
        /\ AddsUp([classes |-> b.classes, level |-> LevelSent(b)])

\* None for no class, for a first pool and for wounds that are left as they were.
ASSUME EditsAssumption ==
    \A e \in Edits : /\ e.class \in Classes \cup {None} /\ e.level \in 1..MaxLevel
                     /\ e.pool # None => e.pool \in AnyPool
                     /\ e.wounds # None => e.wounds \in 0..MaxWounds

\* What s is once the fields of the patch are written over it.
With(s, patch) ==
    [f \in DOMAIN s \cup DOMAIN patch |-> IF f \in DOMAIN patch THEN patch[f] ELSE s[f]]

\* `patch` holds the fields the request sends and no other.
Idle == [at |-> "idle", tab |-> None, of |-> None, kind |-> None, expected |-> 0,
         patch |-> <<>>, built |-> <<>>, up |-> FALSE, label |-> 0, kept |-> {}]

Stage == {"idle", "sent", "read", "captured", "saved", "conflict", "refused"}
Kind == {"hurt", "die", "short", "long", "level", "edit"}

Sheet ==
    [version : Nat, classes : Seq([class : Classes, level : 1..MaxLevel]), level : 1..MaxLevel,
     pools : Seq(AnyPool), wounds : 0..MaxWounds]

\* Types. More dice may be spent than a pool holds, but never fewer than none.
TypeOK ==
    /\ hitDie \in [Classes -> Dice \cup {NoDie}]
    /\ row \in Sheet
    /\ built \in Seq([die : Dice \cup {NoDie}, level : 1..MaxLevel])
    /\ \A t \in Tabs : view[t] \in Sheet /\ (form[t] # None => form[t] \in Sheet)
    /\ saving \in [Tabs -> BOOLEAN]
    /\ dialog \in [Tabs -> Closed..MaxLevel]
    /\ gained \in [Tabs -> Nat]
    /\ \A r \in Requests :
         /\ req[r].at \in Stage /\ req[r].kind \in Kind \cup {None}
         /\ {req[r].tab, req[r].of} \subseteq Tabs \cup {None}

\* The sheet adds up: the class levels sum to the level, and the pools are those
\* of the classes at their present levels, one for each die they had when classes
\* or level were last written, as large as the levels of that die and spent
\* within it. Rests and spends send pools computed from what a tab shows, which
\* are stored as sent, and the form and creation may send any: one that was
\* written over a level-up or a change of class would break the sum. Only when no
\* class had a die are the pools the player's own.
SheetAddsUp ==
    LET dice == [i \in DOMAIN row.pools |-> row.pools[i].die]
    IN  /\ AddsUp(row)
        /\ DOMAIN built = DOMAIN row.classes
        /\ \A i \in DOMAIN built : built[i].level = row.classes[i].level
        /\ DiceOf(built) # <<>> =>
             /\ dice = DiceOf(built)
             /\ \A i \in DOMAIN dice : /\ row.pools[i].total = LevelsOf(built, dice[i])
                                       /\ row.pools[i].spent <= row.pools[i].total

\* create: pools are resolved from the classes, or kept as sent when no class has
\* a die, and the hit points are as sent.
Create(b) ==
    [version |-> 0, classes |-> b.classes, level |-> LevelSent(b),
     pools |-> PoolsFor(Built(b.classes), b.pools), wounds |-> b.wounds]

Init ==
    /\ hitDie = HitDie
    /\ \E b \in Builds : row = Create(b) /\ built = Built(b.classes)
    /\ snapshots = {}
    /\ view = [t \in Tabs |-> row]
    /\ saving = [t \in Tabs |-> FALSE]
    /\ dialog = [t \in Tabs |-> Closed]
    /\ form = [t \in Tabs |-> None]
    /\ gained = [t \in Tabs |-> 0]
    /\ req = [r \in Requests |-> Idle]
--------------------------------------------------------------------------------
(* The tab *)

Answered(r) == req[r].at \in {"saved", "conflict", "refused"}
Pending(r) == req[r].at \in {"sent", "read", "captured"}

\* A class's row is edited, created or deleted, or its name becomes ambiguous.
\* Stored pools stay as they are.
ClassChanges(c, die) ==
    /\ hitDie[c] # die
    /\ hitDie' = [hitDie EXCEPT ![c] = die]
    /\ UNCHANGED <<row, built, snapshots, view, saving, dialog, form, gained, req>>

\* The write of tab t: `expectedVersion` is the version in the query cache.
Send(t, kind, patch) ==
    /\ ~saving[t] /\ row.version + Cardinality({r \in Requests : Pending(r)}) < MaxVersion
    /\ \E r \in Requests :
         /\ req[r] = Idle
         /\ req' = [req EXCEPT ![r] =
              [Idle EXCEPT !.at = "sent", !.tab = t, !.of = IF kind = "level" THEN t ELSE None,
                           !.kind = kind,
                           !.expected = view[t].version, !.patch = patch]]
    /\ saving' = [saving EXCEPT ![t] = TRUE]

\* A control of the sheet, which is shown when the edit form is not.
Play(t, kind, patch) ==
    /\ form[t] = None
    /\ Send(t, kind, patch)
    /\ UNCHANGED <<hitDie, row, built, snapshots, view, form, gained>>

Hurt(t) ==
    /\ view[t].wounds < MaxWounds
    /\ Play(t, "hurt", [wounds |-> view[t].wounds + 1])
    /\ UNCHANGED dialog

\* spendHitDie, one die spent or restored.
SpendDie(t, die, delta) ==
    LET pools == AdjustSpent(view[t].pools, die, delta)
    IN  /\ pools # view[t].pools
        /\ Play(t, "die", [pools |-> pools])
        /\ UNCHANGED dialog

\* applyShortRest: the dice are spent in every pool of the die,
RestPools(pools, dice) == AdjustSpent(pools, pools[ShortRestPool(pools)].die, dice)

\* and as many heal as that adds to the dice spent; when it takes from them, as
\* where a pool of the same die was spent past its total, slice(0, -n) drops n.
Healing(pools, dice) ==
    LET allowed == HitDiceSpent(RestPools(pools, dice)) - HitDiceSpent(pools)
    IN  IF allowed < 0 THEN NoLess(dice + allowed, 0) ELSE AtMost(dice, allowed)

\* A die may heal nothing.
ShortRestPatch(s, dice, healed) ==
    IF healed = 0 THEN [pools |-> RestPools(s.pools, dice)]
    ELSE [pools |-> RestPools(s.pools, dice), wounds |-> NoLess(s.wounds - healed, 0)]

\* ShortRestDialog: any number of the dice left in the first pool that has one.
ShortRest(t, dice, healed) ==
    LET pools == view[t].pools
        at == ShortRestPool(pools)
    IN  /\ at # 0
        /\ dice <= pools[at].total - pools[at].spent
        /\ healed <= MaxHeal * Healing(pools, dice)
        /\ Play(t, "short", ShortRestPatch(view[t], dice, healed))
        /\ UNCHANGED dialog

\* applyLongRest: what is already as a rest leaves it is not sent.
LongRestPatch(s) ==
    With(IF HitDiceSpent(s.pools) > 0 THEN [pools |-> Regain(s.pools)] ELSE <<>>,
         IF s.wounds > 0 THEN [wounds |-> 0] ELSE <<>>)

\* longRest sends nothing for a character that is fully rested.
LongRest(t) ==
    /\ LongRestPatch(view[t]) # <<>>
    /\ Play(t, "long", LongRestPatch(view[t]))
    /\ UNCHANGED dialog

OpenDialog(t) ==
    /\ form[t] = None /\ dialog[t] = Closed
    /\ ~saving[t] /\ view[t].level < MaxLevel
    /\ dialog' = [dialog EXCEPT ![t] = 0]
    /\ UNCHANGED <<hitDie, row, built, snapshots, view, saving, form, gained, req>>

\* The die of the level: that of the first pool, else the first class's by the
\* catalogue the tab has cached, of any age, else the player's choice.
LevelDie(s, other) == IF s.pools # <<>> THEN s.pools[1].die ELSE other

\* applyLevelUp: the level goes to the first class. The maximum rises with the
\* hit points, so what is missing stays.
LevelUpPatch(s, die) ==
    LET patch == [level |-> s.level + 1, wounds |-> s.wounds,
                  pools |-> Gain(s.pools, die, s.level + 1)]
    IN  IF s.classes = <<>> THEN patch
        ELSE With(patch, [classes |-> [s.classes EXCEPT ![1].level = @ + 1]])

Confirm(t, other) ==
    /\ dialog[t] # Closed
    /\ Play(t, "level", LevelUpPatch(view[t], LevelDie(view[t], other)))
    /\ dialog' = [dialog EXCEPT ![t] = view[t].level + 1]

\* No dialog is open in tab t any more, so no write in flight is its dialog's.
Disown(t) == [r \in Requests |-> IF req[r].of = t THEN [req[r] EXCEPT !.of = None] ELSE req[r]]

Shut(t) ==
    /\ dialog' = [dialog EXCEPT ![t] = Closed]
    /\ gained' = [gained EXCEPT ![t] = 0]

Cancel(t) ==
    /\ dialog[t] # Closed
    /\ Shut(t) /\ req' = Disown(t)
    /\ UNCHANGED <<hitDie, row, built, snapshots, view, saving, form>>

\* Mutated form: the dialog stays open until the player closes it.
Outdated(t, s) == s.level >= MaxLevel

\* The two effects of the dialog: its target is reached, or the cap is.
Obsolete(t, s) == (dialog[t] # 0 /\ s.level >= dialog[t]) \/ s.level >= MaxLevel

\* The query is fetched again: after a write, after a 409, when the network is
\* back, or when a page mounts on a cache that has gone stale.
Refetch(t) ==
    /\ view[t] # row
    /\ view' = [view EXCEPT ![t] = row]
    /\ IF dialog[t] # Closed /\ Obsolete(t, row)
       THEN Shut(t) /\ req' = Disown(t)
       ELSE UNCHANGED <<dialog, gained, req>>
    /\ UNCHANGED <<hitDie, row, built, snapshots, saving, form>>

\* The edit page replaces the sheet. Its form is filled once, from the cache.
OpenForm(t) ==
    /\ form[t] = None
    /\ form' = [form EXCEPT ![t] = view[t]]
    /\ Shut(t)
    /\ saving' = [saving EXCEPT ![t] = FALSE]
    /\ req' = [r \in Requests |->
                  IF req[r].tab # t THEN Disown(t)[r]
                  ELSE IF Answered(r) THEN Idle
                  ELSE [req[r] EXCEPT !.tab = None, !.of = None]]
    /\ UNCHANGED <<hitDie, row, built, snapshots, view>>

\* characterFormPayload: the form edits one class, and sends its level as the
\* character's. It edits the first pool, or records one where there is none; a die
\* and a total typed in for a class the catalogue does not know stay in the form
\* when the class is changed to one it knows. Later pools are kept.
FormPatch(s, e) ==
    LET patch == [level |-> e.level, classes |-> OneClass(e.class, e.level),
                  wounds |-> IF e.wounds = None THEN s.wounds ELSE e.wounds]
        pools == IF e.pool = None THEN s.pools
                 ELSE <<e.pool>> \o SubSeq(s.pools, 2, Len(s.pools))
    IN  IF pools = <<>> THEN patch ELSE With(patch, [pools |-> pools])

SubmitForm(t, e) ==
    /\ form[t] # None
    /\ Send(t, "edit", FormPatch(form[t], e))
    /\ UNCHANGED <<hitDie, row, built, snapshots, view, dialog, form, gained>>

LeaveForm(t) ==
    /\ form[t] # None /\ ~saving[t]
    /\ form' = [form EXCEPT ![t] = None]
    /\ UNCHANGED <<hitDie, row, built, snapshots, view, saving, dialog, gained, req>>
--------------------------------------------------------------------------------
(* The server *)

\* Mutated form: the pools are stored as they were sent.
AsSent(existing, patch) == patch

Resolves(patch) == DOMAIN patch \cap {"classes", "level"} # {}

\* A write of classes or level is checked against the stored value of the one
\* it leaves out, and the pools are rebuilt from the classes.
Rebuilt(existing, patch) ==
    LET s == With(existing, patch)
    IN  IF ~Resolves(patch) THEN patch
        ELSE With(patch, [pools |-> PoolsFor(Built(s.classes), s.pools)])

\* Mutated form: whatever raises the level keeps a snapshot.
Higher(existing, patch) == "level" \in DOMAIN patch /\ patch.level >= existing.level

\* levelsUp: the write raises the level by exactly one.
LevelsUp(existing, patch) == "level" \in DOMAIN patch /\ patch.level = existing.level + 1

\* What became of the request, if there is still a tab to tell.
Done(r, at) ==
    IF req[r].tab = None THEN Idle
    ELSE [Idle EXCEPT !.at = at, !.tab = req[r].tab, !.kind = req[r].kind]

\* update up to its write: the row is read and what to write is decided.
Read(r) ==
    LET patch == req[r].patch
    IN  /\ req[r].at = "sent"
        /\ req' = [req EXCEPT ![r] =
             IF ~Resolves(patch) \/ AddsUp(With(row, patch))
             THEN [@ EXCEPT !.at = "read", !.patch = Rebuilt(row, patch),
                            !.built = Built(With(row, patch).classes),
                            !.up = LevelsUp(row, patch), !.label = row.level]
             ELSE Done(r, "refused")]
        /\ UNCHANGED <<hitDie, row, built, snapshots, view, saving, dialog, form, gained>>

\* captureCharacterSnapshot in the transaction of the write.
Capture(r) ==
    /\ req[r].at = "read" /\ req[r].up
    /\ req' = [req EXCEPT ![r].at = "captured",
                          ![r].kept = {[version |-> row.version, level |-> row.level,
                                        label |-> req[r].label]}]
    /\ UNCHANGED <<hitDie, row, built, snapshots, view, saving, dialog, form, gained>>

\* Mutated form: the write is not guarded by the version.
Unguarded(r) == TRUE

Guard(r) == row.version = req[r].expected

\* Mutated form: the snapshot is not part of the transaction.
NotRolledBack(r) == snapshots \cup req[r].kept

RolledBack(r) == snapshots

\* The level-ups of the open dialogs; one that is undone does not count.
Gained(r, level) ==
    [t \in Tabs |-> IF level < row.level THEN 0
                    ELSE gained[t] + IF req[r].of = t THEN 1 ELSE 0]

\* writeCharacter, which also commits or rolls back.
Write(r) ==
    /\ req[r].at = IF req[r].up THEN "captured" ELSE "read"
    /\ IF Guard(r)
       THEN /\ row' = With(With(row, req[r].patch), [version |-> row.version + 1])
            /\ built' = IF Resolves(req[r].patch) THEN req[r].built ELSE built
            /\ snapshots' = snapshots \cup req[r].kept
            /\ gained' = Gained(r, row'.level)
            /\ req' = [req EXCEPT ![r] = Done(r, "saved")]
       ELSE /\ snapshots' = RolledBack(r)
            /\ req' = [req EXCEPT ![r] = Done(r, "conflict")]
            /\ UNCHANGED <<row, built, gained>>
    /\ UNCHANGED <<hitDie, view, saving, dialog, form>>
--------------------------------------------------------------------------------
(* The answer *)

\* A saved form is left. After a conflict the form is filled again, unless the
\* fetch it waits for fails.
Answer(r, fetched) ==
    LET t == req[r].tab
        edit == req[r].kind = "edit"
        again == edit /\ req[r].at = "conflict" /\ fetched
    IN  /\ Answered(r) /\ t # None
        /\ saving' = [saving EXCEPT ![t] = FALSE]
        /\ req' = [req EXCEPT ![r] = Idle]
        /\ view' = IF again THEN [view EXCEPT ![t] = row] ELSE view
        /\ form' = IF again THEN [form EXCEPT ![t] = row]
                   ELSE IF edit /\ req[r].at = "saved" THEN [form EXCEPT ![t] = None]
                   ELSE form
        /\ UNCHANGED <<hitDie, row, built, snapshots, dialog, gained>>

\* The tab is told of a failure. A request that was not handled yet may still be.
LoseAnswer(r) ==
    /\ req[r].tab # None
    /\ saving' = [saving EXCEPT ![req[r].tab] = FALSE]
    /\ req' = [req EXCEPT ![r] = IF Answered(r) THEN Idle ELSE [@ EXCEPT !.tab = None]]
    /\ UNCHANGED <<hitDie, row, built, snapshots, view, dialog, form, gained>>

\* A request nobody waits for never arrives.
Forget(r) ==
    /\ req[r].tab = None /\ req[r].at = "sent"
    /\ req' = [req EXCEPT ![r] = Idle]
    /\ UNCHANGED <<hitDie, row, built, snapshots, view, saving, dialog, form, gained>>

Next ==
    \/ \E t \in Tabs :
         \/ Hurt(t) \/ LongRest(t)
         \/ \E die \in Dice, delta \in {1, -1} : SpendDie(t, die, delta)
         \/ \E dice \in 1..MaxLevel, healed \in 0..(MaxHeal * MaxLevel) : ShortRest(t, dice, healed)
         \/ OpenDialog(t) \/ Cancel(t)
         \/ \E die \in Dice : Confirm(t, die)
         \/ Refetch(t)
         \/ OpenForm(t) \/ LeaveForm(t)
         \/ \E e \in Edits : SubmitForm(t, e)
    \/ \E r \in Requests :
         \/ Read(r) \/ Capture(r) \/ Write(r)
         \/ \E fetched \in BOOLEAN : Answer(r, fetched)
         \/ LoseAnswer(r) \/ Forget(r)
    \/ \E change \in Changes : ClassChanges(change[1], change[2])

Spec == Init /\ [][Next]_vars
--------------------------------------------------------------------------------
\* A level-up dialog that stays open through a 409, a lost answer and a retry
\* raises the level once: the retry of a write that did arrive is refused by
\* the version, and the row it then fetches closes the dialog.
OneLevelPerDialog == \A t \in Tabs : gained[t] <= 1

\* A write that raises the level by one leaves exactly one more snapshot, of
\* the row it replaced and labelled with its level; nothing else leaves one,
\* and a level-up that is refused leaves none.
SnapshotOfTheReplacedRow ==
    [][snapshots' = snapshots \cup
         IF row'.level # row.level + 1 THEN {}
         ELSE {[version |-> row.version, level |-> row.level, label |-> row.level]}]_vars

Commits(r) == Pending(r) /\ req'[r] # req[r] /\ row' # row

\* Two pools of one die, which only a player's own pools can be, are both spent
\* within their totals.
Paired(pools) ==
    \A i, j \in DOMAIN pools :
        i # j /\ pools[i].die = pools[j].die => pools[i].spent <= pools[i].total

\* Hit points come back by a short rest only for dice that the row had not
\* recorded as spent, whatever other tabs spent or rested meanwhile, and whatever
\* the pools say, but for a die in two pools of which one is overspent.
HealingIsPaid ==
    [][\A r \in Requests : Commits(r) /\ req[r].kind = "short" /\ Paired(row.pools) =>
         row.wounds - row'.wounds <= MaxHeal * (HitDiceSpent(row'.pools) - HitDiceSpent(row.pools))]_vars
================================================================================
