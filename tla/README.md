# A verification development for GrimoireOS

GrimoireOS manages D&D 5e campaigns: a NestJS API on Prisma and Postgres
(`src/backend`), a Next.js client (`src/frontend`) and a package of rules they
share (`src/shared`). Most of it is CRUD on one row at a time. The parts that
are hard to get right are those where several clients, tabs or requests work on
the same row and the code relies on an order, a lock or a version number. This
directory models those parts in TLA+, checks small instances with TLC, and
proves the main results for every size with TLAPS.

Paths below are relative to `src/`.

## Inventory

| Component | State | Operations | Talks to |
|---|---|---|---|
| Sessions (`backend/src/auth/refresh-token.service.ts`, `auth.controller.ts`) | `refresh_tokens` rows: user, expiry, `revokedAt`, `replacedById` | issue, rotate, revoke, revoke all of a user, purge | users (password and role change sweep), the browser's cookies |
| Browser session (`frontend/src/lib/api.ts`, `auth-context.tsx`, `middleware.ts`) | cookie jar shared by the tabs, the cross-tab Web Lock, each tab's page and fetch | refresh, adopt another tab's refresh, end a dead session, log out, log in | `/auth/*` |
| Encounter tracker (`frontend/.../encounters/[encounterId]/_hooks`, `backend/src/encounters`) | one row: combatants (JSON), `currentTurn`, `round`, `version`; a query cache per page | turn steps, initiative, reorder, hit points, add, remove, clear, loot | campaign membership (cleanup of a leaver's combatants), loot roller |
| Shops (`backend/src/shops`, storefront, shop form) | shop lines with stock and `version`; the sheet's purse, inventory and `version` | purchase, edit, open and close | characters |
| Campaigns and notes (`backend/src/campaigns`, `notes`) | owner, players, invite code and expiry, attached characters, notes | join, leave, remove, attach, detach, codes, write and delete notes | encounters, characters |
| Characters and snapshots (`backend/src/characters`, `frontend/.../characters/[id]`) | the sheet: `classes`, `level`, hit points, hit-dice pools, `version`; frozen copies | create, guarded PATCH, rests, level up, edit form, snapshot, play copy | shops, campaigns, rules content |
| Inventory and gear (`shared/src/gear.ts`, `backend/src/characters/inventory`, `frontend/.../characters/[id]/_components/InventorySection.tsx`) | the sheet's lines with catalog link and gear snapshot, coins, attuned items | create with resolution and automatic equipment, equip, edit, add, remove, attune, adjust coins; armor class | shops, edit form, rules content |
| Rules content (`backend/src/srd`, `admin/items`) | rows in three tiers (SRD, shared, homebrew), their features, packs and their contents | tiered CRUD, reads, search, cards, anonymous cache | users (deletion), characters |
| Accounts (`backend/src/users`, `auth.service.ts`) | hash, role, `failedLoginAttempts`, `lockoutUntil` | register, log in, lock, update, change password, delete | sessions, everything a user owns |
| NPCs (`backend/src/npcs`) | NPC rows, relations stored in both directions | CRUD, relate, generate | campaigns, loot |
| Loot (`backend/src/loot`, `admin/loot-odds`) | odds | roll, set odds | encounters, NPCs |
| Audit log, guards, seed, health, print tray, pages | log lines, counters, localStorage | CRUD and reads | |

`PROJECT.json` lists each with its sources and status, and under `hazards` every
place where the code is exposed to something a test hardly reaches.

### What is hard, and what makes each part correct

* **Sessions.** Handlers interleave at every await; the sweep is an UPDATE at
  READ COMMITTED. Correct: a session holds at most one usable token; the link
  that tells a rotation from a theft is true; a session that ended stays ended;
  the only deadlock is the one between a rotation and a deletion or rename of
  its user.
* **Browser session.** Tabs share cookies and answers are lost or late. Correct:
  one refresh at a time; a logged-out jar stays empty; no hung fetch stalls the
  other tabs; a dead session does not bounce between pages.
* **Encounter tracker.** Whole arrays are written from cached rows, an index
  points into a list that everybody rearranges, answers hold later writes.
  Correct: no write replaces what its author has not seen; the pointer stays in
  the list and with the same combatant.
* **Shops.** Prices, purse and stock are checked on earlier reads. Correct: a
  sale settles, to the copper, from the rows as they are; the buyer's page was
  current; no purse or stock goes below nothing.
* **Campaigns and notes.** Checks and writes are separate statements, and a
  departure is a transaction of many that sees only what is committed. Correct:
  nothing outlives its campaign; a departure leaves neither a character nor a
  private note behind; a stale list of combatants brings nobody back.
* **Characters.** Class levels, level and hit dice move together under partial
  PATCHes computed from stale sheets, and answers get lost. Correct: the sheet
  adds up, by the classes as they were when it was last built; a dialog levels once; a level-up leaves exactly one snapshot, of the
  sheet it replaced, or none; hit points are not regained for nothing.
* **Inventory and gear.** Lines are addressed by position, whole arrays are sent,
  and a line carries the stats of the item it was filled from. Correct: a write
  reaches the line the player aimed at and undoes nothing; no line carries the
  stats of an item it does not name.
* **Rules content.** References are checked before they are written, child rows
  are replaced by delete and insert, a user's rows go table by table. Correct:
  no dangling reference, no homebrew without its author, lists whole, deletions
  all or nothing.
* **Accounts.** Attempts overlap with the count they are judged by.
* **NPCs.** Both rows of a relation exist or neither.

## Plan

1. `Sessions`, `RefreshTokens`: done, proved.
2. `BrowserSession`: done, its safety proved.
3. `EncounterTracker`: done, proved.
4. `Coins`, `ShopPurchase`: done, proved.
5. `CampaignMembership`: done, proved.
6. `HomebrewContent`, and `WholeLists` implemented by `ChildRows`: done, proved.
7. `HitDice`, `CharacterSheet`: done, proved.
8. `Gear`, `Inventory`: done, proved.
9. Worth doing next: the sheet's remaining state (slots, experience, features),
   the tracker's deletion of encounters, the seed's upserts beside the edits of
   admins, and an abstract versioned row (reads
   hand out the row with its version, a guarded write replaces what was read)
   that tracker, purchase and sheet implement. The inductive invariants of
   `EncounterTracker`, `ShopPurchase`, `CharacterSheet` and `Inventory` each
   contain its argument.

## Modules

### `Sessions.tla` — what the token store promises

A session starts with one credential, a renewal exchanges it for one never
issued before (and ends the session if that one comes too late to be of use),
and an ended session never comes back.

### `RefreshTokens.tla` — the token store

`rows` and `tok` are the table and its columns; `users` is the set of accounts
that have a row; `req[r]` is a handler between two awaits. A handler is a
sequence of actions, one per statement or transaction: `LoginRead` and `Issue`;
`RotateRead`, then `RotateExpired`, `LoseClaim` (with `RejectInGrace` or
`DetectReuse`) or `Claim`, then `Rotate`; `SweepStart` (the snapshot of the
UPDATE, with the user row's lock where the caller holds it) and `SweepCommit`;
`RevokeRead` and `RevokeWrite`; `Remove`, `RemoveStart` (the user's row is
locked) and `DeleteUser` (the cascade). `PurgeExpired`, `Fail`, `Crash` and
`Tick` run in between.

`Claim` is the conditional UPDATE and the comparison with the clock
(`refresh-token.service.ts:77-87`), `Rotate` the insert, the link and the commit
(`:90-104`); the clock may move between them. The claimed row is locked
meanwhile (`Held`), and so is the user's row in a password or role change and in
a deletion (`LocksUser`); those that also bar the insert's foreign-key check are
`LocksKey`. Times that a statement carries were taken before its wait for a lock
(`at`, `stamp`). Each token value is issued once (32 random bytes), and the
ghost `origin` says which login a token descends from.

`ImplementsSessions` maps a session to the login token that began it and its
holder to the unrevoked token of that origin that is live or held by a rotation
(`Holder`). A session is thus over at its token's expiry, unless a rotation
found the token in time and has yet to commit; if it commits after the expiry,
the session goes on. `OnlyCrossedDeadlocks` says which requests can wait for
each other in a circle.

### `BrowserSession.tla` — one browser's tabs

`jar` is the cookies, `queue` the Web Lock's holder and waiters, `tab[i]` the
page, activity and fetch of a tab, `store` the server's tokens reduced to five
states. A POST is sent with the cookie of that moment, handled, and lands; a
fetch under the lock may time out at any point and be handled all the same
(`orphans`). Whether a replay falls inside the grace window is left open.
`WebLocks = FALSE` is a browser without `navigator.locks`.

### `EncounterTracker.tla` — one encounter

`row` is the encounter, `view[i]` a page's query cache, `calls[i]` its requests.
One operator per handler of `useEncounterActions.ts` gives the PATCHes it would
send from a view (`NextTurn`, `PreviousTurn`, `SetInitiative`,
`RollInitiatives`, `Move`, `AppendCombatant`, `SetHp`, `EditField`,
`ToggleActive`, `Remove`, `Clear`, `RollByHand`); `Submit` sends one, respecting
the handlers that refuse while a write is pending and those that do not.
`Commit`, `ReRead`, `Conflict`, `Fail`, `Land` and `Refetch` carry it through,
and `CleanupRead` and `CleanupWrite` are step 3 of `cleanupPlayerMembership`.
Hit points are reduced to standing or down, loot to present or absent;
conditions, notes, death saves and the monster link are one `EditField`.

### `Coins.tla`, `ShopPurchase.tla` — buying

`Coins` is the arithmetic of `shared/src/coin.ts`. `shop` and `sheet[b]` are the
rows, `front[b]` the query cache behind a buyer's storefront, sheet and editor,
`order[r]` a purchase between its reads, `form[b]` the editor's values and
`stocking` the owner's form. `Click` echoes the cached versions, or none for a
client in `Silent`; `ReadShop`, `ReadSheet`, `Refuse`, `Commit` and `Conflict`
are the service; `SaveShop` is the owner's unversioned edit; `SetPurse` stands
for the sheet's quick actions and `OpenEditor`, `SaveEditor`, `ReloadEditor` for
the editor page.

### `CampaignMembership.tla` — who belongs, and what a departure takes along

`live`, `players`, `invited`, `attached`, `note` and `enc` are the rows, `view[k]`
the DM's tracker and `req[r]` a handler between two awaits. Joining and attaching
are a read and a write (`JoinRead`, `JoinWrite`; `AttachRead`,
`AttachReadCharacter`, `AttachWrite`), and so is a note. A departure is one
action per statement of `cleanupPlayerMembership`: `DepartRead`,
`CollectCharacters`, `DetachCharacters`, `DeletePrivateNote`, `ReadEncounter`;
its writes appear at `CommitDeparture` and vanish at `DepartureFails`. The rows
it has written stay locked meanwhile (`Locked`, `NoteLocked`). The ghosts
`lateChars` and `lateNotes` record what was written behind a departure's sweep.
A campaign has one encounter here, of which only player characters and version
are kept, and a user one note in it.

### `HomebrewContent.tla` — what users write into the catalogue

`rows`, `by`, `parent`, `origin` and `option` are the tables' rows with author,
parent class, origin feat and that feat's option; `req[r]` is a request between
its check and its write, `purge[u]` the deletion of user `u`. The write skeleton
of `content-crud.base.ts` appears with the hooks of the services whose rows
refer to others: `CheckParent` and `InsertSubclass`, `CheckOrigin` and
`InsertBackground`, `PatchRead` and `PatchWrite`, `CountSubclasses` and
`DeleteClass`, `ClearOptions` and `DeleteFeat`. `BeginDeletion`, one `DeletePass`
per table, `DeleteUser` and `Conflict` are `UsersService.remove` with its retry.

### `WholeLists.tla`, `ChildRows.tla` — lists that are replaced

`WholeLists` is the promise: a save replaces list and columns at once, a deletion
takes the list along, and a component that is deleted takes its row out of it, so
the rows are those of one save less those. `ChildRows` is the code under READ COMMITTED, statement by
statement: the lock on the parent, its update, a DELETE that picks its rows, waits
for those others have deleted and then deletes what is left, the insert. Class and
subclass features and the contents of equipment packs are replaced in this way.
A pack's component is an item of its own: `parts` are those that exist, `Ask` looks
the sent ones up before the transaction, `DeleteComponent` cascades into the list
without the pack's lock (`schema.prisma`: "silently shrinks packs"), and an insert
that comes after it ends in 400. `Removable` names the keys this can happen to;
features have none. `Promise` is `WholeLists` with `exists`, `text`, `list` and
`parts` as committed, so nothing has to be mapped. The names of `ChildRows` (`ListSpec`, `listVars`,
`Savers`) differ from those of `HomebrewContent`, because one module proves both.

### `HitDice.tla`, `CharacterSheet.tla` — playing a character

`HitDice` is the arithmetic of pools: `DiceOf` lists the dice of the classes by
counting those that come first, `PoolsFor` rebuilds the pools from them, and the
other operators spend, restore and gain dice. `With` lays a patch over a sheet: a
column that is not sent stays. `row` and `snapshots` are the stored sheet
and its copies, `hitDie` what the catalogue says of each class (`ClassChanges`:
its row is edited or deleted, or its name becomes ambiguous, and no sheet is
told), the ghost `built` the dice and levels the pools were last resolved from,
`view[t]` a tab's query cache, `dialog[t]` its level-up dialog,
`form[t]` its edit form and `req[r]` a PATCH on its way. The controls (`Hurt`,
`SpendDie`, `ShortRest`, `LongRest`, `Confirm`, `SubmitForm`) compute a patch from
the view; `Read`, `Capture` and `Write` are `CharactersService.update`, with the
snapshot in the transaction of the write; `Answer`, `LoseAnswer`, `Forget` and
`Refetch` bring the outcome back, late or never. Hit points are the points
missing, and what a die heals is any number up to a bound.

Creation and the edit form may send any pools (`Builds`, `Edits`): `HitDiceDto`
bounds nothing, and the form edits the first pool's spent dice always, its die and
total while the class is not in the catalogue. `Create` and `Rebuilt` put the pools
of the classes in their place once a class has a die, and keep them as sent
otherwise. So `SheetAddsUp` is claimed of `built`: the dice the classes had when
classes or level were last written. Pools the player owns may be spent past their
totals, and `HealingIsPaid` excepts the one case in which that heals for nothing
(`Paired`). Pools are of natural numbers. The DTO accepts negative and fractional
ones too; the form's fields do not. Class queries are read with the row.

### `Gear.tla`, `Inventory.tla` — what a character carries and wears

`Gear` is the functions of one line or list: what a catalog row contributes
(`GearOf`), the row a name denotes (`Denoted`, `Resolve`), what a new character
wears (`AutoEquip`), and the armor class, whose two loops over the lines
(`BestBody`, `BestShield`) are functions of how far they have got. In `Inventory`, `row` is the stored
sheet, `view[t]` a tab's query cache, `editing[t]` its row editor, `saving[t]`
whether its controls are disabled, `form[t]` its edit form and `req[r]` a PATCH on
its way. A control (`Toggle`, `RemoveItem`, `StartEdit`, `SaveEdit`, `Add`,
`AdjustCoin`, `Attune`, `Release`) sends a whole array computed from the view;
`Write`, `Answer`, `LoseAnswer`, `Forget` and `Refetch` carry it through; `Buy` is
a purchase that commits, and `OpenForm`, `SubmitForm`, `LeaveForm` are the editor
page. The ghosts are the identity of a line, `id`, and what the player meant,
`aim`. Weapons, weights and prices are left out: a ware costs one coin, and the
coins are one number. So are the player's own armor class, lines an API client
sends already linked, and the validator's limits on lengths. `WriteReachesItsItem`
does not speak of the edit form, whose stale save is the finding of `shop_editor`.

## Runs

| Run | Question | Answer |
|---|---|---|
| `tokens_safety` | Do concurrent rotations, sweeps, logouts, deletions and crashes keep one token per session, a true chain, and ended sessions ended, and which requests can deadlock? | yes; a rotation with a deletion or a rename |
| `tokens_password_change` | Does a password change end the sessions it found alive? | no: a rotation that commits after the UPDATE's snapshot leaves a successor (`users.service.ts:162`) |
| `browser` | Does a logged-out jar stay empty, does the server take a rotated token for a theft only after an answer was lost, do timeouts alone get everybody through the lock, and does a dead session lose its hint? | yes |
| `encounter` | Does a version name one row, does the pointer stay in range, does an edit keep the turn? | yes |
| `shop_safety` | Does every sale settle exactly, from a page that was current? | yes |
| `shop_editor` | Does the editor's save keep a newer sheet? | no: it sends the cache's version with the form's older values (`edit/page.tsx:40`) |
| `membership` | Does a departure leave nothing behind but what was written behind its sweeps, and do stale lists bring nobody back? | yes |
| `membership_stripped` | Is a departed player's character back in the encounter only if the DM adds it? | no: another player's cleanup writes the list it read earlier (`campaigns.service.ts:484`) |
| `content` | Is a user deleted with all of their homebrew or none, is nothing orphaned, does one retry suffice, and when does an origin feat's option stray? | yes; in two windows |
| `child_rows` | Do overlapping saves of a list leave the rows of one save (less deleted components), without false conflicts, and are all answered? | yes |
| `sheet` | Do levels and hit dice add up whatever tabs send, does a dialog level once, is a snapshot kept exactly when it should be, is healing paid for? | yes |
| `inventory` | Does every write reach the line its player aimed at, in the row as it is by then, and does the armor class follow the names of the worn lines? | yes |

The three negative answers are findings in `PROJECT.json`, each with the sentence
of the repository that promises otherwise. Each positive property is paired
there with a mutant of the code's model that breaks it.

### Bounds, and why they are enough

* `RefreshTokens`: two tokens are a login and its rotation, or two logins; the
  theorems cover longer chains. Two requests make every pair of handlers meet,
  and any request that ends makes room for another; they are symmetric. With
  `Ttl = 2`, `Grace = 0` and `MaxTime = 3` a rotation can pass its check before
  the expiry and commit after it, for a token that is then still good, and the
  clock reaches the moment after the expiry and both sides of the grace window.
* `BrowserSession`: two tabs are a winner and a loser of every race; two tokens
  are a session and its refresh, or a session and a later login.
* `EncounterTracker`: every list of up to two combatants, one of them a
  monster and one the leaver's. Two versions beyond the first let one write
  invalidate another's premise, and two requests in flight, of one page or of
  two, let answers cross. The safety run identifies states by `WhatMatters`: of
  a request that is out of date only the fact that it will be refused is kept,
  and of one that has been written only what its answer will do.
* `ShopPurchase`: one line, one purse of two electrum (so that change has to be
  broken), quantities that just fit and that do not; one write of each row in
  the safety run suffices for every pair of premises and write, and the proofs
  cover the rest.

* `CampaignMembership`: one campaign, its DM and one player with one character;
  two requests make every pair of handlers meet, two departures of the same
  player among them. `MaxVersion = 2` bounds the DM's saves: one to add the
  character and one from a list that has gone stale. `membership_stripped` starts
  from a table in play with two players.
* `HomebrewContent`: one row of every table that others refer to or that refers
  to others, one published item, one seeded feat, and one user who is admin,
  author and deleted; two requests besides the deletion. Several authors add
  nothing: no request reaches another author's homebrew. Rows that are deleted
  come back under the same name, as new rows.
* `ChildRows`: three requests are a holder, a waiter and a latecomer; two keys
  and two texts make lists that collide and lists that do not. One key is a component
  that may be deleted, one is not, so that one instance stands for packs and features.
* `CharacterSheet`: two tabs and two requests in flight; `MaxLevel = 3` leaves
  room for a level-up, a retry and the cap; `MaxVersion = 2` lets one write
  invalidate another and a third find out. A character of two classes whose
  second may lose its row, and one without a class that owns an overspent pool,
  become each other's kind by two edits: another class, at a level up, down or the
  same, and an unknown class with an overspent first pool whose die the second may
  repeat. One missing hit point and one point healed per die suffice to see an
  unpaid one.
* `Inventory`: two tabs, two requests and two writes let one write invalidate
  another whose player is still to learn of it. Three lines leave room for one
  more than a character starts with, and one attunement slot and one coin bring
  both limits about. Of the two armors the one with the higher base is the worse
  at a Dexterity modifier of 5 and the better at -1. Tabs and requests are
  symmetric.

Runs do not check for deadlock: with the counters at their bounds, or every
token issued, nothing more can happen. That requests do not wait for each other
is a property of its own (`OnlyCrossedDeadlocks`, `ActivityEnds`, `SavesEnd`).

### Fairness

* `BrowserSession!FairSpec`: a tab runs, the lock is granted in order, and
  `AbortSignal.timeout` fires (weak fairness of `Proceed`). No answer of the
  server is assumed. `DeadSessionLosesHint` adds, as an antecedent, that the tabs
  are in use: access tokens expire, a refresh is tried, and one that is tried
  again and again is at last answered. It asks nothing of logouts.
* `ChildRows!FairListSpec`: a handler is resumed and a row lock goes to its waiters
  in turn (strong fairness of each request's steps). No save is assumed to be
  asked for, and any transaction may fail.

## Proofs

* `RefreshTokens_proofs`: type correctness, strengthened by the facts that no
  request works with a time to come and that a claim under way has its
  unrevoked row to itself (`TypeInv`); `OneTokenPerSession`, strengthened by the
  fact that the origin of a row was itself issued, because otherwise a fresh
  login could join an existing session; `RotationChain`, strengthened by links
  going to issued tokens only, because otherwise a new row could be the target
  of an old link; `OnlyCrossedDeadlocks`, from one holder per user row and
  sweeps that wait for their own user's tokens; and the refinement of
  `Sessions`, each step of which is a `Start`, a `Renew`, an `End` or a stutter.
  Steps that only retire rows (sweeps, logouts, purges, deletions) are treated
  together by the lemmas about `Retires`, and what a step does to the requests
  by `OwnStep`.
* `EncounterTracker_proofs`: `VersionNamesRow`, `TypeOK`, `WritesKeepTurnInRange`
  and `EditsKeepTurn`. The first is strengthened by the fact that nobody holds a
  version beyond the row's; a write then turns all copies into the past. It needs
  no type invariant. The others rest on the lemma `Arrangement`: the places of a
  list, counted by how many come before them, are each taken once and in order,
  so `Sorted` and `Strip` return the rows they were given, and a list that is
  sorted already stays as it is. `Sound(v, w)` then says what each handler's
  PATCH does to the turn of the row it was computed from, and the invariant
  `CallInv` that a request whose version is the row's is sound for the row as it
  is now.
* `ShopPurchase_proofs`: first the coins: a purse broken down and changed is worth
  what it was less the price, for every purse, price and quantity. Then `TypeOK`, `SaleMatchesPage` and `SaleSettles`. Alone
  none is inductive: a stock is decremented from an earlier read. The invariant
  `Coherent` says that every copy of a row (page, echo, request) is older than
  the row or is the row, that a request reads rows no older than its client
  echoed, and that a priced request passed its checks on what it read. At a
  commit the guards then force the copies to be the rows.

* `CampaignMembership_proofs`: `TypeOK`, `NothingLeftBehind` and
  `StaleArrayAddsNobody`. Type correctness needs that a request which is busy
  names a campaign and a user. `NothingLeftBehind` is strengthened by what each
  stage of a departure has established: after a sweep every character or note of
  the player in the campaign is held by the transaction or was written too late,
  and what it holds cannot change hands. `StaleArrayAddsNobody` follows from the
  list of a current view being the encounter's.
* `BrowserSession_proofs`: `TypeOK` for any browser, and for one with Web Locks
  `ReplayOnlyAfterLoss` and `OnlyLoginFillsJar`. `LockInv` says that the queue
  holds no tab twice and that only its head is past the lock. `OnePlace` adds
  that while no answer was lost an answer's token is new to the jar, to every
  refresh under way and to every other answer, `Fresh` that a rotated token is
  still in the jar only while its replacement is on its way, and `Filled` that a jar which a logout emptied meets no refresh under way.
* `HomebrewContent_proofs`: `TypeOK`, `NothingOrphaned` and `AllOrNothing`.
  `AskedInv` says that what a request read when it checked is still true of rows
  that still exist, and that the id it will insert under is nobody else's;
  `GoneInv` that the rows a deletion has emptied stay its user's, and that a
  class took its subclasses along. `ConflictMeansTwoArrivals` needs `LateInv`: a
  row of the user in a table that this attempt has passed has arrived since and was
  noted, so a second attempt and a refusal each mean an arrival.
  `OptionStrayedByRaceOnly` needs `ChosenInv`: a request carries an option only with
  its feat, or with what its PATCH read of the row.
  The same module proves of `ChildRows` `ListTypeOK`, `NoFalseConflict` and the
  refinement of `WholeLists`. From the parent's update to its commit a save or a
  deletion holds the row's lock; while it does, no other request has rows pending,
  and what the DELETE picked covers what is there. Only the deletion of a component
  may take rows away meanwhile, and it waits once the DELETE is done with them.
* `CharacterSheet_proofs`: all five properties of the run `sheet`. The sums of
  `HitDice` are folds over finite sets. That one element may be taken out of
  a sum, in any order, is shown by looking at a smallest set for which it would
  fail; from there come the lemmas on what `PoolsFor`, `Gain`, `AdjustSpent` and
  `Regain` make of any pools: a spend or a rest puts no pool past its total that
  was within it, and what `PoolsFor` builds is of the classes whatever was carried.
  The invariant turns on the version: whatever a tab or a request holds is the row
  as it was at that version. So either it is the row's version, and a patch computed
  from the one is right for the other, or the guard refuses it. This gives
  `SheetAddsUp` although patches are partial and the classes' dice change, and
  `OneLevelPerDialog` although answers are lost and repeated. For `HealingIsPaid` a
  short rest is shown to take no dice back from any pool, whence as many are spent
  as heal.
* `Inventory_proofs`: `TypeOK`, `WriteReachesItsItem` and
  `ArmorClassFollowsNames`. Distinct lines stay distinct because ids are dated by
  the version that brings them, and no version is written twice. What a tab shows
  is the past or is the row; an open row editor is on the line whose draft it
  holds; and the patch of a request whose version is the row's reaches, from the
  row, what was aimed at (`IInv`). For the armor class the loops are shown to find
  the best of what is worn, by looking at the first place where they would not
  have; and `HonestInv` says that no copy of the list, however old, has a line with
  the stats of an item it does not name. A name may mean the rows it spells and
  those it is an alias of: a row may be called by a name that is an alias of
  another's, and a line picked from the catalog then has the first one's stats.

The assumptions are those of the modules: bounds and times are natural numbers,
`None` and `Absent` are nothing the system stores, the tables' rows are pairwise
disjoint, prices and purses are coins, departing characters are not monsters, a
sheet is created with class levels that sum to its level, at most `MaxLevel`, pools
are of dice and natural numbers, and Dexterity modifiers are integers.
TLC evaluates them in every run.

Every safety property the runs check is proved. Model-checked only are the
three liveness properties (`ActivityEnds`, `DeadSessionLosesHint`,
`SavesEnd`), since fairness and ENABLED are beyond the prover, and of course the
three findings, which are counterexamples.

## Not modelled, and why

* The rounding of JavaScript numbers. Coin counts are validated to be integers
  of at least 0 and have no upper bound (`common/dto/currency.dto.ts`), so what
  is said of coins holds while a purse is worth less than 2^53 copper.
* Rollback inside a purchase: the transaction is one step, as the database
  makes it.
* The CSRF token and the one retry after a refused one; access tokens are only
  valid or not.
* Creating and deleting encounters and shops, shop catalog checks, and the
  amounts of damage, healing and loot.
* What a catalogue row or a note says, the mapping of each entity's fields, and
  names that must be unique: two creations of one name end in a conflict of one.
* The rest of the sheet (abilities, spells and slots, features, experience, death
  saves, weapons and carried weight) and PATCHes without a version, which the client never sends.
* The count of failed logins and the lock it leads to. Its writes are single
  statements judged by an earlier read, and the source promises nothing for
  attempts that overlap.
* Relations between NPCs: two rows in one transaction under unique indexes.
* Derived statistics but for the armor class, search, generation, seeding,
  validation and rendering are functions of one request without concurrent state;
  unit tests reach them better.

## Observations

Behaviour met while modelling that no run is about. Some of it contradicts a
comment, which is then quoted.

* Without Web Locks, the loser of a refresh race whose check of `/users/me` fails
  posts a logout with the winner's token (`api.ts:194`; "Logging out on that would
  revoke the winner's fresh session for every tab", `api.ts:188`).
* A login is not under the refresh lock: an older refresh that answers after it
  overwrites its cookies.
* Logging out restamps `revokedAt` of a row that a concurrent rotation revoked.
* A rotation compares the token's expiry with the clock once
  (`refresh-token.service.ts:85`) and commits later, so it can renew a session
  that has expired in between.
* A rotation that has claimed its token and a deletion of its user, or an
  admin's change of role and email at once, can wait for each other
  (`refresh-token.service.ts:90`, `users.service.ts:223`, `:135`); Postgres fails
  one of them, which answers 500.
* A departure clamps the turn it read. A turn advanced before its write stays, and
  lies beyond the shortened list (`campaigns.service.ts:502`; "a mid-combat removal
  must never leave currentTurn addressing a row that no longer exists"). In
  `EncounterTracker` the pointer's range is therefore claimed of trackers only.
* The cleanup also writes the list it read, so a combatant added in between is
  lost; the version it bumps makes trackers notice only afterwards.
* An automatic loot roll works on the row the guarded write re-reads, which may
  already hold another page's roll, and replaces it (`encounters.service.ts:265`;
  "never silently replaces an existing roll", `useEncounterActions.ts:85`). It
  addresses a row number, which may by then be another monster's.
* Removing a combatant above the active one passes the turn to the next, since
  removal clamps the pointer instead of following the combatant.
* A line of unlimited stock is sold without comparing the shop's version, so the
  price paid may not be the price shown (`shop-purchase.service.ts:110`).
* The owner's shop form sends the lines it was opened with, so stock sold since
  comes back.
* A character whose player has left, or is leaving, can be attached by a request
  that checked before (`campaigns.service.ts:389`), and the owner's own move to
  another table is undone by a DM's request that read the character before it.
* An invite code revoked or expired after the check still admits.
* An origin feat's option can outlive its feat ("option never without a feat",
  `homebrew-backgrounds.service.ts:18`): a background linked between the clearing
  and the deletion, or an edit of the option alone from a row read earlier.
  `OptionStrayedByRaceOnly` says there is no other way.
* A pack's save and the deletion of one of its components can deadlock: the save has
  deleted the component's row and is about to insert it again, the deletion has the
  component and waits for the row (`schema.prisma:429`). Postgres fails one of them.
* The edit form keeps one class: saving it for a character of several collapses
  them into the first.
* Stored pools keep a class's old die when its row is edited or deleted, until classes
  or level are written again. Conversely the first such write after the catalogue has
  come to know a class puts its pools in the place of the player's own.
* A short rest with a die that is in two pools, one of them overspent, heals with dice
  that are not spent: `allowed` is negative, and `slice(0, allowed)` drops as many from
  the end instead of all (`character-play.ts:293`; "Only the dice the clamp actually
  allowed may heal"). To get there a player retypes the class of a character of two
  into one the catalogue does not know, gives the first pool the second's die, and
  overspends it.
* `useCharacterMutation` says that `isSaving` keeps two clicks from racing the same
  version; the refetch after a write is not awaited, so a click in between is
  refused with a 409.
* A short rest whose answer is lost can be confirmed again once the sheet has been
  fetched, and is then paid and healed twice.
* Adding, or removing, the same symmetric relation of two NPCs from both ends at
  once takes its two rows in opposite orders (`npcs.service.ts:181`); the database
  aborts one.
* A bought line carries its catalog link but no gear (`purchase.domain.ts:55`), so a
  bought armor adds nothing to the armor class until its line is filled in from the
  catalog.
* Automatic equipment ranks body armor by its base (`auto-equip.ts:63`), the armor
  class by what it gives with Dexterity (`gear.ts:219`): of two armors a character
  starts with, the one put on may be the worse.
