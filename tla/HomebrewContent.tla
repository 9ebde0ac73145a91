---------------------------- MODULE HomebrewContent ----------------------------
(***************************************************************************)
(* The rows users write into the rules catalogue, and what becomes of them  *)
(* when their author, or a row they refer to, is deleted: the write         *)
(* skeleton of backend/src/srd/content-crud.base.ts with the hooks of its   *)
(* services, and UsersService.remove (backend/src/users/users.service.ts).  *)
(*                                                                         *)
(* A handler is one action per await that another handler may slip before.  *)
(* A transaction is READ COMMITTED: a statement sees what is committed when *)
(* it runs, rows it has written stay locked, and its writes appear at its   *)
(* commit; a statement that needs a locked row waits.  What a row says is   *)
(* left out, except which rows it refers to and the option a background     *)
(* keeps for its origin feat, named here by the feat it was chosen for.     *)
(***************************************************************************)
EXTENDS Naturals, Sequences

CONSTANTS
    Authors,      \* accounts
    Admins,       \* those who may publish to the shared tier
    Plain,        \* homebrew spells, monsters and items: nothing refers to them
    Published,    \* items of the shared tier
    Feats, Backgrounds, Subclasses, Classes,  \* homebrew rows of these tables
    SrdFeats, SrdClasses,                     \* seeded rows, never deleted
    Requests,     \* concurrent request handlers
    None,         \* SQL NULL
    Absent        \* a key a request does not send

Rows == Plain \cup Published \cup Feats \cup Backgrounds \cup Subclasses \cup Classes
AnyFeat == Feats \cup SrdFeats
AnyClass == Classes \cup SrdClasses
Tables == <<Plain, Published, Feats, Backgrounds, Subclasses, Classes>>

ASSUME ContentAssumption ==
    /\ Admins \subseteq Authors
    /\ None \notin Authors \cup Rows \cup AnyFeat \cup AnyClass \cup {Absent}
    /\ Absent \notin Rows \cup AnyFeat \cup AnyClass
    /\ (SrdFeats \cup SrdClasses) \cap Rows = {}
    /\ \A i, j \in 1..6 : i # j => Tables[i] \cap Tables[j] = {}

VARIABLES
    users,     \* the accounts that exist
    rows,      \* the rows that exist
    by,        \* by[x]: createdById of row x
    parent,    \* parent[s]: classId of subclass s
    origin,    \* origin[b]: originFeatId of background b
    option,    \* option[b]: the feat that b's originFeatOption was chosen for
    req,       \* req[r]: where request r is, and what it has read
    purge      \* purge[u]: the deletion of user u

content == <<rows, by, parent, origin, option>>
vars == <<users, content, req, purge>>

-----------------------------------------------------------------------------
\* Mutated forms: classes before their subclasses; no second attempt.
ClassesFirst == <<Plain \cup Published, Feats, Backgrounds, Classes, Subclasses>>
OneAttempt == 1

\* The order in which the transaction of remove empties the tables; the user
\* goes after the last.
Passes == <<Plain \cup Published, Feats, Backgrounds, Subclasses, Classes>>

UserPass == Len(Passes) + 1
Attempts == 2     \* USER_DELETE_ATTEMPTS

PassOf(x) == CHOOSE i \in 1..Len(Passes) : x \in Passes[i]

Request ==
    [op : {"idle", "subclass", "background", "patch", "class", "feat"},
     user : Authors \cup {None}, row : Rows \cup {None},
     link : AnyFeat \cup AnyClass \cup {None, Absent},
     choice : AnyFeat \cup {None, Absent},
     read : AnyFeat \cup {None}, kept : SUBSET Backgrounds]

\* Step op of a request of u for row x, which is to refer to y.
Step(op, u, x, y) ==
    [op |-> op, user |-> u, row |-> x, link |-> y, choice |-> None,
     read |-> None, kept |-> {}]

Idle == Step("idle", None, None, None)

Deletion ==
    [pass : 0..UserPass, attempt : 0..Attempts, gone : SUBSET Rows,
     late : SUBSET (1..Attempts), refused : BOOLEAN]

\* Columns and requests keep their types, and a row refers to rows that exist.
TypeOK ==
    /\ users \subseteq Authors
    /\ rows \subseteq Rows
    /\ by \in [Rows -> Authors \cup {None}]
    /\ parent \in [Subclasses -> (rows \cap Classes) \cup SrdClasses \cup {None}]
    /\ origin \in [Backgrounds -> (rows \cap Feats) \cup SrdFeats \cup {None}]
    /\ option \in [Backgrounds -> AnyFeat \cup {None}]
    /\ req \in [Requests -> Request]
    /\ purge \in [Authors -> Deletion]

NoDeletion == [pass |-> 0, attempt |-> 0, gone |-> {}, late |-> {}, refused |-> FALSE]

Init ==
    /\ users = Authors
    /\ rows = {}
    /\ by = [x \in Rows |-> None]
    /\ parent = [s \in Subclasses |-> None]
    /\ origin = [b \in Backgrounds |-> None]
    /\ option = [b \in Backgrounds |-> None]
    /\ req = [r \in Requests |-> Idle]
    /\ purge = [u \in Authors |-> NoDeletion]

Begin(r, step) == req[r].op = "idle" /\ req' = [req EXCEPT ![r] = step]
Finish(r) == req' = [req EXCEPT ![r] = Idle]

\* A row is homebrew unless an admin published it.
Homebrew(x) == x \notin Published

\* visibleTo and canRead: seeded rows are everybody's, homebrew its author's.
Sees(u, x) == x \notin Rows \/ (x \in rows /\ by[x] = u)

\* assertWritable, and what canRead let through before.
MayWrite(u, x) == x \in rows /\ IF Homebrew(x) THEN by[x] = u ELSE u \in Admins

\* An id is a new UUID: nothing names it yet.
Fresh(x) ==
    /\ x \notin rows
    /\ \A r \in Requests : x \notin {req[r].row, req[r].link, req[r].choice, req[r].read}
    /\ \A b \in Backgrounds : option[b] # x

(* Row locks. The deletion of a user holds the rows it has deleted and the   *)
(* backgrounds whose feat it has; the deletion of a feat holds the           *)
(* backgrounds it has cleared.                                              *)
Doomed(x) == \E u \in Authors : x \in purge[u].gone
Held(x) ==
    \/ Doomed(x)
    \/ x \in Backgrounds /\ Doomed(origin[x])
    \/ \E r \in Requests : x \in req[r].kept

\* Mutated form: a reference is not checked when it is written.
Dangling(x) == TRUE

\* A foreign key may name x: x is a row. One that is being deleted is waited for.
Referable(x) == x \in rows \cup SrdFeats \cup SrdClasses \cup {None, Absent}

\* Row x of u arrives: too late for the deletion of u that is under way if the
\* pass over x's table has gone by.
Arrives(u, x) ==
    /\ rows' = rows \cup {x}
    /\ by' = [by EXCEPT ![x] = u]
    /\ purge' = IF purge[u].pass > PassOf(x)
                THEN [purge EXCEPT ![u].late = purge[u].late \cup {purge[u].attempt}]
                ELSE purge

-----------------------------------------------------------------------------
(* Creating. The insert names the author, whose account must still exist.   *)

\* create, for the tables whose beforeCreate awaits nothing.
Create(u, x) ==
    /\ u \in users /\ Fresh(x)
    /\ x \in Plain \cup Feats \cup Classes \/ (x \in Published /\ u \in Admins)
    /\ Arrives(u, x)
    /\ UNCHANGED <<users, parent, origin, option, req>>

\* HomebrewSubclassesService.beforeCreate: assertParentClassVisible.
CheckParent(r, u, s, c) ==
    /\ Fresh(s) /\ Sees(u, c)
    /\ Begin(r, Step("subclass", u, s, c))
    /\ UNCHANGED <<users, content, purge>>

InsertSubclass(r) ==
    LET q == req[r] IN
    /\ q.op = "subclass" /\ ~Doomed(q.link)
    /\ Finish(r)
    /\ IF q.user \in users /\ Referable(q.link)
       THEN /\ Arrives(q.user, q.row)
            /\ parent' = [parent EXCEPT ![q.row] = q.link]
       ELSE UNCHANGED <<rows, by, purge, parent>>
    /\ UNCHANGED <<users, origin, option>>

\* HomebrewBackgroundsService.beforeCreate: no option without a feat, and the
\* feat must be visible.
CheckOrigin(r, u, b, f, chooses) ==
    /\ Fresh(b) /\ (f = None \/ Sees(u, f))
    /\ Begin(r, [Step("background", u, b, f) EXCEPT
                   !.choice = IF chooses THEN f ELSE None])
    /\ UNCHANGED <<users, content, purge>>

InsertBackground(r) ==
    LET q == req[r] IN
    /\ q.op = "background" /\ ~Doomed(q.link)
    /\ Finish(r)
    /\ IF q.user \in users /\ Referable(q.link)
       THEN /\ Arrives(q.user, q.row)
            /\ origin' = [origin EXCEPT ![q.row] = q.link]
            /\ option' = [option EXCEPT ![q.row] = q.choice]
       ELSE UNCHANGED <<rows, by, purge, origin, option>>
    /\ UNCHANGED <<users, parent>>

-----------------------------------------------------------------------------
(* Editing a background.                                                    *)

\* Mutated form: a new feat keeps the option chosen for the old one.
KeptChoice(was, f, o) ==
    IF o = "chosen" THEN IF f = Absent THEN was ELSE f ELSE o

\* toColumnData and beforeUpdate: which option a PATCH writes that links feat f
\* to a row linked to was, and sends option o for the feat it then has: none
\* without a feat, none of an older feat's.
Choice(was, f, o) ==
    LET linked == IF f = Absent THEN was ELSE f IN
    CASE f = None                                  -> None
      [] f = Absent /\ was = None /\ o # Absent    -> None
      [] f \in AnyFeat /\ f # was /\ o = Absent    -> None
      [] OTHER                                     -> IF o = "chosen" THEN linked ELSE o

PatchRead(r, u, b, f, o) ==
    /\ MayWrite(u, b) /\ (f \in {None, Absent} \/ Sees(u, f))
    /\ Begin(r, [Step("patch", u, b, f) EXCEPT
                   !.choice = Choice(origin[b], f, o), !.read = origin[b]])
    /\ UNCHANGED <<users, content, purge>>

\* performUpdate writes the columns sent; a row that is gone is 404, a feat
\* that is gone a foreign key violation.
PatchWrite(r) ==
    LET q == req[r] IN
    /\ q.op = "patch" /\ ~Held(q.row) /\ ~Doomed(q.link)
    /\ Finish(r)
    /\ IF q.row \in rows /\ Referable(q.link)
       THEN /\ origin' = IF q.link = Absent THEN origin
                         ELSE [origin EXCEPT ![q.row] = q.link]
            /\ option' = IF q.choice = Absent THEN option
                         ELSE [option EXCEPT ![q.row] = q.choice]
       ELSE UNCHANGED <<origin, option>>
    /\ UNCHANGED <<users, rows, by, parent, purge>>

-----------------------------------------------------------------------------
(* Removing.                                                                *)

\* What remains of the columns when the rows of X go: deleted rows are blank,
\* and originFeatId is ON DELETE SET NULL.
Deleted(X) ==
    /\ rows' = rows \ X
    /\ by' = [x \in Rows |-> IF x \in X THEN None ELSE by[x]]
    /\ parent' = [s \in Subclasses |-> IF s \in X THEN None ELSE parent[s]]
    /\ origin' = [b \in Backgrounds |->
                    IF b \in X \/ origin[b] \in X THEN None ELSE origin[b]]

\* remove, where the delete is a single statement.
Remove(u, x) ==
    /\ x \in Plain \cup Published \cup Backgrounds \cup Subclasses
    /\ MayWrite(u, x) /\ ~Held(x)
    /\ Deleted({x})
    /\ option' = [b \in Backgrounds |-> IF b = x THEN None ELSE option[b]]
    /\ UNCHANGED <<users, req, purge>>

SubclassesOf(c) == {s \in Subclasses \cap rows : parent[s] = c}

\* HomebrewClassesService.performDelete: the count of subclasses, 409 if any,
CountSubclasses(r, u, c) ==
    /\ c \in Classes /\ MayWrite(u, c) /\ SubclassesOf(c) = {}
    /\ Begin(r, Step("class", u, c, None))
    /\ UNCHANGED <<users, content, purge>>

\* and the delete, which the foreign key refuses if one has been added since.
DeleteClass(r) ==
    LET c == req[r].row IN
    /\ req[r].op = "class" /\ ~Doomed(c)
    /\ \A s \in SubclassesOf(c) : ~Doomed(s)
    /\ Finish(r)
    /\ IF c \in rows /\ SubclassesOf(c) = {}
       THEN Deleted({c})
       ELSE UNCHANGED <<rows, by, parent, origin>>
    /\ UNCHANGED <<users, option, purge>>

BackgroundsOf(f) == {b \in Backgrounds \cap rows : origin[b] = f}

\* HomebrewFeatsService.performDelete: in one transaction the options chosen
\* for the feat are cleared,
ClearOptions(r, u, f) ==
    /\ f \in Feats /\ MayWrite(u, f)
    /\ \A b \in BackgroundsOf(f) : ~Held(b)
    /\ Begin(r, [Step("feat", u, f, None) EXCEPT !.kept = BackgroundsOf(f)])
    /\ UNCHANGED <<users, content, purge>>

\* Mutated form: the options stay.
OptionsKept(r) == option

OptionsCleared(r) ==
    [b \in Backgrounds |-> IF b \in req[r].kept THEN None ELSE option[b]]

\* and the feat is deleted, which unlinks every background it has by then.
DeleteFeat(r) ==
    LET f == req[r].row IN
    /\ req[r].op = "feat" /\ ~Doomed(f)
    /\ \A b \in BackgroundsOf(f) \ req[r].kept : ~Held(b)
    /\ Finish(r)
    /\ IF f \in rows
       THEN Deleted({f}) /\ option' = OptionsCleared(r)
       ELSE UNCHANGED content
    /\ UNCHANGED <<users, purge>>

\* The transaction fails, as a victim of a deadlock for one.
FeatDeletionFails(r) ==
    /\ req[r].op = "feat"
    /\ Finish(r)
    /\ UNCHANGED <<users, content, purge>>

-----------------------------------------------------------------------------
(* UsersService.remove.                                                     *)

BeginDeletion(u) ==
    /\ u \in users /\ purge[u].pass = 0
    /\ purge' = [purge EXCEPT ![u] = [NoDeletion EXCEPT !.pass = 1, !.attempt = 1]]
    /\ UNCHANGED <<users, content, req>>

\* isConcurrentWriteConflict: the transaction rolls back and is tried again,
\* or has been tried often enough.
Conflict(u) ==
    purge' = [purge EXCEPT ![u] =
                IF purge[u].attempt < Attempts
                THEN [purge[u] EXCEPT !.pass = 1, !.attempt = @ + 1, !.gone = {}]
                ELSE [NoDeletion EXCEPT !.late = purge[u].late, !.refused = TRUE]]

\* Mutated form: the shared tier is deleted along.
EverythingBy(u, table) == {x \in table \cap rows : by[x] = u}

\* The rows deleteMany finds: homebrew that u created.
HomebrewBy(u, table) == {x \in table \cap rows : Homebrew(x) /\ by[x] = u}

\* One deleteMany. A class some subclass still refers to is RESTRICTed.
DeletePass(u) ==
    LET found == HomebrewBy(u, Passes[purge[u].pass])
        linked == {b \in Backgrounds : origin[b] \in found}
    IN
    /\ purge[u].pass \in 1..Len(Passes)
    /\ \A r \in Requests : (found \cup linked) \cap req[r].kept = {}
    /\ IF \E c \in found \cap Classes : SubclassesOf(c) \ purge[u].gone # {}
       THEN Conflict(u)
       ELSE purge' = [purge EXCEPT ![u] =
                        [purge[u] EXCEPT !.pass = @ + 1, !.gone = @ \cup found]]
    /\ UNCHANGED <<users, content, req>>

\* Mutated form: nothing is left behind, whatever arrived.
NothingLeft(u) == {}

\* Homebrew whose creator would be nulled: the CHECK refuses it.
LeftBy(u) == HomebrewBy(u, Rows) \ purge[u].gone

\* user.delete and the commit: shared rows lose their creator.
DeleteUser(u) ==
    /\ purge[u].pass = UserPass
    /\ IF LeftBy(u) # {}
       THEN Conflict(u) /\ UNCHANGED <<users, content>>
       ELSE LET X == purge[u].gone IN
            /\ users' = users \ {u}
            /\ rows' = rows \ X
            /\ by' = [x \in Rows |-> IF x \in X \/ by[x] = u THEN None ELSE by[x]]
            /\ parent' = [s \in Subclasses |-> IF s \in X THEN None ELSE parent[s]]
            /\ origin' = [b \in Backgrounds |->
                            IF b \in X \/ origin[b] \in X THEN None ELSE origin[b]]
            /\ option' = [b \in Backgrounds |-> IF b \in X THEN None ELSE option[b]]
            /\ purge' = [purge EXCEPT ![u] = NoDeletion]
    /\ UNCHANGED req

\* Any other error is passed on: a deadlock, a transaction that took too long.
DeletionFails(u) ==
    /\ purge[u].pass > 0
    /\ purge' = [purge EXCEPT ![u] = NoDeletion]
    /\ UNCHANGED <<users, content, req>>

-----------------------------------------------------------------------------
Edits(r) ==
    \/ InsertSubclass(r) \/ InsertBackground(r) \/ PatchWrite(r)
    \/ DeleteClass(r) \/ DeleteFeat(r) \/ FeatDeletionFails(r)

Asks(r, u) ==
    \/ \E s \in Subclasses, c \in AnyClass : CheckParent(r, u, s, c)
    \/ \E b \in Backgrounds, f \in AnyFeat \cup {None}, chooses \in BOOLEAN :
          CheckOrigin(r, u, b, f, chooses)
    \/ \E b \in Backgrounds, f \in AnyFeat \cup {None, Absent},
          o \in {"chosen", None, Absent} : PatchRead(r, u, b, f, o)
    \/ \E c \in Classes : CountSubclasses(r, u, c)
    \/ \E f \in Feats : ClearOptions(r, u, f)

Next ==
    \/ \E u \in Authors, x \in Rows : Create(u, x) \/ Remove(u, x)
    \/ \E r \in Requests, u \in Authors : Asks(r, u)
    \/ \E r \in Requests : Edits(r)
    \/ \E u \in Authors : 
          BeginDeletion(u) \/ DeletePass(u) \/ DeleteUser(u) \/ DeletionFails(u)

Spec == Init /\ [][Next]_vars

-----------------------------------------------------------------------------
(* Properties.                                                              *)

\* Every homebrew row has an author with an account, and a subclass's homebrew
\* class is its author's: whatever a session adds while its user is deleted.
NothingOrphaned ==
    \A x \in rows :
        /\ Homebrew(x) => by[x] \in users
        /\ x \in Subclasses /\ parent[x] \in Classes => by[parent[x]] = by[x]
        /\ x \in Backgrounds /\ origin[x] \in Feats => by[origin[x]] = by[x]

\* A user is deleted with all of their homebrew or with none of it, and what
\* they published stays: an attempt that fails half-way has changed nothing,
\* and while the account exists its rows go one by one, at their author's word.
AllOrNothing ==
    [][ \A u \in users :
          LET own == HomebrewBy(u, Rows)
              shared == {x \in rows \cap Published : by[x] = u} IN
          IF u \in users'
          THEN own \subseteq rows' \/ \E x \in own : own \ rows' = {x}
          ELSE /\ own \cap rows' = {}
               /\ shared \subseteq rows' /\ \A x \in shared : by'[x] = None ]_vars

\* "One retry clears it": 409 is answered only if a row arrived behind the
\* passes of both attempts.
ConflictMeansTwoArrivals ==
    \A u \in Authors : purge[u].refused => purge[u].late = 1..2

Matched(b) == option[b] \in {None, origin[b]}

\* An option stops belonging to its background's feat in two windows only: a
\* PATCH written to a row whose feat is not the one it read, and a feat deleted
\* after a background was linked to it behind the clearing of the options.
OptionStrayedByRaceOnly ==
    [][ \A b \in Backgrounds : Matched(b) /\ ~Matched(b)' =>
          \E r \in Requests :
             /\ req[r] # Idle /\ req'[r] = Idle
             /\ \/ req[r].op = "patch" /\ req[r].row = b /\ req[r].read # origin[b]
                \/ req[r].op = "feat" /\ b \notin req[r].kept /\ origin[b] = req[r].row ]_vars
=============================================================================
