------------------------------- MODULE ChildRows -------------------------------
(***************************************************************************)
(* Replacing the child rows of one parent: the features of a homebrew class *)
(* or subclass (backend/src/srd/feature-rows.ts and the performUpdate of    *)
(* its two callers) and the contents of an equipment pack                   *)
(* (backend/src/admin/items/admin-items.service.ts).                        *)
(*                                                                         *)
(* The transaction is READ COMMITTED and its statements are the actions: a  *)
(* DELETE chooses among the rows committed when it starts, waits for the    *)
(* transactions that have deleted some of them, and then deletes those that *)
(* are left.                                                                *)
(***************************************************************************)
EXTENDS FiniteSets

CONSTANTS
    Keys,      \* a feature's name and level, or a pack's component
    Removable, \* the components, which are items that may be deleted
    Texts,     \* what else a child row, or the parent, may say
    Saves,     \* what may be saved: columns (or Unsent) and list (or Unsent)
    Savers,    \* concurrent request handlers
    Nil,       \* no holder, no save, no answer
    Unsent     \* a key a request does not send

Entries == Keys \X Texts

\* A list repeats no key: ArrayUnique, assertNoDuplicateFeatures, and the
\* duplicate component check.
NoDuplicates(list) == \A x, y \in list : x[1] = y[1] => x = y

ASSUME SavesAssumption ==
    /\ Unsent \notin Texts /\ \A list \in SUBSET Entries : list # Unsent
    /\ \A s \in Saves :
         /\ s.text \in Texts \cup {Unsent}
         /\ s.list = Unsent \/ (s.list \subseteq Entries /\ NoDuplicates(s.list))
    /\ \E s \in Saves : s.text # Unsent /\ s.list # Unsent
    /\ Nil \notin Savers /\ Nil # "conflict"
    /\ Removable \subseteq Keys

VARIABLES
    exists, text, list,  \* the parent row and its child rows, as committed
    parts,               \* the keys there are: components not deleted so far
    holder,              \* the transaction that holds the parent's row lock
    saving               \* saving[r]: where request r is

listVars == <<exists, text, list, parts, holder, saving>>

Stage == {"idle", "write", "lock", "update", "delete", "insert"}

NoSave == [at |-> "idle", save |-> Nil, found |-> {}, gone |-> {}, answer |-> Nil]

\* Every row of the list is about a key there is.
Present(entries) == \A x \in entries : x[1] \in parts

\* Types, the unique key (parent, key) and the foreign key to the component.
ListTypeOK ==
    /\ exists \in BOOLEAN
    /\ text \in Texts
    /\ parts \subseteq Keys /\ Keys \ Removable \subseteq parts
    /\ list \subseteq Entries /\ NoDuplicates(list) /\ Present(list)
    /\ holder \in Savers \cup {Nil}
    /\ saving \in [Savers ->
                     [at : Stage, save : Saves \cup {Nil}, found : SUBSET Entries,
                      gone : SUBSET Entries, answer : {Nil, "conflict"}]]

\* create writes parent and children in one nested insert.
ListInit ==
    /\ exists = TRUE
    /\ \E s \in Saves : text = s.text /\ list = s.list /\ Unsent \notin {text, list}
    /\ parts = Keys
    /\ holder = Nil
    /\ saving = [r \in Savers |-> NoSave]

\* Mutated form: a key that is not sent clears its column.
SentOnly(sent, kept) == sent

Or(sent, kept) == IF sent = Unsent THEN kept ELSE sent

Goto(r, stage) == saving' = [saving EXCEPT ![r].at = stage]

\* Mutated form: the lock outlives its transaction.
Keep(r) == UNCHANGED holder

Release(r) == holder' = IF holder = r THEN Nil ELSE holder

\* The request is answered, and what its transaction held is free.
End(r, answer) ==
    /\ saving' = [saving EXCEPT ![r] = [NoSave EXCEPT !.answer = answer]]
    /\ Release(r)

\* Mutated form: rows are replaced without the parent's lock.
Ungranted(r) == UNCHANGED holder

\* SELECT ... FOR UPDATE.
Granted(r) == holder = Nil /\ holder' = r

-----------------------------------------------------------------------------
\* update up to takeFeatures, or setBundleContents up to its transaction: the
\* row exists, its list is sent or not, and every component is looked up.
Ask(r, s) ==
    /\ exists /\ saving[r].at = "idle"
    /\ s.list # Unsent => Present(s.list)
    /\ saving' = [saving EXCEPT ![r] =
                    [NoSave EXCEPT !.at = IF s.list = Unsent THEN "write" ELSE "lock",
                                   !.save = s]]
    /\ UNCHANGED <<exists, text, list, parts, holder>>

\* Without a list the update is a statement of its own, unless it has no column
\* to write and is a plain read.
Write(r) ==
    LET s == saving[r].save IN
    /\ saving[r].at = "write"
    /\ s.text = Unsent \/ holder = Nil
    /\ text' = IF exists THEN Or(s.text, text) ELSE text
    /\ End(r, Nil)
    /\ UNCHANGED <<exists, list, parts>>

\* lockFeatureParent. No row, no lock.
Lock(r) ==
    /\ saving[r].at = "lock"
    /\ Goto(r, "update")
    /\ IF exists THEN Granted(r) ELSE UNCHANGED holder
    /\ UNCHANGED <<exists, text, list, parts>>

\* tx.update, which finds the row or ends in 404; its columns stay uncommitted.
Update(r) ==
    /\ saving[r].at = "update"
    /\ IF exists THEN Goto(r, "delete") /\ UNCHANGED holder ELSE End(r, Nil)
    /\ UNCHANGED <<exists, text, list, parts>>

\* deleteMany takes its snapshot,
DeleteStarts(r) ==
    /\ saving[r].at = "delete" /\ saving[r].found = {} /\ list # {}
    /\ saving' = [saving EXCEPT ![r].found = list]
    /\ UNCHANGED <<exists, text, list, parts, holder>>

\* and deletes what others leave of it.
Delete(r) ==
    /\ saving[r].at = "delete" /\ (saving[r].found # {} \/ list = {})
    /\ \A q \in Savers \ {r} : saving[q].gone \cap saving[r].found = {}
    /\ saving' = [saving EXCEPT ![r].at = "insert",
                                ![r].gone = saving[r].found \cap list]
    /\ UNCHANGED <<exists, text, list, parts, holder>>

\* createMany and the commit; a key that is taken is a conflict, a parent or a
\* component that is gone a foreign key violation: both roll back.
Insert(r) ==
    LET s == saving[r].save
        after == (list \ saving[r].gone) \cup s.list IN
    /\ saving[r].at = "insert"
    /\ IF exists /\ Present(s.list) /\ NoDuplicates(after)
       THEN /\ text' = Or(s.text, text)
            /\ list' = after
            /\ End(r, Nil)
       ELSE /\ End(r, IF NoDuplicates(after) THEN Nil ELSE "conflict")
            /\ UNCHANGED <<text, list>>
    /\ UNCHANGED <<exists, parts>>

\* The transaction fails, or the process dies: the database rolls it back.
Fail(r) ==
    /\ saving[r].at # "idle"
    /\ End(r, Nil)
    /\ UNCHANGED <<exists, text, list, parts>>

\* The parent is deleted, and its child rows CASCADE.
DeleteParent ==
    /\ exists /\ holder = Nil
    /\ \A r \in Savers : saving[r].gone = {}
    /\ exists' = FALSE /\ list' = {}
    /\ UNCHANGED <<text, parts, holder, saving>>

\* A component's rows CASCADE too, whoever holds the parent's lock; its deletion
\* waits for the transactions that have deleted some of them.
DeleteComponent(k) ==
    /\ k \in parts
    /\ \A r \in Savers : \A x \in saving[r].gone : x[1] # k
    /\ parts' = parts \ {k}
    /\ list' = {x \in list : x[1] # k}
    /\ UNCHANGED <<exists, text, holder, saving>>

ListNext ==
    \/ \E r \in Savers :
         \/ \E s \in Saves : Ask(r, s)
         \/ Write(r) \/ Lock(r) \/ Update(r) \/ DeleteStarts(r) \/ Delete(r)
         \/ Insert(r) \/ Fail(r)
    \/ DeleteParent
    \/ \E k \in Removable : DeleteComponent(k)

ListSpec == ListInit /\ [][ListNext]_listVars

Running(r) ==
    Write(r) \/ Lock(r) \/ Update(r) \/ DeleteStarts(r) \/ Delete(r) \/ Insert(r)

\* A handler is resumed, and the database grants a row lock to its waiters in
\* turn.
FairListSpec == ListSpec /\ \A r \in Savers : SF_listVars(Running(r))

-----------------------------------------------------------------------------
Promise == INSTANCE WholeLists WITH Absent <- Unsent

\* Overlapping saves never merge their lists, and a save that fails half-way
\* leaves columns and list as they were: the rows are those of one save, less
\* those of the components deleted since.
Whole == Promise!Spec

\* No author is told that a list without duplicates has one, whoever else saves.
NoFalseConflict == \A r \in Savers : saving[r].answer # "conflict"

\* Every save is answered, though saves wait for each other.
SavesEnd == \A r \in Savers : saving[r].at # "idle" ~> saving[r].at = "idle"
=============================================================================
