------------------------------ MODULE WholeLists ------------------------------
(***************************************************************************)
(* What an author is promised of a class, a subclass or an equipment pack:  *)
(* a save replaces its list as a whole, together with the columns sent      *)
(* along, and a row that is deleted takes its list with it.  The rows are   *)
(* those of one save, less those whose component has been deleted since.    *)
(***************************************************************************)
CONSTANTS
    Keys,     \* what a child row is about
    Removable,\* those that are items of their own, and may be deleted
    Saves,    \* what may be saved: columns (or Absent) and list (or Absent)
    Absent    \* a part of the row the save leaves alone

VARIABLES
    exists,   \* the row exists
    text,     \* its own columns
    list,     \* its child rows, each about a key
    parts     \* the keys there are

vars == <<exists, text, list, parts>>

Or(sent, kept) == IF sent = Absent THEN kept ELSE sent

Save(s) ==
    /\ exists /\ exists' = TRUE
    /\ s.list # Absent => \A x \in s.list : x[1] \in parts
    /\ text' = Or(s.text, text)
    /\ list' = Or(s.list, list)
    /\ UNCHANGED parts

Delete ==
    /\ exists' = FALSE /\ list' = {}
    /\ UNCHANGED <<text, parts>>

\* A component is deleted, and leaves every list it is in.
Lose(k) ==
    /\ parts' = parts \ {k}
    /\ list' = {x \in list : x[1] # k}
    /\ UNCHANGED <<exists, text>>

Next == (\E s \in Saves : Save(s)) \/ Delete \/ (\E k \in Removable : Lose(k))

\* Whatever it was created with.
Init == exists = TRUE /\ parts = Keys /\ \E s \in Saves : text = s.text /\ list = s.list

Spec == Init /\ [][Next]_vars
=============================================================================
