------------------------------ MODULE Sessions ------------------------------
(***************************************************************************)
(* What the refresh-token store promises its callers.  A session starts at *)
(* a login and holds one credential.  A renewal exchanges it for one never *)
(* issued before, and costs the session if the new one comes too late to be *)
(* of use.  A session may end at any moment, several at once when a user's *)
(* tokens are swept, and an ended session never comes back.                *)
(***************************************************************************)
CONSTANTS Session, Credential, None

VARIABLES
    started,  \* the sessions that have begun
    used,     \* the credentials ever issued
    holder    \* holder[s]: the credential session s may renew with, or None

vars == <<started, used, holder>>

Init ==
    /\ started = {}
    /\ used = {}
    /\ holder = [s \in Session |-> None]

Start(s, c) ==
    /\ s \notin started
    /\ c \notin used
    /\ started' = started \cup {s}
    /\ used' = used \cup {c}
    /\ \E h \in {c, None} : holder' = [holder EXCEPT ![s] = h]

Renew(s, c) ==
    /\ holder[s] # None
    /\ c \notin used
    /\ used' = used \cup {c}
    /\ \E h \in {c, None} : holder' = [holder EXCEPT ![s] = h]
    /\ UNCHANGED started

End(S) ==
    /\ holder' = [s \in Session |-> IF s \in S THEN None ELSE holder[s]]
    /\ UNCHANGED <<started, used>>

Next ==
    \/ \E s \in Session, c \in Credential : Start(s, c) \/ Renew(s, c)
    \/ \E S \in SUBSET Session : End(S)

Spec == Init /\ [][Next]_vars
=============================================================================
