---------------------------- MODULE RefreshTokens ----------------------------
(***************************************************************************)
(* The refresh-token store: backend/src/auth/refresh-token.service.ts, with *)
(* the handlers that drive it (auth.controller.ts, users.service.ts).      *)
(*                                                                         *)
(* A request is a process.  Each await on the database is a point where    *)
(* others may run and time may pass, so a handler is a sequence of actions. *)
(* The database is Postgres at READ COMMITTED: what a transaction writes is *)
(* seen at its commit, the rows it has written stay locked until then, and *)
(* a statement that meets a locked row waits.  A request keeps a lock as   *)
(* long as its pc says so: "renew" on the token row it has claimed,        *)
(* "commit" and "cascade" on the user's row.                               *)
(*                                                                         *)
(* A session is named by the token its login issued.                       *)
(***************************************************************************)
EXTENDS Naturals, FiniteSets

CONSTANTS
    Users,      \* accounts
    Tokens,     \* opaque token values; a token is issued at most once
    Requests,   \* concurrent request handlers
    None,       \* SQL NULL
    Ttl,        \* auth.refreshTokenTtlMs
    Grace,      \* auth.refreshRotationGraceMs
    MaxTime     \* bound: the clock stops here

ASSUME NoneAssumption ==
    None \notin Tokens /\ None \notin Users /\ None \notin Nat
ASSUME TimeAssumption ==
    Ttl \in Nat \ {0} /\ Grace \in Nat /\ MaxTime \in Nat

VARIABLES
    now,     \* Date.now()
    users,   \* the users that have a row
    rows,    \* the tokens that have a row in refresh_tokens
    issued,  \* every token ever issued
    tok,     \* tok[t]: the columns of t's row, and its session (see TokenRow)
    req      \* req[r]: where request r is, and what it has read

vars == <<now, users, rows, issued, tok, req>>

-----------------------------------------------------------------------------
\* origin is a ghost: the token the session's login issued.
TokenRow ==
    [user : Users \cup {None}, expiresAt : Nat, revokedAt : Nat \cup {None},
     replacedById : Tokens \cup {None}, origin : Tokens]

\* at is the earliest time its next write may carry, seen a sweep's snapshot,
\* stamp the revokedAt of an uncommitted claim.
Request ==
    [pc : {"idle", "issue", "claim", "renew", "reread", "sweep", "commit",
           "revoke", "remove", "cascade"},
     why : {"none", "reuse", "update", "rename"},
     user : Users \cup {None}, token : Tokens \cup {None},
     seen : SUBSET Tokens, at : Nat, stamp : Nat]

Step(pc, why, u, t, time) ==
    [pc |-> pc, why |-> why, user |-> u, token |-> t,
     seen |-> {}, at |-> time, stamp |-> 0]

Idle == Step("idle", "none", None, None, 0)

\* A row belongs to an issued token, was not revoked in the future, and does
\* not outlive the configured lifetime.
TypeOK ==
    /\ now \in Nat
    /\ users \subseteq Users
    /\ issued \subseteq Tokens
    /\ rows \subseteq issued
    /\ tok \in [Tokens -> TokenRow]
    /\ req \in [Requests -> Request]
    /\ \A t \in rows : /\ tok[t].expiresAt <= now + Ttl
                       /\ tok[t].revokedAt # None => tok[t].revokedAt <= now

Init ==
    /\ now = 0
    /\ users = Users
    /\ issued = {}
    /\ rows = {}
    /\ tok = [t \in Tokens |->
                [user |-> None, expiresAt |-> 0, revokedAt |-> None,
                 replacedById |-> None, origin |-> t]]
    /\ req = [r \in Requests |-> Idle]

Unrevoked(t) == t \in rows /\ tok[t].revokedAt = None

Finish(r) == req' = [req EXCEPT ![r] = Idle]

NewRow(u, expiresAt, origin) ==
    [user |-> u, expiresAt |-> expiresAt, revokedAt |-> None,
     replacedById |-> None, origin |-> origin]

Revoked(t, time) == [tok[t] EXCEPT !.revokedAt = time]

-----------------------------------------------------------------------------
(* Row locks.                                                              *)

\* A rotation holds the row of the token it has claimed until it commits.
Held(t) == \E r \in Requests : req[r].pc = "renew" /\ req[r].token = t

\* Mutated form: transactions that read the user's row FOR SHARE before they
\* write it, so that each holds what the other waits for.
SharesUser(r, u) ==
    /\ req[r].user = u
    /\ \/ req[r].pc \in {"remove", "cascade"}
       \/ req[r].pc \in {"sweep", "commit"} /\ req[r].why # "reuse"

\* Password and role changes and deletions keep the user's row to themselves.
LocksUser(r, u) ==
    /\ req[r].user = u
    /\ \/ req[r].pc = "cascade"
       \/ req[r].pc = "commit" /\ req[r].why # "reuse"

UserLocked(r, u) == \E q \in Requests \ {r} : LocksUser(q, u)

\* A deletion, and a role change that also changes the username or the email
\* (unique keys), bar the foreign-key check of an insert as well.
LocksKey(r, u) == LocksUser(r, u) /\ req[r].why # "update"

KeyLocked(u) == \E r \in Requests : LocksKey(r, u)

-----------------------------------------------------------------------------
(* Login.  The password is compared with the hash read here; issue inserts *)
(* the row later, and its foreign key refuses a user deleted meanwhile.    *)

LoginRead(r, u) ==
    /\ req[r].pc = "idle"
    /\ u \in users
    /\ req' = [req EXCEPT ![r] = Step("issue", "none", u, None, now)]
    /\ UNCHANGED <<now, users, rows, issued, tok>>

IssueFails(r) ==
    /\ req[r].pc = "issue"
    /\ req[r].user \notin users
    /\ Finish(r)
    /\ UNCHANGED <<now, users, rows, issued, tok>>

Issue(r) ==
    /\ req[r].pc = "issue"
    /\ req[r].user \in users
    /\ ~KeyLocked(req[r].user)
    /\ \E t \in Tokens \ issued, time \in req[r].at .. now :
         /\ issued' = issued \cup {t}
         /\ rows' = rows \cup {t}
         /\ tok' = [tok EXCEPT ![t] = NewRow(req[r].user, time + Ttl, t)]
    /\ Finish(r)
    /\ UNCHANGED <<now, users>>

(* Fire-and-forget cleanup of the rows expired when it was called; a link  *)
(* to a deleted row is set to NULL.                                        *)
Purge(expired) ==
    /\ expired # {}
    /\ \A t \in expired : ~Held(t)
    /\ rows' = rows \ expired
    /\ tok' = [t \in Tokens |->
                 IF tok[t].replacedById \in expired
                 THEN [tok[t] EXCEPT !.replacedById = None] ELSE tok[t]]
    /\ UNCHANGED <<now, users, issued, req>>

PurgeExpired ==
    \E time \in 0 .. now : Purge({t \in rows : tok[t].expiresAt < time})

-----------------------------------------------------------------------------
(* Rotation.  Anyone may present any token ever issued: the cookie of a    *)
(* tab that is behind, or a copy.  An unknown token answers 401 at once.   *)

RotateRead(r, t) ==
    /\ req[r].pc = "idle"
    /\ t \in rows
    /\ req' = [req EXCEPT ![r] = Step("claim", "none", tok[t].user, t, now)]
    /\ UNCHANGED <<now, users, rows, issued, tok>>

\* Mutated forms: a claim that forgets the expiry check, one that links the
\* old row without revoking it, and a lifetime added to the old row's expiry.
NeverExpired(t) == FALSE
LinkedOnly(r) == tok[req[r].token]
ExtendsOld(r) == tok[req[r].token].expiresAt + Ttl

Claimable(t) == Unrevoked(t)
Expired(t) == tok[t].expiresAt <= now
Claimed(r) == Revoked(req[r].token, req[r].stamp)
Lifetime(r) == req[r].at + Ttl

\* The claim has the row's lock, and the token's expiry is compared with the
\* clock here, once.  The claim's time was taken before the wait for the lock.
Claim(r) ==
    LET t == req[r].token IN
    /\ req[r].pc = "claim"
    /\ Claimable(t)
    /\ ~Held(t)
    /\ ~Expired(t)
    /\ \E time \in req[r].at .. now :
         req' = [req EXCEPT ![r].pc = "renew", ![r].stamp = time, ![r].at = now]
    /\ UNCHANGED <<now, users, rows, issued, tok>>

\* The throw rolls the claim back.
RotateExpired(r) ==
    LET t == req[r].token IN
    /\ req[r].pc = "claim"
    /\ Claimable(t)
    /\ ~Held(t)
    /\ Expired(t)
    /\ Finish(r)
    /\ UNCHANGED <<now, users, rows, issued, tok>>

\* The claim, the new row and the link to it commit together, when they do:
\* the insert checks the user's key, and the token may expire meanwhile.
Rotate(r) ==
    LET old == req[r].token IN
    /\ req[r].pc = "renew"
    /\ ~KeyLocked(tok[old].user)
    /\ \E new \in Tokens \ issued :
         /\ issued' = issued \cup {new}
         /\ rows' = rows \cup {new}
         /\ tok' = [tok EXCEPT
              ![old] = [Claimed(r) EXCEPT !.replacedById = new],
              ![new] = NewRow(tok[old].user, Lifetime(r), tok[old].origin)]
    /\ Finish(r)
    /\ UNCHANGED <<now, users>>

LoseClaim(r) ==
    /\ req[r].pc = "claim"
    /\ ~Claimable(req[r].token)
    /\ req' = [req EXCEPT ![r] = Step("reread", "none", req[r].user, req[r].token, 0)]
    /\ UNCHANGED <<now, users, rows, issued, tok>>

\* A replay of a token that was rotated a moment ago.
InGrace(t) ==
    /\ t \in rows
    /\ tok[t].replacedById # None
    /\ tok[t].revokedAt # None
    /\ now - tok[t].revokedAt <= Grace

RejectInGrace(r) ==
    /\ req[r].pc = "reread"
    /\ InGrace(req[r].token)
    /\ Finish(r)
    /\ UNCHANGED <<now, users, rows, issued, tok>>

DetectReuse(r) ==
    /\ req[r].pc = "reread"
    /\ ~InGrace(req[r].token)
    /\ req' = [req EXCEPT ![r] = Step("sweep", "reuse", req[r].user, None, 0)]
    /\ UNCHANGED <<now, users, rows, issued, tok>>

-----------------------------------------------------------------------------
(* The sweep.  changePassword and a role change run it in a transaction    *)
(* that has updated, and so locked, the user's row; a reuse runs it alone. *)

ChangePassword(r, u) ==
    /\ req[r].pc = "idle"
    /\ u \in users
    /\ req' = [req EXCEPT ![r] = Step("sweep", "update", u, None, 0)]
    /\ UNCHANGED <<now, users, rows, issued, tok>>

ChangeRole(r, u) ==
    /\ req[r].pc = "idle"
    /\ \E why \in {"update", "rename"} :
         req' = [req EXCEPT ![r] = Step("sweep", why, u, None, 0)]
    /\ UNCHANGED <<now, users, rows, issued, tok>>

\* The user row is gone: Prisma's P2025, answered 404.
SweepNoUser(r) ==
    /\ req[r].pc = "sweep"
    /\ req[r].why # "reuse"
    /\ req[r].user \notin users
    /\ Finish(r)
    /\ UNCHANGED <<now, users, rows, issued, tok>>

SweepStart(r) ==
    LET u == req[r].user IN
    /\ req[r].pc = "sweep"
    /\ req[r].why # "reuse" => u \in users /\ ~UserLocked(r, u)
    /\ req' = [req EXCEPT ![r].pc = "commit", ![r].at = now,
                          ![r].seen = {t \in rows : tok[t].user = u /\ Unrevoked(t)}]
    /\ UNCHANGED <<now, users, rows, issued, tok>>

\* The UPDATE waits for the rows of its snapshot that rotations hold; a row
\* revoked or deleted meanwhile no longer matches, and is skipped.
SweepCommit(r) ==
    /\ req[r].pc = "commit"
    /\ \A t \in req[r].seen : ~Held(t)
    /\ tok' = [t \in Tokens |->
                 IF t \in req[r].seen /\ Unrevoked(t) THEN Revoked(t, req[r].at)
                                                      ELSE tok[t]]
    /\ Finish(r)
    /\ UNCHANGED <<now, users, rows, issued>>

-----------------------------------------------------------------------------
(* Logout: read the row, then update it by id whatever it is by then.      *)

RevokeRead(r, t) ==
    /\ req[r].pc = "idle"
    /\ Unrevoked(t)
    /\ req' = [req EXCEPT ![r] = Step("revoke", "none", None, t, now)]
    /\ UNCHANGED <<now, users, rows, issued, tok>>

\* Mutated form: a logout that un-revokes.
ClearRevocation(t, time) == [tok[t] EXCEPT !.revokedAt = None]

LoggedOut(t, time) == Revoked(t, time)

RevokeWrite(r) ==
    LET t == req[r].token IN
    /\ req[r].pc = "revoke"
    /\ ~Held(t)
    /\ \E time \in req[r].at .. now :
         tok' = IF t \in rows THEN [tok EXCEPT ![t] = LoggedOut(t, time)] ELSE tok
    /\ Finish(r)
    /\ UNCHANGED <<now, users, rows, issued>>

-----------------------------------------------------------------------------
(* Deleting a user.  The transaction locks the user's row and then         *)
(* cascades to the user's tokens, waiting for those a rotation holds.      *)

Remove(r, u) ==
    /\ req[r].pc = "idle"
    /\ req' = [req EXCEPT ![r] = Step("remove", "none", u, None, 0)]
    /\ UNCHANGED <<now, users, rows, issued, tok>>

RemoveNoUser(r) ==
    /\ req[r].pc = "remove"
    /\ req[r].user \notin users
    /\ Finish(r)
    /\ UNCHANGED <<now, users, rows, issued, tok>>

RemoveStart(r) ==
    /\ req[r].pc = "remove"
    /\ req[r].user \in users
    /\ ~UserLocked(r, req[r].user)
    /\ req' = [req EXCEPT ![r].pc = "cascade"]
    /\ UNCHANGED <<now, users, rows, issued, tok>>

DeleteUser(r) ==
    LET own == {t \in rows : tok[t].user = req[r].user} IN
    /\ req[r].pc = "cascade"
    /\ \A t \in own : ~Held(t)
    /\ users' = users \ {req[r].user}
    /\ rows' = rows \ own
    /\ Finish(r)
    /\ UNCHANGED <<now, issued, tok>>

-----------------------------------------------------------------------------
\* A statement fails or the transaction does: Prisma's timeout, the victim of
\* a deadlock, a lost connection.  It is rolled back and answered 500.
Fail(r) ==
    /\ req[r].pc # "idle"
    /\ Finish(r)
    /\ UNCHANGED <<now, users, rows, issued, tok>>

\* The server stops: open transactions roll back, requests are forgotten.
Crash ==
    /\ \E r \in Requests : req[r].pc # "idle"
    /\ req' = [r \in Requests |-> Idle]
    /\ UNCHANGED <<now, users, rows, issued, tok>>

Tick ==
    /\ now < MaxTime
    /\ now' = now + 1
    /\ UNCHANGED <<users, rows, issued, tok, req>>

\* What request r does next once it is under way.
Continue(r) ==
    \/ IssueFails(r) \/ Issue(r)
    \/ Claim(r) \/ Rotate(r) \/ RotateExpired(r) \/ LoseClaim(r)
    \/ RejectInGrace(r) \/ DetectReuse(r)
    \/ SweepNoUser(r) \/ SweepStart(r) \/ SweepCommit(r)
    \/ RevokeWrite(r)
    \/ RemoveNoUser(r) \/ RemoveStart(r) \/ DeleteUser(r)

Arrive(r) ==
    \/ \E u \in Users : \/ LoginRead(r, u) \/ ChangePassword(r, u)
                       \/ ChangeRole(r, u) \/ Remove(r, u)
    \/ \E t \in Tokens : RotateRead(r, t) \/ RevokeRead(r, t)

Next ==
    \/ \E r \in Requests : Arrive(r) \/ Continue(r) \/ Fail(r)
    \/ PurgeExpired
    \/ Crash
    \/ Tick

Spec == Init /\ [][Next]_vars

-----------------------------------------------------------------------------
(* Properties.                                                             *)

Live(t) == Unrevoked(t) /\ now < tok[t].expiresAt

\* A session never holds two tokens that are not revoked, however its
\* rotations, sweeps and logouts interleave: "concurrent rotations serialize
\* and exactly one wins" (rotate).
OneTokenPerSession ==
    \A s, t \in rows :
        Unrevoked(s) /\ Unrevoked(t) /\ tok[s].origin = tok[t].origin => s = t

\* The link that rejectLostClaim trusts to tell a rotation from a theft: a
\* linked row is revoked, its successor belongs to the same session, and no
\* two rows share a successor.
RotationChain ==
    \A s \in rows : tok[s].replacedById # None =>
        /\ tok[s].revokedAt # None
        /\ tok[tok[s].replacedById].origin = tok[s].origin
        /\ \A t \in rows : tok[t].replacedById = tok[s].replacedById => s = t

\* The store implements the abstract sessions: a rotation replaces the one
\* credential by a fresh one, and a session that was logged out, swept,
\* purged or left to expire is never renewed again.  A token may still be
\* renewed with while it is live, or while a rotation that found it in time
\* has yet to commit: only such a rotation outlives the token's expiry.
Started == {t \in issued : tok[t].origin = t}
Renewable(t) == Unrevoked(t) /\ (now < tok[t].expiresAt \/ Held(t))
Holding(s) == {t \in rows : Renewable(t) /\ tok[t].origin = s}
Holder == [s \in Tokens |->
             IF Holding(s) = {} THEN None ELSE CHOOSE t \in Holding(s) : TRUE]

Abstract == INSTANCE Sessions WITH
    Session <- Tokens, Credential <- Tokens,
    started <- Started, used <- issued, holder <- Holder

ImplementsSessions == Abstract!Spec

\* No request waits in a circle but one kind: a rotation that has claimed its
\* token must check the key of the user whose row a deletion or a rename has
\* locked, which waits for the token's row.  (Postgres then fails one of them.)
\* A request waits for those that hold the row it is about to lock.
WaitsForUser(r, d) ==
    \/ req[r].pc = "issue" /\ LocksKey(d, req[r].user)
    \/ req[r].pc = "renew" /\ LocksKey(d, tok[req[r].token].user)
    \/ req[r].pc = "sweep" /\ req[r].why # "reuse" /\ LocksUser(d, req[r].user)
    \/ req[r].pc = "remove" /\ LocksUser(d, req[r].user)

WaitsForToken(r, q) ==
    LET t == req[q].token IN
    /\ req[q].pc = "renew"
    /\ \/ req[r].pc \in {"claim", "revoke"} /\ req[r].token = t
       \/ req[r].pc = "commit" /\ t \in req[r].seen
       \/ req[r].pc = "cascade" /\ tok[t].user = req[r].user

Deadlocked(S) ==
    /\ S # {}
    /\ \A r \in S : \E q \in S \ {r} : WaitsForUser(r, q) \/ WaitsForToken(r, q)

Crossed(r, d) == WaitsForUser(r, d) /\ WaitsForToken(d, r)

OnlyCrossedDeadlocks ==
    \A S \in SUBSET Requests : Deadlocked(S) =>
        \E r, d \in S : req[r].pc = "renew" /\ Crossed(r, d)

\* changePassword: "a stolen refresh cookie must not survive the victim
\* changing their password".  So a session the sweep found alive is over once
\* the change of password (or role) has committed.
PasswordChangeEndsSessions ==
    [][\A r \in Requests : req[r].why = "update" /\ SweepCommit(r) =>
         \A s \in req[r].seen, t \in Tokens :
            tok[t].origin = tok[s].origin => ~Live(t)']_vars
=============================================================================
