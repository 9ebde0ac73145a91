------------------------- MODULE RefreshTokens_proofs -------------------------
(***************************************************************************)
(* Theorems about RefreshTokens, for any number of users, tokens and       *)
(* concurrent requests and any lifetime and grace window.                  *)
(***************************************************************************)
EXTENDS RefreshTokens, TLAPS

-----------------------------------------------------------------------------
(* What a step does to the requests.                                       *)

\* A request is idle, or in one of the records its actions build.
LEMMA StepIsRequest ==
    ASSUME NEW pc \in {"idle", "issue", "claim", "reread", "sweep", "revoke", "remove"},
           NEW why \in {"none", "reuse", "update", "rename"},
           NEW u \in Users \cup {None}, NEW t \in Tokens \cup {None}, NEW time \in Nat
    PROVE  /\ Step(pc, why, u, t, time) \in Request
           /\ Step(pc, why, u, t, time).pc = pc
           /\ Step(pc, why, u, t, time).at = time
           /\ Step(pc, why, u, t, time).stamp = 0
BY DEF Step, Request

LEMMA IdleIsRequest == /\ Idle \in Request
                       /\ Idle.pc = "idle" /\ Idle.at = 0 /\ Idle.stamp = 0
BY StepIsRequest DEF Idle

\* No request works with a time that has yet to come.
Past == \A r \in Requests : req[r].at <= now /\ req[r].stamp <= now

\* A step of r moves r alone.  It takes a lock in three actions only.
OwnStep(r) ==
    /\ req' \in [Requests -> Request]
    /\ \A q \in Requests \ {r} : req'[q] = req[q]
    /\ req'[r].at <= now /\ req'[r].stamp <= now
    /\ req'[r].pc = "renew" => Claim(r) /\ req'[r].token = req[r].token
    /\ req'[r].pc = "commit" => /\ SweepStart(r)
                               /\ req'[r].user = req[r].user
                               /\ req'[r].why = req[r].why
    /\ req'[r].pc = "cascade" => RemoveStart(r) /\ req'[r].user = req[r].user

LEMMA BuiltStep ==
    ASSUME TypeOK, Past, NEW r \in Requests, NEW x \in Request,
           x.pc \notin {"renew", "commit", "cascade"}, x.at <= now, x.stamp <= now,
           req' = [req EXCEPT ![r] = x]
    PROVE  OwnStep(r)
BY DEF TypeOK, OwnStep

LEMMA ArriveStep ==
    ASSUME TypeOK, Past, NEW r \in Requests, Arrive(r)
    PROVE  OwnStep(r)
<1>0. now \in Nat /\ 0 \in Nat /\ now <= now /\ 0 <= now
  BY DEF TypeOK
<1> DEFINE to(pc, why, u, t, time) == req' = [req EXCEPT ![r] = Step(pc, why, u, t, time)]
<1>1. PICK pc \in {"idle", "issue", "claim", "reread", "sweep", "revoke", "remove"},
           why \in {"none", "reuse", "update", "rename"},
           u \in Users \cup {None}, t \in Tokens \cup {None}, time \in {0, now} :
           to(pc, why, u, t, time)
  <2>1. ASSUME NEW u \in Users, LoginRead(r, u) PROVE to("issue", "none", u, None, now)
    BY <2>1 DEF LoginRead
  <2>2. ASSUME NEW u \in Users, ChangePassword(r, u) PROVE to("sweep", "update", u, None, 0)
    BY <2>2 DEF ChangePassword
  <2>3. ASSUME NEW u \in Users, ChangeRole(r, u)
        PROVE  \E why \in {"update", "rename"} : to("sweep", why, u, None, 0)
    BY <2>3 DEF ChangeRole
  <2>4. ASSUME NEW u \in Users, Remove(r, u) PROVE to("remove", "none", u, None, 0)
    BY <2>4 DEF Remove
  <2>5. ASSUME NEW t \in Tokens, RotateRead(r, t)
        PROVE  to("claim", "none", tok[t].user, t, now) /\ tok[t].user \in Users \cup {None}
    BY <2>5 DEF RotateRead, TypeOK, TokenRow
  <2>6. ASSUME NEW t \in Tokens, RevokeRead(r, t) PROVE to("revoke", "none", None, t, now)
    BY <2>6 DEF RevokeRead
  <2> HIDE DEF to
  <2>7. QED
    BY <2>1, <2>2, <2>3, <2>4, <2>5, <2>6 DEF Arrive
<1>2. time \in Nat /\ time <= now
  BY <1>0
<1> DEFINE x == Step(pc, why, u, t, time)
<1>3. x \in Request /\ x.pc = pc /\ x.at <= now /\ x.stamp <= now
  <2>1. x \in Request /\ x.pc = pc /\ x.at = time /\ x.stamp = 0
    BY <1>2 DEF Step, Request
  <2>2. QED
    BY <1>0, <1>2, <2>1
<1>4. req' = [req EXCEPT ![r] = x]
  BY <1>1
<1> HIDE DEF x, to
<1>5. QED
  BY <1>3, <1>4, BuiltStep

LEMMA ContinueStep ==
    ASSUME TypeOK, Past, NEW r \in Requests, Continue(r) \/ Fail(r)
    PROVE  OwnStep(r)
<1>0. now \in Nat /\ now <= now /\ 0 <= now /\ req[r] \in Request
  BY DEF TypeOK
<1>1. CASE Finish(r)
  BY <1>0, <1>1, IdleIsRequest, BuiltStep DEF Finish
<1>2. CASE LoseClaim(r)
  <2>1. Step("reread", "none", req[r].user, req[r].token, 0) \in Request
    BY <1>0 DEF Step, Request
  <2>2. QED
    BY <1>0, <1>2, <2>1, BuiltStep DEF LoseClaim, Step
<1>3. CASE DetectReuse(r)
  <2>1. Step("sweep", "reuse", req[r].user, None, 0) \in Request
    BY <1>0 DEF Step, Request
  <2>2. QED
    BY <1>0, <1>3, <2>1, BuiltStep DEF DetectReuse, Step
<1>4. CASE Claim(r)
  <2>1. PICK time \in req[r].at .. now :
          req' = [req EXCEPT ![r] = [req[r] EXCEPT !.pc = "renew", !.stamp = time, !.at = now]]
    BY <1>4 DEF Claim
  <2>2. time \in Nat /\ time <= now
    BY <1>0 DEF Request
  <2> DEFINE x == [req[r] EXCEPT !.pc = "renew", !.stamp = time, !.at = now]
  <2>3. /\ x \in Request /\ x.pc = "renew" /\ x.at = now /\ x.stamp = time
        /\ x.token = req[r].token
    BY <1>0, <2>2 DEF Request
  <2> HIDE DEF x
  <2>4. req' = [req EXCEPT ![r] = x]
    BY <2>1 DEF x
  <2>5. QED
    BY <1>0, <1>4, <2>2, <2>3, <2>4 DEF OwnStep, TypeOK
<1>5. CASE SweepStart(r)
  <2> DEFINE snapshot == {t \in rows : tok[t].user = req[r].user /\ Unrevoked(t)}
  <2>1. snapshot \in SUBSET Tokens
    BY DEF TypeOK
  <2> HIDE DEF snapshot
  <2> DEFINE x == [req[r] EXCEPT !.pc = "commit", !.at = now, !.seen = snapshot]
  <2>2. /\ x \in Request /\ x.pc = "commit" /\ x.at = now /\ x.stamp = req[r].stamp
        /\ x.user = req[r].user /\ x.why = req[r].why
    BY <1>0, <2>1 DEF Request
  <2>3. req' = [req EXCEPT ![r] = x]
    BY <1>5 DEF SweepStart, snapshot
  <2> HIDE DEF x
  <2>4. QED
    BY <1>0, <1>5, <2>2, <2>3 DEF OwnStep, TypeOK, Past
<1>6. CASE RemoveStart(r)
  <2> DEFINE x == [req[r] EXCEPT !.pc = "cascade"]
  <2>1. /\ x \in Request /\ x.pc = "cascade" /\ x.at = req[r].at
        /\ x.stamp = req[r].stamp /\ x.user = req[r].user
    BY <1>0 DEF Request
  <2>2. req' = [req EXCEPT ![r] = x]
    BY <1>6 DEF RemoveStart
  <2> HIDE DEF x
  <2>3. QED
    BY <1>6, <2>1, <2>2 DEF OwnStep, TypeOK, Past
<1>7. QED
  BY <1>1, <1>2, <1>3, <1>4, <1>5, <1>6 DEF Continue, Fail, IssueFails, Issue, Rotate,
     RotateExpired, RejectInGrace, SweepNoUser, SweepCommit, RevokeWrite, RemoveNoUser, DeleteUser

-----------------------------------------------------------------------------
(* Type correctness.                                                       *)

\* A row written by login or rotation is a well-typed row.
LEMMA NewRowType ==
    ASSUME NEW u \in Users \cup {None}, NEW time \in Nat, NEW o \in Tokens
    PROVE  /\ NewRow(u, time + Ttl, o) \in TokenRow
           /\ NewRow(u, time + Ttl, o).expiresAt = time + Ttl
           /\ NewRow(u, time + Ttl, o).revokedAt = None
           /\ NewRow(u, time + Ttl, o).replacedById = None
           /\ NewRow(u, time + Ttl, o).origin = o
BY TimeAssumption DEF NewRow, TokenRow

\* Revoking keeps a row well typed, and only moves revokedAt.
LEMMA RevokedType ==
    ASSUME TypeOK, NEW t \in Tokens, NEW time \in Nat
    PROVE  /\ Revoked(t, time) \in TokenRow
           /\ Revoked(t, time).revokedAt = time
           /\ Revoked(t, time).revokedAt # None
           /\ Revoked(t, time).user = tok[t].user
           /\ Revoked(t, time).replacedById = tok[t].replacedById
           /\ Revoked(t, time).origin = tok[t].origin
           /\ Revoked(t, time).expiresAt = tok[t].expiresAt
BY NoneAssumption DEF TypeOK, Revoked, TokenRow

\* What an insert by login or rotation writes.
LEMMA IssueWrites ==
    ASSUME TypeOK, Past, NEW r \in Requests, Issue(r)
    PROVE  \E t \in Tokens \ issued :
             /\ issued' = issued \cup {t} /\ rows' = rows \cup {t}
             /\ tok' \in [Tokens -> TokenRow]
             /\ \A s \in Tokens \ {t} : tok'[s] = tok[s]
             /\ tok'[t].expiresAt <= now + Ttl /\ tok'[t].revokedAt = None
             /\ tok'[t].replacedById = None /\ tok'[t].origin = t
<1>1. PICK t \in Tokens \ issued, time \in req[r].at .. now :
        /\ issued' = issued \cup {t}
        /\ rows' = rows \cup {t}
        /\ tok' = [tok EXCEPT ![t] = NewRow(req[r].user, time + Ttl, t)]
  BY DEF Issue
<1>2. time \in Nat /\ time <= now /\ now \in Nat /\ req[r].user \in Users \cup {None}
  BY DEF TypeOK, Request
<1>3. time + Ttl <= now + Ttl
  BY <1>2, TimeAssumption
<1>4. QED
  BY <1>1, <1>2, <1>3, NewRowType DEF TypeOK

LEMMA RotateWrites ==
    ASSUME TypeOK, Past, NEW r \in Requests, Rotate(r), req[r].token \in rows
    PROVE  \E new \in Tokens \ issued :
             /\ issued' = issued \cup {new} /\ rows' = rows \cup {new}
             /\ tok' \in [Tokens -> TokenRow]
             /\ \A s \in Tokens \ {req[r].token, new} : tok'[s] = tok[s]
             /\ tok'[new].expiresAt <= now + Ttl /\ tok'[new].revokedAt = None
             /\ tok'[new].replacedById = None
             /\ tok'[new].origin = tok[req[r].token].origin
             /\ tok'[req[r].token].expiresAt = tok[req[r].token].expiresAt
             /\ tok'[req[r].token].revokedAt # None
             /\ tok'[req[r].token].revokedAt <= now
             /\ tok'[req[r].token].replacedById = new
             /\ tok'[req[r].token].origin = tok[req[r].token].origin
             /\ tok'[req[r].token].user = tok[req[r].token].user
<1> DEFINE old == req[r].token
<1>1. PICK new \in Tokens \ issued :
        /\ issued' = issued \cup {new}
        /\ rows' = rows \cup {new}
        /\ tok' = [tok EXCEPT
             ![old] = [Claimed(r) EXCEPT !.replacedById = new],
             ![new] = NewRow(tok[old].user, Lifetime(r), tok[old].origin)]
  BY DEF Rotate
<1>2. /\ old \in Tokens /\ old # new /\ tok[old] \in TokenRow
      /\ now \in Nat /\ req[r].at \in Nat /\ req[r].at <= now
      /\ req[r].stamp \in Nat /\ req[r].stamp <= now
  BY DEF TypeOK, Request, Past
<1>3. /\ Claimed(r) \in TokenRow /\ Claimed(r).revokedAt = req[r].stamp
      /\ Claimed(r).revokedAt # None
      /\ Claimed(r).expiresAt = tok[old].expiresAt /\ Claimed(r).origin = tok[old].origin
      /\ Claimed(r).user = tok[old].user
  BY <1>2, RevokedType DEF Claimed
<1> DEFINE row == NewRow(tok[old].user, Lifetime(r), tok[old].origin)
<1>4. /\ row \in TokenRow /\ row.expiresAt = req[r].at + Ttl /\ row.revokedAt = None
      /\ row.replacedById = None /\ row.origin = tok[old].origin
  BY <1>2, NewRowType DEF Lifetime, TokenRow
<1>5. req[r].at + Ttl <= now + Ttl
  BY <1>2, TimeAssumption
<1> DEFINE linked == [Claimed(r) EXCEPT !.replacedById = new]
<1>6. /\ linked \in TokenRow /\ linked.revokedAt = req[r].stamp /\ linked.replacedById = new
      /\ linked.revokedAt # None /\ linked.expiresAt = tok[old].expiresAt
      /\ linked.origin = tok[old].origin /\ linked.user = tok[old].user
  BY <1>3 DEF TokenRow
<1> HIDE DEF row, linked
<1>7. tok' = [tok EXCEPT ![old] = linked, ![new] = row]
  BY <1>1 DEF row, linked
<1>8. /\ tok' \in [Tokens -> TokenRow] /\ tok'[old] = linked /\ tok'[new] = row
      /\ \A s \in Tokens \ {old, new} : tok'[s] = tok[s]
  BY <1>2, <1>4, <1>6, <1>7 DEF TypeOK
<1> HIDE DEF old
<1>9. QED
  BY <1>1, <1>2, <1>4, <1>5, <1>6, <1>8 DEF old

\* What every step but Issue and Rotate does to the rows: it drops some,
\* revokes some, and clears links to the rows it drops.
Retires ==
    /\ users' \subseteq users
    /\ rows' \subseteq rows
    /\ issued' = issued
    /\ now' \in Nat /\ now' >= now
    /\ tok' \in [Tokens -> TokenRow]
    /\ \A t \in Tokens :
         /\ tok'[t].origin = tok[t].origin
         /\ tok'[t].user = tok[t].user
         /\ tok'[t].expiresAt = tok[t].expiresAt
         /\ tok'[t].replacedById \in {tok[t].replacedById, None}
         /\ tok'[t].revokedAt # tok[t].revokedAt =>
               /\ tok'[t].revokedAt # None /\ tok'[t].revokedAt <= now
               /\ ~Held(t)
    /\ \A t \in rows \ rows' : ~Held(t)

LEMMA Unwritten ==
    ASSUME TypeOK, UNCHANGED <<users, rows, issued, tok>>, now' \in Nat, now' >= now
    PROVE  Retires
BY DEF TypeOK, Retires

\* The requests are as they were, or all forgotten, or one has moved.
Others ==
    req' = req \/ req' = [r \in Requests |-> Idle] \/ \E r \in Requests : OwnStep(r)

LEMMA NextShape ==
    ASSUME TypeOK, Past, [Next]_vars
    PROVE  \/ Retires /\ Others
           \/ \E r \in Requests : OwnStep(r) /\ (Issue(r) \/ Rotate(r))
<1>0. now \in Nat /\ (now' = now => now' \in Nat /\ now' >= now)
  BY DEF TypeOK
<1>1. ASSUME NEW r \in Requests, Arrive(r) PROVE Retires
  BY <1>0, <1>1, Unwritten DEF Arrive, LoginRead, ChangePassword, ChangeRole, Remove, RotateRead, RevokeRead
<1>2. ASSUME NEW r \in Requests, Continue(r), ~Issue(r), ~Rotate(r) PROVE Retires
  <2>1. CASE SweepCommit(r)
    <3>1. /\ req[r].at \in Nat /\ req[r].at <= now
          /\ \A t \in req[r].seen : ~Held(t)
          /\ UNCHANGED <<now, users, rows, issued>>
      BY <2>1 DEF TypeOK, Request, Past, SweepCommit
    <3>2. /\ tok' \in [Tokens -> TokenRow]
          /\ \A t \in Tokens : tok'[t] = tok[t] \/ (t \in req[r].seen /\ tok'[t] = Revoked(t, req[r].at))
      BY <2>1, <3>1, RevokedType DEF TypeOK, SweepCommit
    <3>3. QED
      BY <1>0, <3>1, <3>2, RevokedType DEF Retires
  <2>2. CASE RevokeWrite(r)
    <3> DEFINE t == req[r].token
    <3>1. ~Held(t) /\ UNCHANGED <<now, users, rows, issued>>
      BY <2>2 DEF RevokeWrite
    <3>2. PICK time \in req[r].at .. now :
            tok' = IF t \in rows THEN [tok EXCEPT ![t] = LoggedOut(t, time)] ELSE tok
      BY <2>2 DEF RevokeWrite
    <3>3. time \in Nat /\ time <= now
      BY <1>0 DEF TypeOK, Request
    <3>4. CASE t \in rows
      <4>1. t \in Tokens
        BY <3>4 DEF TypeOK
      <4>2. /\ tok' \in [Tokens -> TokenRow] /\ tok'[t] = Revoked(t, time)
            /\ \A s \in Tokens \ {t} : tok'[s] = tok[s]
        BY <3>2, <3>3, <3>4, <4>1, RevokedType DEF TypeOK, LoggedOut
      <4> HIDE DEF t
      <4>3. QED
        BY <1>0, <3>1, <3>3, <4>1, <4>2, RevokedType DEF Retires
    <3>5. CASE t \notin rows
      BY <1>0, <3>1, <3>2, <3>5, Unwritten
    <3>6. QED
      BY <3>4, <3>5
  <2>3. CASE DeleteUser(r)
    BY <1>0, <2>3 DEF TypeOK, DeleteUser, Retires
  <2>4. CASE UNCHANGED <<now, users, rows, issued, tok>>
    BY <1>0, <2>4, Unwritten
  <2>5. QED
    BY <1>2, <2>1, <2>2, <2>3, <2>4 DEF Continue, IssueFails, Claim, RotateExpired, LoseClaim,
       RejectInGrace, DetectReuse, SweepNoUser, SweepStart, RemoveNoUser, RemoveStart
<1>3. ASSUME NEW r \in Requests, Fail(r) PROVE Retires
  BY <1>0, <1>3, Unwritten DEF Fail
<1>4. ASSUME PurgeExpired PROVE Retires
  <2>1. PICK expired \in SUBSET rows : Purge(expired)
    BY <1>4 DEF PurgeExpired
  <2>2. /\ \A t \in expired : ~Held(t)
        /\ rows' = rows \ expired /\ UNCHANGED <<now, users, issued>>
    BY <2>1 DEF Purge
  <2>3. ASSUME NEW t \in Tokens
        PROVE  /\ tok'[t] \in TokenRow
               /\ tok'[t].origin = tok[t].origin
               /\ tok'[t].user = tok[t].user
               /\ tok'[t].expiresAt = tok[t].expiresAt
               /\ tok'[t].replacedById \in {tok[t].replacedById, None}
               /\ tok'[t].revokedAt = tok[t].revokedAt
    BY <2>1 DEF TypeOK, Purge, TokenRow
  <2>4. tok' \in [Tokens -> TokenRow]
    BY <2>1, <2>3 DEF Purge
  <2>5. QED
    BY <1>0, <2>2, <2>3, <2>4 DEF Retires
<1>5. ASSUME Crash \/ Tick \/ UNCHANGED vars PROVE Retires
  <2>1. UNCHANGED <<users, rows, issued, tok>> /\ now' \in Nat /\ now' >= now
    BY <1>0, <1>5 DEF Crash, Tick, vars
  <2>2. QED
    BY <2>1, Unwritten
<1>6. ASSUME NEW r \in Requests, Arrive(r) \/ Continue(r) \/ Fail(r) PROVE OwnStep(r)
  BY <1>6, ArriveStep, ContinueStep
<1>7. PurgeExpired \/ Crash \/ Tick \/ UNCHANGED vars => Others
  BY DEF PurgeExpired, Purge, Crash, Tick, vars, Others
<1>8. QED
  BY <1>1, <1>2, <1>3, <1>4, <1>5, <1>6, <1>7 DEF Next, Others

\* A claim under way has its row, not yet revoked, to itself.
Holds(r) ==
    /\ req[r].token \in rows
    /\ tok[req[r].token].revokedAt = None
    /\ \A q \in Requests :
         req[q].pc = "renew" /\ req[q].token = req[r].token => q = r

HoldsRows == \A r \in Requests : req[r].pc = "renew" => Holds(r)

LEMMA RetiresHolds ==
    ASSUME TypeOK, HoldsRows, Retires, NEW q \in Requests, req[q].pc = "renew"
    PROVE  req[q].token \in rows' /\ tok'[req[q].token].revokedAt = None
<1>1. Held(req[q].token)
  BY DEF Held
<1>2. req[q].token \in rows /\ req[q].token \in Tokens /\ tok[req[q].token].revokedAt = None
  BY DEF TypeOK, HoldsRows, Holds
<1>3. QED
  BY <1>1, <1>2 DEF Retires

\* A claim that moves with r's step was there before, or is r's own.
LEMMA OwnHolds ==
    ASSUME TypeOK, HoldsRows, NEW r \in Requests, OwnStep(r),
           \A q \in Requests \ {r} : req[q].pc = "renew" =>
               req[q].token \in rows' /\ tok'[req[q].token].revokedAt = None
    PROVE  HoldsRows'
<1> SUFFICES ASSUME NEW q \in Requests, req'[q].pc = "renew"
             PROVE  /\ req'[q].token \in rows'
                    /\ tok'[req'[q].token].revokedAt = None
                    /\ \A p \in Requests :
                         req'[p].pc = "renew" /\ req'[p].token = req'[q].token => p = q
  BY DEF HoldsRows, Holds
<1>1. ASSUME req'[r].pc = "renew"
      PROVE  /\ req'[r].token = req[r].token
             /\ req[r].token \in rows' /\ tok'[req[r].token].revokedAt = None
             /\ \A p \in Requests : req[p].pc = "renew" => req[p].token # req[r].token
  BY <1>1 DEF OwnStep, Claim, Claimable, Unrevoked, Held
<1>2. CASE q = r
  BY <1>1, <1>2 DEF OwnStep
<1>3. CASE q # r
  <2>1. req'[q] = req[q] /\ req[q].pc = "renew" /\ Holds(q)
    BY <1>3 DEF OwnStep, HoldsRows
  <2>2. ASSUME NEW p \in Requests, req'[p].pc = "renew", req'[p].token = req'[q].token
        PROVE  p = q
    <3>1. CASE p = r
      BY <1>1, <2>1, <2>2, <3>1
    <3>2. CASE p # r
      BY <2>1, <2>2, <3>2 DEF OwnStep, Holds
    <3>3. QED
      BY <3>1, <3>2
  <2>3. QED
    BY <1>3, <2>1, <2>2
<1>4. QED
  BY <1>2, <1>3

\* The inductive invariant of the types: a rotation's own row is a row.
TypeInv == TypeOK /\ Past /\ HoldsRows

LEMMA RetiresType ==
    ASSUME TypeInv, Retires, Others
    PROVE  TypeInv'
<1>1. now \in Nat /\ now' \in Nat /\ now <= now'
  BY DEF TypeInv, TypeOK, Retires
<1>2. req' \in [Requests -> Request] /\ Past'
  <2>1. CASE req' = req
    BY <1>1, <2>1 DEF TypeInv, TypeOK, Past, Request
  <2>2. CASE req' = [r \in Requests |-> Idle]
    <3>1. req' \in [Requests -> Request]
      BY <2>2, IdleIsRequest
    <3>2. QED
      BY <1>1, <2>2, <3>1, IdleIsRequest DEF Past
  <2>3. ASSUME NEW r \in Requests, OwnStep(r) PROVE req' \in [Requests -> Request] /\ Past'
    BY <1>1, <2>3 DEF TypeInv, TypeOK, OwnStep, Past, Request
  <2>4. QED
    BY <2>1, <2>2, <2>3 DEF Others
<1>3. ASSUME NEW t \in rows'
      PROVE  /\ tok'[t].expiresAt <= now' + Ttl
             /\ tok'[t].revokedAt # None => tok'[t].revokedAt <= now'
  <2>1. /\ t \in rows /\ t \in Tokens /\ tok[t] \in TokenRow /\ tok'[t] \in TokenRow
        /\ tok[t].expiresAt <= now + Ttl
        /\ tok[t].revokedAt # None => tok[t].revokedAt <= now
    BY <1>3 DEF TypeInv, TypeOK, Retires
  <2>2. /\ tok'[t].expiresAt = tok[t].expiresAt
        /\ tok'[t].revokedAt # tok[t].revokedAt => tok'[t].revokedAt <= now
    BY <2>1 DEF Retires
  <2>3. QED
    BY <1>1, <2>1, <2>2, TimeAssumption DEF TokenRow
<1>4. TypeOK'
  BY <1>1, <1>2, <1>3 DEF TypeInv, TypeOK, Retires
<1>5. HoldsRows'
  <2>1. \A q \in Requests : req[q].pc = "renew" =>
          req[q].token \in rows' /\ tok'[req[q].token].revokedAt = None
    BY RetiresHolds DEF TypeInv
  <2>2. CASE req' = req
    BY <2>1, <2>2 DEF TypeInv, HoldsRows, Holds
  <2>3. CASE req' = [r \in Requests |-> Idle]
    BY <2>3, IdleIsRequest DEF HoldsRows
  <2>4. ASSUME NEW r \in Requests, OwnStep(r) PROVE HoldsRows'
    BY <2>1, <2>4, OwnHolds DEF TypeInv
  <2>5. QED
    BY <2>2, <2>3, <2>4 DEF Others
<1>6. QED
  BY <1>2, <1>4, <1>5 DEF TypeInv

\* An insert adds a well-typed row, and no claim but the rotation's own moves.
LEMMA InsertType ==
    ASSUME TypeInv, NEW r \in Requests, OwnStep(r), Issue(r) \/ Rotate(r)
    PROVE  TypeInv'
<1>1. now' = now /\ now \in Nat /\ users' = users /\ users \subseteq Users
  BY DEF TypeInv, TypeOK, Issue, Rotate
<1>2. req' \in [Requests -> Request] /\ Past'
  BY <1>1 DEF TypeInv, OwnStep, Past
<1>3. CASE Issue(r)
  <2>1. PICK t \in Tokens \ issued :
             /\ issued' = issued \cup {t} /\ rows' = rows \cup {t}
             /\ tok' \in [Tokens -> TokenRow]
             /\ \A s \in Tokens \ {t} : tok'[s] = tok[s]
             /\ tok'[t].expiresAt <= now + Ttl /\ tok'[t].revokedAt = None
    BY <1>3, IssueWrites DEF TypeInv
  <2>2. TypeOK'
    BY <1>1, <1>2, <2>1 DEF TypeInv, TypeOK
  <2>3. HoldsRows'
    BY <2>1, OwnHolds DEF TypeInv, TypeOK, HoldsRows, Holds
  <2>4. QED
    BY <1>2, <2>2, <2>3 DEF TypeInv
<1>4. CASE Rotate(r)
  <2> DEFINE old == req[r].token
  <2>0. req[r].pc = "renew" /\ old \in rows /\ old \in Tokens /\ Holds(r)
    BY <1>4 DEF TypeInv, TypeOK, HoldsRows, Holds, Rotate
  <2>1. PICK new \in Tokens \ issued :
             /\ issued' = issued \cup {new} /\ rows' = rows \cup {new}
             /\ tok' \in [Tokens -> TokenRow]
             /\ \A s \in Tokens \ {old, new} : tok'[s] = tok[s]
             /\ tok'[new].expiresAt <= now + Ttl /\ tok'[new].revokedAt = None
             /\ tok'[old].expiresAt = tok[old].expiresAt
             /\ tok'[old].revokedAt <= now
    BY <1>4, <2>0, RotateWrites DEF TypeInv
  <2> HIDE DEF old
  <2>2. TypeOK'
    <3>1. \A t \in rows' : /\ tok'[t].expiresAt <= now' + Ttl
                           /\ tok'[t].revokedAt # None => tok'[t].revokedAt <= now'
      BY <1>1, <2>0, <2>1 DEF TypeInv, TypeOK
    <3>2. QED
      BY <1>1, <1>2, <2>1, <3>1 DEF TypeInv, TypeOK
  <2>3. HoldsRows'
    <3>1. ASSUME NEW q \in Requests \ {r}, req[q].pc = "renew"
          PROVE  req[q].token \in rows' /\ tok'[req[q].token].revokedAt = None
      <4>1. req[q].token # old /\ req[q].token \in rows /\ tok[req[q].token].revokedAt = None
        BY <2>0, <3>1 DEF TypeInv, HoldsRows, Holds, old
      <4>2. req[q].token \in Tokens \ {old, new}
        BY <4>1, <2>1 DEF TypeInv, TypeOK
      <4>3. QED
        BY <2>1, <4>1, <4>2
    <3>2. QED
      BY <3>1, OwnHolds DEF TypeInv
  <2>4. QED
    BY <1>2, <2>2, <2>3 DEF TypeInv
<1>5. QED
  BY <1>3, <1>4

LEMMA NextType == TypeInv /\ [Next]_vars => TypeInv'
BY NextShape, RetiresType, InsertType DEF TypeInv

LEMMA TypeInvCorrect == Spec => []TypeInv
<1>1. Init => TypeInv
  <2> SUFFICES ASSUME Init PROVE TypeInv
    OBVIOUS
  <2>1. \A r \in Requests : req[r] = Idle
    BY DEF Init
  <2>2. TypeOK
    BY IdleIsRequest DEF Init, TypeOK, TokenRow
  <2>3. QED
    BY <2>1, <2>2, IdleIsRequest DEF TypeInv, TypeOK, Past, HoldsRows
<1>2. QED
  BY <1>1, NextType, PTL DEF Spec

\* Every variable keeps its type, whatever the requests do, and no token is
\* given a life beyond the configured one.
THEOREM TypeCorrect == Spec => []TypeOK
<1>1. TypeInv => TypeOK
  BY DEF TypeInv
<1>2. QED
  BY <1>1, TypeInvCorrect, PTL

-----------------------------------------------------------------------------
(* One token per session.  The property is not inductive alone: a new      *)
(* session is named by its first token, so no older row may bear that name. *)

OriginsIssued == \A t \in rows : tok[t].origin \in issued

LEMMA RetiresKeepsOne ==
    ASSUME TypeOK, OneTokenPerSession, OriginsIssued, Retires
    PROVE  OneTokenPerSession' /\ OriginsIssued'
<1>1. \A t \in rows' : t \in rows /\ t \in Tokens /\ tok'[t].origin = tok[t].origin
  BY DEF TypeOK, Retires
<1>2. \A t \in rows' : Unrevoked(t)' => Unrevoked(t)
  BY <1>1 DEF Retires, Unrevoked
<1>3. QED
  BY <1>1, <1>2 DEF OneTokenPerSession, OriginsIssued, Retires

LEMMA IssueKeepsOne ==
    ASSUME TypeInv, OneTokenPerSession, OriginsIssued, NEW r \in Requests, Issue(r)
    PROVE  OneTokenPerSession' /\ OriginsIssued'
<1>1. PICK t \in Tokens \ issued :
        /\ issued' = issued \cup {t} /\ rows' = rows \cup {t}
        /\ \A s \in Tokens \ {t} : tok'[s] = tok[s]
        /\ tok'[t].origin = t
  BY IssueWrites DEF TypeInv
<1>2. t \notin rows
  BY DEF TypeInv, TypeOK
<1>3. \A s \in rows : tok'[s] = tok[s] /\ tok[s].origin # t
  BY <1>1, <1>2 DEF TypeInv, TypeOK, OriginsIssued
<1>4. QED
  BY <1>1, <1>2, <1>3 DEF OneTokenPerSession, OriginsIssued, Unrevoked

\* The claim retires the old token in the step that adds the new one.
LEMMA RotateKeepsOne ==
    ASSUME TypeInv, OneTokenPerSession, OriginsIssued, NEW r \in Requests, Rotate(r)
    PROVE  OneTokenPerSession' /\ OriginsIssued'
<1> DEFINE old == req[r].token
<1>1. old \in rows /\ old \in Tokens /\ Unrevoked(old)
  BY DEF TypeInv, TypeOK, HoldsRows, Holds, Rotate, Unrevoked
<1>2. PICK new \in Tokens \ issued :
        /\ issued' = issued \cup {new} /\ rows' = rows \cup {new}
        /\ \A s \in Tokens \ {old, new} : tok'[s] = tok[s]
        /\ tok'[new].origin = tok[old].origin
        /\ tok'[old].revokedAt # None /\ tok'[old].origin = tok[old].origin
  BY <1>1, RotateWrites DEF TypeInv
<1>3. new \notin rows /\ new # old
  BY <1>1 DEF TypeInv, TypeOK
<1> HIDE DEF old
<1>4. \A s \in rows \ {old} : tok'[s] = tok[s]
  BY <1>2, <1>3 DEF TypeInv, TypeOK
<1>5. \A s \in rows \ {old} : Unrevoked(s) => tok[s].origin # tok[old].origin
  BY <1>1 DEF OneTokenPerSession
<1>6. OriginsIssued'
  <2> SUFFICES ASSUME NEW s \in rows' PROVE tok'[s].origin \in issued'
    BY DEF OriginsIssued
  <2>1. issued \subseteq issued'
    BY <1>2
  <2>2. tok[old].origin \in issued
    BY <1>1 DEF OriginsIssued
  <2>3. CASE s = new \/ s = old
    BY <2>1, <2>2, <2>3, <1>2
  <2>4. CASE s \in rows \ {old}
    BY <2>1, <2>4, <1>4 DEF OriginsIssued
  <2>5. QED
    BY <2>3, <2>4, <1>2
<1>7. \A s \in rows' : Unrevoked(s)' =>
        s = new \/ (s \in rows \ {old} /\ Unrevoked(s) /\ tok'[s].origin # tok[old].origin)
  BY <1>2, <1>4, <1>5 DEF Unrevoked
<1>8. OneTokenPerSession'
  <2> SUFFICES ASSUME NEW s \in rows', NEW t \in rows', Unrevoked(s)', Unrevoked(t)',
                      tok'[s].origin = tok'[t].origin
               PROVE  s = t
    BY DEF OneTokenPerSession
  <2>1. CASE s = new \/ t = new
    BY <2>1, <1>2, <1>7
  <2>2. CASE s # new /\ t # new
    BY <2>2, <1>4, <1>7 DEF OneTokenPerSession
  <2>3. QED
    BY <2>1, <2>2
<1>9. QED
  BY <1>6, <1>8

LEMMA NextKeepsOne ==
    ASSUME TypeInv, OneTokenPerSession, OriginsIssued, [Next]_vars
    PROVE  OneTokenPerSession' /\ OriginsIssued'
BY NextShape, RetiresKeepsOne, IssueKeepsOne, RotateKeepsOne DEF TypeInv

\* A session never holds two tokens that are not revoked: exactly one of any
\* number of concurrent rotations wins, whatever sweeps, logouts, purges and
\* crashes run among them.
THEOREM OneTokenPerSessionHolds == Spec => []OneTokenPerSession
<1>1. Init => OneTokenPerSession /\ OriginsIssued
  BY DEF Init, OneTokenPerSession, OriginsIssued
<1>2. TypeInv /\ OneTokenPerSession /\ OriginsIssued /\ [Next]_vars
        => OneTokenPerSession' /\ OriginsIssued'
  BY NextKeepsOne
<1>3. QED
  BY <1>1, <1>2, TypeInvCorrect, PTL DEF Spec

-----------------------------------------------------------------------------
(* The rotation chain.                                                     *)

LinksIssued == \A t \in rows : tok[t].replacedById \in issued \cup {None}

LEMMA RetiresKeepsChain ==
    ASSUME TypeOK, RotationChain, LinksIssued, Retires
    PROVE  RotationChain' /\ LinksIssued'
<1>1. rows' \subseteq rows /\ rows \subseteq issued /\ issued' = issued /\ issued \subseteq Tokens
  BY DEF TypeOK, Retires
<1>2. \A t \in Tokens : /\ tok'[t].replacedById \in {tok[t].replacedById, None}
                        /\ tok'[t].origin = tok[t].origin
                        /\ tok[t].revokedAt # None => tok'[t].revokedAt # None
  BY DEF Retires
<1>3. LinksIssued'
  BY <1>1, <1>2 DEF LinksIssued
<1>4. \A s \in rows' : tok'[s].replacedById # None =>
        /\ s \in rows
        /\ tok'[s].replacedById = tok[s].replacedById
        /\ tok[s].replacedById \in Tokens
  BY <1>1, <1>2 DEF LinksIssued
<1>5. QED
  BY <1>1, <1>2, <1>3, <1>4 DEF RotationChain

LEMMA IssueKeepsChain ==
    ASSUME TypeInv, RotationChain, LinksIssued, NEW r \in Requests, Issue(r)
    PROVE  RotationChain' /\ LinksIssued'
<1>1. PICK t \in Tokens \ issued :
        /\ issued' = issued \cup {t} /\ rows' = rows \cup {t}
        /\ \A s \in Tokens \ {t} : tok'[s] = tok[s]
        /\ tok'[t].replacedById = None
  BY IssueWrites DEF TypeInv
<1>2. rows \subseteq issued /\ \A s \in issued : tok'[s] = tok[s]
  BY <1>1 DEF TypeInv, TypeOK
<1>3. LinksIssued'
  BY <1>1, <1>2 DEF LinksIssued
<1>4. \A s \in rows' : tok'[s].replacedById # None =>
        s \in rows /\ tok[s].replacedById \in issued
  BY <1>1, <1>2 DEF LinksIssued
<1>5. QED
  BY <1>2, <1>3, <1>4 DEF RotationChain

LEMMA RotateKeepsChain ==
    ASSUME TypeInv, RotationChain, LinksIssued, NEW r \in Requests, Rotate(r)
    PROVE  RotationChain' /\ LinksIssued'
<1> DEFINE old == req[r].token
<1>1. old \in rows /\ old \in Tokens /\ old \in issued /\ rows \subseteq issued
  BY DEF TypeInv, TypeOK, HoldsRows, Holds, Rotate
<1>2. PICK new \in Tokens \ issued :
        /\ issued' = issued \cup {new} /\ rows' = rows \cup {new}
        /\ \A s \in Tokens \ {old, new} : tok'[s] = tok[s]
        /\ tok'[new].origin = tok[old].origin /\ tok'[new].replacedById = None
        /\ tok'[old].replacedById = new
        /\ tok'[old].revokedAt # None /\ tok'[old].origin = tok[old].origin
  BY <1>1, RotateWrites DEF TypeInv
<1> HIDE DEF old
<1>3. \A s \in issued \ {old} : tok'[s] = tok[s]
  BY <1>2 DEF TypeInv, TypeOK
<1>4. \A s \in rows : tok[s].replacedById # new
  BY <1>2, NoneAssumption DEF LinksIssued
<1>5. \A s \in issued : tok'[s].origin = tok[s].origin
  BY <1>2, <1>3
<1>6. LinksIssued'
  <2> SUFFICES ASSUME NEW s \in rows'
               PROVE  tok'[s].replacedById \in issued' \cup {None}
    BY DEF LinksIssued
  <2>1. CASE s = new \/ s = old
    BY <2>1, <1>2
  <2>2. CASE s \in rows \ {old}
    BY <2>2, <1>1, <1>2, <1>3 DEF LinksIssued
  <2>3. QED
    BY <2>1, <2>2, <1>2
<1>7. RotationChain'
  <2> SUFFICES ASSUME NEW s \in rows', tok'[s].replacedById # None
               PROVE  /\ tok'[s].revokedAt # None
                      /\ tok'[tok'[s].replacedById].origin = tok'[s].origin
                      /\ \A t \in rows' :
                           tok'[t].replacedById = tok'[s].replacedById => s = t
    BY DEF RotationChain
  <2>1. s # new /\ s \in rows
    BY <1>2
  <2>2. \A t \in rows' : tok'[t].replacedById = new => t = old
    BY <1>1, <1>2, <1>3, <1>4, NoneAssumption
  <2>3. CASE s = old
    BY <2>2, <2>3, <1>2
  <2>4. CASE s # old
    <3>1. /\ tok'[s] = tok[s]
          /\ tok[s].replacedById \in issued
          /\ tok[s].replacedById # new
      BY <2>1, <2>4, <1>1, <1>3, <1>4 DEF LinksIssued
    <3>2. tok'[s].revokedAt # None
      BY <2>1, <3>1 DEF RotationChain
    <3>3. tok'[tok'[s].replacedById].origin = tok'[s].origin
      BY <2>1, <3>1, <1>5 DEF RotationChain
    <3>4. \A t \in rows' : tok'[t].replacedById = tok'[s].replacedById => s = t
      BY <2>1, <3>1, <1>1, <1>2, <1>3 DEF RotationChain
    <3>5. QED
      BY <3>2, <3>3, <3>4
  <2>5. QED
    BY <2>3, <2>4
<1>8. QED
  BY <1>6, <1>7

\* The link that decides between a harmless replay and a reuse never lies: a
\* linked row is revoked, its successor belongs to the same session, and no
\* two rows share a successor.
THEOREM RotationChainHolds == Spec => []RotationChain
<1>1. Init => RotationChain /\ LinksIssued
  BY DEF Init, RotationChain, LinksIssued
<1>2. TypeInv /\ RotationChain /\ LinksIssued /\ [Next]_vars
        => RotationChain' /\ LinksIssued'
  BY NextShape, RetiresKeepsChain, IssueKeepsChain, RotateKeepsChain DEF TypeInv
<1>3. QED
  BY <1>1, <1>2, TypeInvCorrect, PTL DEF Spec

-----------------------------------------------------------------------------
(* Deadlocks.                                                              *)

\* At most one transaction has the user's row, and a sweep waits for tokens
\* of its own user only.
OneLock ==
    \A r, q \in Requests, u \in Users \cup {None} :
        LocksUser(r, u) /\ LocksUser(q, u) => r = q

SeenOwn ==
    \A r \in Requests : req[r].pc = "commit" =>
        \A t \in req[r].seen : t \in issued /\ tok[t].user = req[r].user

Locks == OneLock /\ SeenOwn

LEMMA NextOneLock ==
    ASSUME TypeInv, OneLock, Others
    PROVE  OneLock'
<1>1. CASE req' = req
  BY <1>1 DEF OneLock, LocksUser
<1>2. CASE req' = [r \in Requests |-> Idle]
  BY <1>2, IdleIsRequest DEF OneLock, LocksUser
<1>3. ASSUME NEW r \in Requests, OwnStep(r) PROVE OneLock'
  <2>1. ASSUME NEW u \in Users \cup {None}, LocksUser(r, u)' PROVE ~UserLocked(r, u)
    BY <1>3, <2>1 DEF OwnStep, LocksUser, SweepStart, RemoveStart
  <2>2. \A q \in Requests \ {r}, u \in Users \cup {None} : LocksUser(q, u)' <=> LocksUser(q, u)
    BY <1>3 DEF OwnStep, LocksUser
  <2>3. QED
    BY <2>1, <2>2 DEF OneLock, UserLocked
<1>4. QED
  BY <1>1, <1>2, <1>3 DEF Others

LEMMA NextSeenOwn ==
    ASSUME TypeInv, SeenOwn, [Next]_vars
    PROVE  SeenOwn'
<1>1. issued \subseteq issued' /\ \A t \in issued : tok'[t].user = tok[t].user
  <2>1. CASE Retires
    BY <2>1 DEF TypeInv, TypeOK, Retires
  <2>2. ASSUME NEW r \in Requests, Issue(r)
        PROVE  issued \subseteq issued' /\ \A t \in issued : tok'[t].user = tok[t].user
    BY <2>2, IssueWrites DEF TypeInv, TypeOK
  <2>3. ASSUME NEW r \in Requests, Rotate(r)
        PROVE  issued \subseteq issued' /\ \A t \in issued : tok'[t].user = tok[t].user
    <3>1. req[r].token \in rows
      BY <2>3 DEF TypeInv, HoldsRows, Holds, Rotate
    <3>2. PICK new \in Tokens \ issued :
            /\ issued' = issued \cup {new}
            /\ \A s \in Tokens \ {req[r].token, new} : tok'[s] = tok[s]
            /\ tok'[req[r].token].user = tok[req[r].token].user
      BY <2>3, <3>1, RotateWrites DEF TypeInv
    <3>3. QED
      BY <3>2 DEF TypeInv, TypeOK
  <2>4. QED
    BY <2>1, <2>2, <2>3, NextShape DEF TypeInv
<1>2. Others
  BY NextShape DEF TypeInv, Others
<1>3. ASSUME NEW q \in Requests, req'[q] = req[q], req'[q].pc = "commit"
      PROVE  \A t \in req'[q].seen : t \in issued' /\ tok'[t].user = req'[q].user
  BY <1>1, <1>3 DEF SeenOwn
<1>4. CASE req' = req
  BY <1>3, <1>4 DEF SeenOwn
<1>5. CASE req' = [r \in Requests |-> Idle]
  BY <1>5, IdleIsRequest DEF SeenOwn
<1>6. ASSUME NEW r \in Requests, OwnStep(r) PROVE SeenOwn'
  <2>1. ASSUME req'[r].pc = "commit"
        PROVE  \A t \in req'[r].seen : t \in issued' /\ tok'[t].user = req'[r].user
    <3>1. SweepStart(r) /\ req'[r].user = req[r].user
      BY <1>6, <2>1 DEF OwnStep
    <3>2. req'[r].seen = {t \in rows : tok[t].user = req[r].user /\ Unrevoked(t)}
      BY <3>1 DEF SweepStart, TypeInv, TypeOK, Request
    <3>3. QED
      BY <1>1, <3>1, <3>2 DEF TypeInv, TypeOK
  <2>2. \A q \in Requests \ {r} : req'[q] = req[q]
    BY <1>6 DEF OwnStep
  <2>3. QED
    BY <1>3, <2>1, <2>2 DEF SeenOwn
<1>7. QED
  BY <1>2, <1>4, <1>5, <1>6 DEF Others

\* Whoever is waited for holds a token or a user.  Of those that hold a user
\* in a deadlock, each waits for a token of that user; its holder waits in
\* turn for the only one that holds the user.
LEMMA DeadlocksCross ==
    ASSUME TypeInv, Locks
    PROVE  OnlyCrossedDeadlocks
<1> SUFFICES ASSUME NEW S \in SUBSET Requests, Deadlocked(S)
             PROVE  \E r, d \in S : req[r].pc = "renew" /\ Crossed(r, d)
  BY DEF OnlyCrossedDeadlocks
<1>1. \A r \in S : \E q \in S \ {r} : WaitsForUser(r, q) \/ WaitsForToken(r, q)
  BY DEF Deadlocked
<1>2. ASSUME NEW d \in S, NEW u \in Users \cup {None}, LocksUser(d, u)
      PROVE  \E r, e \in S : req[r].pc = "renew" /\ Crossed(r, e)
  <2>1. req[d].pc \in {"cascade", "commit"} /\ req[d].user = u
    BY <1>2 DEF LocksUser
  <2>2. PICK r \in S : WaitsForToken(d, r)
    BY <1>1, <2>1 DEF WaitsForUser
  <2>3. req[r].pc = "renew" /\ tok[req[r].token].user = u
    BY <2>1, <2>2 DEF WaitsForToken, Locks, SeenOwn
  <2>4. PICK e \in S : LocksKey(e, u)
    BY <1>1, <2>3 DEF WaitsForUser, WaitsForToken
  <2>5. e = d
    BY <1>2, <2>4 DEF LocksKey, Locks, OneLock
  <2>6. Crossed(r, d)
    BY <2>2, <2>3, <2>4, <2>5 DEF Crossed, WaitsForUser
  <2>7. QED
    BY <2>3, <2>6
<1>3. PICK r \in S, q \in S : WaitsForUser(r, q) \/ WaitsForToken(r, q)
  BY <1>1 DEF Deadlocked
<1>4. ASSUME NEW x \in S, NEW d \in S, WaitsForUser(x, d)
      PROVE  \E u \in Users \cup {None} : LocksUser(d, u)
  <2>1. req[d].user \in Users \cup {None}
    BY DEF TypeInv, TypeOK, Request
  <2>2. QED
    BY <1>4, <2>1 DEF WaitsForUser, LocksKey, LocksUser
<1>5. CASE WaitsForUser(r, q)
  BY <1>2, <1>4, <1>5
<1>6. CASE WaitsForToken(r, q)
  <2>1. req[q].pc = "renew"
    BY <1>6 DEF WaitsForToken
  <2>2. PICK d \in S : WaitsForUser(q, d)
    BY <1>1, <2>1 DEF WaitsForToken
  <2>3. QED
    BY <1>2, <1>4, <2>2
<1>7. QED
  BY <1>3, <1>5, <1>6

\* Whatever the requests and however many, row locks are waited for in a
\* circle only by a rotation and a deletion or a rename of its user.
THEOREM OnlyCrossedDeadlocksHolds == Spec => []OnlyCrossedDeadlocks
<1>1. Init => Locks
  BY IdleIsRequest DEF Init, Locks, OneLock, SeenOwn, LocksUser
<1>2. TypeInv /\ Locks /\ [Next]_vars => Locks'
  BY NextShape, NextOneLock, NextSeenOwn DEF TypeInv, Locks, Others
<1>3. TypeInv /\ Locks => OnlyCrossedDeadlocks
  BY DeadlocksCross
<1>4. QED
  BY <1>1, <1>2, <1>3, TypeInvCorrect, PTL DEF Spec

-----------------------------------------------------------------------------
(* Refinement: the store implements the abstract sessions.                 *)

\* Each session has at most one live token, so Holder names it.
HolderNames ==
    \A s \in Tokens : /\ Holder[s] # None => Holder[s] \in Holding(s)
                      /\ \A t \in Holding(s) : Holder[s] = t
                      /\ Holding(s) = {} => Holder[s] = None

LEMMA HolderIsLive == OneTokenPerSession => HolderNames
<1> SUFFICES ASSUME OneTokenPerSession, NEW s \in Tokens
             PROVE  /\ Holder[s] # None => Holder[s] \in Holding(s)
                    /\ \A t \in Holding(s) : Holder[s] = t
                    /\ Holding(s) = {} => Holder[s] = None
  BY DEF HolderNames
<1>1. \A t1, t2 \in Holding(s) : t1 = t2
  BY DEF OneTokenPerSession, Holding, Renewable
<1>2. CASE Holding(s) = {}
  BY <1>2 DEF Holder
<1>3. CASE Holding(s) # {}
  <2>1. Holder[s] = CHOOSE t \in Holding(s) : TRUE
    BY <1>3 DEF Holder
  <2>2. Holder[s] \in Holding(s)
    BY <1>3, <2>1
  <2>3. QED
    BY <1>1, <1>3, <2>2
<1>4. QED
  BY <1>2, <1>3

\* A claim that was not there before found its token in time.
LEMMA HeldInTime ==
    ASSUME TypeOK, Others, NEW t \in Tokens, Held(t)'
    PROVE  Held(t) \/ now < tok[t].expiresAt
<1>1. PICK q \in Requests : req'[q].pc = "renew" /\ req'[q].token = t
  BY DEF Held
<1>2. CASE req' = req
  BY <1>1, <1>2 DEF Held
<1>3. CASE req' = [r \in Requests |-> Idle]
  BY <1>1, <1>3, IdleIsRequest
<1>4. ASSUME NEW r \in Requests, OwnStep(r)
      PROVE  Held(t) \/ now < tok[t].expiresAt
  <2>1. CASE q = r
    <3>1. Claim(r) /\ req[r].token = t
      BY <1>1, <1>4, <2>1 DEF OwnStep
    <3>2. now \in Nat /\ tok[t].expiresAt \in Nat
      BY DEF TypeOK, TokenRow
    <3>3. QED
      BY <3>1, <3>2 DEF Claim, Expired
  <2>2. CASE q # r
    BY <1>1, <1>4, <2>2 DEF OwnStep, Held
  <2>3. QED
    BY <2>1, <2>2
<1>5. QED
  BY <1>2, <1>3, <1>4 DEF Others

LEMMA RetiresEnds ==
    ASSUME TypeOK, HolderNames, HolderNames', Retires, Others
    PROVE  Abstract!Next
<1> DEFINE ended == {s \in Tokens : Holder'[s] = None}
<1>1. Started' = Started
  BY DEF TypeOK, Started, Retires
<1>2. ASSUME NEW s \in Tokens, NEW t \in Holding(s)'
      PROVE  t \in Holding(s)
  <2>1. t \in rows /\ t \in Tokens /\ t \in rows'
    BY <1>2 DEF TypeOK, Holding, Retires
  <2>2. tok[t].origin = s /\ Unrevoked(t)
    BY <1>2, <2>1 DEF Holding, Renewable, Unrevoked, Retires
  <2>3. now < tok[t].expiresAt \/ Held(t)
    <3>1. CASE Held(t)'
      BY <2>1, <3>1, HeldInTime
    <3>2. CASE now' < tok'[t].expiresAt
      <4>1. now \in Nat /\ now' \in Nat /\ tok[t].expiresAt \in Nat /\ now' >= now
        BY <2>1 DEF TypeOK, TokenRow, Retires
      <4>2. tok'[t].expiresAt = tok[t].expiresAt
        BY <2>1 DEF Retires
      <4>3. QED
        BY <3>2, <4>1, <4>2
    <3>3. QED
      BY <1>2, <3>1, <3>2 DEF Holding, Renewable
  <2>4. QED
    BY <2>1, <2>2, <2>3 DEF Holding, Renewable
<1>3. ASSUME NEW s \in Tokens
      PROVE  Holder'[s] = IF s \in ended THEN None ELSE Holder[s]
  <2>1. CASE Holder'[s] = None
    BY <2>1
  <2>2. CASE Holder'[s] # None
    <3>1. Holder'[s] \in Holding(s)'
      BY <2>2 DEF HolderNames
    <3>2. QED
      BY <2>2, <3>1, <1>2 DEF HolderNames
  <2>3. QED
    BY <2>1, <2>2
<1>4. Holder' = [s \in Tokens |-> IF s \in ended THEN None ELSE Holder[s]]
  BY <1>3 DEF Holder
<1>5. ended \in SUBSET Tokens
  OBVIOUS
<1>6. issued' = issued
  BY DEF Retires
<1>7. QED
  BY <1>1, <1>4, <1>5, <1>6 DEF Abstract!Next, Abstract!End

\* A session that holds at most one given token, and nothing else changed.
LEMMA HolderMoves ==
    ASSUME HolderNames, HolderNames', NEW s \in Tokens, NEW t \in Tokens,
           Holding(s)' \subseteq {t},
           \A x \in Tokens \ {s} : Holding(x)' = Holding(x)
    PROVE  \E h \in {t, None} : Holder' = [Holder EXCEPT ![s] = h]
<1>1. Holder'[s] \in {t, None}
  BY DEF HolderNames
<1>2. \A x \in Tokens \ {s} : Holder'[x] = Holder[x]
  <2> SUFFICES ASSUME NEW x \in Tokens \ {s} PROVE Holder'[x] = Holder[x]
    OBVIOUS
  <2>1. CASE Holding(x) = {}
    BY <2>1 DEF HolderNames
  <2>2. CASE Holding(x) # {}
    BY <2>2 DEF HolderNames
  <2>3. QED
    BY <2>1, <2>2
<1>3. /\ Holder = [x \in Tokens |-> Holder[x]]
      /\ Holder' = [x \in Tokens |-> Holder'[x]]
  BY DEF Holder
<1>4. QED
  BY <1>1, <1>2, <1>3

\* A login starts a session that was never started and holds at most its one
\* token.
LEMMA IssueStarts ==
    ASSUME TypeInv, OriginsIssued, HolderNames, HolderNames',
           NEW r \in Requests, OwnStep(r), Issue(r)
    PROVE  Abstract!Next
<1>1. PICK t \in Tokens \ issued :
        /\ issued' = issued \cup {t} /\ rows' = rows \cup {t}
        /\ \A s \in Tokens \ {t} : tok'[s] = tok[s]
        /\ tok'[t].origin = t
  BY IssueWrites DEF TypeInv
<1>2. now' = now /\ rows \subseteq issued /\ issued \subseteq Tokens
  BY DEF Issue, TypeInv, TypeOK
<1>3. Holding(t)' \subseteq {t}
  <2> SUFFICES ASSUME NEW x \in rows', x # t PROVE tok'[x].origin # t
    BY DEF Holding
  <2>1. QED
    BY <1>1, <1>2 DEF OriginsIssued
<1>4. \A x \in rows : Renewable(x)' <=> Renewable(x)
  <2> SUFFICES ASSUME NEW x \in rows PROVE Renewable(x)' <=> Renewable(x)
    OBVIOUS
  <2>1. tok'[x] = tok[x] /\ x \in rows'
    BY <1>1, <1>2
  <2>2. Held(x)' <=> Held(x)
    BY DEF Held, OwnStep, Issue, Claim
  <2>3. QED
    BY <1>2, <2>1, <2>2 DEF Renewable, Unrevoked
<1>5. \A s \in Tokens \ {t} : Holding(s)' = Holding(s)
  <2> SUFFICES ASSUME NEW s \in Tokens \ {t}, NEW x \in Tokens
               PROVE  x \in Holding(s)' <=> x \in Holding(s)
    BY <1>1, <1>2 DEF Holding
  <2>1. CASE x = t
    BY <1>1, <1>2, <2>1 DEF Holding
  <2>2. CASE x # t
    BY <1>1, <1>4, <2>2 DEF Holding
  <2>3. QED
    BY <2>1, <2>2
<1>6. \E h \in {t, None} : Holder' = [Holder EXCEPT ![t] = h]
  BY <1>3, <1>5, HolderMoves
<1>7. t \notin Started /\ Started' = Started \cup {t}
  BY <1>1, <1>2 DEF Started
<1>8. QED
  BY <1>1, <1>6, <1>7 DEF Abstract!Next, Abstract!Start

\* A rotation exchanges a session's token for one never issued before.
LEMMA RotateRenews ==
    ASSUME TypeInv, TypeInv', OriginsIssued, HolderNames, HolderNames',
           OneTokenPerSession', NEW r \in Requests, OwnStep(r), Rotate(r)
    PROVE  Abstract!Next
<1> DEFINE old == req[r].token
<1>1. /\ old \in rows /\ old \in Tokens /\ old \in issued /\ rows \subseteq issued
      /\ Unrevoked(old) /\ Held(old) /\ Holds(r) /\ now' = now /\ issued \subseteq Tokens
  BY DEF TypeInv, TypeOK, HoldsRows, Holds, Rotate, Unrevoked, Held
<1>2. PICK new \in Tokens \ issued :
        /\ issued' = issued \cup {new} /\ rows' = rows \cup {new}
        /\ \A s \in Tokens \ {old, new} : tok'[s] = tok[s]
        /\ tok'[new].revokedAt = None /\ tok'[new].origin = tok[old].origin
        /\ tok'[old].revokedAt # None /\ tok'[old].origin = tok[old].origin
  BY <1>1, RotateWrites DEF TypeInv
<1>3. PICK s \in Tokens : s = tok[old].origin /\ s \in issued /\ old \in Holding(s)
  BY <1>1 DEF OriginsIssued, Holding, Renewable
<1>4. \A x \in Tokens \ {old} : Held(x)' <=> Held(x)
  BY DEF Held, OwnStep, Rotate, Claim
<1> HIDE DEF old
<1>5. Holding(s)' \subseteq {new}
  <2> SUFFICES ASSUME NEW x \in Holding(s)' PROVE x = new
    OBVIOUS
  <2>1. x \in rows' /\ Unrevoked(x)' /\ tok'[x].origin = tok'[new].origin
    BY <1>2, <1>3 DEF Holding, Renewable
  <2>2. new \in rows' /\ Unrevoked(new)'
    BY <1>2 DEF Unrevoked
  <2>3. QED
    BY <2>1, <2>2 DEF OneTokenPerSession
<1>6. \A x \in Tokens \ {s} : Holding(x)' = Holding(x)
  <2> SUFFICES ASSUME NEW x \in Tokens \ {s}, NEW t \in Tokens
               PROVE  t \in Holding(x)' <=> t \in Holding(x)
    BY <1>1, <1>2 DEF Holding
  <2>1. CASE t = new
    BY <2>1, <1>1, <1>2, <1>3 DEF Holding
  <2>2. CASE t = old
    BY <2>2, <1>2, <1>3 DEF Holding
  <2>3. CASE t \notin {old, new}
    BY <2>3, <1>1, <1>2, <1>4 DEF Holding, Renewable, Unrevoked
  <2>4. QED
    BY <2>1, <2>2, <2>3
<1>7. \E h \in {new, None} : Holder' = [Holder EXCEPT ![s] = h]
  BY <1>5, <1>6, HolderMoves
<1>8. Holder[s] # None
  BY <1>1, <1>3, NoneAssumption DEF HolderNames
<1>9. Started' = Started
  <2> SUFFICES ASSUME NEW t \in Tokens PROVE t \in Started' <=> t \in Started
    BY <1>1, <1>2 DEF Started
  <2>1. CASE t = new
    BY <2>1, <1>2, <1>3 DEF Started
  <2>2. CASE t # new
    BY <2>2, <1>1, <1>2 DEF Started
  <2>3. QED
    BY <2>1, <2>2
<1>10. QED
  BY <1>2, <1>3, <1>7, <1>8, <1>9 DEF Abstract!Next, Abstract!Renew

\* The token store implements the abstract sessions: a session starts once,
\* holds one credential, exchanges it for fresh ones, and once ended (logged
\* out, swept, purged, deleted with its user, or expired with no rotation
\* under way that found it in time) never comes back.
THEOREM StoreImplementsSessions == Spec => ImplementsSessions
<1>1. Init => Abstract!Init
  BY DEF Init, Abstract!Init, Started, Holder, Holding
<1>2. TypeInv /\ TypeInv' /\ OneTokenPerSession /\ OneTokenPerSession' /\ OriginsIssued
      /\ HolderNames /\ HolderNames' /\ [Next]_vars => [Abstract!Next]_(Abstract!vars)
  BY NextShape, RetiresEnds, IssueStarts, RotateRenews DEF TypeInv
<1>3. Spec => []OriginsIssued
  <2>1. Init => OriginsIssued /\ OneTokenPerSession
    BY DEF Init, OriginsIssued, OneTokenPerSession
  <2>2. TypeInv /\ OneTokenPerSession /\ OriginsIssued /\ [Next]_vars => OriginsIssued'
    BY NextKeepsOne
  <2>3. QED
    BY <2>1, <2>2, TypeInvCorrect, OneTokenPerSessionHolds, PTL DEF Spec
<1>4. QED
  BY <1>1, <1>2, <1>3, TypeInvCorrect, OneTokenPerSessionHolds, HolderIsLive, PTL
     DEF Spec, ImplementsSessions, Abstract!Spec
=============================================================================
