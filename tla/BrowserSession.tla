---------------------------- MODULE BrowserSession ----------------------------
(***************************************************************************)
(* One browser's session: the cookie jar its tabs share, the cross-tab      *)
(* refresh lock (Web Locks, first come first served) and the refresh,       *)
(* teardown, logout and login of frontend/src/lib/api.ts and               *)
(* auth-context.tsx, against the auth endpoints of the server.              *)
(*                                                                         *)
(* A POST is three steps: it is sent with the cookie of that moment, the    *)
(* server handles it, and its answer lands in the jar.  A fetch under the   *)
(* lock may time out at any point; the server may handle it all the same    *)
(* (orphans), but then its cookies never land.  The token store is the      *)
(* verified one of RefreshTokens, reduced to what a browser can tell apart. *)
(***************************************************************************)
EXTENDS Naturals, Sequences

CONSTANTS
    Tabs,      \* tabs of one browser profile
    MaxToken,  \* bound: the server issues refresh tokens 1 .. MaxToken
    WebLocks   \* whether the browser has navigator.locks

ASSUME BrowserAssumption == MaxToken \in Nat \ {0} /\ WebLocks \in BOOLEAN

VARIABLES
    jar,      \* the cookies: refresh token (0: none), access valid, session_present
    queue,    \* tabs that hold (the head) or wait for the refresh lock
    tab,      \* tab[i]: the page it shows, its activity, its POST
    store,    \* store[t]: what the server thinks of token t
    orphans,  \* POSTs whose tab gave up, which may still reach the server
    lost,     \* ghost: has a refresh been given up on?
    replayed  \* ghost: has the server taken a rotated token for a theft?

vars == <<jar, queue, tab, store, orphans, lost, replayed>>

Token == 1 .. MaxToken
NoToken == 0
Unanswered == MaxToken + 1
Rejected == MaxToken + 2

\* Every tab is in one of its activities, and the jar holds one issued
\* refresh token or none, whatever the tabs' answers overwrite.
TypeOK ==
    /\ jar \in [refresh : Token \cup {NoToken}, access : BOOLEAN, hint : BOOLEAN]
    /\ queue \in Seq(Tabs)
    /\ tab \in [Tabs -> [at : {"page", "login"},
                         pc : {"idle", "waiting", "refreshing", "adopting", "condemned",
                               "leaving", "loggingOut", "loggingIn"},
                         teardown : BOOLEAN,
                         sent : Token \cup {NoToken},
                         reply : Token \cup {NoToken, Unanswered, Rejected}]]
    /\ store \in [Token -> {"unused", "live", "rotated", "revoked", "expired"}]
    /\ orphans \subseteq [pc : {"refreshing", "loggingOut"}, sent : Token]
    /\ lost \in BOOLEAN /\ replayed \in BOOLEAN

Resting(at) == [at |-> at, pc |-> "idle", teardown |-> FALSE,
                sent |-> NoToken, reply |-> Unanswered]
Cookies(t) == [refresh |-> t, access |-> TRUE, hint |-> TRUE]
NoCookies == [refresh |-> NoToken, access |-> FALSE, hint |-> FALSE]

Init ==
    /\ jar = [Cookies(1) EXCEPT !.access = FALSE]
    /\ queue = <<>>
    /\ tab = [i \in Tabs |-> Resting("page")]
    /\ store = [t \in Token |-> IF t = 1 THEN "live" ELSE "unused"]
    /\ orphans = {} /\ lost = FALSE /\ replayed = FALSE

-----------------------------------------------------------------------------
(* The lock.  Without Web Locks every request is granted at once.           *)

\* Mutated form: every request is granted at once.
NoLock(i) == TRUE

Enqueue(i) == IF WebLocks THEN Append(queue, i) ELSE queue
Turn(i) == WebLocks => queue # <<>> /\ Head(queue) = i
Release == IF WebLocks THEN Tail(queue) ELSE queue

Rest(i, at) == tab' = [tab EXCEPT ![i] = Resting(at)]

Post(i, pc) == tab' = [tab EXCEPT ![i].pc = pc, ![i].sent = jar.refresh,
                                  ![i].reply = Unanswered]

-----------------------------------------------------------------------------
(* Refresh.  A call answered 401 shares the tab's one refresh.  The lock is *)
(* taken if it is free; a tab that had to wait asks /users/me first.        *)

StartRefresh(i) ==
    /\ tab[i].pc = "idle"
    /\ ~jar.access
    /\ queue' = Enqueue(i)
    /\ IF WebLocks /\ queue # <<>>
       THEN tab' = [tab EXCEPT ![i].pc = "waiting"]
       ELSE Post(i, "refreshing")
    /\ UNCHANGED <<jar, store, orphans, lost, replayed>>

\* refreshedElsewhere may also fail for want of a network.
AdoptBeforeRefresh(i) ==
    /\ tab[i].pc = "waiting"
    /\ Turn(i)
    /\ jar.access
    /\ Rest(i, tab[i].at)
    /\ queue' = Release
    /\ UNCHANGED <<jar, store, orphans, lost, replayed>>

RefreshAfterWait(i) ==
    /\ tab[i].pc = "waiting"
    /\ Turn(i)
    /\ Post(i, "refreshing")
    /\ UNCHANGED <<jar, queue, store, orphans, lost, replayed>>

\* Mutated form: any answer is taken for a success.
AnyAnswer(i) == tab[i].reply # Unanswered

Succeeded(i) == tab[i].reply \in Token

RefreshLands(i) ==
    /\ tab[i].pc = "refreshing"
    /\ Succeeded(i)
    /\ jar' = Cookies(tab[i].reply)
    /\ Rest(i, tab[i].at)
    /\ queue' = Release
    /\ UNCHANGED <<store, orphans, lost, replayed>>

RefreshRejected(i) ==
    /\ tab[i].pc = "refreshing"
    /\ tab[i].reply = Rejected
    /\ tab' = [tab EXCEPT ![i].pc = "adopting"]
    /\ UNCHANGED <<jar, queue, store, orphans, lost, replayed>>

\* A rejection counts only when /users/me fails too.  Hydration on a public
\* page ends the session only if the hint says that there was one.
AdoptOrCondemn(i) ==
    /\ tab[i].pc = "adopting"
    /\ \/ jar.access /\ Rest(i, tab[i].at)
       \/ /\ tab[i].at = "login" /\ ~jar.hint
          /\ Rest(i, "login")
       \/ /\ tab[i].at = "login" => jar.hint
          /\ tab' = [tab EXCEPT ![i].pc = "condemned"]
    /\ queue' = Release
    /\ UNCHANGED <<jar, store, orphans, lost, replayed>>

-----------------------------------------------------------------------------
(* Logout, by the user or by endDeadSession's teardown.                     *)

Teardown(i) ==
    /\ tab[i].pc = "condemned"
    /\ tab' = [tab EXCEPT ![i].pc = "leaving", ![i].teardown = TRUE]
    /\ queue' = Enqueue(i)
    /\ UNCHANGED <<jar, store, orphans, lost, replayed>>

Logout(i) ==
    /\ tab[i].pc = "idle" /\ tab[i].at = "page"
    /\ tab' = [tab EXCEPT ![i].pc = "leaving"]
    /\ queue' = Enqueue(i)
    /\ UNCHANGED <<jar, store, orphans, lost, replayed>>

SendLogout(i) ==
    /\ tab[i].pc = "leaving"
    /\ Turn(i)
    /\ Post(i, "loggingOut")
    /\ UNCHANGED <<jar, queue, store, orphans, lost, replayed>>

LogoutLands(i) ==
    /\ tab[i].pc = "loggingOut"
    /\ tab[i].reply = Rejected
    /\ jar' = NoCookies
    /\ Rest(i, "login")
    /\ queue' = Release
    /\ UNCHANGED <<store, orphans, lost, replayed>>

-----------------------------------------------------------------------------
(* Giving up.  REFRESH_FETCH_TIMEOUT_MS aborts a fetch under the lock; a    *)
(* throttled or failed answer ends the same way.                            *)

\* Mutated forms: a teardown that leaves the hint to the server, and a fetch
\* under the lock that is never aborted.
KeepHint == jar
NeverAborted == {}

ExpireHint == [jar EXCEPT !.hint = FALSE]
Abortable == {"refreshing", "loggingOut"}

Timeout(i) ==
    /\ tab[i].pc \in Abortable
    /\ orphans' = IF tab[i].reply = Unanswered /\ tab[i].sent # NoToken
                  THEN orphans \cup {[pc |-> tab[i].pc, sent |-> tab[i].sent]}
                  ELSE orphans
    /\ lost' = (lost \/ tab[i].pc = "refreshing")
    /\ queue' = Release
    /\ IF tab[i].teardown THEN jar' = ExpireHint /\ Rest(i, "login")
                          ELSE jar' = jar /\ Rest(i, tab[i].at)
    /\ UNCHANGED <<store, replayed>>

-----------------------------------------------------------------------------
(* Login is not under the lock, and the middleware acts on the hint.        *)

SendLogin(i) ==
    /\ tab[i].pc = "idle" /\ tab[i].at = "login"
    /\ Post(i, "loggingIn")
    /\ UNCHANGED <<jar, queue, store, orphans, lost, replayed>>

LoginLands(i) ==
    /\ tab[i].pc = "loggingIn"
    /\ tab[i].reply \in Token
    /\ jar' = Cookies(tab[i].reply)
    /\ Rest(i, "page")
    /\ UNCHANGED <<queue, store, orphans, lost, replayed>>

Navigate(i) ==
    /\ tab[i].pc = "idle"
    /\ tab[i].at = "page" <=> ~jar.hint
    /\ Rest(i, IF jar.hint THEN "page" ELSE "login")
    /\ UNCHANGED <<jar, queue, store, orphans, lost, replayed>>

AccessExpires ==
    /\ jar.access
    /\ jar' = [jar EXCEPT !.access = FALSE]
    /\ UNCHANGED <<queue, tab, store, orphans, lost, replayed>>

-----------------------------------------------------------------------------
(* The server.                                                             *)

Live == {t \in Token : store[t] = "live"}
NextUnused == {t \in Token : store[t] = "unused" /\ \A u \in 1 .. t - 1 : store[u] # "unused"}
RevokeAll == [t \in Token |-> IF t \in Live THEN "revoked" ELSE store[t]]

\* One POST /auth/refresh with token t, and the answer it gets.  A rotated
\* token is refused inside the grace window and swept outside it, which is
\* a matter of time that the model leaves open.
Rotates(t, answer) ==
    \/ /\ t \in Live
       /\ answer \in NextUnused
       /\ store' = [store EXCEPT ![t] = "rotated", ![answer] = "live"]
       /\ UNCHANGED replayed
    \/ /\ t = NoToken \/ (t # NoToken /\ store[t] \in {"rotated", "expired"})
       /\ answer = Rejected
       /\ UNCHANGED <<store, replayed>>
    \/ /\ t # NoToken /\ store[t] \in {"rotated", "revoked"}
       /\ answer = Rejected
       /\ store' = RevokeAll
       /\ replayed' = (replayed \/ store[t] = "rotated")

Revokes(t) ==
    /\ store' = IF t \in Live THEN [store EXCEPT ![t] = "revoked"] ELSE store
    /\ UNCHANGED replayed

Answer(i, reply) == tab' = [tab EXCEPT ![i].reply = reply, ![i].sent = NoToken]

ServeRefresh(i) ==
    /\ tab[i].pc = "refreshing" /\ tab[i].reply = Unanswered
    /\ \E answer \in Token \cup {Rejected} :
         /\ Rotates(tab[i].sent, answer)
         /\ Answer(i, answer)
    /\ UNCHANGED <<jar, queue, orphans, lost>>

\* The answer clears all four cookies, whatever was revoked.
ServeLogout(i) ==
    /\ tab[i].pc = "loggingOut" /\ tab[i].reply = Unanswered
    /\ Revokes(tab[i].sent)
    /\ Answer(i, Rejected)
    /\ UNCHANGED <<jar, queue, orphans, lost>>

ServeLogin(i) ==
    /\ tab[i].pc = "loggingIn" /\ tab[i].reply = Unanswered
    /\ \E t \in NextUnused : /\ store' = [store EXCEPT ![t] = "live"]
                         /\ Answer(i, t)
    /\ UNCHANGED <<jar, queue, orphans, lost, replayed>>

\* The login failed or its answer never came.
LoginFails(i) ==
    /\ tab[i].pc = "loggingIn"
    /\ Rest(i, "login")
    /\ UNCHANGED <<jar, queue, store, orphans, lost, replayed>>

ServeOrphan ==
    \E o \in orphans :
        /\ orphans' = orphans \ {o}
        /\ \/ o.pc = "refreshing" /\ \E answer \in Token \cup {Rejected} :
                                        Rotates(o.sent, answer)
           \/ o.pc = "loggingOut" /\ Revokes(o.sent)
        /\ UNCHANGED <<jar, queue, tab, lost>>

\* The session ends elsewhere: a password change, an admin, or its age.
EndElsewhere ==
    /\ Live # {}
    /\ \E how \in {"revoked", "expired"} :
         store' = [t \in Token |-> IF t \in Live THEN how ELSE store[t]]
    /\ UNCHANGED <<jar, queue, tab, orphans, lost, replayed>>

-----------------------------------------------------------------------------
\* What tab i does on its own, with no user and no server.
Proceed(i) ==
    \/ AdoptBeforeRefresh(i) \/ RefreshAfterWait(i) \/ RefreshRejected(i)
    \/ AdoptOrCondemn(i) \/ Teardown(i) \/ SendLogout(i) \/ Timeout(i)

Next ==
    \/ \E i \in Tabs :
         \/ StartRefresh(i) \/ RefreshLands(i) \/ Proceed(i)
         \/ Logout(i) \/ LogoutLands(i)
         \/ SendLogin(i) \/ LoginLands(i) \/ LoginFails(i) \/ Navigate(i)
         \/ ServeRefresh(i) \/ ServeLogout(i) \/ ServeLogin(i)
    \/ ServeOrphan \/ EndElsewhere \/ AccessExpires

Spec == Init /\ [][Next]_vars

\* Tabs run and fetches time out; no answer is promised.
TabFairness == \A i \in Tabs : WF_vars(Proceed(i))
FairSpec == Spec /\ TabFairness

-----------------------------------------------------------------------------
(* Properties.                                                             *)

\* logout: "no refresh can land fresh cookies after the server has cleared
\* them".  An empty jar is filled by a login and by nothing else.
OnlyLoginFillsJar ==
    [][jar.refresh = NoToken /\ jar'.refresh # NoToken =>
         \E i \in Tabs : LoginLands(i)]_vars

\* The lock makes one POST per browser the rule, so the server sees a
\* rotated token again only when the answer that replaced it was lost.
ReplayOnlyAfterLoss == replayed => lost

\* "A hung request would otherwise hold the lock and stall refresh and logout
\* in every tab": every refresh and logout ends.
ActivityEnds ==
    \A i \in Tabs :
        tab[i].pc \notin {"idle", "loggingIn"} ~> tab[i].pc \in {"idle", "loggingIn"}

\* The pages keep calling the API, access tokens expire, and a refresh that
\* is tried again and again is at last answered.  Of a logout nothing is
\* asked: the throttle may refuse it for ever.
InUse ==
    /\ WF_vars(AccessExpires)
    /\ SF_vars(\E i \in Tabs : StartRefresh(i))
    /\ SF_vars(\E i \in Tabs : ServeRefresh(i))
    /\ SF_vars(\E i \in Tabs : RefreshLands(i) \/ RefreshRejected(i))

\* A session the server has ended does not leave the tabs bouncing between
\* /login and the app (VEG-419): while they are in use the hint goes, even if
\* no logout gets through.
DeadSessionLosesHint == InUse => (Live = {} ~> (~jar.hint \/ Live # {}))
=============================================================================
