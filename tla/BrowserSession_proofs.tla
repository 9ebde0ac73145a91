------------------------- MODULE BrowserSession_proofs -------------------------
(***************************************************************************)
(* With Web Locks, tabs never present a rotated token unless a refresh was  *)
(* given up on, and only a login fills an empty jar.  Both rest on the lock *)
(* (at most one tab refreshes, and it is the head of the queue) and on each *)
(* refresh token being in one place: the jar, or one answer on its way.     *)
(***************************************************************************)
EXTENDS BrowserSession, SequenceTheorems, TLAPS

Pcs == {"idle", "waiting", "refreshing", "adopting", "condemned", "leaving",
        "loggingOut", "loggingIn"}
Replies == Token \cup {NoToken, Unanswered, Rejected}
Records == [at : {"page", "login"}, pc : Pcs, teardown : BOOLEAN,
            sent : Token \cup {NoToken}, reply : Replies]

\* What a tab does while it is in the queue, and while it is its head.
Locking == {"waiting", "refreshing", "adopting", "leaving", "loggingOut"}
Holding == {"refreshing", "adopting", "loggingOut"}

LockInv ==
    WebLocks =>
      /\ \A m, n \in 1..Len(queue) : queue[m] = queue[n] => m = n
      /\ \A n \in 1..Len(queue) : tab[queue[n]].pc \in Locking
      /\ \A i \in Tabs : tab[i].pc \in Holding => queue # <<>> /\ queue[1] = i

\* A refresh the server has yet to answer, and an answer with a token.
Asking(i) == tab[i].pc = "refreshing" /\ tab[i].reply = Unanswered
Bringing(i) == tab[i].pc \in {"refreshing", "loggingIn"} /\ tab[i].reply \in Token

\* A token in use has been issued, and is in one place.
Issued(t) == t = NoToken \/ store[t] # "unused"

OnePlace ==
    /\ Issued(jar.refresh)
    /\ \A o \in orphans : Issued(o.sent)
    /\ \A i \in Tabs : Issued(tab[i].sent)
    /\ \A i \in Tabs : Bringing(i) =>
         /\ store[tab[i].reply] \notin {"unused", "rotated"}
         /\ tab[i].reply # jar.refresh
         /\ \A j \in Tabs : Asking(j) => tab[i].reply # tab[j].sent
         /\ \A j \in Tabs \ {i} : Bringing(j) => tab[i].reply # tab[j].reply

\* A rotated token stays in the jar only until the answer that replaces it
\* lands, and none is on its way to the server.
Fresh ==
    /\ ~replayed
    /\ \A o \in orphans : o.pc # "refreshing"
    /\ \A i \in Tabs : Asking(i) /\ tab[i].sent # NoToken => store[tab[i].sent] # "rotated"
    /\ jar.refresh # NoToken /\ store[jar.refresh] = "rotated" =>
         \E i \in Tabs : Bringing(i) /\ tab[i].pc = "refreshing"

\* A refresh that can still bring a token left a token in the jar.
Filled ==
    \A i \in Tabs :
      /\ Bringing(i) /\ tab[i].pc = "refreshing" => jar.refresh # NoToken
      /\ Asking(i) /\ tab[i].sent # NoToken => jar.refresh # NoToken

Safe == ~lost => OnePlace /\ Fresh
IInv == TypeOK /\ LockInv /\ (WebLocks => Safe /\ Filled)

-----------------------------------------------------------------------------
LEMMA Numbers ==
    /\ NoToken \notin Token /\ Unanswered \notin Token \cup {NoToken}
    /\ Rejected \notin Token \cup {NoToken, Unanswered}
    /\ 1 \in Token
  BY BrowserAssumption DEF NoToken, Unanswered, Rejected, Token

\* A tab's record is replaced, and those of the others stay.
LEMMA OneTab ==
    ASSUME TypeOK, NEW i \in Tabs, NEW rec \in Records, tab' = [tab EXCEPT ![i] = rec]
    PROVE  /\ tab' \in [Tabs -> Records] /\ tab'[i] = rec
           /\ \A j \in Tabs \ {i} : tab'[j] = tab[j]
  BY DEF TypeOK, Records, Pcs, Replies

LEMMA RestShape ==
    ASSUME TypeOK, NEW i \in Tabs, NEW at \in {"page", "login"}, Rest(i, at)
    PROVE  /\ tab' \in [Tabs -> Records]
           /\ tab'[i].pc = "idle" /\ tab'[i].sent = NoToken
           /\ \A j \in Tabs \ {i} : tab'[j] = tab[j]
<1> DEFINE rec == [at |-> at, pc |-> "idle", teardown |-> FALSE,
                   sent |-> NoToken, reply |-> Unanswered]
<1>1. rec \in Records /\ rec.pc = "idle" /\ rec.sent = NoToken
  BY DEF Records, Pcs, Replies
<1>2. tab' = [tab EXCEPT ![i] = rec]
  BY DEF Rest, Resting
<1> HIDE DEF rec
<1> QED
  BY <1>1, <1>2, OneTab

LEMMA PostShape ==
    ASSUME TypeOK, NEW i \in Tabs, NEW pc \in Pcs, Post(i, pc)
    PROVE  /\ tab' \in [Tabs -> Records]
           /\ tab'[i].pc = pc /\ tab'[i].sent = jar.refresh /\ tab'[i].reply = Unanswered
           /\ \A j \in Tabs \ {i} : tab'[j] = tab[j]
<1> DEFINE rec == [tab[i] EXCEPT !.pc = pc, !.sent = jar.refresh, !.reply = Unanswered]
<1>1. tab[i] \in Records /\ jar.refresh \in Token \cup {NoToken}
  BY DEF TypeOK, Records, Pcs, Replies
<1>2. rec \in Records /\ rec.pc = pc /\ rec.sent = jar.refresh /\ rec.reply = Unanswered
  BY <1>1 DEF Records, Replies
<1>3. tab' = [tab EXCEPT ![i] = rec]
  BY DEF Post
<1> HIDE DEF rec
<1> QED
  BY <1>2, <1>3, OneTab

LEMMA MoveShape ==
    ASSUME TypeOK, NEW i \in Tabs, NEW pc \in Pcs, tab' = [tab EXCEPT ![i].pc = pc]
    PROVE  /\ tab' \in [Tabs -> Records]
           /\ tab'[i].pc = pc /\ tab'[i].sent = tab[i].sent /\ tab'[i].reply = tab[i].reply
           /\ \A j \in Tabs \ {i} : tab'[j] = tab[j]
<1> DEFINE rec == [tab[i] EXCEPT !.pc = pc]
<1>1. tab[i] \in Records
  BY DEF TypeOK, Records, Pcs, Replies
<1>2. rec \in Records /\ rec.pc = pc /\ rec.sent = tab[i].sent /\ rec.reply = tab[i].reply
  BY <1>1 DEF Records
<1>3. tab' = [tab EXCEPT ![i] = rec]
  OBVIOUS
<1> HIDE DEF rec
<1> QED
  BY <1>2, <1>3, OneTab

LEMMA TeardownShape ==
    ASSUME TypeOK, NEW i \in Tabs, Teardown(i)
    PROVE  /\ tab' \in [Tabs -> Records]
           /\ tab'[i].pc = "leaving" /\ tab'[i].sent = tab[i].sent
           /\ \A j \in Tabs \ {i} : tab'[j] = tab[j]
<1> DEFINE rec == [tab[i] EXCEPT !.pc = "leaving", !.teardown = TRUE]
<1>1. tab[i] \in Records
  BY DEF TypeOK, Records, Pcs, Replies
<1>2. rec \in Records /\ rec.pc = "leaving" /\ rec.sent = tab[i].sent
  BY <1>1 DEF Records, Pcs
<1>3. tab' = [tab EXCEPT ![i] = rec]
  BY DEF Teardown
<1> HIDE DEF rec
<1> QED
  BY <1>2, <1>3, OneTab

LEMMA AnswerShape ==
    ASSUME TypeOK, NEW i \in Tabs, NEW reply \in Replies, Answer(i, reply)
    PROVE  /\ tab' \in [Tabs -> Records]
           /\ tab'[i].pc = tab[i].pc /\ tab'[i].sent = NoToken /\ tab'[i].reply = reply
           /\ \A j \in Tabs \ {i} : tab'[j] = tab[j]
<1> DEFINE rec == [tab[i] EXCEPT !.reply = reply, !.sent = NoToken]
<1>1. tab[i] \in Records
  BY DEF TypeOK, Records, Pcs, Replies
<1>2. rec \in Records /\ rec.pc = tab[i].pc /\ rec.sent = NoToken /\ rec.reply = reply
  BY <1>1 DEF Records
<1>3. tab' = [tab EXCEPT ![i] = rec]
  BY DEF Answer
<1> HIDE DEF rec
<1> QED
  BY <1>2, <1>3, OneTab

-----------------------------------------------------------------------------
\* Four steps of the queue: none, a tab enters, the head leaves, the head goes on.
LEMMA QueueStays ==
    ASSUME TypeOK, LockInv, NEW i \in Tabs, queue' = queue,
           \A j \in Tabs \ {i} : tab'[j] = tab[j],
           \/ tab[i].pc \notin Locking /\ tab'[i].pc \notin Locking
           \/ tab'[i].pc \in Locking /\ (WebLocks => queue # <<>> /\ queue[1] = i)
    PROVE  LockInv' /\ queue' \in Seq(Tabs)
<1>1. queue \in Seq(Tabs)
  BY DEF TypeOK
<1> SUFFICES ASSUME WebLocks PROVE LockInv'
  BY <1>1 DEF LockInv
<1>2. \A n \in 1..Len(queue) : queue[n] \in Tabs
  BY <1>1
<1> QED
  BY <1>1, <1>2 DEF LockInv, Locking, Holding

LEMMA QueueGrows ==
    ASSUME TypeOK, LockInv, NEW i \in Tabs, queue' = Enqueue(i),
           \A j \in Tabs \ {i} : tab'[j] = tab[j],
           tab[i].pc \notin Locking, tab'[i].pc \in Locking,
           WebLocks /\ tab'[i].pc \in Holding => queue = <<>>
    PROVE  LockInv' /\ queue' \in Seq(Tabs)
<1>1. queue \in Seq(Tabs)
  BY DEF TypeOK
<1>2. CASE ~WebLocks
  BY <1>1, <1>2 DEF Enqueue, LockInv
<1>3. CASE WebLocks
  <2>1. /\ queue' \in Seq(Tabs) /\ Len(queue') = Len(queue) + 1
        /\ \A n \in 1..Len(queue) : queue'[n] = queue[n]
        /\ queue'[Len(queue) + 1] = i /\ queue' # <<>>
    BY <1>1, <1>3, AppendProperties DEF Enqueue
  <2>2. Len(queue) \in Nat /\ (queue # <<>> => 1 \in 1..Len(queue))
        /\ \A n \in 1..Len(queue) : queue[n] \in Tabs /\ queue[n] # i
    BY <1>1, <1>3, LenProperties, EmptySeq DEF LockInv
  <2>3. \A n \in 1..Len(queue)' : n = Len(queue) + 1 \/ n \in 1..Len(queue)
    BY <2>1, <2>2
  <2>4. (\A m, n \in 1..Len(queue) : queue[m] = queue[n] => m = n)'
    BY <1>3, <2>1, <2>2, <2>3 DEF LockInv
  <2>5. (\A n \in 1..Len(queue) : tab[queue[n]].pc \in Locking)'
    BY <1>3, <2>1, <2>2, <2>3 DEF LockInv
  <2>6. ASSUME NEW j \in Tabs, tab'[j].pc \in Holding
        PROVE  queue' # <<>> /\ queue'[1] = j
    <3>1. CASE j = i
      <4>1. queue = <<>>
        BY <1>3, <2>6, <3>1
      <4> QED
        BY <2>1, <3>1, <4>1
    <3>2. CASE j # i
      BY <1>3, <2>1, <2>2, <2>6, <3>2 DEF LockInv
    <3> QED
      BY <3>1, <3>2
  <2> QED
    BY <2>1, <2>4, <2>5, <2>6 DEF LockInv
<1> QED
  BY <1>2, <1>3

LEMMA QueueShrinks ==
    ASSUME TypeOK, LockInv, NEW i \in Tabs, queue' = Release,
           \A j \in Tabs \ {i} : tab'[j] = tab[j],
           tab'[i].pc \notin Locking,
           WebLocks => queue # <<>> /\ queue[1] = i
    PROVE  LockInv' /\ queue' \in Seq(Tabs)
<1>1. queue \in Seq(Tabs)
  BY DEF TypeOK
<1>2. CASE ~WebLocks
  BY <1>1, <1>2 DEF Release, LockInv
<1>3. CASE WebLocks
  <2>1. /\ queue' \in Seq(Tabs) /\ Len(queue') = Len(queue) - 1
        /\ \A n \in 1..Len(queue') : queue'[n] = queue[n + 1]
    BY <1>1, <1>3, HeadTailProperties DEF Release
  <2>2. Len(queue) \in Nat /\ Len(queue) # 0
        /\ \A n \in 1..Len(queue) : queue[n] \in Tabs /\ (n # 1 => queue[n] # i)
    BY <1>1, <1>3, LenProperties, EmptySeq DEF LockInv
  <2>3. \A n \in 1..Len(queue') : n + 1 \in 1..Len(queue) /\ n + 1 # 1
    BY <2>1, <2>2
  <2>4. (\A m, n \in 1..Len(queue) : queue[m] = queue[n] => m = n)'
    BY <1>3, <2>1, <2>2, <2>3 DEF LockInv
  <2>5. (\A n \in 1..Len(queue) : tab[queue[n]].pc \in Locking)'
    BY <1>3, <2>1, <2>2, <2>3 DEF LockInv
  <2>6. \A j \in Tabs : tab'[j].pc \notin Holding
    BY <1>3 DEF LockInv, Locking, Holding
  <2> QED
    BY <2>1, <2>4, <2>5, <2>6 DEF LockInv
<1> QED
  BY <1>2, <1>3

-----------------------------------------------------------------------------
JarType == [refresh : Token \cup {NoToken}, access : BOOLEAN, hint : BOOLEAN]
StoreType == [Token -> {"unused", "live", "rotated", "revoked", "expired"}]

LEMMA Jars ==
    /\ NoCookies \in JarType /\ NoCookies.refresh = NoToken
    /\ \A t \in Token : Cookies(t) \in JarType /\ Cookies(t).refresh = t
  BY DEF NoCookies, Cookies, JarType

\* What a refresh, a logout and the end of a session do to the store.
LEMMA Stores ==
    ASSUME store \in StoreType
    PROVE  /\ RevokeAll \in StoreType
           /\ \A t \in Token \cup {NoToken} : Revokes(t) => store' \in StoreType
           /\ \A t \in Token \cup {NoToken}, answer \in Token \cup {Rejected} :
                Rotates(t, answer) /\ replayed \in BOOLEAN
                  => store' \in StoreType /\ replayed' \in BOOLEAN
           /\ \A t \in NextUnused :
                store' = [store EXCEPT ![t] = "live"] => store' \in StoreType
<1>1. RevokeAll \in StoreType
  BY DEF RevokeAll, StoreType, Live
<1>2. ASSUME NEW t \in Token \cup {NoToken}, Revokes(t) PROVE store' \in StoreType
  BY <1>2 DEF Revokes, StoreType, Live
<1>3. ASSUME NEW t \in Token \cup {NoToken}, NEW answer \in Token \cup {Rejected},
             Rotates(t, answer), replayed \in BOOLEAN
      PROVE  store' \in StoreType /\ replayed' \in BOOLEAN
  <2>1. store' \in StoreType
    BY <1>1, <1>3 DEF Rotates, StoreType, Live, NextUnused
  <2>2. replayed' \in BOOLEAN
    BY <1>3, Zenon DEF Rotates
  <2> QED
    BY <2>1, <2>2
<1>4. ASSUME NEW t \in NextUnused, store' = [store EXCEPT ![t] = "live"]
      PROVE  store' \in StoreType
  BY <1>4 DEF NextUnused, StoreType
<1> QED
  BY <1>1, <1>2, <1>3, <1>4

\* One step of one tab, or the server's answer to it.
Acts(i) ==
    \/ StartRefresh(i) \/ RefreshLands(i) \/ Proceed(i)
    \/ Logout(i) \/ LogoutLands(i)
    \/ SendLogin(i) \/ LoginLands(i) \/ LoginFails(i) \/ Navigate(i)
    \/ ServeRefresh(i) \/ ServeLogout(i) \/ ServeLogin(i)

\* The head of the queue, and who holds the lock.
LEMMA HeadHolds ==
    ASSUME TypeOK, LockInv, NEW i \in Tabs,
           tab[i].pc \in Holding \/ Turn(i)
    PROVE  WebLocks => /\ queue # <<>> /\ queue[1] = i
                       /\ \A j \in Tabs \ {i} : tab[j].pc \notin Holding
  BY DEF LockInv, Turn, TypeOK

LEMMA ActsKeepLock ==
    ASSUME TypeOK, LockInv, NEW i \in Tabs, Acts(i)
    PROVE  TypeOK' /\ LockInv'
<1> DEFINE Tabbed == tab' \in [Tabs -> Records]
           Queued == LockInv' /\ queue' \in Seq(Tabs)
           Others == /\ jar' \in JarType /\ store' \in StoreType
                     /\ orphans' \subseteq [pc : {"refreshing", "loggingOut"}, sent : Token]
                     /\ lost' \in BOOLEAN /\ replayed' \in BOOLEAN
<1>1. /\ jar \in JarType /\ store \in StoreType /\ jar.refresh \in Token \cup {NoToken}
      /\ orphans \subseteq [pc : {"refreshing", "loggingOut"}, sent : Token]
      /\ lost \in BOOLEAN /\ replayed \in BOOLEAN
      /\ tab[i] \in Records /\ tab[i].at \in {"page", "login"}
      /\ tab[i].sent \in Token \cup {NoToken} /\ tab[i].reply \in Replies
  BY DEF TypeOK, JarType, StoreType, Records, Pcs, Replies
<1>2. SUFFICES Tabbed /\ Queued /\ Others
  BY DEF TypeOK, JarType, StoreType, Records, Pcs, Replies
<1>3. ASSUME UNCHANGED <<jar, store, orphans, lost, replayed>> PROVE Others
  BY <1>1, <1>3
<1>4. CASE StartRefresh(i)
  <2>1. tab[i].pc = "idle" /\ queue' = Enqueue(i)
    BY <1>4 DEF StartRefresh
  <2>2. CASE WebLocks /\ queue # <<>>
    <3>1. tab' = [tab EXCEPT ![i].pc = "waiting"]
      BY <1>4, <2>2 DEF StartRefresh
    <3>2. Tabbed /\ tab'[i].pc = "waiting" /\ \A j \in Tabs \ {i} : tab'[j] = tab[j]
      BY <3>1, MoveShape DEF Pcs
    <3>3. Queued
      BY <2>1, <3>2, QueueGrows DEF Locking, Holding
    <3> QED
      BY <1>3, <1>4, <3>2, <3>3 DEF StartRefresh
  <2>3. CASE ~(WebLocks /\ queue # <<>>)
    <3>1. Post(i, "refreshing")
      BY <1>4, <2>3 DEF StartRefresh
    <3>2. Tabbed /\ tab'[i].pc = "refreshing" /\ \A j \in Tabs \ {i} : tab'[j] = tab[j]
      BY <3>1, PostShape DEF Pcs
    <3>3. Queued
      BY <2>1, <2>3, <3>2, QueueGrows DEF Locking
    <3> QED
      BY <1>3, <1>4, <3>2, <3>3 DEF StartRefresh
  <2> QED
    BY <2>2, <2>3
<1>5. ASSUME NEW at \in {"page", "login"}, Rest(i, at),
             \/ queue' = Release /\ (tab[i].pc \in Holding \/ Turn(i))
             \/ queue' = queue /\ tab[i].pc \notin Locking
      PROVE  Tabbed /\ Queued
  <2>1. Tabbed /\ tab'[i].pc = "idle" /\ \A j \in Tabs \ {i} : tab'[j] = tab[j]
    BY <1>5, RestShape
  <2>2. CASE queue' = Release /\ (tab[i].pc \in Holding \/ Turn(i))
    BY <2>1, <2>2, HeadHolds, QueueShrinks DEF Locking
  <2>3. CASE queue' = queue /\ tab[i].pc \notin Locking
    BY <2>1, <2>3, QueueStays DEF Locking
  <2> QED
    BY <1>5, <2>1, <2>2, <2>3
<1>6. CASE AdoptBeforeRefresh(i)
  BY <1>1, <1>3, <1>5, <1>6 DEF AdoptBeforeRefresh
<1>7. CASE RefreshAfterWait(i)
  <2>1. Tabbed /\ tab'[i].pc = "refreshing" /\ \A j \in Tabs \ {i} : tab'[j] = tab[j]
    BY <1>7, PostShape DEF RefreshAfterWait, Pcs
  <2>2. Queued
    BY <1>7, <2>1, HeadHolds, QueueStays DEF RefreshAfterWait, Locking
  <2> QED
    BY <1>3, <1>7, <2>1, <2>2 DEF RefreshAfterWait
<1>8. CASE RefreshLands(i)
  <2>1. jar' \in JarType
    BY <1>8, Jars DEF RefreshLands, Succeeded
  <2>2. Tabbed /\ Queued
    BY <1>1, <1>5, <1>8 DEF RefreshLands, Holding
  <2> QED
    BY <1>1, <1>8, <2>1, <2>2 DEF RefreshLands
<1>9. CASE RefreshRejected(i)
  <2>1. Tabbed /\ tab'[i].pc = "adopting" /\ \A j \in Tabs \ {i} : tab'[j] = tab[j]
    BY <1>9, MoveShape DEF RefreshRejected, Pcs
  <2>2. tab[i].pc \in Holding
    BY <1>9 DEF RefreshRejected, Holding
  <2>3. Queued
    BY <1>9, <2>1, <2>2, HeadHolds, QueueStays DEF RefreshRejected, Locking
  <2> QED
    BY <1>3, <1>9, <2>1, <2>3 DEF RefreshRejected
<1>10. CASE AdoptOrCondemn(i)
  <2>1. tab[i].pc \in Holding /\ queue' = Release
    BY <1>10 DEF AdoptOrCondemn, Holding
  <2>2. CASE Rest(i, tab[i].at) \/ Rest(i, "login")
    BY <1>1, <1>3, <1>5, <1>10, <2>1, <2>2 DEF AdoptOrCondemn
  <2>3. CASE tab' = [tab EXCEPT ![i].pc = "condemned"]
    <3>1. Tabbed /\ tab'[i].pc = "condemned" /\ \A j \in Tabs \ {i} : tab'[j] = tab[j]
      BY <2>3, MoveShape DEF Pcs
    <3>2. Queued
      BY <2>1, <3>1, HeadHolds, QueueShrinks DEF Locking
    <3> QED
      BY <1>3, <1>10, <3>1, <3>2 DEF AdoptOrCondemn
  <2> QED
    BY <1>10, <2>2, <2>3 DEF AdoptOrCondemn
<1>11. CASE Teardown(i)
  <2>1. Tabbed /\ tab'[i].pc = "leaving" /\ \A j \in Tabs \ {i} : tab'[j] = tab[j]
    BY <1>11, TeardownShape
  <2>2. Queued
    BY <1>11, <2>1, QueueGrows DEF Teardown, Locking, Holding
  <2> QED
    BY <1>3, <1>11, <2>1, <2>2 DEF Teardown
<1>12. CASE Logout(i)
  <2>1. Tabbed /\ tab'[i].pc = "leaving" /\ \A j \in Tabs \ {i} : tab'[j] = tab[j]
    BY <1>12, MoveShape DEF Logout, Pcs
  <2>2. Queued
    BY <1>12, <2>1, QueueGrows DEF Logout, Locking, Holding
  <2> QED
    BY <1>3, <1>12, <2>1, <2>2 DEF Logout
<1>13. CASE SendLogout(i)
  <2>1. Tabbed /\ tab'[i].pc = "loggingOut" /\ \A j \in Tabs \ {i} : tab'[j] = tab[j]
    BY <1>13, PostShape DEF SendLogout, Pcs
  <2>2. Queued
    BY <1>13, <2>1, HeadHolds, QueueStays DEF SendLogout, Locking
  <2> QED
    BY <1>3, <1>13, <2>1, <2>2 DEF SendLogout
<1>14. CASE LogoutLands(i)
  BY <1>1, <1>5, <1>14, Jars DEF LogoutLands, Holding
<1>15. CASE Timeout(i)
  <2>1. tab[i].pc \in Holding /\ queue' = Release
    BY <1>15 DEF Timeout, Abortable, Holding
  <2>2. jar' \in JarType
    BY <1>1, <1>15 DEF Timeout, ExpireHint, JarType
  <2>3. Tabbed /\ Queued
    BY <1>1, <1>5, <1>15, <2>1 DEF Timeout
  <2>4. lost' \in BOOLEAN
    BY <1>15, Zenon DEF Timeout
  <2>5. orphans' \subseteq [pc : {"refreshing", "loggingOut"}, sent : Token]
    BY <1>1, <1>15 DEF Timeout, Abortable
  <2> QED
    BY <1>1, <1>15, <2>2, <2>3, <2>4, <2>5 DEF Timeout
<1>16. CASE SendLogin(i)
  <2>1. Tabbed /\ tab'[i].pc = "loggingIn" /\ \A j \in Tabs \ {i} : tab'[j] = tab[j]
    BY <1>16, PostShape DEF SendLogin, Pcs
  <2>2. Queued
    BY <1>16, <2>1, QueueStays DEF SendLogin, Locking
  <2> QED
    BY <1>3, <1>16, <2>1, <2>2 DEF SendLogin
<1>17. CASE LoginLands(i)
  BY <1>1, <1>5, <1>17, Jars DEF LoginLands, Locking
<1>18. CASE LoginFails(i)
  BY <1>3, <1>5, <1>18 DEF LoginFails, Locking
<1>19. CASE Navigate(i)
  BY <1>3, <1>5, <1>19 DEF Navigate, Locking
<1>20. ASSUME NEW reply \in Replies, Answer(i, reply), queue' = queue,
              tab[i].pc \in Holding \cup {"loggingIn"}
       PROVE  Tabbed /\ Queued
  <2>1. Tabbed /\ tab'[i].pc = tab[i].pc /\ \A j \in Tabs \ {i} : tab'[j] = tab[j]
    BY <1>20, AnswerShape
  <2>2. Queued
    BY <1>20, <2>1, HeadHolds, QueueStays DEF Locking, Holding
  <2> QED
    BY <2>1, <2>2
<1>21. CASE ServeRefresh(i)
  <2>1. PICK answer \in Token \cup {Rejected} :
          Rotates(tab[i].sent, answer) /\ Answer(i, answer)
    BY <1>21 DEF ServeRefresh
  <2>2. Tabbed /\ Queued
    BY <1>20, <1>21, <2>1 DEF ServeRefresh, Holding, Replies
  <2> QED
    BY <1>1, <1>21, <2>1, <2>2, Stores DEF ServeRefresh
<1>22. CASE ServeLogout(i)
  <2>1. Tabbed /\ Queued
    BY <1>20, <1>22 DEF ServeLogout, Holding, Replies
  <2>2. store' \in StoreType /\ replayed' = replayed
    BY <1>1, <1>22, Stores DEF ServeLogout, Revokes
  <2> QED
    BY <1>1, <1>22, <2>1, <2>2 DEF ServeLogout
<1>23. CASE ServeLogin(i)
  <2>1. PICK t \in NextUnused : store' = [store EXCEPT ![t] = "live"] /\ Answer(i, t)
    BY <1>23 DEF ServeLogin
  <2>2. t \in Replies
    BY DEF NextUnused, Replies
  <2>3. Tabbed /\ Queued
    BY <1>20, <1>23, <2>1, <2>2 DEF ServeLogin
  <2> QED
    BY <1>1, <1>23, <2>1, <2>3, Stores DEF ServeLogin
<1> QED
  BY <1>4, <1>6, <1>7, <1>8, <1>9, <1>10, <1>11, <1>12, <1>13, <1>14, <1>15, <1>16,
     <1>17, <1>18, <1>19, <1>21, <1>22, <1>23 DEF Acts, Proceed

LEMMA WorldKeepsLock ==
    ASSUME TypeOK, LockInv, ServeOrphan \/ EndElsewhere \/ AccessExpires \/ UNCHANGED vars
    PROVE  TypeOK' /\ LockInv'
<1>1. store \in StoreType /\ jar \in JarType /\ replayed \in BOOLEAN
  BY DEF TypeOK, StoreType, JarType
<1>2. tab' = tab /\ queue' = queue
  BY DEF ServeOrphan, EndElsewhere, AccessExpires, vars
<1>3. LockInv'
  BY <1>2 DEF LockInv
<1>4. CASE ServeOrphan
  <2>1. PICK o \in orphans :
          /\ orphans' = orphans \ {o}
          /\ \/ \E answer \in Token \cup {Rejected} : Rotates(o.sent, answer)
             \/ Revokes(o.sent)
          /\ UNCHANGED <<jar, queue, tab, lost>>
    BY <1>4 DEF ServeOrphan
  <2>2. o.sent \in Token
    BY DEF TypeOK
  <2>3. store' \in StoreType /\ replayed' \in BOOLEAN
    BY <1>1, <2>1, <2>2, Stores DEF Revokes
  <2> QED
    BY <1>3, <2>1, <2>3 DEF TypeOK, StoreType
<1>5. CASE EndElsewhere
  BY <1>1, <1>3, <1>5 DEF EndElsewhere, TypeOK, StoreType
<1>6. CASE AccessExpires
  <2>1. jar' \in JarType
    BY <1>1, <1>6 DEF AccessExpires, JarType
  <2> QED
    BY <1>3, <1>6, <2>1 DEF AccessExpires, TypeOK, JarType
<1>7. CASE UNCHANGED vars
  BY <1>3, <1>7 DEF vars, TypeOK
<1> QED
  BY <1>4, <1>5, <1>6, <1>7

-----------------------------------------------------------------------------
\* Tokens fade when sessions end; none comes alive, and none is rotated.
Fades == \A t \in Token : \/ store'[t] = store[t]
                          \/ store[t] = "live" /\ store'[t] \in {"revoked", "expired"}

LEMMA EndsFade ==
    ASSUME store \in StoreType
    PROVE  /\ UNCHANGED store => Fades
           /\ store' = RevokeAll => Fades
           /\ \A t \in Token \cup {NoToken} : Revokes(t) => Fades
           /\ \A how \in {"revoked", "expired"} :
                store' = [t \in Token |-> IF t \in Live THEN how ELSE store[t]] => Fades
  BY DEF Fades, RevokeAll, Revokes, Live, StoreType

\* A step after which tab i has no refresh and no login under way, and which
\* loses no answer to a refresh.
LEMMA QuietStep ==
    ASSUME NEW i \in Tabs, TypeOK, OnePlace, Fresh,
           \A j \in Tabs \ {i} : tab'[j] = tab[j],
           tab'[i].sent \in {NoToken, tab[i].sent, jar.refresh},
           ~Asking(i)', ~Bringing(i)', ~(Bringing(i) /\ tab[i].pc = "refreshing"),
           jar'.refresh \in {jar.refresh, NoToken}, Fades, UNCHANGED replayed,
           \A o \in orphans' : o \in orphans
                \/ (o.pc # "refreshing" /\ o.sent = tab[i].sent)
    PROVE  OnePlace' /\ Fresh'
<1>1. \A j \in Tabs : /\ Bringing(j)' => j # i /\ Bringing(j) /\ tab'[j] = tab[j]
                      /\ Asking(j)' => j # i /\ Asking(j) /\ tab'[j] = tab[j]
  BY DEF Bringing, Asking
<1>2. /\ jar.refresh \in Token \cup {NoToken}
      /\ \A j \in Tabs : tab[j].sent \in Token \cup {NoToken}
      /\ \A o \in orphans : o.sent \in Token \cup {NoToken}
  BY DEF TypeOK
<1>3. \A t \in Token \cup {NoToken} : Issued(t) => Issued(t)'
  BY DEF Issued, Fades
<1>4. OnePlace'
  <2>1. Issued(jar.refresh)' /\ \A o \in orphans' : Issued(o.sent)'
    BY <1>2, <1>3 DEF OnePlace, Issued
  <2>2. \A j \in Tabs : Issued(tab[j].sent)'
    BY <1>2, <1>3 DEF OnePlace, Issued
  <2>3. ASSUME NEW j \in Tabs, Bringing(j)'
        PROVE  /\ store'[tab'[j].reply] \notin {"unused", "rotated"}
               /\ tab'[j].reply # jar'.refresh
               /\ \A k \in Tabs : Asking(k)' => tab'[j].reply # tab'[k].sent
               /\ \A k \in Tabs \ {j} : Bringing(k)' => tab'[j].reply # tab'[k].reply
    <3>1. j # i /\ Bringing(j) /\ tab'[j] = tab[j] /\ tab[j].reply \in Token
      BY <1>1, <2>3 DEF Bringing
    <3>2. store'[tab'[j].reply] \notin {"unused", "rotated"}
      BY <3>1 DEF OnePlace, Fades
    <3>3. tab'[j].reply # jar'.refresh
      BY <3>1, Numbers DEF OnePlace
    <3> QED
      BY <1>1, <3>1, <3>2, <3>3 DEF OnePlace
  <2> QED
    BY <2>1, <2>2, <2>3 DEF OnePlace
<1>5. Fresh'
  <2>1. ASSUME NEW j \in Tabs, Bringing(j), tab[j].pc = "refreshing"
        PROVE  Bringing(j)' /\ tab'[j].pc = "refreshing"
    BY <2>1 DEF Bringing
  <2>2. \A t \in Token : store'[t] = "rotated" => store[t] = "rotated"
    BY DEF Fades
  <2>3. \A j \in Tabs :
          Asking(j)' /\ tab'[j].sent # NoToken => store'[tab'[j].sent] # "rotated"
    BY <1>1, <1>2, <2>2 DEF Fresh
  <2>4. \A o \in orphans' : o.pc # "refreshing"
    BY DEF Fresh
  <2>5. jar'.refresh # NoToken /\ store'[jar'.refresh] = "rotated" =>
          \E j \in Tabs : Bringing(j)' /\ tab'[j].pc = "refreshing"
    BY <1>2, <2>1, <2>2 DEF Fresh
  <2> QED
    BY <2>3, <2>4, <2>5 DEF Fresh
<1> QED
  BY <1>4, <1>5

\* The head of the queue sends the token of the jar: no answer is on its way that
\* would replace it.
LEMMA AskStep ==
    ASSUME NEW i \in Tabs, TypeOK, OnePlace, Fresh, Post(i, "refreshing"),
           \A j \in Tabs \ {i} : tab[j].pc \notin Holding,
           tab[i].pc # "refreshing",
           UNCHANGED <<jar, store, orphans, replayed>>
    PROVE  OnePlace' /\ Fresh'
<1>1. /\ tab'[i].pc = "refreshing" /\ tab'[i].sent = jar.refresh
      /\ tab'[i].reply = Unanswered
      /\ \A j \in Tabs \ {i} : tab'[j] = tab[j]
  BY PostShape DEF Pcs
<1>2. /\ ~Bringing(i)'
      /\ \A j \in Tabs : Bringing(j)' => j # i /\ Bringing(j) /\ tab'[j] = tab[j]
      /\ \A j \in Tabs : Asking(j)' => j = i
  BY <1>1, Numbers DEF Bringing, Asking, Holding
<1>3. OnePlace'
  BY <1>1, <1>2 DEF OnePlace, Issued
<1>4. jar.refresh # NoToken => store[jar.refresh] # "rotated"
  BY DEF Fresh, Holding
<1> QED
  BY <1>1, <1>2, <1>3, <1>4 DEF Fresh

\* The server rotates the token it was sent: the new one is nowhere else, and the
\* old one stays in the jar, if anywhere, until the new one lands.
LEMMA RotateStep ==
    ASSUME NEW i \in Tabs, NEW answer \in NextUnused, TypeOK, OnePlace, Fresh,
           tab[i].pc = "refreshing", tab[i].reply = Unanswered, tab[i].sent \in Live,
           store' = [store EXCEPT ![tab[i].sent] = "rotated", ![answer] = "live"],
           Answer(i, answer),
           \A j \in Tabs \ {i} : tab[j].pc \notin Holding,
           UNCHANGED <<jar, orphans, replayed>>
    PROVE  OnePlace' /\ Fresh'
<1> DEFINE t == tab[i].sent
<1>1. answer \in Token /\ t \in Token /\ store \in StoreType /\ store[t] = "live"
      /\ store[answer] = "unused" /\ answer \in Replies
  BY DEF NextUnused, Live, TypeOK, StoreType, Replies
<1>2. /\ tab'[i].pc = "refreshing" /\ tab'[i].sent = NoToken /\ tab'[i].reply = answer
      /\ \A j \in Tabs \ {i} : tab'[j] = tab[j]
  BY <1>1, AnswerShape
<1>3. /\ store'[answer] = "live" /\ store'[t] = "rotated"
      /\ \A u \in Token \ {t, answer} : store'[u] = store[u]
  BY <1>1 DEF StoreType
<1>4. /\ Bringing(i)'
      /\ \A j \in Tabs \ {i} : Bringing(j)' => Bringing(j) /\ tab[j].reply \in Token
      /\ \A j \in Tabs : ~Asking(j)'
      /\ Asking(i)
  BY <1>1, <1>2, Numbers DEF Bringing, Asking, Holding
<1>5. \A u \in Token \cup {NoToken} : Issued(u) => Issued(u)' /\ u # answer
  BY <1>1, <1>3, Numbers DEF Issued
<1>6. OnePlace'
  <2>1. Issued(jar.refresh)' /\ \A o \in orphans' : Issued(o.sent)'
    BY <1>5 DEF OnePlace, TypeOK, Issued
  <2>2. \A j \in Tabs : Issued(tab[j].sent)'
    <3>1. \A j \in Tabs \ {i} : tab'[j].sent = tab[j].sent /\ tab[j].sent \in Token \cup {NoToken}
      BY <1>2 DEF TypeOK
    <3> QED
      BY <1>2, <1>5, <3>1 DEF OnePlace, Issued
  <2>3. ASSUME NEW j \in Tabs, Bringing(j)'
        PROVE  /\ store'[tab'[j].reply] \notin {"unused", "rotated"}
               /\ tab'[j].reply # jar'.refresh
               /\ \A k \in Tabs \ {j} : Bringing(k)' => tab'[j].reply # tab'[k].reply
    <3>1. jar.refresh # answer
      BY <1>5 DEF OnePlace, TypeOK
    <3>2. \A k \in Tabs \ {i} : Bringing(k)' =>
            /\ tab'[k].reply = tab[k].reply /\ tab[k].reply # answer
            /\ tab[k].reply # t /\ tab[k].reply # jar.refresh
            /\ store[tab[k].reply] \notin {"unused", "rotated"}
      BY <1>1, <1>2, <1>4 DEF OnePlace
    <3>3. CASE j = i
      BY <1>2, <1>3, <3>1, <3>2, <3>3
    <3>4. CASE j # i
      <4>1. Bringing(j) /\ tab'[j].reply = tab[j].reply /\ tab[j].reply \in Token
        BY <1>2, <1>4, <2>3, <3>4
      <4>2. store'[tab'[j].reply] \notin {"unused", "rotated"}
        BY <1>3, <2>3, <3>2, <3>4, <4>1
      <4>3. \A k \in Tabs \ {i, j} : Bringing(k)' => tab'[j].reply # tab'[k].reply
        BY <1>2, <1>4, <4>1 DEF OnePlace
      <4> QED
        BY <1>2, <2>3, <3>2, <3>4, <4>2, <4>3
    <3> QED
      BY <3>3, <3>4
  <2> QED
    BY <1>4, <2>1, <2>2, <2>3 DEF OnePlace
<1> QED
  BY <1>2, <1>4, <1>6 DEF Fresh

\* A login issues a token that is nowhere else.
LEMMA IssueStep ==
    ASSUME NEW i \in Tabs, NEW answer \in NextUnused, TypeOK, OnePlace, Fresh,
           tab[i].pc = "loggingIn", tab[i].reply = Unanswered,
           store' = [store EXCEPT ![answer] = "live"], Answer(i, answer),
           UNCHANGED <<jar, orphans, replayed>>
    PROVE  OnePlace' /\ Fresh'
<1>1. answer \in Token /\ store \in StoreType /\ store[answer] = "unused"
      /\ answer \in Replies
  BY DEF NextUnused, TypeOK, StoreType, Replies
<1>2. /\ tab'[i].pc = "loggingIn" /\ tab'[i].sent = NoToken /\ tab'[i].reply = answer
      /\ \A j \in Tabs \ {i} : tab'[j] = tab[j]
  BY <1>1, AnswerShape
<1>3. store'[answer] = "live" /\ \A u \in Token \ {answer} : store'[u] = store[u]
  BY <1>1 DEF StoreType
<1>4. /\ Bringing(i)' /\ ~Bringing(i) /\ ~Asking(i)'
      /\ \A j \in Tabs \ {i} : /\ Bringing(j)' => Bringing(j) /\ tab[j].reply \in Token
                               /\ Bringing(j) => Bringing(j)'
                               /\ Asking(j)' => Asking(j)
  BY <1>1, <1>2, Numbers DEF Bringing, Asking
<1>5. \A u \in Token \cup {NoToken} : Issued(u) => Issued(u)' /\ u # answer
  BY <1>1, <1>3, Numbers DEF Issued
<1>6. \A j \in Tabs : tab[j].sent \in Token \cup {NoToken} /\ tab[j].sent # answer
  BY <1>5 DEF OnePlace, TypeOK
<1>7. jar.refresh \in Token \cup {NoToken} /\ jar.refresh # answer
  BY <1>5 DEF OnePlace, TypeOK
<1>8. OnePlace'
  <2>1. Issued(jar.refresh)' /\ \A o \in orphans' : Issued(o.sent)'
    BY <1>5 DEF OnePlace, TypeOK, Issued
  <2>2. \A j \in Tabs : Issued(tab[j].sent)'
    BY <1>2, <1>5, <1>6 DEF OnePlace, Issued
  <2>3. ASSUME NEW j \in Tabs, Bringing(j)'
        PROVE  /\ store'[tab'[j].reply] \notin {"unused", "rotated"}
               /\ tab'[j].reply # jar'.refresh
               /\ \A k \in Tabs : Asking(k)' => tab'[j].reply # tab'[k].sent
               /\ \A k \in Tabs \ {j} : Bringing(k)' => tab'[j].reply # tab'[k].reply
    <3>1. \A k \in Tabs \ {i} : Bringing(k)' =>
            /\ tab'[k].reply = tab[k].reply /\ tab[k].reply # answer
            /\ store[tab[k].reply] \notin {"unused", "rotated"}
      BY <1>1, <1>2, <1>4 DEF OnePlace
    <3>2. CASE j = i
      BY <1>2, <1>3, <1>4, <1>6, <1>7, <3>1, <3>2
    <3>3. CASE j # i
      <4>1. Bringing(j) /\ tab'[j].reply = tab[j].reply /\ tab[j].reply \in Token
        BY <1>2, <1>4, <2>3, <3>3
      <4>2. store'[tab'[j].reply] \notin {"unused", "rotated"}
        BY <1>3, <2>3, <3>1, <3>3, <4>1
      <4>3. \A k \in Tabs \ {i, j} : Bringing(k)' => tab'[j].reply # tab'[k].reply
        BY <1>2, <1>4, <4>1 DEF OnePlace
      <4>4. \A k \in Tabs : Asking(k)' => tab'[j].reply # tab'[k].sent
        BY <1>2, <1>4, <4>1 DEF OnePlace
      <4> QED
        BY <1>2, <2>3, <3>1, <3>3, <4>1, <4>2, <4>3, <4>4 DEF OnePlace
    <3> QED
      BY <3>2, <3>3
  <2> QED
    BY <2>1, <2>2, <2>3 DEF OnePlace
<1>9. Fresh'
  <2>1. \A j \in Tabs : Asking(j)' /\ tab'[j].sent # NoToken => store'[tab'[j].sent] # "rotated"
    BY <1>2, <1>3, <1>4, <1>6 DEF Fresh
  <2>2. jar'.refresh # NoToken /\ store'[jar'.refresh] = "rotated" =>
          \E j \in Tabs : Bringing(j)' /\ tab'[j].pc = "refreshing"
    BY <1>2, <1>3, <1>4, <1>7 DEF Fresh
  <2> QED
    BY <2>1, <2>2 DEF Fresh
<1> QED
  BY <1>8, <1>9

\* An answer lands: its token is now in the jar and not on its way.
LEMMA LandStep ==
    ASSUME NEW i \in Tabs, NEW at \in {"page", "login"}, TypeOK, OnePlace, Fresh,
           Bringing(i), jar' = Cookies(tab[i].reply), Rest(i, at),
           tab[i].pc = "refreshing" => \A j \in Tabs \ {i} : tab[j].pc \notin Holding,
           UNCHANGED <<store, orphans, replayed>>
    PROVE  OnePlace' /\ Fresh'
<1>1. /\ tab'[i].pc = "idle" /\ tab'[i].sent = NoToken
      /\ \A j \in Tabs \ {i} : tab'[j] = tab[j]
  BY RestShape
<1>2. tab[i].reply \in Token /\ jar'.refresh = tab[i].reply
      /\ store[tab[i].reply] \notin {"unused", "rotated"}
  BY Jars DEF Bringing, OnePlace
<1>3. \A j \in Tabs : /\ Bringing(j)' => j # i /\ Bringing(j) /\ tab'[j] = tab[j]
                      /\ Asking(j)' => j # i /\ Asking(j) /\ tab'[j] = tab[j]
  BY <1>1 DEF Bringing, Asking
<1>4. OnePlace'
  BY <1>1, <1>2, <1>3 DEF OnePlace, Issued
<1> QED
  BY <1>2, <1>3, <1>4 DEF Fresh

-----------------------------------------------------------------------------
LEMMA ActsKeepTokens ==
    ASSUME WebLocks, TypeOK, LockInv, Safe, NEW i \in Tabs, Acts(i)
    PROVE  Safe'
<1> SUFFICES ASSUME ~lost' PROVE OnePlace' /\ Fresh'
  BY DEF Safe
<1>1. ~lost /\ (tab[i].pc = "refreshing" => ~Timeout(i))
  <2>1. lost => lost'
    BY Zenon DEF Acts, Proceed, StartRefresh, RefreshLands, AdoptBeforeRefresh,
       RefreshAfterWait, RefreshRejected, AdoptOrCondemn, Teardown, SendLogout, Timeout,
       Logout, LogoutLands, SendLogin, LoginLands, LoginFails, Navigate, ServeRefresh,
       ServeLogout, ServeLogin
  <2>2. Timeout(i) /\ tab[i].pc = "refreshing" => lost'
    BY Zenon DEF Timeout
  <2> QED
    BY <2>1, <2>2
<1>2. OnePlace /\ Fresh
  BY <1>1 DEF Safe
<1>3. store \in StoreType /\ jar.refresh \in Token \cup {NoToken} /\ replayed \in BOOLEAN
      /\ tab[i].sent \in Token \cup {NoToken} /\ tab[i].at \in {"page", "login"}
  BY DEF TypeOK, StoreType
<1> DEFINE Others == \A j \in Tabs \ {i} : tab'[j] = tab[j]
           Lone == \A j \in Tabs \ {i} : tab[j].pc \notin Holding
<1>5. UNCHANGED store => Fades
  BY <1>3, EndsFade
<1> DEFINE Calm == /\ Others /\ tab'[i].pc \notin {"refreshing", "loggingIn"}
                   /\ tab'[i].sent \in {NoToken, tab[i].sent, jar.refresh}
                   /\ tab[i].pc # "refreshing" \/ tab[i].reply = Rejected
<1>6. ASSUME Calm, jar'.refresh \in {jar.refresh, NoToken},
             UNCHANGED <<store, orphans, replayed>>
      PROVE  OnePlace' /\ Fresh'
  <2>1. ~Asking(i)' /\ ~Bringing(i)' /\ ~(Bringing(i) /\ tab[i].pc = "refreshing")
    BY <1>6, Numbers DEF Asking, Bringing
  <2>2. Fades
    BY <1>3, <1>6, EndsFade
  <2>3. \A o \in orphans' : o \in orphans \/ (o.pc # "refreshing" /\ o.sent = tab[i].sent)
    BY <1>6
  <2> QED
    BY <1>2, <1>6, <2>1, <2>2, <2>3, QuietStep
<1>7. ASSUME NEW at \in {"page", "login"}, Rest(i, at), tab[i].pc # "refreshing"
      PROVE  Calm
  BY <1>7, RestShape
<1>8. CASE StartRefresh(i)
  <2>1. CASE queue # <<>>
    <3>1. tab' = [tab EXCEPT ![i].pc = "waiting"]
      BY <1>8, <2>1 DEF StartRefresh
    <3>2. tab'[i].pc = "waiting" /\ tab'[i].sent = tab[i].sent /\ Others
      BY <3>1, MoveShape DEF Pcs
    <3> QED
      BY <1>6, <1>8, <3>2 DEF StartRefresh
  <2>2. CASE queue = <<>>
    <3>1. Lone
      BY <2>2 DEF LockInv
    <3> QED
      BY <1>2, <1>8, <2>2, <3>1, AskStep DEF StartRefresh
  <2> QED
    BY <2>1, <2>2
<1>9. CASE AdoptBeforeRefresh(i)
  <2>1. Calm
    BY <1>3, <1>7, <1>9 DEF AdoptBeforeRefresh
  <2> QED
    BY <1>6, <1>9, <2>1 DEF AdoptBeforeRefresh
<1>10. CASE RefreshAfterWait(i)
  <2>1. Lone
    BY <1>10, HeadHolds DEF RefreshAfterWait
  <2> QED
    BY <1>2, <1>10, <2>1, AskStep DEF RefreshAfterWait
<1>11. CASE RefreshLands(i)
  <2>1. Lone /\ Bringing(i)
    BY <1>11, HeadHolds DEF RefreshLands, Holding, Succeeded, Bringing
  <2> QED
    BY <1>2, <1>3, <1>11, <2>1, LandStep DEF RefreshLands
<1>12. CASE RefreshRejected(i)
  <2>1. tab'[i].pc = "adopting" /\ tab'[i].sent = tab[i].sent /\ Others
    BY <1>12, MoveShape DEF RefreshRejected, Pcs
  <2> QED
    BY <1>6, <1>12, <2>1 DEF RefreshRejected
<1>13. CASE AdoptOrCondemn(i)
  <2>1. CASE Rest(i, tab[i].at) \/ Rest(i, "login")
    <3>1. Calm
      BY <1>3, <1>7, <1>13, <2>1 DEF AdoptOrCondemn
    <3> QED
      BY <1>6, <1>13, <3>1 DEF AdoptOrCondemn
  <2>2. CASE tab' = [tab EXCEPT ![i].pc = "condemned"]
    <3>1. tab'[i].pc = "condemned" /\ tab'[i].sent = tab[i].sent /\ Others
      BY <2>2, MoveShape DEF Pcs
    <3> QED
      BY <1>6, <1>13, <3>1 DEF AdoptOrCondemn
  <2> QED
    BY <1>13, <2>1, <2>2 DEF AdoptOrCondemn
<1>14. CASE Teardown(i)
  <2>1. Calm
    BY <1>14, TeardownShape DEF Teardown
  <2> QED
    BY <1>6, <1>14, <2>1 DEF Teardown
<1>15. CASE Logout(i)
  <2>1. tab'[i].pc = "leaving" /\ tab'[i].sent = tab[i].sent /\ Others
    BY <1>15, MoveShape DEF Logout, Pcs
  <2> QED
    BY <1>6, <1>15, <2>1 DEF Logout
<1>16. CASE SendLogout(i)
  <2>1. tab'[i].pc = "loggingOut" /\ tab'[i].sent = jar.refresh /\ Others
    BY <1>16, PostShape DEF SendLogout, Pcs
  <2> QED
    BY <1>6, <1>16, <2>1 DEF SendLogout
<1>17. CASE LogoutLands(i)
  <2>1. Calm
    BY <1>7, <1>17 DEF LogoutLands
  <2> QED
    BY <1>6, <1>17, <2>1, Jars DEF LogoutLands
<1>18. CASE Timeout(i)
  <2>1. tab[i].pc = "loggingOut"
    BY <1>1, <1>18 DEF Timeout, Abortable
  <2>2. jar'.refresh = jar.refresh
    BY <1>18 DEF Timeout, ExpireHint, TypeOK
  <2>3. \A o \in orphans' : o \in orphans \/ (o.pc # "refreshing" /\ o.sent = tab[i].sent)
    <3>1. ASSUME NEW o \in orphans', o \notin orphans
          PROVE  o = [pc |-> "loggingOut", sent |-> tab[i].sent]
      BY <1>18, <2>1, <3>1 DEF Timeout
    <3> QED
      BY <3>1
  <2> QED
    <3>1. Calm
      BY <1>3, <1>7, <1>18, <2>1 DEF Timeout
    <3>2. ~Asking(i)' /\ ~Bringing(i)' /\ ~(Bringing(i) /\ tab[i].pc = "refreshing")
      BY <2>1, <3>1 DEF Asking, Bringing
    <3>3. Fades /\ UNCHANGED replayed
      BY <1>3, <1>18, EndsFade DEF Timeout
    <3> QED
      BY <1>2, <2>2, <2>3, <3>1, <3>2, <3>3, QuietStep
<1>19. CASE SendLogin(i)
  <2>1. tab'[i].pc = "loggingIn" /\ tab'[i].sent = jar.refresh
        /\ tab'[i].reply = Unanswered /\ Others
    BY <1>19, PostShape DEF SendLogin, Pcs
  <2>2. ~Asking(i)' /\ ~Bringing(i)'
    BY <2>1, Numbers DEF Asking, Bringing
  <2> QED
    <3>1. tab[i].pc # "refreshing" /\ jar' = jar /\ orphans' = orphans
          /\ UNCHANGED replayed /\ Fades
      BY <1>5, <1>19 DEF SendLogin
    <3>2. \A o \in orphans' : o \in orphans \/ (o.pc # "refreshing" /\ o.sent = tab[i].sent)
      BY <3>1
    <3> QED
      BY <1>2, <2>1, <2>2, <3>1, <3>2, QuietStep
<1>20. CASE LoginLands(i)
  <2>1. Bringing(i) /\ tab[i].pc # "refreshing"
    BY <1>20 DEF LoginLands, Bringing
  <2> QED
    BY <1>2, <1>20, <2>1, LandStep DEF LoginLands
<1>21. CASE LoginFails(i)
  <2>1. Calm
    BY <1>7, <1>21 DEF LoginFails
  <2> QED
    BY <1>6, <1>21, <2>1 DEF LoginFails
<1>22. CASE Navigate(i)
  <2>1. Calm
    BY <1>7, <1>22 DEF Navigate
  <2> QED
    BY <1>6, <1>22, <2>1 DEF Navigate
<1>23. CASE ServeRefresh(i)
  <2>1. PICK answer \in Token \cup {Rejected} :
          Rotates(tab[i].sent, answer) /\ Answer(i, answer)
    BY <1>23 DEF ServeRefresh
  <2>2. tab[i].pc = "refreshing" /\ tab[i].reply = Unanswered /\ Lone /\ Asking(i)
    BY <1>23, HeadHolds DEF ServeRefresh, Holding, Asking
  <2>3. CASE answer # Rejected
    BY <1>2, <1>23, <2>1, <2>2, <2>3, RotateStep DEF ServeRefresh, Rotates
  <2>4. CASE answer = Rejected
    <3>1. tab'[i].sent = NoToken /\ tab'[i].reply = Rejected /\ Others
          /\ tab'[i].pc = "refreshing"
      BY <2>1, <2>2, <2>4, AnswerShape DEF Replies
    <3>2. ~Asking(i)' /\ ~Bringing(i)' /\ ~Bringing(i)
      BY <2>2, <3>1, Numbers DEF Asking, Bringing
    <3>3. tab[i].sent # NoToken => store[tab[i].sent] # "rotated"
      BY <1>2, <2>2 DEF Fresh
    <3>4. UNCHANGED store \/ store' = RevokeAll
      BY <2>1, <2>4, Numbers DEF Rotates, NextUnused
    <3>5. UNCHANGED replayed
      <4>1. ~replayed /\ (replayed' = replayed
                           \/ (replayed' = (replayed \/ store[tab[i].sent] = "rotated")
                                /\ tab[i].sent # NoToken))
        BY <1>2, <2>1, Zenon DEF Rotates, Fresh
      <4>2. tab[i].sent # NoToken => (replayed \/ store[tab[i].sent] = "rotated") = FALSE
        BY <3>3, <4>1
      <4>3. replayed' = replayed \/ replayed' = FALSE
        BY <4>1, <4>2, Zenon
      <4> QED
        BY <4>1, <4>3, <1>3
    <3> QED
      <4>1. Fades
        BY <1>3, <3>4, EndsFade
      <4>2. \A o \in orphans' : o \in orphans \/ (o.pc # "refreshing" /\ o.sent = tab[i].sent)
        BY <1>23 DEF ServeRefresh
      <4>3. jar' = jar
        BY <1>23 DEF ServeRefresh
      <4> QED
        BY <1>2, <3>1, <3>2, <3>5, <4>1, <4>2, <4>3, QuietStep
  <2> QED
    BY <2>3, <2>4
<1>24. CASE ServeLogout(i)
  <2>1. /\ tab'[i].pc = "loggingOut" /\ tab'[i].sent = NoToken /\ Others
        /\ tab[i].pc = "loggingOut"
    BY <1>24, AnswerShape DEF ServeLogout, Replies
  <2>2. Fades /\ UNCHANGED replayed
    BY <1>3, <1>24, EndsFade DEF ServeLogout, Revokes
  <2>3. ~Asking(i)' /\ ~Bringing(i)'
    BY <2>1 DEF Asking, Bringing
  <2> QED
    <3>1. \A o \in orphans' : o \in orphans \/ (o.pc # "refreshing" /\ o.sent = tab[i].sent)
      BY <1>24 DEF ServeLogout
    <3>2. jar' = jar
      BY <1>24 DEF ServeLogout
    <3> QED
      BY <1>2, <2>1, <2>2, <2>3, <3>1, <3>2, QuietStep
<1>25. CASE ServeLogin(i)
  BY <1>2, <1>25, IssueStep DEF ServeLogin
<1> QED
  BY <1>8, <1>9, <1>10, <1>11, <1>12, <1>13, <1>14, <1>15, <1>16, <1>17, <1>18, <1>19,
     <1>20, <1>21, <1>22, <1>23, <1>24, <1>25 DEF Acts, Proceed

\* What happens behind the tabs' backs takes tokens away and brings none.
LEMMA WorldKeepsTokens ==
    ASSUME TypeOK, Safe, ServeOrphan \/ EndElsewhere \/ AccessExpires \/ UNCHANGED vars
    PROVE  Safe'
<1> SUFFICES ASSUME ~lost' PROVE OnePlace' /\ Fresh'
  BY DEF Safe
<1>1. tab' = tab /\ jar'.refresh = jar.refresh /\ lost' = lost /\ orphans' \subseteq orphans
  BY DEF ServeOrphan, EndElsewhere, AccessExpires, vars, TypeOK
<1>2. OnePlace /\ Fresh
  BY <1>1 DEF Safe
<1>3. store \in StoreType
  BY DEF TypeOK, StoreType
<1>4. Fades /\ UNCHANGED replayed
  <2>1. CASE ServeOrphan
    <3>1. \A o \in orphans : o.pc # "refreshing" /\ o.sent \in Token
      BY <1>2 DEF Fresh, TypeOK
    <3>2. \E o \in orphans : Revokes(o.sent)
      BY <2>1, <3>1 DEF ServeOrphan
    <3> QED
      BY <1>3, <3>1, <3>2, EndsFade DEF Revokes
  <2>2. CASE EndElsewhere
    BY <1>3, <2>2, EndsFade DEF EndElsewhere
  <2>3. CASE AccessExpires \/ UNCHANGED vars
    BY <1>3, <2>3, EndsFade DEF AccessExpires, vars
  <2> QED
    BY <2>1, <2>2, <2>3
<1>5. /\ jar.refresh \in Token \cup {NoToken}
      /\ \A j \in Tabs : tab[j].sent \in Token \cup {NoToken}
      /\ \A o \in orphans : o.sent \in Token \cup {NoToken}
  BY DEF TypeOK
<1>6. /\ \A j \in Tabs : (Asking(j)' <=> Asking(j)) /\ (Bringing(j)' <=> Bringing(j))
      /\ \A j \in Tabs : Bringing(j) => tab[j].reply \in Token
  BY <1>1 DEF Asking, Bringing
<1>7. \A t \in Token \cup {NoToken} : Issued(t) => Issued(t)'
  BY <1>4 DEF Issued, Fades
<1>8. \A t \in Token : /\ store'[t] = "rotated" => store[t] = "rotated"
                       /\ store'[t] = "unused" => store[t] = "unused"
  BY <1>4 DEF Fades
<1>9. OnePlace'
  <2>1. Issued(jar.refresh)' /\ \A o \in orphans' : Issued(o.sent)'
    BY <1>1, <1>2, <1>5, <1>7 DEF OnePlace, Issued
  <2>2. \A j \in Tabs : Issued(tab[j].sent)'
    BY <1>1, <1>2, <1>5, <1>7 DEF OnePlace, Issued
  <2> QED
    BY <1>1, <1>2, <1>6, <1>8, <2>1, <2>2 DEF OnePlace
<1>10. Fresh'
  <2>1. \A j \in Tabs : Asking(j)' /\ tab'[j].sent # NoToken => store'[tab'[j].sent] # "rotated"
    BY <1>1, <1>2, <1>5, <1>6, <1>8 DEF Fresh
  <2>2. jar'.refresh # NoToken /\ store'[jar'.refresh] = "rotated" =>
          \E j \in Tabs : Bringing(j)' /\ tab'[j].pc = "refreshing"
    BY <1>1, <1>2, <1>5, <1>6, <1>8 DEF Fresh
  <2>3. ~replayed' /\ \A o \in orphans' : o.pc # "refreshing"
    BY <1>1, <1>2, <1>4 DEF Fresh
  <2> QED
    BY <2>1, <2>2, <2>3 DEF Fresh
<1> QED
  BY <1>9, <1>10

-----------------------------------------------------------------------------
\* After a step that leaves the jar alone, a refresh under way is an old one, or
\* one that was sent the token of the jar, or that was just answered.
LEMMA ActsKeepFilled ==
    ASSUME WebLocks, TypeOK, LockInv, Filled, NEW i \in Tabs, Acts(i)
    PROVE  Filled'
<1> DEFINE Others == \A j \in Tabs \ {i} : tab'[j] = tab[j]
<1>1. tab[i].at \in {"page", "login"} /\ jar.refresh \in Token \cup {NoToken}
  BY DEF TypeOK
<1>2. ASSUME jar'.refresh = jar.refresh, Others,
             \/ tab'[i].pc # "refreshing" \/ tab'[i].reply = Rejected
             \/ jar.refresh # NoToken
             \/ tab'[i].sent = NoToken /\ tab'[i].reply = Unanswered
      PROVE  Filled'
  BY <1>2, Numbers DEF Filled, Asking, Bringing
<1>3. ASSUME NEW at \in {"page", "login"}, Rest(i, at), jar'.refresh = jar.refresh
      PROVE  Filled'
  <2>1. tab'[i].pc = "idle" /\ Others
    BY <1>3, RestShape
  <2> QED
    BY <1>2, <1>3, <2>1
<1>4. ASSUME Post(i, "refreshing"), jar' = jar
      PROVE  Filled'
  BY <1>2, <1>4, PostShape DEF Pcs
<1>5. ASSUME NEW pc \in Pcs \ {"refreshing"}, Post(i, pc) \/ tab' = [tab EXCEPT ![i].pc = pc],
             jar' = jar
      PROVE  Filled'
  <2>1. tab'[i].pc = pc /\ Others
    BY <1>5, PostShape, MoveShape
  <2> QED
    BY <1>2, <1>5, <2>1
<1>6. CASE StartRefresh(i)
  BY <1>4, <1>5, <1>6 DEF StartRefresh, Pcs
<1>7. CASE AdoptBeforeRefresh(i)
  BY <1>1, <1>3, <1>7 DEF AdoptBeforeRefresh
<1>8. CASE RefreshAfterWait(i)
  BY <1>4, <1>8 DEF RefreshAfterWait
<1>9. CASE RefreshLands(i) \/ LoginLands(i)
  <2>1. jar'.refresh # NoToken
    BY <1>9, Jars, Numbers DEF RefreshLands, LoginLands, Succeeded
  <2> QED
    BY <2>1 DEF Filled
<1>10. CASE RefreshRejected(i)
  BY <1>5, <1>10 DEF RefreshRejected, Pcs
<1>11. CASE AdoptOrCondemn(i)
  BY <1>1, <1>3, <1>5, <1>11 DEF AdoptOrCondemn, Pcs
<1>12. CASE Teardown(i)
  <2>1. tab'[i].pc = "leaving" /\ Others
    BY <1>12, TeardownShape
  <2> QED
    BY <1>2, <1>12, <2>1 DEF Teardown
<1>13. CASE Logout(i)
  BY <1>5, <1>13 DEF Logout, Pcs
<1>14. CASE SendLogout(i)
  BY <1>5, <1>14 DEF SendLogout, Pcs
<1>15. CASE LogoutLands(i)
  <2>1. \A j \in Tabs \ {i} : tab[j].pc # "refreshing" /\ tab'[j] = tab[j]
    BY <1>15, HeadHolds, RestShape DEF LogoutLands, Holding
  <2>2. tab'[i].pc = "idle"
    BY <1>15, RestShape DEF LogoutLands
  <2> QED
    BY <2>1, <2>2 DEF Filled, Asking, Bringing
<1>16. CASE Timeout(i)
  <2>1. jar'.refresh = jar.refresh
    BY <1>16 DEF Timeout, ExpireHint, TypeOK
  <2> QED
    BY <1>1, <1>3, <1>16, <2>1 DEF Timeout
<1>17. CASE SendLogin(i)
  BY <1>5, <1>17 DEF SendLogin, Pcs
<1>18. CASE LoginFails(i)
  BY <1>3, <1>18 DEF LoginFails
<1>19. CASE Navigate(i)
  BY <1>3, <1>19 DEF Navigate
<1>20. CASE ServeRefresh(i)
  <2>1. PICK answer \in Token \cup {Rejected} :
          Rotates(tab[i].sent, answer) /\ Answer(i, answer)
    BY <1>20 DEF ServeRefresh
  <2>2. Asking(i) /\ jar' = jar
    BY <1>20 DEF ServeRefresh, Asking
  <2>3. tab'[i].reply = answer /\ Others
    BY <2>1, AnswerShape DEF Replies
  <2>4. answer = Rejected \/ tab[i].sent \in Live
    BY <2>1 DEF Rotates
  <2>5. answer = Rejected \/ jar.refresh # NoToken
    BY <2>2, <2>4, Numbers DEF Filled, Live
  <2> QED
    BY <1>2, <2>2, <2>3, <2>5
<1>21. CASE ServeLogout(i) \/ ServeLogin(i)
  <2>1. PICK answer \in Replies : Answer(i, answer)
    BY <1>21 DEF ServeLogout, ServeLogin, NextUnused, Replies
  <2>2. tab'[i].pc # "refreshing" /\ Others /\ jar' = jar
    BY <1>21, <2>1, AnswerShape DEF ServeLogout, ServeLogin
  <2> QED
    BY <1>2, <2>2
<1> QED
  BY <1>6, <1>7, <1>8, <1>9, <1>10, <1>11, <1>12, <1>13, <1>14, <1>15, <1>16, <1>17,
     <1>18, <1>19, <1>20, <1>21 DEF Acts, Proceed

LEMMA InitInv == Init => IInv
<1> SUFFICES ASSUME Init PROVE IInv
  OBVIOUS
<1>1. jar = [refresh |-> 1, access |-> FALSE, hint |-> TRUE]
  BY DEF Init, Cookies
<1>2. \A i \in Tabs : tab[i] = [at |-> "page", pc |-> "idle", teardown |-> FALSE,
                                sent |-> NoToken, reply |-> Unanswered]
  BY DEF Init, Resting
<1>3. tab \in [Tabs -> Records]
  <2> DEFINE rec == [at |-> "page", pc |-> "idle", teardown |-> FALSE,
                     sent |-> NoToken, reply |-> Unanswered]
  <2>1. rec \in Records
    BY DEF Records, Pcs, Replies
  <2>2. tab = [i \in Tabs |-> rec]
    BY DEF Init, Resting
  <2> HIDE DEF rec
  <2> QED
    BY <2>1, <2>2
<1>4. store[1] = "live" /\ store \in StoreType
  BY Numbers DEF Init, StoreType
<1>5. TypeOK
  <2>1. jar \in [refresh : Token \cup {NoToken}, access : BOOLEAN, hint : BOOLEAN]
    BY <1>1, Numbers
  <2>2. queue \in Seq(Tabs) /\ orphans = {} /\ lost = FALSE /\ replayed = FALSE
    BY DEF Init
  <2> QED
    BY <1>3, <1>4, <2>1, <2>2 DEF TypeOK, Records, Pcs, Replies, StoreType
<1>6. ASSUME NEW i \in Tabs PROVE tab[i].pc = "idle" /\ tab[i].sent = NoToken
  BY <1>2
<1>7. LockInv /\ Filled
  BY <1>6 DEF Init, LockInv, Filled, Holding, Asking, Bringing
<1>8. OnePlace /\ Fresh
  BY <1>1, <1>4, <1>6 DEF Init, OnePlace, Issued, Fresh, Asking, Bringing
<1> QED
  BY <1>5, <1>7, <1>8 DEF IInv, Safe

LEMMA InvInductive == IInv /\ [Next]_vars => IInv'
<1> SUFFICES ASSUME IInv, [Next]_vars PROVE IInv'
  OBVIOUS
<1>1. ASSUME NEW i \in Tabs, Acts(i) PROVE IInv'
  BY <1>1, ActsKeepLock, ActsKeepTokens, ActsKeepFilled DEF IInv
<1>2. CASE ServeOrphan \/ EndElsewhere \/ AccessExpires \/ UNCHANGED vars
  <2>1. tab' = tab /\ jar'.refresh = jar.refresh
    BY <1>2 DEF ServeOrphan, EndElsewhere, AccessExpires, vars, IInv, TypeOK
  <2>2. Filled => Filled'
    BY <2>1 DEF Filled, Asking, Bringing
  <2> QED
    BY <1>2, <2>2, WorldKeepsLock, WorldKeepsTokens DEF IInv
<1> QED
  BY <1>1, <1>2 DEF Next, Acts

\* IInv holds in every reachable state.
LEMMA InvHolds == Spec => []IInv
  BY InitInv, InvInductive, PTL DEF Spec

-----------------------------------------------------------------------------
\* Type correctness of the jar, the queue, the tabs and the store, with and
\* without Web Locks: the jar never holds anything but an issued token or none.
THEOREM TypeCorrect == Spec => []TypeOK
<1>1. IInv => TypeOK
  BY DEF IInv
<1> QED
  BY <1>1, InvHolds, PTL

\* Under the refresh lock of api.ts the server takes a tab for a thief only if an
\* answer was given up on.
THEOREM ReplayNeedsLoss == ASSUME WebLocks PROVE Spec => []ReplayOnlyAfterLoss
<1>1. IInv => ReplayOnlyAfterLoss
  BY DEF IInv, Safe, Fresh, ReplayOnlyAfterLoss
<1> QED
  BY <1>1, InvHolds, PTL

\* Under the lock, logout's empty jar is filled by a login and by nothing else: a
\* refresh that could bring a token left one in the jar.
THEOREM LoginFillsJar == ASSUME WebLocks PROVE Spec => OnlyLoginFillsJar
<1> DEFINE Step == jar.refresh = NoToken /\ jar'.refresh # NoToken =>
                     \E i \in Tabs : LoginLands(i)
<1>1. IInv /\ [Next]_vars => [Step]_vars
  <2> SUFFICES ASSUME IInv, Next, jar.refresh = NoToken, jar'.refresh # NoToken
               PROVE  \E i \in Tabs : LoginLands(i)
    OBVIOUS
  <2>1. ASSUME NEW i \in Tabs, Acts(i) PROVE LoginLands(i)
    <3>1. ~RefreshLands(i)
      BY DEF RefreshLands, Succeeded, IInv, Filled, Bringing
    <3>2. ~LogoutLands(i)
      BY Jars DEF LogoutLands
    <3>3. ~Timeout(i)
      BY DEF Timeout, ExpireHint, IInv, TypeOK
    <3> QED
      BY <2>1, <3>1, <3>2, <3>3 DEF Acts, Proceed, StartRefresh, AdoptBeforeRefresh,
         RefreshAfterWait, RefreshRejected, AdoptOrCondemn, Teardown, Logout, SendLogout,
         SendLogin, LoginFails, Navigate, ServeRefresh, ServeLogout, ServeLogin
  <2>2. ~(ServeOrphan \/ EndElsewhere \/ AccessExpires)
    BY DEF ServeOrphan, EndElsewhere, AccessExpires, IInv, TypeOK
  <2> QED
    BY <2>1, <2>2 DEF Next, Acts
<1> QED
  BY <1>1, InvHolds, PTL DEF Spec, OnlyLoginFillsJar
=============================================================================
