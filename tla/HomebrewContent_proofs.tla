------------------------ MODULE HomebrewContent_proofs ------------------------
(***************************************************************************)
(* No homebrew row outlives its author's account, and a user goes with all  *)
(* of their homebrew or with none of it.  What a handler checked before an  *)
(* await may be stale when it writes; the argument is what cannot be: a row *)
(* never changes hands, an id is never used again, and the rows a deletion  *)
(* has emptied stay its user's until it commits.                            *)
(*                                                                         *)
(* Two more results rest on that. What a deletion has missed arrived behind *)
(* its pass, which is why its 409 means two arrivals; and what a request    *)
(* carries still fits the row it was decided on, so an option strays from   *)
(* its feat only where the row has changed since.                           *)
(*                                                                         *)
(* The last part is about ChildRows, whose state is its own: a save that    *)
(* sends a list replaces the whole list, however saves overlap.  Between    *)
(* the first statement of a save and its commit the parent's row lock keeps *)
(* every other save from the list, so what DELETE found is all there is     *)
(* when INSERT adds.                                                        *)
(***************************************************************************)
EXTENDS HomebrewContent, ChildRows, TLAPS

Own(u, x) == x \in rows => by[x] = u
Inserts(r) == req[r].op \in {"subclass", "background"}

\* The rows: deleted ones are blank, those that exist have an author with an
\* account, or are published, and refer to rows of the same author.
ContentInv ==
    /\ users \subseteq Authors
    /\ rows \subseteq Rows
    /\ by \in [Rows -> Authors \cup {None}]
    /\ parent \in [Subclasses -> (rows \cap Classes) \cup SrdClasses \cup {None}]
    /\ origin \in [Backgrounds -> (rows \cap Feats) \cup SrdFeats \cup {None}]
    /\ option \in [Backgrounds -> AnyFeat \cup {None}]
    /\ \A s \in Subclasses : s \notin rows => parent[s] = None
    /\ \A b \in Backgrounds : b \notin rows => origin[b] = None
    /\ \A x \in rows : by[x] \in users \/ (x \in Published /\ by[x] = None)
    /\ NothingOrphaned

\* What a request has read is still true of the rows that still exist, and the
\* id it is to insert is nobody else's.
Asked(r) ==
    LET q == req[r] IN
    /\ q.op = "subclass" => q.row \in Subclasses /\ q.link \in AnyClass
    /\ q.op = "background" => q.row \in Backgrounds /\ q.link \in AnyFeat \cup {None}
                                /\ q.choice \in AnyFeat \cup {None}
    /\ q.op = "patch" => q.row \in Backgrounds /\ q.link \in AnyFeat \cup {None, Absent}
                           /\ Own(q.user, q.row)
    /\ q.op = "class" => q.row \in Classes
    /\ q.op = "feat" => q.row \in Feats
    /\ q.op \in {"subclass", "background", "patch"} => Own(q.user, q.link)
    /\ Inserts(r) => /\ q.row \notin rows
                     /\ \A p \in Requests \ {r} : req[p].row # q.row

AskedInv == req \in [Requests -> Request] /\ \A r \in Requests : Asked(r)

\* What a deletion has emptied are rows of its user, and with a class go its
\* subclasses.
GoneInv ==
    /\ purge \in [Authors -> Deletion]
    /\ \A u \in Authors :
         /\ purge[u].pass > 0 => purge[u].attempt > 0
         /\ purge[u].gone \subseteq HomebrewBy(u, Rows)
         /\ \A c \in purge[u].gone \cap Classes : SubclassesOf(c) \subseteq purge[u].gone

IInv == ContentInv /\ AskedInv /\ GoneInv

-----------------------------------------------------------------------------
LEMMA Disjoint ==
    /\ Published \cap (Plain \cup Feats \cup Backgrounds \cup Subclasses \cup Classes) = {}
    /\ Feats \cap (Backgrounds \cup Subclasses \cup Classes \cup Plain) = {}
    /\ Backgrounds \cap (Subclasses \cup Classes \cup Plain) = {}
    /\ Subclasses \cap (Classes \cup Plain) = {}
    /\ Classes \cap Plain = {}
<1>1. \A i, j \in 1..6 : i # j => Tables[i] \cap Tables[j] = {}
  BY ContentAssumption
<1>2. /\ Tables[1] = Plain /\ Tables[2] = Published /\ Tables[3] = Feats
      /\ Tables[4] = Backgrounds /\ Tables[5] = Subclasses /\ Tables[6] = Classes
  BY DEF Tables
<1>3. \A i, j \in {1, 2, 3, 4, 5, 6} : i # j => Tables[i] \cap Tables[j] = {}
  BY <1>1
<1> HIDE DEF Tables
<1>4. /\ Tables[2] \cap Tables[1] = {} /\ Tables[2] \cap Tables[3] = {}
      /\ Tables[2] \cap Tables[4] = {} /\ Tables[2] \cap Tables[5] = {}
      /\ Tables[2] \cap Tables[6] = {} /\ Tables[3] \cap Tables[4] = {}
      /\ Tables[3] \cap Tables[5] = {} /\ Tables[3] \cap Tables[6] = {}
      /\ Tables[3] \cap Tables[1] = {} /\ Tables[4] \cap Tables[5] = {}
      /\ Tables[4] \cap Tables[6] = {} /\ Tables[4] \cap Tables[1] = {}
      /\ Tables[5] \cap Tables[6] = {} /\ Tables[5] \cap Tables[1] = {}
      /\ Tables[6] \cap Tables[1] = {}
  BY <1>3
<1> QED
  BY <1>2, <1>4

LEMMA PassesCover ==
    /\ Len(Passes) = 5 /\ UserPass = 6
    /\ \A i \in 1..5 : Passes[i] \subseteq Rows
    /\ \A x \in Rows : PassOf(x) \in 1..5
<1>1. Len(Passes) = 5 /\ UserPass = 6
  BY DEF Passes, UserPass
<1>2. /\ Passes[1] = Plain \cup Published /\ Passes[2] = Feats /\ Passes[3] = Backgrounds
      /\ Passes[4] = Subclasses /\ Passes[5] = Classes
  BY DEF Passes
<1>3. \A i \in 1..5 : i \in {1, 2, 3, 4, 5}
  OBVIOUS
<1>4. \A i \in 1..5 : Passes[i] \subseteq Rows
  BY <1>2, <1>3 DEF Rows
<1>5. ASSUME NEW x \in Rows PROVE PassOf(x) \in 1..5
  <2>1. \E i \in 1..5 : x \in Passes[i]
    BY <1>2 DEF Rows
  <2> QED
    BY <1>1, <2>1 DEF PassOf
<1> QED
  BY <1>1, <1>4, <1>5

\* The record of one request, or of one deletion, is replaced.
LEMMA OneRequest ==
    ASSUME req \in [Requests -> Request], NEW r \in Requests, NEW rec \in Request,
           req' = [req EXCEPT ![r] = rec]
    PROVE  /\ req' \in [Requests -> Request] /\ req'[r] = rec
           /\ \A p \in Requests \ {r} : req'[p] = req[p]
  OBVIOUS

LEMMA OneDeletion ==
    ASSUME purge \in [Authors -> Deletion], NEW u \in Authors, NEW rec \in Deletion,
           purge' = [purge EXCEPT ![u] = rec]
    PROVE  /\ purge' \in [Authors -> Deletion] /\ purge'[u] = rec
           /\ \A v \in Authors \ {u} : purge'[v] = purge[v]
  OBVIOUS

LEMMA Finished ==
    ASSUME req \in [Requests -> Request], NEW r \in Requests, Finish(r)
    PROVE  /\ req' \in [Requests -> Request]
           /\ req'[r].op = "idle" /\ req'[r].row = None
           /\ \A p \in Requests \ {r} : req'[p] = req[p]
<1>1. Idle \in Request /\ Idle.op = "idle" /\ Idle.row = None
  BY DEF Idle, Step, Request
<1> QED
  BY <1>1, OneRequest DEF Finish

-----------------------------------------------------------------------------
\* Requests in flight while content changes: no row changes hands, and an id that
\* a request is to insert does not appear otherwise.
LEMMA AskedSurvives ==
    ASSUME ContentInv, AskedInv, req' = req \/ \E r \in Requests : Finish(r),
           \A p \in Requests : req'[p] = req[p] =>
              /\ \A x \in rows' : x \in {req[p].row, req[p].link} =>
                    x \in rows /\ (by'[x] = by[x] \/ x \in Published)
    PROVE  AskedInv'
<1>1. /\ req' \in [Requests -> Request]
      /\ \A q \in Requests :
           req'[q] = req[q] \/ (req'[q].op = "idle" /\ req'[q].row = None)
  BY Finished DEF AskedInv
<1>2. ASSUME NEW p \in Requests PROVE Asked(p)'
  <2>1. CASE req'[p] = req[p]
    <3>1. \A q \in Requests : req'[q].row = req[q].row \/ req'[q].row = None
      BY <1>1
    <3>2. Inserts(p)' => Inserts(p)
      BY <2>1 DEF Inserts
    <3>3. req[p].op \in {"subclass", "background", "patch"} =>
            (Own(req[p].user, req[p].link) => (req[p].link \in rows' => by'[req[p].link] = req[p].user))
      <4>1. Asked(p)
        BY DEF AskedInv
      <4>2. req[p].op \in {"subclass", "background", "patch"} => req[p].link \notin Published
        BY <4>1, Disjoint, ContentAssumption DEF Asked, AnyClass, AnyFeat, Rows
      <4> QED
        BY <2>1, <4>2 DEF Own
    <3>4. req[p].op = "patch" =>
            (Own(req[p].user, req[p].row) => (req[p].row \in rows' => by'[req[p].row] = req[p].user))
      BY <2>1, Disjoint DEF Own, Asked, AskedInv
    <3>5. Inserts(p) => req[p].row \notin rows' /\ \A q \in Requests \ {p} : req'[q].row # req[p].row
      BY <2>1, <3>1, Disjoint, ContentAssumption DEF Asked, AskedInv, Inserts, Rows
    <3> QED
      BY <2>1, <3>2, <3>3, <3>4, <3>5 DEF Asked, AskedInv, Own
  <2>2. CASE req'[p] # req[p]
    <3>1. req'[p].op = "idle"
      BY <1>1, <2>2
    <3> QED
      BY <3>1 DEF Asked, Inserts
  <2> QED
    BY <2>1, <2>2
<1> QED
  BY <1>1, <1>2 DEF AskedInv

\* A request begins: what it names is as the handler checked it.
LEMMA AskedBegins ==
    ASSUME ContentInv, AskedInv, NEW r \in Requests, NEW rec \in Request, Begin(r, rec),
           UNCHANGED <<rows, by>>,
           rec.op = "subclass" => rec.row \in Subclasses /\ rec.link \in AnyClass,
           rec.op = "background" => rec.row \in Backgrounds /\ rec.link \in AnyFeat \cup {None}
                                      /\ rec.choice \in AnyFeat \cup {None},
           rec.op = "patch" => rec.row \in Backgrounds /\ rec.link \in AnyFeat \cup {None, Absent}
                                 /\ Own(rec.user, rec.row),
           rec.op = "class" => rec.row \in Classes,
           rec.op = "feat" => rec.row \in Feats,
           rec.op \in {"subclass", "background", "patch"} => Own(rec.user, rec.link),
           IF rec.op \in {"subclass", "background"} THEN Fresh(rec.row) ELSE rec.row \in rows
    PROVE  AskedInv'
<1>1. /\ req' \in [Requests -> Request] /\ req'[r] = rec /\ req[r].op = "idle"
      /\ \A p \in Requests \ {r} : req'[p] = req[p]
  BY OneRequest DEF Begin, AskedInv
<1>2. Asked(r)'
  <2>1. rec.op \in {"subclass", "background"} =>
          rec.row \notin rows /\ \A p \in Requests \ {r} : req[p].row # rec.row
    BY DEF Fresh
  <2> QED
    BY <1>1, <2>1 DEF Asked, Own, Inserts
<1>3. ASSUME NEW p \in Requests \ {r} PROVE Asked(p)'
  <2>1. Inserts(p) => rec.row # req[p].row
    BY DEF Asked, AskedInv, Fresh
  <2>2. Asked(p)
    BY DEF AskedInv
  <2> QED
    BY <1>1, <2>1, <2>2 DEF Asked, Own, Inserts
<1> QED
  BY <1>1, <1>2, <1>3 DEF AskedInv

-----------------------------------------------------------------------------
\* Steps that add row x of user u.
LEMMA Arrival ==
    ASSUME ContentInv, GoneInv, NEW u \in users, NEW x \in Rows, x \notin rows, Arrives(u, x),
           users' = users,
           parent' \in [Subclasses -> (rows' \cap Classes) \cup SrdClasses \cup {None}],
           origin' \in [Backgrounds -> (rows' \cap Feats) \cup SrdFeats \cup {None}],
           option' \in [Backgrounds -> AnyFeat \cup {None}],
           \A s \in Subclasses \ {x} : parent'[s] = parent[s],
           \A b \in Backgrounds \ {x} : origin'[b] = origin[b],
           x \in Subclasses /\ parent'[x] \in Classes =>
              parent'[x] \in rows /\ by[parent'[x]] = u /\ ~Doomed(parent'[x]),
           x \in Backgrounds /\ origin'[x] \in Feats => origin'[x] \in rows /\ by[origin'[x]] = u
    PROVE  ContentInv' /\ GoneInv'
<1>1. /\ rows' = rows \cup {x} /\ u \in Authors /\ by' = [by EXCEPT ![x] = u]
      /\ by'[x] = u /\ \A y \in rows : by'[y] = by[y]
      /\ by' \in [Rows -> Authors \cup {None}]
  BY DEF Arrives, ContentInv
<1>2. NothingOrphaned'
  <2>1. ASSUME NEW y \in rows', y # x
        PROVE  /\ Homebrew(y) => by'[y] \in users'
               /\ y \in Subclasses /\ parent'[y] \in Classes => by'[parent'[y]] = by'[y]
               /\ y \in Backgrounds /\ origin'[y] \in Feats => by'[origin'[y]] = by'[y]
    <3>1. y \in rows
      BY <1>1, <2>1
    <3>2. /\ y \in Subclasses => parent'[y] = parent[y]
                                  /\ (parent[y] \in Classes => parent[y] \in rows)
          /\ y \in Backgrounds => origin'[y] = origin[y]
                                  /\ (origin[y] \in Feats => origin[y] \in rows)
      BY <2>1, Disjoint, ContentAssumption DEF ContentInv, Rows
    <3> QED
      BY <1>1, <3>1, <3>2 DEF ContentInv, NothingOrphaned
  <2>2. /\ x \in Subclasses /\ parent'[x] \in Classes => by'[parent'[x]] = by'[x]
        /\ x \in Backgrounds /\ origin'[x] \in Feats => by'[origin'[x]] = by'[x]
    BY <1>1
  <2> QED
    BY <1>1, <2>1, <2>2 DEF NothingOrphaned
<1>3. /\ \A s \in Subclasses : s \notin rows' => parent'[s] = None
      /\ \A b \in Backgrounds : b \notin rows' => origin'[b] = None
      /\ \A y \in rows' : by'[y] \in users' \/ (y \in Published /\ by'[y] = None)
  BY <1>1 DEF ContentInv
<1>4. rows' \subseteq Rows /\ users' \subseteq Authors
  BY <1>1 DEF ContentInv
<1>5. ContentInv'
  BY <1>1, <1>2, <1>3, <1>4 DEF ContentInv
<1>6. /\ purge' \in [Authors -> Deletion]
      /\ \A v \in Authors : /\ purge'[v].pass = purge[v].pass
                            /\ purge'[v].attempt = purge[v].attempt
                            /\ purge'[v].gone = purge[v].gone
  <2>1. CASE purge' = purge
    BY <2>1 DEF GoneInv
  <2>2. CASE purge' # purge
    <3> DEFINE rec == [purge[u] EXCEPT !.late = purge[u].late \cup {purge[u].attempt}]
    <3>1. purge' = [purge EXCEPT ![u] = rec] /\ purge[u].pass > PassOf(x)
      BY <2>2 DEF Arrives
    <3>2. purge[u] \in Deletion /\ purge[u].attempt \in 0..2
      BY <1>1 DEF GoneInv, Deletion, Attempts
    <3>3. PassOf(x) \in 1..5 /\ purge[u].pass \in 0..UserPass /\ UserPass = 6
      BY <3>2, PassesCover DEF Deletion
    <3>4. purge[u].pass > 0
      BY <3>1, <3>3
    <3>5. purge[u].attempt \in 1..Attempts
      BY <1>1, <3>2, <3>4 DEF GoneInv, Attempts
    <3>6. /\ rec \in Deletion /\ rec.pass = purge[u].pass
          /\ rec.attempt = purge[u].attempt /\ rec.gone = purge[u].gone
      BY <3>2, <3>5 DEF Deletion
    <3> HIDE DEF rec
    <3> QED
      BY <1>1, <3>1, <3>6, OneDeletion DEF GoneInv
  <2> QED
    BY <2>1, <2>2
<1>7. ASSUME NEW v \in Authors PROVE purge'[v].gone \subseteq HomebrewBy(v, Rows)'
  BY <1>1, <1>6 DEF GoneInv, HomebrewBy, Homebrew
<1>8. ASSUME NEW v \in Authors, NEW c \in purge[v].gone \cap Classes
      PROVE  SubclassesOf(c)' \subseteq purge[v].gone
  <2>1. c \in rows /\ by[c] = v /\ SubclassesOf(c) \subseteq purge[v].gone
    BY <1>8 DEF GoneInv, HomebrewBy
  <2>2. CASE x \in Subclasses /\ parent'[x] = c
    BY <1>8, <2>2 DEF Doomed
  <2>3. CASE ~(x \in Subclasses /\ parent'[x] = c)
    BY <1>1, <2>1, <2>3 DEF SubclassesOf
  <2> QED
    BY <2>2, <2>3
<1> QED
  BY <1>5, <1>6, <1>7, <1>8 DEF GoneInv

-----------------------------------------------------------------------------
\* Steps that remove the rows of X: no subclass is left without its class, and
\* of the rows that stay only published ones may lose their author.
LEMMA Removal ==
    ASSUME ContentInv, NEW X \in SUBSET Rows,
           users' \subseteq Authors, rows' = rows \ X,
           by' \in [Rows -> Authors \cup {None}],
           \A x \in rows \ X : by'[x] = by[x] \/ (x \in Published /\ by'[x] = None),
           \A x \in rows \ X : by'[x] \in users' \cup {None},
           parent' = [s \in Subclasses |-> IF s \in X THEN None ELSE parent[s]],
           origin' = [b \in Backgrounds |->
                        IF b \in X \/ origin[b] \in X THEN None ELSE origin[b]],
           option' \in [Backgrounds -> AnyFeat \cup {None}],
           \A c \in X \cap Classes : SubclassesOf(c) \subseteq X
    PROVE  ContentInv'
<1>1. ASSUME NEW s \in Subclasses
      PROVE  /\ parent'[s] \in (rows' \cap Classes) \cup SrdClasses \cup {None}
             /\ s \notin rows' => parent'[s] = None
             /\ parent'[s] \in Classes => parent'[s] = parent[s] /\ parent[s] \in rows \ X
                                          /\ s \in rows \ X
  <2>1. parent[s] \in (rows \cap Classes) \cup SrdClasses \cup {None}
        /\ (s \notin rows => parent[s] = None)
    BY DEF ContentInv
  <2>2. parent[s] \in Classes => parent[s] \in rows
    BY <2>1, ContentAssumption DEF Rows
  <2>3. parent[s] \in X /\ parent[s] \in Classes => s \in X
    BY <2>1, ContentAssumption DEF SubclassesOf, Rows
  <2>4. None \notin Classes
    BY ContentAssumption DEF Rows
  <2> QED
    BY <2>1, <2>2, <2>3, <2>4
<1>2. ASSUME NEW b \in Backgrounds
      PROVE  /\ origin'[b] \in (rows' \cap Feats) \cup SrdFeats \cup {None}
             /\ b \notin rows' => origin'[b] = None
             /\ origin'[b] \in Feats => origin'[b] = origin[b] /\ origin[b] \in rows \ X
                                        /\ b \in rows \ X
  <2>1. origin[b] \in (rows \cap Feats) \cup SrdFeats \cup {None}
        /\ (b \notin rows => origin[b] = None)
    BY DEF ContentInv
  <2>2. origin[b] \in Feats => origin[b] \in rows
    BY <2>1, ContentAssumption DEF Rows
  <2>3. None \notin Feats
    BY ContentAssumption DEF Rows
  <2> QED
    BY <2>1, <2>2, <2>3
<1>3. NothingOrphaned'
  <2>1. ASSUME NEW x \in rows'
        PROVE  /\ Homebrew(x) => by'[x] \in users'
               /\ x \in Subclasses /\ parent'[x] \in Classes => by'[parent'[x]] = by'[x]
               /\ x \in Backgrounds /\ origin'[x] \in Feats => by'[origin'[x]] = by'[x]
    <3>1. x \in rows \ X
      OBVIOUS
    <3>2. None \notin users /\ (Homebrew(x) => by[x] \in users)
      BY <3>1, ContentAssumption DEF ContentInv, NothingOrphaned
    <3>3. Homebrew(x) => by'[x] \in users'
      BY <3>1, <3>2 DEF Homebrew
    <3>4. x \in Subclasses /\ parent'[x] \in Classes => by'[parent'[x]] = by'[x]
      BY <1>1, <3>1, Disjoint DEF ContentInv, NothingOrphaned
    <3>5. x \in Backgrounds /\ origin'[x] \in Feats => by'[origin'[x]] = by'[x]
      BY <1>2, <3>1, Disjoint DEF ContentInv, NothingOrphaned
    <3> QED
      BY <3>3, <3>4, <3>5
  <2> QED
    BY <2>1 DEF NothingOrphaned
<1>4. \A x \in rows' : by'[x] \in users' \/ (x \in Published /\ by'[x] = None)
  BY <1>3, ContentAssumption DEF NothingOrphaned, Homebrew
<1>5. /\ parent' \in [Subclasses -> (rows' \cap Classes) \cup SrdClasses \cup {None}]
      /\ origin' \in [Backgrounds -> (rows' \cap Feats) \cup SrdFeats \cup {None}]
  BY <1>1, <1>2
<1> QED
  BY <1>1, <1>2, <1>3, <1>4, <1>5 DEF ContentInv

\* A row that no deletion has emptied goes: the deletions under way still hold
\* rows of their users, and every subclass of their classes.
LEMMA GoneSurvives ==
    ASSUME ContentInv, GoneInv, purge' = purge, rows' \subseteq rows,
           \A u \in Authors : \A x \in purge[u].gone : x \in rows' /\ by'[x] = by[x],
           \A s \in Subclasses : s \in rows' => parent'[s] = parent[s]
    PROVE  GoneInv'
<1>1. ASSUME NEW u \in Authors PROVE purge[u].gone \subseteq HomebrewBy(u, Rows)'
  BY DEF GoneInv, HomebrewBy
<1>2. ASSUME NEW u \in Authors, NEW c \in purge[u].gone \cap Classes
      PROVE  SubclassesOf(c)' \subseteq purge[u].gone
  BY <1>2 DEF GoneInv, SubclassesOf
<1> QED
  BY <1>1, <1>2 DEF GoneInv

-----------------------------------------------------------------------------
LEMMA CreateKeeps ==
    ASSUME IInv, NEW u \in Authors, NEW x \in Rows, Create(u, x)
    PROVE  IInv'
<1>1. /\ u \in users /\ x \notin rows /\ Arrives(u, x) /\ users' = users /\ req' = req
      /\ parent' = parent /\ origin' = origin /\ option' = option
      /\ x \notin Subclasses \cup Backgrounds
  BY Disjoint DEF Create, Fresh
<1>2. rows' = rows \cup {x} /\ \A y \in rows : by'[y] = by[y]
  BY <1>1 DEF Arrives, IInv, ContentInv
<1>3. ContentInv' /\ GoneInv'
  BY <1>1, <1>2, Arrival DEF IInv, ContentInv
<1>4. \A p \in Requests : x \notin {req[p].row, req[p].link}
  BY DEF Create, Fresh
<1>5. AskedInv'
  BY <1>1, <1>2, <1>4, AskedSurvives DEF IInv
<1> QED
  BY <1>3, <1>5 DEF IInv

\* The two inserts that come after a read: what arrives is what was checked, or
\* nothing.
LEMMA InsertKeeps ==
    ASSUME IInv, NEW r \in Requests, InsertSubclass(r) \/ InsertBackground(r)
    PROVE  IInv'
<1> DEFINE q == req[r]
<1>1. /\ Asked(r) /\ Inserts(r) /\ q.op # "idle" /\ q.row \notin rows /\ q.row \in Rows
      /\ q.row \in Subclasses \cup Backgrounds /\ ~Doomed(q.link) /\ Own(q.user, q.link)
      /\ Finish(r) /\ users' = users
  BY DEF InsertSubclass, InsertBackground, Asked, Inserts, IInv, AskedInv, Rows
<1>2. req'[r] # req[r] /\ \A p \in Requests \ {r} : req'[p] = req[p]
  BY <1>1, Finished DEF IInv, AskedInv
<1>3. CASE q.user \in users /\ Referable(q.link)
  <2>1. /\ Arrives(q.user, q.row)
        /\ rows' = rows \cup {q.row} /\ \A y \in rows : by'[y] = by[y]
    BY <1>1, <1>3 DEF InsertSubclass, InsertBackground, Arrives, IInv, ContentInv
  <2>2. \A p \in Requests \ {r} : q.row \notin {req[p].row, req[p].link}
    <3>1. \A p \in Requests : req[p].link \in AnyFeat \cup AnyClass \cup {None, Absent}
      BY DEF IInv, AskedInv, Request
    <3>2. q.row \notin AnyFeat \cup AnyClass \cup {None, Absent}
      BY <1>1, Disjoint, ContentAssumption DEF AnyFeat, AnyClass
    <3> QED
      BY <1>1, <3>1, <3>2 DEF Asked
  <2>3. AskedInv'
    BY <1>1, <1>2, <2>1, <2>2, AskedSurvives DEF IInv
  <2>4. q.link \in Rows => q.link \in rows /\ by[q.link] = q.user
    BY <1>1, <1>3, ContentAssumption DEF Referable, Own
  <2>5. CASE InsertSubclass(r)
    <3>1. /\ parent' = [parent EXCEPT ![q.row] = q.link] /\ origin' = origin
          /\ option' = option /\ q.row \in Subclasses /\ q.link \in AnyClass
      BY <1>1, <1>3, <2>5 DEF InsertSubclass, Asked
    <3>2. q.link \in (rows \cap Classes) \cup SrdClasses
      BY <2>4, <3>1 DEF AnyClass, Rows
    <3>3. /\ parent' \in [Subclasses -> (rows' \cap Classes) \cup SrdClasses \cup {None}]
          /\ parent'[q.row] = q.link
          /\ \A s \in Subclasses \ {q.row} : parent'[s] = parent[s]
      BY <2>1, <3>1, <3>2 DEF IInv, ContentInv
    <3>4. /\ origin' \in [Backgrounds -> (rows' \cap Feats) \cup SrdFeats \cup {None}]
          /\ option' \in [Backgrounds -> AnyFeat \cup {None}] /\ q.row \notin Backgrounds
      BY <2>1, <3>1, Disjoint DEF IInv, ContentInv
    <3>5. parent'[q.row] \in Classes =>
            parent'[q.row] \in rows /\ by[parent'[q.row]] = q.user /\ ~Doomed(parent'[q.row])
      BY <1>1, <2>4, <3>3 DEF Rows
    <3>6. ContentInv' /\ GoneInv'
      BY <1>1, <1>3, <2>1, <3>1, <3>3, <3>4, <3>5, Arrival DEF IInv
    <3> QED
      BY <2>3, <3>6 DEF IInv
  <2>6. CASE InsertBackground(r)
    <3>1. /\ origin' = [origin EXCEPT ![q.row] = q.link] /\ parent' = parent
          /\ option' = [option EXCEPT ![q.row] = q.choice] /\ q.row \in Backgrounds
          /\ q.link \in AnyFeat \cup {None} /\ q.choice \in AnyFeat \cup {None}
      BY <1>1, <1>3, <2>6 DEF InsertBackground, Asked
    <3>2. q.link \in (rows \cap Feats) \cup SrdFeats \cup {None}
      BY <2>4, <3>1 DEF AnyFeat, Rows
    <3>3. /\ origin' \in [Backgrounds -> (rows' \cap Feats) \cup SrdFeats \cup {None}]
          /\ origin'[q.row] = q.link
          /\ \A b \in Backgrounds \ {q.row} : origin'[b] = origin[b]
      BY <2>1, <3>1, <3>2 DEF IInv, ContentInv
    <3>4. /\ parent' \in [Subclasses -> (rows' \cap Classes) \cup SrdClasses \cup {None}]
          /\ option' \in [Backgrounds -> AnyFeat \cup {None}] /\ q.row \notin Subclasses
      BY <2>1, <3>1, Disjoint DEF IInv, ContentInv
    <3>5. origin'[q.row] \in Feats => origin'[q.row] \in rows /\ by[origin'[q.row]] = q.user
      BY <2>4, <3>3 DEF Rows
    <3>6. ContentInv' /\ GoneInv'
      BY <1>1, <1>3, <2>1, <3>1, <3>3, <3>4, <3>5, Arrival DEF IInv
    <3> QED
      BY <2>3, <3>6 DEF IInv
  <2> QED
    BY <2>5, <2>6
<1>4. CASE ~(q.user \in users /\ Referable(q.link))
  <2>1. UNCHANGED <<users, content, purge>>
    BY <1>4 DEF InsertSubclass, InsertBackground, content
  <2>2. AskedInv'
    BY <1>1, <2>1, AskedSurvives DEF IInv, content
  <2> QED
    BY <2>1, <2>2 DEF IInv, content, ContentInv, NothingOrphaned, GoneInv, HomebrewBy,
       SubclassesOf
<1> QED
  BY <1>3, <1>4

\* A handler reads, and begins: no content changes.
LEMMA AsksKeep ==
    ASSUME IInv, NEW r \in Requests, NEW u \in Authors, Asks(r, u)
    PROVE  IInv'
<1>1. UNCHANGED <<users, content, purge>>
  BY DEF Asks, CheckParent, CheckOrigin, PatchRead, CountSubclasses, ClearOptions
<1>2. ContentInv' /\ GoneInv'
  BY <1>1 DEF IInv, content, ContentInv, NothingOrphaned, GoneInv, HomebrewBy, SubclassesOf
<1>3. ASSUME NEW rec \in Request, Begin(r, rec),
             rec.op = "subclass" => rec.row \in Subclasses /\ rec.link \in AnyClass,
             rec.op = "background" => rec.row \in Backgrounds /\ rec.link \in AnyFeat \cup {None}
                                        /\ rec.choice \in AnyFeat \cup {None},
             rec.op = "patch" => rec.row \in Backgrounds
                                   /\ rec.link \in AnyFeat \cup {None, Absent}
                                   /\ Own(rec.user, rec.row),
             rec.op = "class" => rec.row \in Classes,
             rec.op = "feat" => rec.row \in Feats,
             rec.op \in {"subclass", "background", "patch"} => Own(rec.user, rec.link),
             IF rec.op \in {"subclass", "background"} THEN Fresh(rec.row) ELSE rec.row \in rows
      PROVE  AskedInv'
  BY <1>1, <1>3, AskedBegins DEF IInv, content
<1>4. ASSUME NEW s \in Subclasses, NEW c \in AnyClass, CheckParent(r, u, s, c)
      PROVE  AskedInv'
  <2> DEFINE rec == [op |-> "subclass", user |-> u, row |-> s, link |-> c, choice |-> None,
                     read |-> None, kept |-> {}]
  <2>1. rec \in Request /\ Begin(r, rec)
    BY <1>4 DEF CheckParent, Step, Request, Rows
  <2>2. rec.op = "subclass" /\ rec.row = s /\ rec.link = c /\ rec.user = u
    OBVIOUS
  <2>3. Own(u, c) /\ Fresh(s)
    BY <1>4 DEF CheckParent, Sees, Own, IInv, ContentInv
  <2> HIDE DEF rec
  <2> QED
    BY <1>3, <2>1, <2>2, <2>3
<1>5. ASSUME NEW b \in Backgrounds, NEW f \in AnyFeat \cup {None}, NEW chooses \in BOOLEAN,
             CheckOrigin(r, u, b, f, chooses)
      PROVE  AskedInv'
  <2> DEFINE choice == IF chooses THEN f ELSE None
             rec == [op |-> "background", user |-> u, row |-> b, link |-> f, choice |-> choice,
                     read |-> None, kept |-> {}]
  <2>1. choice \in AnyFeat \cup {None}
    OBVIOUS
  <2>2. Begin(r, [Step("background", u, b, f) EXCEPT !.choice = choice])
    BY <1>5 DEF CheckOrigin
  <2> HIDE DEF choice
  <2>3. [Step("background", u, b, f) EXCEPT !.choice = choice] = rec
    BY DEF Step
  <2>4. rec \in Request
    BY <2>1 DEF Request, Rows
  <2>5. rec.op = "background" /\ rec.row = b /\ rec.link = f /\ rec.user = u
        /\ rec.choice = choice
    OBVIOUS
  <2>6. Own(u, f) /\ Fresh(b)
    BY <1>5, ContentAssumption DEF CheckOrigin, Sees, Own, IInv, ContentInv
  <2> HIDE DEF rec
  <2> QED
    BY <1>3, <2>1, <2>2, <2>3, <2>4, <2>5, <2>6
<1>6. ASSUME NEW b \in Backgrounds, NEW f \in AnyFeat \cup {None, Absent},
             NEW o \in {"chosen", None, Absent}, PatchRead(r, u, b, f, o)
      PROVE  AskedInv'
  <2> DEFINE was == origin[b]
             choice == Choice(was, f, o)
             rec == [op |-> "patch", user |-> u, row |-> b, link |-> f, choice |-> choice,
                     read |-> was, kept |-> {}]
  <2>1. was \in AnyFeat \cup {None}
    BY DEF IInv, ContentInv, AnyFeat
  <2>2. choice \in AnyFeat \cup {None, Absent}
    <3> HIDE DEF was
    <3> DEFINE linked == IF f = Absent THEN was ELSE f
    <3>1. linked \in AnyFeat \cup {None}
      BY <2>1
    <3>2. choice \in {None, IF o = "chosen" THEN linked ELSE o}
      BY DEF Choice
    <3> QED
      BY <3>1, <3>2
  <2>3. Begin(r, [Step("patch", u, b, f) EXCEPT !.choice = choice, !.read = was])
    BY <1>6 DEF PatchRead
  <2> HIDE DEF choice, was
  <2>4. [Step("patch", u, b, f) EXCEPT !.choice = choice, !.read = was] = rec
    <3>1. [Step("patch", u, b, f) EXCEPT !.choice = choice]
          = [op |-> "patch", user |-> u, row |-> b, link |-> f, choice |-> choice,
             read |-> None, kept |-> {}]
      BY DEF Step
    <3>2. [[op |-> "patch", user |-> u, row |-> b, link |-> f, choice |-> choice,
            read |-> None, kept |-> {}] EXCEPT !.read = was] = rec
      OBVIOUS
    <3>3. [Step("patch", u, b, f) EXCEPT !.choice = choice, !.read = was]
          = [[Step("patch", u, b, f) EXCEPT !.choice = choice] EXCEPT !.read = was]
      OBVIOUS
    <3> HIDE DEF rec
    <3> QED
      BY <3>1, <3>2, <3>3
  <2>5. rec \in Request
    BY <2>1, <2>2 DEF Request, Rows
  <2>6. rec.op = "patch" /\ rec.row = b /\ rec.link = f /\ rec.user = u
    OBVIOUS
  <2>7. Own(u, f) /\ Own(u, b) /\ b \in rows
    <3>1. b \notin Published
      BY Disjoint
    <3> QED
      BY <1>6, <3>1, ContentAssumption
         DEF PatchRead, MayWrite, Homebrew, Sees, Own, IInv, ContentInv
  <2> HIDE DEF rec
  <2> QED
    BY <1>3, <2>3, <2>4, <2>5, <2>6, <2>7
<1>7. ASSUME NEW c \in Classes, CountSubclasses(r, u, c)
      PROVE  AskedInv'
  <2> DEFINE rec == [op |-> "class", user |-> u, row |-> c, link |-> None, choice |-> None,
                     read |-> None, kept |-> {}]
  <2>1. rec \in Request /\ Begin(r, rec)
    BY <1>7 DEF CountSubclasses, Step, Request, Rows
  <2>2. rec.op = "class" /\ rec.row = c /\ c \in rows
    BY <1>7 DEF CountSubclasses, MayWrite
  <2> HIDE DEF rec
  <2> QED
    BY <1>3, <2>1, <2>2
<1>8. ASSUME NEW f \in Feats, ClearOptions(r, u, f)
      PROVE  AskedInv'
  <2> DEFINE kept == BackgroundsOf(f)
             rec == [op |-> "feat", user |-> u, row |-> f, link |-> None, choice |-> None,
                     read |-> None, kept |-> kept]
  <2>1. kept \subseteq Backgrounds
    BY DEF BackgroundsOf
  <2>2. Begin(r, [Step("feat", u, f, None) EXCEPT !.kept = kept])
    BY <1>8 DEF ClearOptions
  <2> HIDE DEF kept
  <2>3. [Step("feat", u, f, None) EXCEPT !.kept = kept] = rec
    BY DEF Step
  <2>4. rec \in Request
    BY <2>1 DEF Request, Rows
  <2>5. rec.op = "feat" /\ rec.row = f /\ f \in rows
    BY <1>8 DEF ClearOptions, MayWrite
  <2> HIDE DEF rec
  <2> QED
    BY <1>3, <2>2, <2>3, <2>4, <2>5
<1>9. AskedInv'
  BY <1>4, <1>5, <1>6, <1>7, <1>8 DEF Asks
<1> QED
  BY <1>2, <1>9 DEF IInv

\* PATCH: the row may be linked to a feat of its author, if both still exist.
LEMMA PatchKeeps ==
    ASSUME IInv, NEW r \in Requests, PatchWrite(r)
    PROVE  IInv'
<1> DEFINE q == req[r]
<1>1. /\ q.row \in Backgrounds /\ q.link \in AnyFeat \cup {None, Absent}
      /\ Own(q.user, q.row) /\ Own(q.user, q.link) /\ ~Doomed(q.link)
      /\ Finish(r) /\ UNCHANGED <<users, rows, by, parent, purge>>
      /\ q.choice \in AnyFeat \cup {None, Absent}
  BY DEF PatchWrite, IInv, AskedInv, Asked, Request
<1>2. AskedInv' /\ GoneInv'
  <2>1. AskedInv'
    BY <1>1, AskedSurvives DEF IInv
  <2>2. GoneInv'
    BY <1>1 DEF IInv, GoneInv, HomebrewBy, SubclassesOf
  <2> QED
    BY <2>1, <2>2
<1>3. /\ origin' = origin \/ (/\ origin' = [origin EXCEPT ![q.row] = q.link]
                              /\ q.row \in rows /\ Referable(q.link) /\ q.link # Absent)
      /\ option' = option \/ (/\ option' = [option EXCEPT ![q.row] = q.choice]
                              /\ q.choice # Absent)
  BY <1>1 DEF PatchWrite
<1>4. option' \in [Backgrounds -> AnyFeat \cup {None}]
  BY <1>1, <1>3 DEF IInv, ContentInv
<1>5. CASE origin' = origin
  BY <1>1, <1>2, <1>4, <1>5 DEF IInv, ContentInv, NothingOrphaned
<1>6. CASE origin' # origin
  <2>1. /\ origin' = [origin EXCEPT ![q.row] = q.link] /\ q.row \in rows
        /\ Referable(q.link) /\ q.link \in AnyFeat \cup {None} /\ by[q.row] = q.user
    BY <1>1, <1>3, <1>6 DEF Own
  <2>2. q.link \in Feats => q.link \in rows /\ by[q.link] = q.user
    BY <1>1, <2>1, ContentAssumption DEF Referable, Own, Rows
  <2>3. q.link \in (rows \cap Feats) \cup SrdFeats \cup {None}
    BY <2>1, <2>2 DEF AnyFeat
  <2>4. /\ origin' \in [Backgrounds -> (rows \cap Feats) \cup SrdFeats \cup {None}]
        /\ origin'[q.row] = q.link
        /\ \A b \in Backgrounds \ {q.row} : origin'[b] = origin[b]
    BY <1>1, <2>1, <2>3 DEF IInv, ContentInv
  <2>5. NothingOrphaned'
    BY <1>1, <2>1, <2>2, <2>4 DEF IInv, ContentInv, NothingOrphaned, Homebrew
  <2>6. \A b \in Backgrounds : b \notin rows => origin'[b] = None
    BY <2>1, <2>4 DEF IInv, ContentInv
  <2>7. ContentInv'
    BY <1>1, <1>4, <2>4, <2>5, <2>6 DEF IInv, ContentInv
  <2> QED
    BY <1>2, <2>7 DEF IInv
<1> QED
  BY <1>5, <1>6

\* The rows of X go at their author's word; none is one that a deletion has
\* emptied, and no class leaves a subclass behind.
LEMMA DeletedKeeps ==
    ASSUME IInv, NEW X \in SUBSET Rows, Deleted(X), UNCHANGED <<users, purge>>,
           option' \in [Backgrounds -> AnyFeat \cup {None}],
           req' = req \/ \E r \in Requests : Finish(r),
           \A x \in X : ~Doomed(x),
           \A c \in X \cap Classes : SubclassesOf(c) \subseteq X
    PROVE  IInv'
<1>1. /\ rows' = rows \ X /\ users' = users /\ purge' = purge
      /\ by' \in [Rows -> Authors \cup {None}]
      /\ \A x \in rows \ X : by'[x] = by[x]
      /\ parent' = [s \in Subclasses |-> IF s \in X THEN None ELSE parent[s]]
      /\ origin' = [b \in Backgrounds |->
                      IF b \in X \/ origin[b] \in X THEN None ELSE origin[b]]
  BY DEF Deleted, IInv, ContentInv
<1>2. ContentInv'
  BY <1>1, Removal DEF IInv, ContentInv
<1>3. AskedInv'
  BY <1>1, AskedSurvives DEF IInv
<1>4. GoneInv'
  <2>1. \A u \in Authors : \A x \in purge[u].gone : x \in rows' /\ by'[x] = by[x]
    BY <1>1 DEF Doomed, IInv, GoneInv, HomebrewBy
  <2>2. \A s \in Subclasses : s \in rows' => parent'[s] = parent[s]
    BY <1>1
  <2> QED
    BY <1>1, <2>1, <2>2, GoneSurvives DEF IInv
<1> QED
  BY <1>2, <1>3, <1>4 DEF IInv

LEMMA RemovesKeep ==
    ASSUME IInv,
           \/ \E u \in Authors, x \in Rows : Remove(u, x)
           \/ \E r \in Requests : DeleteClass(r) \/ DeleteFeat(r) \/ FeatDeletionFails(r)
    PROVE  IInv'
<1>1. ASSUME NEW u \in Authors, NEW x \in Rows, Remove(u, x) PROVE IInv'
  <2>1. ~Doomed(x) /\ x \notin Classes /\ Deleted({x}) /\ UNCHANGED <<users, purge, req>>
    BY <1>1, Disjoint DEF Remove, Held
  <2>2. option' \in [Backgrounds -> AnyFeat \cup {None}]
    BY <1>1 DEF Remove, IInv, ContentInv
  <2> QED
    BY <2>1, <2>2, DeletedKeeps
<1>2. ASSUME NEW r \in Requests, Finish(r), UNCHANGED <<users, content, purge>> PROVE IInv'
  <2>1. AskedInv'
    BY <1>2, AskedSurvives DEF IInv, content
  <2> QED
    BY <1>2, <2>1 DEF IInv, content, ContentInv, NothingOrphaned, GoneInv, HomebrewBy,
       SubclassesOf
<1>3. ASSUME NEW r \in Requests, DeleteClass(r) PROVE IInv'
  <2> DEFINE c == req[r].row
  <2>1. c \in Classes /\ ~Doomed(c) /\ Finish(r) /\ UNCHANGED <<users, option, purge>>
    BY <1>3 DEF DeleteClass, IInv, AskedInv, Asked
  <2>2. CASE c \in rows /\ SubclassesOf(c) = {}
    <3>1. Deleted({c}) /\ {c} \in SUBSET Rows
      BY <1>3, <2>1, <2>2 DEF DeleteClass, Rows
    <3>2. option' \in [Backgrounds -> AnyFeat \cup {None}]
      BY <2>1 DEF IInv, ContentInv
    <3> HIDE DEF c
    <3> QED
      BY <2>1, <2>2, <3>1, <3>2, DeletedKeeps
  <2>3. CASE ~(c \in rows /\ SubclassesOf(c) = {})
    BY <1>2, <1>3, <2>1, <2>3 DEF DeleteClass, content
  <2> QED
    BY <2>2, <2>3
<1>4. ASSUME NEW r \in Requests, DeleteFeat(r) PROVE IInv'
  <2> DEFINE f == req[r].row
  <2>1. f \in Feats /\ f \notin Classes /\ ~Doomed(f) /\ Finish(r) /\ UNCHANGED <<users, purge>>
    BY <1>4, Disjoint DEF DeleteFeat, IInv, AskedInv, Asked
  <2>2. CASE f \in rows
    <3>1. Deleted({f}) /\ {f} \in SUBSET Rows
      BY <1>4, <2>1, <2>2 DEF DeleteFeat, Rows
    <3>2. option' \in [Backgrounds -> AnyFeat \cup {None}]
      BY <1>4, <2>2 DEF DeleteFeat, OptionsCleared, IInv, ContentInv
    <3> HIDE DEF f
    <3> QED
      BY <2>1, <3>1, <3>2, DeletedKeeps
  <2>3. CASE f \notin rows
    BY <1>2, <1>4, <2>1, <2>3 DEF DeleteFeat, content
  <2> QED
    BY <2>2, <2>3
<1>5. ASSUME NEW r \in Requests, FeatDeletionFails(r) PROVE IInv'
  BY <1>2, <1>5 DEF FeatDeletionFails
<1> QED
  BY <1>1, <1>3, <1>4, <1>5

-----------------------------------------------------------------------------
\* Passes of a deletion change nothing but what it has emptied.
LEMMA PurgeOnly ==
    ASSUME IInv, NEW u \in Authors, NEW rec \in Deletion,
           purge' = [purge EXCEPT ![u] = rec], UNCHANGED <<users, content, req>>,
           rec.pass > 0 => rec.attempt > 0,
           rec.gone \subseteq HomebrewBy(u, Rows),
           \A c \in rec.gone \cap Classes : SubclassesOf(c) \subseteq rec.gone
    PROVE  IInv'
<1>1. /\ purge' \in [Authors -> Deletion] /\ purge'[u] = rec
      /\ \A v \in Authors \ {u} : purge'[v] = purge[v]
  BY OneDeletion DEF IInv, GoneInv
<1>2. GoneInv'
  <2>1. ASSUME NEW v \in Authors
        PROVE  /\ purge'[v].pass > 0 => purge'[v].attempt > 0
               /\ purge'[v].gone \subseteq HomebrewBy(v, Rows)
               /\ \A c \in purge'[v].gone \cap Classes : SubclassesOf(c) \subseteq purge'[v].gone
    <3>1. CASE v = u
      BY <1>1, <3>1
    <3>2. CASE v # u
      BY <1>1, <3>2 DEF IInv, GoneInv
    <3> QED
      BY <3>1, <3>2
  <2> QED
    BY <1>1, <2>1 DEF GoneInv, content, HomebrewBy, SubclassesOf
<1>3. AskedInv'
  BY AskedSurvives DEF IInv, content
<1> QED
  BY <1>2, <1>3 DEF IInv, content, ContentInv, NothingOrphaned

LEMMA NoDeletionYet ==
    /\ NoDeletion \in Deletion
    /\ ~(NoDeletion.pass > 0) /\ NoDeletion.gone = {}
  BY PassesCover DEF NoDeletion, Deletion, Attempts

LEMMA ConflictKeeps ==
    ASSUME IInv, NEW u \in Authors, Conflict(u), purge[u].pass > 0,
           UNCHANGED <<users, content, req>>
    PROVE  IInv'
<1>1. purge[u] \in Deletion /\ purge[u].attempt \in 0..2 /\ purge[u].attempt > 0
  BY DEF IInv, GoneInv, Deletion, Attempts
<1>2. CASE purge[u].attempt < Attempts
  <2> DEFINE rec == [purge[u] EXCEPT !.pass = 1, !.attempt = purge[u].attempt + 1, !.gone = {}]
  <2>1. purge' = [purge EXCEPT ![u] = rec]
    BY <1>2 DEF Conflict
  <2>2. 1 \in 0..UserPass /\ purge[u].attempt + 1 \in 0..Attempts /\ purge[u].attempt + 1 > 0
    BY <1>1, <1>2, PassesCover DEF Attempts
  <2>3. rec \in Deletion /\ rec.attempt = purge[u].attempt + 1 /\ rec.gone = {}
    BY <1>1, <2>2 DEF Deletion
  <2> HIDE DEF rec
  <2> QED
    BY <2>1, <2>2, <2>3, PurgeOnly
<1>3. CASE ~(purge[u].attempt < Attempts)
  <2> DEFINE rec == [NoDeletion EXCEPT !.late = purge[u].late, !.refused = TRUE]
  <2>1. purge' = [purge EXCEPT ![u] = rec]
    BY <1>3 DEF Conflict
  <2>2. /\ rec \in Deletion /\ rec.pass = NoDeletion.pass /\ rec.gone = NoDeletion.gone
    BY <1>1, NoDeletionYet DEF Deletion
  <2> HIDE DEF rec
  <2>3. ~(rec.pass > 0) /\ rec.gone = {}
    BY <2>2, NoDeletionYet
  <2> QED
    BY <2>1, <2>2, <2>3, PurgeOnly
<1> QED
  BY <1>2, <1>3

LEMMA PassKeeps ==
    ASSUME IInv, NEW u \in Authors, DeletePass(u)
    PROVE  IInv'
<1> DEFINE found == HomebrewBy(u, Passes[purge[u].pass])
           gone == purge[u].gone
<1>1. purge[u].pass \in 1..5 /\ purge[u] \in Deletion /\ UNCHANGED <<users, content, req>>
      /\ purge[u].pass > 0
  BY PassesCover DEF DeletePass, IInv, GoneInv
<1>2. found \subseteq HomebrewBy(u, Rows) /\ gone \subseteq HomebrewBy(u, Rows)
      /\ HomebrewBy(u, Rows) \subseteq Rows
      /\ \A c \in gone \cap Classes : SubclassesOf(c) \subseteq gone
  BY <1>1, PassesCover DEF HomebrewBy, IInv, GoneInv
<1>3. CASE Conflict(u)
  BY <1>1, <1>3, ConflictKeeps
<1>4. CASE ~Conflict(u)
  <2> DEFINE rec == [purge[u] EXCEPT !.pass = purge[u].pass + 1, !.gone = gone \cup found]
  <2>1. /\ purge' = [purge EXCEPT ![u] = rec]
        /\ \A c \in found \cap Classes : SubclassesOf(c) \subseteq gone
    BY <1>4 DEF DeletePass
  <2>2. gone \cup found \in SUBSET Rows
    BY <1>2
  <2>3. /\ rec \in Deletion /\ rec.gone = gone \cup found /\ rec.attempt > 0
    <3>1. purge[u].attempt > 0 /\ purge[u].pass + 1 \in 0..UserPass
      BY <1>1, PassesCover DEF IInv, GoneInv
    <3> HIDE DEF found
    <3> QED
      BY <1>1, <2>2, <3>1 DEF Deletion
  <2> HIDE DEF rec
  <2>4. /\ rec.gone \subseteq HomebrewBy(u, Rows)
        /\ \A c \in rec.gone \cap Classes : SubclassesOf(c) \subseteq rec.gone
    BY <1>2, <2>1, <2>3
  <2> QED
    BY <1>1, <2>1, <2>3, <2>4, PurgeOnly
<1> QED
  BY <1>3, <1>4

\* The account goes: all homebrew of its author is among the rows it takes, and
\* the deletions of others have emptied none of them.
LEMMA DeleteUserKeeps ==
    ASSUME IInv, NEW u \in Authors, DeleteUser(u)
    PROVE  IInv'
<1> DEFINE X == purge[u].gone
<1>1. CASE LeftBy(u) # {}
  <2>1. Conflict(u) /\ UNCHANGED <<users, content, req>> /\ purge[u].pass > 0
    BY <1>1, PassesCover DEF DeleteUser
  <2> QED
    BY <2>1, ConflictKeeps
<1>2. CASE LeftBy(u) = {}
  <2>1. /\ users' = users \ {u} /\ rows' = rows \ X /\ req' = req
        /\ by' = [x \in Rows |-> IF x \in X \/ by[x] = u THEN None ELSE by[x]]
        /\ parent' = [s \in Subclasses |-> IF s \in X THEN None ELSE parent[s]]
        /\ origin' = [b \in Backgrounds |->
                        IF b \in X \/ origin[b] \in X THEN None ELSE origin[b]]
        /\ option' = [b \in Backgrounds |-> IF b \in X THEN None ELSE option[b]]
        /\ purge' = [purge EXCEPT ![u] = NoDeletion]
    BY <1>2 DEF DeleteUser
  <2>2. X \subseteq HomebrewBy(u, Rows) /\ X \in SUBSET Rows
        /\ HomebrewBy(u, Rows) \subseteq X
        /\ \A c \in X \cap Classes : SubclassesOf(c) \subseteq X
    BY <1>2 DEF IInv, GoneInv, LeftBy, HomebrewBy
  <2>3. /\ by' \in [Rows -> Authors \cup {None}]
        /\ \A x \in rows \ X : by'[x] = (IF by[x] = u THEN None ELSE by[x])
    BY <2>1 DEF IInv, ContentInv
  <2>4. \A x \in rows \ X : by[x] = u => x \in Published
    BY <2>2 DEF HomebrewBy, Homebrew, IInv, ContentInv
  <2>5. ContentInv'
    <3>1. \A x \in rows \ X : /\ by'[x] = by[x] \/ (x \in Published /\ by'[x] = None)
                              /\ by'[x] \in users' \cup {None}
      BY <2>1, <2>3, <2>4 DEF IInv, ContentInv
    <3>2. option' \in [Backgrounds -> AnyFeat \cup {None}] /\ users' \subseteq Authors
      BY <2>1 DEF IInv, ContentInv
    <3> QED
      BY <2>1, <2>2, <2>3, <3>1, <3>2, Removal DEF IInv
  <2>6. AskedInv'
    BY <2>1, <2>3, <2>4, AskedSurvives DEF IInv
  <2>7. NoDeletion \in Deletion /\ NoDeletion.pass = 0 /\ NoDeletion.gone = {}
    BY PassesCover DEF NoDeletion, Deletion, Attempts
  <2>8. /\ purge' \in [Authors -> Deletion] /\ purge'[u] = NoDeletion
        /\ \A v \in Authors \ {u} : purge'[v] = purge[v]
    BY <2>1, <2>7, OneDeletion DEF IInv, GoneInv
  <2>9. GoneInv'
    <3>1. ASSUME NEW v \in Authors, v # u
          PROVE  /\ purge[v].gone \subseteq HomebrewBy(v, Rows)'
                 /\ \A c \in purge[v].gone \cap Classes : SubclassesOf(c)' \subseteq purge[v].gone
      <4>1. purge[v].gone \subseteq HomebrewBy(v, Rows)
            /\ \A c \in purge[v].gone \cap Classes : SubclassesOf(c) \subseteq purge[v].gone
        BY DEF IInv, GoneInv
      <4>2. \A x \in purge[v].gone : x \in rows' /\ by'[x] = v /\ Homebrew(x) /\ x \in Rows
        BY <2>1, <2>2, <2>3, <3>1, <4>1 DEF HomebrewBy
      <4>3. \A s \in Subclasses : s \in rows' => s \in rows /\ parent'[s] = parent[s]
        BY <2>1
      <4>4. ASSUME NEW c \in purge[v].gone \cap Classes
            PROVE  SubclassesOf(c)' \subseteq purge[v].gone
        BY <4>1, <4>3 DEF SubclassesOf
      <4> QED
        BY <4>2, <4>4 DEF HomebrewBy
    <3>2. \A v \in Authors : purge'[v].pass > 0 => purge'[v].attempt > 0
      BY <2>7, <2>8 DEF IInv, GoneInv
    <3>3. ASSUME NEW v \in Authors
          PROVE  /\ purge'[v].gone \subseteq HomebrewBy(v, Rows)'
                 /\ \A c \in purge'[v].gone \cap Classes :
                      SubclassesOf(c)' \subseteq purge'[v].gone
      BY <2>7, <2>8, <3>1
    <3> QED
      BY <2>8, <3>2, <3>3 DEF GoneInv
  <2> QED
    BY <2>5, <2>6, <2>9 DEF IInv
<1> QED
  BY <1>1, <1>2

LEMMA DeletionsKeep ==
    ASSUME IInv, NEW u \in Authors, BeginDeletion(u) \/ DeletionFails(u)
    PROVE  IInv'
<1>1. CASE BeginDeletion(u)
  <2> DEFINE rec == [NoDeletion EXCEPT !.pass = 1, !.attempt = 1]
  <2>1. purge' = [purge EXCEPT ![u] = rec] /\ UNCHANGED <<users, content, req>>
    BY <1>1 DEF BeginDeletion
  <2>2. 1 \in 0..UserPass /\ 1 \in 0..Attempts
    BY PassesCover DEF Attempts
  <2>3. rec \in Deletion /\ rec.attempt = 1 /\ rec.gone = NoDeletion.gone
    BY <2>2, NoDeletionYet DEF Deletion
  <2> HIDE DEF rec
  <2>4. rec.attempt > 0 /\ rec.gone = {}
    BY <2>3, NoDeletionYet
  <2> QED
    BY <2>1, <2>3, <2>4, PurgeOnly
<1>2. CASE DeletionFails(u)
  <2>1. purge' = [purge EXCEPT ![u] = NoDeletion] /\ UNCHANGED <<users, content, req>>
    BY <1>2 DEF DeletionFails
  <2> QED
    BY <2>1, NoDeletionYet, PurgeOnly
<1> QED
  BY <1>1, <1>2

-----------------------------------------------------------------------------
LEMMA InitInv == Init => IInv
<1> SUFFICES ASSUME Init PROVE IInv
  OBVIOUS
<1>1. ContentInv
  BY DEF Init, ContentInv, NothingOrphaned
<1>2. AskedInv
  <2>1. Idle \in Request /\ Idle.op = "idle"
    BY DEF Idle, Step, Request
  <2>2. req \in [Requests -> Request] /\ \A r \in Requests : req[r].op = "idle"
    BY <2>1 DEF Init
  <2> QED
    BY <2>2 DEF AskedInv, Asked, Inserts
<1>3. GoneInv
  <2>1. NoDeletion \in Deletion /\ NoDeletion.pass = 0 /\ NoDeletion.gone = {}
    BY PassesCover DEF NoDeletion, Deletion, Attempts
  <2>2. purge \in [Authors -> Deletion] /\ \A u \in Authors : purge[u] = NoDeletion
    BY <2>1 DEF Init
  <2> QED
    BY <2>1, <2>2 DEF GoneInv
<1> QED
  BY <1>1, <1>2, <1>3 DEF IInv

LEMMA InvInductive == IInv /\ [Next]_vars => IInv'
<1> SUFFICES ASSUME IInv, [Next]_vars PROVE IInv'
  OBVIOUS
<1>1. ASSUME NEW u \in Authors, NEW x \in Rows, Create(u, x) PROVE IInv'
  BY <1>1, CreateKeeps
<1>2. ASSUME NEW r \in Requests, NEW u \in Authors, Asks(r, u) PROVE IInv'
  BY <1>2, AsksKeep
<1>3. ASSUME NEW r \in Requests, InsertSubclass(r) \/ InsertBackground(r) PROVE IInv'
  BY <1>3, InsertKeeps
<1>4. ASSUME NEW r \in Requests, PatchWrite(r) PROVE IInv'
  BY <1>4, PatchKeeps
<1>5. ASSUME \/ \E u \in Authors, x \in Rows : Remove(u, x)
             \/ \E r \in Requests : DeleteClass(r) \/ DeleteFeat(r) \/ FeatDeletionFails(r)
      PROVE  IInv'
  BY <1>5, RemovesKeep
<1>6. ASSUME NEW u \in Authors, BeginDeletion(u) \/ DeletionFails(u) PROVE IInv'
  BY <1>6, DeletionsKeep
<1>7. ASSUME NEW u \in Authors, DeletePass(u) PROVE IInv'
  BY <1>7, PassKeeps
<1>8. ASSUME NEW u \in Authors, DeleteUser(u) PROVE IInv'
  BY <1>8, DeleteUserKeeps
<1>9. CASE UNCHANGED vars
  BY <1>9 DEF vars, content, IInv, ContentInv, NothingOrphaned, AskedInv, Asked, Own, Inserts,
     GoneInv, HomebrewBy, SubclassesOf
<1> QED
  BY <1>1, <1>2, <1>3, <1>4, <1>5, <1>6, <1>7, <1>8, <1>9 DEF Next, Edits

\* IInv holds in every reachable state.
LEMMA InvHolds == Spec => []IInv
  BY InitInv, InvInductive, PTL DEF Spec

-----------------------------------------------------------------------------
\* Type correctness: of the columns (no reference dangles), the requests and the
\* deletions under way.
THEOREM TypeCorrect == Spec => []TypeOK
<1>1. IInv => TypeOK
  BY DEF IInv, ContentInv, AskedInv, GoneInv, TypeOK
<1> QED
  BY <1>1, InvHolds, PTL

\* UsersService.remove and the writes of content-crud.base.ts, in any order:
\* homebrew always has an author with an account, and refers to homebrew of the
\* same author.
THEOREM NothingOrphanedHolds == Spec => []NothingOrphaned
<1>1. IInv => NothingOrphaned
  BY DEF IInv, ContentInv
<1> QED
  BY <1>1, InvHolds, PTL

\* A step that keeps the accounts takes at most one row.
LEMMA OneRowAtMost ==
    ASSUME IInv, Next, users' = users
    PROVE  \E x : rows \ rows' \subseteq {x}
<1>1. CASE rows \subseteq rows'
  BY <1>1
<1>2. ASSUME NEW x, Deleted({x}) PROVE \E y : rows \ rows' \subseteq {y}
  BY <1>2 DEF Deleted
<1>3. CASE \E u \in Authors, x \in Rows : Create(u, x) \/ Remove(u, x)
  <2>1. PICK u \in Authors, x \in Rows : Create(u, x) \/ Remove(u, x)
    BY <1>3
  <2>2. Create(u, x) => rows \subseteq rows'
    BY DEF Create, Arrives
  <2>3. Remove(u, x) => Deleted({x})
    BY DEF Remove
  <2> QED
    BY <1>1, <1>2, <2>1, <2>2, <2>3
<1>4. CASE \E r \in Requests, u \in Authors : Asks(r, u)
  BY <1>1, <1>4 DEF Asks, CheckParent, CheckOrigin, PatchRead, CountSubclasses, ClearOptions,
     content
<1>5. CASE \E r \in Requests : Edits(r)
  <2>1. PICK r \in Requests : Edits(r)
    BY <1>5
  <2>2. InsertSubclass(r) \/ InsertBackground(r) => rows \subseteq rows'
    BY DEF InsertSubclass, InsertBackground, Arrives
  <2>3. PatchWrite(r) \/ FeatDeletionFails(r) => rows' = rows
    BY DEF PatchWrite, FeatDeletionFails, content
  <2>4. DeleteClass(r) \/ DeleteFeat(r) => rows' = rows \/ Deleted({req[r].row})
    BY DEF DeleteClass, DeleteFeat, content
  <2> QED
    BY <1>1, <1>2, <2>1, <2>2, <2>3, <2>4 DEF Edits
<1>6. CASE \E u \in Authors :
             BeginDeletion(u) \/ DeletePass(u) \/ DeleteUser(u) \/ DeletionFails(u)
  <2>1. PICK u \in Authors :
             BeginDeletion(u) \/ DeletePass(u) \/ DeleteUser(u) \/ DeletionFails(u)
    BY <1>6
  <2>2. CASE DeleteUser(u) /\ LeftBy(u) = {}
    <3>1. u \notin users /\ rows' = rows \ purge[u].gone
      BY <2>2 DEF DeleteUser
    <3>2. purge[u].gone = {}
      BY <3>1 DEF IInv, ContentInv, NothingOrphaned, GoneInv, HomebrewBy
    <3> QED
      BY <1>1, <3>1, <3>2
  <2>3. CASE ~(DeleteUser(u) /\ LeftBy(u) = {})
    BY <1>1, <2>1, <2>3 DEF BeginDeletion, DeletePass, DeleteUser, DeletionFails, content
  <2> QED
    BY <2>2, <2>3
<1> QED
  BY <1>3, <1>4, <1>5, <1>6 DEF Next

\* UsersService.remove: the transaction takes all homebrew of its user and nothing
\* else, or, failing at any statement, nothing; what the user published stays.
THEOREM AllOrNothingHolds == Spec => AllOrNothing
<1> DEFINE Purged(u) ==
      LET own == HomebrewBy(u, Rows)
          shared == {x \in rows \cap Published : by[x] = u} IN
      IF u \in users'
      THEN own \subseteq rows' \/ \E x \in own : own \ rows' = {x}
      ELSE /\ own \cap rows' = {}
           /\ shared \subseteq rows' /\ \A x \in shared : by'[x] = None
<1>1. ASSUME IInv, Next, NEW u \in users PROVE Purged(u)
  <2>1. CASE users' = users
    <3>1. PICK x : rows \ rows' \subseteq {x}
      BY <1>1, <2>1, OneRowAtMost
    <3>2. HomebrewBy(u, Rows) \subseteq rows
      BY DEF HomebrewBy
    <3>3. HomebrewBy(u, Rows) \subseteq rows'
          \/ (x \in HomebrewBy(u, Rows) /\ HomebrewBy(u, Rows) \ rows' = {x})
      BY <3>1, <3>2
    <3> QED
      BY <2>1, <3>3
  <2>2. CASE users' # users
    <3>1. PICK v \in Authors : DeleteUser(v) /\ LeftBy(v) = {}
      <4>1. PICK v \in Authors : DeleteUser(v)
        BY <1>1, <2>2 DEF Next, Create, Remove, Asks, CheckParent, CheckOrigin, PatchRead,
           CountSubclasses, ClearOptions, Edits, InsertSubclass, InsertBackground, PatchWrite,
           DeleteClass, DeleteFeat, FeatDeletionFails, BeginDeletion, DeletePass, DeletionFails
      <4> QED
        BY <2>2, <4>1 DEF DeleteUser
    <3>2. /\ users' = users \ {v} /\ rows' = rows \ purge[v].gone
          /\ by' = [x \in Rows |-> IF x \in purge[v].gone \/ by[x] = v THEN None ELSE by[x]]
      BY <3>1 DEF DeleteUser
    <3>3. HomebrewBy(v, Rows) = purge[v].gone
      BY <1>1, <3>1 DEF LeftBy, HomebrewBy, IInv, GoneInv
    <3>4. CASE v = u
      <4>1. HomebrewBy(u, Rows) \cap rows' = {}
        BY <3>2, <3>3, <3>4
      <4>2. ASSUME NEW x \in rows \cap Published, by[x] = u
            PROVE  x \in rows' /\ by'[x] = None
        BY <1>1, <3>2, <3>3, <3>4, <4>2 DEF HomebrewBy, Homebrew, IInv, ContentInv
      <4> QED
        BY <3>2, <3>4, <4>1, <4>2
    <3>5. CASE v # u
      <4>1. HomebrewBy(u, Rows) \subseteq rows'
        BY <3>2, <3>3, <3>5 DEF HomebrewBy
      <4>2. u \in users'
        BY <3>2, <3>5
      <4> QED
        BY <4>1, <4>2
    <3> QED
      BY <3>4, <3>5
  <2> QED
    BY <2>1, <2>2
<1>2. IInv /\ [Next]_vars => [\A u \in users : Purged(u)]_vars
  BY <1>1
<1> QED
  BY <1>2, InvHolds, PTL DEF Spec, AllOrNothing
-----------------------------------------------------------------------------
(* What a deletion has missed, and what requests carry.                     *)

\* A row of u that the deletion of u should have found has arrived behind its
\* pass, and the second attempt is there because one arrived during the first.
Late(u) ==
    LET d == purge[u] IN
    /\ d.refused => d.pass = 0 /\ d.late = 1..2
    /\ d.pass > 0 =>
         /\ d.late \subseteq 1..d.attempt
         /\ d.attempt = 2 => 1 \in d.late
         /\ \A x \in HomebrewBy(u, Rows) \ d.gone : PassOf(x) < d.pass => d.attempt \in d.late

\* A background is inserted with the option of its feat or none, and a PATCH
\* carries the option its handler chose for the feat it read.
Chosen(r) ==
    LET q == req[r] IN
    /\ q.op = "background" => q.choice \in {None, q.link}
    /\ q.op = "patch" => \E o \in {"chosen", None, Absent} : q.choice = Choice(q.read, q.link, o)

LateInv == \A u \in Authors : Late(u)
ChosenInv == \A r \in Requests : Chosen(r)

\* What is not written to has not become anybody's.
LEMMA NobodysMore ==
    ASSUME rows' \subseteq rows, \A x \in rows' \cap Rows : by'[x] = by[x] \/ by'[x] = None,
           NEW u \in Authors
    PROVE  HomebrewBy(u, Rows)' \subseteq HomebrewBy(u, Rows)
  BY ContentAssumption DEF HomebrewBy, Homebrew

LEMMA LateStays ==
    ASSUME NEW u \in Authors, Late(u), purge'[u] = purge[u],
           HomebrewBy(u, Rows)' \subseteq HomebrewBy(u, Rows)
    PROVE  Late(u)'
  BY DEF Late

LEMMA DeletedTakes ==
    ASSUME ContentInv, NEW X, Deleted(X), NEW u \in Authors
    PROVE  HomebrewBy(u, Rows)' \subseteq HomebrewBy(u, Rows)
<1>1. rows' \subseteq rows /\ \A x \in rows' \cap Rows : by'[x] = by[x]
  BY DEF Deleted
<1> QED
  BY <1>1, NobodysMore

LEMMA ArrivalIsNoted ==
    ASSUME IInv, LateInv, NEW u \in Authors, NEW x \in Rows, Arrives(u, x)
    PROVE  LateInv'
<1>1. /\ by' = [by EXCEPT ![x] = u] /\ rows' = rows \cup {x} /\ by \in [Rows -> Authors \cup {None}]
      /\ purge \in [Authors -> Deletion]
  BY DEF Arrives, IInv, ContentInv, GoneInv
<1>2. ASSUME NEW v \in Authors, v # u PROVE Late(v)'
  <2>1. HomebrewBy(v, Rows)' \subseteq HomebrewBy(v, Rows)
    BY <1>1, <1>2 DEF HomebrewBy, Homebrew
  <2>2. purge'[v] = purge[v]
    BY <1>1, <1>2 DEF Arrives
  <2> QED
    BY <2>1, <2>2, LateStays DEF LateInv
<1>3. HomebrewBy(u, Rows)' \subseteq HomebrewBy(u, Rows) \cup {x}
  BY <1>1 DEF HomebrewBy, Homebrew
<1>4. Late(u) /\ purge[u] \in Deletion /\ PassOf(x) \in 1..5
      /\ (purge[u].pass > 0 => purge[u].attempt \in 1..2)
  <2>1. purge[u] \in Deletion
    BY <1>1
  <2>2. purge[u].attempt \in 0..2 /\ (purge[u].pass > 0 => purge[u].attempt > 0)
    BY <2>1 DEF Deletion, Attempts, IInv, GoneInv
  <2> QED
    BY <2>1, <2>2, PassesCover DEF LateInv
<1>5. Late(u)'
  <2>1. CASE purge[u].pass > PassOf(x)
    <3> DEFINE rec == [purge[u] EXCEPT !.late = purge[u].late \cup {purge[u].attempt}]
    <3>1. purge'[u] = rec
      BY <1>1, <2>1 DEF Arrives
    <3>2. /\ rec.pass = purge[u].pass /\ rec.attempt = purge[u].attempt /\ rec.gone = purge[u].gone
          /\ rec.refused = purge[u].refused /\ rec.late = purge[u].late \cup {purge[u].attempt}
      BY <1>4 DEF Deletion
    <3> HIDE DEF rec
    <3>3. purge[u].pass \in 0..6 /\ purge[u].pass > 0
      <4>1. purge[u].pass \in 0..UserPass
        BY <1>4 DEF Deletion
      <4> QED
        BY <4>1, <1>4, <2>1, PassesCover
    <3>4. purge[u].attempt \in 1..purge[u].attempt
      BY <1>4, <3>3
    <3> QED
      BY <1>4, <3>1, <3>2, <3>3, <3>4 DEF Late
  <2>2. CASE ~(purge[u].pass > PassOf(x))
    <3>1. purge'[u] = purge[u]
      BY <2>2 DEF Arrives
    <3>2. purge[u].pass \in 0..6
      BY <1>4, PassesCover DEF Deletion
    <3>3. ~(PassOf(x) < purge[u].pass)
      BY <1>4, <2>2, <3>2
    <3> QED
      BY <1>3, <1>4, <3>1, <3>3 DEF Late
  <2> QED
    BY <2>1, <2>2
<1> QED
  BY <1>2, <1>5 DEF LateInv

\* The record of one deletion changes, and no row.
LEMMA DeletionGoesOn ==
    ASSUME IInv, LateInv, NEW u \in Authors, NEW rec, purge' = [purge EXCEPT ![u] = rec],
           UNCHANGED content, Late(u)'
    PROVE  LateInv'
<1> SUFFICES ASSUME NEW v \in Authors, v # u PROVE Late(v)'
  BY DEF LateInv
<1>1. purge'[v] = purge[v]
  BY DEF IInv, GoneInv
<1>2. HomebrewBy(v, Rows)' \subseteq HomebrewBy(v, Rows)
  BY NobodysMore DEF content
<1> QED
  BY <1>1, <1>2, LateStays DEF LateInv

LEMMA NoDeletionIsLate ==
    ASSUME NEW u \in Authors, purge'[u] = NoDeletion
    PROVE  Late(u)'
  BY DEF Late, NoDeletion

\* A conflict needs a row that arrived during the attempt.
LEMMA ConflictIsLate ==
    ASSUME IInv, LateInv, NEW u \in Authors, Conflict(u), UNCHANGED content,
           purge[u].pass > 0, purge[u].attempt \in purge[u].late
    PROVE  LateInv'
<1>1. /\ purge \in [Authors -> Deletion] /\ purge[u] \in Deletion
      /\ purge[u].attempt \in 1..2 /\ Late(u)
  <2>1. purge[u] \in Deletion
    BY DEF IInv, GoneInv
  <2>2. purge[u].attempt \in 0..2 /\ (purge[u].pass > 0 => purge[u].attempt > 0)
    BY <2>1 DEF Deletion, Attempts, IInv, GoneInv
  <2> QED
    BY <2>1, <2>2 DEF LateInv, IInv, GoneInv
<1>2. CASE purge[u].attempt < Attempts
  <2> DEFINE rec == [purge[u] EXCEPT !.pass = 1, !.attempt = purge[u].attempt + 1, !.gone = {}]
  <2>1. purge' = [purge EXCEPT ![u] = rec]
    BY <1>2 DEF Conflict
  <2>2. purge[u].attempt = 1
    BY <1>1, <1>2 DEF Attempts
  <2>3. /\ rec.pass = 1 /\ rec.attempt = 2 /\ rec.gone = {} /\ rec.late = purge[u].late
        /\ rec.refused = purge[u].refused
    BY <1>1, <2>2 DEF Deletion
  <2> HIDE DEF rec
  <2>4. purge'[u] = rec
    BY <1>1, <2>1
  <2>5. ~purge[u].refused /\ purge[u].late \subseteq 1..1 /\ 1 \in purge[u].late
    BY <1>1, <2>2 DEF Late
  <2>6. \A x \in HomebrewBy(u, Rows)' : ~(PassOf(x) < 1)
    BY PassesCover DEF HomebrewBy
  <2>7. Late(u)'
    BY <2>3, <2>4, <2>5, <2>6 DEF Late
  <2> QED
    BY <2>1, <2>7, DeletionGoesOn
<1>3. CASE ~(purge[u].attempt < Attempts)
  <2> DEFINE rec == [NoDeletion EXCEPT !.late = purge[u].late, !.refused = TRUE]
  <2>1. purge' = [purge EXCEPT ![u] = rec]
    BY <1>3 DEF Conflict
  <2>2. purge[u].attempt = 2
    BY <1>1, <1>3 DEF Attempts
  <2>3. rec.late = purge[u].late /\ rec.pass = 0 /\ rec.refused = TRUE
    BY DEF NoDeletion
  <2> HIDE DEF rec
  <2>4. purge'[u] = rec
    BY <1>1, <2>1
  <2>5. purge[u].late \subseteq 1..2 /\ 1 \in purge[u].late /\ 2 \in purge[u].late
    BY <1>1, <2>2 DEF Late
  <2>6. purge[u].late = 1..2
    BY <2>5
  <2>7. Late(u)'
    BY <2>3, <2>4, <2>6 DEF Late
  <2> QED
    BY <2>1, <2>7, DeletionGoesOn
<1> QED
  BY <1>2, <1>3

\* A subclass that stands in the way of its class was not there when the pass
\* over the subclasses went by.
LEMMA PassIsLate ==
    ASSUME IInv, LateInv, NEW u \in Authors, DeletePass(u)
    PROVE  LateInv'
<1> DEFINE found == HomebrewBy(u, Passes[purge[u].pass])
           d == purge[u]
<1>1. /\ d.pass \in 1..5 /\ d.pass > 0 /\ d \in Deletion /\ purge \in [Authors -> Deletion]
      /\ UNCHANGED content /\ Late(u)
  BY PassesCover DEF DeletePass, IInv, GoneInv, LateInv
<1>2. /\ Passes[1] = Plain \cup Published /\ Passes[2] = Feats /\ Passes[3] = Backgrounds
      /\ Passes[4] = Subclasses /\ Passes[5] = Classes
  BY DEF Passes
<1>3. ASSUME NEW x \in Rows PROVE x \in Passes[PassOf(x)]
  <2>1. \E i \in 1..Len(Passes) : x \in Passes[i]
    BY <1>2, PassesCover DEF Rows
  <2> QED
    BY <2>1 DEF PassOf
<1>4. CASE \E c \in found \cap Classes : SubclassesOf(c) \ d.gone # {}
  <2>1. PICK c \in found \cap Classes, s \in Subclasses : s \in SubclassesOf(c) \ d.gone
    BY <1>4 DEF SubclassesOf
  <2>2. d.pass = 5
    <3>1. c \in Passes[d.pass]
      BY <2>1 DEF HomebrewBy
    <3>2. d.pass \in {1, 2, 3, 4, 5}
      BY <1>1
    <3> QED
      BY <1>2, <2>1, <3>1, <3>2, Disjoint
  <2>3. PassOf(s) = 4
    <3>1. s \in Rows
      BY <2>1 DEF Rows
    <3>2. PassOf(s) \in {1, 2, 3, 4, 5} /\ s \in Passes[PassOf(s)]
      BY <1>3, <3>1, PassesCover
    <3> QED
      BY <1>2, <2>1, <3>2, Disjoint
  <2>4. s \in HomebrewBy(u, Rows) \ d.gone
    BY <2>1, Disjoint DEF SubclassesOf, HomebrewBy, Homebrew, IInv, ContentInv, NothingOrphaned, Rows
  <2>5. d.attempt \in d.late
    BY <1>1, <2>2, <2>3, <2>4 DEF Late
  <2>6. Conflict(u)
    BY <1>4 DEF DeletePass
  <2> QED
    BY <1>1, <2>5, <2>6, ConflictIsLate
<1>5. CASE ~(\E c \in found \cap Classes : SubclassesOf(c) \ d.gone # {})
  <2> DEFINE rec == [d EXCEPT !.pass = d.pass + 1, !.gone = d.gone \cup found]
  <2>1. purge' = [purge EXCEPT ![u] = rec]
    BY <1>5 DEF DeletePass
  <2> HIDE DEF found
  <2>2. /\ rec.pass = d.pass + 1 /\ rec.gone = d.gone \cup found /\ rec.attempt = d.attempt
        /\ rec.late = d.late /\ rec.refused = d.refused
    BY <1>1 DEF Deletion
  <2> HIDE DEF rec
  <2>3. purge'[u] = rec
    BY <1>1, <2>1
  <2>4. ASSUME NEW x \in HomebrewBy(u, Rows), x \notin d.gone \cup found
        PROVE  PassOf(x) < d.pass + 1 => PassOf(x) < d.pass
    <3>1. x \in Rows /\ PassOf(x) # d.pass
      BY <1>3, <2>4 DEF found, HomebrewBy
    <3>2. PassOf(x) \in 1..5
      BY <3>1, PassesCover
    <3> QED
      BY <1>1, <3>1, <3>2
  <2>5. HomebrewBy(u, Rows)' = HomebrewBy(u, Rows)
    BY <1>1 DEF content, HomebrewBy
  <2>6. Late(u)'
    BY <1>1, <2>2, <2>3, <2>4, <2>5 DEF Late
  <2> QED
    BY <1>1, <2>1, <2>6, DeletionGoesOn
<1> QED
  BY <1>4, <1>5

LEMMA DeleteUserIsLate ==
    ASSUME IInv, LateInv, NEW u \in Authors, DeleteUser(u)
    PROVE  LateInv'
<1>1. /\ purge[u].pass = 6 /\ purge[u].pass > 0 /\ purge \in [Authors -> Deletion] /\ Late(u)
  BY PassesCover DEF DeleteUser, IInv, GoneInv, LateInv
<1>2. CASE LeftBy(u) # {}
  <2>1. PICK x : x \in HomebrewBy(u, Rows) \ purge[u].gone
    BY <1>2 DEF LeftBy
  <2>2. PassOf(x) < 6
    BY <2>1, PassesCover DEF HomebrewBy
  <2>3. purge[u].attempt \in purge[u].late
    BY <1>1, <2>1, <2>2 DEF Late
  <2>4. Conflict(u) /\ UNCHANGED content
    BY <1>2 DEF DeleteUser
  <2> QED
    BY <1>1, <2>3, <2>4, ConflictIsLate
<1>3. CASE LeftBy(u) = {}
  <2>1. /\ rows' = rows \ purge[u].gone /\ purge' = [purge EXCEPT ![u] = NoDeletion]
        /\ by' = [x \in Rows |-> IF x \in purge[u].gone \/ by[x] = u THEN None ELSE by[x]]
    BY <1>3 DEF DeleteUser
  <2>2. \A x \in rows' \cap Rows : by'[x] = by[x] \/ by'[x] = None
    BY <2>1
  <2>3. ASSUME NEW v \in Authors, v # u PROVE Late(v)'
    <3>1. HomebrewBy(v, Rows)' \subseteq HomebrewBy(v, Rows)
      BY <2>1, <2>2, NobodysMore
    <3>2. purge'[v] = purge[v]
      BY <2>1, <2>3, <1>1
    <3> QED
      BY <3>1, <3>2, LateStays DEF LateInv
  <2>4. Late(u)'
    BY <1>1, <2>1, NoDeletionIsLate
  <2> QED
    BY <2>3, <2>4 DEF LateInv
<1> QED
  BY <1>2, <1>3

\* The deletions that are under way know what they have missed.
LEMMA LateInductive == IInv /\ LateInv /\ [Next]_vars => LateInv'
<1> SUFFICES ASSUME IInv, LateInv, [Next]_vars PROVE LateInv'
  OBVIOUS
<1>1. ASSUME purge' = purge, rows' \subseteq rows, \A x \in rows' \cap Rows : by'[x] = by[x]
      PROVE  LateInv'
  BY <1>1, NobodysMore, LateStays DEF LateInv
<1>2. ASSUME NEW u \in Authors, NEW x \in Rows, Create(u, x) PROVE LateInv'
  BY <1>2, ArrivalIsNoted DEF Create
<1>3. ASSUME NEW r \in Requests, InsertSubclass(r) \/ InsertBackground(r) PROVE LateInv'
  <2>1. CASE Arrives(req[r].user, req[r].row)
    <3>1. req[r].row \in Rows
      BY <1>3 DEF IInv, AskedInv, Asked, InsertSubclass, InsertBackground, Rows
    <3>2. CASE req[r].user \in users
      BY <2>1, <3>1, <3>2, ArrivalIsNoted DEF IInv, ContentInv
    <3>3. CASE req[r].user \notin users
      BY <1>1, <1>3, <3>3 DEF InsertSubclass, InsertBackground
    <3> QED
      BY <3>2, <3>3
  <2>2. CASE ~Arrives(req[r].user, req[r].row)
    BY <1>1, <1>3, <2>2 DEF InsertSubclass, InsertBackground
  <2> QED
    BY <2>1, <2>2
<1>4. ASSUME purge' = purge, NEW X, Deleted(X) PROVE LateInv'
  BY <1>4, DeletedTakes, LateStays DEF LateInv, IInv
<1>5. ASSUME NEW u \in Authors, NEW x \in Rows, Remove(u, x) PROVE LateInv'
  BY <1>4, <1>5 DEF Remove
<1>6. ASSUME NEW r \in Requests, DeleteClass(r) \/ DeleteFeat(r) PROVE LateInv'
  BY <1>1, <1>4, <1>6 DEF DeleteClass, DeleteFeat, content
<1>7. ASSUME NEW r \in Requests, PatchWrite(r) \/ FeatDeletionFails(r) PROVE LateInv'
  BY <1>1, <1>7 DEF PatchWrite, FeatDeletionFails, content
<1>8. ASSUME NEW r \in Requests, NEW u \in Authors, Asks(r, u) PROVE LateInv'
  BY <1>1, <1>8 DEF Asks, CheckParent, CheckOrigin, PatchRead, CountSubclasses, ClearOptions,
     content
<1>9. ASSUME NEW u \in Authors, DeletePass(u) \/ DeleteUser(u) PROVE LateInv'
  BY <1>9, PassIsLate, DeleteUserIsLate
<1>10. ASSUME NEW u \in Authors, BeginDeletion(u) PROVE LateInv'
  <2> DEFINE rec == [NoDeletion EXCEPT !.pass = 1, !.attempt = 1]
  <2>1. purge' = [purge EXCEPT ![u] = rec] /\ UNCHANGED content
    BY <1>10 DEF BeginDeletion
  <2>2. rec.pass = 1 /\ rec.attempt = 1 /\ rec.late = {} /\ rec.refused = FALSE
    BY DEF NoDeletion
  <2> HIDE DEF rec
  <2>3. purge'[u] = rec
    BY <2>1 DEF IInv, GoneInv
  <2>4. \A x \in HomebrewBy(u, Rows)' : ~(PassOf(x) < 1)
    BY PassesCover DEF HomebrewBy
  <2>5. Late(u)'
    BY <2>2, <2>3, <2>4 DEF Late
  <2> QED
    BY <2>1, <2>5, DeletionGoesOn
<1>11. ASSUME NEW u \in Authors, DeletionFails(u) PROVE LateInv'
  <2>1. purge' = [purge EXCEPT ![u] = NoDeletion] /\ UNCHANGED content
    BY <1>11 DEF DeletionFails
  <2>2. Late(u)'
    BY <2>1, NoDeletionIsLate DEF IInv, GoneInv
  <2> QED
    BY <2>1, <2>2, DeletionGoesOn
<1>12. CASE UNCHANGED vars
  BY <1>1, <1>12 DEF vars, content
<1> QED
  BY <1>2, <1>3, <1>5, <1>6, <1>7, <1>8, <1>9, <1>10, <1>11, <1>12 DEF Next, Edits

LEMMA LateHolds == Spec => []LateInv
<1>1. Init => LateInv
  <2> SUFFICES ASSUME Init, NEW u \in Authors PROVE Late(u)
    BY DEF LateInv
  <2>1. purge[u] = NoDeletion
    BY DEF Init
  <2>2. NoDeletion.pass = 0 /\ NoDeletion.refused = FALSE
    BY DEF NoDeletion
  <2> QED
    BY <2>1, <2>2 DEF Late
<1> QED
  BY <1>1, LateInductive, InvHolds, PTL DEF Spec

\* UsersService.remove: the 409 that the second attempt answers means that rows
\* arrived behind the passes of both attempts, as the comment at its retry says.
THEOREM ConflictMeansTwoArrivalsHolds == Spec => []ConflictMeansTwoArrivals
<1>1. LateInv => ConflictMeansTwoArrivals
  BY DEF LateInv, Late, ConflictMeansTwoArrivals
<1> QED
  BY <1>1, LateHolds, PTL

-----------------------------------------------------------------------------
(* The option of a background's feat.                                       *)

LEMMA ChosenInductive == IInv /\ ChosenInv /\ [Next]_vars => ChosenInv'
<1> SUFFICES ASSUME IInv, ChosenInv, [Next]_vars PROVE ChosenInv'
  OBVIOUS
<1>1. ASSUME req' = req PROVE ChosenInv'
  BY <1>1 DEF ChosenInv, Chosen
<1>2. ASSUME NEW r \in Requests, Finish(r) PROVE ChosenInv'
  <2>1. req'[r].op = "idle" /\ \A p \in Requests \ {r} : req'[p] = req[p]
    BY <1>2, Finished DEF IInv, AskedInv
  <2> QED
    BY <2>1 DEF ChosenInv, Chosen
<1>3. ASSUME NEW r \in Requests, NEW rec, Begin(r, rec),
             rec.op = "background" => rec.choice \in {None, rec.link},
             rec.op = "patch" =>
               \E o \in {"chosen", None, Absent} : rec.choice = Choice(rec.read, rec.link, o)
      PROVE  ChosenInv'
  <2>1. req'[r] = rec /\ \A p \in Requests \ {r} : req'[p] = req[p]
    BY <1>3 DEF Begin, IInv, AskedInv
  <2> QED
    BY <1>3, <2>1 DEF ChosenInv, Chosen
<1>4. ASSUME NEW r \in Requests, NEW u \in Authors, Asks(r, u) PROVE ChosenInv'
  <2>1. ASSUME NEW s \in Subclasses, NEW c \in AnyClass, CheckParent(r, u, s, c) PROVE ChosenInv'
    BY <1>3, <2>1 DEF CheckParent, Step
  <2>2. ASSUME NEW b \in Backgrounds, NEW f \in AnyFeat \cup {None}, NEW chooses \in BOOLEAN,
               CheckOrigin(r, u, b, f, chooses)
        PROVE  ChosenInv'
    <3> DEFINE rec == [Step("background", u, b, f) EXCEPT !.choice = IF chooses THEN f ELSE None]
    <3>1. Begin(r, rec)
      BY <2>2 DEF CheckOrigin
    <3>2. rec.op = "background" /\ rec.link = f /\ rec.choice = IF chooses THEN f ELSE None
      BY DEF Step
    <3> HIDE DEF rec
    <3> QED
      BY <1>3, <3>1, <3>2
  <2>3. ASSUME NEW b \in Backgrounds, NEW f \in AnyFeat \cup {None, Absent},
               NEW o \in {"chosen", None, Absent}, PatchRead(r, u, b, f, o)
        PROVE  ChosenInv'
    <3> DEFINE choice == Choice(origin[b], f, o)
               rec == [Step("patch", u, b, f) EXCEPT !.choice = choice, !.read = origin[b]]
    <3>1. Begin(r, rec)
      BY <2>3 DEF PatchRead
    <3> HIDE DEF choice
    <3>2. rec.op = "patch" /\ rec.link = f /\ rec.choice = choice /\ rec.read = origin[b]
      BY DEF Step
    <3> HIDE DEF rec
    <3>3. rec.choice = Choice(rec.read, rec.link, o)
      BY <3>2 DEF choice
    <3> QED
      BY <1>3, <3>1, <3>2, <3>3
  <2>4. ASSUME NEW c \in Classes, CountSubclasses(r, u, c) PROVE ChosenInv'
    BY <1>3, <2>4 DEF CountSubclasses, Step
  <2>5. ASSUME NEW f \in Feats, ClearOptions(r, u, f) PROVE ChosenInv'
    <3> DEFINE rec == [Step("feat", u, f, None) EXCEPT !.kept = BackgroundsOf(f)]
    <3>1. Begin(r, rec)
      BY <2>5 DEF ClearOptions
    <3>2. rec.op = "feat"
      BY DEF Step
    <3> HIDE DEF rec
    <3> QED
      BY <1>3, <3>1, <3>2
  <2> QED
    BY <1>4, <2>1, <2>2, <2>3, <2>4, <2>5 DEF Asks
<1>5. ASSUME NEW r \in Requests, Edits(r) PROVE ChosenInv'
  BY <1>2, <1>5 DEF Edits, InsertSubclass, InsertBackground, PatchWrite, DeleteClass, DeleteFeat,
     FeatDeletionFails
<1> QED
  BY <1>1, <1>4, <1>5 DEF Next, vars, Create, Remove, BeginDeletion, DeletePass, DeleteUser,
     DeletionFails

LEMMA ChosenHolds == Spec => []ChosenInv
<1>1. Init => ChosenInv
  BY DEF Init, ChosenInv, Chosen, Idle, Step
<1> QED
  BY <1>1, ChosenInductive, InvHolds, PTL DEF Spec

\* What toColumnData and beforeUpdate choose belongs to the feat the row then
\* has, if the row still has the feat they read.
LEMMA ChoiceMatches ==
    ASSUME NEW was \in AnyFeat \cup {None}, NEW f \in AnyFeat \cup {None, Absent},
           NEW o \in {"chosen", None, Absent}, NEW old \in {None, was}
    PROVE  LET new == IF f = Absent THEN was ELSE f
               choice == Choice(was, f, o)
           IN  (IF choice = Absent THEN old ELSE choice) \in {None, new}
<1>1. Absent \notin AnyFeat /\ None # Absent
  BY ContentAssumption
<1>2. CASE f = None
  <2>1. Choice(was, f, o) = None
    BY <1>1, <1>2, ContentAssumption DEF Choice
  <2> QED
    BY <1>1, <2>1
<1>3. CASE f = Absent
  <2>1. CASE was = None /\ o # Absent
    BY <1>1, <1>3, <2>1 DEF Choice
  <2>2. CASE ~(was = None /\ o # Absent)
    <3>1. Choice(was, f, o) = IF o = "chosen" THEN was ELSE o
      BY <1>1, <1>3, <2>2 DEF Choice
    <3> QED
      BY <1>1, <1>3, <3>1
  <2> QED
    BY <2>1, <2>2
<1>4. CASE f \in AnyFeat
  <2>1. f # None /\ f # Absent
    BY <1>1, <1>4, ContentAssumption
  <2>2. CASE f # was /\ o = Absent
    BY <1>1, <1>4, <2>1, <2>2 DEF Choice
  <2>3. CASE ~(f # was /\ o = Absent)
    <3>1. Choice(was, f, o) = IF o = "chosen" THEN f ELSE o
      BY <1>4, <2>1, <2>3 DEF Choice
    <3> QED
      BY <1>1, <2>1, <2>3, <3>1
  <2> QED
    BY <2>2, <2>3
<1> QED
  BY <1>2, <1>3, <1>4

\* A row that is no feat goes: no background was linked to it.
LEMMA OptionsStay ==
    ASSUME IInv, NEW x \in Rows \ Feats, Deleted({x}), NEW b \in Backgrounds,
           option'[b] = IF b = x THEN None ELSE option[b], Matched(b)
    PROVE  Matched(b)'
<1>1. origin'[b] = IF b \in {x} \/ origin[b] \in {x} THEN None ELSE origin[b]
  BY DEF Deleted
<1>2. origin[b] \in Feats \cup SrdFeats \cup {None}
  BY DEF IInv, ContentInv
<1>3. origin[b] # x
  BY <1>2, ContentAssumption
<1> QED
  BY <1>1, <1>3 DEF Matched

\* The two windows in which an option may stop belonging to its background's feat.
Race(b) ==
    \E r \in Requests :
       /\ req[r] # Idle /\ req'[r] = Idle
       /\ \/ req[r].op = "patch" /\ req[r].row = b /\ req[r].read # origin[b]
          \/ req[r].op = "feat" /\ b \notin req[r].kept /\ origin[b] = req[r].row

LEMMA StrayIsRace ==
    ASSUME IInv, ChosenInv, Next, NEW b \in Backgrounds, Matched(b)
    PROVE  Matched(b)' \/ Race(b)
<1> USE DEF Matched
<1>1. /\ origin \in [Backgrounds -> (rows \cap Feats) \cup SrdFeats \cup {None}]
      /\ option \in [Backgrounds -> AnyFeat \cup {None}]
      /\ req \in [Requests -> Request]
  BY DEF IInv, ContentInv, AskedInv
<1>2. CASE origin' = origin /\ option' = option
  BY <1>2
<1>3. ASSUME NEW r \in Requests, InsertBackground(r) PROVE Matched(b)'
  <2>1. req[r].op = "background" /\ req[r].choice \in {None, req[r].link}
    BY <1>3 DEF InsertBackground, ChosenInv, Chosen
  <2>2. \/ UNCHANGED <<origin, option>>
        \/ /\ origin' = [origin EXCEPT ![req[r].row] = req[r].link]
           /\ option' = [option EXCEPT ![req[r].row] = req[r].choice]
    BY <1>3 DEF InsertBackground
  <2> QED
    BY <1>1, <2>1, <2>2
<1>4. ASSUME NEW r \in Requests, PatchWrite(r) PROVE Matched(b)' \/ Race(b)
  <2> DEFINE q == req[r]
  <2>1. q.op = "patch" /\ q.row \in Backgrounds /\ q.link \in AnyFeat \cup {None, Absent}
    BY <1>4 DEF PatchWrite, IInv, AskedInv, Asked
  <2>2. q # Idle /\ req'[r] = Idle
    BY <1>1, <1>4, <2>1 DEF PatchWrite, Finish, Idle, Step
  <2>3. CASE UNCHANGED <<origin, option>>
    BY <2>3
  <2>4. CASE /\ origin' = IF q.link = Absent THEN origin ELSE [origin EXCEPT ![q.row] = q.link]
             /\ option' = IF q.choice = Absent THEN option
                          ELSE [option EXCEPT ![q.row] = q.choice]
    <3>1. CASE q.row # b
      BY <1>1, <2>4, <3>1
    <3>2. CASE q.row = b /\ q.read # origin[b]
      BY <2>1, <2>2, <3>2 DEF Race
    <3>3. CASE q.row = b /\ q.read = origin[b]
      <4>1. /\ origin'[b] = IF q.link = Absent THEN origin[b] ELSE q.link
            /\ option'[b] = IF q.choice = Absent THEN option[b] ELSE q.choice
        BY <1>1, <2>4, <3>3
      <4>2. PICK o \in {"chosen", None, Absent} : q.choice = Choice(origin[b], q.link, o)
        BY <2>1, <3>3 DEF ChosenInv, Chosen
      <4>3. origin[b] \in AnyFeat \cup {None} /\ option[b] \in {None, origin[b]}
        BY <1>1 DEF AnyFeat
      <4> HIDE DEF q
      <4>4. (IF q.choice = Absent THEN option[b] ELSE q.choice)
               \in {None, IF q.link = Absent THEN origin[b] ELSE q.link}
        BY <2>1, <4>2, <4>3, ChoiceMatches
      <4> QED
        BY <4>1, <4>4
    <3> QED
      BY <3>1, <3>2, <3>3
  <2> QED
    BY <1>4, <2>3, <2>4 DEF PatchWrite
<1>5. ASSUME NEW u \in Authors, NEW x \in Rows, Remove(u, x) PROVE Matched(b)'
  <2>1. x \notin Feats /\ Deleted({x}) /\ option'[b] = IF b = x THEN None ELSE option[b]
    BY <1>5, Disjoint DEF Remove
  <2> QED
    BY <2>1, OptionsStay
<1>6. ASSUME NEW r \in Requests, DeleteClass(r) PROVE Matched(b)'
  <2>1. req[r].row \in Classes /\ option' = option
    BY <1>6 DEF DeleteClass, IInv, AskedInv, Asked
  <2>2. req[r].row \in Rows \ Feats /\ b # req[r].row
    BY <2>1, Disjoint DEF Rows
  <2>3. origin' = origin \/ Deleted({req[r].row})
    BY <1>6 DEF DeleteClass
  <2> QED
    BY <2>1, <2>2, <2>3, OptionsStay
<1>7. ASSUME NEW r \in Requests, DeleteFeat(r) PROVE Matched(b)' \/ Race(b)
  <2> DEFINE f == req[r].row
  <2>1. req[r].op = "feat" /\ f \in Feats /\ b # f
    BY <1>7, Disjoint DEF DeleteFeat, IInv, AskedInv, Asked
  <2>2. req[r] # Idle /\ req'[r] = Idle
    BY <1>1, <1>7, <2>1 DEF DeleteFeat, Finish, Idle, Step
  <2>3. CASE UNCHANGED content
    BY <2>3 DEF content
  <2>4. CASE Deleted({f}) /\ option' = OptionsCleared(r)
    <3>1. /\ origin'[b] = IF origin[b] = f THEN None ELSE origin[b]
          /\ option'[b] = IF b \in req[r].kept THEN None ELSE option[b]
      BY <2>1, <2>4 DEF Deleted, OptionsCleared
    <3>2. CASE b \notin req[r].kept /\ origin[b] = f
      BY <2>1, <2>2, <3>2 DEF Race
    <3>3. CASE b \in req[r].kept \/ origin[b] # f
      BY <3>1, <3>3
    <3> QED
      BY <3>2, <3>3
  <2> QED
    BY <1>7, <2>3, <2>4 DEF DeleteFeat
<1>8. ASSUME NEW u \in Authors, DeleteUser(u) PROVE Matched(b)'
  <2> DEFINE X == purge[u].gone
  <2>1. CASE LeftBy(u) # {}
    BY <1>2, <1>8, <2>1 DEF DeleteUser, content
  <2>2. CASE LeftBy(u) = {}
    <3>1. /\ origin'[b] = IF b \in X \/ origin[b] \in X THEN None ELSE origin[b]
          /\ option'[b] = IF b \in X THEN None ELSE option[b]
      BY <1>8, <2>2 DEF DeleteUser
    <3>2. ASSUME origin[b] \in X PROVE b \in X
      <4>1. /\ origin[b] \in HomebrewBy(u, Rows) /\ origin[b] \in rows
            /\ HomebrewBy(u, Rows) \subseteq X
        BY <2>2, <3>2 DEF IInv, GoneInv, LeftBy, HomebrewBy
      <4>2. origin[b] \in Feats
        BY <1>1, <4>1, ContentAssumption DEF IInv, ContentInv
      <4>3. b \in rows
        BY <4>1, <4>2, ContentAssumption DEF IInv, ContentInv, Rows
      <4>4. by[b] = u /\ b \in Rows /\ Homebrew(b)
        BY <4>1, <4>2, <4>3, Disjoint DEF IInv, ContentInv, NothingOrphaned, HomebrewBy, Homebrew,
           Rows
      <4> QED
        BY <4>1, <4>3, <4>4 DEF HomebrewBy
    <3> QED
      BY <3>1, <3>2
  <2> QED
    BY <2>1, <2>2
<1>9. ASSUME NEW u \in Authors, NEW x \in Rows, Create(u, x) PROVE Matched(b)'
  BY <1>2, <1>9 DEF Create
<1>10. ASSUME NEW r \in Requests, NEW u \in Authors, Asks(r, u) PROVE Matched(b)'
  BY <1>2, <1>10 DEF Asks, CheckParent, CheckOrigin, PatchRead, CountSubclasses, ClearOptions,
     content
<1>11. ASSUME NEW r \in Requests, InsertSubclass(r) \/ FeatDeletionFails(r) PROVE Matched(b)'
  BY <1>2, <1>11 DEF InsertSubclass, FeatDeletionFails, content
<1>12. ASSUME NEW u \in Authors, BeginDeletion(u) \/ DeletePass(u) \/ DeletionFails(u)
       PROVE  Matched(b)'
  BY <1>2, <1>12 DEF BeginDeletion, DeletePass, DeletionFails, content
<1> QED
  BY <1>3, <1>4, <1>5, <1>6, <1>7, <1>8, <1>9, <1>10, <1>11, <1>12 DEF Next, Edits

\* beforeUpdate and HomebrewFeatsService.performDelete keep the option of a
\* background with its feat, whoever edits, links or deletes, but in the two
\* windows between a read and the write that rests on it.
THEOREM OptionStrayedByRaceOnlyHolds == Spec => OptionStrayedByRaceOnly
<1> DEFINE Kept == \A b \in Backgrounds : Matched(b) /\ ~Matched(b)' =>
          \E r \in Requests :
             /\ req[r] # Idle /\ req'[r] = Idle
             /\ \/ req[r].op = "patch" /\ req[r].row = b /\ req[r].read # origin[b]
                \/ req[r].op = "feat" /\ b \notin req[r].kept /\ origin[b] = req[r].row
<1>1. IInv /\ ChosenInv /\ [Next]_vars => [Kept]_vars
  <2> SUFFICES ASSUME IInv, ChosenInv, Next PROVE Kept
    OBVIOUS
  <2>1. \A b \in Backgrounds : Matched(b) => Matched(b)' \/ Race(b)
    BY StrayIsRace
  <2> QED
    BY <2>1 DEF Race
<1> QED
  BY <1>1, InvHolds, ChosenHolds, PTL DEF Spec, OptionStrayedByRaceOnly

-----------------------------------------------------------------------------
(* ChildRows: lists that are replaced.                                      *)

\* What a request has in hand at each stage.
InHand(r) ==
    LET s == saving[r].save IN
    /\ saving[r].at # "idle" => s \in Saves
    /\ saving[r].at = "write" => s.list = Unsent
    /\ saving[r].at \in {"lock", "update", "delete", "insert"} => s.list # Unsent
    /\ saving[r].at \in {"lock", "update"} => saving[r].found = {}

\* A transaction past its update holds the lock, and what it found, or has
\* deleted, is the whole list; what it found may since have lost rows to the
\* deletion of their component, what it deleted keeps such a deletion waiting.
Alone(r) ==
    /\ saving[r].at = "update" => holder = r \/ ~exists
    /\ saving[r].at \in {"delete", "insert"} => holder = r
    /\ saving[r].at = "delete" => saving[r].found = {} \/ list \subseteq saving[r].found
    /\ saving[r].at = "insert" => saving[r].gone = list

ListInv ==
    /\ ListTypeOK
    /\ holder # Nil => exists
    /\ \A r \in Savers : InHand(r) /\ Alone(r)
    /\ NoFalseConflict

\* One step of one request.
Saving(r) ==
    (\E s \in Saves : Ask(r, s)) \/ Write(r) \/ Lock(r) \/ Update(r) \/ DeleteStarts(r)
      \/ Delete(r) \/ Insert(r) \/ Fail(r)

SaveRecord == [at : Stage, save : Saves \cup {Nil}, found : SUBSET Entries,
               gone : SUBSET Entries, answer : {Nil, "conflict"}]

-----------------------------------------------------------------------------
\* A request whose record is replaced leaves those of the others as they were.
LEMMA OneSave ==
    ASSUME ListTypeOK, NEW r \in Savers, NEW rec \in SaveRecord,
           saving' = [saving EXCEPT ![r] = rec]
    PROVE  /\ saving' \in [Savers -> SaveRecord] /\ saving'[r] = rec
           /\ \A q \in Savers \ {r} : saving'[q] = saving[q]
  BY DEF ListTypeOK, SaveRecord

\* The end of a transaction, however it ends: the request is idle and does not
\* hold the lock; a lock of another's stays.
LEMMA SaveEnded ==
    ASSUME ListTypeOK, NEW r \in Savers, NEW answer \in {Nil, "conflict"}, End(r, answer)
    PROVE  /\ saving' \in [Savers -> SaveRecord]
           /\ saving'[r].at = "idle" /\ saving'[r].answer = answer
           /\ \A q \in Savers \ {r} : saving'[q] = saving[q]
           /\ holder' \in Savers \cup {Nil}
           /\ holder' = (IF holder = r THEN Nil ELSE holder)
<1> DEFINE rec == [NoSave EXCEPT !.answer = answer]
<1>1. rec = [at |-> "idle", save |-> Nil, found |-> {}, gone |-> {}, answer |-> answer]
  BY DEF NoSave
<1>2. rec \in SaveRecord
  BY <1>1 DEF SaveRecord, Stage
<1>3. saving' = [saving EXCEPT ![r] = rec]
  BY DEF End
<1>4. holder' = (IF holder = r THEN Nil ELSE holder)
  BY DEF End, Release
<1> HIDE DEF rec
<1>5. rec.at = "idle" /\ rec.answer = answer
  BY <1>1
<1> QED
  BY <1>2, <1>3, <1>4, <1>5, OneSave DEF ListTypeOK

\* A save that has been asked for has found, and deleted, nothing yet.
LEMMA SaveBegins ==
    ASSUME NEW stage, NEW s
    PROVE  [NoSave EXCEPT !.at = stage, !.save = s]
           = [at |-> stage, save |-> s, found |-> {}, gone |-> {}, answer |-> Nil]
<1> DEFINE one == [at |-> stage, save |-> Nil, found |-> {}, gone |-> {}, answer |-> Nil]
<1>1. [NoSave EXCEPT !.at = stage] = one
  BY DEF NoSave
<1>2. [one EXCEPT !.save = s]
      = [at |-> stage, save |-> s, found |-> {}, gone |-> {}, answer |-> Nil]
  OBVIOUS
<1>3. [NoSave EXCEPT !.at = stage, !.save = s] = [[NoSave EXCEPT !.at = stage] EXCEPT !.save = s]
  OBVIOUS
<1> HIDE DEF one
<1> QED
  BY <1>1, <1>2, <1>3

\* A request that goes on with its save changes only the fields named here.
LEMMA SaveGoesOn ==
    ASSUME ListTypeOK, NEW r \in Savers, NEW stage \in Stage, Goto(r, stage)
    PROVE  /\ saving' \in [Savers -> SaveRecord]
           /\ saving'[r] = [saving[r] EXCEPT !.at = stage]
           /\ \A q \in Savers \ {r} : saving'[q] = saving[q]
<1>1. saving[r] \in SaveRecord
  BY DEF ListTypeOK, SaveRecord
<1>2. [saving[r] EXCEPT !.at = stage] \in SaveRecord
  BY <1>1 DEF SaveRecord
<1>3. saving' = [saving EXCEPT ![r] = [saving[r] EXCEPT !.at = stage]]
  BY DEF Goto
<1> QED
  BY <1>2, <1>3, OneSave

\* Writing the columns a save sends leaves a text that is one.
LEMMA OrIsText ==
    ASSUME NEW s \in Saves, NEW kept \in Texts
    PROVE  Or(s.text, kept) \in Texts
  BY SavesAssumption DEF Or

\* While a request holds the lock and its list is found whole, its INSERT meets
\* no row but its own: it ends with the list it was sent, or, when a component
\* is gone, with the list as it was, and with no conflict.
LEMMA InsertReplaces ==
    ASSUME ListInv, NEW r \in Savers, Insert(r)
    PROVE  LET s == saving[r].save IN
           /\ s \in Saves /\ s.list # Unsent /\ exists /\ holder = r
           /\ End(r, Nil) /\ exists' = exists /\ parts' = parts
           /\ \/ /\ s.list \subseteq Entries /\ NoDuplicates(s.list) /\ Present(s.list)
                 /\ text' = Or(s.text, text) /\ list' = s.list
              \/ text' = text /\ list' = list
<1> DEFINE s == saving[r].save
<1>1. saving[r].at = "insert" /\ InHand(r) /\ Alone(r)
  BY DEF ListInv, Insert
<1>2. s \in Saves /\ s.list # Unsent /\ holder = r /\ saving[r].gone = list
  BY <1>1 DEF InHand, Alone
<1>3. exists
  BY <1>2, SavesAssumption DEF ListInv
<1>4. s.list \subseteq Entries /\ NoDuplicates(s.list)
  BY <1>2, SavesAssumption
<1>5. (list \ saving[r].gone) \cup s.list = s.list
  BY <1>2, <1>4
<1>6. CASE Present(s.list)
  BY <1>2, <1>3, <1>4, <1>5, <1>6 DEF Insert
<1>7. CASE ~Present(s.list)
  BY <1>2, <1>3, <1>4, <1>5, <1>7 DEF Insert
<1> QED
  BY <1>6, <1>7

-----------------------------------------------------------------------------
LEMMA ListInitInv == ListInit => ListInv
<1> SUFFICES ASSUME ListInit PROVE ListInv
  OBVIOUS
<1>1. text \in Texts /\ list \subseteq Entries /\ NoDuplicates(list)
  BY SavesAssumption DEF ListInit
<1>4. parts = Keys /\ Present(list)
  BY <1>1 DEF ListInit, Present, Entries
<1>2. \A r \in Savers : saving[r] = NoSave
  BY DEF ListInit
<1>3. NoSave \in SaveRecord /\ NoSave.at = "idle" /\ NoSave.answer # "conflict"
  BY SavesAssumption DEF NoSave, SaveRecord, Stage
<1> QED
  BY <1>1, <1>2, <1>3, <1>4 DEF ListInit, ListInv, ListTypeOK, SaveRecord, InHand, Alone, NoFalseConflict

\* The lock is what keeps a step of one request out of another's replacement:
\* whoever is past its update finds list, lock and record as it left them.
LEMMA OthersWait ==
    ASSUME ListInv, NEW r \in Savers, NEW q \in Savers \ {r},
           InHand(q), Alone(q), saving'[q] = saving[q],
           holder' = holder \/ holder = r \/ (holder = Nil /\ holder' = r),
           list' = list \/ holder = r,
           exists' = exists
    PROVE  InHand(q)' /\ Alone(q)'
<1>1. holder # q => saving[q].at \notin {"delete", "insert"}
  BY DEF Alone
<1>2. CASE holder = q
  <2>1. holder' = q /\ list' = list
    BY <1>2, SavesAssumption
  <2> QED
    BY <2>1, <1>2 DEF InHand, Alone
<1>3. CASE holder # q
  BY <1>1, <1>3 DEF InHand, Alone
<1> QED
  BY <1>2, <1>3

LEMMA SavingKeepsInv ==
    ASSUME ListInv, NEW r \in Savers, Saving(r)
    PROVE  ListInv'
<1> DEFINE Rest == \A q \in Savers \ {r} : saving'[q] = saving[q]
           Mine == InHand(r)' /\ Alone(r)' /\ saving'[r].answer # "conflict"
           Lone == /\ holder' = holder \/ holder = r \/ (holder = Nil /\ holder' = r)
                   /\ list' = list \/ holder = r
                   /\ exists' = exists
           Listed == list' \subseteq Entries /\ NoDuplicates(list') /\ Present(list')
           Typed == /\ exists' \in BOOLEAN /\ text' \in Texts /\ parts' = parts /\ Listed
                    /\ holder' \in Savers \cup {Nil} /\ saving' \in [Savers -> SaveRecord]
                    /\ holder' # Nil => exists'
<1>1. ListTypeOK /\ InHand(r) /\ Alone(r) /\ saving[r] \in SaveRecord /\ saving[r].answer # "conflict"
  BY DEF ListInv, ListTypeOK, SaveRecord, NoFalseConflict
<1>2. SUFFICES Rest /\ Mine /\ Lone /\ Typed
  <2>1. SUFFICES ASSUME Rest, Mine, Lone, Typed PROVE ListInv'
    OBVIOUS
  <2>2. \A q \in Savers \ {r} : InHand(q)' /\ Alone(q)'
    BY <2>1, OthersWait DEF ListInv
  <2>3. \A q \in Savers \ {r} : saving'[q].answer # "conflict"
    BY <2>1 DEF ListInv, NoFalseConflict
  <2>4. \A q \in Savers : InHand(q)' /\ Alone(q)' /\ saving'[q].answer # "conflict"
    BY <2>1, <2>2, <2>3
  <2>5. NoDuplicates(list)' /\ Present(list)'
    BY <2>1 DEF NoDuplicates, Present
  <2>6. ListTypeOK'
    BY <2>1, <2>5, <1>1 DEF ListTypeOK, SaveRecord
  <2> QED
    BY <2>1, <2>4, <2>6 DEF ListInv, NoFalseConflict
<1>12. list' = list => Listed
  BY <1>1 DEF ListTypeOK
<1> USE <1>1, <1>12
<1> HIDE DEF Listed
<1>3. ASSUME NEW s \in Saves, Ask(r, s) PROVE Rest /\ Mine /\ Lone /\ Typed
  <2> DEFINE rec == [at |-> IF s.list = Unsent THEN "write" ELSE "lock", save |-> s,
                     found |-> {}, gone |-> {}, answer |-> Nil]
  <2>1. saving' = [saving EXCEPT ![r] = rec]
    <3>1. [NoSave EXCEPT !.at = IF s.list = Unsent THEN "write" ELSE "lock", !.save = s]
          = rec
      BY SaveBegins
    <3> HIDE DEF rec
    <3> QED
      BY <1>3, <3>1 DEF Ask
  <2>2. rec \in SaveRecord
    BY DEF SaveRecord, Stage
  <2>3. rec.at = (IF s.list = Unsent THEN "write" ELSE "lock") /\ rec.save = s
        /\ rec.found = {} /\ rec.answer # "conflict"
    BY SavesAssumption
  <2> HIDE DEF rec
  <2>4. saving' \in [Savers -> SaveRecord] /\ saving'[r] = rec /\ Rest
    BY <2>1, <2>2, OneSave
  <2>5. Mine
    BY <2>3, <2>4 DEF InHand, Alone
  <2> QED
    BY <1>3, <2>4, <2>5 DEF Ask, ListInv, ListTypeOK
<1>4. ASSUME End(r, Nil) PROVE Rest /\ Mine /\ saving' \in [Savers -> SaveRecord]
                                /\ holder' = (IF holder = r THEN Nil ELSE holder)
  <2>1. /\ saving' \in [Savers -> SaveRecord] /\ Rest
        /\ saving'[r].at = "idle" /\ saving'[r].answer = Nil
        /\ holder' = (IF holder = r THEN Nil ELSE holder)
    BY <1>4, SaveEnded
  <2> QED
    BY <2>1, SavesAssumption DEF InHand, Alone
<1>5. ASSUME Write(r) PROVE Rest /\ Mine /\ Lone /\ Typed
  <2>1. /\ End(r, Nil) /\ saving[r].save \in Saves
        /\ exists' = exists /\ list' = list /\ parts' = parts
    BY <1>5 DEF Write, InHand
  <2>2. text' \in Texts
    BY <1>5, <2>1, OrIsText DEF Write, ListTypeOK
  <2> QED
    BY <1>4, <2>1, <2>2 DEF ListInv, ListTypeOK
<1>6. ASSUME Lock(r) PROVE Rest /\ Mine /\ Lone /\ Typed
  <2>1. saving' \in [Savers -> SaveRecord] /\ saving'[r] = [saving[r] EXCEPT !.at = "update"] /\ Rest
    BY <1>6, SaveGoesOn DEF Lock, Stage
  <2>2. /\ saving'[r].at = "update" /\ saving'[r].save = saving[r].save
        /\ saving'[r].found = saving[r].found /\ saving'[r].answer = saving[r].answer
    BY <2>1 DEF SaveRecord
  <2>3. Mine
    BY <1>6, <2>2 DEF Lock, Granted, InHand, Alone
  <2> QED
    BY <1>6, <2>1, <2>3 DEF Lock, Granted, ListInv, ListTypeOK
<1>7. ASSUME Update(r) PROVE Rest /\ Mine /\ Lone /\ Typed
  <2>1. CASE exists
    <3>1. saving' \in [Savers -> SaveRecord] /\ saving'[r] = [saving[r] EXCEPT !.at = "delete"] /\ Rest
      BY <1>7, <2>1, SaveGoesOn DEF Update, Stage
    <3>2. /\ saving'[r].at = "delete" /\ saving'[r].save = saving[r].save
          /\ saving'[r].found = saving[r].found /\ saving'[r].answer = saving[r].answer
      BY <3>1 DEF SaveRecord
    <3> QED
      BY <1>7, <2>1, <3>1, <3>2 DEF Update, InHand, Alone, ListInv, ListTypeOK
  <2>2. CASE ~exists
    BY <1>4, <1>7, <2>2 DEF Update, ListInv, ListTypeOK
  <2> QED
    BY <2>1, <2>2
<1>8. ASSUME DeleteStarts(r) PROVE Rest /\ Mine /\ Lone /\ Typed
  <2> DEFINE rec == [saving[r] EXCEPT !.found = list]
  <2>1. saving' = [saving EXCEPT ![r] = rec]
    BY <1>8 DEF DeleteStarts
  <2>2. rec \in SaveRecord
    BY DEF SaveRecord, ListTypeOK
  <2>3. rec.at = "delete" /\ rec.found = list /\ rec.save = saving[r].save
        /\ rec.answer = saving[r].answer
    BY <1>8 DEF DeleteStarts, SaveRecord
  <2> HIDE DEF rec
  <2>4. saving' \in [Savers -> SaveRecord] /\ saving'[r] = rec /\ Rest
    BY <2>1, <2>2, OneSave
  <2> QED
    BY <1>8, <2>3, <2>4 DEF DeleteStarts, InHand, Alone, ListInv, ListTypeOK
<1>9. ASSUME Delete(r) PROVE Rest /\ Mine /\ Lone /\ Typed
  <2> DEFINE rec == [saving[r] EXCEPT !.at = "insert", !.gone = saving[r].found \cap list]
  <2>1. saving' = [saving EXCEPT ![r] = rec]
    BY <1>9 DEF Delete
  <2>2. rec \in SaveRecord
    BY DEF SaveRecord, Stage, ListTypeOK
  <2>3. rec.at = "insert" /\ rec.gone = saving[r].found \cap list /\ rec.save = saving[r].save
        /\ rec.answer = saving[r].answer
    BY DEF SaveRecord
  <2>4. saving[r].found \cap list = list /\ saving[r].at = "delete"
    BY <1>9 DEF Delete, Alone
  <2> HIDE DEF rec
  <2>5. saving' \in [Savers -> SaveRecord] /\ saving'[r] = rec /\ Rest
    BY <2>1, <2>2, OneSave
  <2> QED
    BY <1>9, <2>3, <2>4, <2>5 DEF Delete, InHand, Alone, ListInv, ListTypeOK
<1>10. ASSUME Insert(r) PROVE Rest /\ Mine /\ Lone /\ Typed
  <2>1. /\ saving[r].save \in Saves /\ exists /\ holder = r
        /\ End(r, Nil) /\ exists' = exists /\ parts' = parts
    BY <1>10, InsertReplaces
  <2>2. text' \in Texts /\ Listed
    <3>1. CASE /\ saving[r].save.list \subseteq Entries
               /\ NoDuplicates(saving[r].save.list) /\ Present(saving[r].save.list)
               /\ text' = Or(saving[r].save.text, text)
               /\ list' = saving[r].save.list
      BY <2>1, <3>1, OrIsText DEF ListTypeOK, Listed
    <3>2. CASE text' = text /\ list' = list
      BY <3>2 DEF ListTypeOK
    <3> QED
      BY <1>10, <3>1, <3>2, InsertReplaces
  <2> QED
    BY <1>4, <2>1, <2>2 DEF ListInv, ListTypeOK
<1>11. ASSUME Fail(r) PROVE Rest /\ Mine /\ Lone /\ Typed
  BY <1>4, <1>11 DEF Fail, ListInv, ListTypeOK
<1> QED
  BY <1>3, <1>5, <1>6, <1>7, <1>8, <1>9, <1>10, <1>11 DEF Saving

LEMMA DeleteParentKeepsInv == ListInv /\ DeleteParent => ListInv'
<1> SUFFICES ASSUME ListInv, DeleteParent PROVE ListInv'
  OBVIOUS
<1>1. \A r \in Savers : holder # r
  BY SavesAssumption DEF DeleteParent
<1>2. \A r \in Savers : saving[r].at \notin {"delete", "insert"}
  BY <1>1 DEF ListInv, Alone
<1>3. \A r \in Savers : InHand(r)' /\ Alone(r)'
  BY <1>2 DEF DeleteParent, ListInv, InHand, Alone
<1>4. NoDuplicates(list)' /\ Present(list)'
  BY DEF DeleteParent, NoDuplicates, Present
<1> QED
  BY <1>3, <1>4 DEF DeleteParent, ListInv, ListTypeOK, NoFalseConflict

\* The deletion of a component shortens the list under whoever holds the lock,
\* but not once its rows are deleted already.
LEMMA DeleteComponentKeepsInv ==
    ASSUME ListInv, NEW k \in Removable, DeleteComponent(k)
    PROVE  ListInv'
<1>1. list' \subseteq list /\ parts' = parts \ {k}
  BY DEF DeleteComponent
<1>2. NoDuplicates(list)' /\ Present(list)'
  BY DEF DeleteComponent, ListInv, ListTypeOK, NoDuplicates, Present
<1>3. ASSUME NEW r \in Savers PROVE InHand(r)' /\ Alone(r)'
  <2>1. InHand(r) /\ Alone(r)
    BY DEF ListInv
  <2>2. saving[r].at = "insert" => list' = list
    BY <2>1 DEF DeleteComponent, Alone
  <2> QED
    BY <1>1, <2>1, <2>2 DEF DeleteComponent, InHand, Alone
<1>4. ListTypeOK'
  BY <1>1, <1>2 DEF DeleteComponent, ListInv, ListTypeOK
<1> QED
  BY <1>3, <1>4 DEF DeleteComponent, ListInv, NoFalseConflict

LEMMA ListInvInductive == ListInv /\ [ListNext]_listVars => ListInv'
<1> SUFFICES ASSUME ListInv, [ListNext]_listVars PROVE ListInv'
  OBVIOUS
<1>1. ASSUME NEW r \in Savers, Saving(r) PROVE ListInv'
  BY <1>1, SavingKeepsInv
<1>2. CASE DeleteParent
  BY <1>2, DeleteParentKeepsInv
<1>3. ASSUME NEW k \in Removable, DeleteComponent(k) PROVE ListInv'
  BY <1>3, DeleteComponentKeepsInv
<1>4. CASE UNCHANGED listVars
  BY <1>4 DEF listVars, ListInv, ListTypeOK, NoDuplicates, Present, InHand, Alone, NoFalseConflict
<1> QED
  BY <1>1, <1>2, <1>3, <1>4 DEF ListNext, Saving

\* IInv holds in every reachable state.
LEMMA ListInvHolds == ListSpec => []ListInv
  BY ListInitInv, ListInvInductive, PTL DEF ListSpec

-----------------------------------------------------------------------------
\* Type correctness, of the transactions of feature-rows.ts and of the equipment
\* packs: no list names a key twice, or a component that has been deleted.
THEOREM ListTypeCorrect == ListSpec => []ListTypeOK
<1>1. ListInv => ListTypeOK
  BY DEF ListInv
<1> QED
  BY <1>1, ListInvHolds, PTL

\* No save of a list without duplicates is answered with a conflict, whoever else
\* replaces the same list (the P2002 of createMany cannot be another save's).
THEOREM NoFalseConflictHolds == ListSpec => []NoFalseConflict
<1>1. ListInv => NoFalseConflict
  BY DEF ListInv
<1> QED
  BY <1>1, ListInvHolds, PTL

\* Each transaction is one whole save of WholeLists at its commit, and nothing
\* before: replaceFeatureRows and setBundleContents never mix two lists, though
\* the deletion of a component may take its row out of the list at any time.
THEOREM ReplacesWholeLists == ListSpec => Whole
<1>1. ListInit => Promise!Init
  BY DEF ListInit, Promise!Init
<1>2. ListInv /\ [ListNext]_listVars => [Promise!Next]_(Promise!vars)
  <2> SUFFICES ASSUME ListInv, [ListNext]_listVars PROVE [Promise!Next]_(Promise!vars)
    OBVIOUS
  <2>1. ASSUME NEW r \in Savers, Write(r) PROVE [Promise!Next]_(Promise!vars)
    <3>1. saving[r].save \in Saves /\ saving[r].save.list = Unsent
      BY <2>1 DEF Write, ListInv, InHand
    <3>2. CASE exists
      <4>1. /\ exists' = exists /\ text' = Or(saving[r].save.text, text)
            /\ list' = list /\ parts' = parts
        BY <2>1, <3>2 DEF Write
      <4>2. Promise!Save(saving[r].save)
        BY <3>1, <3>2, <4>1 DEF Promise!Save, Promise!Or, Or, ListInv, ListTypeOK
      <4> QED
        BY <3>1, <4>2 DEF Promise!Next
    <3>3. CASE ~exists
      BY <2>1, <3>3 DEF Write, Promise!vars
    <3> QED
      BY <3>2, <3>3
  <2>2. ASSUME NEW r \in Savers, Insert(r) PROVE [Promise!Next]_(Promise!vars)
    <3> DEFINE s == saving[r].save
    <3>1. s \in Saves /\ s.list # Unsent /\ exists /\ exists' = exists /\ parts' = parts
      BY <2>2, InsertReplaces
    <3>2. CASE Present(s.list) /\ text' = Or(s.text, text) /\ list' = s.list
      <4>1. Promise!Save(s)
        BY <3>1, <3>2 DEF Promise!Save, Promise!Or, Or, Present, ListInv, ListTypeOK
      <4> QED
        BY <3>1, <4>1 DEF Promise!Next
    <3>3. CASE text' = text /\ list' = list
      BY <3>1, <3>3 DEF Promise!vars
    <3> QED
      BY <2>2, <3>2, <3>3, InsertReplaces
  <2>3. CASE DeleteParent
    BY <2>3 DEF DeleteParent, Promise!Next, Promise!Delete
  <2>4. ASSUME NEW k \in Removable, DeleteComponent(k) PROVE [Promise!Next]_(Promise!vars)
    BY <2>4 DEF DeleteComponent, Promise!Next, Promise!Lose
  <2>5. ASSUME NEW r \in Savers,
               (\E s \in Saves : Ask(r, s)) \/ Lock(r) \/ Update(r) \/ DeleteStarts(r)
                 \/ Delete(r) \/ Fail(r)
        PROVE  UNCHANGED <<exists, text, list, parts>>
    BY <2>5 DEF Ask, Lock, Update, DeleteStarts, Delete, Fail
  <2>6. CASE UNCHANGED listVars
    BY <2>6 DEF listVars, Promise!vars
  <2> QED
    BY <2>1, <2>2, <2>3, <2>4, <2>5, <2>6 DEF ListNext, Promise!vars
<1> QED
  BY <1>1, <1>2, ListInvHolds, PTL DEF ListSpec, Whole, Promise!Spec
=============================================================================
