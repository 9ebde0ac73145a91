---------------------- MODULE CampaignMembership_proofs ----------------------
(***************************************************************************)
(* Theorems about CampaignMembership, for any users, campaigns, characters  *)
(* and number of concurrent requests.                                      *)
(***************************************************************************)
EXTENDS CampaignMembership, TLAPS

Sweeping == {"notes", "strip", "commit"}
Swept == {"strip", "commit"}

\* A request under way is some user's, in some campaign; what it has locked,
\* it has locked as a cleanup.
Busy ==
    \A r \in Requests :
        /\ req[r].pc # "idle" => req[r].user \in Users /\ req[r].k \in Campaigns
        /\ req[r].pc \in {"attach", "write"} => req[r].char \in Characters
        /\ req[r].pc = "idle" => req[r].k = None
        /\ req[r].found # {} => req[r].pc \in Sweeping
        /\ req[r].notes => req[r].pc \in Swept

\* What a cleanup has locked is its player's, still there, and locked by it
\* alone.
Locks ==
    /\ \A r \in Requests : \A c \in req[r].found :
         PlayedBy[c] = req[r].user /\ attached[c] = req[r].k
    /\ \A r \in Requests :
         req[r].notes => note[req[r].k][req[r].user] = "private"
    /\ \A r1, r2 \in Requests :
         r1 # r2 => /\ req[r1].found \cap req[r2].found = {}
                    /\ ~(/\ req[r1].notes /\ req[r2].notes
                         /\ req[r1].k = req[r2].k /\ req[r1].user = req[r2].user)

\* What a cleanup's sweep did not find was written after it.
FoundOrLate ==
    \A r \in Requests :
        /\ req[r].pc \in Sweeping =>
             \A c \in Characters :
                PlayedBy[c] = req[r].user /\ attached[c] = req[r].k
                  => c \in req[r].found \cup lateChars
        /\ req[r].pc \in Swept /\ note[req[r].k][req[r].user] = "private"
             => req[r].notes \/ <<req[r].k, req[r].user>> \in lateNotes

\* The DM's copy is older than the encounter or holds its characters.
ViewCurrent ==
    \A k \in live :
        /\ view[k].version <= enc[k].version
        /\ view[k].version = enc[k].version => view[k].pcs = enc[k].pcs

-----------------------------------------------------------------------------
(* Type correctness.                                                       *)

LEMMA StepType ==
    ASSUME NEW pc \in Stage, NEW u \in Users \cup {None}, NEW k \in Campaigns \cup {None},
           NEW c \in Characters \cup {None}
    PROVE  /\ Step(pc, u, k, c) \in Request
           /\ Step(pc, u, k, c).pc = pc
           /\ Step(pc, u, k, c).user = u
           /\ Step(pc, u, k, c).k = k
           /\ Step(pc, u, k, c).char = c
           /\ Step(pc, u, k, c).found = {}
           /\ Step(pc, u, k, c).notes = FALSE
BY DEF Step, Request

LEMMA IdleType == Idle \in Request /\ Idle.pc = "idle" /\ Idle.k = None
                  /\ Idle.found = {} /\ Idle.notes = FALSE
BY DEF Idle, Step, Request, Stage

LEMMA TypeInit == Init => TypeOK
BY IdleType, MembershipAssumption DEF Init, TypeOK, Encounter

\* An arriving request has read what it needed and holds no lock.
Arrived(r) ==
    \E pc \in Stage \ {"idle", "notes", "strip", "commit"}, u \in Users,
       k \in Campaigns, c \in Characters \cup {None} :
         /\ req' = [req EXCEPT ![r] = Step(pc, u, k, c)]
         /\ pc \in {"attach", "write"} => c \in Characters

LEMMA Begins ==
    ASSUME NEW r \in Requests, NEW pc \in Stage \ {"idle", "notes", "strip", "commit"},
           NEW u \in Users, NEW k \in Campaigns, NEW c \in Characters \cup {None},
           pc \in {"attach", "write"} => c \in Characters,
           Begin(r, Step(pc, u, k, c))
    PROVE  Arrived(r) /\ req[r].pc = "idle"
BY Zenon DEF Arrived, Begin

LEMMA ArrivedHolds ==
    ASSUME NEW r \in Requests, Arrive(r)
    PROVE  Arrived(r) /\ req[r].pc = "idle" /\ UNCHANGED <<db, view, late>>
<1> DEFINE First == Stage \ {"idle", "notes", "strip", "commit"}
<1>0. /\ "join" \in First /\ "note" \in First /\ "depart" \in First
      /\ "write" \in First /\ "attach" \in First
      /\ \A pc \in {"join", "note", "depart"} : pc \notin {"attach", "write"}
      /\ \A c \in Characters : PlayedBy[c] \in Users
  BY MembershipAssumption DEF Stage
<1>1. ASSUME NEW u \in Users, NEW k \in Campaigns, JoinRead(r, u, k)
      PROVE  Arrived(r) /\ req[r].pc = "idle" /\ UNCHANGED <<db, view, late>>
  BY <1>1, <1>0, Begins DEF JoinRead
<1>2. ASSUME NEW u \in Users, NEW k \in Campaigns, NoteRead(r, u, k)
      PROVE  Arrived(r) /\ req[r].pc = "idle" /\ UNCHANGED <<db, view, late>>
  BY <1>2, <1>0, Begins DEF NoteRead
<1>3. ASSUME NEW u \in Users, NEW k \in Campaigns, DepartRead(r, u, k)
      PROVE  Arrived(r) /\ req[r].pc = "idle" /\ UNCHANGED <<db, view, late>>
  BY <1>3, <1>0, Begins DEF DepartRead
<1>4. ASSUME NEW c \in Characters, NEW k \in Campaigns, CreateRead(r, c, k)
      PROVE  Arrived(r) /\ req[r].pc = "idle" /\ UNCHANGED <<db, view, late>>
  BY <1>4, <1>0, Begins DEF CreateRead
<1>5. ASSUME NEW u \in Users, NEW c \in Characters, NEW k \in Campaigns,
             AttachRead(r, u, k, c)
      PROVE  Arrived(r) /\ req[r].pc = "idle" /\ UNCHANGED <<db, view, late>>
  BY <1>5, <1>0, Begins DEF AttachRead
<1>6. QED
  BY <1>1, <1>2, <1>3, <1>4, <1>5 DEF Arrive

LEMMA ArriveType ==
    ASSUME TypeOK, Busy, NEW r \in Requests, Arrive(r)
    PROVE  TypeOK' /\ Busy'
<1>1. PICK pc \in Stage \ {"idle", "notes", "strip", "commit"}, u \in Users,
           k \in Campaigns, c \in Characters \cup {None} :
        /\ req' = [req EXCEPT ![r] = Step(pc, u, k, c)]
        /\ pc \in {"attach", "write"} => c \in Characters
  BY ArrivedHolds DEF Arrived
<1>2. UNCHANGED <<db, view, late>>
  BY ArrivedHolds
<1>3. TypeOK'
  BY <1>1, <1>2, StepType DEF TypeOK, db, late
<1>4. /\ req'[r] = Step(pc, u, k, c)
      /\ \A q \in Requests \ {r} : req'[q] = req[q]
  BY <1>1 DEF TypeOK
<1>5. /\ req'[r].pc = pc /\ req'[r].user = u /\ req'[r].k = k /\ req'[r].char = c
      /\ req'[r].found = {} /\ req'[r].notes = FALSE
  BY <1>4 DEF Step
<1>6. Busy'
  BY <1>1, <1>4, <1>5 DEF Busy
<1>7. QED
  BY <1>3, <1>6

LEMMA ContinueRequest ==
    ASSUME TypeOK, Busy, NEW r \in Requests, Continue(r)
    PROVE  req' \in [Requests -> Request]
<1>0. req \in [Requests -> Request]
  BY DEF TypeOK
<1>1. CASE req' = [req EXCEPT ![r] = Idle]
  BY <1>0, <1>1, IdleType
<1>2. req[r] \in Request
  BY <1>0
<1>3. CASE req' = [req EXCEPT ![r].pc = "write"]
  BY <1>0, <1>2, <1>3 DEF Request, Stage
<1>4. CASE CollectCharacters(r)
  BY <1>0, <1>2, <1>4 DEF CollectCharacters, Request, Stage, Of
<1>5. CASE DetachCharacters(r)
  BY <1>0, <1>2, <1>5 DEF DetachCharacters, ToDetach, Request, Stage, Of
<1>6. CASE DeletePrivateNote(r)
  BY <1>0, <1>2, <1>6 DEF DeletePrivateNote, Request, Stage
<1>7. CASE ReadEncounter(r)
  <2> DEFINE pcs == enc[req[r].k].pcs
  <2>1. req' = [req EXCEPT ![r] = [req[r] EXCEPT !.pc = "commit",
                  !.kept = pcs \ req[r].owned, !.strips = pcs \cap req[r].owned # {}]]
    BY <1>0, <1>2, <1>7 DEF ReadEncounter, Request
  <2>2. pcs \subseteq Characters
    BY <1>7 DEF ReadEncounter, TypeOK, Busy, Encounter
  <2>3. [req[r] EXCEPT !.pc = "commit", !.kept = pcs \ req[r].owned,
                       !.strips = pcs \cap req[r].owned # {}] \in Request
    BY <1>2, <2>2 DEF Request, Stage
  <2>4. QED
    BY <1>0, <2>1, <2>3
<1>8. QED
  BY <1>1, <1>3, <1>4, <1>5, <1>6, <1>7
     DEF Continue, JoinWrite, AttachReadCharacter, AttachWrite, NoteWrite,
         CommitDeparture, DepartureFails, Finish

\* A step of one request leaves the others where they are.
LEMMA ContinueOthers ==
    ASSUME TypeOK, NEW r \in Requests, Continue(r)
    PROVE  \A q \in Requests \ {r} : req'[q] = req[q]
<1> USE DEF TypeOK
<1>1. CASE Finish(r)
  BY <1>1 DEF Finish
<1>2. CASE AttachReadCharacter(r)
  BY <1>2 DEF AttachReadCharacter, Finish
<1>3. CASE CollectCharacters(r)
  BY <1>3 DEF CollectCharacters
<1>4. CASE DetachCharacters(r)
  BY <1>4 DEF DetachCharacters
<1>5. CASE DeletePrivateNote(r)
  BY <1>5 DEF DeletePrivateNote
<1>6. CASE ReadEncounter(r)
  BY <1>6 DEF ReadEncounter
<1>7. QED
  BY <1>1, <1>2, <1>3, <1>4, <1>5, <1>6
     DEF Continue, JoinWrite, AttachWrite, NoteWrite, CommitDeparture, DepartureFails

LEMMA ContinueBusy ==
    ASSUME TypeOK, Busy, NEW r \in Requests, Continue(r)
    PROVE  Busy'
<1>0. req \in [Requests -> Request] /\ req' \in [Requests -> Request]
  BY ContinueRequest DEF TypeOK
<1>1. \A q \in Requests \ {r} : req'[q] = req[q]
  BY ContinueOthers
<1>2. CASE req'[r] = Idle
  BY <1>1, <1>2, IdleType DEF Busy
<1>3. CASE req' = [req EXCEPT ![r].pc = "write"] /\ req[r].pc = "attach"
  BY <1>0, <1>1, <1>3 DEF Busy, Request, Sweeping, Swept
<1>8. CASE CollectCharacters(r)
  <2>1. /\ req'[r].pc = "detach" /\ req[r].pc = "depart"
        /\ req'[r].user = req[r].user /\ req'[r].k = req[r].k
        /\ req'[r].found = req[r].found /\ req'[r].notes = req[r].notes
    BY <1>0, <1>8 DEF CollectCharacters, Request
  <2>2. QED
    BY <1>1, <2>1 DEF Busy, Sweeping, Swept
<1>4. CASE DetachCharacters(r)
  BY <1>1, <1>4 DEF TypeOK, Busy, DetachCharacters, Request, Sweeping, Swept
<1>5. CASE DeletePrivateNote(r)
  BY <1>1, <1>5 DEF TypeOK, Busy, DeletePrivateNote, Request, Sweeping, Swept
<1>6. CASE ReadEncounter(r)
  BY <1>1, <1>6 DEF TypeOK, Busy, ReadEncounter, Request, Sweeping, Swept
<1>7. QED
  BY <1>0, <1>2, <1>3, <1>4, <1>5, <1>6, <1>8
     DEF Continue, JoinWrite, AttachReadCharacter, AttachWrite, NoteWrite,
         CommitDeparture, DepartureFails, Finish

\* The steps of no request: the owner, the clock, the DM and single statements.
Aside ==
    \/ \E k \in Campaigns : \/ GenerateInviteCode(k) \/ InviteEnds(k) \/ DmFetch(k)
                            \/ DmEdit(k) \/ DeleteCampaign(k)
    \/ \E k \in Campaigns, c \in Characters : DmAdd(k, c) \/ DmRemove(k, c)
    \/ \E k \in Campaigns, u \in Users : EditNote(k, u) \/ DeleteNote(k, u)
    \/ \E c \in Characters : CreateCharacter(c) \/ RemoveCharacter(c)

LEMMA DmSaves ==
    ASSUME TypeOK, NEW k \in Campaigns,
           DmEdit(k) \/ \E c \in Characters : DmAdd(k, c) \/ DmRemove(k, c)
    PROVE  \E pcs \in SUBSET Characters : DmSave(k, pcs)
<1>1. /\ view[k].pcs \in SUBSET Characters
      /\ \A c \in Characters : /\ view[k].pcs \cup {c} \in SUBSET Characters
                              /\ view[k].pcs \ {c} \in SUBSET Characters
  BY DEF TypeOK
<1>2. QED
  BY <1>1 DEF DmEdit, DmAdd, DmRemove

\* What setting one note does to the table of notes.
LEMMA SetNote ==
    ASSUME note \in [Campaigns -> [Users -> {"none", "private", "party"}]],
           NEW k \in Campaigns, NEW u \in Users, NEW v \in {"none", "private", "party"},
           note' = [note EXCEPT ![k][u] = v]
    PROVE  /\ note' \in [Campaigns -> [Users -> {"none", "private", "party"}]]
           /\ note'[k][u] = v
           /\ \A w \in Users \ {u} : note'[k][w] = note[k][w]
           /\ \A j \in Campaigns \ {k} : note'[j] = note[j]
<1>1. note[k] \in [Users -> {"none", "private", "party"}]
  OBVIOUS
<1>2. [note[k] EXCEPT ![u] = v] \in [Users -> {"none", "private", "party"}]
  BY <1>1
<1>3. note' = [note EXCEPT ![k] = [note[k] EXCEPT ![u] = v]]
  OBVIOUS
<1>4. QED
  BY <1>1, <1>2, <1>3

LEMMA AsideType ==
    ASSUME TypeOK, Aside
    PROVE  TypeOK' /\ UNCHANGED req
<1> USE DEF TypeOK, db, late
<1>1. ASSUME NEW k \in Campaigns, GenerateInviteCode(k) \/ InviteEnds(k)
      PROVE  TypeOK' /\ UNCHANGED req
  BY <1>1 DEF GenerateInviteCode, InviteEnds
<1>2. ASSUME NEW k \in Campaigns, DmFetch(k) PROVE TypeOK' /\ UNCHANGED req
  BY <1>2 DEF DmFetch, Encounter
<1>3. ASSUME NEW k \in Campaigns, NEW pcs \in SUBSET Characters, DmSave(k, pcs)
      PROVE  TypeOK' /\ UNCHANGED req
  <2>1. enc' \in [Campaigns -> Encounter]
    BY <1>3 DEF DmSave, Encounter
  <2>2. view[k] \in [version : Nat, pcs : SUBSET Characters, party : SUBSET Characters]
    OBVIOUS
  <2>0. enc[k].version + 1 \in Nat
    BY DEF Encounter
  <2>3. [view[k] EXCEPT !.version = enc[k].version + 1, !.pcs = pcs]
          \in [version : Nat, pcs : SUBSET Characters, party : SUBSET Characters]
    BY <2>0, <2>2
  <2>4. view' = [view EXCEPT ![k] = [view[k] EXCEPT !.version = enc[k].version + 1,
                                                    !.pcs = pcs]]
    BY <1>3 DEF DmSave
  <2>5. QED
    BY <1>3, <2>1, <2>3, <2>4 DEF DmSave
<1>4. ASSUME NEW k \in Campaigns, DeleteCampaign(k) PROVE TypeOK' /\ UNCHANGED req
  <2>1. live' \subseteq Campaigns /\ invited' \subseteq live'
    BY <1>4 DEF DeleteCampaign
  <2>2. attached' \in [Characters -> live' \cup {None, "unborn"}]
    BY <1>4 DEF DeleteCampaign
  <2>3. /\ players' \in [Campaigns -> SUBSET Users]
        /\ note' \in [Campaigns -> [Users -> {"none", "private", "party"}]]
        /\ \A j \in Campaigns \ live' : /\ players'[j] = {}
                                        /\ \A u \in Users : note'[j][u] = "none"
    BY <1>4 DEF DeleteCampaign
  <2>4. enc' \in [Campaigns -> Encounter]
    <3>1. enc[k] \in Encounter
      OBVIOUS
    <3>2. [enc[k] EXCEPT !.pcs = {}] \in Encounter
      BY <3>1 DEF Encounter
    <3>3. enc' = [enc EXCEPT ![k] = [enc[k] EXCEPT !.pcs = {}]]
      BY <1>4 DEF DeleteCampaign
    <3>4. QED
      BY <3>2, <3>3
  <2>5. QED
    BY <1>4, <2>1, <2>2, <2>3, <2>4 DEF DeleteCampaign
<1>5. ASSUME NEW k \in Campaigns, NEW u \in Users, EditNote(k, u) \/ DeleteNote(k, u)
      PROVE  TypeOK' /\ UNCHANGED req
  <2>1. PICK v \in {"none", "private", "party"} : note' = [note EXCEPT ![k][u] = v]
    BY <1>5, Zenon DEF EditNote, DeleteNote
  <2>2. k \in live
    BY <1>5 DEF EditNote, DeleteNote
  <2>3. /\ note' \in [Campaigns -> [Users -> {"none", "private", "party"}]]
        /\ \A j \in Campaigns \ live : note'[j] = note[j]
    BY <2>1, <2>2, SetNote
  <2>4. lateNotes' \subseteq Campaigns \X Users
    BY <1>5 DEF EditNote, DeleteNote, Mark
  <2>5. QED
    BY <1>5, <2>1, <2>3, <2>4 DEF EditNote, DeleteNote
<1>6. ASSUME NEW c \in Characters, CreateCharacter(c) \/ RemoveCharacter(c)
      PROVE  TypeOK' /\ UNCHANGED req
  BY <1>6 DEF CreateCharacter, RemoveCharacter
<1>7. QED
  BY <1>1, <1>2, <1>3, <1>4, <1>5, <1>6, DmSaves DEF Aside

LEMMA ContinueType ==
    ASSUME TypeOK, Busy, NEW r \in Requests, Continue(r)
    PROVE  TypeOK'
<1>0. req' \in [Requests -> Request]
  BY ContinueRequest
<1> USE DEF TypeOK
<1>1. CASE UNCHANGED <<db, view, late>>
  BY <1>0, <1>1 DEF db, late
<1>2. CASE JoinWrite(r)
  BY <1>0, <1>2 DEF JoinWrite, Referable, Busy, late
<1>3. CASE AttachWrite(r)
  <2>1. req[r].char \in Characters
    BY <1>3 DEF AttachWrite, Busy
  <2>2. attached' \in [Characters -> live \cup {None, "unborn"}]
    BY <1>3, <2>1 DEF AttachWrite, Referable
  <2>3. lateChars' \subseteq Characters
    BY <1>3, <2>1 DEF AttachWrite, Mark
  <2>4. QED
    BY <1>0, <1>3, <2>2, <2>3 DEF AttachWrite
<1>4. CASE NoteWrite(r)
  <2> DEFINE k == req[r].k
             u == req[r].user
  <2>1. k \in Campaigns /\ u \in Users
    BY <1>4 DEF NoteWrite, Busy
  <2>2. CASE UNCHANGED <<note, lateNotes>>
    BY <1>0, <1>4, <2>2 DEF NoteWrite
  <2>3. CASE /\ k \in live
             /\ \E v \in {"private", "party"} :
                  /\ note' = [note EXCEPT ![k][u] = v]
                  /\ lateNotes' = Mark(lateNotes, <<k, u>>, NoteTooLate(k, u))
    <3>1. PICK v \in {"none", "private", "party"} : note' = [note EXCEPT ![k][u] = v]
      BY <2>3
    <3>2. /\ note' \in [Campaigns -> [Users -> {"none", "private", "party"}]]
          /\ \A j \in Campaigns \ live : note'[j] = note[j]
      BY <2>1, <2>3, <3>1, SetNote
    <3>3. lateNotes' \subseteq Campaigns \X Users
      BY <2>1, <2>3 DEF Mark
    <3>4. QED
      BY <1>0, <1>4, <3>2, <3>3 DEF NoteWrite
  <2>4. QED
    BY <1>4, <2>2, <2>3 DEF NoteWrite, Referable
<1>5. CASE CommitDeparture(r)
  <2> DEFINE k == req[r].k
             u == req[r].user
  <2>1. k \in Campaigns /\ u \in Users /\ req[r] \in Request
    BY <1>5 DEF CommitDeparture, Busy
  <2>2. CASE u \notin players[k]
    BY <1>0, <1>5, <2>2 DEF CommitDeparture, late
  <2>3. CASE u \in players[k]
    <3>1. players' \in [Campaigns -> SUBSET Users]
      <4>1. players' = [players EXCEPT ![k] = players[k] \ {u}]
        BY <1>5, <2>3 DEF CommitDeparture
      <4>2. players[k] \ {u} \in SUBSET Users
        BY <2>1
      <4>3. QED
        BY <4>1, <4>2
    <3>2. attached' \in [Characters -> live \cup {None, "unborn"}]
      BY <1>5, <2>3 DEF CommitDeparture
    <3>3. /\ note' \in [Campaigns -> [Users -> {"none", "private", "party"}]]
          /\ \A j \in Campaigns \ live : note'[j] = note[j]
      <4>1. k \in live
        BY <2>1, <2>3
      <4>2. note' = note \/ note' = [note EXCEPT ![k][u] = "none"]
        BY <1>5, <2>3 DEF CommitDeparture
      <4>3. CASE note' = note
        BY <4>3
      <4>4. CASE note' = [note EXCEPT ![k][u] = "none"]
        BY <2>1, <4>1, <4>4, SetNote
      <4>5. QED
        BY <4>2, <4>3, <4>4
    <3>4. enc' \in [Campaigns -> Encounter]
      <4>1. enc[k] \in Encounter
        BY <2>1
      <4>2. [version |-> Bumped(enc[k].version), pcs |-> req[r].kept] \in Encounter
        BY <2>1, <4>1 DEF Encounter, Bumped, Request
      <4>3. \/ enc' = enc
            \/ enc' = [enc EXCEPT ![k] = [version |-> Bumped(enc[k].version),
                                          pcs |-> req[r].kept]]
        BY <1>5, <2>3 DEF CommitDeparture
      <4>4. QED
        BY <4>2, <4>3
    <3>5. lateChars' \subseteq Characters /\ lateNotes' \subseteq Campaigns \X Users
      BY <1>5, <2>3 DEF CommitDeparture
    <3>6. \A j \in Campaigns \ live : players'[j] = players[j]
      BY <1>5, <2>3 DEF CommitDeparture
    <3>7. live' = live /\ invited' = invited /\ view' = view
      BY <1>5 DEF CommitDeparture
    <3>8. QED
      BY <1>0, <3>1, <3>2, <3>3, <3>4, <3>5, <3>6, <3>7
  <2>4. QED
    BY <2>2, <2>3
<1>6. QED
  BY <1>1, <1>2, <1>3, <1>4, <1>5
     DEF Continue, AttachReadCharacter, CollectCharacters, DetachCharacters,
         DeletePrivateNote, ReadEncounter, DepartureFails

\* The steps keep TypeOK and Busy together; one of them is an arrival, a
\* statement of a request under way, or a step of no request.
THEOREM TypeCorrect == Spec => [](TypeOK /\ Busy)
<1>1. Init => TypeOK /\ Busy
  <2>1. Init => Busy
    BY IdleType DEF Init, Busy
  <2>2. QED
    BY <2>1, TypeInit
<1>2. TypeOK /\ Busy /\ [Next]_vars => TypeOK' /\ Busy'
  <2> SUFFICES ASSUME TypeOK, Busy, [Next]_vars PROVE TypeOK' /\ Busy'
    OBVIOUS
  <2>1. CASE UNCHANGED vars
    BY <2>1 DEF vars, db, late, TypeOK, Busy
  <2>2. ASSUME NEW r \in Requests, Arrive(r) PROVE TypeOK' /\ Busy'
    BY <2>2, ArriveType
  <2>3. ASSUME NEW r \in Requests, Continue(r) PROVE TypeOK' /\ Busy'
    BY <2>3, ContinueType, ContinueBusy
  <2>4. CASE Aside
    BY <2>4, AsideType DEF Busy
  <2>5. QED
    BY <2>1, <2>2, <2>3, <2>4 DEF Next, Aside
<1>3. QED
  BY <1>1, <1>2, PTL DEF Spec

COROLLARY TypeOKHolds == Spec => []TypeOK
BY TypeCorrect, PTL

-----------------------------------------------------------------------------
(* The DM's guarded writes.                                                 *)

LEMMA ViewStep ==
    ASSUME TypeOK, Busy, ViewCurrent, [Next]_vars
    PROVE  ViewCurrent'
<1>1. CASE UNCHANGED <<live, enc, view>>
  BY <1>1 DEF ViewCurrent
<1>2. ASSUME NEW r \in Requests, CommitDeparture(r) PROVE ViewCurrent'
  <2> DEFINE k == req[r].k
  <2>1. k \in Campaigns /\ UNCHANGED <<live, view>>
    BY <1>2 DEF CommitDeparture, Busy
  <2>2. CASE enc' = enc
    BY <2>1, <2>2 DEF ViewCurrent
  <2>3. CASE enc' = [enc EXCEPT ![k] = [version |-> Bumped(enc[k].version),
                                        pcs |-> req[r].kept]]
    <3>1. enc'[k].version = enc[k].version + 1
      BY <2>1, <2>3 DEF TypeOK, Bumped
    <3>2. \A j \in Campaigns \ {k} : enc'[j] = enc[j]
      BY <2>3 DEF TypeOK
    <3>3. enc[k].version \in Nat /\ view[k].version \in Nat
      BY <2>1 DEF TypeOK, Encounter
    <3>4. live \subseteq Campaigns
      BY DEF TypeOK
    <3>5. QED
      BY <2>1, <3>1, <3>2, <3>3, <3>4 DEF ViewCurrent
  <2>4. QED
    BY <1>2, <2>2, <2>3 DEF CommitDeparture
<1>3. ASSUME NEW k \in Campaigns, NEW pcs \in SUBSET Characters, DmSave(k, pcs)
      PROVE  ViewCurrent'
  <2>1. /\ enc'[k].version = view'[k].version /\ enc'[k].pcs = view'[k].pcs
        /\ enc'[k].version \in Nat
    BY <1>3 DEF DmSave, TypeOK, Encounter
  <2>2. \A j \in Campaigns \ {k} : enc'[j] = enc[j] /\ view'[j] = view[j]
    BY <1>3 DEF DmSave, TypeOK
  <2>3. QED
    BY <1>3, <2>1, <2>2 DEF DmSave, ViewCurrent, TypeOK
<1>4. ASSUME NEW k \in Campaigns, DmFetch(k) PROVE ViewCurrent'
  BY <1>4 DEF DmFetch, ViewCurrent, TypeOK, Encounter, db
<1>5. ASSUME NEW k \in Campaigns, DeleteCampaign(k) PROVE ViewCurrent'
  <2>1. \A j \in Campaigns \ {k} : enc'[j] = enc[j]
    BY <1>5 DEF DeleteCampaign, TypeOK
  <2>2. QED
    BY <1>5, <2>1 DEF DeleteCampaign, ViewCurrent, TypeOK
<1>6. CASE UNCHANGED vars
  BY <1>1, <1>6 DEF vars, db
<1>7. ASSUME NEW r \in Requests, Arrive(r) PROVE ViewCurrent'
  BY <1>1, <1>7, ArrivedHolds DEF db
<1>8. ASSUME NEW r \in Requests, Continue(r) PROVE ViewCurrent'
  BY <1>1, <1>2, <1>8
     DEF Continue, JoinWrite, AttachReadCharacter, AttachWrite, NoteWrite,
         CollectCharacters, DetachCharacters, DeletePrivateNote, ReadEncounter,
         DepartureFails, db
<1>9. CASE Aside
  <2>1. ASSUME NEW k \in Campaigns, GenerateInviteCode(k) \/ InviteEnds(k)
        PROVE  ViewCurrent'
    BY <1>1, <2>1 DEF GenerateInviteCode, InviteEnds
  <2>2. ASSUME NEW k \in Campaigns, NEW u \in Users, EditNote(k, u) \/ DeleteNote(k, u)
        PROVE  ViewCurrent'
    BY <1>1, <2>2 DEF EditNote, DeleteNote
  <2>3. ASSUME NEW c \in Characters, CreateCharacter(c) \/ RemoveCharacter(c)
        PROVE  ViewCurrent'
    BY <1>1, <2>3 DEF CreateCharacter, RemoveCharacter
  <2>4. QED
    BY <1>3, <1>4, <1>5, <1>9, <2>1, <2>2, <2>3, DmSaves DEF Aside
<1>10. QED
  BY <1>6, <1>7, <1>8, <1>9 DEF Next, Aside

\* A save that passes the guard starts from the encounter as it is.
LEMMA SaveFromCurrent ==
    ASSUME TypeOK, ViewCurrent, NEW k \in Campaigns, NEW pcs, DmSave(k, pcs)
    PROVE  enc'[k].pcs = pcs /\ view[k].pcs = enc[k].pcs
BY DEF TypeOK, ViewCurrent, DmSave

\* Whatever the DM saves, only an addition adds to the encounter, and only the
\* character the DM chose: the cleanup's bump makes every older array fail.
THEOREM StaleArrayAddsNobodyHolds == Spec => StaleArrayAddsNobody
<1> DEFINE I == TypeOK /\ Busy /\ ViewCurrent
           Adds(k) == /\ DmEdit(k) => enc'[k].pcs \subseteq enc[k].pcs
                      /\ \A c \in Characters :
                           /\ DmRemove(k, c) => enc'[k].pcs \subseteq enc[k].pcs
                           /\ DmAdd(k, c) => enc'[k].pcs \subseteq enc[k].pcs \cup {c}
<1>1. Init => ViewCurrent
  <2> SUFFICES ASSUME Init, NEW k \in live
               PROVE  /\ view[k].version <= enc[k].version
                      /\ view[k].version = enc[k].version => view[k].pcs = enc[k].pcs
    BY DEF ViewCurrent
  <2>1. k \in Campaigns
    BY DEF Init
  <2>2. /\ view[k] = [version |-> 0, pcs |-> {}, party |-> {}]
        /\ enc[k] = [version |-> 0, pcs |-> {}]
    BY <2>1, Zenon DEF Init
  <2>3. QED
    BY <2>2
<1>2. TypeOK /\ Busy /\ ViewCurrent /\ [Next]_vars => ViewCurrent'
  BY ViewStep
<1>3. TypeOK /\ ViewCurrent => \A k \in Campaigns : Adds(k)
  <2> SUFFICES ASSUME TypeOK, ViewCurrent, NEW k \in Campaigns PROVE Adds(k)
    OBVIOUS
  <2>1. DmEdit(k) => enc'[k].pcs = enc[k].pcs
    BY SaveFromCurrent DEF DmEdit
  <2>2. ASSUME NEW c \in Characters, DmRemove(k, c)
        PROVE  enc'[k].pcs = enc[k].pcs \ {c}
    BY <2>2, SaveFromCurrent DEF DmRemove
  <2>3. ASSUME NEW c \in Characters, DmAdd(k, c)
        PROVE  enc'[k].pcs = enc[k].pcs \cup {c}
    BY <2>3, SaveFromCurrent DEF DmAdd
  <2>4. QED
    BY <2>1, <2>2, <2>3
<1>4. TypeOK /\ ViewCurrent => [\A k \in Campaigns : Adds(k)]_vars
  BY <1>3
<1>5. QED
  BY <1>1, <1>2, <1>4, TypeCorrect, PTL DEF Spec, StaleArrayAddsNobody

-----------------------------------------------------------------------------
(* What a departure leaves behind.                                          *)

Safe == Locks /\ FoundOrLate /\ NothingLeftBehind

\* Request r holds no lock and is at no stage of a sweep after the step.
Free(r) ==
    /\ req'[r].found = {} /\ req'[r].notes = FALSE /\ req'[r].pc \notin Sweeping
    /\ \A q \in Requests \ {r} : req'[q] = req[q]

LEMMA SweptIsSweeping == Swept \subseteq Sweeping
BY DEF Swept, Sweeping

LEMMA IdleIsFree ==
    ASSUME TypeOK, NEW r \in Requests, Finish(r)
    PROVE  Free(r)
BY IdleType DEF TypeOK, Finish, Free, Sweeping

LEMMA FreeStep ==
    ASSUME TypeOK, Safe, NEW r \in Requests, Free(r),
           UNCHANGED <<attached, note, late>>,
           \A k \in Campaigns : players[k] \subseteq players'[k]
    PROVE  Safe'
<1>1. Locks'
  BY DEF Safe, Free, Locks, late
<1>2. FoundOrLate'
  BY SweptIsSweeping DEF Safe, Free, FoundOrLate, late
<1>3. NothingLeftBehind'
  BY DEF Safe, NothingLeftBehind, late
<1>4. QED
  BY <1>1, <1>2, <1>3 DEF Safe

LEMMA ArriveSafe ==
    ASSUME TypeOK, Safe, NEW r \in Requests, Arrive(r)
    PROVE  Safe'
<1>1. PICK pc \in Stage \ {"idle", "notes", "strip", "commit"}, u \in Users,
           k \in Campaigns, c \in Characters \cup {None} :
        req' = [req EXCEPT ![r] = Step(pc, u, k, c)]
  BY ArrivedHolds DEF Arrived
<1>2. Free(r)
  BY <1>1 DEF TypeOK, Free, Step, Sweeping
<1>3. QED
  BY <1>2, ArrivedHolds, FreeStep DEF db

LEMMA AttachWriteSafe ==
    ASSUME TypeOK, Busy, Safe, NEW r \in Requests, AttachWrite(r)
    PROVE  Safe'
<1> DEFINE k == req[r].k
           c == req[r].char
<1>0. Free(r) /\ UNCHANGED <<players, note, lateNotes>>
  BY IdleIsFree DEF AttachWrite
<1>1. k \in Campaigns /\ c \in Characters
  BY DEF Busy, AttachWrite
<1>2. CASE UNCHANGED <<attached, lateChars>>
  BY <1>0, <1>2, FreeStep DEF late
<1>3. CASE /\ attached' = [attached EXCEPT ![c] = k]
           /\ lateChars' = Mark(lateChars, c, CharacterTooLate(k, c))
  <2>1. /\ attached'[c] = k
        /\ \A d \in Characters \ {c} : /\ attached'[d] = attached[d]
                                       /\ d \in lateChars' <=> d \in lateChars
    BY <1>1, <1>3 DEF TypeOK, Mark
  <2>2. c \in lateChars' <=> CharacterTooLate(k, c)
    BY <1>3 DEF Mark
  <2>3. \A q \in Requests : c \notin req[q].found
    BY DEF AttachWrite, Locked
  <2>4. Locks'
    <3>1. \A q \in Requests : req'[q].found \subseteq Characters
      BY <1>0 DEF TypeOK, Request, Free
    <3>2. QED
      BY <1>0, <2>1, <2>3, <3>1 DEF Safe, Locks, Free
  <2>5. FoundOrLate'
    <3>1. ASSUME NEW q \in Requests, q # r, req[q].pc \in Sweeping,
                 PlayedBy[c] = req[q].user, req[q].k = k
          PROVE  c \in lateChars'
      BY <2>2, <3>1 DEF CharacterTooLate, Gone, Sweeping
    <3>2. QED
      BY <1>0, <2>1, <3>1, SweptIsSweeping DEF Safe, FoundOrLate, Free
  <2>6. NothingLeftBehind'
    <3>1. PlayedBy[c] \notin players[k] => c \in lateChars'
      BY <2>2 DEF CharacterTooLate, Gone
    <3>2. QED
      BY <1>0, <2>1, <3>1 DEF Safe, NothingLeftBehind
  <2>7. QED
    BY <2>4, <2>5, <2>6 DEF Safe
<1>4. QED
  BY <1>2, <1>3 DEF AttachWrite

\* Setting u's note in k, with nobody holding it, and marking it as late
\* exactly if a sweep of u has passed.
LEMMA NoteSafe ==
    ASSUME TypeOK, Busy, Safe, NEW k \in Campaigns, NEW u \in Users,
           NEW v \in {"none", "private", "party"},
           note' = [note EXCEPT ![k][u] = v],
           ~NoteLocked(k, u),
           UNCHANGED <<attached, players, lateChars>>,
           v = "private" => (NoteTooLate(k, u) => <<k, u>> \in lateNotes'),
           \A j \in Campaigns, w \in Users :
             <<j, w>> # <<k, u>> => (<<j, w>> \in lateNotes <=> <<j, w>> \in lateNotes'),
           \A q \in Requests : \/ req'[q] = req[q]
                               \/ /\ req'[q].found = {} /\ req'[q].notes = FALSE
                                  /\ req'[q].pc \notin Sweeping
    PROVE  Safe'
<1>1. /\ note'[k][u] = v
      /\ \A j \in Campaigns, w \in Users :
           <<j, w>> # <<k, u>> => note'[j][w] = note[j][w]
  BY SetNote DEF TypeOK
<1>2. \A q \in Requests : req'[q].pc \in Sweeping =>
        /\ req'[q] = req[q]
        /\ req[q].k \in Campaigns /\ req[q].user \in Users
  BY DEF Busy, Sweeping
<1>3. Locks'
  <2>1. ASSUME NEW q \in Requests, req'[q].notes
        PROVE  note'[req'[q].k][req'[q].user] = "private"
    <3>1. req'[q] = req[q] /\ req[q].notes
      BY <2>1
    <3>2. <<req[q].k, req[q].user>> # <<k, u>> /\ req[q].k \in Campaigns /\ req[q].user \in Users
      BY <3>1 DEF NoteLocked, Busy, Swept
    <3>3. QED
      BY <1>1, <3>1, <3>2 DEF Safe, Locks
  <2>2. QED
    BY <2>1 DEF Safe, Locks
<1>4. FoundOrLate'
  <2>1. ASSUME NEW q \in Requests, req'[q].pc \in Swept,
               note'[req'[q].k][req'[q].user] = "private"
        PROVE  req'[q].notes \/ <<req'[q].k, req'[q].user>> \in lateNotes'
    <3>1. /\ req'[q] = req[q] /\ req[q].k \in Campaigns /\ req[q].user \in Users
          /\ req[q].pc \in Swept
      BY <1>2, <2>1, SweptIsSweeping
    <3>2. CASE <<req[q].k, req[q].user>> = <<k, u>>
      BY <1>1, <2>1, <3>1, <3>2 DEF NoteTooLate, Gone, Swept
    <3>3. CASE <<req[q].k, req[q].user>> # <<k, u>>
      BY <1>1, <2>1, <3>1, <3>3 DEF Safe, FoundOrLate
    <3>4. QED
      BY <3>2, <3>3
  <2>2. QED
    BY <1>2, <2>1 DEF Safe, FoundOrLate
<1>5. NothingLeftBehind'
  <2>1. ASSUME NEW j \in Campaigns, NEW w \in Users \ players'[j],
               note'[j][w] = "private", w # Owner[j]
        PROVE  <<j, w>> \in lateNotes'
    <3>1. CASE <<j, w>> = <<k, u>>
      BY <1>1, <2>1, <3>1 DEF NoteTooLate, Gone
    <3>2. CASE <<j, w>> # <<k, u>>
      BY <1>1, <2>1, <3>2 DEF Safe, NothingLeftBehind
    <3>3. QED
      BY <3>1, <3>2
  <2>2. QED
    BY <2>1 DEF Safe, NothingLeftBehind
<1>6. QED
  BY <1>3, <1>4, <1>5 DEF Safe

LEMMA SweepSafe ==
    ASSUME TypeOK, Busy, Safe, NEW r \in Requests,
           DetachCharacters(r) \/ DeletePrivateNote(r) \/ ReadEncounter(r)
    PROVE  Safe'
<1>0. /\ \A q \in Requests \ {r} : req'[q] = req[q]
      /\ UNCHANGED <<attached, note, players, lateChars, lateNotes>>
  BY ContinueOthers DEF Continue, DetachCharacters, DeletePrivateNote, ReadEncounter,
                        db, late
<1>00. NothingLeftBehind'
  BY <1>0 DEF Safe, NothingLeftBehind
<1>1. CASE DetachCharacters(r)
  <2>1. /\ req'[r].pc = "notes" /\ req'[r].found = ToDetach(r) /\ req'[r].notes = FALSE
        /\ req'[r].user = req[r].user /\ req'[r].k = req[r].k
    BY <1>1 DEF TypeOK, DetachCharacters, Request, Busy, Swept
  <2>2. \A q \in Requests : ToDetach(r) \cap req[q].found = {}
    BY <1>1 DEF DetachCharacters, Locked
  <2>3. Locks'
    BY <1>0, <2>1, <2>2 DEF Safe, Locks, ToDetach, Of
  <2>4. FoundOrLate'
    BY <1>0, <2>1 DEF Safe, FoundOrLate, ToDetach, Of, Swept
  <2>5. QED
    BY <1>00, <2>3, <2>4 DEF Safe
<1>2. CASE DeletePrivateNote(r)
  <2>1. /\ req'[r].pc = "strip" /\ req[r].pc = "notes" /\ req'[r].found = req[r].found
        /\ req'[r].notes = (note[req[r].k][req[r].user] = "private")
        /\ req'[r].user = req[r].user /\ req'[r].k = req[r].k
    BY <1>2 DEF TypeOK, DeletePrivateNote, Request
  <2>2. \A q \in Requests \ {r} :
          ~(req[q].notes /\ req[q].k = req[r].k /\ req[q].user = req[r].user)
    BY <1>2 DEF DeletePrivateNote, NoteLocked
  <2>3. Locks'
    <3>1. \A q \in Requests : /\ req'[q].found = req[q].found
                              /\ req'[q].user = req[q].user /\ req'[q].k = req[q].k
      BY <1>0, <2>1
    <3>2. \A q \in Requests : req'[q].notes => note'[req'[q].k][req'[q].user] = "private"
      <4>1. req'[r].notes => note[req[r].k][req[r].user] = "private"
        BY <2>1, Zenon
      <4>2. QED
        BY <1>0, <2>1, <4>1 DEF Safe, Locks
    <3>3. \A q \in Requests : \A c \in req'[q].found :
            PlayedBy[c] = req'[q].user /\ attached'[c] = req'[q].k
      BY <1>0, <3>1 DEF Safe, Locks
    <3>4. \A q1, q2 \in Requests : q1 # q2 =>
            /\ req'[q1].found \cap req'[q2].found = {}
            /\ ~(/\ req'[q1].notes /\ req'[q2].notes
                 /\ req'[q1].k = req'[q2].k /\ req'[q1].user = req'[q2].user)
      BY <1>0, <2>1, <2>2, <3>1 DEF Safe, Locks
    <3>5. QED
      BY <3>2, <3>3, <3>4 DEF Locks
  <2>4. FoundOrLate'
    BY <1>0, <2>1 DEF Safe, FoundOrLate, Sweeping
  <2>5. QED
    BY <1>00, <2>3, <2>4 DEF Safe
<1>3. CASE ReadEncounter(r)
  <2>1. /\ req'[r].pc = "commit" /\ req[r].pc = "strip" /\ req'[r].found = req[r].found
        /\ req'[r].notes = req[r].notes
        /\ req'[r].user = req[r].user /\ req'[r].k = req[r].k
    BY <1>3 DEF TypeOK, ReadEncounter, Request
  <2>3. Locks'
    BY <1>0, <2>1 DEF Safe, Locks
  <2>4. FoundOrLate'
    BY <1>0, <2>1 DEF Safe, FoundOrLate, Sweeping, Swept
  <2>5. QED
    BY <1>00, <2>3, <2>4 DEF Safe
<1>4. QED
  BY <1>1, <1>2, <1>3

LEMMA CommitSafe ==
    ASSUME TypeOK, Busy, Safe, NEW r \in Requests, CommitDeparture(r)
    PROVE  Safe'
<1> DEFINE k == req[r].k
           u == req[r].user
<1>0. Free(r) /\ k \in Campaigns /\ u \in Users /\ req[r].pc = "commit"
  BY IdleIsFree DEF CommitDeparture, Busy
<1>1. CASE UNCHANGED <<players, attached, note, lateChars, lateNotes>>
  BY <1>0, <1>1, FreeStep DEF late
<1>2. CASE u \in players[k]
  <2>1. /\ players' = [players EXCEPT ![k] = players[k] \ {u}]
        /\ attached' = [c \in Characters |->
                          IF c \in req[r].found THEN None ELSE attached[c]]
        /\ lateChars' = lateChars \ req[r].found
        /\ req[r].notes => /\ note' = [note EXCEPT ![k][u] = "none"]
                           /\ lateNotes' = lateNotes \ {<<k, u>>}
        /\ ~req[r].notes => note' = note /\ lateNotes' = lateNotes
    BY <1>2 DEF CommitDeparture
  <2>2. /\ players'[k] = players[k] \ {u}
        /\ \A j \in Campaigns \ {k} : players'[j] = players[j]
    BY <1>0, <2>1 DEF TypeOK
  <2>4. \A c \in Characters, j \in Campaigns :
          attached'[c] = j => c \notin req[r].found /\ attached[c] = j
    BY <2>1, MembershipAssumption
  <2>5. \A j \in Campaigns, w \in Users :
          note'[j][w] = "private" =>
            /\ note[j][w] = "private"
            /\ ~(req[r].notes /\ j = k /\ w = u)
            /\ <<j, w>> \in lateNotes => <<j, w>> \in lateNotes'
    <3>1. CASE req[r].notes
      BY <1>0, <2>1, <3>1, SetNote DEF TypeOK
    <3>2. CASE ~req[r].notes
      BY <2>1, <3>2
    <3>3. QED
      BY <3>1, <3>2
  <2>6. Locks'
    <3>1. ASSUME NEW q \in Requests \ {r}, NEW c \in req[q].found
          PROVE  attached'[c] = attached[c]
      BY <2>1, <3>1 DEF Safe, Locks, TypeOK, Request
    <3>2. ASSUME NEW q \in Requests \ {r}, req[q].notes
          PROVE  note'[req[q].k][req[q].user] = note[req[q].k][req[q].user]
      <4>1. req[q].k \in Campaigns /\ req[q].user \in Users
        BY <3>2 DEF Busy, Swept
      <4>2. CASE req[r].notes
        <5>1. ~(req[q].k = k /\ req[q].user = u)
          BY <3>2, <4>2 DEF Safe, Locks
        <5>2. QED
          BY <1>0, <2>1, <4>1, <4>2, <5>1, SetNote DEF TypeOK
      <4>3. QED
        BY <2>1, <4>2
    <3>3. QED
      BY <1>0, <3>1, <3>2 DEF Safe, Locks, Free
  <2>7. FoundOrLate'
    <3>1. ASSUME NEW q \in Requests \ {r}, req[q].pc \in Sweeping, NEW c \in Characters,
                 PlayedBy[c] = req[q].user, attached'[c] = req[q].k
          PROVE  c \in req[q].found \cup lateChars'
      BY <2>1, <2>4, <3>1 DEF Safe, FoundOrLate, Busy, Sweeping
    <3>2. ASSUME NEW q \in Requests \ {r}, req[q].pc \in Swept,
                 note'[req[q].k][req[q].user] = "private"
          PROVE  req[q].notes \/ <<req[q].k, req[q].user>> \in lateNotes'
      BY <2>5, <3>2 DEF Safe, FoundOrLate, Busy, Swept
    <3>3. QED
      BY <1>0, <3>1, <3>2, SweptIsSweeping DEF FoundOrLate, Free
  <2>8. NothingLeftBehind'
    <3>1. ASSUME NEW j \in Campaigns, NEW c \in Characters, attached'[c] = j,
                 PlayedBy[c] \notin players'[j], PlayedBy[c] # Owner[j]
          PROVE  c \in lateChars'
      <4>1. c \notin req[r].found /\ attached[c] = j
        BY <2>4, <3>1
      <4>2. CASE j = k /\ PlayedBy[c] = u
        BY <1>0, <2>1, <4>1, <4>2 DEF Safe, FoundOrLate, Sweeping
      <4>3. CASE ~(j = k /\ PlayedBy[c] = u)
        BY <2>1, <2>2, <3>1, <4>1, <4>3 DEF Safe, NothingLeftBehind
      <4>4. QED
        BY <4>2, <4>3
    <3>2. ASSUME NEW j \in Campaigns, NEW w \in Users \ players'[j],
                 note'[j][w] = "private", w # Owner[j]
          PROVE  <<j, w>> \in lateNotes'
      <4>1. CASE j = k /\ w = u
        BY <1>0, <2>5, <3>2, <4>1 DEF Safe, FoundOrLate, Swept
      <4>2. CASE ~(j = k /\ w = u)
        BY <2>2, <2>5, <3>2, <4>2 DEF Safe, NothingLeftBehind
      <4>3. QED
        BY <4>1, <4>2
    <3>3. QED
      BY <3>1, <3>2 DEF NothingLeftBehind
  <2>9. QED
    BY <2>6, <2>7, <2>8 DEF Safe
<1>3. QED
  BY <1>1, <1>2 DEF CommitDeparture, late

LEMMA ContinueSafe ==
    ASSUME TypeOK, Busy, Safe, NEW r \in Requests, Continue(r)
    PROVE  Safe'
<1>1. CASE JoinWrite(r)
  <2>1. Free(r) /\ UNCHANGED <<attached, note, late>>
    BY <1>1, IdleIsFree DEF JoinWrite
  <2>2. \A k \in Campaigns : players[k] \subseteq players'[k]
    BY <1>1 DEF JoinWrite, TypeOK
  <2>3. QED
    BY <2>1, <2>2, FreeStep
<1>2. CASE Finish(r) /\ UNCHANGED <<db, late>>
  BY <1>2, IdleIsFree, FreeStep DEF db
<1>3. CASE req' = [req EXCEPT ![r].pc = "write"] /\ req[r].pc = "attach" /\ UNCHANGED <<db, late>>
  <2>1. Free(r)
    BY <1>3 DEF TypeOK, Request, Free, Busy, Sweeping, Swept
  <2>2. QED
    BY <1>3, <2>1, FreeStep DEF db
<1>4. CASE CollectCharacters(r)
  <2>1. Free(r)
    <3>1. /\ req'[r].pc = "detach" /\ req[r].pc = "depart"
          /\ req'[r].found = req[r].found /\ req'[r].notes = req[r].notes
          /\ req[r].notes \in BOOLEAN
      BY <1>4 DEF TypeOK, Request, CollectCharacters
    <3>2. \A q \in Requests \ {r} : req'[q] = req[q]
      BY <1>4, ContinueOthers DEF Continue
    <3>3. QED
      BY <3>1, <3>2 DEF Free, Busy, Sweeping, Swept
  <2>2. QED
    BY <1>4, <2>1, FreeStep DEF CollectCharacters, db
<1>5. CASE NoteWrite(r)
  <2> DEFINE k == req[r].k
             u == req[r].user
  <2>1. Free(r) /\ UNCHANGED <<attached, players, lateChars>>
    BY <1>5, IdleIsFree DEF NoteWrite
  <2>2. CASE UNCHANGED <<note, lateNotes>>
    BY <2>1, <2>2, FreeStep DEF late
  <2>3. CASE /\ note[k][u] = "none"
             /\ \E v \in {"private", "party"} :
                  /\ note' = [note EXCEPT ![k][u] = v]
                  /\ lateNotes' = Mark(lateNotes, <<k, u>>, NoteTooLate(k, u))
    <3>1. k \in Campaigns /\ u \in Users
      BY <1>5 DEF NoteWrite, Busy
    <3>2. PICK v \in {"none", "private", "party"} : note' = [note EXCEPT ![k][u] = v]
      BY <2>3
    <3>3. ~NoteLocked(k, u)
      BY <2>3 DEF NoteLocked, Safe, Locks
    <3>4. /\ NoteTooLate(k, u) => <<k, u>> \in lateNotes'
          /\ \A j \in Campaigns, w \in Users :
               <<j, w>> # <<k, u>> => (<<j, w>> \in lateNotes <=> <<j, w>> \in lateNotes')
      BY <2>3 DEF Mark
    <3>5. \A q \in Requests :
            \/ req'[q] = req[q]
            \/ /\ req'[q].found = {} /\ req'[q].notes = FALSE
               /\ req'[q].pc \notin Sweeping
      BY <2>1 DEF Free
    <3>6. QED
      BY <2>1, <3>1, <3>2, <3>3, <3>4, <3>5, NoteSafe
  <2>4. QED
    BY <1>5, <2>2, <2>3 DEF NoteWrite
<1>6. QED
  BY <1>1, <1>2, <1>3, <1>4, <1>5, AttachWriteSafe, SweepSafe, CommitSafe
     DEF Continue, AttachReadCharacter, DepartureFails

LEMMA AsideSafe ==
    ASSUME TypeOK, Busy, Safe, Aside
    PROVE  Safe'
<1>0. UNCHANGED req
  BY AsideType
<1>1. CASE UNCHANGED <<players, attached, note, late>>
  BY <1>0, <1>1 DEF Safe, Locks, FoundOrLate, NothingLeftBehind, late
<1>2. ASSUME NEW k \in Campaigns, NEW u \in Users, EditNote(k, u) \/ DeleteNote(k, u)
      PROVE  Safe'
  <2>1. PICK v \in {"none", "private", "party"} :
          /\ note' = [note EXCEPT ![k][u] = v]
          /\ v = "private" => (NoteTooLate(k, u) => <<k, u>> \in lateNotes')
    <3>1. CASE EditNote(k, u)
      BY <3>1 DEF EditNote, Mark
    <3>2. CASE DeleteNote(k, u)
      BY <3>2 DEF DeleteNote
    <3>3. QED
      BY <1>2, <3>1, <3>2
  <2>2. \A j \in Campaigns, w \in Users :
          <<j, w>> # <<k, u>> => (<<j, w>> \in lateNotes <=> <<j, w>> \in lateNotes')
    BY <1>2 DEF EditNote, DeleteNote, Mark
  <2>3. ~NoteLocked(k, u) /\ UNCHANGED <<attached, players, lateChars>>
    BY <1>2 DEF EditNote, DeleteNote
  <2>4. QED
    BY <1>0, <2>1, <2>2, <2>3, NoteSafe
<1>3. ASSUME NEW c \in Characters, CreateCharacter(c) \/ RemoveCharacter(c)
      PROVE  Safe'
  <2>1. /\ attached' = [attached EXCEPT ![c] = None]
        /\ UNCHANGED <<players, note, lateNotes>>
        /\ lateChars \ {c} \subseteq lateChars'
    BY <1>3 DEF CreateCharacter, RemoveCharacter, late
  <2>2. \A q \in Requests : c \notin req[q].found
    <3>1. CASE CreateCharacter(c)
      BY <3>1, MembershipAssumption
         DEF CreateCharacter, Safe, Locks, Busy, Sweeping
    <3>2. CASE RemoveCharacter(c)
      BY <3>2 DEF RemoveCharacter, Locked
    <3>3. QED
      BY <1>3, <3>1, <3>2
  <2>3. /\ attached'[c] = None
        /\ \A d \in Characters \ {c} : attached'[d] = attached[d]
    BY <2>1 DEF TypeOK
  <2>4. Locks'
    BY <1>0, <2>1, <2>2, <2>3 DEF Safe, Locks, TypeOK, Request
  <2>5. FoundOrLate'
    BY <1>0, <2>1, <2>3, MembershipAssumption DEF Safe, FoundOrLate, Busy, Sweeping
  <2>6. NothingLeftBehind'
    BY <1>0, <2>1, <2>3, MembershipAssumption DEF Safe, NothingLeftBehind
  <2>7. QED
    BY <2>4, <2>5, <2>6 DEF Safe
<1>4. ASSUME NEW k \in Campaigns, DeleteCampaign(k) PROVE Safe'
  <2>1. \A c \in Characters : IF attached[c] = k THEN attached'[c] = None
                                                 ELSE attached'[c] = attached[c]
    BY <1>4 DEF DeleteCampaign
  <2>2. /\ \A u \in Users : players'[k] = {} /\ note'[k][u] = "none"
        /\ \A j \in Campaigns \ {k} : players'[j] = players[j] /\ note'[j] = note[j]
    BY <1>4 DEF DeleteCampaign, TypeOK
  <2>3. /\ \A c \in lateChars : attached[c] # k => c \in lateChars'
        /\ \A j \in Campaigns \ {k}, w \in Users :
             <<j, w>> \in lateNotes => <<j, w>> \in lateNotes'
    BY <1>4 DEF DeleteCampaign
  <2>4. \A q \in Requests : /\ \A c \in req[q].found : attached[c] # k
                            /\ req[q].notes => req[q].k # k
    <3>1. ASSUME NEW q \in Requests, NEW c \in req[q].found PROVE attached[c] # k
      BY <1>4, <3>1 DEF DeleteCampaign, Locked, TypeOK, Request
    <3>2. ASSUME NEW q \in Requests, req[q].notes PROVE req[q].k # k
      <4>1. req[q].user \in Users
        BY <3>2 DEF Busy, Swept
      <4>2. QED
        BY <1>4, <3>2, <4>1 DEF DeleteCampaign, NoteLocked
    <3>3. QED
      BY <3>1, <3>2
  <2>5. Locks'
    BY <1>0, <2>1, <2>2, <2>4 DEF Safe, Locks, TypeOK, Request, Busy, Swept
  <2>6. FoundOrLate'
    <3>1. ASSUME NEW q \in Requests, req[q].pc \in Sweeping, NEW c \in Characters,
                 PlayedBy[c] = req[q].user, attached'[c] = req[q].k
          PROVE  c \in req[q].found \cup lateChars'
      BY <2>1, <2>3, <3>1, MembershipAssumption DEF Safe, FoundOrLate, Busy, Sweeping
    <3>2. ASSUME NEW q \in Requests, req[q].pc \in Swept,
                 note'[req[q].k][req[q].user] = "private"
          PROVE  req[q].notes \/ <<req[q].k, req[q].user>> \in lateNotes'
      BY <2>2, <2>3, <3>2 DEF Safe, FoundOrLate, Busy, Swept
    <3>3. QED
      BY <1>0, <3>1, <3>2 DEF FoundOrLate
  <2>7. NothingLeftBehind'
    BY <2>1, <2>2, <2>3, MembershipAssumption DEF Safe, NothingLeftBehind
  <2>8. QED
    BY <2>5, <2>6, <2>7 DEF Safe
<1>5. QED
  BY <1>1, <1>2, <1>3, <1>4
     DEF Aside, GenerateInviteCode, InviteEnds, DmFetch, DmEdit, DmAdd, DmRemove, DmSave, db

\* Who is no member has left no character and no private note in the campaign,
\* but for those written while the departure was sweeping or after it.
THEOREM NothingLeftBehindHolds == Spec => []NothingLeftBehind
<1>1. Init => Safe
  <2> SUFFICES ASSUME Init PROVE Safe
    OBVIOUS
  <2>1. \A r \in Requests : req[r] = Idle
    BY DEF Init
  <2>2. Locks /\ FoundOrLate
    BY <2>1, IdleType DEF Locks, FoundOrLate, Sweeping, Swept
  <2>3. NothingLeftBehind
    BY MembershipAssumption DEF Init, NothingLeftBehind
  <2>4. QED
    BY <2>2, <2>3 DEF Safe
<1>2. TypeOK /\ Busy /\ Safe /\ [Next]_vars => Safe'
  <2> SUFFICES ASSUME TypeOK, Busy, Safe, [Next]_vars PROVE Safe'
    OBVIOUS
  <2>1. CASE UNCHANGED vars
    BY <2>1 DEF vars, db, late, Safe, Locks, FoundOrLate, NothingLeftBehind
  <2>2. QED
    BY <2>1, ArriveSafe, ContinueSafe, AsideSafe DEF Next, Aside
<1>3. Safe => NothingLeftBehind
  BY DEF Safe
<1>4. QED
  BY <1>1, <1>2, <1>3, TypeCorrect, PTL DEF Spec

=============================================================================
