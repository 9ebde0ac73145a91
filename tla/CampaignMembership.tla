-------------------------- MODULE CampaignMembership --------------------------
(***************************************************************************)
(* Who belongs to a campaign, and what a departure takes along:             *)
(* backend/src/campaigns/campaigns.service.ts, with the notes, the          *)
(* encounter and the characters it touches (notes.service.ts,               *)
(* encounters.service.ts, characters.service.ts).                           *)
(*                                                                         *)
(* A handler is one action per statement.  The cleanup of a departure is a  *)
(* READ COMMITTED transaction: each of its statements sees what had been    *)
(* committed when it began, the rows it writes stay locked, and all its     *)
(* writes appear at its commit.  A campaign has one encounter and a user    *)
(* one note in it; of the encounter only its player characters and its      *)
(* version are kept (turns and hit points are EncounterTracker's).          *)
(***************************************************************************)
EXTENDS Naturals, FiniteSets

CONSTANTS
    Users,        \* accounts
    Campaigns,    \* campaign ids
    Owner,        \* Owner[k]: the DM of campaign k (ownerId)
    Characters,   \* character ids
    PlayedBy,     \* PlayedBy[c]: the user a character belongs to (userId)
    Requests,     \* concurrent request handlers
    None,         \* SQL NULL
    MaxVersion    \* bound: the DM saves no encounter beyond this version

ASSUME MembershipAssumption ==
    /\ Owner \in [Campaigns -> Users] /\ PlayedBy \in [Characters -> Users]
    /\ None \notin Users \cup Campaigns \cup Characters
    /\ "unborn" \notin Campaigns \cup {None}
    /\ MaxVersion \in Nat

VARIABLES
    live,      \* the campaigns that exist
    players,   \* players[k]: the users with a row in campaign_players
    invited,   \* the campaigns with an invite code that has not expired
    attached,  \* attached[c]: campaignId, or "unborn" while there is no row
    note,      \* note[k][u]: the visibility of u's note in k, or "none"
    enc,       \* enc[k]: version and player characters of k's encounter
    view,      \* view[k]: the DM's cached encounter and party roster
    req,       \* req[r]: where request r is, and what it has read
    lateChars, \* ghost: the characters attached too late to be swept
    lateNotes  \* ghost: <<k, u>> whose note was written too late to be swept

db == <<live, players, invited, attached, note, enc>>
late == <<lateChars, lateNotes>>
vars == <<db, view, req, late>>

-----------------------------------------------------------------------------
Stage == {"idle", "join", "attach", "write", "note",
          "depart", "detach", "notes", "strip", "commit"}

Encounter == [version : Nat, pcs : SUBSET Characters]

Request ==
    [pc : Stage, user : Users \cup {None}, k : Campaigns \cup {None},
     char : Characters \cup {None}, owned : SUBSET Characters,
     found : SUBSET Characters, notes : BOOLEAN, kept : SUBSET Characters,
     strips : BOOLEAN]

\* A request for what user u does in campaign k, of which nothing is read yet.
Step(pc, u, k, c) ==
    [pc |-> pc, user |-> u, k |-> k, char |-> c, owned |-> {}, found |-> {},
     notes |-> FALSE, kept |-> {}, strips |-> FALSE]

Idle == Step("idle", None, None, None)

\* Columns and requests keep their types, and no row outlives its campaign:
\* memberships, notes and encounters go with it, characters are let go.
TypeOK ==
    /\ live \subseteq Campaigns
    /\ players \in [Campaigns -> SUBSET Users]
    /\ invited \subseteq live
    /\ attached \in [Characters -> live \cup {None, "unborn"}]
    /\ note \in [Campaigns -> [Users -> {"none", "private", "party"}]]
    /\ enc \in [Campaigns -> Encounter]
    /\ view \in [Campaigns -> [version : Nat, pcs : SUBSET Characters,
                               party : SUBSET Characters]]
    /\ req \in [Requests -> Request]
    /\ lateChars \subseteq Characters /\ lateNotes \subseteq Campaigns \X Users
    /\ \A k \in Campaigns \ live : players[k] = {} /\ \A u \in Users : note[k][u] = "none"

\* create: the owner gets a row in campaign_players too.
Init ==
    /\ live = Campaigns
    /\ players = [k \in Campaigns |-> {Owner[k]}]
    /\ invited = {}
    /\ attached = [c \in Characters |-> "unborn"]
    /\ note = [k \in Campaigns |-> [u \in Users |-> "none"]]
    /\ enc = [k \in Campaigns |-> [version |-> 0, pcs |-> {}]]
    /\ view = [k \in Campaigns |-> [version |-> 0, pcs |-> {}, party |-> {}]]
    /\ req = [r \in Requests |-> Idle]
    /\ lateChars = {} /\ lateNotes = {}

Begin(r, step) == req[r].pc = "idle" /\ req' = [req EXCEPT ![r] = step]
Finish(r) == req' = [req EXCEPT ![r] = Idle]

\* assertCampaignMember.
IsMember(k, u) == k \in live /\ (u = Owner[k] \/ u \in players[k])

\* Mutated form: rows may refer to a campaign that has been deleted.
Unchecked(k) == TRUE

\* What campaignId's foreign key asks of an insert or update.
Referable(k) == k \in live

Of(u) == {c \in Characters : PlayedBy[c] = u}

-----------------------------------------------------------------------------
(* Row locks.  A cleanup holds the characters it detaches and the note it   *)
(* deletes until it commits.                                                *)

Locked(c) == \E r \in Requests : c \in req[r].found
NoteLocked(k, u) ==
    \E r \in Requests : req[r].notes /\ req[r].k = k /\ req[r].user = u

\* u is no member of k, or a cleanup of u has passed all stages but these: it
\* no longer sees what is written from now on.
Gone(k, u, unswept) ==
    \/ u \notin players[k]
    \/ \E r \in Requests : req[r].k = k /\ req[r].user = u /\ req[r].pc \in unswept

CharacterTooLate(k, c) == Gone(k, PlayedBy[c], {"notes", "strip", "commit"})
NoteTooLate(k, u) == Gone(k, u, {"strip", "commit"})

Mark(marked, x, tooLate) == IF tooLate THEN marked \cup {x} ELSE marked \ {x}

-----------------------------------------------------------------------------
(* Invitations.                                                             *)

GenerateInviteCode(k) ==
    /\ k \in live
    /\ invited' = invited \cup {k}
    /\ UNCHANGED <<live, players, attached, note, enc, view, req, late>>

\* Revoked by the owner, or 48 hours old.
InviteEnds(k) ==
    /\ k \in invited
    /\ invited' = invited \ {k}
    /\ UNCHANGED <<live, players, attached, note, enc, view, req, late>>

JoinRead(r, u, k) ==
    /\ k \in invited
    /\ Begin(r, Step("join", u, k, None))
    /\ UNCHANGED <<db, view, late>>

\* The upsert; its foreign key refuses a campaign deleted meanwhile.
JoinWrite(r) ==
    LET k == req[r].k IN
    /\ req[r].pc = "join"
    /\ players' = IF Referable(k) THEN [players EXCEPT ![k] = @ \cup {req[r].user}]
                                 ELSE players
    /\ Finish(r)
    /\ UNCHANGED <<live, invited, attached, note, enc, view, late>>

-----------------------------------------------------------------------------
(* Characters.                                                              *)

CreateCharacter(c) ==
    /\ attached[c] = "unborn"
    /\ attached' = [attached EXCEPT ![c] = None]
    /\ UNCHANGED <<live, players, invited, note, enc, view, req, late>>

\* create with a campaignId: a member check, and later the insert.
CreateRead(r, c, k) ==
    /\ attached[c] = "unborn"
    /\ IsMember(k, PlayedBy[c])
    /\ Begin(r, Step("write", PlayedBy[c], k, c))
    /\ UNCHANGED <<db, view, late>>

\* addCharacter: a member brings its own character, the DM any member's.
AttachRead(r, u, k, c) ==
    /\ attached[c] # "unborn"
    /\ IsMember(k, u) /\ (u = Owner[k] \/ u = PlayedBy[c])
    /\ IsMember(k, PlayedBy[c])
    /\ Begin(r, Step("attach", u, k, c))
    /\ UNCHANGED <<db, view, late>>

\* Only its owner moves a character out of another campaign.
AttachReadCharacter(r) ==
    LET c == req[r].char IN
    /\ req[r].pc = "attach"
    /\ IF attached[c] \in {None, req[r].k} \/ req[r].user = PlayedBy[c]
       THEN req' = [req EXCEPT ![r].pc = "write"]
       ELSE Finish(r)
    /\ UNCHANGED <<db, view, late>>

\* The update by id, or the insert; both fail if the campaign is gone.
AttachWrite(r) ==
    LET k == req[r].k c == req[r].char IN
    /\ req[r].pc = "write"
    /\ ~Locked(c)
    /\ IF Referable(k)
       THEN /\ attached' = [attached EXCEPT ![c] = k]
            /\ lateChars' = Mark(lateChars, c, CharacterTooLate(k, c))
       ELSE UNCHANGED <<attached, lateChars>>
    /\ Finish(r)
    /\ UNCHANGED <<live, players, invited, note, enc, view, lateNotes>>

\* removeCharacter: one statement, guarded by the campaign in the URL.
RemoveCharacter(c) ==
    /\ attached[c] \in live
    /\ ~Locked(c)
    /\ attached' = [attached EXCEPT ![c] = None]
    /\ lateChars' = lateChars \ {c}
    /\ UNCHANGED <<live, players, invited, note, enc, view, req, lateNotes>>

-----------------------------------------------------------------------------
(* Notes.                                                                   *)

NoteRead(r, u, k) ==
    /\ IsMember(k, u)
    /\ note[k][u] = "none"
    /\ Begin(r, Step("note", u, k, None))
    /\ UNCHANGED <<db, view, late>>

NoteWrite(r) ==
    LET k == req[r].k u == req[r].user IN
    /\ req[r].pc = "note"
    /\ IF Referable(k) /\ note[k][u] = "none"
       THEN \E v \in {"private", "party"} :
              /\ note' = [note EXCEPT ![k][u] = v]
              /\ lateNotes' = Mark(lateNotes, <<k, u>>, NoteTooLate(k, u))
       ELSE UNCHANGED <<note, lateNotes>>
    /\ Finish(r)
    /\ UNCHANGED <<live, players, invited, attached, enc, view, lateChars>>

\* The author alone is checked, not whether it still belongs to the campaign.
EditNote(k, u) ==
    /\ note[k][u] # "none"
    /\ ~NoteLocked(k, u)
    /\ \E v \in {"private", "party"} : note' = [note EXCEPT ![k][u] = v]
    /\ lateNotes' = Mark(lateNotes, <<k, u>>, NoteTooLate(k, u))
    /\ UNCHANGED <<live, players, invited, attached, enc, view, req, lateChars>>

\* By its author or the DM.
DeleteNote(k, u) ==
    /\ note[k][u] # "none"
    /\ ~NoteLocked(k, u)
    /\ note' = [note EXCEPT ![k][u] = "none"]
    /\ lateNotes' = lateNotes \ {<<k, u>>}
    /\ UNCHANGED <<live, players, invited, attached, enc, view, req, lateChars>>

-----------------------------------------------------------------------------
(* The DM's tracker: a cached encounter and roster, and guarded writes of   *)
(* the whole list of combatants.                                            *)

DmFetch(k) ==
    /\ k \in live
    /\ view' = [view EXCEPT ![k] =
                  [version |-> enc[k].version, pcs |-> enc[k].pcs,
                   party |-> {c \in Characters : attached[c] = k}]]
    /\ UNCHANGED <<db, req, late>>

DmSave(k, pcs) ==
    /\ k \in live
    /\ view[k].version = enc[k].version
    /\ enc[k].version < MaxVersion
    /\ LET row == [version |-> enc[k].version + 1, pcs |-> pcs]
       IN /\ enc' = [enc EXCEPT ![k] = row]
          /\ view' = [view EXCEPT ![k].version = row.version, ![k].pcs = pcs]
    /\ UNCHANGED <<live, players, invited, attached, note, req, late>>

DmAdd(k, c) == c \in view[k].party /\ DmSave(k, view[k].pcs \cup {c})
DmRemove(k, c) == c \in view[k].pcs /\ DmSave(k, view[k].pcs \ {c})

\* Hit points, conditions, initiative: the whole list, nobody added or removed.
DmEdit(k) == DmSave(k, view[k].pcs)

-----------------------------------------------------------------------------
(* Departure: removePlayer by the DM or leaveCampaign by the player, then   *)
(* cleanupPlayerMembership, one action per statement.                       *)

DepartRead(r, u, k) ==
    /\ IsMember(k, u) /\ u # Owner[k]
    /\ Begin(r, Step("depart", u, k, None))
    /\ UNCHANGED <<db, view, late>>

CollectCharacters(r) ==
    /\ req[r].pc = "depart"
    /\ req' = [req EXCEPT ![r].pc = "detach",
                 ![r].owned = {c \in Of(req[r].user) : attached[c] # "unborn"}]
    /\ UNCHANGED <<db, view, late>>

\* Mutated form: the detach looks only at the characters read before.
OfThoseRead(r) == {c \in req[r].owned : attached[c] = req[r].k}

ToDetach(r) == {c \in Of(req[r].user) : attached[c] = req[r].k}

DetachCharacters(r) ==
    /\ req[r].pc = "detach"
    /\ \A c \in ToDetach(r) : ~Locked(c)
    /\ req' = [req EXCEPT ![r].pc = "notes", ![r].found = ToDetach(r)]
    /\ UNCHANGED <<db, view, late>>

DeletePrivateNote(r) ==
    /\ req[r].pc = "notes"
    /\ ~NoteLocked(req[r].k, req[r].user)
    /\ req' = [req EXCEPT ![r].pc = "strip",
                          ![r].notes = note[req[r].k][req[r].user] = "private"]
    /\ UNCHANGED <<db, view, late>>

\* Reads the encounter; the list to be written is computed from it.
ReadEncounter(r) ==
    LET pcs == enc[req[r].k].pcs IN
    /\ req[r].pc = "strip"
    /\ req' = [req EXCEPT ![r].pc = "commit", ![r].kept = pcs \ req[r].owned,
                          ![r].strips = pcs \cap req[r].owned # {}]
    /\ UNCHANGED <<db, view, late>>

\* Mutated form: the cleanup's write leaves the version as it was.
Unversioned(v) == v

Bumped(v) == v + 1

\* The writes appear together; a membership row that is already gone rolls
\* all of them back.
CommitDeparture(r) ==
    LET k == req[r].k u == req[r].user IN
    /\ req[r].pc = "commit"
    /\ IF u \in players[k]
       THEN /\ players' = [players EXCEPT ![k] = @ \ {u}]
            /\ attached' = [c \in Characters |->
                              IF c \in req[r].found THEN None ELSE attached[c]]
            /\ note' = IF req[r].notes THEN [note EXCEPT ![k][u] = "none"] ELSE note
            /\ enc' = IF req[r].strips
                      THEN [enc EXCEPT ![k] = [version |-> Bumped(enc[k].version),
                                               pcs |-> req[r].kept]]
                      ELSE enc
            /\ lateChars' = lateChars \ req[r].found
            /\ lateNotes' = IF req[r].notes THEN lateNotes \ {<<k, u>>} ELSE lateNotes
       ELSE UNCHANGED <<players, attached, note, enc, late>>
    /\ Finish(r)
    /\ UNCHANGED <<live, invited, view>>

\* The connection or the process is lost: the database rolls back.
DepartureFails(r) ==
    /\ req[r].pc \in {"detach", "notes", "strip", "commit"}
    /\ Finish(r)
    /\ UNCHANGED <<db, view, late>>

-----------------------------------------------------------------------------
\* remove: what refers to the campaign is deleted with it, characters are
\* let go; the cascade waits for rows a cleanup has locked.
DeleteCampaign(k) ==
    /\ k \in live
    /\ \A c \in Characters : attached[c] = k => ~Locked(c)
    /\ \A u \in Users : ~NoteLocked(k, u)
    /\ live' = live \ {k}
    /\ invited' = invited \ {k}
    /\ players' = [players EXCEPT ![k] = {}]
    /\ attached' = [c \in Characters |-> IF attached[c] = k THEN None ELSE attached[c]]
    /\ note' = [note EXCEPT ![k] = [u \in Users |-> "none"]]
    /\ enc' = [enc EXCEPT ![k].pcs = {}]
    /\ lateChars' = {c \in lateChars : attached[c] # k}
    /\ lateNotes' = {n \in lateNotes : n[1] # k}
    /\ UNCHANGED <<view, req>>

-----------------------------------------------------------------------------
Arrive(r) ==
    \/ \E u \in Users, k \in Campaigns :
         JoinRead(r, u, k) \/ NoteRead(r, u, k) \/ DepartRead(r, u, k)
    \/ \E k \in Campaigns, c \in Characters :
         CreateRead(r, c, k) \/ \E u \in Users : AttachRead(r, u, k, c)

Continue(r) ==
    \/ JoinWrite(r) \/ AttachReadCharacter(r) \/ AttachWrite(r) \/ NoteWrite(r)
    \/ CollectCharacters(r) \/ DetachCharacters(r) \/ DeletePrivateNote(r)
    \/ ReadEncounter(r) \/ CommitDeparture(r) \/ DepartureFails(r)

Next ==
    \/ \E r \in Requests : Arrive(r) \/ Continue(r)
    \/ \E k \in Campaigns : GenerateInviteCode(k) \/ InviteEnds(k) \/ DmFetch(k)
                            \/ DmEdit(k) \/ DeleteCampaign(k)
    \/ \E k \in Campaigns, c \in Characters : DmAdd(k, c) \/ DmRemove(k, c)
    \/ \E k \in Campaigns, u \in Users : EditNote(k, u) \/ DeleteNote(k, u)
    \/ \E c \in Characters : CreateCharacter(c) \/ RemoveCharacter(c)

Spec == Init /\ [][Next]_vars

-----------------------------------------------------------------------------
(* Properties.                                                             *)

\* cleanupPlayerMembership: who is no member has no character in the campaign
\* and no private note, whatever ran meanwhile, except what was itself written
\* during the departure or after it, too late for the sweep to see.
NothingLeftBehind ==
    \A k \in Campaigns :
        /\ \A c \in Characters :
             attached[c] = k /\ PlayedBy[c] \notin players[k] /\ PlayedBy[c] # Owner[k]
               => c \in lateChars
        /\ \A u \in Users \ players[k] :
             note[k][u] = "private" /\ u # Owner[k] => <<k, u>> \in lateNotes

\* The cleanup bumps the version "so a DM with the encounter open can't re-add
\* the departed PC via a stale combatants array": whatever the DM saves, only
\* an addition adds, and only the character the DM chose.
StaleArrayAddsNobody ==
    [][\A k \in Campaigns :
         /\ DmEdit(k) => enc'[k].pcs \subseteq enc[k].pcs
         /\ \A c \in Characters :
              /\ DmRemove(k, c) => enc'[k].pcs \subseteq enc[k].pcs
              /\ DmAdd(k, c) => enc'[k].pcs \subseteq enc[k].pcs \cup {c}]_vars

\* Stripped from the encounters, a character is back only if the DM adds it.
StrippedStaysOut ==
    [][\A k \in Campaigns, c \in Characters :
         c \in enc'[k].pcs \ enc[k].pcs => DmAdd(k, c)]_vars
=============================================================================
