------------------------- MODULE MC_CampaignMembership -------------------------
EXTENDS CampaignMembership, TLC

CONSTANTS dm, a, b, k1, ca, cb

\* One table of dm's, at which a and b may play ca and cb.
OneTable == k1 :> dm
OneSheet == ca :> a
TwoSheets == (ca :> a) @@ (cb :> b)

\* A table in play: every player has joined and brought its character, and the
\* DM has added each of them to the encounter.
InPlay ==
    /\ live = Campaigns /\ invited = {} /\ lateChars = {} /\ lateNotes = {}
    /\ players = [k \in Campaigns |-> Users]
    /\ attached = [c \in Characters |-> k1]
    /\ note = [k \in Campaigns |-> [u \in Users |-> "none"]]
    /\ enc = [k \in Campaigns |->
                [version |-> Cardinality(Characters), pcs |-> Characters]]
    /\ view = [k \in Campaigns |->
                 [version |-> enc[k].version, pcs |-> Characters, party |-> Characters]]
    /\ req = [r \in Requests |-> Idle]

InPlaySpec == InPlay /\ [][Next]_vars

Interchangeable == Permutations(Requests)
=============================================================================
