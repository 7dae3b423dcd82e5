-------------------------------- MODULE Party --------------------------------
(***************************************************************************)
(* Parties: src/src/party.cpp, the handlers of src/src/game.cpp that call  *)
(* it, and the two sides of an invitation, the party's inviteList and the  *)
(* player's invitePartyList.  A player keeps the id of its party, the      *)
(* party keeps its players: nothing but the order of the calls makes the   *)
(* two agree.                                                              *)
(*                                                                         *)
(* Scripts may refuse an invitation, a join, a departure or a new leader,  *)
(* which leaves everything as it is but for the party just made for an     *)
(* invitation; they do not refuse that a party disbands.  Levels and       *)
(* distances, which shared experience also asks for, are left out.         *)
(***************************************************************************)
EXTENDS Players, Integers, FiniteSets, Sequences, SequencesExt

CONSTANTS
    MaximumPartySize,   \* config: members besides the leader
    MaximumInviteCount, \* config
    MaxParties          \* bound: parties ever made

ASSUME PartyAssumption ==
    /\ MaximumPartySize \in Nat /\ MaximumInviteCount \in Nat /\ MaxParties \in Nat

VARIABLES
    parties,        \* _game_parties: the id is the place, no party is ever erased
    party,          \* Player::party: an id, 0 for none
    invitePartyList \* Player::invitePartyList

partyVars == <<parties, party, invitePartyList>>

\* A disbanded party; what is left in its lists nobody reads.
Disbanded ==
    [leader |-> None, memberList |-> <<>>, inviteList |-> {},
     sharedExpActive |-> FALSE, sharedExpEnabled |-> FALSE, fought |-> {}]
\* `fought' are the players whose entry in ticksMap is recent.
NewParty(p) == [Disbanded EXCEPT !.leader = p]

PartyInit ==
    /\ parties = <<>>
    /\ party = [p \in Player |-> 0]
    /\ invitePartyList = [p \in Player |-> {}]

Members(r) == ToSet(r.memberList)
Roster(r) == {r.leader} \cup Members(r)
Empty(r) == r.memberList = <<>> /\ r.inviteList = {}

\* getSharedExperienceStatus
SharedExperienceOk(r) == r.memberList # <<>> /\ Roster(r) \subseteq r.fought

\* updateSharedExperience
Updated(r) ==
    IF r.sharedExpActive THEN [r EXCEPT !.sharedExpEnabled = SharedExperienceOk(r)] ELSE r

-----------------------------------------------------------------------------
(* What the operations do to all the parties and players, s.               *)

State == [parties |-> parties, party |-> party, invited |-> invitePartyList]

Become(s) ==
    /\ parties' = s.parties
    /\ party' = s.party
    /\ invitePartyList' = s.invited

\* Mutant: the leader keeps its party's id.
DisbandButLeader(s, g) ==
    LET r == s.parties[g] IN
    [parties |-> [s.parties EXCEPT ![g] = Disbanded],
     party   |-> [p \in Player |-> IF p \in Members(r) THEN 0 ELSE s.party[p]],
     invited |-> [p \in Player |-> IF p \in r.inviteList THEN s.invited[p] \ {g}
                                                         ELSE s.invited[p]]]
Disband(s, g) ==
    LET r == s.parties[g] IN
    [parties |-> [s.parties EXCEPT ![g] = Disbanded],
     party   |-> [p \in Player |-> IF p \in Roster(r) THEN 0 ELSE s.party[p]],
     invited |-> [p \in Player |-> IF p \in r.inviteList THEN s.invited[p] \ {g}
                                                         ELSE s.invited[p]]]

DisbandIfEmpty(s, g) == IF Empty(s.parties[g]) THEN Disband(s, g) ELSE s

PassLeadership(r, p) ==
    Updated([r EXCEPT !.leader = p, !.memberList = <<r.leader>> \o RemoveFirst(@, p)])

\* Nobody takes over from the leader p: it is alone with a member or with invitees.
MissingLeader(r, p) ==
    /\ r.leader = p
    /\ \/ r.memberList = <<>>
       \/ Len(r.memberList) = 1 /\ r.inviteList = {}

\* leaveParty
Left(s, p) ==
    LET g       == s.party[p]
        r       == s.parties[g]
        missing == MissingLeader(r, p)
        led     == IF r.leader = p /\ ~missing THEN PassLeadership(r, Head(r.memberList)) ELSE r
        left    == Updated([led EXCEPT !.memberList = RemoveFirst(@, p)])
        t       == [s EXCEPT !.parties[g] = left, !.party[p] = 0]
    IN  IF missing THEN Disband(t, g) ELSE DisbandIfEmpty(t, g)

Without(r, p) == [r EXCEPT !.inviteList = @ \ {p}]

\* removeInvite
Uninvited(s, g, p) ==
    DisbandIfEmpty([s EXCEPT !.parties[g] = Without(@, p), !.invited[p] = @ \ {g}], g)

\* clearPartyInvitations: removeInvite from each party that invites p, of which
\* those disband that have nobody else.  (SubSeq, for TLC to have the list itself
\* and not a function of s.)
Cleared(s, p) ==
    LET alone  == {g \in s.invited[p] : Empty(Without(s.parties[g], p))}
        now(g) == IF g \in alone THEN Disbanded
                  ELSE IF g \in s.invited[p] THEN Without(s.parties[g], p)
                  ELSE s.parties[g]
    IN  [parties |-> SubSeq([g \in DOMAIN s.parties |-> now(g)], 1, Len(s.parties)),
         party   |-> [q \in Player |->
                          IF \E g \in alone : q = s.parties[g].leader THEN 0 ELSE s.party[q]],
         invited |-> [s.invited EXCEPT ![p] = {}]]

-----------------------------------------------------------------------------
(* The handlers of the game.                                               *)

Leads(p) == party[p] # 0 /\ parties[party[p]].leader = p
IsInviting(p, q) == Leads(p) /\ q \in parties[party[p]].inviteList

\* The party an invitation of p is for: its own, or a new one.
PartyForInvite(p) ==
    IF party[p] # 0 THEN State
    ELSE [State EXCEPT !.parties = Append(@, NewParty(p)), !.party[p] = Len(parties) + 1]

\* Party::invitePlayer
Invited(s, g, q) ==
    IF \/ q \in s.parties[g].inviteList
       \/ Cardinality(s.parties[g].inviteList) >= MaximumInviteCount
    THEN s
    ELSE [s EXCEPT !.parties[g].inviteList = @ \cup {q}, !.invited[q] = @ \cup {g}]

\* A script may refuse; then a party made for the invitation is left alone.
InviteToParty(p, q) ==
    /\ {p, q} \subseteq players /\ p # q
    /\ ~IsInviting(q, p)
    /\ party[q] = 0
    /\ Leads(p) \/ (party[p] = 0 /\ Len(parties) < MaxParties)
    /\ LET s == PartyForInvite(p)
           g == s.party[p]
       IN  \/ Become(Invited(s, g, q))
           \/ /\ Empty(s.parties[g])
              /\ Become([s EXCEPT !.party[p] = 0])

\* Mutant: the newcomer shares before it has fought.
JoinedUnseen(r, p) == [r EXCEPT !.inviteList = @ \ {p}, !.memberList = Append(@, p)]
Joined(r, p) == Updated([r EXCEPT !.inviteList = @ \ {p}, !.memberList = Append(@, p)])

JoinParty(p, leader) ==
    LET g == party[leader] IN
    /\ {p, leader} \subseteq players
    /\ IsInviting(leader, p)
    /\ party[p] = 0
    /\ Len(parties[g].memberList) < MaximumPartySize
    /\ Become([parties |-> [parties EXCEPT ![g] = Joined(@, p)],
               party   |-> [party EXCEPT ![p] = g],
               invited |-> [invitePartyList EXCEPT ![p] = @ \ {g}]])

RevokePartyInvitation(p, q) ==
    /\ {p, q} \subseteq players
    /\ IsInviting(p, q)
    /\ Become(Uninvited(State, party[p], q))

PassPartyLeadership(p, q) ==
    /\ {p, q} \subseteq players /\ p # q
    /\ Leads(p) /\ party[q] = party[p]
    /\ Become([State EXCEPT !.parties[party[p]] = PassLeadership(@, q)])

LeaveParty(p) ==
    /\ p \in players
    /\ party[p] # 0
    /\ Become(Left(State, p))

EnableSharedExperience(p, active) ==
    LET g == party[p]
        r == [parties[g] EXCEPT !.sharedExpActive = active]
    IN  /\ p \in players
        /\ Leads(p)
        /\ parties[g].sharedExpActive # active
        /\ Become([State EXCEPT !.parties[g] = Updated(r)])

\* updatePlayerTicks: p has fought or healed.
UpdatePlayerTicks(p) ==
    LET g == party[p]
        r == [parties[g] EXCEPT !.fought = @ \cup {p}]
    IN  /\ p \in players
        /\ g # 0
        /\ Become([State EXCEPT !.parties[g] = Updated(r)])

\* clearPlayerPoints, from onIdleStatus: p neither fights nor is fought.  (Called
\* by leaveParty it returns at once, p being in no party any more.)
ClearPlayerPoints(p) ==
    LET g == party[p]
        r == [parties[g] EXCEPT !.fought = @ \ {p}]
    IN  /\ p \in players
        /\ g # 0
        /\ p \in parties[g].fought
        /\ Become([State EXCEPT !.parties[g] = Updated(r)])

\* p has moved, or its level has changed.
UpdateSharedExperience(p) ==
    /\ p \in players
    /\ party[p] # 0
    /\ Become([State EXCEPT !.parties[party[p]] = Updated(@)])

\* The last fight of p is too long ago; nobody is told.
TicksExpire(p, g) ==
    /\ p \in parties[g].fought
    /\ Become([State EXCEPT !.parties[g].fought = @ \ {p}])

\* Player::onRemoveCreature
OutOfParties(s, p) ==
    LET t == Cleared(s, p) IN IF t.party[p] # 0 THEN Left(t, p) ELSE t

\* ticksMap has the ids of creatures, and whoever returns has a new one.
Forgotten(s, p) ==
    LET now(g) == [s.parties[g] EXCEPT !.fought = @ \ {p}] IN
    [s EXCEPT !.parties = SubSeq([g \in DOMAIN s.parties |-> now(g)], 1, Len(s.parties))]

PartyNext ==
    \/ \E p, q \in Player :
          \/ InviteToParty(p, q) \/ JoinParty(p, q)
          \/ RevokePartyInvitation(p, q) \/ PassPartyLeadership(p, q)
    \/ \E p \in Player :
          \/ LeaveParty(p) \/ UpdatePlayerTicks(p)
          \/ ClearPlayerPoints(p) \/ UpdateSharedExperience(p)
          \/ \E active \in BOOLEAN : EnableSharedExperience(p, active)
          \/ \E g \in DOMAIN parties : TicksExpire(p, g)

-----------------------------------------------------------------------------
(* Properties.                                                             *)

\* However invitations, departures and new leaders mix, a player is in the party
\* its id names, once, and that party has a leader and nobody who has left the
\* game: each of them is dereferenced without a test.
MembersAgree ==
    /\ \A p \in Player : party[p] # 0 => p \in players /\ p \in Roster(parties[party[p]])
    /\ \A g \in DOMAIN parties :
        /\ \A p \in Members(parties[g]) : party[p] = g
        /\ IsInjective(parties[g].memberList)
        /\ parties[g].leader \notin Members(parties[g])
        /\ \A p \in Player : party[p] = g => party[parties[g].leader] = g

\* An invitation is known to both sides or to none, and whoever it invites can
\* accept it: its party has a leader in the game and somebody it can be left to.
InvitationsAgree ==
    \A g \in DOMAIN parties :
        /\ parties[g].inviteList = {p \in Player : g \in invitePartyList[p]}
        /\ parties[g].inviteList # {} => Leads(parties[g].leader)
        /\ parties[g].inviteList \subseteq players

\* Parties and players agree on who is in and who is invited.
PartiesAgree == MembersAgree /\ InvitationsAgree

Shares(r) == r.sharedExpActive /\ r.sharedExpEnabled

\* Whether a party shares is kept and not computed (isSharedExperienceEnabled): it
\* starts to share, or goes on with other players than before, only while each of
\* them has fought lately, whatever chain of departures and new leaders made it
\* what it is.  Only time leaves it sharing with somebody who no longer fights.
SharingIsEarned ==
    [][\A g \in DOMAIN parties' :
          Shares(parties'[g]) =>
              \/ SharedExperienceOk(parties'[g])
              \/ /\ g \in DOMAIN parties
                 /\ Shares(parties[g])
                 /\ Roster(parties'[g]) = Roster(parties[g])]_partyVars

=============================================================================
