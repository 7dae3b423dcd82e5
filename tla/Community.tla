------------------------------ MODULE Community ------------------------------
(***************************************************************************)
(* Parties, guilds and chat channels together, under players that enter    *)
(* and leave the game: Player::onCreatureAppear and onRemoveCreature of    *)
(* src/src/player.cpp call the three in this order.  A channel is found    *)
(* through the player's party and guild as they are when it is looked up.  *)
(***************************************************************************)
EXTENDS Chat

CONSTANT
    MaxActive   \* bound: listeners and guests of channels, recent fights, guilds, parties

vars == <<players, partyVars, guildVars, chatVars>>

Init ==
    /\ players = {}
    /\ PartyInit
    /\ GuildInit
    /\ ChatInit

\* What is going on, for the bound.
Active ==
    Cardinality(UNION {{c} \X users[c] : c \in Channel})
        + Cardinality(UNION {{g} \X parties[g].fought : g \in DOMAIN parties})
        + Cardinality(UNION {{c} \X invites[c] : c \in PrivateChannels})
        + Cardinality(UNION {{h} \X membersOnline[h] : h \in Guilds})
        + Cardinality(forsaken) + Len(parties)

\* sendClosePrivate after setParty(0): the channel is looked up through the
\* party, which the player has no more, so whoever listened to it goes on.
ClosePartyChannel ==
    LET gone == {p \in Player : party[p] # 0 /\ party'[p] = 0} IN
    /\ users' = [c \in Channel |->
                    users[c] \ {p \in gone : c = PartyChannel(party'[p])}]
    /\ UNCHANGED <<channels, owner, invites>>

PartyStep ==
    /\ PartyNext
    /\ ClosePartyChannel
    /\ UNCHANGED <<players, guildVars>>

GuildStep ==
    /\ GuildNext
    /\ UNCHANGED <<players, partyVars, chatVars>>

ChatStep ==
    /\ ChatNext
    /\ UNCHANGED <<players, partyVars, guildVars>>

Login(p) ==
    /\ p \notin players
    /\ players' = players \cup {p}
    /\ EnterGuild(p)
    /\ UNCHANGED <<partyVars, chatVars>>

Logout(p) ==
    /\ p \in players
    /\ players' = players \ {p}
    /\ Become(Forgotten(OutOfParties(State, p), p))
    /\ RemoveUserFromAllChannels(p)
    /\ LeaveGuild(p)

Next ==
    /\ \/ PartyStep \/ GuildStep \/ ChatStep
       \/ \E p \in Player : Login(p) \/ Logout(p)
    /\ Active' <= MaxActive

Spec == Init /\ [][Next]_vars
=============================================================================
