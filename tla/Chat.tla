-------------------------------- MODULE Chat --------------------------------
(***************************************************************************)
(* The chat channels: src/src/chat.cpp and the handlers of game.cpp.  A    *)
(* channel is reached through the player: that of a party or a guild       *)
(* through the player's party or guild, a private one by its owner and     *)
(* those it has invited, a normal one by whoever its script lets in.       *)
(***************************************************************************)
EXTENDS Party, Guild

CONSTANTS
    Premium,    \* the players with premium time
    Slots,      \* bound: the ids of private channels, 100 to 9999 in the code
    Normal      \* the channels of chatchannels.xml

ASSUME ChatAssumption == Premium \subseteq Player /\ Slots \subseteq Nat

VARIABLES
    channels,   \* those that exist
    users,      \* ChatChannel::users, who listens
    owner,      \* PrivateChatChannel::owner
    invites     \* PrivateChatChannel::invites

chatVars == <<channels, users, owner, invites>>

PartyChannel(g) == <<"party", g>>
GuildChannel(h) == <<"guild", h>>
PrivateChannel(i) == <<"private", i>>
NormalChannel(n) == <<"normal", n>>

PrivateChannels == {PrivateChannel(i) : i \in Slots}
NormalChannels == {NormalChannel(n) : n \in Normal}
Channel ==
    {PartyChannel(g) : g \in 1..MaxParties} \cup {GuildChannel(h) : h \in Guilds}
        \cup PrivateChannels \cup NormalChannels

ChatInit ==
    /\ channels = NormalChannels
    /\ users = [c \in Channel |-> {}]
    /\ owner = [c \in PrivateChannels |-> None]
    /\ invites = [c \in PrivateChannels |-> {}]

\* The channels of the player's own party and guild.
OwnChannels(p) ==
    {PartyChannel(g) : g \in {party[p]} \ {0}} \cup {GuildChannel(h) : h \in {guild[p]} \ {None}}

IsInvited(c, p) == p = owner[c] \/ p \in invites[c]

\* getChannel; a script may hide a normal one.
Reaches(p, c) ==
    /\ c \in channels
    /\ \/ c \in OwnChannels(p) \cup NormalChannels
       \/ c \in PrivateChannels /\ IsInvited(c, p)

Owned(p) == {c \in PrivateChannels : owner[c] = p}

\* The channels in C are deleted.
Deleted(C, usersThen, invitesThen) ==
    /\ channels' = channels \ C
    /\ users' = [c \in Channel |-> IF c \in C THEN {} ELSE usersThen[c]]
    /\ owner' = [c \in PrivateChannels |-> IF c \in C THEN None ELSE owner[c]]
    /\ invites' = [c \in PrivateChannels |-> IF c \in C THEN {} ELSE invitesThen[c]]

-----------------------------------------------------------------------------

\* getChannelList makes the channels of the party and the guild.
RequestChannels(p) ==
    /\ p \in players
    /\ ~(OwnChannels(p) \subseteq channels)
    /\ channels' = channels \cup OwnChannels(p)
    /\ UNCHANGED <<users, owner, invites>>

\* The script of the channel may refuse, which changes nothing.
OpenChannel(p, c) ==
    /\ p \in players
    /\ Reaches(p, c)
    /\ p \notin users[c]
    /\ users' = [users EXCEPT ![c] = @ \cup {p}]
    /\ UNCHANGED <<channels, owner, invites>>

\* The owner of a private channel deletes it by closing it.
CloseChannel(p, c) ==
    /\ p \in players
    /\ Reaches(p, c)
    /\ p \in users[c]
    /\ Deleted({c} \cap Owned(p), [users EXCEPT ![c] = @ \ {p}], invites)

CreatePrivateChannel(p) ==
    LET free == {i \in Slots : PrivateChannel(i) \notin channels} IN
    /\ p \in players \cap Premium
    /\ Owned(p) = {}
    /\ \E i \in free :
        /\ \A j \in free : i <= j
        /\ channels' = channels \cup {PrivateChannel(i)}
        /\ owner' = [owner EXCEPT ![PrivateChannel(i)] = p]
        /\ users' = [users EXCEPT ![PrivateChannel(i)] = {p}]
    /\ UNCHANGED invites

ChannelInvite(p, q) ==
    /\ {p, q} \subseteq players /\ p # q
    /\ \E c \in Owned(p) : invites' = [invites EXCEPT ![c] = @ \cup {q}]
    /\ UNCHANGED <<channels, users, owner>>

ChannelExclude(p, q) ==
    /\ {p, q} \subseteq players /\ p # q
    /\ \E c \in Owned(p) :
        /\ q \in invites[c]
        /\ invites' = [invites EXCEPT ![c] = @ \ {q}]
        /\ users' = [users EXCEPT ![c] = @ \ {q}]
    /\ UNCHANGED <<channels, owner>>

\* Mutant: who leaves stays invited.
RemoveUserButInvited(p) ==
    Deleted(Owned(p), [c \in Channel |-> users[c] \ {p}], invites)
RemoveUserFromAllChannels(p) ==
    Deleted(Owned(p), [c \in Channel |-> users[c] \ {p}],
                      [c \in PrivateChannels |-> invites[c] \ {p}])

\* ProtocolGame::connect of another client.
Reconnect(p) == p \in players /\ RemoveUserFromAllChannels(p)

\* Chat::load adds the users of each normal channel again; its script may refuse.
Reload ==
    /\ \E c \in NormalChannels : \E kept \in SUBSET users[c] \ {users[c]} :
        users' = [users EXCEPT ![c] = kept]
    /\ UNCHANGED <<channels, owner, invites>>

ChatNext ==
    \/ \E p \in Player : RequestChannels(p) \/ CreatePrivateChannel(p) \/ Reconnect(p)
    \/ \E p \in Player, c \in Channel : OpenChannel(p, c) \/ CloseChannel(p, c)
    \/ \E p, q \in Player : ChannelInvite(p, q) \/ ChannelExclude(p, q)
    \/ Reload

-----------------------------------------------------------------------------
(* Properties.                                                             *)

\* The channels: a private one exists as long as its owner listens, and only those
\* it has invited listen with it.
ChannelsKept ==
    /\ \A c \in Channel : users[c] \subseteq players
    /\ \A c \in PrivateChannels :
        /\ c \in channels <=> owner[c] # None
        /\ owner[c] # None => owner[c] \in users[c]
        /\ invites[c] \subseteq players
        /\ users[c] \subseteq invites[c] \cup {owner[c]}
    /\ \A c, d \in PrivateChannels : c # d /\ owner[c] # None => owner[c] # owner[d]

\* Nobody who has left the game listens or is invited, or keeps a private channel
\* alive; nor does a guild count as online who has left the game or the guild,
\* unless setGuild did not tell it.
ListenersPresent == ChannelsKept /\ MembersOnline
=============================================================================
