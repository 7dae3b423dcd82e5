-------------------------------- MODULE Guild --------------------------------
(***************************************************************************)
(* The members online of a guild (src/src/guild.cpp) and the guild of a    *)
(* player (Player::setGuild).  Each side is kept by the calls of the       *)
(* other's, and setGuild returns before the last of them when the new      *)
(* guild has no rank of level 1: the old guild keeps the player.  (The     *)
(* trigger oncreate_guilds of schema.sql makes the ranks of a new guild;   *)
(* whatever else deletes them from the database is not in the code.)       *)
(***************************************************************************)
EXTENDS Players, Integers, FiniteSets

CONSTANTS
    Guilds,
    Ranked      \* those with a rank of level 1

ASSUME GuildAssumption == None \notin Guilds /\ Ranked \subseteq Guilds

VARIABLES
    guild,          \* Player::guild
    membersOnline,  \* Guild::membersOnline; None is a player object out of the game
    forsaken        \* history: the guilds setGuild did not tell

guildVars == <<guild, membersOnline, forsaken>>

GuildInit ==
    /\ guild = [p \in Player |-> None]
    /\ membersOnline = [h \in Guilds |-> {}]
    /\ forsaken = {}

\* Nothing happens if h is None.  The list may have p twice, of which removeMember
\* takes both.
AddMember(m, h, p) == [x \in Guilds |-> IF x = h THEN m[x] \cup {p} ELSE m[x]]
RemoveMember(m, h, p) == [x \in Guilds |-> IF x = h THEN m[x] \ {p} ELSE m[x]]

\* Player::setGuild, for a guild that takes p or for none.
ChangeGuild(p, h) ==
    /\ p \in players
    /\ h \in Ranked \cup {None} /\ h # guild[p]
    /\ guild' = [guild EXCEPT ![p] = h]
    /\ membersOnline' = RemoveMember(AddMember(membersOnline, h, p), guild[p], p)
    /\ UNCHANGED forsaken

\* Player::setGuild returns early: p has no guild, and the old one keeps it.
ForsakeGuild(p, h) ==
    /\ p \in players
    /\ h \in Guilds \ Ranked /\ h # guild[p]
    /\ guild' = [guild EXCEPT ![p] = None]
    /\ forsaken' = forsaken \cup ({guild[p]} \ {None})
    /\ UNCHANGED membersOnline

\* loadPlayer and Player::onCreatureAppear: the guild is as the database has it.
EnterGuild(p) ==
    \E h \in Guilds \cup {None} :
        /\ guild' = [guild EXCEPT ![p] = h]
        /\ membersOnline' = AddMember(membersOnline, h, p)
        /\ UNCHANGED forsaken

\* Player::onRemoveCreature.  A player that returns is another object: nobody
\* removes again the one that some guild still has.
LeaveGuild(p) ==
    LET told == RemoveMember(membersOnline, guild[p], p) IN
    /\ guild' = [guild EXCEPT ![p] = None]
    /\ membersOnline' = [h \in Guilds |-> IF p \in told[h] THEN (told[h] \ {p}) \cup {None}
                                                           ELSE told[h]]
    /\ UNCHANGED forsaken

GuildNext ==
    \E p \in Player, h \in Guilds \cup {None} : ChangeGuild(p, h) \/ ForsakeGuild(p, h)

-----------------------------------------------------------------------------

\* A guild counts as online its members in the game, and nobody else unless a
\* member was set to a guild that did not take it.
MembersOnline ==
    \A h \in Guilds :
        LET members == {p \in players : guild[p] = h} IN
        /\ members \subseteq membersOnline[h]
        /\ h \notin forsaken => membersOnline[h] = members
=============================================================================
