---------------------------- MODULE MCCommunity ----------------------------
(* Three players, two guilds, a normal channel and one private one at a time. *)
EXTENDS Community, TLC

CONSTANTS ann, bob, cid, guild1, guild2, help

MCPlayer == {ann, bob, cid}
MCGuilds == {guild1, guild2}
MCRanked == {guild1}
MCSlots == {100}
MCNormal == {help}
MCSymmetry == Permutations(MCPlayer)
=============================================================================
