-------------------------------- MODULE MCWorld --------------------------------
(* A player, three monsters and two places, one of them with a spawn.      *)
EXTENDS World, TLC

CONSTANTS knight, rat, bat, cat, here, there

MCPlayer == {knight}
MCMonster == {rat, bat, cat}
MCCreature == MCPlayer \cup MCMonster
MCPlace == {here, there}
MCBlock == {1}
MCHome == [b \in MCBlock |-> here]
MCSymmetry == Permutations(MCMonster)
=============================================================================
