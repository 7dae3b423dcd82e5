------------------------------ MODULE MCCylinders ------------------------------
(* A bag, a pouch, an axe for both hands and coins; a player that can carry    *)
(* the axe and one thing more, and one that can carry nothing more.            *)
EXTENDS Cylinders, TLC

CONSTANTS P1, P2, Here, There, Bag, Pouch, Axe, C1, C2

MCSlot == {CONST_SLOT_RIGHT, CONST_SLOT_LEFT}
MCWeaponType == [x \in Plain |-> "weapon"]
MCWeight == [x \in Thing |-> IF x = Axe THEN 2 ELSE 1]
MCStrength == [p \in Player |-> IF p = P1 THEN 3 ELSE 0]

\* Only Init tells the containers and the tiles apart.
Symmetry == Permutations(Stack) \cup Permutations(Container) \cup Permutations(Tile)
================================================================================
