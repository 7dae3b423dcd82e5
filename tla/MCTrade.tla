------------------------------ MODULE MCTrade ------------------------------
(* Three players, two bags and what may be in them, and room for two items each. *)
EXTENDS Trade, TLC

CONSTANTS ann, bob, cid, bag, pouch, coin1, coin2

MCPlayer == {ann, bob, cid}
MCItem == {bag, pouch, coin1, coin2}
MCContainer == {bag, pouch}
MCStackable == {coin1, coin2}
MCRoom == [h \in MCPlayer \cup MCContainer |-> IF h \in MCPlayer THEN 2 ELSE 1]
MCSymmetry == Permutations(MCPlayer) \cup Permutations(MCStackable)
=============================================================================
