------------------------------- MODULE MCMarket -------------------------------
(* Two characters, of an account each.                                     *)
EXTENDS Market

CONSTANTS knight, thief

MCPlayer == {knight, thief}
MCAccount == [p \in MCPlayer |-> p]
MCWealth == [p \in MCPlayer |-> IF p = knight THEN [money |-> 2, goods |-> 0]
                                 ELSE [money |-> 0, goods |-> 2]]
MCAmount == 1..2
=============================================================================
