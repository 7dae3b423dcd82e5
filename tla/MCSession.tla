----------------------------- MODULE MCSession -----------------------------
(* Three connections, and two characters of one account, which is made a    *)
(* gamemaster's for the one and not for the other.                         *)
EXTENDS Session, TLC

CONSTANTS p1, p2, p3, knight, god, account1

MCProtocol == {p1, p2, p3}
MCCharacter == {knight, god}
MCAccount == [c \in {knight, god} |-> account1]
MCAlwaysLogin == {god}
MCGamemasters == {god}
MCStates == {"CLOSED", "SHUTDOWN"}
MCSymmetry == Permutations(MCProtocol)
=============================================================================
