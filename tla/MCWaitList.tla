----------------------------- MODULE MCWaitList -----------------------------
(* A server with room for two, and regular, premium and privileged clients. *)
EXTENDS WaitList

CONSTANTS r1, r2, r3, p1, g1

MCMixed == {r1, r2, r3, p1, g1}
MCPremium == {p1}
MCPrivileged == {g1}
=============================================================================
