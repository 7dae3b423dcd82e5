---------------------------- MODULE MCConnection ----------------------------
(* Connection, bounded by the numbers of calls and packets in the .cfg.    *)
EXTENDS Connection
=============================================================================
