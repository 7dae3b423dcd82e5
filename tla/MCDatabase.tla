----------------------------- MODULE MCDatabase -----------------------------
(* Three saves of three statements, of which the last may fail unnoticed,  *)
(* and queries of the network thread in between.                           *)
EXTENDS Database

MCIgnored == {3}
=============================================================================
