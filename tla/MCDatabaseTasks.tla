-------------------------- MODULE MCDatabaseTasks --------------------------
(* DatabaseTasks with the dispatcher thread and one network thread (whose  *)
(* ban checks submit queries too).                                         *)
EXTENDS DatabaseTasks

CONSTANTS game1, net1

MCCallers == {game1, net1}
=============================================================================
