---------------------------- MODULE MCDispatcher ----------------------------
(* Dispatcher with two submitting threads; MaxTasks is set in the .cfg. *)
EXTENDS Dispatcher

CONSTANTS p1, p2

MCProducers == {p1, p2}
=============================================================================
