------------------------------- MODULE Traders -------------------------------
(* The players as the modules about what they own see them: Player of      *)
(* src/src/player.h, with None for the null pointer.                       *)

CONSTANTS Player, None

ASSUME TradersAssumption == None \notin Player
=============================================================================
