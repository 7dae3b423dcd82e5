------------------------------- MODULE Players -------------------------------
(* The players in the game: Game::players of src/src/game.h, as the parts  *)
(* of the community see it.                                                *)

CONSTANTS Player, None

ASSUME PlayersAssumption == None \notin Player

VARIABLE players
=============================================================================
