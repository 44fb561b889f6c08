-------------------------------- MODULE BotMC --------------------------------
(* Small instances of Bot for TLC; the cfg files give the constants. *)
EXTENDS Bot
=============================================================================
