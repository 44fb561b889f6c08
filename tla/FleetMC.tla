-------------------------------- MODULE FleetMC --------------------------------
(* Small instances of Fleet for TLC. *)
EXTENDS Fleet
=============================================================================
