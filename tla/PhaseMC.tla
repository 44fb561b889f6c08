------------------------------- MODULE PhaseMC -------------------------------
(* Small instances of Phase for TLC; the cfg files give the constants. *)
EXTENDS Phase
=============================================================================
