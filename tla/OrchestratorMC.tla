---------------------------- MODULE OrchestratorMC ----------------------------
(* Small instances of Orchestrator for TLC. *)
EXTENDS Orchestrator
=============================================================================
