----------------------------- MODULE TelemetryMC -----------------------------
(* Small instances of Telemetry for TLC; the cfg files give the constants. *)
EXTENDS Telemetry
=============================================================================
