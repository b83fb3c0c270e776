-------------------------- MODULE MCTelemetryClient -------------------------
(***************************************************************************)
(* Small instances of TelemetryClient for TLC.                             *)
(***************************************************************************)
EXTENDS TelemetryClient
=============================================================================
