-------------------------- MODULE MCTelemetryWsClient --------------------------
(* TelemetryWsClient on small instances: three WebSockets are the current one and  *)
(* two that it has replaced.                                                  *)
EXTENDS TelemetryWsClient, TLC
=============================================================================
