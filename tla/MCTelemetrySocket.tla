--------------------------- MODULE MCTelemetrySocket ---------------------------
(* TelemetrySocket on small instances: with three objects two old instances can  *)
(* still be closing beside the newest.                                        *)
EXTENDS TelemetrySocket, TLC
=============================================================================
