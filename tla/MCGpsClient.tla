----------------------------- MODULE MCGpsClient -----------------------------
(* GpsClient on a small instance, for every device: two presses of Start can     *)
(* overlap.                                                                  *)
EXTENDS GpsClient, TLC
=============================================================================
