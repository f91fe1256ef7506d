-------------------------- MODULE MCTelemetryServer --------------------------
(* ServerSignals on a small instance: configurations and raw frames at the boundaries.   *)
EXTENDS ServerSignals, TLC

Plain ==
  [source |-> NoNumber, enabled |-> TRUE, scale |-> NoNumber, offset |-> NoNumber,
   min |-> NoNumber, max |-> NoNumber, decimals |-> NoNumber]

(* Scaled, shifted, cut at both ends and rounded to 0.1; another signal's source, turned    *)
(* round and cut below; one disabled, one without a number in a raw frame, one with an        *)
(* empty range, two with decimals out of bounds, and an entry that is no object.             *)
Rich ==
  [fl |-> [Plain EXCEPT !.scale = 2, !.offset = 15, !.min = -40, !.max = 125, !.decimals = 1],
   back |-> [Plain EXCEPT !.source = "fl", !.scale = -1, !.min = 25, !.decimals = 9],
   whole |-> [Plain EXCEPT !.source = "fl", !.decimals = -3],
   yaw |-> [Plain EXCEPT !.enabled = FALSE],
   ax |-> [Plain EXCEPT !.min = 25, !.max = 0],
   brake |-> NoRule]

SomeConfigs == {NoConfig, Rich}

SomeRawSignals ==
  {[fl |-> -145, yaw |-> 7, ax |-> NoNumber], [fl |-> 52, yaw |-> NoNumber, ax |-> 7, brake |-> 0]}
=============================================================================
