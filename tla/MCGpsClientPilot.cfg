\* The pilot is switched on while GPS runs.
SPECIFICATION Spec
CONSTANTS
  Presses = {p1}
  MaxNativeCalls = 4
INVARIANT
  BridgeIsPermitted
