\* Every device and every permission granted before, two overlapping presses.
SPECIFICATION FairSpec
CONSTANTS
  Presses = {p1, p2}
  MaxNativeCalls = 4
INVARIANTS
  OneSource
  RunningIsHeld
  SourceIsSwitched
  NativeFollows
PROPERTY
  StoppedIsReleased
