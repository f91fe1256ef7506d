\* Queue of two, one fix per flush, a crash and a failing storage operation.
SPECIFICATION FairSpec
CONSTANTS
  MaxItems = 2
  FlushLimit = 1
  MaxFixes = 3
  MaxOpens = 2
  MaxCrashes = 1
  MaxFailures = 1
\* The app may stay idle for good once the bounds are used up.
CHECK_DEADLOCK FALSE
INVARIANTS
  TypeOK
  EveryFixInOnePlace
  QueueInOrder
  DurableUntilHandled
  NewestWriteIsCurrent
PROPERTY
  FlushGuardReleased
