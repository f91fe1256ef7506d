\* Fixes taken before the mount effect's read has returned.
SPECIFICATION Spec
CONSTANTS
  MaxItems = 3
  FlushLimit = 3
  MaxFixes = 3
  MaxOpens = 1
  MaxCrashes = 0
  MaxFailures = 0
\* The app may stay idle for good once the bounds are used up.
CHECK_DEADLOCK FALSE
INVARIANT
  OfflineFixNeverGone
