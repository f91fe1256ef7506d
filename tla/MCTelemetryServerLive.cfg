\* Liveness, and the signals of a frame: two connections, two sessions, every second iteration a
\* simulated drop.
SPECIFICATION SigFairSpec
CONSTANTS
  Sockets = {s1, s2}
  NoSocket = NoSocket
  SimDropEvery = 2
  SendWindow = 1
  MaxSeq = 3
  MaxRestarts = 1
  MaxUplink = 0
  NoNumber = NoNumber
  NoRule = NoRule
  NoConfig = NoConfig
  Configs <- SomeConfigs
  RawSignals <- SomeRawSignals
\* The loop stops at MaxSeq and every socket is used once: a real end.
CHECK_DEADLOCK FALSE
INVARIANT
  SignalsMapped
PROPERTIES
  LoopGoesOn
  VanishedClientLeaves
