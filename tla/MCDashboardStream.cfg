\* Two connections, one of them the page's at a time, over a restart of the
\* server, every second iteration a simulated drop.
SPECIFICATION DashSpec
CONSTANTS
  Sockets = {s1, s2}
  NoSocket = NoSocket
  SimDropEvery = 2
  SendWindow = 1
  MaxSeq = 4
  MaxRestarts = 1
  MaxUplink = 1
SYMMETRY SocketSymmetry
\* The loop stops at MaxSeq and every socket is used once: a real end.
CHECK_DEADLOCK FALSE
INVARIANTS
  EverySeqLoggedOrDropped
  SentRowsAreLogged
  StreamHasNoHole
  NobodyLeftBehind
  RegistryExact
  LogClosedLast
  NeverOvercounts
  ExactWithoutRestart
