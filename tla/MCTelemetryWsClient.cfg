\* Any presses of the two buttons over three WebSockets.
SPECIFICATION FairSpec
CONSTANTS
  Transports = {t1, t2, t3}
  NoTransport = NoTransport
INVARIANT
  NeverStuck
PROPERTIES
  ImplementsManaged
  ComesBack
