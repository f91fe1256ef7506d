\* Two calls that could overlap.
SPECIFICATION FairSpec
CONSTANTS
  Requests = {r1, r2}
  MaxPlace = 2
INVARIANTS
  TypeOK
  AddressIsOfLastAsk
  FallbackIsComplete
PROPERTIES
  NoRequestInBackoff
  MovingIsAsked
