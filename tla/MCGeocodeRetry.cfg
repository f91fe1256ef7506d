\* A vehicle that stays where its request failed.
SPECIFICATION FairSpec
CONSTANTS
  Requests = {r1}
  MaxPlace = 2
PROPERTY
  FailedIsRetried
