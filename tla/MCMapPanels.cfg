\* The start of the page, and a drive over four places, 12 m.
SPECIFICATION FairSpec
CONSTANTS
  TrailLimit = 2
  MaxPlace = 3
INVARIANT
  TypeOK
PROPERTIES
  StartEnds
  AuthFailureIsShown
  PanelsFollow
