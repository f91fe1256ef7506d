SPECIFICATION Spec
CONSTANTS
  Points = 6
  None = None
INVARIANTS
  TypeOK
  NoFixIsSaid
PROPERTY
  TurnsShortWay
