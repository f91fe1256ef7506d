\* Any number of clicks over three instances, and the refinement with fairness.
SPECIFICATION FairSpec
CONSTANTS
  Instances = {i1, i2, i3}
  NoInstance = NoInstance
INVARIANTS
  OneConnection
  PanelFollowsSocket
PROPERTY
  ImplementsManaged
