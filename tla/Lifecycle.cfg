\* Three processes: the child, one it is replaced by, and one started by hand
\* or by a tray that is gone.
CONSTANTS
  Instances = {i1, i2, i3}
  NoInstance = NoInstance
SPECIFICATION Spec
SYMMETRY Symmetry
INVARIANTS
  LifecycleTypeOK
  OwnerHolds
  OneChild
  LaunchesAsked
  StoppedMeansGone
PROPERTIES
  StopReachesChild
  LifeOfEach
