\* Two processes: a child and the one it is replaced by.
CONSTANTS
  Instances = {i1, i2}
  NoInstance = NoInstance
SPECIFICATION FairSpec
PROPERTIES
  RestartServes
  DeathShown
