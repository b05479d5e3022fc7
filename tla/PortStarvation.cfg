SPECIFICATION FairSpec
CONSTANTS
  NPorts = 2
  PfRoom = 1
  PfMaxBytes = 1
  PfMaxFrames = 3
PROPERTY ForwardsAll
CHECK_DEADLOCK FALSE
