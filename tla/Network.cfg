SPECIFICATION Spec
CONSTANTS
  Sandboxes = {s1}
  Threads = {t1, t2}
  NPlugins = 3
  MaxFaults = 2
  MaxCrashes = 1
INVARIANT NetworkIsWhole
INVARIANT RecordOutlivesNetwork
INVARIANT ChainIsPrefix
PROPERTY OwnNetworkWhileRecorded
CHECK_DEADLOCK FALSE
