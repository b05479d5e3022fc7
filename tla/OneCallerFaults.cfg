SPECIFICATION FairSpec
CONSTANTS
  Sandboxes = {s1}
  Containers = {c1}
  Pids = {1, 2}
  Threads = {t1}
  None = None
  MaxCrashes = 1
  MaxIoErrors = 1
  PidReuse = TRUE
  SlowReap = TRUE
PROPERTY CallsReturn
PROPERTY ExitIsRecorded
CHECK_DEADLOCK FALSE
