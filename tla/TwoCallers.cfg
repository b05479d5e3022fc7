SPECIFICATION Spec
CONSTANTS
  Sandboxes = {s1}
  Containers = {c1}
  Pids = {1}
  Threads = {t1, t2}
  None = None
  MaxCrashes = 1
  MaxIoErrors = 0
  PidReuse = FALSE
  SlowReap = FALSE
SYMMETRY Symmetry
INVARIANT VisibleIsDurable
PROPERTY GoneStaysGone
CHECK_DEADLOCK FALSE
