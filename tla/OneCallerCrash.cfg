SPECIFICATION Spec
CONSTANTS
  Sandboxes = {s1}
  Containers = {c1, c2}
  Pids = {1, 2}
  Threads = {t1}
  None = None
  MaxCrashes = 1
  MaxIoErrors = 0
  PidReuse = FALSE
  SlowReap = FALSE
INVARIANT Durable
INVARIANT NoOrphanContainer
INVARIANT SpawnedOnce
INVARIANT ChildIsTracked
INVARIANT ExitCodeIsReal
INVARIANT StopStopsChild
PROPERTY ObeysStateLaw
CHECK_DEADLOCK FALSE
