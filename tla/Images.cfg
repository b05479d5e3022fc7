SPECIFICATION Spec
CONSTANTS
  Images = {i1, i2}
  Containers = {c1, c2}
  Threads = {t1}
  None = None
  MaxCrashes = 1
  MaxIoErrors = 2
SYMMETRY Symmetry
INVARIANT ListedIsDurable
INVARIANT RemovedIsGone
PROPERTY InUseByRefStays
