SPECIFICATION FairSpec
CONSTANTS
  Requests <- Several
  Openings <- Opened
  Codes = {failed}
  Success = ok
  Unknown = unknown
  PipeRoom = 1
INVARIANT StatusAfterOutput
INVARIANT StatusIsExit
PROPERTY Completes
PROPERTY DetachCompletes
PROPERTY TearsDown
CHECK_DEADLOCK FALSE
