SPECIFICATION Spec
CONSTANTS
  Attachers = {a1}
  PipeRoom = 2
  MaxBytes = 3
  Modes = {"tty"}
INVARIANT LogHasAll
CHECK_DEADLOCK FALSE
