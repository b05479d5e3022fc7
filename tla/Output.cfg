SPECIFICATION FairSpec
CONSTANTS
  Attachers = {a1, a2}
  PipeRoom = 2
  MaxBytes = 3
  Modes = {"pipe", "tty"}
INVARIANT LogIsOutput
INVARIANT AttacherSeesAll
PROPERTY OutputSettles
CHECK_DEADLOCK FALSE
