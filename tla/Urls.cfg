SPECIFICATION Spec
CONSTANTS
  Tokens = {k1, k2}
  None = None
  TTL = 1
  MAX_INFLIGHT = 1
  Targets = {x1}
  Callers = {r1}
  Conns = {w1, w2}
  Grants = {g1, g2, g3}
  MaxNow = 2
  MaxCrashes = 1
  RandomFails = TRUE
SYMMETRY Symmetry
INVARIANT InFlightBounded
INVARIANT AtMostOneSession
INVARIANT HonoursGrant
INVARIANT OpenedInTime
CHECK_DEADLOCK FALSE
