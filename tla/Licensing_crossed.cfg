CHECK_DEADLOCK FALSE
SPECIFICATION Spec
CONSTANTS
  u = u
  v = v
  Callers = {u, v}
  MaxKeys = 2
  MaxEvents = 3
INVARIANTS UnlessSplit
