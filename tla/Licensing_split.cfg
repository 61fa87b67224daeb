CHECK_DEADLOCK FALSE
SPECIFICATION Spec
CONSTANTS
  u = u
  v = v
  Callers = {u}
  MaxKeys = 2
  MaxEvents = 3
INVARIANTS CopiesAgree
