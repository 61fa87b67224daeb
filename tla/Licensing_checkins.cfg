CHECK_DEADLOCK FALSE
SPECIFICATION FairSpec
CONSTANTS
  u = u
  v = v
  Callers = {u, v}
  MaxKeys = 2
  MaxEvents = 3
INVARIANTS WritesAgree
PROPERTIES Converges
