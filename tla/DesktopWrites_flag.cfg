\* A reload abandons update_preparing.
CHECK_DEADLOCK FALSE
SPECIFICATION Spec
CONSTANTS
  a = a
  b = b
  d = d
  NoCall = NoCall
  Calls <- AllCalls
  Batch <- AllBatch
  Direct = {d}
  MaxAttempts = 2
  MaxReloads = 1
  MaxStops = 0
INVARIANT FlagHasOwner
