\* Every call settles.
CHECK_DEADLOCK FALSE
SPECIFICATION FairSpec
CONSTANTS
  a = a
  b = b
  d = d
  NoCall = NoCall
  Calls <- LiveCalls
  Batch <- LiveBatch
  Direct = {d}
  MaxAttempts = 2
  MaxReloads = 1
  MaxStops = 0
PROPERTY EveryCallSettles
