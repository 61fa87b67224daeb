\* Two queued batches, a direct write, an update, a reload and a stop.
SPECIFICATION Spec
CONSTANTS
  a = a
  b = b
  d = d
  NoCall = NoCall
  Calls <- AllCalls
  Batch <- AllBatch
  Direct = {d}
  MaxAttempts = 2
  MaxReloads = 0
  MaxStops = 1
INVARIANTS WriterCounted SerialQueue PreparedQuiet WholeOnce AnswersHonest
PROPERTY StoreSpec
