SPECIFICATION FairSpec
CONSTANTS
  MaxAttempts = 2
  MaxMisses = 2
  MaxFaults = 3
  MaxShells = 2
  MaxClicks = 1
INVARIANTS OrphansRecorded OneServer
PROPERTIES SparesSuccessor Recovers
CHECK_DEADLOCK FALSE
