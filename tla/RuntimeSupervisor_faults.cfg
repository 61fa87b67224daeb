SPECIFICATION FairSpec
CONSTANTS
  MaxAttempts = 1
  MaxMisses = 2
  MaxFaults = 5
  MaxShells = 1
  MaxClicks = 2
INVARIANTS OrphansRecorded OneServer WayBack
PROPERTIES SparesSuccessor Recovers
CHECK_DEADLOCK FALSE
