CHECK_DEADLOCK FALSE
SPECIFICATION FairSpec
CONSTANTS
  m = m
  Licences = {m}
  Lifetime = 2
  Skew = 0
  MaxTime = 4
  MaxFaults = 1
INVARIANTS OpenForCurrent
PROPERTIES NeverOlder ResetTakesEffect
