CHECK_DEADLOCK FALSE
SPECIFICATION FairSpec
CONSTANTS
  m = m
  Licences = {m}
  Lifetime = 2
  Skew <- Ahead
  MaxTime = 4
  MaxFaults = 2
PROPERTIES ResetTakesEffect
