CHECK_DEADLOCK FALSE
SPECIFICATION Spec
CONSTANTS
  m = m
  Licences = {m}
  Lifetime = 2
  Skew <- Behind
  MaxTime = 4
  MaxFaults = 0
PROPERTIES NeverOlder
