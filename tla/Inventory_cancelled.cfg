SPECIFICATION Spec
CONSTANTS
  p = p
  q = q
  r = r
  w = w
  y = y
  None = None
  Requests = {p, q}
  Operations = {"sale", "cancel"}
  Years = {y}
  InFlight = 1
  Alone = {}
  Opening = 1
  MaxQuantity = 1
SYMMETRY Calls
INVARIANTS CancellationRestores
CHECK_DEADLOCK FALSE
