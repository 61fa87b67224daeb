SPECIFICATION Spec
CONSTANTS
  p = p
  q = q
  r = r
  w = w
  y = y
  None = None
  Requests = {p, q, r, w}
  Operations = {"sale", "purchase", "return", "creditNote", "reversal", "stockIn", "stockOut", "transfer"}
  Years = {y}
  InFlight = 1
  Alone = {}
  Opening = 1
  MaxQuantity = 2
SYMMETRY Calls
INVARIANTS LotsCovered ReturnsTraced
CHECK_DEADLOCK FALSE
