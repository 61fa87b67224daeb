SPECIFICATION Spec
CONSTANTS
  p = p
  q = q
  r = r
  w = w
  y = y
  None = None
  Requests = {p, q}
  Operations = {"edit", "sale"}
  Years = {y}
  InFlight = 2
  Alone = {}
  Opening = 1
  MaxQuantity = 1
SYMMETRY Calls
INVARIANTS StockIsMoved
CHECK_DEADLOCK FALSE
