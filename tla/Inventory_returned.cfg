SPECIFICATION Spec
CONSTANTS
  p = p
  q = q
  r = r
  w = w
  y = y
  None = None
  Requests = {p, q, r}
  Operations = {"sale", "purchase", "return"}
  Years = {y}
  InFlight = 2
  Alone = {}
  Opening = 0
  MaxQuantity = 1
SYMMETRY Calls
INVARIANTS StockIsMoved
CHECK_DEADLOCK FALSE
