SPECIFICATION Spec
CONSTANTS
  p = p
  q = q
  r = r
  w = w
  y = y
  None = None
  Requests = {p, q, r}
  Operations = {"sale", "purchase", "creditNote", "reversal", "numbering", "cancel", "return", "edit", "stockIn", "stockOut", "transfer"}
  Years = {y}
  InFlight = 2
  Alone = {"return", "edit", "stockIn", "stockOut", "transfer"}
  Opening = 1
  MaxQuantity = 1
SYMMETRY Calls
INVARIANTS TypeOK StockIsMoved OneDocumentPerKey NumbersFresh
CHECK_DEADLOCK FALSE
