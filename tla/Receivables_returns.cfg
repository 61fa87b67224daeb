SPECIFICATION Spec
CONSTANTS
  i = i
  j = j
  p = p
  q = q
  r = r
  None = None
  Invoices = {i}
  Total <- OneTotal
  Owed = 2
  Requests = {p, q}
  Operations = {"creditNote"}
  Reversible = {}
  Overlap = TRUE
  MaxAmount = 2
INVARIANTS ReturnsWithinSold
CHECK_DEADLOCK FALSE
