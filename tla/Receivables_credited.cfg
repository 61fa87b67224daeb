SPECIFICATION Spec
CONSTANTS
  i = i
  j = j
  p = p
  q = q
  r = r
  None = None
  Invoices = {i}
  Total <- OneTotal
  Owed = 2
  Requests = {p, q}
  Operations = {"markPaid", "creditNote"}
  Reversible = {}
  Overlap = FALSE
  MaxAmount = 2
PROPERTY PaidMeansReceived
CHECK_DEADLOCK FALSE
