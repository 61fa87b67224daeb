SPECIFICATION Spec
CONSTANTS
  i = i
  j = j
  p = p
  q = q
  r = r
  None = None
  Invoices = {i}
  Total <- OneTotal
  Owed = 2
  Requests = {p, q}
  Operations = {"markPaid", "receipt"}
  Reversible = {}
  Overlap = FALSE
  MaxAmount = 2
INVARIANTS BooksMatch
CHECK_DEADLOCK FALSE
