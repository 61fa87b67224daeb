SPECIFICATION Spec
CONSTANTS
  i = i
  j = j
  p = p
  q = q
  r = r
  None = None
  Invoices = {i, j}
  Total <- TwoTotals
  Owed = 3
  Requests = {p, q, r}
  Operations = {"receipt", "apply", "creditNote"}
  Reversible = {}
  Overlap = FALSE
  MaxAmount = 2
INVARIANTS BooksMatch
PROPERTY ItemsSpec
CHECK_DEADLOCK FALSE
