SPECIFICATION Spec
CONSTANTS
  i = i
  j = j
  p = p
  q = q
  r = r
  None = None
  Invoices = {i}
  Total <- OneTotal
  Owed = 2
  Requests = {p, q, r}
  Operations = {"markPaid", "receipt", "apply", "creditNote", "reverse"}
  Reversible = {"markPaid", "receipt", "apply", "creditNote", "reverse"}
  Overlap = TRUE
  MaxAmount = 2
SYMMETRY Calls
INVARIANTS TypeOK AdvancesCovered ReversedOnce OneReceiptPerKey FreshNumbers PaidOrOutstanding
CHECK_DEADLOCK FALSE
