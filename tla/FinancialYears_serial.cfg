SPECIFICATION Spec
CONSTANTS
  c = c
  d = d
  Calls = {c}
  Operations = {"list", "post", "start", "close", "reopen"}
  StartMonth = 0
  Accounting = TRUE
  LastDate = 6
  MaxDocuments = 3
SYMMETRY Callers
INVARIANTS BooksContinue SummaryTrue
