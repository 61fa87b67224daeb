SPECIFICATION Spec
CONSTANTS
  c = c
  d = d
  Calls = {c, d}
  Operations = {"post", "start"}
  StartMonth = 0
  Accounting = TRUE
  LastDate = 2
  MaxDocuments = 2
SYMMETRY Callers
INVARIANTS JournalContinues
