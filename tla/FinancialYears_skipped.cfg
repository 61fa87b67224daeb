SPECIFICATION Spec
CONSTANTS
  c = c
  d = d
  Calls = {c}
  Operations = {"start", "list"}
  StartMonth = 0
  Accounting = TRUE
  LastDate = 4
  MaxDocuments = 1
SYMMETRY Callers
INVARIANTS NeverStranded
