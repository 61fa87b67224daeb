SPECIFICATION Spec
CONSTANTS
  c = c
  d = d
  Calls = {c}
  Operations = {"list"}
  StartMonth = 1
  Accounting = TRUE
  LastDate = 2
  MaxDocuments = 1
SYMMETRY Callers
PROPERTIES ActiveWhileCurrent
