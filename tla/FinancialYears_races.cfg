SPECIFICATION Spec
CONSTANTS
  c = c
  d = d
  Calls = {c, d}
  Operations = {"list", "post", "start", "close", "reopen"}
  StartMonth = 0
  Accounting = FALSE
  LastDate = 4
  MaxDocuments = 2
SYMMETRY Callers
INVARIANTS TypeOK ActiveIsOpen
PROPERTIES ClosedFrozen
