\* has_pending after a cancel that dropped a result.
CONSTANTS
  n1 = n1
  n2 = n2
  c1 = c1
  blank = blank
  None = None
  Nodes = {n1}
  Codes = {c1, blank}
  Blank = blank
  Importers = {}
  MaxRequests <- Two
  MaxMail <- One
  AllowCancel = TRUE
  Removable = {}
SPECIFICATION Spec
INVARIANT PendingMeansWork
CHECK_DEADLOCK FALSE
