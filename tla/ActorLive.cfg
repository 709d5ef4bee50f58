\* Nothing is cancelled or deleted: every request is answered.
CONSTANTS
  n1 = n1
  n2 = n2
  c1 = c1
  blank = blank
  None = None
  Nodes = {n1, n2}
  Codes = {c1, blank}
  Blank = blank
  Importers = {n2}
  MaxRequests <- TwoThree
  MaxMail <- One
  AllowCancel = FALSE
  Removable = {}
SPECIFICATION FairSpec
INVARIANT PendingMeansWork
PROPERTY EveryRequestAnswered
CHECK_DEADLOCK FALSE
