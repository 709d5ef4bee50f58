\* Work may be cancelled at any time; one of the nodes is deleted and restored
\* by undo.
CONSTANTS
  n1 = n1
  n2 = n2
  c1 = c1
  blank = blank
  None = None
  Nodes = {n1, n2}
  Codes = {c1, blank}
  Blank = blank
  Importers = {}
  MaxRequests <- TwoThree
  MaxMail <- One
  AllowCancel = TRUE
  Removable = {n1}
SPECIFICATION Spec
INVARIANTS TypeOK SingleEvaluation SlotsAgree EnvHasOneHolder EnvFitsText
PROPERTIES ResultsInOrder NodesAreExecutors
CHECK_DEADLOCK FALSE
