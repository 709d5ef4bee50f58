\* Edits at rest, with messages, and edits at any time; nothing is cancelled.
CONSTANTS
  n1 = n1
  n2 = n2
  n3 = n3
  n4 = n4
  None = None
  Nodes = {n1, n2, n3, n4}
  Uses <- CalmOrLive
  MaxVersion = 2
SPECIFICATION FairSpec
INVARIANT PendingIsComputed
PROPERTIES ComesToRest EditsAreComputed
CHECK_DEADLOCK FALSE
