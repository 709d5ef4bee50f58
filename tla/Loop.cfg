\* A canvas edited at rest, or one where anything comes at any time.
CONSTANTS
  n1 = n1
  n2 = n2
  n3 = n3
  n4 = n4
  None = None
  Nodes = {n1, n2, n3, n4}
  Uses <- CalmOrBusy
  MaxVersion = 3
SPECIFICATION Spec
INVARIANT QuietMeansSettled
PROPERTY OutputsMoveForward
CHECK_DEADLOCK FALSE
