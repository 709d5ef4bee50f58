\* One edit at rest of a canvas where a node has two imports.
CONSTANTS
  n1 = n1
  n2 = n2
  n3 = n3
  n4 = n4
  None = None
  Nodes = {n1, n2, n3, n4}
  Uses <- DiamondUses
  MaxVersion = 2
SPECIFICATION Spec
INVARIANT QuietMeansCurrent
CHECK_DEADLOCK FALSE
