\* Two peers and three nodes in five scenarios.
CONSTANTS
  a = a
  b = b
  src = src
  user = user
  far = far
  main = main
  other = other
  x = x
  y = y
  arrow = arrow
  one = one
  two = two
  used = used
  blank = blank
  Nothing = Nothing
  Network = Network
  None = None
  Peers = {a, b}
  Labels = {src, user, far}
  Canvases = {main, other}
  Names = {x, y, arrow}
  Bodies = {one, two, used}
  Bare = {blank}
  CanvasOf <- CanvasesOf
  Unreadable = {arrow}
  Rewritten <- Rewrites
  Uses <- Scenarios
SPECIFICATION FairSpec
INVARIANTS ImportGetsItsBody DefinitionsHaveBodies FileIsNode
PROPERTIES HistoryKept AskedIsAnswered
CHECK_DEADLOCK FALSE
