\* Two canvases that get nodes after the start.
CONSTANTS
  sketch = sketch
  work = work
  None = None
  Names = {sketch, work}
  Default = sketch
  Uses <- Grow
  MaxUndo = 1
SPECIFICATION Spec
INVARIANT IdsUnique
CHECK_DEADLOCK FALSE
