SPECIFICATION Spec
CONSTANTS
  None = None
  Before = 0
  Writes = {1, 2, 3}
  Handles = {"one", "other"}
INVARIANT
  LaterWritesOver
