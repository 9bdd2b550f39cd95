CONSTANTS
  Rows = 4
  Ids <- MCIds
  Times = {1, 2}
  Keys = {0, 1}
  Limit = 2
  Sorted = "created"
  None = None
SPECIFICATION Spec
INVARIANT WalkComplete
