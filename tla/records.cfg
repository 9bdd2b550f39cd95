CONSTANTS
  Ids = {r1, r2}
  ExtIds = {x1}
  Keys = {k1, k2}
  Calls = {c1, c2}
  MaxCalls = 3
  None = None
SYMMETRY Symmetry
SPECIFICATION Spec
CHECK_DEADLOCK FALSE
INVARIANTS SerialWritesStick TimelineTellsLife
