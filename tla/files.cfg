CONSTANTS
  Files = {f1, f2}
  Requests = {r1, r2, r3, r4}
  None = None
SPECIFICATION Spec
SYMMETRY Symmetry
INVARIANTS
  LiveHasBody
  BodyHasRow
\* The system stops once every file id is used up.
CHECK_DEADLOCK FALSE
