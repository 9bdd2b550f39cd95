\* Two workspaces, two loads at once, three requests.
CONSTANTS
  A = A
  B = B
  e = e
  f = f
  v = v
  Nil = Nil
  Workspaces = {A, B}
  Ids = {1, 2, 3, 4, 5, 6, 7, 8, 9, 10, 11, 12, 13, 14, 15, 16, 17, 18, 19, 20, 21, 22, 23, 24, 25, 26}
  Keys = {e, f}
  Values = {v}
  Loads = {q1, q2}
  Seeds <- MCSeeds
  Payloads <- MCPayloads
  Source = A
  MaxCalls = 3
SYMMETRY MCSymmetry
SPECIFICATION BulkSpec
INVARIANTS
  ImportsRewriteRefs
  ReRunAddsNothing
PROPERTIES
  RoundTrip
CHECK_DEADLOCK FALSE
