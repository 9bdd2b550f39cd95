\* Three contacts, two merges or PATCHes at once, three requests.
CONSTANTS
  a = a
  b = b
  c3 = c3
  n1 = n1
  d1 = d1
  k1 = k1
  k2 = k2
  title1 = title1
  Nil = Nil
  Contacts = {a, b, c3}
  Children = {n1}
  Deals = {d1}
  Links = {k1, k2}
  Titles = {title1}
  Calls = {q1, q2}
  Edges <- MCEdges
  Seeds <- MCSeeds
  MaxCalls = 3
SYMMETRY MCSymmetry
SPECIFICATION MergeSpec
INVARIANTS
  MergeLeavesNothing
  MergesEnd
  ChangesReplay
PROPERTIES
  MergeMapsGraph
CHECK_DEADLOCK FALSE
