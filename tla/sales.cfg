\* Three requests, two at once, on a book with one row in every table.
CONSTANTS
  Nil = Nil
  Requests = {q1, q2}
  Stages <- MCStages
  Prices = {1, 2}
  Months <- MCMonths
  MaxCalls = 3
SYMMETRY MCSymmetry
SPECIFICATION SalesSpec
INVARIANTS
  OneDefault
  DealTrail
  QuarterIsItsMonths
PROPERTY FixedStays
CHECK_DEADLOCK FALSE
