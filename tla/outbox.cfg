\* Two mutations, one webhook, two workers with batches of both rows.
CONSTANTS
  Hooks = {h1}
  Events = {e1, e2}
  e1 = e1
  e2 = e2
  Filters <- MCFilters
  Workers = {w1, w2}
  Limit = 2
  MaxRetries = 2
  MaxFaults = 1
  MaxEdits = 2
  None = None
SPECIFICATION FairSpec
INVARIANTS
  NothingLost
  EveryPostCounted
PROPERTIES
  ImplementsEventDelivery
  QueueDrains
CHECK_DEADLOCK FALSE
