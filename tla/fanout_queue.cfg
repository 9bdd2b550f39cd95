\* One event and two subscribers, or two events that overlap at one of them, with
\* edits at any moment of a delivery.
CONSTANTS
  h2 = h2
  e2 = e2
  Hooks = {h1, h2}
  Events = {e1, e2}
  Patchers = {p1}
  created = created
  other = other
  None = None
  Types <- MCTypes
  TypeOf <- MCTypeOf
  Durable = TRUE
  MaxTries = 2
  MaxEdits = 2
SPECIFICATION MCSpec
INVARIANTS
  SettledReachesSubscribers
  SuccessRowsAreReceipts
  FailureCountBacked
PROPERTIES
  ImplementsEventDelivery
  PendingIsResolved
\* The system stops once every event is settled, dead or lost and no edit is left.
CHECK_DEADLOCK FALSE
