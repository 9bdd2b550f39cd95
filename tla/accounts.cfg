\* Two users, two workspaces, six requests, two at once; a window is two ticks.
CONSTANTS
  None = None
  Emails = {e1, e2}
  Slugs = {w1, w2}
  Requests = {q1, q2}
  Limits = {1}
  GlobalLimit = 0
  Window = 2
  MaxNow = 3
  MaxCalls = 6
SYMMETRY MCSymmetry
SPECIFICATION Spec
INVARIANTS
  RateLimited
  OneLivePerGrant
  SpentForTokens
  BootstrapIsFirst
CHECK_DEADLOCK FALSE
