CONSTANTS
  Deals = {d1, d2}
  ExtIds = {x1}
  Calls = {c1, c2, c3}
  sales = sales
  renewals = renewals
  lead = lead
  signed = signed
  renew = renew
  None = None
  Pipelines <- MCPipelines
  Stages <- MCStages
  PipeSeed <- MCPipeSeed
  StageSeed <- MCStageSeed
  MaxCalls = 3
SPECIFICATION Spec
SYMMETRY Symmetry
INVARIANTS
  ClosedIffTerminal
  StatusFollowsStage
  WritesAreTraced
CHECK_DEADLOCK FALSE
