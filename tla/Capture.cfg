SPECIFICATION MCSpec
CONSTANTS
  Modes = {"light", "dark"}
  States = {"s1", "s2"}
  NoMode = "boot"
  Plan <- MCPlan
  Chosen = {"s1", "s2"}
INVARIANTS
  ExitOkMeansCaptured
  ShotsShowTheirMode
  ResultsFollowPlan
  StockShotsAreStock
PROPERTIES
  RunsEnd
\* A run that has ended stays ended.
CHECK_DEADLOCK FALSE
