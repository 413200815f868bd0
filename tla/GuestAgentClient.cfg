SPECIFICATION MCSpec
CONSTANTS
  MaxCalls = 3
  MaxSyncs = 4
  Chunks = 2
  MaxGuestOps = 3
INVARIANTS
  WrittenIsWhole
  OnlyAbandonedRun
PROPERTIES
  ImplementsCalls
  CallReturns
\* After the last command of the bound only the agent has anything to do.
CHECK_DEADLOCK FALSE
