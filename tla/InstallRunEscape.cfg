SPECIFICATION MCSpec
CONSTANTS
  Modes = {"light", "dark"}
  States = {"s1", "s2"}
  NoMode = "boot"
  Plan <- MCPlan
  PathCount = 2
  SkelFiles = {"rules"}
  ProductFiles = {"globals"}
  OverlayFiles = {"policies", "page"}
  SystemFiles = {"policies", "page", "localtime", "passwd", "rule", "fstab"}
  Groups = {"A", "B"}
  Names = {"k"}
  MaxLines = 4
  Targets = {"notify", "editor"}
  Libraries = {"lib"}
  MaxPerCall = 2
INVARIANT EveryPathTried
\* A run that has ended stays ended.
CHECK_DEADLOCK FALSE
