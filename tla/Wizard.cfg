SPECIFICATION Spec
CONSTANTS
  Summary = 5
  Forms = {3, 4}
  PageAttempts = 3
  InstallAttempts = 2
INVARIANTS
  NoPagePassed
  FinishedMeansInstalled
PROPERTIES
  StopsAfterOvershoot
  WizardReturns
\* A driver that has returned does nothing; the guest may be idle.
CHECK_DEADLOCK FALSE
