SPECIFICATION RunnerSpec
CONSTANTS
  Pictures = {p1, p2}
  NoPicture = none
  FrameCounts = {2}
  SettleFrames = 2
  MaxPolls <- MCMaxPolls
  MaxWork <- MCMaxWork
  ReadingsMissed = TRUE
  ResetSteps <- MCResetSteps
  Programs <- MCPrograms
INVARIANTS
  VerdictIsTrue
  ShotIsFinal
  EffectWasSeen
PROPERTIES
  JobReturns
\* A lost connection ends the run: nothing is called after it.
CHECK_DEADLOCK FALSE
