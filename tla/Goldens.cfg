SPECIFICATION MCSpec
CONSTANTS
  Planned = {p1, p2}
  Skipped = {q}
  Renamed = {r}
  Looks = {a, b}
  Plan = {"x", "y"}
  RunCount = 3
  Shows = {"a", "b", "c"}
  Close <- MCClose
  Columns = 2
  Rows = 3
  Levels = 4
  Width = 2
  Height = 2
  MaxRunArgs = 2
  AxisMax = 32767
  FrameInputs <- MCFrameInputs
  PngInputs <- MCPngInputs
  StepInputs <- MCStepInputs
  FileInputs <- MCFileInputs
SYMMETRY MCSymmetry
INVARIANTS
  GreenMeansMatched
  GoldensAreReviewed
  DeterministicMeansSame
  PicturesExact
  StatesFileSound
\* The comparison of determinism is the end of it.
CHECK_DEADLOCK FALSE
