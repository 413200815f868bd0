SPECIFICATION MCSpec
CONSTANTS
  MaxBuilds = 2
  MaxReleases = 2
INVARIANTS
  OneQemu
  PhasesAreSeparate
  NothingSurvives
  ReleaseIsWhole
  ReleaseIsVerifiedBuild
PROPERTY RebootEnds
\* After the block nothing happens, nor after the last release.
CHECK_DEADLOCK FALSE
