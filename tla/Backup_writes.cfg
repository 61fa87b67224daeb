\* Writes go on during exports and restores; a failure and a crash; a restore
\* after one that was cut off, and a package made after it.
SPECIFICATION Spec
CONSTANTS
  r1 = r1
  r2 = r2
  png = png
  jpg = jpg
  NoFile = NoFile
  Rows = {r1}
  Years = {1}
  Year <- FirstYear
  Files = {png, jpg}
  MaxFaults = 2
  MaxCrashes = 1
  MaxRestores = 2
  MaxPackages = 2
  Overlap = FALSE
SYMMETRY Symmetric
INVARIANTS LogoOnDisk SnapshotsComplete
PROPERTIES FailureKeepsAll SuccessIsExact
\* The business need not do anything more.
CHECK_DEADLOCK FALSE
