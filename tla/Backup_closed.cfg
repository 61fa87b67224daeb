\* Writes go on during exports and restores; a failure and a crash.
SPECIFICATION Spec
CONSTANTS
  r1 = r1
  r2 = r2
  png = png
  jpg = jpg
  NoFile = NoFile
  Rows = {r1, r2}
  Years = {1, 2}
  Year <- TwoYears
  Files = {png, jpg}
  MaxFaults = 0
  MaxCrashes = 0
  MaxRestores = 1
  MaxPackages = 1
  Overlap = FALSE
SYMMETRY Symmetric

PROPERTIES ValidPackageRestores
\* The business need not do anything more.
CHECK_DEADLOCK FALSE
