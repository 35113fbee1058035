SPECIFICATION Spec
CONSTANTS
  Builds = {b1, b2}
  NoBuild = none
  Losses = FALSE
  SerialWatch = TRUE
SYMMETRY BuildSymmetry
INVARIANTS JobBootsItsBuild
CHECK_DEADLOCK FALSE
