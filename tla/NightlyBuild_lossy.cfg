SPECIFICATION FairSpec
CONSTANTS
  Builds = {b1, b2}
  NoBuild = none
  Losses = TRUE
  SerialWatch = FALSE
INVARIANTS NoReadWhileSending  OneJobPerBuild
PROPERTIES FlaggedIsTested ImplementsService
CHECK_DEADLOCK FALSE
