SPECIFICATION BoardSpec
CONSTANTS
  Default = 3
  Intervals = {0, 2, 5}
  MaxTimeout = 4
  Resets = 2
  MaxEeRuns = 2
  MaxQRuns = 2
INVARIANTS
  PassRestores OldDataSomewhere ZeroIsOnFlash
 
CHECK_DEADLOCK FALSE
