\* The usage line alone, on a network that loses nothing.
SPECIFICATION FairSpec
CONSTANTS
  Processes = {1, 2, 3}
  CommandLines <- UsageOnly
  Junk = {2}
  Cap = 2
  MaxConns = 3
  MaxBytes = 2
  MaxBreaks = 0
PROPERTY SecondsToRun
CHECK_DEADLOCK FALSE
