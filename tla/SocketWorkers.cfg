\* The command lines of MCSocketWorkers, with a connection that may be lost.
SPECIFICATION FairSpec
CONSTANTS
  Processes = {1, 2, 3}
  CommandLines <- MCCommandLines
  Junk <- MCJunk
  Cap = 2
  MaxConns = 3
  MaxBytes = 2
  MaxBreaks = 1
INVARIANTS ReceivedEverything
 
CHECK_DEADLOCK FALSE
