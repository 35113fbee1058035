SPECIFICATION EndsSpec
CONSTANTS
  Threads = 2
  iterations = 2
  IntHalf = 16
  Micro = 2
  HistN = 2
  Lateness <- MCLateness
  Speeds = {1000}
  s1000Support = 1
  Prompt30 = FALSE
INVARIANTS EachSampleOnce OutsideOnlyEarly PrintedComplete
PROPERTIES LatencyEnds LinkEnds
CHECK_DEADLOCK FALSE
