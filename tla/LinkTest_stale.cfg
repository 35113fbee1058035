SPECIFICATION Spec
CONSTANTS
  Script = "AdvHost"
  Rows <- MCAdvRows
  Speeds = {100, 1000}
  s1000Support = 1
  Prompt30 = TRUE
INVARIANTS DuplexOfThisRow
CHECK_DEADLOCK FALSE
