SPECIFICATION LinksSpec
CONSTANTS
  Script = "AdvTrgt"
  Rows <- MCAdvRows
  Speeds = {100, 1000}
  s1000Support = 1
  Prompt30 = FALSE
  Families = 1
  ForcedRows <- MCForceRows
  StreamOps <- MCStreamOps
  SlowOps <- MCSlowOps
INVARIANTS   
  JumboRefusalOfThisPing StreamRoundTripped
CHECK_DEADLOCK FALSE
