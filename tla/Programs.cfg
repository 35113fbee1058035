SPECIFICATION ProgramsSpec
CONSTANTS
  Samples = {0, 1, 4}
  P = 1
  Q = 2
  MaxSamples = 9
  Ports = {"eth0", "eth1"}
  MaxFrames = 2
  MaxRuns = 2
  MaxFiles = 3
  IntMax = 3
  MaxCount = 9
  Seeds = {1, 65, 257}
  Sizes = {2, 4}
  Checked = 3
  Arguments <- MCArguments
  IntDigits = 2
  MaxTransfers = 2
  Values <- MCValues
  MaxPushes = 4
  MaxIterations = 2
  MaxScripts = 2
  MaxReads = 6
  CommandLine <- MCCommandLine
  U32 = 65536
  MaxSeconds = 5
  MaxStRuns = 2
  Scripts <- MCScripts
  Device <- MCDevice
INVARIANTS
  MarkersOrdered ExtremesExact 
  ZeroSawTheFrames NoneMeansNone DifferencesTrue 
  CleanTransferPasses PassIsOfItsSeed StatsExact
   ReportedVoltages CrashOnlyUnmapped
  RtcVerdict PassMeans PassComparedThisRun
CHECK_DEADLOCK FALSE
