CONSTANTS
  Worker = {w1, w2, w3}
  Bounds <- MCBounds
  Sample <- MCSample
  None = None
  MaxLines = 2
  MaxRuns = 2
SPECIFICATION DumpSpec
INVARIANTS
  NoSampleLost
  MeanWithinSamples
  
  DumpIsHistory
SYMMETRY Symmetric
CHECK_DEADLOCK FALSE
