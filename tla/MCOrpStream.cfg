CONSTANTS
  Frame <- MCFrame
  Other <- MCOther
  MaxPayload = 2
  MaxFrames = 3
  BackCut = {0, 3}
SPECIFICATION OrpFairSpec
INVARIANTS
  FramesExact
  
  ClosedMeansOver
  EndsAgree
PROPERTIES
  EndIsReported
CHECK_DEADLOCK FALSE
