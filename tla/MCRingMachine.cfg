CONSTANTS
  DefaultRingCapacity = 6
  DefaultMinRingCapacity = 2
  ErrBeforeRing = ErrBeforeRing
  CapArg <- MCCapArg
  MaxHead = 12
  MaxWrite = 9
SPECIFICATION MCSpec
INVARIANTS
  Contiguous
  BytesFromExact
  KeepsUnacked
PROPERTY ShrinkLeavesRoom
CHECK_DEADLOCK FALSE
