CONSTANTS
  DefaultRingCapacity = 6
  DefaultMinRingCapacity = 2
  ErrBeforeRing = ErrBeforeRing
  RingCap = 3
  Handler = {h1, h2}
  MaxHead = 5
  MaxWrite = 4
  MaxDrops = 2
SPECIFICATION MCFairSpec
INVARIANTS
  InOrderOnce
  KeepsUnread
PROPERTY EverythingArrives
CHECK_DEADLOCK FALSE
