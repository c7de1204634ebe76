CONSTANTS
  t1 = t1
  t2 = t2
  a = a
  b = b
  AnyTenant = AnyTenant
  Tenant <- MCTenant
  Name <- MCName
  Event <- MCEvent
  Watcher = {w1, w2}
  ChanCap = 1
  MaxLog = 3
SPECIFICATION MCFairSpec
INVARIANTS
  NoPanic
  InOrderNoGaps
  NothingForgotten
PROPERTIES
  DropIsTold
  ImplementsFeed
CHECK_DEADLOCK FALSE
