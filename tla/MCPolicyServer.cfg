CONSTANTS
  t1 = t1
  t2 = t2
  r1 = r1
  AnyTenant = AnyTenant
  NoId = NoId
  NoRow = NoRow
  Tenant <- MCTenant
  Name = {r1}
  Event <- PolicyEvent
  AddRequest <- MCAddRequest
  Rpc = {p1, p2, p3}
  Watcher = {w1}
  ChanCap = 1
SPECIFICATION FairSpec
INVARIANTS
  ExactUnlessRaced
PROPERTY CatchesUp
CHECK_DEADLOCK FALSE
