CONSTANTS
  o1 = o1
  o2 = o2
  r1 = r1
  r0 = r0
  w1 = w1
  Operator <- MCOperator
  Relay = {r1}
  OldAudit <- MCOldAudit
  OldPolicies <- MCOldPolicies
  Watcher = {w1}
  WatchMethod = "WatchPolicies"
  Command <- MCCommand
  Event <- MCEvents
  NoEvent = NoEvent
  Id = {"p1", "p2"}
  NoPolicy = NoPolicy
  Lives = 2
  MaxCalls = 2
  Int32Max = 3
  Now = 3
SPECIFICATION MCSpec
INVARIANTS ExitTellsTruth ListShowsAsked 
PROPERTIES  StopsUnlessHeld
CHECK_DEADLOCK FALSE
