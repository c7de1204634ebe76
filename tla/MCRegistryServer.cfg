CONSTANTS
  t1 = t1
  s1 = s1
  s2 = s2
  AnyTenant = AnyTenant
  Missing = Missing
  NoRow = NoRow
  Tenant = {t1}
  Name = {s1, s2}
  Agent = {a1}
  Relay = {r1, r2}
  Region = {eu}
  WatchRequest <- MCWatchRequest
  Event <- RegistryEvent
  Rpc = {p1, p2, p3}
  Watcher = {w1}
  ChanCap = 1
SPECIFICATION MCSpec
SYMMETRY MCSymmetry
INVARIANTS
  AgentKnown
  ExactUnlessRaced
PROPERTY MigrationKept
CHECK_DEADLOCK FALSE
