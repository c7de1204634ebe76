CONSTANTS
  Call = {p1, p2, p3}
  Label <- MCLabel
  Uuid = {p1, p2, p3}
  UuidOf <- MCUuidOf
  TenantArg <- MCTenant
  TtlArg <- MCTtl
  DefaultTtl = 3
  Second = 2
  MaxTokens = 2
  MaxTime = 6
  MaxRestarts = 1
  Ttl = 5
  Backdate = 2
  Backoff = 1
  Percent <- MCPercent
  Sub = {s1}
  NoCert = NoCert
  MaxClock = 9
SPECIFICATION MCSpec
INVARIANTS
  SingleUse
  ExpiryHonoured
  CertTraced
  LatestHeld
  HeadroomUsed
  
SYMMETRY Symmetric
CHECK_DEADLOCK FALSE
