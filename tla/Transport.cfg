CONSTANTS
  Accept = {a1, a2}
  Open = {o1}
  MaxItems = 3
SPECIFICATION FairSpec
INVARIANT Accounted
PROPERTIES CloseFreesAll CancelEnds
CHECK_DEADLOCK FALSE
