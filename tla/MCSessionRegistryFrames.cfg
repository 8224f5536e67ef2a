\* One worker, an ordinary page and an iframe the browser attaches by itself:
\* sessions of several targets, and several generations of each.
SPECIFICATION FairSpec
CONSTANTS
  Targets = {t1, f1}
  Frames = {f1}
  Workers = {w1}
  None = None
  MaxSid = 2
  MaxRequests = 2
  MaxWire = 1
INVARIANTS
  NeverShared
PROPERTIES
  DeadStaysDead
  
CHECK_DEADLOCK FALSE
