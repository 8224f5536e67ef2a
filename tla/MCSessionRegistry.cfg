\* Two workers on one ordinary page.
SPECIFICATION Spec
CONSTANTS
  Targets = {t1}
  Frames = {}
  Workers = {w1, w2}
  None = None
  MaxSid = 2
  MaxRequests = 2
  MaxWire = 1
SYMMETRY WorkerSymmetry
INVARIANTS
  ReturnedIsPrepared
PROPERTIES
  LiveSessionStays
CHECK_DEADLOCK FALSE
