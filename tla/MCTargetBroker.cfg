\* Two clients adopt and use up to two tabs; the clients come and go, the tabs stay.
SPECIFICATION Spec
CONSTANTS
  Peers = {p1, p2}
  Handlers = {h1, h2}
  Targets = {a, b}
  Leases = {l1}
  Requests = {"adopt"}
  None = None
  MaxRequests = 1
  MaxWire = 0
SYMMETRY Symmetry
INVARIANTS
  GoneHoldsNothing
PROPERTIES
  KeepsReservations
CHECK_DEADLOCK FALSE
