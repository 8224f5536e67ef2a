\* One client leases, claims, releases and adopts a tab that may close or crash.
SPECIFICATION Spec
CONSTANTS
  Peers = {p1}
  Handlers = {h1, h2}
  Targets = {a}
  Leases = {l1, l2}
  Requests = {"adopt", "command", "lease_create", "lease_claim", "lease_release"}
  None = None
  MaxRequests = 1
  MaxWire = 1
SYMMETRY Symmetry
INVARIANTS
  LeaseTablesAgree
CHECK_DEADLOCK FALSE
