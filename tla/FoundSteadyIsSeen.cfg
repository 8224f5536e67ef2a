\* An event that comes during a probe is noted as probed, and its document is not looked at again.
SPECIFICATION Spec
CONSTANTS
  Deadline = 6
  GraceMax = 1
  Quiet = 1
  Stable = 1
  ReprobeMax = 1
  Requests = {r1}
  MaxHits = 1
  MaxRenders = 1
  Patience = 4
INVARIANTS
  SteadyIsSeen
CHECK_DEADLOCK FALSE
