\* Each operation in its own small instance; the bounds are explained in the README.
SPECIFICATION PageSpec
CONSTANTS
  Deadline = 3
  GraceMax = 2
  Quiet = 1
  Stable = 1
  ReprobeMax = 1
  Requests = {r1}
  MaxHits = 2
  MaxRenders = 1
  Patience = 0
  MaxDoc = 4
  MaxSession = 2
  MaxOps = 3
  MaxDialogs = 2
  MaxDialogEvents = 2
  MaxGuardDoc = 3
  MaxRequests = 2
  Guarded = {1, 2}
  MaxDocs = 2
  MaxCalls = 2
  MaxWatchEvents = 4
  Frames = {"a", "b", "c"}
  MaxFrameEvents = 6
  Length = 3
  MaxShown = 2
  MaxOther = 1
  MaxQueue = 2
  Window = 2
  MaxFrames = 5
  Urls = 3
  Concurrency = 2
  Retries = 1
INVARIANTS
  EarlyIsEarned
  
  
  
  NeverTwice
  NoSilentGap
PROPERTIES
  NavigatesGuarded
  
  DialogsEnd
  AllAsked
CHECK_DEADLOCK FALSE
