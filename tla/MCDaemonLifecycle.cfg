\* A command that ensures or reloads, and up to two daemons, that earlier commands or it have spawned.
SPECIFICATION FairSpec
CONSTANTS
  Daemons = {d1, d2}
  Clients = {c1}
  Commands = {"ensure", "reload"}
  None = None
INVARIANTS
  ReleasedWhenGone
  ReloadIsFresh
PROPERTIES
  
  DeadLeaves
CHECK_DEADLOCK FALSE
