\* Three launchers compete for two slots and three profiles; each may die
\* anywhere, also while it rewrites the registry.
SPECIFICATION Spec
CONSTANTS
  Procs = {p1, p2, p3}
  Profiles = {f1, f2, f3}
  None = None
  Limit = 2
  MaxLeases = 3
  TornWrites = TRUE
SYMMETRY Symmetry
PROPERTIES
  LivingKeepTheirSlot
CHECK_DEADLOCK FALSE
