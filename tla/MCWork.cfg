\* Each part in its own small instance; the bounds are explained in the README.
SPECIFICATION WorkSpec
CONSTANTS
  Traits <- MCTraits
  Plans <- MCPlans
  Declares = TRUE
  HasInput = TRUE
  MaxPicks = 2
  Popups = {"p1", "p2"}
  MaxEvents = 3
  Workers = {"w1", "w2"}
  Items = 3
  Isolated = TRUE
  Threads = {"p", "q"}
  Targets = {"t", "u"}
  Contexts = {"c"}
  MaxTries = 2
  MaxCalls = 4
  Documents <- MCDocuments
  MaxBlocks = 2
  Budgets = {1, 5}
  Pages <- MCPages
  Shows <- MCShows
  Posting = "posting"
  Routes <- MCRoutes
  HopBudget = 4
  Actors = {"w1", "w2"}
  Views = {"v1", "v2"}
  MaxSpans = 3
  MaxRecordings = 1
  MaxParallel = 1
  Found = 2
  MaxPosts = 3
  MaxResets = 1
  Writers = {"w1", "w2"}
  Values <- MCValues
  MaxPuts = 4
INVARIANTS
  
  
  NoTabForgotten
  MirrorIsThePage
  PostingIsVisited
  
  AmberIsLive
  RefIsGood
PROPERTIES
  
  NoneEscapes
CHECK_DEADLOCK FALSE
