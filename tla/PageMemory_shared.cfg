SPECIFICATION Spec
CONSTANTS
  r1 = r1
  r2 = r2
  u1 = u1
  u2 = u2
  NoQuery = NoQuery
  Runs = {r1, r2}
  Profiles <- Shared
  Urls = {u1}
  Queries <- TwoQueries
  Contained <- Parts
  MaxPages = 2
  MaxTabs = 2
  MaxCount = 2
  MaxRounds = 1
  Strict = {}
CHECK_DEADLOCK FALSE
INVARIANTS
  RefusedHoldsRef
  
