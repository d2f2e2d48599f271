SPECIFICATION Spec
CONSTANTS
  r1 = r1
  r2 = r2
  NoRun = NoRun
  Runs = {r1}
  Docs <- AllDocs
  First <- FirstDocs
  Extra = TRUE
  MaxDocs = 3
  MaxSaves = 1
CHECK_DEADLOCK FALSE
INVARIANTS
  
  ReleasedOnlyWhenFilled
  NoFillAfterRun
