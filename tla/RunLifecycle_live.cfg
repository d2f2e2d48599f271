SPECIFICATION FairSpec
CONSTANTS
  r1 = r1
  r2 = r2
  s1 = s1
  s2 = s2
  NoRun = NoRun
  Sessions = {s1}
  Runs = {r1, r2}
  SessionOf <- OneSession
  MaxAsks = 1
  BrowserMayClose = FALSE
CHECK_DEADLOCK FALSE
PROPERTIES
  EndedIsReleased
  CancelledWaitEnds
  DecisionRestartsRun
