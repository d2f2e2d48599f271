SPECIFICATION PartsSpec
CONSTANTS
  r1 = r1
  r2 = r2
  c1 = c1
  c2 = c2
  v1 = v1
  v2 = v2
  NoConn = NoConn
  NoRun = NoRun
  Runs = {r1, r2}
  Closers = {c1, c2}
  MaxLaunches = 2
  Conns = {v1, v2}
  MaxPages = 2
  FailureLimit = 2
CHECK_DEADLOCK FALSE
SYMMETRY Symmetry
INVARIANTS
  RefsAreOfOneLaunch
  ToolCountSound
PROPERTIES
  ImplementsTarget
  CloseStopsOnlyOwnStream
