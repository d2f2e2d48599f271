SPECIFICATION ClientSpec
CONSTANTS
  c1 = c1
  c2 = c2
  NoStream = NoStream
  Subscribers = {c1, c2}
  Kinds = {"delta", "suspend", "metadata", "error", "takeover_cancelled"}
  MaxEvents = 3
  MaxPublished = 6
  MaxFrom = 6
  MaxReattach = 5
  MaxCuts = 2
  MaxSwitches = 0
CHECK_DEADLOCK FALSE
SYMMETRY Connections
INVARIANTS
  NoGap
