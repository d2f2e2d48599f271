SPECIFICATION ClientLiveSpec
CONSTANTS
  c1 = c1
  c2 = c2
  NoStream = NoStream
  Subscribers = {c1, c2}
  Kinds = {"delta", "suspend", "metadata", "error", "takeover_cancelled"}
  MaxEvents = 3
  MaxPublished = 4
  MaxFrom = 4
  MaxReattach = 5
  MaxCuts = 0
  MaxSwitches = 1
CHECK_DEADLOCK FALSE
PROPERTIES
  SettlesIfConnected
