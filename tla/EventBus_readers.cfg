SPECIFICATION LiveSpec
CONSTANTS
  s1 = s1
  s2 = s2
  Subscribers = {s1, s2}
  Kinds <- Deltas
  MaxEvents = 2
  MaxPublished = 4
  MaxFrom = 5
INVARIANTS
  OnlyDroppedMissed
PROPERTIES
  ImplementsLog
  EventsReachReaders
