SPECIFICATION Spec
CONSTANTS
  p1 = p1
  p2 = p2
  c1 = c1
  c2 = c2
  k = k
  Producers = {p1}
  Consumers = {c1, c2}
  Clearers = {}
  Destroyers = {}
  Item = {i1}
  NoItem = NoItem
  NoThread = NoThread
  QueueSize = 2
  PushTimeouts <- ForEver
  PopTimeouts <- ForEver
  MaxSpurious = 0
  ClockFails = FALSE
INVARIANTS
  PopHasItem
