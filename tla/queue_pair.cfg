SPECIFICATION FairSpec
CONSTANTS
  p1 = p1
  p2 = p2
  c1 = c1
  c2 = c2
  k = k
  Producers = {p1}
  Consumers = {c1}
  Clearers = {}
  Destroyers = {}
  Item = {i1, i2}
  NoItem = NoItem
  NoThread = NoThread
  QueueSize = 2
  PushTimeouts <- AllTimeouts
  PopTimeouts <- AllTimeouts
  MaxSpurious = 0
  ClockFails = TRUE
INVARIANTS
  TypeOK
  InBounds
  NoLostFullWakeup
PROPERTIES
  FifoSpec
  PushServed
  PopServed
