SPECIFICATION Spec
CONSTANTS
  p1 = p1
  p2 = p2
  c1 = c1
  c2 = c2
  k = k
  Producers = {p1, p2}
  Consumers = {c1, c2}
  Clearers = {k}
  Destroyers = {k}
  Item = {i1}
  NoItem = NoItem
  NoThread = NoThread
  QueueSize = 2
  PushTimeouts <- FiniteOnly
  PopTimeouts <- FiniteOnly
  MaxSpurious = 1
  ClockFails = FALSE
INVARIANTS
  WaitCounts
  RingConsistent
  NoLostEmptyWakeup
SYMMETRY Symmetry
CHECK_DEADLOCK FALSE
