SPECIFICATION FairSpec
CONSTANTS
  a = a
  b = b
  w1 = w1
  Bit = {a, b}
  Waiters = {w1, w2}
  Setters = {s1}
  Destroyers = {d}
  WaitCalls <- CompetingCalls
  SetMasks <- EachEvent
  NoThread = NoThread
  MaxSpurious = 1
  ClockFails = TRUE
INVARIANTS
  NoMissedEvent
PROPERTIES
  LapsingFlags
  EventDelivered
CHECK_DEADLOCK FALSE
