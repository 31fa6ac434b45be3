SPECIFICATION Spec
CONSTANTS
  a = a
  b = b
  w1 = w1
  Bit = {a, b}
  Waiters = {w1}
  Setters = {s1}
  Destroyers = {}
  WaitCalls <- TimedCalls
  SetMasks <- EachEvent
  NoThread = NoThread
  MaxSpurious = 0
  ClockFails = FALSE
INVARIANTS
  WaitAnswers
