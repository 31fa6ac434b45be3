CONSTANTS
  Nil = Nil
  Node <- ThreeSlots
  Head = {p}
  NoThread = NoThread
  Openers = {}
  Closers = {b}
  MaxConnections = 3
  ConnQueueLen = 1
  Confs = {}
  Priorities = {4, 5}
  MaxOpen = 2
SPECIFICATION HeldSpec
INVARIANTS
  PortLists
CHECK_DEADLOCK FALSE
