CONSTANTS
  Nil = Nil
  Node <- TwoSlots
  Head = {p}
  NoThread = NoThread
  Openers = {a, b}
  Closers = {}
  MaxConnections = 2
  ConnQueueLen = 1
  Confs = {}
  Priorities = {4}
  MaxOpen = 0
SPECIFICATION Spec
INVARIANTS
  UniqueOwner
CHECK_DEADLOCK FALSE
