CONSTANTS
  Nil = Nil
  Node <- TwoSlots
  Head = {p}
  NoThread = NoThread
  Openers = {a}
  Closers = {b}
  MaxConnections = 2
  ConnQueueLen = 1
  Confs <- SmallConf
  Priorities = {4}
  MaxOpen = 2
SPECIFICATION Spec
INVARIANTS
  TypeOK
  OnePlace
  NoSpareMissed
PROPERTIES
  PoolSpec
CHECK_DEADLOCK FALSE
