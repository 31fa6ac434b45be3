CONSTANTS
  MsPerSec = 3
  NsPerMs = 2
  UintMod = 32
  Delays = {1, 2, 3, 5, 7}
  MaxNow = 30
SPECIFICATION Spec
INVARIANTS
  EgroupNeverEarly
CHECK_DEADLOCK FALSE
