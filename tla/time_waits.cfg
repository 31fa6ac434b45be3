CONSTANTS
  MsPerSec = 3
  NsPerMs = 2
  UintMod = 16
  Delays = {1, 2, 3, 5, 7}
  MaxNow = 30
SPECIFICATION Spec
INVARIANTS
  TypeOK
  DeadlineExact
  RefusedOnCarry
CHECK_DEADLOCK FALSE
