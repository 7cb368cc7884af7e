SPECIFICATION PoolSpec
CONSTANTS
  a1 = a1
  None = None
  Actor = {a1}
  MaxTask = 3
  MaxResource = 0
  MaxTime = 1
  MaxMsg = 3
  Priority = {}
  Urgency = {}
  Capacity <- Unbounded
INVARIANTS NoLostWakeup
PROPERTIES MessageIsReceived
