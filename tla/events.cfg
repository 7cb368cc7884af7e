SPECIFICATION ObserversSpec
CONSTANTS
  a1 = a1
  None = None
  Actor = {a1}
  MaxTask = 2
  MaxResource = 0
  MaxTime = 1
  MaxMsg = 2
  w1 = w1
  w2 = w2
  Worker = {w1, w2}
  Priority = {}
  Urgency = {}
  Capacity <- OneSlot
INVARIANTS RefusedIsReported
