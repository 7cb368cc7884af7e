SPECIFICATION CheckedSpec
CONSTANTS
  a1 = a1
  None = None
  Actor = {a1}
  MaxTask = 2
  MaxResource = 1
  MaxTime = 1
  MaxMsg = 2
  w1 = w1
  w2 = w2
  Worker = {w1, w2}
  Priority = {}
  Urgency = {}
  Capacity <- OneSlot
CONSTRAINT LeaseOrMail
INVARIANTS BridgesExact LedgerReplays
SYMMETRY WorkerSymmetry
