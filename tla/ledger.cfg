SPECIFICATION Spec
CONSTANTS
  a1 = a1
  None = None
  Actor = {a1}
  MaxTask = 4
  MaxResource = 2
  MaxTime = 0
  MaxMsg = 1
  Priority = {}
  Urgency = {}
  Capacity <- Unbounded
INVARIANTS FamilyExact SubtreeIsClosure LedgerExact StoppedIsQuiescent
PROPERTIES TerminalForever ReleasedForever QuiescentForever DrainedForever LeaseDiscipline
CONSTRAINT FamilyOrLease
