SPECIFICATION ProgramSpec
CONSTANTS
  a1 = a1
  a2 = a2
  None = None
  Actor = {a1, a2}
  MaxTask = 3
  MaxResource = 0
  MaxTime = 1
  MaxMsg = 3
  Priority = {}
  Urgency = {}
  Capacity <- TwoSlotsForA1
INVARIANTS TypeOK QueueExact WaitersExact TimersExact MailboxesExact
PROPERTIES DeliveryWakesOne TimedWakeJustified FifoQueues TaskLifecycle MessagesAtMostOnce
