SPECIFICATION FairSpec
CONSTANTS
  a1 = a1
  None = None
  Actor = {a1}
  MaxTask = 2
  MaxResource = 0
  MaxTime = 1
  MaxMsg = 1
  Priority = {}
  Urgency = {}
  Capacity <- Unbounded
PROPERTIES RunnableIsDispatched TimedIsResumed
