SPECIFICATION MCSpec
CONSTANTS
  a1 = a1
  None = None
  Actor = {a1}
  MaxTask = 3
  MaxResource = 0
  MaxTime = 0
  MaxMsg = 0
  MaxFuel = 2
  TaskFuel = {0, 1, 2}
  MaxPushed = 4
  MaxBudget = 8
  Priority = {1}
  Urgency = {0, 1}
  Capacity <- Unbounded
INVARIANTS ChoiceIsOldestBest DriversMeetGoals
PROPERTIES PolicyKeepsQueue DriversEnd
