SPECIFICATION ExplorerSpec
CONSTANTS
  Op = {o1, o2}
  MaxLength = 3
INVARIANTS ShrinksCounterexample
CHECK_DEADLOCK FALSE
