SPECIFICATION BudgetSpec
CONSTANTS
  U32Max = 20
  Capacity = 2
  GapCapacity = 3
  Budgets = {1, 2}
  MaxOffered = 4
  MaxFrames = 4
INVARIANT DrainTakesAtMost
CHECK_DEADLOCK FALSE
