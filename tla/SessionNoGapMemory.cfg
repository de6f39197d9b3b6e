\* A ring without gap memory, drained by the engine or by the caller; a
\* histogram is announced.
CONSTANTS
  U32Max = 31
  Capacity = 1
  GapCapacity = 0
  Budgets = {1}
  MaxOffered = 3
  MaxIssued = 3
  MaxFrames = 7
  EngineBudget = 4
  FinalBudget = 64
  Setups <- MCHistograms
  MaxLost = 1
SPECIFICATION SessionSpec
INVARIANTS
  HistogramMatchesSeries SessionInvariant
\* A session ends with its capture.
CHECK_DEADLOCK FALSE
