\* The engine drains, or the caller does: then drops, gaps and merges, for the
\* gap memory is one place short, reach the stream.
CONSTANTS
  U32Max = 31
  Capacity = 1
  GapCapacity = 1
  Budgets = {1}
  MaxOffered = 4
  MaxIssued = 4
  MaxFrames = 6
  Setups <- MCBoth
  EngineBudget = 4
  FinalBudget = 64
  MaxLost = 2
SPECIFICATION SessionSpec
INVARIANTS
  EligibleSeriesIsWhole CompleteHasEveryFrame TransportGapCounts EngineNeverDrops GapsLocateEveryLoss LossConserved
\* A session ends with its capture.
CHECK_DEADLOCK FALSE
