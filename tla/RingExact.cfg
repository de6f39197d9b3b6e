SPECIFICATION FairSpec
CONSTANTS
  U32Max = 20
  Capacity = 2
  GapCapacity = 3
  Budgets = {1, 2, 4}
  MaxOffered = 7
  MaxFrames = 8
INVARIANTS TypeOK NoMerge RingInvariant LossLocated WireChronological
PROPERTIES ImplementsLossLog DrainTerminates
CHECK_DEADLOCK FALSE
