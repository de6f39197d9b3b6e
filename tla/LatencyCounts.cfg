\* The device's histogram and the tooling's statistics of one series.
CONSTANTS
  U32Max = 3
  TickMod = 16
  Layouts <- MCLayouts
  MaxBins = 2
  Durations = {0, 2, 5, 11}
  MaxSamples = 5
  None = None
SPECIFICATION Spec
INVARIANTS
  TypeOK DurationsAreReal UnsaturatedHistogramMatches QuantilesAreNearestRank
\* A series ends.
CHECK_DEADLOCK FALSE
