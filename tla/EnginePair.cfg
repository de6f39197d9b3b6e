\* Host and slave engines on the simulated link, with every fault it injects.
CONSTANTS
  U32Max = 255
  TickMod = 8
  Profiles <- MCProfiles
  Latencies <- MCLatencies
  HasDelay = TRUE
SPECIFICATION Spec
INVARIANTS
  TypeOK
  SeriesMatchesCounters
  OkMeansAccepted
  DeclaredFaultsHappen
  EnginesAgree
  IrqConserved
  TimeoutsAreReal
  LatenciesAreReal
\* The run ends with its last transaction.
CHECK_DEADLOCK FALSE
