\* A crash that no rebuild follows.
CONSTANTS
  a = a
  b = b
  Procs = {"p"}
  Analyses = {a}
  RebuildFirst = FALSE
  MaxEvents = 5
  MaxMishaps = 1
SPECIFICATION Spec
INVARIANTS
  LockedAtM
\* A run may have reached M, or hold a torn event.
CHECK_DEADLOCK FALSE
