\* Two processes on one run.
CONSTANTS
  a = a
  b = b
  Procs = {"p", "q"}
  Analyses = {a, b}
  RebuildFirst = TRUE
  MaxEvents = 5
  MaxMishaps = 0
SPECIFICATION Spec
INVARIANTS
  AppendOnly
\* A run may have reached M, or hold a torn event.
CHECK_DEADLOCK FALSE
