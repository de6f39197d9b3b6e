\* One process publishes and operates; every crash is followed by a rebuild,
\* which may crash too, and derived views may be deleted.
CONSTANTS
  a = a
  b = b
  Procs = {"p"}
  Analyses = {a, b}
  RebuildFirst = TRUE
  MaxEvents = 5
  MaxMishaps = 2
SPECIFICATION Spec
SYMMETRY Symmetry
INVARIANTS
  TypeOK PublishedIsWhole HistoryReplays ArchiveVerifies MeasuredIsQualified
PROPERTIES
  ImplementsLifeCycle
\* A run may have reached M, or hold a torn event.
CHECK_DEADLOCK FALSE
