\* Calls abandoned at any moment, workers that hang, die and are restarted, a close.
SPECIFICATION Spec
CONSTANTS
  Callers = {c1, c2}
  Threads = {t1, t2}
  Nobody = Nobody
  MaxCalls = 2
  MaxWorkers = 3
INVARIANTS
  NoOrphan
  ClosedMeansStopped
  RecvDoesNotBlock
PROPERTY SendIsTruthful
SYMMETRY Symmetry
CHECK_DEADLOCK FALSE
