\* What the docstring of send claims, when a caller may be cancelled.
SPECIFICATION Spec
CONSTANTS
  Callers = {c1, c2}
  Threads = {t1, t2}
  Nobody = Nobody
  MaxCalls = 2
  MaxWorkers = 2
INVARIANT SendTransmits
CHECK_DEADLOCK FALSE
