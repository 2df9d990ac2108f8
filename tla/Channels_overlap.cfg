SPECIFICATION Spec
CONSTANTS
  N = 2
  Callers = {a, b}
  TimerTask = tmr
  MaxCalls = 2
  QueueLen = 1
  Overlap = TRUE
SYMMETRY CallerSymmetry
INVARIANTS TypeOK OneFullAtRest DepthBounded
CHECK_DEADLOCK FALSE
