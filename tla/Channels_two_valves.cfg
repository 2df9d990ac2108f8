SPECIFICATION Spec
CONSTANTS
  N = 2
  Callers = {a}
  TimerTask = tmr
  MaxCalls = 2
  QueueLen = 8
  Overlap = TRUE
INVARIANT OneOnAtRest
CHECK_DEADLOCK FALSE
