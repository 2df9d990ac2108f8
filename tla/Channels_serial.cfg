SPECIFICATION FairSpec
CONSTANTS
  N = 3
  Callers = {a}
  TimerTask = tmr
  MaxCalls = 4
  QueueLen = 8
  Overlap = FALSE
INVARIANTS OneOnAtRest CoherentAtRest
PROPERTY ImplementsValves
CHECK_DEADLOCK FALSE
