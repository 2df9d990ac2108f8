SPECIFICATION Spec
CONSTANTS
  Web = {http}
  Writers = {mqtt}
  Main = main
  Timer = tmr
  None = None
  Posted = {"ON", "OFF", "other", None}
  MaxInputs = 3
INVARIANTS TypeOK CommandShown ObserverCurrent HarmNeedsClash
CHECK_DEADLOCK FALSE
