SPECIFICATION Spec
CONSTANTS
  Group = 2
  Groups = 3
  Buffer = 3
  MaxStarts = 2
  MaxExpire = 2
  MaxFail = 1
INVARIANT HandleFreed
CHECK_DEADLOCK FALSE
