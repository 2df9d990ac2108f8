SPECIFICATION FairSpec
CONSTANTS
  Setters = {http}
  MaxChanges = 3
  MaxMessages = 2
  MaxOutages = 1
INVARIANTS TypeOK NotForgotten CacheOnlyAccelerates
PROPERTIES Reported Unblocked
CHECK_DEADLOCK FALSE
