SPECIFICATION FairSpec
CONSTANTS
  Group = 2
  Groups = 3
  Buffer = 3
  MaxStarts = 2
  MaxExpire = 2
  MaxFail = 1
INVARIANTS TypeOK NotInVain
PROPERTY Installs
CHECK_DEADLOCK FALSE
