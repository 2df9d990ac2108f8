SPECIFICATION FairSpec
CONSTANTS
  Clients = {one, two}
  Texts <- MCTexts
  MaxRequests = 3
INVARIANTS TypeOK AppliedIsAcked ReadsWrites OneAnswer
PROPERTY Served
CHECK_DEADLOCK FALSE
