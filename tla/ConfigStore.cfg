SPECIFICATION FairSpec
CONSTANTS
  Users = {http, mqtt}
  MaxKeys = 2
  MaxVersions = 2
  MaxCrashes = 2
  MaxFails = 1
INVARIANTS TypeOK Durable Restores NoResurrection
PROPERTY Saved
CHECK_DEADLOCK FALSE
