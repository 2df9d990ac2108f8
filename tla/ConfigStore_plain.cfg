SPECIFICATION Spec
CONSTANTS
  Users = {http}
  MaxKeys = 1
  MaxVersions = 1
  MaxCrashes = 1
  MaxFails = 0
INVARIANT SavedEncrypted
CHECK_DEADLOCK FALSE
