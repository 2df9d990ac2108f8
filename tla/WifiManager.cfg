SPECIFICATION FairSpec
CONSTANTS
  Retries = 1
  MaxDisturb = 2
INVARIANTS TypeOK NotStranded ClientMatches
PROPERTY Serves
