SPECIFICATION FairSpec
CONSTANTS
  Config = {c1, c2, c3}
  Down = Down
INVARIANTS
  TypeOK
  RunsCurrent
  NothingLeftRunning
PROPERTIES
  UpToDate
CHECK_DEADLOCK FALSE
