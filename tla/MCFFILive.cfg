SPECIFICATION FairSpec
CONSTANTS
  Caller = {c1}
  Worker = {}
  updater = updater
  ticker = ticker
  Nobody = Nobody
  Ops = {"start", "stop", "urltest", "read", "poll"}
  Alerts = TRUE
  MaxVersion = 3
INVARIANTS
  TypeOK
PROPERTIES
  RatesAreOfOneBox
  SnapshotsFindOut
CHECK_DEADLOCK FALSE
