SPECIFICATION Spec
CONSTANTS
  Caller = {c1, c2}
  Worker = {w1}
  updater = updater
  ticker = ticker
  Nobody = Nobody
  Ops = {"start", "select", "read", "poll"}
  Alerts = TRUE
  MaxVersion = 2
SYMMETRY Symmetry
INVARIANTS
  QuietIsFresh
PROPERTIES
  NeverGoesBack
  ReadsSeeFinishedCalls
CHECK_DEADLOCK FALSE
