SPECIFICATION Spec
CONSTANTS
  Thread = {t1}
  NoThread = NoThread
  Boxes = {b1, b2, b3}
  NoBox = NoBox
  home = home
  work = work
  Config <- MCConfig
  Request <- MCRequest
  Empty = Empty
  Unset = Unset
  NoConfig = NoConfig
  PanicSite = {"build", "hooks", "new", "run", "close", "parse"}
INVARIANTS
  StatusMatchesBox
PROPERTIES
  ReplyIsTruthful
CHECK_DEADLOCK FALSE
