SPECIFICATION Spec
CONSTANTS
  Thread = {t1, t2}
  NoThread = NoThread
  Boxes = {b1, b2}
  NoBox = NoBox
  home = home
  work = work
  Config <- MCConfig
  Request <- MCRequest
  Empty = Empty
  Unset = Unset
  NoConfig = NoConfig
  PanicSite = {}
INVARIANTS
  TypeOK
  StatusMatchesBox
  OneRunningBox
  RunningIsRemembered
PROPERTIES
  ReplyIsTruthful
  ImplementsCoreService
