SPECIFICATION FairSpec
CONSTANTS
  Thread = {t1, t2}
  NoThread = NoThread
  Boxes = {b1}
  NoBox = NoBox
  home = home
  work = work
  Config = {home}
  Request <- OneRequest
  Empty = Empty
  Unset = Unset
  NoConfig = NoConfig
  PanicSite = {"build", "hooks", "new", "run", "close", "parse"}
PROPERTIES
  OnlyHandlersDie
  EveryCallReturns
CHECK_DEADLOCK FALSE
