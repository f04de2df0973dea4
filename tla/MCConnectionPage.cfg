SPECIFICATION FairSpec
CONSTANTS
  Click = {c1}
  MaxClicks = 2
  MaxOthers = 1
  MaxEnds = 1
  MaxNet = 1
INVARIANTS
  TypeOK
  SettlesOnCore
PROPERTY
  KeepsUp
CHECK_DEADLOCK FALSE
