SPECIFICATION FairSpec
CONSTANTS
  Client = {c1, c2}
  MaxOrphans = 1
  MaxCommands = 2
  MaxDeaths = 1
INVARIANTS
  TypeOK
  OneTunnel
PROPERTIES
  DeactivatedIsDown
  ActivationIsTruthful
  CommandsReturn
CHECK_DEADLOCK FALSE
