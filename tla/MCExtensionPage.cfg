SPECIFICATION FairSpec
CONSTANTS
  Ext = {a, b}
  Enabled = {a}
  MaxStreams = 2
  MaxEdits = 2
  MaxSubmits = 3
  MaxCalls = 4
  MaxFaults = 1
  MaxLoads = 3
INVARIANTS
  TypeOK
  FormGoesHome
  ListSettles
  EnabledIsLoaded
  BlockedOnlyIfSpoiled
PROPERTY
  OpenedShowsForm
CHECK_DEADLOCK FALSE
