SPECIFICATION Spec
CONSTANTS
  Call = {c1, c2}
  Url = {u1, u2}
  NoUrl = none
  MadeUp = {m1}
  MaxId = 3
  MaxCalls = 4
  MaxFaults = 2
INVARIANTS
  TypeOK
  RowHasContent
  OneProfilePerUrl
  ActiveIsKnown
CHECK_DEADLOCK FALSE
