CONSTANTS
  a = a  b = b  c = c  k1 = k1  k2 = k2
  NoKey = NoKey  Nobody = Nobody
  Calls = {a, b, c}
  Setups <- MCSetups
  MaxEntries = 1
  Threads = 1
  MaxCancels = 2
SPECIFICATION FairSpec
INVARIANTS
  TypeOK
  EndedCallsLeaveNothing
  SameKeySameResult
PROPERTIES
  CallsReturn
CHECK_DEADLOCK FALSE
