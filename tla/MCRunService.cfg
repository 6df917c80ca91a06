CONSTANTS
  c1 = c1  c2 = c2
  r1 = r1  r2 = r2
  Nobody = Nobody
  Calls = {c1, c2}
  Ids = {r1, r2}
  Setups <- MCSetups
  signal = signal  caller = caller
  Shutdowns = {signal, caller}
  MaxEvents = 2
  MaxFaults = 1
SPECIFICATION Spec
SYMMETRY Symmetry
INVARIANTS
  TypeOK
  HistoryIsFaithful
  StreamsFollowHistory
  ShutdownIsQuiet
CHECK_DEADLOCK FALSE
