CONSTANTS
  Documents <- MCDocuments
  Intervals = {0, 1, 2}
  MaxFaults = 2
  MaxTrail = 8
SPECIFICATION FairSpec
INVARIANTS
  TypeOK
  SequentialRunsInOrder
  StateIsTrail
  CompletedIsComplete
PROPERTY ResumedRunsComplete
CHECK_DEADLOCK FALSE
