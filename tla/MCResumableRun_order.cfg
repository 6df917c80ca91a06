CONSTANTS
  Documents <- MCStray
  Intervals = {1}
  MaxFaults = 1
  MaxTrail = 6
SPECIFICATION Spec
INVARIANT ResumesAfterCheckpoint
CHECK_DEADLOCK FALSE
