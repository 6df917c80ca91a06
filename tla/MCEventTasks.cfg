CONSTANTS
  t1 = t1  t2 = t2
  NoValue = NoValue
  Tasks = {t1, t2}
  Setups <- MCSetups
  Values <- MCValues
  Names <- MCNames
  Events <- MCEvents
  MaxEvents = 3
  Minute = 2
  MaxTime = 6
SPECIFICATION FairSpec
INVARIANTS
  TypeOK
  ListensGetWhatTheyAsk
  SchedulesFireOnce
PROPERTIES
  LoneListenEnds
CHECK_DEADLOCK FALSE
