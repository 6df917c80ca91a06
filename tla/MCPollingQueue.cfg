\* Timely heartbeats: two slots of one worker and one of another compete for
\* a run that is registered, enqueued twice and hit by a fault, and for one
\* whose workflow nobody knows.
CONSTANTS
  w1 = w1  w2 = w2  r1 = r1  r2 = r2
  NoRun = NoRun  NoWorker = NoWorker  NoExec = NoExec
  Runs = {r1, r2}
  Workers <- TwoWorkers
  Execs <- ThreeSlots
  WorkerOf <- SlotWorker
  Unregistered = {r2}
  Timely = TRUE
  ReenqueueIn <- Quiet
  MaxEnqueues = 2
  MaxEvents = 1
  MaxFaults = 1
SPECIFICATION FairSpec
CHECK_DEADLOCK FALSE
INVARIANTS
  TypeOK
  ExclusiveExecution
  WorkingUnderLease
  LogBelongsToExecution
PROPERTIES
  ImplementsQueue
  NeverReopened
  EveryRunSettles
  UnregisteredIsRetried
