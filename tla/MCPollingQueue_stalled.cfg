\* No assumption on time or on the clients: leases lapse under live
\* executions, and a run is enqueued again at any moment.
CONSTANTS
  w1 = w1  w2 = w2  r1 = r1  r2 = r2
  NoRun = NoRun  NoWorker = NoWorker  NoExec = NoExec
  Runs = {r1}
  Workers <- TwoWorkers
  Execs <- SlotPerWorker
  WorkerOf <- SlotWorker
  Unregistered = {}
  Timely = FALSE
  ReenqueueIn <- Always
  MaxEnqueues = 2
  MaxEvents = 1
  MaxFaults = 1
SPECIFICATION Spec
SYMMETRY WorkerSymmetry
CHECK_DEADLOCK FALSE
PROPERTIES
  OnlyOwnerReleases
