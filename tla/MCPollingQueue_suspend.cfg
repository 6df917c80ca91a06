\* One worker, one run that suspends, no fault.
CONSTANTS
  w1 = w1  w2 = w2  r1 = r1  r2 = r2
  NoRun = NoRun  NoWorker = NoWorker  NoExec = NoExec
  Runs = {r1}
  Workers <- OneWorker
  Execs <- TwoSlots
  WorkerOf <- SlotWorker
  Unregistered = {}
  Timely = TRUE
  ReenqueueIn = {}
  MaxEnqueues = 1
  MaxEvents = 1
  MaxFaults = 0
SPECIFICATION Spec
CHECK_DEADLOCK FALSE
PROPERTIES
  SuspendedWaitsForResume
