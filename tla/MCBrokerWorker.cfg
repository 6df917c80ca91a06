CONSTANTS
  w1 = w1
  l1 = l1
  l2 = l2
  j1 = j1
  j2 = j2
  sig = sig
  api = api
  Shared = Shared
  NoEvent = NoEvent
  Workers = {w1}
  Loops = {l1, l2}
  WorkerOf <- MCWorkerOf
  Jobs = {j1, j2}
  Signals = {sig}
  Endpoints = {api}
  EndpointOf <- MCEndpointOf
  Listeners = {j2}
  MaxConcurrency = 1
  MaxInflight = 1
  High = 2
  Low = 0
  Depths = {0, 1, 2}
  MaxReports = 2
  MaxStops = 1
SPECIFICATION FairSpec
INVARIANTS
  TypeOK
  SemaphoresConserved
  RunsAtMostOnce
  NoLostWakeup
PROPERTIES
  TakenJobsStart
CHECK_DEADLOCK FALSE
