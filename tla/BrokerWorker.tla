---------------------------- MODULE BrokerWorker ----------------------------
(***************************************************************************)
(* Workflow jobs over an event broker: WorkflowWorker (ops/worker.py) and  *)
(* the BackpressureController (ops/backpressure.py) that the workers of    *)
(* one process share, over a broker (resources/broker.py).                 *)
(*                                                                         *)
(* A broker object either hands each event to one consumer ("queue":       *)
(* InMemoryBroker, RabbitMQBroker) or reads the stream from its own        *)
(* position ("stream": RedisStreamsBroker).  A loop is a task in           *)
(* run_forever; a worker may have several.                                 *)
(***************************************************************************)
EXTENDS Integers, Sequences, FiniteSets

CONSTANTS
  Workers,         \* WorkflowWorker objects
  Loops,           \* tasks in run_forever
  WorkerOf,        \* the worker of each loop
  Jobs,            \* events of type workflow.run
  Signals,         \* events of other types
  Endpoints,
  EndpointOf,      \* the endpoint of each job
  Listeners,       \* jobs whose workflow listens for a signal (no history)
  Shared,          \* the one position of a queue
  NoEvent,
  MaxConcurrency,  \* the semaphore of each worker
  MaxInflight,     \* the semaphore of each endpoint
  High, Low,       \* watermarks
  Depths,          \* queue depths reported to update_depth
  MaxReports,      \* bound: calls of update_depth
  MaxStops         \* bound: stopped or cancelled loops

ASSUME ConstantsAssumption ==
  /\ IsFiniteSet(Loops)
  /\ WorkerOf \in [Loops -> Workers]
  /\ EndpointOf \in [Jobs -> Endpoints]
  /\ Jobs \intersect Signals = {}
  /\ NoEvent \notin Jobs \union Signals
  /\ Shared \notin Workers
  /\ MaxConcurrency \in Nat \ {0}
  /\ MaxInflight \in Nat
  /\ Low \in Nat /\ High \in Nat /\ Low < High
  /\ Depths \subseteq Nat
  /\ MaxReports \in Nat
  /\ MaxStops \in Nat

Events == Jobs \union Signals

VARIABLES
  kind,       \* the kind of broker
  topic,      \* the events published, in order
  position,   \* how many events each broker object has passed
  loop,       \* what each loop is doing
  slots,      \* value of each worker's semaphore
  permits,    \* value of each endpoint's semaphore
  paused,     \* paused endpoints
  notifying,  \* endpoints with a scheduled _notify task
  started,    \* runs started of each job, by worker: 0, 1, or 2 for more
  leaked,     \* permits that nobody will give back
  reports, stops

vars == <<kind, topic, position, loop, slots, permits, paused, notifying,
          started, leaked, reports, stops>>

\* asked is the stream position that a read in flight started from.
Phases == {"consuming", "parked", "gate", "permit", "slot",
           "running", "listening", "resting", "stopped"}
NotAsked == -1
Loop == [pc: Phases, job: Jobs \union {NoEvent}, asked: Int]

TypeOK ==
  /\ kind \in {"queue", "stream"}
  /\ topic \in Seq(Events)
  /\ position \in [Workers \union {Shared} -> Nat]
  /\ loop \in [Loops -> Loop]
  /\ \A l \in Loops :
       loop[l].job = NoEvent <=>
         loop[l].pc \in {"consuming", "resting", "stopped"}
  /\ slots \in [Workers -> 0..MaxConcurrency]
  /\ permits \in [Endpoints -> 0..MaxInflight]
  /\ paused \subseteq Endpoints
  /\ notifying \subseteq Endpoints
  /\ started \in [Jobs -> [Workers -> 0..2]]
  /\ leaked \in [Endpoints -> Nat]
  /\ reports \in 0..MaxReports
  /\ stops \in 0..MaxStops

Init ==
  /\ kind \in {"queue", "stream"}
  /\ topic = <<>>
  /\ position = [b \in Workers \union {Shared} |-> 0]
  /\ loop = [l \in Loops |-> [pc |-> "consuming", job |-> NoEvent, asked |-> NotAsked]]
  /\ slots = [w \in Workers |-> MaxConcurrency]
  /\ permits = [e \in Endpoints |-> MaxInflight]
  /\ paused = {}
  /\ notifying = {}
  /\ started = [j \in Jobs |-> [w \in Workers |-> 0]]
  /\ leaked = [e \in Endpoints |-> 0]
  /\ reports = 0
  /\ stops = 0

-----------------------------------------------------------------------------
(* The broker *)

brokerVars == <<kind, topic, position>>
pressureVars == <<paused, notifying, reports>>

EndpointAt(l) == EndpointOf[loop[l].job]
SetLoop(l, pc, job) ==
  loop' = [loop EXCEPT ![l] = [pc |-> pc, job |-> job, asked |-> NotAsked]]
GoTo(l, pc) == SetLoop(l, pc, loop[l].job)

\* publish, by a client or by a workflow's emit.
Publish(event) ==
  /\ \A k \in DOMAIN topic : topic[k] # event
  /\ topic' = Append(topic, event)
  /\ UNCHANGED <<kind, position, loop, slots, permits, pressureVars, started,
                 leaked, stops>>

\* The broker object that a loop's worker reads from.
BrokerOf(l) == IF kind = "queue" THEN Shared ELSE WorkerOf[l]

\* XREAD from the last id that the broker object has seen, which a second
\* read may change before the answer arrives.
Ask(l) ==
  /\ kind = "stream"
  /\ loop[l].pc \in {"consuming", "listening"}
  /\ loop[l].asked = NotAsked
  /\ loop' = [loop EXCEPT ![l].asked = position[WorkerOf[l]]]
  /\ UNCHANGED <<brokerVars, slots, permits, pressureVars, started, leaked,
                 stops>>

\* A broker that redelivers the last event until its job has ended.
NextPosition_Redelivers(l) ==
  IF kind = "stream" THEN loop[l].asked + 1
  ELSE IF \E m \in Loops : /\ loop[m].pc = "running"
                           /\ loop[m].job = topic[position[Shared]]
       THEN position[Shared]
       ELSE position[Shared] + 1

\* The position of the event that a consume in progress gets.
NextPosition(l) ==
  IF kind = "queue" THEN position[Shared] + 1 ELSE loop[l].asked + 1

\* The broker hands an event to the loop: get of the queue, or the first
\* entry of the batch that XREAD returned.
Receives(l, event) ==
  /\ kind = "stream" => loop[l].asked # NotAsked
  /\ NextPosition(l) \in DOMAIN topic
  /\ event = topic[NextPosition(l)]
  /\ position' = [position EXCEPT ![BrokerOf(l)] = NextPosition(l)]
  /\ UNCHANGED <<kind, topic>>

-----------------------------------------------------------------------------
(* run_once *)

\* acquire: wait_for evaluates its predicate.
GateOf(e) == IF e \in paused THEN "parked" ELSE "permit"

\* consume drops an event of another type and waits for the next one.  A job
\* is gone from the broker before it is rejected, when its region is not the
\* worker's or the worker's registry lacks its workflow.
Take(l) ==
  /\ loop[l].pc = "consuming"
  /\ \E event \in Events :
       /\ Receives(l, event)
       /\ \/ event \in Signals /\ GoTo(l, "consuming")
          \/ event \in Jobs /\ GoTo(l, "resting")
          \/ event \in Jobs /\ SetLoop(l, GateOf(EndpointOf[event]), event)
  /\ UNCHANGED <<slots, permits, pressureVars, started, leaked, stops>>

\* wait_for evaluates its predicate again after a wake-up.
PassGate(l) ==
  /\ loop[l].pc = "gate"
  /\ GoTo(l, GateOf(EndpointAt(l)))
  /\ UNCHANGED <<brokerVars, slots, permits, pressureVars, started, leaked,
                 stops>>

TakePermit(l) ==
  /\ loop[l].pc = "permit"
  /\ permits[EndpointAt(l)] > 0
  /\ permits' = [permits EXCEPT ![EndpointAt(l)] = @ - 1]
  /\ GoTo(l, "slot")
  /\ UNCHANGED <<brokerVars, slots, pressureVars, started, leaked, stops>>

\* async with self.semaphore, and run_workflow begins.
TakeSlot(l) ==
  /\ loop[l].pc = "slot"
  /\ slots[WorkerOf[l]] > 0
  /\ slots' = [slots EXCEPT ![WorkerOf[l]] = @ - 1]
  /\ GoTo(l, IF loop[l].job \in Listeners THEN "listening" ELSE "running")
  /\ started' = [started EXCEPT ![loop[l].job][WorkerOf[l]] =
                   IF @ < 2 THEN @ + 1 ELSE @]
  /\ UNCHANGED <<brokerVars, permits, pressureVars, leaked, stops>>

\* A listen of the workflow, when the worker keeps no history (otherwise it
\* suspends the run), consumes events of every type from the worker's broker
\* and goes on until it gets a signal.
Hear(l) ==
  /\ loop[l].pc = "listening"
  /\ \E event \in Events :
       /\ Receives(l, event)
       /\ GoTo(l, IF event \in Signals THEN "running" ELSE "listening")
  /\ UNCHANGED <<slots, permits, pressureVars, started, leaked, stops>>

PermitsAfter_Success(l, ok) ==
  IF ok THEN [permits EXCEPT ![EndpointAt(l)] = @ + 1] ELSE permits
PermitsAfter_Twice(l, ok) ==
  [permits EXCEPT ![EndpointAt(l)] = @ + (IF ok THEN 1 ELSE 2)]
SlotsAfter_Kept(l) == slots

\* release in the finally clause, whether or not run_workflow raised; the end
\* of the async with block.
PermitsAfter(l, ok) == [permits EXCEPT ![EndpointAt(l)] = @ + 1]
SlotsAfter(l) == [slots EXCEPT ![WorkerOf[l]] = @ + 1]

\* run_workflow returns or raises.
EndRun(l) ==
  /\ loop[l].pc = "running"
  /\ SetLoop(l, "resting", NoEvent)
  /\ \E ok \in BOOLEAN : permits' = PermitsAfter(l, ok)
  /\ slots' = SlotsAfter(l)
  /\ UNCHANGED <<brokerVars, pressureVars, started, leaked, stops>>

\* on_result or the sleep after an error ends.
NextRound(l) ==
  /\ loop[l].pc = "resting"
  /\ SetLoop(l, "consuming", NoEvent)
  /\ UNCHANGED <<brokerVars, slots, permits, pressureVars, started, leaked,
                 stops>>

\* run_forever finds its stop event set, which it reads between two rounds.
Stop(l) ==
  /\ loop[l].pc = "resting"
  /\ stops < MaxStops
  /\ stops' = stops + 1
  /\ SetLoop(l, "stopped", NoEvent)
  /\ UNCHANGED <<brokerVars, slots, permits, pressureVars, started, leaked>>

Working == {"running", "listening"}

\* The task is cancelled, which run_forever does not catch.  A job that waits
\* for the worker's semaphore holds a permit outside of any finally clause.
Cancel(l) ==
  /\ loop[l].pc # "stopped"
  /\ stops < MaxStops
  /\ stops' = stops + 1
  /\ SetLoop(l, "stopped", NoEvent)
  /\ IF loop[l].pc \in Working
     THEN permits' = PermitsAfter(l, FALSE) /\ slots' = SlotsAfter(l)
     ELSE UNCHANGED <<permits, slots>>
  /\ IF loop[l].pc = "slot"
     THEN leaked' = [leaked EXCEPT ![EndpointAt(l)] = @ + 1]
     ELSE UNCHANGED leaked
  /\ UNCHANGED <<brokerVars, pressureVars, started>>

-----------------------------------------------------------------------------
(* Backpressure *)

PausedAt_NoHysteresis(e, d) == IF d >= High THEN paused \union {e} ELSE paused \ {e}

\* update_depth pauses at the high watermark, resumes at the low one and
\* changes nothing between the two.
PausedAt(e, d) ==
  CASE d >= High -> paused \union {e}
    [] d <= Low -> paused \ {e}
    [] OTHER -> paused

\* Resuming schedules a _notify task.
WokenAt(e, d) == IF d <= Low THEN notifying \union {e} ELSE notifying

UpdateDepth(e, d) ==
  /\ reports < MaxReports
  /\ reports' = reports + 1
  /\ paused' = PausedAt(e, d)
  /\ notifying' = WokenAt(e, d)
  /\ UNCHANGED <<brokerVars, loop, slots, permits, started, leaked, stops>>

\* _notify: notify_all, after which every waiter evaluates its predicate.
Notify(e) ==
  /\ e \in notifying
  /\ notifying' = notifying \ {e}
  /\ loop' = [l \in Loops |->
                IF loop[l].pc = "parked" /\ EndpointAt(l) = e
                THEN [loop[l] EXCEPT !.pc = "gate"] ELSE loop[l]]
  /\ UNCHANGED <<brokerVars, slots, permits, paused, reports, started,
                 leaked, stops>>

Next ==
  \/ \E event \in Events : Publish(event)
  \/ \E l \in Loops :
       \/ Ask(l) \/ Take(l) \/ PassGate(l) \/ TakePermit(l) \/ TakeSlot(l)
       \/ Hear(l) \/ EndRun(l) \/ NextRound(l) \/ Stop(l) \/ Cancel(l)
  \/ \E e \in Endpoints : Notify(e) \/ \E d \in Depths : UpdateDepth(e, d)

Spec == Init /\ [][Next]_vars

\* asyncio runs every ready task, its semaphores serve waiters in order, and
\* workflows that do not wait for an event end.
FairSpec ==
  /\ Spec
  /\ \A l \in Loops :
       /\ WF_vars(Ask(l)) /\ WF_vars(Take(l)) /\ WF_vars(Hear(l))
       /\ WF_vars(PassGate(l)) /\ WF_vars(EndRun(l)) /\ WF_vars(NextRound(l))
       /\ SF_vars(TakePermit(l)) /\ SF_vars(TakeSlot(l))
  /\ \A e \in Endpoints : WF_vars(Notify(e))

-----------------------------------------------------------------------------
(* Properties *)

\* The loops that hold a permit of endpoint e, and those that hold a slot of
\* worker w.
Holders(e) == {l \in Loops : loop[l].pc \in {"slot"} \union Working /\ EndpointAt(l) = e}
Runners(w) == {l \in Loops : loop[l].pc \in Working /\ WorkerOf[l] = w}

\* No semaphore gains or loses a unit, whatever a run raises and whenever a
\* loop is cancelled, except the permits of jobs cancelled between the two
\* semaphores: so at most MaxInflight jobs of an endpoint and
\* MaxConcurrency jobs of a worker are at work.
SemaphoresConserved ==
  /\ \A e \in Endpoints :
       permits[e] + Cardinality(Holders(e)) + leaked[e] = MaxInflight
  /\ \A w \in Workers :
       slots[w] + Cardinality(Runners(w)) = MaxConcurrency

\* worker.py:1: jobs of a queue are shared out, so each runs at most once;
\* each reader of a stream runs every job, once if it reads one at a time.
RunsAtMostOnce ==
  \A j \in Jobs :
    \A v, w \in Workers :
      /\ started[j][v] > 0 /\ started[j][w] > 0 => kind = "stream" \/ v = w
      /\ started[j][w] > 1 =>
           kind = "stream" /\ \E l, m \in Loops :
             l # m /\ WorkerOf[l] = w /\ WorkerOf[m] = w

\* A loop never sleeps at a gate that is open, unless its wake-up is under
\* way: pausing again between the wake-up and the check loses nothing.
NoLostWakeup ==
  \A l \in Loops :
    loop[l].pc = "parked" => EndpointAt(l) \in paused \union notifying

\* A job that a loop has taken starts in the end, unless its endpoint stays
\* paused, cancelled jobs have used up the permits, or a workflow that holds
\* a slot listens for ever for an event that does not come.
Waiting(l) == loop[l].pc \in {"parked", "gate", "permit", "slot"}
TakenJobsStart ==
  \A l \in Loops :
    Waiting(l) ~> \/ ~ Waiting(l)
                  \/ \E e \in Endpoints : [](e \in paused) \/ leaked[e] = MaxInflight
                  \/ [](\E m \in Loops : loop[m].pc = "listening")

=============================================================================
