--------------------------- MODULE ExternalTasks ---------------------------
(***************************************************************************)
(* Tasks that use what lives outside the event loop: run with a process or *)
(* a container, call with a function, a stdio MCP server, gRPC or HTTP,    *)
(* each in the wrappers of the translator (timeout, extensions, memo).     *)
(* Tasks run side by side in the branches of a fork or in several runs,    *)
(* and are cancelled at any await.  A function of the document and a       *)
(* nested workflow execute another task, their child.                      *)
(*                                                                         *)
(* A definition X_Something is X with a plausible bug, for the checks.     *)
(***************************************************************************)
EXTENDS Integers, FiniteSets, SequencesExt

CONSTANTS Calls,         \* executions of a task
          Setups,        \* records [task, grants, python]
          MaxEntries,    \* max_entries of ResultMemoization
          Threads,       \* worker threads of asyncio.to_thread
          MaxCancels,    \* bound on the cancellations from outside
          NoKey, Nobody

ASSUME ExternalTasksAssumption ==
  /\ MaxEntries \in Nat \ {0} /\ Threads \in Nat \ {0} /\ MaxCancels \in Nat
  /\ Nobody \notin Calls

Kinds == {"absent", "function", "process", "mcp", "container", "http", "grpc"}

\* Only functions execute a child, and only they and processes are memoized.
ASSUME SetupsAssumption ==
  \A s \in Setups :
    /\ s.python \in {"3.11", "3.13"}
    /\ \A c \in Calls :
         /\ s.task[c].kind \in Kinds
         /\ s.task[c].child \in Calls \union {Nobody}
         /\ s.task[c].child # Nobody => s.task[c].kind = "function"
         /\ s.task[c].key # NoKey => s.task[c].kind \in {"function", "process"}

VARIABLES setup,
          call,          \* how far each call is
          lock,          \* asyncio.Lock of the cache: its holder, then who waits
          values,        \* the cache, oldest entry first
          alive,         \* processes <<call, round, role>>
          docker,        \* container, thread and open client of each call
          held,          \* what an HTTP or gRPC call has set up
          cancels,       \* cancellations so far
          evicted        \* keys that the cache has dropped (history variable)

vars == <<setup, call, lock, values, alive, docker, held, cancels, evicted>>
outside == <<alive, docker, held>>

Task(c) == setup.task[c]
Child(c) == Task(c).child
Timed(c) == Task(c).timeout # "none"
Memoized(c) == Task(c).key # NoKey
Roots == {c \in Calls : Task(c).kind # "absent" /\ \A p \in Calls : Child(p) # c}
Ended(c) == call[c].outcome # "none"
At(c, pc) == call[c].pc = pc

Idle == [pc |-> "idle", round |-> 1, result |-> Nobody, pending |-> "ok",
         timer |-> "off", hit |-> "none", outcome |-> "none"]
NoDocker == [container |-> "none", thread |-> "none", client |-> FALSE]

Init ==
  /\ setup \in Setups
  /\ call = [c \in Calls |-> Idle]
  /\ lock = <<>> /\ values = <<>> /\ evicted = {}
  /\ alive = {}
  /\ docker = [c \in Calls |-> NoDocker]
  /\ held = [c \in Calls |-> {}]
  /\ cancels = 0

-----------------------------------------------------------------------------
(* How a task begins and ends *)

\* What the server's environment lets a document use.
VolumeGranted(c) == "volume" \in Task(c).asks => "volume" \in setup.grants
PortsGranted(c) == "ports" \in Task(c).asks => "ports" \in setup.grants
NetworkGranted(c) == "network" \in Task(c).asks => "network" \in setup.grants
CommandGranted(c) == "command" \in setup.grants
EgressGranted(c) == "egress" \in Task(c).asks => "egress" \in setup.grants

\* The node that NodeBuilderRegistry.build makes, and where it starts.
NodeOf(c) ==
  CASE Task(c).kind \in {"process", "mcp"} -> "spawning"
    [] Task(c).kind = "container" -> "preparing"
    [] Task(c).kind = "grpc" -> "reading"
    [] Task(c).kind = "http" -> IF Task(c).reads THEN "reading" ELSE "connecting"
    [] OTHER -> IF Child(c) # Nobody THEN "nested" ELSE "computing"

\* A memoized node is computed under the lock of the cache.
EntryOf(c) == IF Memoized(c) THEN "queued" ELSE NodeOf(c)

\* A cancelled call takes itself out of the queue of the lock; the lock
\* passes to the next in the queue.
LockWithout(c) ==
  IF c \in ToSet(lock)
  THEN RemoveAt(lock, CHOOSE i \in DOMAIN lock : lock[i] = c)
  ELSE lock

\* c leaves its node.  wait_for turns the cancellation that its own timer
\* caused into an error; a call that was left behind has its outcome.
Leaving(c, how) ==
  [call EXCEPT ![c].pc = "done",
     ![c].outcome = IF Ended(c) THEN @
                    ELSE IF how = "cancelled" /\ call[c].timer = "fired" THEN "raised"
                    ELSE how]

Leaves_KeepsLock(c, how) ==
  /\ call' = Leaving(c, how)
  /\ lock' = IF lock # <<>> /\ lock[1] = c THEN lock ELSE LockWithout(c)
  /\ held' = [held EXCEPT ![c] = {}]

\* with-blocks and finally clauses are run on every way out.
Leaves(c, how) ==
  /\ call' = Leaving(c, how)
  /\ lock' = LockWithout(c)
  /\ held' = [held EXCEPT ![c] = {}]

\* The wrappers around the node: a timer, then the extension's tasks.
Begin(c) ==
  /\ At(c, "idle")
  /\ Task(c).kind # "absent"
  /\ c \in Roots \/ \E p \in Calls : Child(p) = c /\ At(p, "nested")
  /\ call' = [call EXCEPT
       ![c].pc = IF Task(c).extended THEN "before" ELSE EntryOf(c),
       ![c].timer = IF Timed(c) THEN "running" ELSE "off"]
  /\ lock' = IF EntryOf(c) = "queued" /\ ~ Task(c).extended THEN Append(lock, c) ELSE lock
  /\ UNCHANGED <<setup, values, cancels, evicted>> /\ UNCHANGED outside

\* _wrap_extension: the tasks before, the node, the tasks after.
BeforeTasks(c) ==
  /\ At(c, "before")
  /\ \/ /\ call' = [call EXCEPT ![c].pc = EntryOf(c)]
        /\ lock' = IF EntryOf(c) = "queued" THEN Append(lock, c) ELSE lock
        /\ UNCHANGED held
     \/ Leaves(c, "raised")
  /\ UNCHANGED <<setup, values, alive, docker, cancels, evicted>>

AfterTasks(c) ==
  /\ At(c, "after")
  /\ \E how \in {"returned", "raised"} : Leaves(c, how)
  /\ UNCHANGED <<setup, values, alive, docker, cancels, evicted>>

\* The node of c returns what the call by has computed.
Returning(c, by) ==
  [(IF Task(c).extended THEN [call EXCEPT ![c].pc = "after"] ELSE Leaving(c, "returned"))
     EXCEPT ![c].result = by]

-----------------------------------------------------------------------------
(* ResultMemoization.get_or_compute *)

Key(c) == Task(c).key
Cached(k) == \E i \in DOMAIN values : values[i].key = k
CachedBy(k) == values[CHOOSE i \in DOMAIN values : values[i].key = k].by

HoldsLock_Queued(c) == c \in ToSet(lock)

\* asyncio.Lock is fair: it goes to who has waited longest.
HoldsLock(c) == lock # <<>> /\ lock[1] = c

Hit(c) ==
  /\ At(c, "queued") /\ HoldsLock(c) /\ Cached(Key(c))
  /\ call' = Returning(c, CachedBy(Key(c)))
  /\ lock' = LockWithout(c)
  /\ UNCHANGED <<setup, values, cancels, evicted>> /\ UNCHANGED outside

\* factory() is awaited under the lock.
Compute(c) ==
  /\ At(c, "queued") /\ HoldsLock(c) /\ ~ Cached(Key(c))
  /\ call' = [call EXCEPT ![c].pc = NodeOf(c)]
  /\ UNCHANGED <<setup, lock, values, cancels, evicted>> /\ UNCHANGED outside

Kept_Late == IF Len(values) > MaxEntries THEN Tail(values) ELSE values

\* A full cache drops its oldest entry.
Kept == IF Len(values) >= MaxEntries THEN Tail(values) ELSE values

NodeReturns(c) ==
  /\ call' = Returning(c, c)
  /\ IF Memoized(c)
     THEN /\ values' = Append(Kept, [key |-> Key(c), by |-> c])
          /\ evicted' = evicted \union
               ({v.key : v \in ToSet(values)} \ {v.key : v \in ToSet(values')})
     ELSE UNCHANGED <<values, evicted>>
  /\ lock' = LockWithout(c)
  /\ held' = [held EXCEPT ![c] = {}]

NodeRaises(c) == Leaves(c, "raised") /\ UNCHANGED <<values, evicted>>

NodeEnds(c) == NodeReturns(c) \/ NodeRaises(c)

\* A Python function, awaited when it is awaitable.
FunctionEnds(c) ==
  /\ At(c, "computing") /\ NodeEnds(c)
  /\ UNCHANGED <<setup, alive, docker, cancels>>

\* ctx.run_node ends as the child does.
NestedEnds(c) ==
  /\ At(c, "nested") /\ Ended(Child(c))
  /\ CASE call[Child(c)].outcome = "returned" -> NodeReturns(c)
       [] OTHER -> Leaves(c, call[Child(c)].outcome) /\ UNCHANGED <<values, evicted>>
  /\ UNCHANGED <<setup, alive, docker, cancels>>

-----------------------------------------------------------------------------
(* Processes: run with shell or script, and stdio MCP servers *)

Proc(c, role) == <<c, call[c].round, role>>
Lives(c, role) == Proc(c, role) \in alive
Family(c) == {Proc(c, "child"), Proc(c, "grandchild")}

\* create_subprocess_exec.  A timeout that names an entry of use.timeouts is
\* no duration: run_process raises when the process runs already.
Spawn(c) ==
  /\ At(c, "spawning") /\ (Task(c).kind = "mcp" => CommandGranted(c))
  /\ alive' = alive \union {Proc(c, "child")}
  /\ IF Task(c).kind = "mcp"
     THEN call' = [call EXCEPT ![c].pc = "asking"] /\ UNCHANGED <<lock, held>>
     ELSE IF Task(c).timeout = "named" THEN Leaves(c, "raised")
     ELSE call' = [call EXCEPT ![c].pc = "communicating"] /\ UNCHANGED <<lock, held>>
  /\ UNCHANGED <<setup, values, docker, cancels, evicted>>

SpawnRaises(c) ==
  /\ At(c, "spawning") /\ NodeRaises(c)
  /\ UNCHANGED <<setup, alive, docker, cancels>>

\* What the programs do: start another one that shares their pipes, exit.
Forks(c) ==
  /\ Lives(c, "child") /\ Task(c).forks
  /\ ~ Lives(c, "grandchild")
  /\ alive' = alive \union {Proc(c, "grandchild")}
  /\ UNCHANGED <<setup, call, lock, values, docker, held, cancels, evicted>>

Exits(p) ==
  /\ p \in alive /\ alive' = alive \ {p}
  /\ UNCHANGED <<setup, call, lock, values, docker, held, cancels, evicted>>

\* communicate reads both pipes to their end.
Communicated(c) ==
  /\ At(c, "communicating") /\ Family(c) \intersect alive = {}
  /\ NodeEnds(c)
  /\ UNCHANGED <<setup, alive, docker, cancels>>

Killed_None(c) == {}

\* _sandbox_preexec is called, not passed: it is the server that starts a
\* session, the child leads no group, killpg finds none, and the child alone
\* is killed.
Killed(c) == {Proc(c, "child")}

\* wait_for around communicate.  A timeout of the task bounds its wrapper as
\* well, and the timer of the wrapper started first.
RunTimesOut(c) ==
  /\ At(c, "communicating") /\ Task(c).timeout # "after"
  /\ alive' = alive \ Killed(c)
  /\ call' = [call EXCEPT ![c].pc = "reaping"]
  /\ UNCHANGED <<setup, lock, values, docker, held, cancels, evicted>>

\* proc.wait: up to Python 3.11 it waits for the pipes as well.
Reaped(c) ==
  /\ ~ Lives(c, "child")
  /\ setup.python = "3.11" => ~ Lives(c, "grandchild")

Reap(c) ==
  /\ At(c, "reaping") /\ Reaped(c) /\ NodeRaises(c)
  /\ UNCHANGED <<setup, alive, docker, cancels>>

\* _mcp_stdio_call: a line in, a line out; then the server is closed.
Closing(c, pending) ==
  /\ call' = [call EXCEPT ![c].pc = "closing", ![c].pending = pending]
  /\ UNCHANGED <<setup, lock, values, docker, held, cancels, evicted>>

ServerAnswers(c) ==
  /\ At(c, "asking") /\ Lives(c, "child")
  /\ \E pending \in {"ok", "raised"} : Closing(c, pending)
  /\ UNCHANGED alive

ServerGone(c) ==
  /\ At(c, "asking") /\ Family(c) \intersect alive = {}
  /\ Closing(c, "raised") /\ UNCHANGED alive

\* The finally clause is over: initialize is followed by the request itself.
ServerClosed(c) ==
  IF call[c].pending # "ok"
  THEN Leaves(c, call[c].pending) /\ UNCHANGED <<values, evicted>>
  ELSE IF call[c].round = 1
  THEN /\ call' = [call EXCEPT ![c].pc = "spawning", ![c].round = 2]
       /\ UNCHANGED <<lock, values, held, evicted>>
  ELSE NodeReturns(c)

Terminated(c) ==
  /\ call[c].pc \in {"closing", "killing"} /\ Reaped(c) /\ ServerClosed(c)
  /\ UNCHANGED <<setup, alive, docker, cancels>>

Terminate(c) ==
  /\ At(c, "closing") /\ ~ Reaped(c)
  /\ alive' = alive \ {Proc(c, "child")}
  /\ call' = [call EXCEPT ![c].pc = "killing"]
  /\ UNCHANGED <<setup, lock, values, docker, held, cancels, evicted>>

\* Five seconds after the kill.
GivesUp(c) ==
  /\ At(c, "killing") /\ ~ Reaped(c) /\ NodeRaises(c)
  /\ UNCHANGED <<setup, alive, docker, cancels>>

-----------------------------------------------------------------------------
(* Containers: two jobs in worker threads, which no cancellation reaches *)

Busy == {c \in Calls : docker[c].thread \in {"preparing", "waiting"}}
Docker(c, container, thread, client) ==
  docker' = [docker EXCEPT ![c] = [container |-> container, thread |-> thread, client |-> client]]

\* asyncio.to_thread: the job waits for a thread of the pool.
Submit(c) ==
  /\ At(c, "preparing") /\ docker[c].thread = "none"
  /\ Docker(c, "none", "to_prepare", FALSE)
  /\ UNCHANGED <<setup, call, lock, values, alive, held, cancels, evicted>>

ThreadStarts(c) ==
  /\ docker[c].thread \in {"to_prepare", "to_wait"}
  /\ Cardinality(Busy) < Threads
  /\ Docker(c, "none", IF docker[c].thread = "to_prepare" THEN "preparing" ELSE "waiting",
            docker[c].client)
  /\ UNCHANGED <<setup, call, lock, values, alive, held, cancels, evicted>>

\* The call, if it still waits, goes on when its thread has ended.
ThreadRaises(c) ==
  IF call[c].pc \in {"preparing", "containing"} THEN NodeRaises(c)
  ELSE UNCHANGED <<call, lock, values, held, evicted>>

\* _docker has pulled the image, checked what the task asks for, and returns
\* its client; to a call that was cancelled it returns it in vain.
Prepared(c) ==
  /\ docker[c].thread = "preparing"
  /\ VolumeGranted(c) /\ PortsGranted(c) /\ NetworkGranted(c)
  /\ IF At(c, "preparing")
     THEN /\ Docker(c, "none", "to_wait", TRUE)
          /\ call' = [call EXCEPT ![c].pc = "containing"]
     ELSE Docker(c, "none", "none", TRUE) /\ UNCHANGED call
  /\ UNCHANGED <<setup, lock, values, alive, held, cancels, evicted>>

\* There is no daemon to make a client for; or a pull or a check fails, and
\* nobody closes the client.
PrepareRaises(c) ==
  /\ docker[c].thread = "preparing"
  /\ \E client \in BOOLEAN : Docker(c, "none", "none", client)
  /\ ThreadRaises(c)
  /\ UNCHANGED <<setup, alive, cancels>>

\* containers.run creates the container and starts it; either may raise,
\* before the try whose finally clause cleans up.
ContainerRuns(c) ==
  /\ docker[c].thread = "waiting" /\ docker[c].container = "none"
  /\ Docker(c, "running", "waiting", docker[c].client)
  /\ UNCHANGED <<setup, call, lock, values, alive, held, cancels, evicted>>

ContainerRaises(c) ==
  /\ docker[c].thread = "waiting" /\ docker[c].container = "none"
  /\ \E container \in {"none", "created"} : Docker(c, container, "none", docker[c].client)
  /\ ThreadRaises(c)
  /\ UNCHANGED <<setup, alive, cancels>>

\* wait and logs return or raise; then the container is removed and the
\* client closed.
ContainerEnds(c) ==
  /\ docker[c].thread = "waiting" /\ docker[c].container = "running"
  /\ Docker(c, "none", "none", FALSE)
  /\ IF At(c, "containing") THEN NodeEnds(c)
     ELSE UNCHANGED <<call, lock, values, held, evicted>>
  /\ UNCHANGED <<setup, alive, cancels>>

\* The removal raises, and the client is not closed.
RemoveRaises(c) ==
  /\ docker[c].thread = "waiting" /\ docker[c].container = "running"
  /\ Docker(c, "left", "none", docker[c].client)
  /\ ThreadRaises(c)
  /\ UNCHANGED <<setup, alive, cancels>>

-----------------------------------------------------------------------------
(* HTTP and gRPC: a client; or a directory on sys.path, and a channel *)

Resources == {"client", "directory", "path", "channel"}

\* An OpenAPI document, an agent card or a proto cannot be read or used.
ReadRaises(c) ==
  /\ At(c, "reading") /\ NodeRaises(c)
  /\ UNCHANGED <<setup, alive, docker, cancels>>

ReadDocument(c) ==
  /\ At(c, "reading") /\ Task(c).kind = "http" /\ EgressGranted(c)
  /\ call' = [call EXCEPT ![c].pc = "connecting"]
  /\ UNCHANGED <<setup, lock, values, alive, docker, held, cancels, evicted>>

Connect(c) ==
  /\ At(c, "connecting")
  /\ call' = [call EXCEPT ![c].pc = "requesting"]
  /\ held' = [held EXCEPT ![c] = {"client"}]
  /\ UNCHANGED <<setup, lock, values, alive, docker, cancels, evicted>>

\* A request to an MCP server follows the one that initializes it.
Answers(c) ==
  /\ At(c, "requesting") /\ EgressGranted(c)
  /\ IF Task(c).rounds > call[c].round
     THEN /\ call' = [call EXCEPT ![c].round = 2]
          /\ UNCHANGED <<lock, values, held, evicted>>
     ELSE NodeReturns(c)
  /\ UNCHANGED <<setup, alive, docker, cancels>>

\* Refused, timed out, or answered with an error.
RequestRaises(c) ==
  /\ call[c].pc \in {"connecting", "requesting"} /\ NodeRaises(c)
  /\ UNCHANGED <<setup, alive, docker, cancels>>

\* The resource is read and compiled; the compiler blocks the event loop.
Compile(c) ==
  /\ At(c, "reading") /\ Task(c).kind = "grpc" /\ EgressGranted(c)
  /\ call' = [call EXCEPT ![c].pc = "calling"]
  /\ held' = [held EXCEPT ![c] = {"directory", "path", "channel"}]
  /\ UNCHANGED <<setup, lock, values, alive, docker, cancels, evicted>>

\* A response, an error of the service, or its timeout.
GrpcEnds(c) ==
  /\ At(c, "calling") /\ NodeEnds(c)
  /\ UNCHANGED <<setup, alive, docker, cancels>>

-----------------------------------------------------------------------------
(* Cancellation *)

\* The task that waits for no other one is where the cancellation arrives.
Innermost(c) == IF At(c, "nested") /\ ~ Ended(Child(c)) THEN Child(c) ELSE c

\* A job that no thread has taken yet is withdrawn.
Withdrawn(c) ==
  IF docker[c].thread \in {"to_prepare", "to_wait"}
  THEN [docker EXCEPT ![c].thread = "none"] ELSE docker

\* A server is closed first, unless it is being closed already.
Cancelled(d, m) ==
  IF At(d, "asking")
  THEN /\ call' = [m EXCEPT ![d].pc = "closing", ![d].pending = "cancelled",
                             ![d].hit = "asking"]
       /\ UNCHANGED <<lock, held, docker>>
  ELSE /\ call' = [m EXCEPT ![d].pc = "done", ![d].hit = call[d].pc,
             ![d].outcome = IF Ended(d) THEN @
                            ELSE IF m[d].timer = "fired" THEN "raised" ELSE "cancelled"]
       /\ lock' = LockWithout(d)
       /\ held' = [held EXCEPT ![d] = {}]
       /\ docker' = Withdrawn(d)

Working(c) == call[c].pc \notin {"idle", "done"}
Nest(c) == {c} \union (IF At(c, "nested") THEN {Child(c)} ELSE {})

\* The wrappers that a cancellation of c passes: up to Python 3.11 wait_for
\* stops its timer, later on a timer may still add a cancellation of its own.
Passed(c) ==
  [d \in Calls |->
     IF d \notin Nest(c) THEN call[d]
     ELSE [call[d] EXCEPT !.timer =
             CASE @ = "running" -> "passed"
               [] @ = "fired" /\ setup.python # "3.11" -> "off"
               [] OTHER -> @]]

\* A cancellation on its way into c.  A wait_for up to Python 3.11 that waits
\* for what it has cancelled before leaves that behind.
Deliver(c, m) ==
  LET unwinding == {d \in Nest(c) : Working(d) /\ call[d].timer \in {"fired", "passed"}} IN
  IF unwinding # {} /\ setup.python = "3.11"
  THEN LET d == IF c \in unwinding THEN c ELSE Child(c)
       IN /\ call' = [m EXCEPT ![d].outcome = IF Ended(d) THEN @ ELSE "cancelled"]
          /\ UNCHANGED <<lock, held, docker>>
  ELSE Cancelled(Innermost(c), m)

\* The timer of the wrapper cancels what it wraps.
TimerFires(c) ==
  /\ Working(c) /\ ~ Ended(c)
  /\ \/ call[c].timer = "running"
     \/ call[c].timer = "passed" /\ setup.python # "3.11"
  /\ Deliver(c, [Passed(c) EXCEPT
       ![c].timer = IF call[c].timer = "running" THEN "fired" ELSE "off"])
  /\ UNCHANGED <<setup, values, alive, cancels, evicted>>

\* A call is cancelled from outside: a fork is decided, a try times out, the
\* run is stopped.
Cancel(c) ==
  /\ cancels < MaxCancels /\ c \in Roots /\ Working(c) /\ ~ Ended(c)
  /\ cancels' = cancels + 1
  /\ Deliver(c, Passed(c))
  /\ UNCHANGED <<setup, values, alive, evicted>>

-----------------------------------------------------------------------------

\* What the code does by itself, in time.
CodeStep(c) ==
  \/ Begin(c) \/ BeforeTasks(c) \/ AfterTasks(c)
  \/ Hit(c) \/ Compute(c) \/ FunctionEnds(c) \/ NestedEnds(c)
  \/ Spawn(c) \/ SpawnRaises(c)
  \/ Communicated(c) \/ RunTimesOut(c) \/ Reap(c)
  \/ ServerGone(c) \/ Terminated(c) \/ Terminate(c) \/ GivesUp(c)
  \/ Submit(c) \/ ThreadStarts(c) \/ Prepared(c) \/ PrepareRaises(c)
  \/ ContainerRuns(c) \/ ContainerRaises(c)
  \/ Connect(c) \/ GrpcEnds(c)
  \/ TimerFires(c)

\* What a server does: an answer may trickle in, of which httpx bounds each
\* read, not their number.
ServerStep(c) ==
  \/ ServerAnswers(c)
  \/ ReadDocument(c) \/ Compile(c) \/ ReadRaises(c)
  \/ Answers(c) \/ RequestRaises(c)

Next ==
  \/ \E c \in Calls :
       CodeStep(c) \/ ServerStep(c) \/ Forks(c) \/ ContainerEnds(c) \/ RemoveRaises(c) \/ Cancel(c)
  \/ \E p \in alive : Exits(p)

Spec == Init /\ [][Next]_vars

\* Coroutines and threads go on, timers fire, Python functions end; what
\* programs, servers, containers and callers do is up to them.
FairSpec == Spec /\ \A c \in Calls : WF_vars(CodeStep(c))

-----------------------------------------------------------------------------
(* Properties *)

Entries == [key : {Key(c) : c \in Calls} \ {NoKey}, by : Calls]

Places ==
  {"idle", "before", "queued", "computing", "nested", "spawning", "communicating",
   "reaping", "asking", "closing", "killing", "preparing", "containing",
   "reading", "connecting", "requesting", "calling", "after", "done"}

\* The types of the variables; the cache and the threads keep their bounds.
TypeOK ==
  /\ call \in [Calls ->
       [pc : Places, round : 1 .. 2, result : Calls \union {Nobody},
        pending : {"ok", "raised", "cancelled"},
        timer : {"off", "running", "fired", "passed"},
        hit : Places \union {"none"}, outcome : {"none", "returned", "raised", "cancelled"}]]
  /\ ToSet(lock) \subseteq Calls /\ IsInjective(lock)
  /\ ToSet(values) \subseteq Entries /\ Len(values) <= MaxEntries
  /\ alive \subseteq Calls \X (1 .. 2) \X {"child", "grandchild"}
  /\ docker \in [Calls ->
       [container : {"none", "created", "running", "left"}, client : BOOLEAN,
        thread : {"none", "to_prepare", "preparing", "to_wait", "waiting"}]]
  /\ Cardinality(Busy) <= Threads
  /\ held \in [Calls -> SUBSET Resources]

\* A process that outlives its call: no kill reaches grandchildren; a
\* cancellation kills nothing, and the timeout of a task is one; a timeout
\* by name raises too late; a second cancellation stops the closing of a
\* server.
Survives(c, role) ==
  CASE Task(c).kind = "process" ->
         \/ call[c].hit = "communicating" \/ Task(c).timeout = "named"
         \/ role = "grandchild" /\ call[c].outcome # "returned"
    [] OTHER -> role = "grandchild" \/ call[c].hit = "closing"

\* Whatever ends a call, in whatever state, it leaves nothing behind but the
\* processes above, a container that its thread will remove, and, if it did
\* not return, an open docker client or a container that could not be
\* started or removed.
EndedCallsLeaveNothing ==
  \A c \in Calls : At(c, "done") =>
    /\ held[c] = {}
    /\ \A p \in alive : p[1] = c => Survives(c, p[3])
    /\ docker[c].container = "running" => docker[c].thread = "waiting"
    /\ call[c].outcome = "returned" => docker[c] = NoDocker

\* However calls queue, fail and are cancelled, those with the same key get
\* the result of one computation, while the cache has not dropped it.
SameKeySameResult ==
  \A c, d \in Calls :
    Memoized(c) /\ Key(c) = Key(d) /\ Nobody \notin {call[c].result, call[d].result}
      => call[c].result = call[d].result \/ Key(c) \in evicted

\* What no timer of the code bounds: a server's answer, a pipe that a process
\* left open, a container, and a memoized call under another one.
Waits(c) ==
  \/ call[c].pc \in {"asking", "reading", "requesting"}
  \/ At(c, "reaping") /\ ~ Reaped(c)
  \/ /\ call[c].pc \in {"preparing", "containing"}
     /\ \E d \in Calls : docker[d].container = "running"
  \/ At(c, "queued") /\ \E p \in Calls : Child(p) = c /\ HoldsLock(p)

\* What c waits for, itself or through the lock.
Needs(c) ==
  LET own == Nest(c)
  IN own \union UNION {Nest(d) : d \in {e \in Calls : HoldsLock(e) /\ \E f \in own : At(f, "queued")}}

\* Every call comes to an end, or it waits for ever for one of those.
CallsReturn ==
  \A c \in Calls :
    Working(c) ~> (Ended(c) \/ [](\E d \in Needs(c) : Waits(d)))
=============================================================================
