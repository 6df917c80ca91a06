# Verification of openworkflow-adk

TLA+ models, TLC runs and TLAPS proofs for the Python package `src/src/openworkflow_adk`: a runtime
that translates OpenWorkflow (Serverless Workflow DSL 1.0.3) documents to Google ADK workflows,
records their runs in a history store, and executes queued runs with polling or broker-driven workers.
Source paths below are relative to that package, with the line numbers of the commit under `src/`.

## 1. Inventory

| Part | Source | State it keeps | Operations | Hard behaviour | What makes it correct |
| --- | --- | --- | --- | --- | --- |
| PostgreSQL run queue | `ops/postgres_history.py` | `workflow_runs` rows: status, worker_id, available_at, state, event_log, checkpoint | start, finish, checkpoint, suspend, record_event, enqueue_run, claim_run, extend_lease, release_run | statements of several processes interleave; leases; crashes | one execution per run at a time; finished runs stay finished; nothing is lost |
| Polling worker | `ops/polling_worker.py` | worker id, tasks, heartbeats | run_once, _heartbeat_loop, run_forever, stop | heartbeats race expiry; cancellation; errors between two writes | works under a lease; delivers each result once |
| Schema migrations | `ops/postgres_history.py:748` | `openworkflow_migrations` | _migrate | concurrent starters, crash between apply and record | a recorded version has been applied, with all before it |
| Step attempts, queries | `ops/postgres_history.py:281`, `:388`, `:598` | `step_attempts` rows | record_step_attempt, list_runs, stats_summary, failure_summary | select then insert; resumed runs do not start; pages and metrics are several statements | attempts tell what their run tells; readers miss nothing |
| In-process history | `ops/history.py` | records / one SQLite table | start, finish, checkpoint, suspend, record_event | read-modify-write, in threads that outlive their call | no event or status is lost |
| run_workflow | `runtime.py:83` | in-memory state and event list of a run | run, suspend, resume, fail | suspension, resume by several operators, errors in handlers | resumes at the checkpoint with its state; one outcome per run |
| Resume slicing, translator | `runtime.py:403`, `translator.py` | task list, graph edges, wrappers of a node | `_resume_task_list`, `_build_edges`, `build` | `then`, `switch`, nested bodies | a resumed run executes what the original had left |
| Broker worker, backpressure | `ops/worker.py`, `ops/backpressure.py`, `resources/broker.py` | queue, permits, paused endpoints | publish, consume, run_once, acquire, release, update_depth | two semaphores, pause/resume, failure after consume | bounded concurrency, permits conserved, no job twice |
| Event tasks | `tasks/simple.py`, `tasks/events.py` | consumed events, correlation values | listen, emit, asyncapi, suspend on listen | several tasks share a broker that keeps nothing | a listen returns what its filters ask for and drops nothing it needs |
| Task semantics | `tasks/simple.py`, `tasks/control_flow.py`, `tasks/base_semantics.py` | branch tasks, retry counters, loop variables | fork, compete, for, try/catch/retry, timeout | cancellation of losers and of timed-out bodies in any phase, retries racing deadlines | losers stop before the fork ends; retries are bounded |
| Run and call tasks | `tasks/run.py`, `tasks/call.py`, `tasks/events.py` | processes, containers, clients, channels | run, call: function, http, openapi, a2a, grpc, mcp | timers and cancellation at every await; threads and processes outlive coroutines | whatever ends a call, it leaves nothing behind; calls return |
| Memoization | `ops/memoization.py` | cache, lock | get_or_compute | lock held across the computation | a key is computed once; the cache is bounded |
| Health, schedule | `ops/health.py`, `ops/schedule.py` | counters; next fire time | execute, shutdown; run_scheduled | admission races drain; sleeps that last too long | drained means that nothing runs; no minute fires twice |
| Management, server | `ops/management.py`, `server.py` | run ids and their defaults | run, stream_run, POST /run, /run/stream | default ids are shared; readers that go away | a stream follows its run |
| Registry, catalog | `registry.py`, `resources/catalog.py` | versions, cache by digest | register, resolve, load | none | resolution is deterministic |
| Memory services | `resources/memory.py` | entries, in external stores | add_memory, search_memory | none of its own | isolation by key |
| Loader, models, state schema, expressions, security, interop, CLI, developer tools | the rest | little | conversions, validation, reports | none concurrent | pure functions |

Interaction: clients call `enqueue_run`; polling workers share nothing but the table; `run_workflow` calls
the history store between two events of the ADK runner; the worker's heartbeat task and its execution run
concurrently in one event loop and meet only in the row; `on_result` hands a result to the host program.
The server, the manager, the host and both workers are callers of `run_workflow`; the branches of a fork
and all runs of a process share its broker, its memoization cache and its pool of threads.

## 2. Modules

| Module | Models | Kind |
| --- | --- | --- |
| `JobQueue` | what a run queue promises its clients | abstract specification |
| `PollingQueue` | the PostgreSQL run queue and its workers | component; implements `JobQueue` |
| `PollingQueue_proofs` | `PollingQueue` for every value of its constants, and that it implements `JobQueue` | theorems |
| `MCPollingQueue` | slots, runs and symmetry for TLC | instances |
| `ResumableRun` | one run of one document: graph, checkpoints, suspension, resumption | component |
| `ResumableRun_proofs` | `ResumableRun` for every set of documents | theorems |
| `MCResumableRun` | the documents that TLC runs | instances |
| `BrokerWorker` | broker, worker loops and backpressure of one process | component |
| `BrokerWorker_proofs` | `BrokerWorker` for every value of its constants | theorems |
| `MCBrokerWorker` | loops, jobs and endpoints for TLC | instances |
| `TaskTree` | the nodes inside one top-level task: lists, try, for, timeouts, the competing fork | component |
| `TaskTree_proofs` | `TaskTree` for every tree and every policy | theorems |
| `MCTaskTree` | the tree that TLC runs | instance |
| `EventTasks` | tasks and schedules that read one broker: listen, asyncapi, triggers | component |
| `EventTasks_proofs` | `EventTasks` for every configuration of its tasks | theorems |
| `MCEventTasks` | pairs of tasks for TLC | instances |
| `RunService` | server, manager and host over one run history | component |
| `RunService_proofs` | `RunService` for every finite set of calls | theorems |
| `MCRunService` | pairs of calls for TLC | instances |
| `PostgresStore` | migrations, step attempts and readers of the PostgreSQL history | component |
| `PostgresStore_proofs` | `PostgresStore` for every value of its constants | theorems |
| `MCPostgresStore` | databases and their users for TLC | instances |
| `ExternalTasks` | run and call tasks in their wrappers, memoization, what they leave outside | component |
| `ExternalTasks_proofs` | `ExternalTasks` for every set of calls and every setup | theorems |
| `MCExternalTasks` | groups of calls for TLC | instances |

A definition called `X_Something` is `X` with a plausible bug. No specification uses it; it documents
which mistake a property would catch, and the property has been seen to fail with it in place of `X`.

### 2.1 PollingQueue

A step is one SQL statement, or what a coroutine does between two awaits.

| Model | Code |
| --- | --- |
| `row[r]` | one row of `workflow_runs`; `available` is `available_at` relative to `NOW()` |
| `exec[e]` | one slot of a worker: the local variables of `_execute_claimed` and `run_workflow`, and whether `_heartbeat_loop` still runs |
| `Enqueue` | `enqueue_run`, the insert and its ON CONFLICT branch |
| `Claim` | `claim_run`: the candidate query with its order, SKIP LOCKED, and the update |
| `Resolve`, `ResolveFails` | `_execute_claimed` up to its `try`; an exception there reaches nobody who releases the row |
| `Start` .. `FinishFailed` | the calls of `run_workflow` to the history, one action each |
| `ReleaseCompleted`, `ReleaseFailed`, `ReleaseLost`, `Deliver` | the end of `_execute_claimed` |
| `Heartbeat`, `LeaseExpires` | `extend_lease` by `_heartbeat_loop`; the passing of time |
| `Crash`, `Cancel` | a process dies; `run_forever` cancels its tasks |

Two constants describe the environment. `Timely`: a live heartbeat loop renews its lease before it lapses
(the loop beats every third of a lease). `ReenqueueIn`: the statuses in which clients enqueue a known run
id again. `Disciplined` says that heartbeats are timely and that clients leave running and suspended runs
alone; the code enforces neither, and the properties under it are named so.

`Claim` takes any row that could be first among those not locked by a statement in flight; equal ranks
are left open. `state` is reduced to where its content comes from, `event_log` to its length, which is
enough to tell the events of one execution from those of another.

### 2.2 ResumableRun

| Model | Code |
| --- | --- |
| `document`, `proc.items` | the task list that the caller passes, and the one in execution after slicing |
| `Successors`, `Reachable`, `Builds` | the edges that `build_workflow` makes, and the errors of an unknown target and of a jump to a branch of a fork |
| `UnitOrders` | the order in which the nodes of one task complete |
| `Slice`, `Remainder`, `Sliceable` | `_resume_task_list` with its errors |
| `record` | the `RunRecord`: status, checkpoint, state, timer, reason of the suspension |
| `Start`, `Resume` | `run_workflow` with resume=False / True, up to the runner |
| `RunUnit`, `Checkpoint`, `Advance` | one event of the runner: merged and recorded; checkpointed; the next node |
| `Suspend`, `Fail`, `Finish`, `Crash` | how a call ends |
| `trail`, `kept`, `ahead` | history variables: units whose effects count, how many of them are checkpointed, and whether a failure saved a state later than its checkpoint |

A resumption forgets the part of `trail` after the last checkpoint: these units run again on the older
state, so their first execution left nothing in it. That effects outside the state happen twice is inherent
to checkpoints and is not held against the code.

Of the ADK, a library, the model assumes what the code relies on: a node that completes emits one event
under its own name, fork and join nodes emit none, a graph with no nodes ends at once, and the in-memory
session service starts empty in every call. Operators resume only runs that are not complete; the code
does not check it. Bodies are one level deep and hold plain tasks. `DocumentsAssumption` says what the schema
guarantees, which kinds of tasks have a body or a handler, and that the names of the list, and those of the branches
of its forks, are distinct: `build_workflow` keeps one node and one index for a name (`translator.py:367`, `:386`), so
that a list which uses one twice does not run in list order. Names inside other bodies are free.

Three details of the translator that the edges follow: a fork with branches goes on with the next item after its join
even if its `then` is `end` or `exit` (`translator.py:401-411`); a switch case with an unknown target gets no edge, and
a switch for whose case there is none ends the run (`:414-427`); any other unknown target is an error. And one of
the slicing: the tasks of `catch.do` are raw mappings, so that looking into a handler raises AttributeError
(`runtime.py:421`). A checkpoint in a handler, or behind a try that has one, is therefore not `Sliceable`.

### 2.3 BrokerWorker

| Model | Code |
| --- | --- |
| `topic`, `position` | the events published; for each broker object how far it has read |
| `kind` | "queue": one shared position (`InMemoryBroker`, `RabbitMQBroker`); "stream": each broker object reads all (`RedisStreamsBroker`) |
| `Ask`, `Receives` | XREAD and its answer, between which another loop of the worker may move `_last_id` |
| `Take` | `run_once` from `consume` to the pause check: an event of another type is dropped, a rejected job is gone |
| `PassGate`, `TakePermit`, `TakeSlot` | `acquire`, then `async with self.semaphore` |
| `Hear`, `EndRun` | the workflow listens; `run_workflow` returns or raises |
| `NextRound`, `Stop`, `Cancel` | `run_forever` |
| `UpdateDepth`, `Notify` | `update_depth` and the task that it creates |
| `started`, `leaked` | history variables: executions of each job; permits that nobody gives back |

`_depth` is written and never read, so the model does not keep it. Rejection (another region, unknown
workflow) is left to chance, since the registry may change at any time. A workflow waits for an event only
if the worker has no history; otherwise the run is suspended and the slot is free.

### 2.4 TaskTree

| Model | Code |
| --- | --- |
| `Children`, `Kind` | the nodes that the builders of `tasks/control_flow.py`, `tasks/base_semantics.py` and `_compete_builder` make for one task |
| `node[n]` | the coroutine of a node: where it waits, the child it waits for, and its local variables (`retry_attempt`, `heal_attempt`, the items left) |
| `Runs` | `await ctx.run_node(child)`: the child starts, or starts anew |
| `LeafEnds` | a task without inner nodes returns or raises one of its errors |
| `RunNested`, `Propagate` | `run_nested`; an exception passes through |
| `ForBegins`, `ForItem`, `ForGoesOn` | `run_for` |
| `BaseBegins`, `TimeoutFires`, `TimedOut`, `BaseReturns` | `run_with_base`: `if`, `wait_for`, `output.as` and `export.as` |
| `TryBegins` .. `Catch` | the loop of `run_try`; `RetryLimited` and `NotRetried` are `_retry_allowed` |
| `expired`, `DeadlinePasses` | `retry_deadline`, which is computed when the document is translated |
| `Race`, `Settle`, `Gathered` | `compete`: create the tasks; the first ones end, the others are cancelled; they have ended |
| `BecomesAndCancels`, `CancelRun`, `Unwind` | asyncio: `wait_for` and `cancel` throw CancelledError into what is awaited below, `asyncio.wait` throws it into nothing |
| `attempts` | a history variable: executions of a try's body |

A child that has ended keeps its record until it is started again: this is the result or the error that the
awaiting parent will see. Only the root of a tree competes, since `build_workflow` makes coordinators for the
items of the document only; a fork inside a body is built as a node that does nothing, a leaf. Which errors
pass a filter is a constant (`Catches`). A suspension is one of the errors: `run_try` catches it like any other.

### 2.5 EventTasks

| Model | Code |
| --- | --- |
| `log`, `next` | the broker: a FIFO queue of events, of which each is handed to one consumer |
| `config[t]` | the task of the document: its strategy, filters with their correlation rules, `until`, `foreach` |
| `task[t]` | the coroutine: what it has consumed, the correlation values, what `until` has seen |
| `Fails`, `Matches`, `Bound` | `_matches_filter` (`tasks/simple.py`): the rules in order, each with a `from` of its own, to which it binds its name, if that is free, before it is checked |
| `Tried`, `FirstMatch` | the loop of `_matches_any`: filter after filter, on the values that the ones before have bound |
| `AfterEvent`, `SawUntil` | one round of the loop of `listen`, and `_matches_until` |
| `Publish` | `emit`, or the message of an asyncapi task |
| `Subscribe`, `Receive`, `ConsumeTimesOut` | the subscription of an asyncapi task |
| `BeginSchedule`, `Trigger`, `WakeUp`, `EndRun` | `run_scheduled` over the generator `trigger_events` |
| `Tick` | the clock, in ticks of which `Minute` make a minute |

Two filters may bind one name from different attributes: a filter that refuses an event has bound it to one, and the
next compares it with the other. `SetupsAssumption` says which configurations the translator builds.
An event that a task has taken is gone, whether it matches or not. The type stands for all attributes that a
filter names, `key` and `tag` for those that rules look at, and an `until` expression for a count.

### 2.6 RunService

| Model | Code |
| --- | --- |
| `setup` | the calls, their run ids and the kind of history behind them |
| `history[i]` | the record of a run id: a dictionary entry, a SQLite row or a PostgreSQL row |
| `call[c]` | `run_workflow` in a call of the server, the manager or the host |
| `thread[c]` | the method of the history that the call awaits; `_call_history_method` runs it in a thread, which a cancelled call leaves behind |
| `Read`, `Write`, `LogWith` | the stores: which ones read, modify and write the log, and which append to it |
| `Yield`, `StreamEnds`, `Close` | the reader of `stream_run` and of `/run/stream` |
| `Refuse`, `Begin`, `Shutdown`, `Drained`, `TimesOut` | `WorkflowHealth.run` and `shutdown` |
| `shared` | a history variable: run ids whose record another call, or the thread of a cancelled one, may still write; it begins with a call that finds the id in use and ends with a `start` that finds it free |

`Unauthorized` is the check of credentials before a run. A call that is cancelled, or whose session or final
write fails, leaves its record `running` (`left_running`): `HistoryIsFaithful` names these cases.

### 2.7 PostgresStore

| Model | Code |
| --- | --- |
| `applied`, `recorded` | the migrations in the schema, and the rows of their table |
| `proc[p]` | a process inside `_migrate`, `start`, `checkpoint`, `suspend`, `finish` or `record_step_attempt` |
| `ApplyMigration`, `RecordVersion`, `MigrationCollides` | the loop of `_migrate`, each migration a transaction, its record another |
| `Start`, `Get`, `Update`, `Select`, `Put` | the statements of the methods, one action each |
| `Resume` | an execution that does not call `start` (`runtime.py:152`): its row keeps the status that it has |
| `row`, `created`, `attempts` | `workflow_runs`; `created_at`, which two rows may share; `step_attempts` |
| `Listed`, `Orders` | the WHERE clause of `list_runs` with its filters by status and workflow, and the orders that `ORDER BY created_at DESC` leaves open |
| `BeginList`, `NextPage` | `list_runs` with a growing offset |
| `ScrapeCounts`, `ScrapeDurations`, `ScrapeFailures` | `_prometheus_metrics`: `stats_summary` (two statements) and `failure_summary(limit=1000)`, whose limit is `FailureLimit` |
| `Die`, `StatementRaises` | a process dies; a statement raises, and `run_workflow` answers with `finish` where it does |
| `overlapped`, `torn`, `resumed`, `told` | history variables: runs that two processes executed at once; those cut off between the row and the attempt; those that were resumed since they started; the status that the last `checkpoint` or `finish` wrote |

ADR 0009 (`docs/decisions/0009-postgres-backend.md:68-70`) has `step_attempts` store every attempt of every step; the
code updates the latest row of a step in place (`ops/postgres_history.py:294`), so `attempts` has one row per step of a
run that one process executes at a time. And a resumed run keeps the status of its last suspension or failure
until it suspends again or ends: its checkpoints write attempts that are `running` under a row that says `failed`, `suspended` or
`completed`. `AttemptsFollowRuns` says so, and that nothing else lets the two differ.

### 2.8 ExternalTasks

| Model | Code |
| --- | --- |
| `setup` | the tasks, what the server's environment grants, the Python version |
| `call[c]` | the coroutine of a task in the wrappers of `NodeBuilderRegistry.build`: extension, timeout, memoization |
| `lock`, `values` | `asyncio.Lock` and the dictionary of `ResultMemoization` |
| `alive` | processes outside: the child of a call, and what that child has started |
| `docker` | the container of a call, the job of the thread pool that runs it, and its client, while that is open |
| `held` | clients, channels, directories and entries of `sys.path` that a call has set up |
| `Spawn` .. `Reap` | `run_process`: `communicate` under its own timer, the kill, which reaches the child only, `proc.wait` |
| `ServerAnswers` .. `GivesUp` | `_mcp_stdio_call` and `_terminate_mcp_process` |
| `Submit` .. `RemoveRaises` | `run_container` and its two jobs in threads |
| `ReadDocument` .. `GrpcEnds` | HTTP, OpenAPI, A2A and MCP over HTTP; gRPC |
| `TimerFires`, `Cancel`, `Deliver`, `Passed` | `asyncio.wait_for` around a node and cancellation from outside, on their way to the innermost await |
| `Forks`, `Exits` | what the programs outside do |

`asyncio.wait_for` was rewritten in Python 3.12: before, a second cancellation makes it abandon the task that
it has just cancelled; after, a timer may add its own to a cancellation on its way. Both are modelled. A
child call (a function of the document, a nested workflow) is another member of `Calls`. `NodeOf` is where the node of
a task starts, and `EntryOf` where its memoized form does; `SetupsAssumption` says that only functions have children,
and only functions and processes are memoized.

What the model found the code to do, and the properties name as exceptions:

* A run task's `timeout` limits both the wrapper and `communicate`; the wrapper's timer starts first and wins,
  so the process is cancelled, not killed (`tasks/run.py:324`). Only the default timeout kills anything.
* What it kills is the child alone. `preexec_fn=_sandbox_preexec(...)` (`tasks/run.py:314`) is a call: it runs in the
  server, and None is passed on. So the child never starts a session, `killpg` finds no group of its number, and
  `_kill_process_tree` falls back on `proc.kill` (`tasks/common.py:54-59`): what the child has started lives on. The
  session, the resource limits and `no-new-privileges` that `docs/reference/security.md:69-78` promises for child
  processes become those of the server, and so of all that it starts later; this is not modelled.
* A timeout by name is no duration: `run_process` raises after the process has been spawned (`tasks/run.py:321`).
* Up to Python 3.11 `proc.wait` waits for pipes that grandchildren hold open (`tasks/run.py:327`).
* A stdio MCP server that does not answer is waited for without a timer (`tasks/events.py:205`); the one that
  `docs/reference/security.md` and `configuration.md:148` speak of bounds the exit of the server.
* A container outlives a cancelled call until its thread removes it; one that was created but could not be
  started, or not be removed, is left behind.
* The docker client that the first job opens (`tasks/run.py:64`) is closed only at the end of the second (`:151`): it
  stays open when a pull or a check fails, when `containers.run` or `remove` raises, and when the call is cancelled
  between the two.
* A memoized call that memoizes again waits for the lock that it holds (`ops/memoization.py:28`).
* The gRPC compiler blocks the event loop (`tasks/call.py:145`): it is one step here.

## 3. Runs

| Run | Instance | What it shows |
| --- | --- | --- |
| `queue` | a registered and an unregistered run, 2 slots of one worker and 1 of another, 2 enqueues per run, 1 event, 1 fault | exclusive execution under a lease, the log belongs to its execution, finished runs stay finished, the refinement of `JobQueue`, every registered run settles |
| `stalled` | 1 run, 2 workers, leases lapse at any time, any re-enqueue | what survives without `Disciplined`: only the owner releases |
| `suspend` | 1 run, 1 worker | finding 1 |
| `resume` | 16 documents, checkpoints after every event, every second and never, 2 faults | order, state and completeness of resumed runs; they complete |
| `resume_order` | a document with `then`, one with `listen` | finding 2 |
| `worker` | 1 worker with 2 loops, a plain job, a listening job and a signal in every order, a queue and a stream, 2 depth reports, 1 stopped loop | permits and slots are conserved, jobs run once, no wake-up is lost, jobs that a loop has taken start |
| `tree` | a race between a loop and a try with 2 attempts, a healer and a catch, under a timeout, whose body has a timeout of its own; the run may be cancelled at any time | what runs is awaited, budgets hold, nothing starts below what is cancelled, tasks with a timeout end |
| `tree_race` | the same | finding 3 |
| `events` | 8 listens, each next to a trigger, with rules that bind one name from two attributes; a subscription next to 5 schedules; 2 listens; up to 3 of 4 events, 6 ticks | listens get what they ask for, no event goes to two tasks, schedules fire once, a lone listen drops nothing that it needs |
| `service` | 2 calls of 4 kinds under one or two run ids, 3 kinds of history, 2 events, 1 failing write, 2 callers of shutdown | records are faithful to the calls that have them to themselves, streams follow them, a drained host is quiet |
| `store` | 2 processes, 4 migrations from 0 or 2, up to 3 executions, new or resumed, and 2 faults; pages of one row, of all runs, of a status and of a workflow; metrics with a limit of 1 | migrations come before use, attempts follow runs, readers miss nothing |
| `external` | 11 groups of up to 3 calls, both families of Python, 1 cache entry, 1 thread, 2 cancellations | ended calls leave nothing, one computation per key, calls return |

Bounds. A second execution needs one fault. Two slots of one worker and a slot of another cover the two ways
in which executions compete, since `worker_id` tells only workers apart. For documents, every
kind of task occurs first, last or around another one, and three checkpoint intervals put the
checkpoint on, before and far from the point of failure; `MaxTrail` only cuts off the document that loops.
A pause and a resumption are two reports; a depth between the watermarks must not wake anybody. With one
permit and one slot, both semaphores are exhausted by the first job. The tree of `tree` has each kind of node
above and below a cancellation: timeouts nest, the outer one fires in every phase of the try, and the race is
lost by either branch; two attempts and one heal make the two budgets interact, and two items make a loop
begin again. For `events`, three events suffice for every filter list to be satisfied, refused once (with a name bound by the refused event), or
robbed of one event by the neighbour; two ticks make a minute, so that a sleep may end in the middle of one.
Two calls are what a shared record needs, and two events let one get lost between the others; a third call
can come between the two, and what `service` shows for two, the theorems say of any number. Four migrations are those of the code, and a process may die after
each step of each. A page of one row makes every insertion shift an offset, and a filter by status lets a run leave the list between
two pages; a limit of one failure is exceeded by two failed runs. In `external`, three calls let a
holder, a waiter with its key and one with another meet at the lock; one cache entry makes every second key
evict; one thread makes every second container wait; two cancellations are what `wait_for`, the
closing of a server and the queue of the lock treat differently from one. All runs set CHECK_DEADLOCK FALSE:
with bounded clients and faults each of these systems may come to rest.

Fairness. `PollingQueue`: asyncio goes on with live tasks and event streams end (`Advance`), time passes
(`LeaseExpires`), and since candidates are ordered by `available_at`, a claimable run is not passed over
for ever (strong fairness of `ClaimSome`). Nothing is assumed of crashes, losses or clients.
`ResumableRun`: a call in progress goes on, and an operator resumes what can be resumed.
`BrokerWorker`: ready tasks run; `asyncio.Semaphore` serves its waiters in order, which is the strong
fairness of `TakePermit` and `TakeSlot`; workflows that do not wait for an event end. Clients need not
publish. `TaskTree`: the event loop runs nodes that can go on and fires timers; leaves may wait for ever, so
`TimedTasksEnd` owes nothing to them. `EventTasks`: a task whose wait is over runs; nobody has to publish,
resume or time out. `ExternalTasks`: coroutines, threads and timers go on (`CodeStep`); servers, programs,
containers and callers owe nothing, so `CallsReturn` says for what a call may wait for ever. `RunService` and
`PostgresStore` have safety properties only.

## 4. Findings

1. `suspend`: `_execute_claimed` (`ops/polling_worker.py:87`) releases a run that suspended as completed, so
   it cannot be told from a finished one. `ImplementsQueue` and the theorems count a suspended run as
   settled, because for the queue its execution is over.
2. `resume_order`: a resumed run executes what it should not. `_resume_task_list` (`runtime.py:413`) goes on
   with the next item of the list although the checkpointed task's `then` leads elsewhere; and a run suspended
   for a listen is resumed with the whole document (`runtime.py:116`), which executes the checkpointed tasks
   before the listen again. Either document alone violates the property.
3. `tree_race`: `compete` (`tasks/simple.py:385`) returns the result of the first branch that ended, also when
   that is an exception. ADR 0003 (`docs/decisions/0003-fork-compete.md:5-7`) promises the first successful
   result, and a failure only if every branch fails.

The properties of `resume` are therefore stated for `Sequential` documents: plain tasks, waits and `do`
bodies in list order (`CompletedIsComplete` leaves out the empty one). The documents with other constructs take part in the same run, where `TypeOK` covers them.
`StateIsTrail` excludes runs with a failure recorded between two checkpoints, where `finish` saves a later
state than the checkpoint it leaves (`ops/history.py:57`); the hazard list has the line.

## 5. Proofs

`PollingQueue_proofs` proves, for any sets of runs, workers and slots, any bounds and any clients:

| Theorem | States | Assumes |
| --- | --- | --- |
| `TypeCorrect` | `TypeOK` | |
| `InductiveInvariant` | `IInv` | `Disciplined` |
| `Exclusive` | `ExclusiveExecution` | `Disciplined` |
| `UnderLease` | `WorkingUnderLease` | `Disciplined` |
| `Delivery` | `DeliveredIsCompleted`, `DeliveredOnce` | `Disciplined` |
| `LogAndCheckpoint` | `LogBelongsToExecution`, `CheckpointWithinLog` | `Disciplined` |
| `Finality` | `NeverReopened` | `Disciplined` |

The only other assumption is `ConstantsAssumption`. None of the safety properties is inductive by itself.
Exclusive execution rests on the lease: a second claim needs a row that is pending, or whose lease has
lapsed. So `IInv` says for each phase of an execution (`ActiveInv`) what its row looks like: while the run is
unsettled the row is running, owned by the slot's worker, leased, and the slot still renews the lease.
The converse direction follows: a claimable row has no execution (`ClaimableIsFree`), so a claim cannot make
two. `DeliveredInv` adds that a delivered run has finished and has no execution left, which is why nobody
delivers it again. The proof goes by kind of step: steps of one slot that change only this slot and its row
(`ExecStep`, on `GoOnStep` and `StopStep`), steps that change only a row (`EnqueueStep`, `LeaseStep`),
the claim, and the loss of all slots of a worker (`DropStep`).

The same module relates the queue to `JobQueue`:

| Theorem | States | Assumes |
| --- | --- | --- |
| `Refinement` | `ImplementsQueue` | `Disciplined` |
| `OwnerOnly` | `OnlyOwnerReleases` | |

The mapping tells the stage of a run from its status and from the slots that work on it. `Stages` and
`StagesNext` compute it before and after a step; then each action is shown to be the step of `JobQueue` that
its name suggests, or none: a claim is an acquisition because `ClaimableIsFree`, the end of an execution a
settlement because `Exclusive` leaves the run no other slot, and a lost slot gives the run back. `OwnerOnly`
needs types alone: `release_run` names its worker in the WHERE clause (`ops/postgres_history.py:587`).

`BrokerWorker_proofs` proves, for any workers, loops, jobs, endpoints and limits, from its
`ConstantsAssumption` alone:

| Theorem | States | Inductive invariant |
| --- | --- | --- |
| `TypeCorrect` | `TypeOK` | `IInv` |
| `Conservation` | `SemaphoresConserved` | `IInv` |
| `Wakeups` | `NoLostWakeup` | `IInv` |
| `Executions` | `RunsAtMostOnce` | `IInv` and `OnceInv` |

That a semaphore stays within its limit is no consequence of the types: a release could exceed it. It
follows from conservation, so types, conservation and wake-ups (`IInv`) are proved together. A step of a
loop moves it between the sets of holders, free and leaked units, and the lemmas on `Cardinality` compare
the size of a set before and after one element changed; every step is then shown to be balanced.
`Executions` holds for the brokers where no two reads start from one position (`Alone`): a queue, or a
stream whose worker has one loop. `OnceInv` says that each event is published once, that a job which a
loop holds or has started lies behind the position of its source, that one loop holds it, and that a job
which still waits has not been started. A read takes an event from in front of the position and moves
the position past it, so nobody reads the event again. Without `Alone` it fails, as the two loops of one
Redis worker may read one position twice.

`TaskTree_proofs` proves, for any tree, policies, filters and limits, from `TreeAssumption` (the nodes form a
tree, only its root competes) and `PolicyAssumption` (the types of the constants):

| Theorem | States |
| --- | --- |
| `InductiveInvariant` | `IInv` |
| `TypeCorrect` | `TypeOK` |
| `Structure` | `Structured` |
| `Quiet` | `EndedIsQuiet` |
| `Budgets` | `AttemptsWithinBudgets` |
| `NoStartUnderCancelled` | `NothingStartsUnderCancelled` |

`Structured` speaks of the whole chain from a live node to the root, and in this form it is inductive: a
step of one node disturbs only the link to its children, and `QuietKids` shows that a node which returns,
raises or starts a child has no live one. To that `IInv` adds `CancelReachesIn` (below a node that stops,
whatever lives is being cancelled), what a record may hold in each phase (`PhaseOK`, `BudgetOK`: before an
attempt the budget of attempts has room for it), and `HealsFailureIn` (a healer looks at a body that has
failed). Four lemmas carry it over the four kinds of step: a step of one node (`LocalInv`), one that cancels
(`CancelInv`), the start of a child (`StartInv`) and of all branches (`ForkInv`). `Quiet` follows from the
chain, `NoStartUnderCancelled` from `CancelReachesIn` and the fact that a node starts only in a step of its
parent (`NextStarts`).

`PostgresStore_proofs` proves, for any processes, runs, steps, versions and page sizes, from
`PostgresStoreAssumption` alone:

| Theorem | States |
| --- | --- |
| `Types` | `TypeOK` |
| `Migrations` | `MigratedBeforeUse` |
| `Attempts` | `AttemptsFollowRuns` |
| `Readers` | `ReadersMissNothing` |

The invariant has a part for each user of the tables. `MigrationInv`: what a process has seen recorded is
recorded still, and all versions below the one it applies are applied. `RowInv`
and `AttemptInv`: a run that only one process executes, new or resumed, has a row and attempts that this process left there,
up to the statement it is in, and its status is what `told` says unless it was resumed; `torn` and `overlapped` hold the runs for
which that is not so. `ReaderInv`: as long as no listed run has left the list, each run that a reader wants and has not met
has at least `offset` listed runs that are newer (`Ahead`), since a new run pushes the known ones back and nothing pulls
them forward; so whatever order the database returns (`Orders`), the run comes after the place that the reader has reached
(`AheadOfPlace`), for runs whose time of creation is their own. `ScrapeInv`: the later queries of the metrics see what the first
one saw, up to the limit of the last. The code takes the latest
row of a step (`ORDER BY id DESC`); that a nonempty finite set of numbers has a greatest element follows from the
well-foundedness of strict inclusion on finite sets (`GreatestExists`), without induction over data.

`RunService_proofs` proves, for any finite set of calls, any ids, bounds and callers of shutdown, from
`RunServiceAssumption` alone:

| Theorem | States |
| --- | --- |
| `Invariant` | `IInv` |
| `Typed` | `TypeOK` |
| `Faithful` | `HistoryIsFaithful` |
| `ReadersFollow` | `StreamsFollowHistory` |
| `Quiet` | `ShutdownIsQuiet` |

`CallInv` says which method the thread of a call may be in. `StartInv`: the owner of a record has begun, and a
record was started no more often than calls have begun. `LogInv`: in a log, the entries of a call are in order and
older than the event that it is writing; this survives two calls that overwrite each other's logs, because what a thread
writes back is a log that was once there. `OwnInv`: a record that is not shared has at most one call at work,
and if this call owns it, the log consists of exactly the events that it has told. `HostInv`: `active` is the number of runs
under way. The thread of a cancelled call is why `OwnInv` speaks of calls *or threads* at work: the record is shared until
a `start` finds neither.

`ResumableRun_proofs` proves, for any documents, checkpoint intervals and numbers of faults, from
`BoundsAssumption` and `DocumentsAssumption`:

| Theorem | States |
| --- | --- |
| `Invariant` | `IInv` |
| `Typed` | `TypeOK` |
| `InOrder` | `SequentialRunsInOrder` |
| `Complete` | `CompletedIsComplete` |
| `Merged` | `StateIsTrail` |

A sliced list is another document, so an invariant about positions in the list would not survive a resumption.
`Place` instead relates a call to the document that the caller passed: from its current item on, its list is the document
from some position `p` on, and what is left of its units are those of the task at `p` after the first `m`. `Before` ties this
place to the trail: its last unit is the one before. `RecordInv` says that the checkpoint is the last unit kept, and
`SlicedPlace`, that slicing at it leads to a place that comes right after it, whether the checkpoint is a task of the list or a
child of one (`CutTail`). `Follows` speaks of neighbours and slicing finds the first holder of a name, so bodies may share
names; that a name has a first occurrence is `LeastExists`, from well-foundedness as above.
`Merged` needs `StateInv` beside it: the record's state has merged the trail up to the checkpoint, which is what a resumed
call reads. `Merges` says this by position, with the number of merged units before it (`Rank`), so that a unit appended to
the trail leaves the places of the others (`RankAppend`, `MergesAppend`).

`EventTasks_proofs` proves, for any tasks, attributes, values, events and bounds, from `EventsAssumption` and
`SetupsAssumption`:

| Theorem | States |
| --- | --- |
| `Invariant` | `IInv` |
| `Types` | `TypeOK` |
| `Listens` | `ListensGetWhatTheyAsk` |
| `Schedules` | `SchedulesFireOnce` |

What a listen that has ended has heard depends on all that it did before. `Heard` says how each event fits: the filter in
its place for `all`, any filter otherwise; and that the names a filter correlates by are bound to the values of its event,
from which two correlated events agree. The values pass from filter to filter (`Sound`), each rule with the attribute
that it looks at. `Counts` bounds what a listen that goes on can have heard, so that the step that
ends it ends it with the right number, and `Seen` keeps that every filter of `until` ticked off was met. `InOrder` and
`Apart` follow from `Take`: the next event of the broker is newer than all that were taken. For the schedules, `Timely`
relates the runs to the clock and the end of a sleep, and `RunsLeft` says that a schedule which waits may run once
more. That a minute of a cron schedule is not run twice is the one step that needs division: a sleep of a whole minute after
a run ends in a later one. The proof goes by kind of task: a step of one task that takes no event, one that takes one
(`TakesOne`), and the steps of the broker and the clock.

`ExternalTasks_proofs` proves, for any calls, setups, sizes of the cache and of the thread pool and any number of
cancellations, from `ExternalTasksAssumption` and `SetupsAssumption`:

| Theorem | States |
| --- | --- |
| `Invariant` | `IInv` |
| `Types` | `TypeOK` |
| `Leftovers` | `EndedCallsLeaveNothing` |
| `SameResult` | `SameKeySameResult` |

Neither property says anything of calls at work, so `IInv` does. `ProcInv` says which processes of a call can live at each
await: none of a run task outside `communicate`, but for grandchildren once the child was killed; of an MCP
server no child outside the exchange and its closing. `DockerInv` says that a call which has not reached its first job, or which
has returned, has no container, no job and no open client. `Placed` ties the awaits to the kind of the task, `HeldInv` what it
has set up to them. `LockInv`: exactly the memoized calls inside their node are in the queue of the lock, and one that
computes is its head, for a key that is not cached. So no two compute, the entry that a call adds is the only one of
its key (`CacheInv`), and a result that was handed out is that of the entry or of one that was dropped (`ResultInv`). A step is
shown to keep the shared part and its own (`Core`) and what lives outside (`Out`), and `Combined` carries that over to all
other calls. A cancellation is the hard step: `DeliverStep` has a case for the call that is left behind, for the one that
closes its server first, and for all others, of which the innermost may be a child of the call that was cancelled.
A CASE of the model whose arms overlapped (a memoized process was both "queued" and "spawning") has no value for the
prover; it became `EntryOf` and `NodeOf`. TLC, which takes the first arm, computes the same states as before.

Model-checked only:

* Liveness, which the prover does not reach: `EveryRunSettles`, `UnregisteredIsRetried`, `ResumedRunsComplete`,
  `TakenJobsStart`, `TimedTasksEnd`, `LoneListenEnds`, `CallsReturn`.

Every invariant and every action property of the runs has a theorem. The inductive invariants
of `RunService`, `EventTasks` and `ExternalTasks` were checked by TLC on the instances of their runs before they were proved.

Some theorems state properties that no run checks by itself, since the refinement or another property of the
run implies them: `DeliveredIsCompleted`, `DeliveredOnce`, `CheckpointWithinLog`, `EndedIsQuiet`.

## 6. Not modelled

* Of the histories: `get_run_events`, `list_step_attempts` and other single statements that read;
  redaction and payloads.
* Of documents: `switch` bodies and bodies within bodies, as far as resumption goes; the events of nodes that
  the translator adds (catch, join, loop bodies); how the ADK wraps a suspension on its way up; lists that use a task
  name twice, of which `build_workflow` keeps one node and one index (`translator.py:367`, `:386`) and about which only the
  linter of `devtools/diagnostics.py` complains: `DocumentsAssumption` excludes them.
  `TaskTree` has the nested nodes and lets a try catch a suspension, but not the state that nodes share.
* Of tasks: agent tasks, token budgets and replay; `output.as` beyond its place in `run_with_base`; payloads, redirects and
  authentication of calls; daemons that close their pipes; the limits that a run task's sandbox puts on the server; calls nested more than
  two deep.
* Of brokers: Kafka and NATS. Who gets which event is decided by subscription and group settings of their clients.
* Of the server: validation of tokens and the audit log; the check of credentials is one outcome of a request.
* Memory services keep their entries in external stores; registry and catalog resolve deterministically and
  have no steps between which anything could happen; logging and telemetry observe.
* Loader, models, state schema, expressions, providers, templates, interop, developer tools and CLI: pure
  functions or I/O without state of their own. Network, processes and model calls: external.

## 7. Plan

1. Suspension inside bodies: `TaskTree` and `ResumableRun` composed, with the join of a fork that does not
   compete and branches that suspend.
2. Two operators who resume one run: `ResumableRun` with two calls over one record, and the shared records of
   `RunService`.
3. Proofs: what the liveness properties rest on, as action properties (a resumed run that fails no more makes progress).
