---------------------------- MODULE PollingQueue ----------------------------
(***************************************************************************)
(* The PostgreSQL run queue: the workflow_runs table of PostgresRunHistory *)
(* (ops/postgres_history.py), the PostgresPollingWorker processes that     *)
(* claim its rows (ops/polling_worker.py) and the part of run_workflow     *)
(* (runtime.py) that writes to the row while a claimed run executes.       *)
(*                                                                         *)
(* A step is one SQL statement, or what a coroutine does between two       *)
(* awaits.  Time is abstracted: available_at is NULL, still ahead of NOW() *)
(* or past it, and LeaseExpires is the passing of time for one row.        *)
(***************************************************************************)
EXTENDS Naturals, FiniteSets

CONSTANTS
  Runs,          \* run ids of one namespace_id
  Workers,       \* worker ids: a uuid4 per PostgresPollingWorker object
  Execs,         \* execution slots, max_concurrency of them per worker
  WorkerOf,      \* the worker that a slot belongs to
  NoRun, NoWorker, NoExec,
  Unregistered,  \* runs whose workflow no worker has in its registry
  Timely,        \* TRUE: a live heartbeat loop always beats lease_seconds
  ReenqueueIn,   \* statuses in which clients enqueue a known run id again
  MaxEnqueues,   \* bound: enqueue_run calls per run
  MaxEvents,     \* bound: events that one execution emits
  MaxFaults      \* bound: crashes, cancelled workers and lost releases

Finished == {"completed", "failed"}
Statuses == {"absent", "pending", "running", "suspended"} \union Finished

ASSUME ConstantsAssumption ==
  /\ WorkerOf \in [Execs -> Workers]
  /\ NoRun \notin Runs
  /\ NoWorker \notin Workers
  /\ NoExec \notin Execs
  /\ Unregistered \subseteq Runs
  /\ Timely \in BOOLEAN
  /\ ReenqueueIn \subseteq Statuses \ {"absent"}
  /\ MaxEnqueues \in Nat
  /\ MaxEvents \in Nat
  /\ MaxFaults \in Nat

VARIABLES
  row,        \* the workflow_runs row of each run id
  exec,       \* what each slot is executing
  alive,      \* worker processes that have not crashed
  enqueues,   \* how often each run was enqueued
  delivered,  \* on_result calls per run: 0, 1, or 2 for "more than once"
  faults      \* faults so far

vars == <<row, exec, alive, enqueues, delivered, faults>>

(***************************************************************************)
(* state is the JSON state column: "input" as enqueued, "partial" the      *)
(* input merged with some state deltas, "final" what a completed execution *)
(* left.  log is the length of event_log, index is checkpoint_index.       *)
(***************************************************************************)
States == {"none", "input", "partial", "final"}

Row == [status: Statuses, worker: Workers \union {NoWorker},
        available: {"null", "future", "past"},
        state: States, log: Nat, index: Nat]

AbsentRow == [status |-> "absent", worker |-> NoWorker, available |-> "null",
              state |-> "none", log |-> 0, index |-> 0]

Phases == {"idle", "claimed", "starting", "executing", "recorded",
           "finishing", "returned", "raised", "delivering"}

Exec == [run: Runs \union {NoRun}, pc: Phases,
         input: States, events: Nat, heartbeat: {"on", "off"}]

Idle == [run |-> NoRun, pc |-> "idle", input |-> "none", events |-> 0,
         heartbeat |-> "off"]

TypeOK ==
  /\ row \in [Runs -> Row]
  /\ exec \in [Execs -> Exec]
  /\ \A e \in Execs :
       exec[e].pc = "idle" \/ exec[e].run = NoRun => exec[e] = Idle
  /\ alive \subseteq Workers
  /\ enqueues \in [Runs -> Nat]
  /\ delivered \in [Runs -> 0..2]
  /\ faults \in Nat

Init ==
  /\ row = [r \in Runs |-> AbsentRow]
  /\ exec = [e \in Execs |-> Idle]
  /\ alive = Workers
  /\ enqueues = [r \in Runs |-> 0]
  /\ delivered = [r \in Runs |-> 0]
  /\ faults = 0

-----------------------------------------------------------------------------
(* Helpers *)

\* The in-memory state dict of an execution: its input until an event has
\* been merged into it.
StateOf(e) == IF exec[e].events = 0 THEN exec[e].input ELSE "partial"

(***************************************************************************)
(* A definition named X_... is X with a plausible bug.  The specification  *)
(* never uses it: put in the place of X, it shows that a property fails.   *)
(***************************************************************************)
Claimable_IgnoringLease(r) == row[r].status \in {"pending", "running"}
Claimable_AnyStatus(r) == row[r].status # "absent" /\ row[r].available # "future"
Claimable_PendingOnly(r) == row[r].status = "pending" /\ row[r].available # "future"

\* The rows that claim_run's WHERE clause selects.
Claimable(r) ==
  /\ row[r].status \in {"pending", "running"}
  /\ row[r].available # "future"

\* claim_run's ORDER BY: pending before running, then NULLS FIRST.  The
\* order of two lapsed timestamps is left open.
ClaimRank(r) ==
  (IF row[r].status = "pending" THEN 0 ELSE 2)
    + (IF row[r].available = "null" THEN 0 ELSE 1)

\* The executions that update_row ... WHERE worker_id = $worker reaches.
OwnsRow(e) == row[exec[e].run].worker = WorkerOf[e]

\* While this holds and Timely is TRUE, the lease of exec[e].run is renewed
\* in time: the heartbeat loop runs, or claim_run has only just returned.
KeepsLease(e) ==
  /\ exec[e].heartbeat = "on" \/ exec[e].pc = "claimed"
  /\ OwnsRow(e)
  /\ row[exec[e].run].status = "running"

StatusOnEnqueue_Always(status) == "pending"
StatusOnEnqueue_Queued(status) == IF status \in Finished THEN status ELSE "queued"

\* ON CONFLICT in enqueue_run: a finished run keeps its status.
StatusOnEnqueue(status) == IF status \in Finished THEN status ELSE "pending"

\* The row an execution works on.
RowOf(e) == row[exec[e].run]

SetRow(r, value) == row' = [row EXCEPT ![r] = value]
SetExec(e, value) == exec' = [exec EXCEPT ![e] = value]
GoTo(e, pc) == SetExec(e, [exec[e] EXCEPT !.pc = pc])

ClaimedRow_NoLease(w, r) ==
  [row[r] EXCEPT !.status = "running", !.worker = w]

\* claim_run's UPDATE: the row is running, owned and leased; its state stays.
ClaimedRow(w, r) ==
  [row[r] EXCEPT !.status = "running", !.worker = w, !.available = "future"]

StartedRow_KeepsLog(e) ==
  [RowOf(e) EXCEPT !.status = "running", !.state = exec[e].input, !.index = 0]

\* start's upsert: it resets the run but no lease column, and has no fence
\* on worker_id.
StartedRow(e) ==
  [RowOf(e) EXCEPT !.status = "running", !.state = exec[e].input,
                   !.log = 0, !.index = 0]

ReleasedRow_Unfenced(e, status) ==
  [RowOf(e) EXCEPT !.status = status, !.worker = NoWorker, !.available = "null"]

\* release_run: only a row that still carries this worker id is updated.
ReleasedRow(e, status) ==
  IF OwnsRow(e)
  THEN [RowOf(e) EXCEPT !.status = status, !.worker = NoWorker,
                        !.available = "null"]
  ELSE RowOf(e)

-----------------------------------------------------------------------------
(* The client and the clock *)

\* enqueue_run: INSERT a pending row, or overwrite state and available_at of
\* an existing one and put it back to pending unless it has finished.
Enqueue(r) ==
  /\ enqueues[r] < MaxEnqueues
  /\ row[r].status \in ReenqueueIn \union {"absent"}
  /\ \E available \in {"null", "future"} :
       SetRow(r, [row[r] EXCEPT !.status = StatusOnEnqueue(row[r].status),
                                !.available = available,
                                !.state = "input"])
  /\ enqueues' = [enqueues EXCEPT ![r] = @ + 1]
  /\ UNCHANGED <<exec, alive, delivered, faults>>

\* NOW() passes available_at of one row.
LeaseExpires(r) ==
  /\ row[r].available = "future"
  /\ Timely => \A e \in Execs : exec[e].run = r => ~ KeepsLease(e)
  /\ SetRow(r, [row[r] EXCEPT !.available = "past"])
  /\ UNCHANGED <<exec, alive, enqueues, delivered, faults>>

-----------------------------------------------------------------------------
(* One execution: claim, resolve, run_workflow, release, deliver *)

\* claim_run: one atomic UPDATE of the first candidate row that no statement
\* in flight has locked (FOR UPDATE SKIP LOCKED).
Claim(e, r) ==
  /\ exec[e].pc = "idle"
  /\ WorkerOf[e] \in alive
  /\ Claimable(r)
  /\ \E locked \in SUBSET Runs :
       /\ r \notin locked
       /\ \A q \in Runs \ locked : Claimable(q) => ClaimRank(r) <= ClaimRank(q)
  /\ SetRow(r, ClaimedRow(WorkerOf[e], r))
  /\ SetExec(e, [run |-> r, pc |-> "claimed", input |-> row[r].state,
                 events |-> 0, heartbeat |-> "off"])
  /\ UNCHANGED <<alive, enqueues, delivered, faults>>

\* registry.resolve succeeds and the heartbeat task is created.
Resolve(e) ==
  /\ exec[e].pc = "claimed"
  /\ exec[e].run \notin Unregistered
  /\ SetExec(e, [exec[e] EXCEPT !.pc = "starting", !.heartbeat = "on"])
  /\ UNCHANGED <<row, alive, enqueues, delivered, faults>>

ResolveFails_Releases(e) ==
  /\ exec[e].pc = "claimed"
  /\ exec[e].run \in Unregistered
  /\ SetRow(exec[e].run, ReleasedRow(e, "failed"))
  /\ SetExec(e, Idle)
  /\ UNCHANGED <<alive, enqueues, delivered, faults>>

\* registry.resolve raises before the try block: nothing is released.
ResolveFails(e) ==
  /\ exec[e].pc = "claimed"
  /\ exec[e].run \in Unregistered
  /\ SetExec(e, Idle)
  /\ UNCHANGED <<row, alive, enqueues, delivered, faults>>

\* history.start, called by run_workflow with resume=False.
Start(e) ==
  /\ exec[e].pc = "starting"
  /\ SetRow(exec[e].run, StartedRow(e))
  /\ GoTo(e, "executing")
  /\ UNCHANGED <<alive, enqueues, delivered, faults>>

\* What run_workflow does outside its try block raises: building the graph
\* before start, or opening the session after it.
SetupFails(e) ==
  /\ \/ exec[e].pc = "starting"
     \/ exec[e].pc = "executing" /\ exec[e].events = 0
  /\ GoTo(e, "raised")
  /\ UNCHANGED <<row, alive, enqueues, delivered, faults>>

\* An event arrives and record_event appends it.  An event that carries an
\* error, or falls between two checkpoint intervals, is not checkpointed.
RecordEvent(e) ==
  /\ exec[e].pc = "executing"
  /\ exec[e].events < MaxEvents
  /\ SetRow(exec[e].run, [RowOf(e) EXCEPT !.log = RowOf(e).log + 1])
  /\ \E pc \in {"recorded", "executing"} :
       SetExec(e, [exec[e] EXCEPT !.pc = pc, !.events = exec[e].events + 1])
  /\ UNCHANGED <<alive, enqueues, delivered, faults>>

\* checkpoint: writes the state and the number of events so far.
Checkpoint(e) ==
  /\ exec[e].pc = "recorded"
  /\ SetRow(exec[e].run, [RowOf(e) EXCEPT !.state = StateOf(e),
                                          !.index = exec[e].events])
  /\ GoTo(e, "executing")
  /\ UNCHANGED <<alive, enqueues, delivered, faults>>

\* WorkflowSuspended reaches run_workflow, which records it and returns.
Suspend(e) ==
  /\ exec[e].pc = "executing"
  /\ SetRow(exec[e].run, [RowOf(e) EXCEPT !.status = "suspended",
                                          !.state = StateOf(e),
                                          !.index = exec[e].events])
  /\ GoTo(e, "returned")
  /\ UNCHANGED <<alive, enqueues, delivered, faults>>

\* The events end: finish writes the terminal row, before its step attempt.
FinishCompleted(e) ==
  /\ exec[e].pc = "executing"
  /\ SetRow(exec[e].run, [RowOf(e) EXCEPT !.status = "completed",
                                          !.state = "final"])
  /\ GoTo(e, "finishing")
  /\ UNCHANGED <<alive, enqueues, delivered, faults>>

\* finish then records the last step attempt; an error there leaves
\* run_workflow, whose except clauses no longer apply.
CloseStepAttempt(e) ==
  /\ exec[e].pc = "finishing"
  /\ \E pc \in {"returned", "raised"} : GoTo(e, pc)
  /\ UNCHANGED <<row, alive, enqueues, delivered, faults>>

\* The workflow, or a history call, raises inside the try block; finish
\* records the failure, unless that write is lost too.
FinishFailed(e) ==
  /\ exec[e].pc \in {"executing", "recorded"}
  /\ \/ SetRow(exec[e].run, [RowOf(e) EXCEPT !.status = "failed",
                                             !.state = StateOf(e)])
     \/ UNCHANGED row
  /\ GoTo(e, "raised")
  /\ UNCHANGED <<alive, enqueues, delivered, faults>>

\* run_workflow returned: release as completed, then call on_result.
ReleaseCompleted(e) ==
  /\ exec[e].pc = "returned"
  /\ SetRow(exec[e].run, ReleasedRow(e, "completed"))
  /\ GoTo(e, "delivering")
  /\ UNCHANGED <<alive, enqueues, delivered, faults>>

\* run_workflow raised: release as failed, re-raise, cancel the heartbeat.
ReleaseFailed(e) ==
  /\ exec[e].pc = "raised"
  /\ SetRow(exec[e].run, ReleasedRow(e, "failed"))
  /\ SetExec(e, Idle)
  /\ UNCHANGED <<alive, enqueues, delivered, faults>>

\* release_run itself fails: the row keeps its worker id and its lease.
ReleaseLost(e) ==
  /\ exec[e].pc \in {"returned", "raised"}
  /\ faults < MaxFaults
  /\ faults' = faults + 1
  /\ SetExec(e, Idle)
  /\ UNCHANGED <<row, alive, enqueues, delivered>>

\* on_result gets the result, whether or not release_run matched a row.
Deliver(e) ==
  /\ exec[e].pc = "delivering"
  /\ delivered' = [delivered EXCEPT ![exec[e].run] = IF @ < 2 THEN @ + 1 ELSE @]
  /\ SetExec(e, Idle)
  /\ UNCHANGED <<row, alive, enqueues, faults>>

\* One beat of _heartbeat_loop: extend_lease succeeds only for the worker of
\* a running row; otherwise the loop ends, and the execution goes on.
Heartbeat(e) ==
  /\ exec[e].heartbeat = "on"
  /\ IF OwnsRow(e) /\ RowOf(e).status = "running"
     THEN /\ SetRow(exec[e].run, [RowOf(e) EXCEPT !.available = "future"])
          /\ UNCHANGED exec
     ELSE /\ SetExec(e, [exec[e] EXCEPT !.heartbeat = "off"])
          /\ UNCHANGED row
  /\ UNCHANGED <<alive, enqueues, delivered, faults>>

-----------------------------------------------------------------------------
(* Faults *)

\* Every task of the worker is gone and no row is touched.
DropExecs(w) ==
  /\ faults < MaxFaults
  /\ faults' = faults + 1
  /\ exec' = [e \in Execs |-> IF WorkerOf[e] = w THEN Idle ELSE exec[e]]
  /\ UNCHANGED <<row, enqueues, delivered>>

\* The process dies.  A new process draws a new uuid4, so w never returns.
Crash(w) ==
  /\ w \in alive
  /\ DropExecs(w)
  /\ alive' = alive \ {w}

\* run_forever's finally cancels the tasks; CancelledError passes every
\* except Exception clause, so nothing is finished or released.
Cancel(w) ==
  /\ w \in alive
  /\ \E e \in Execs : WorkerOf[e] = w /\ exec[e].pc # "idle"
  /\ DropExecs(w)
  /\ UNCHANGED alive

-----------------------------------------------------------------------------
\* The steps a live execution takes by itself.
Advance(e) ==
  \/ Resolve(e) \/ ResolveFails(e) \/ Start(e) \/ SetupFails(e)
  \/ RecordEvent(e) \/ Checkpoint(e)
  \/ Suspend(e) \/ FinishCompleted(e) \/ CloseStepAttempt(e) \/ FinishFailed(e)
  \/ ReleaseCompleted(e) \/ ReleaseFailed(e) \/ Deliver(e)

Next ==
  \/ \E r \in Runs : Enqueue(r) \/ LeaseExpires(r)
  \/ \E e \in Execs, r \in Runs : Claim(e, r)
  \/ \E e \in Execs : Advance(e) \/ Heartbeat(e) \/ ReleaseLost(e)
  \/ \E w \in Workers : Crash(w) \/ Cancel(w)

Spec == Init /\ [][Next]_vars

(***************************************************************************)
(* Fairness.  asyncio keeps scheduling a live task, every event stream     *)
(* ends, time passes, and run_forever keeps polling.  A claimable run is   *)
(* not passed over for ever because ORDER BY available_at serves the       *)
(* longest lapsed row first: that is the strong fairness of ClaimSome.     *)
(***************************************************************************)
ClaimSome(r) == \E e \in Execs : Claim(e, r)

FairSpec ==
  /\ Spec
  /\ \A e \in Execs : WF_vars(Advance(e))
  /\ \A r \in Runs : WF_vars(LeaseExpires(r)) /\ SF_vars(ClaimSome(r))
-----------------------------------------------------------------------------
(***************************************************************************)
(* Properties that hold whenever heartbeats are timely and clients do not  *)
(* enqueue a run id again while it is running or suspended.                *)
(***************************************************************************)
Disciplined == Timely /\ ReenqueueIn \intersect {"running", "suspended"} = {}

Active(e) == exec[e].pc # "idle"

\* The execution has not yet written how the run ended.
Unsettled(e) == exec[e].pc \in {"claimed", "starting", "executing", "recorded"}

\* No run is executed twice at the same time, by two workers or by two slots
\* of one, however claims, heartbeats, crashes and lost releases interleave.
ExclusiveExecution ==
  \A e, f \in Execs : Active(e) /\ exec[e].run = exec[f].run => e = f

\* An execution that is still at work on a run holds its row: the row is
\* running, names its worker, and its lease lies ahead until it is released.
WorkingUnderLease ==
  \A e \in Execs : Active(e) =>
    /\ Unsettled(e) => row[exec[e].run].status = "running"
    /\ row[exec[e].run].status = "running" =>
         OwnsRow(e) /\ row[exec[e].run].available = "future"

\* on_result only ever sees the result of a run that the table shows as
\* completed and without an owner.
DeliveredIsCompleted ==
  \A e \in Execs : exec[e].pc = "delivering" =>
    /\ row[exec[e].run].status = "completed"
    /\ row[exec[e].run].worker = NoWorker

\* on_result is called at most once per run, whatever is retried.
DeliveredOnce == \A r \in Runs : delivered[r] <= 1

\* While an execution is past start, event_log holds its own events and no
\* others, and checkpoint_index never points past the end of the log.
LogBelongsToExecution ==
  \A e \in Execs : exec[e].pc \in {"executing", "recorded"} =>
    row[exec[e].run].log = exec[e].events
CheckpointWithinLog == \A r \in Runs : row[r].index <= row[r].log

\* A run that has finished is never executed again: a failed run stays
\* failed, and a completed one can only be turned into a failed one.
NeverReopened ==
  [][\A r \in Runs :
       /\ row[r].status = "failed" => row'[r].status = "failed"
       /\ row[r].status = "completed" => row'[r].status \in Finished]_vars

\* Every enqueued run whose workflow is registered comes to an end.
EveryRunSettles ==
  \A r \in Runs \ Unregistered :
    enqueues[r] > 0 ~> row[r].status \in Finished \union {"suspended"}

\* A run whose workflow is not registered is claimed again and again, and
\* never given up on.
UnregisteredIsRetried ==
  \A r \in Unregistered :
    enqueues[r] > 0 ~> \E e \in Execs : exec[e].run = r /\ exec[e].pc = "claimed"

(***************************************************************************)
(* The inductive invariant behind the safety properties above.             *)
(***************************************************************************)

\* What an execution in progress knows of its row.
ActiveInv(e) == Active(e) =>
  LET r == row[exec[e].run] IN
    /\ r.status \in Finished \union {"running", "suspended"}
    /\ Unsettled(e) => r.status = "running"
    /\ r.status = "running" =>
         r.available = "future" /\ KeepsLease(e)
    /\ exec[e].pc # "delivering" => OwnsRow(e)
    /\ exec[e].pc = "finishing" => r.status = "completed"
    /\ exec[e].pc = "returned" => r.status \in {"completed", "suspended"}
    /\ exec[e].pc = "raised" => r.status # "suspended"
    /\ exec[e].pc = "delivering" => r.status = "completed" /\ r.worker = NoWorker
    /\ exec[e].pc \in {"executing", "recorded"} => r.log = exec[e].events
    /\ exec[e].pc \in {"claimed", "starting"} => exec[e].events = 0

\* A delivered run has finished and nobody executes it any more.
DeliveredInv(r) == delivered[r] > 0 =>
  /\ delivered[r] = 1
  /\ row[r].status \in Finished
  /\ \A e \in Execs : exec[e].run # r

\* Every execution, run and row is as the conjuncts above say, which one
\* step of any worker, client, fault or the clock preserves.
IInv ==
  /\ TypeOK
  /\ \A e \in Execs : ActiveInv(e)
  /\ ExclusiveExecution
  /\ CheckpointWithinLog
  /\ \A r \in Runs : DeliveredInv(r)

(***************************************************************************)
(* The queue implements the abstract one: a run is waiting while it is     *)
(* unfinished and no execution of it is under way.                         *)
(***************************************************************************)
Working(r) == {e \in Execs : exec[e].run = r}

StageOf(r) ==
  CASE row[r].status = "absent" -> "unknown"
    [] row[r].status \in Finished \union {"suspended"} -> "settled"
    [] OTHER -> IF Working(r) = {} THEN "waiting" ELSE "held"

HolderOf(r) ==
  IF StageOf(r) = "held" THEN CHOOSE e \in Working(r) : TRUE ELSE NoExec

Queue == INSTANCE JobQueue WITH
  Jobs <- Runs, Executors <- Execs, Nobody <- NoExec,
  stage <- [r \in Runs |-> StageOf(r)],
  holder <- [r \in Runs |-> HolderOf(r)]

\* Every step of the tables and workers is a step of the abstract queue.
ImplementsQueue == Queue!Spec

(***************************************************************************)
(* Properties that hold without any assumption on time or on the clients.  *)
(***************************************************************************)

\* Only an execution of the worker the row names ends a lease, so what a
\* stalled worker does late never releases its successor's claim.
OnlyOwnerReleases ==
  [][\A r \in Runs :
       row[r].worker # NoWorker /\ row'[r].worker = NoWorker
         => \E e \in Execs :
              /\ WorkerOf[e] = row[r].worker
              /\ exec[e].run = r
              /\ exec'[e].pc # exec[e].pc]_vars

\* README.md: a run can "pause for an event or human input and resume later".
\* A suspended run is not recorded as finished until it has been resumed.
SuspendedWaitsForResume ==
  [][\A r \in Runs :
       row[r].status = "suspended" => row'[r].status \notin Finished]_vars
=============================================================================
