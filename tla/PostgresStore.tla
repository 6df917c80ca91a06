---------------------------- MODULE PostgresStore ----------------------------
(***************************************************************************)
(* PostgresRunHistory between its statements: processes that connect and   *)
(* migrate the schema at once, executions, new or resumed, that write the  *)
(* row of a run and its step attempts, and readers that list the runs in   *)
(* pages or collect the metrics of the server.  A statement is atomic, a   *)
(* method is not; a process may die, and its connection may fail, between  *)
(* any two.                                                                *)
(*                                                                         *)
(* A definition X_Something is X with a plausible bug, for the checks.     *)
(***************************************************************************)
EXTENDS Integers, FiniteSets, SequencesExt

CONSTANTS Procs, Runs, Steps, Workflows,
          Setups,        \* the database at the start, who migrates, the tasks that are
                         \* checkpointed or suspend, what is read by which filter, and the
                         \* bounds on executions (starts) and on deaths and failed statements
                         \* (faults)
          Versions,      \* the number of migrations
          Limit,         \* the length of a page
          FailureLimit,  \* how many failed runs the metrics ask for
          None

AllStatuses == {"pending", "running", "completed", "failed", "suspended"}

NoRow == [status |-> "none", task |-> None, workflow |-> None]

\* Rows that enqueue has written.
Enqueued == [status : {"pending"}, task : {None}, workflow : Workflows]

Schema(s) ==
  /\ s.version \in 0..Versions /\ s.migrating \subseteq Procs
  /\ s.rows \in [Runs -> Enqueued \union {NoRow}] /\ s.created \in [Runs -> Nat]
  /\ \A r \in Runs : s.rows[r] = NoRow <=> s.created[r] = 0
  /\ s.runs \subseteq Runs /\ s.steps \subseteq Steps /\ s.workflows \subseteq Workflows
  /\ s.filter \in [status : AllStatuses \union {None}, workflow : Workflows \union {None}]
  /\ s.starts \in Nat /\ s.faults \in Nat

ASSUME PostgresStoreAssumption ==
  /\ Versions \in Nat \ {0} /\ Limit \in Nat \ {0} /\ FailureLimit \in Nat
  /\ "workflow" \notin Steps /\ None \notin Steps /\ None \notin Workflows
  /\ None \notin {"workflow", "checkpoint", "suspend", "finish"} \union AllStatuses
  /\ IsFiniteSet(Runs) /\ None \notin Runs
  /\ \A s \in Setups : Schema(s)

VARIABLES setup, applied, recorded,    \* migrations: in the schema, and in their table
          proc,                        \* where each process is in a method
          row, created, attempts,      \* workflow_runs by run, created_at (0: no row); step_attempts
          starts, faults,
          reader,                      \* list_runs, page after page
          scrape,                      \* _prometheus_metrics
          \* History variables: runs that two executed at a time, updates without their
          \* attempt, runs that were resumed, and what the last checkpoint or finish of
          \* a run says of its task.
          overlapped, torn, resumed, told

dbVars == <<applied, recorded>>
history == <<overlapped, torn, resumed, told>>
runVars == <<row, created, attempts, history>>
readVars == <<reader, scrape>>
vars == <<setup, dbVars, proc, runVars, starts, faults, readVars>>

Off == [pc |-> "off", at |-> 0, saw |-> {}, run |-> None, op |-> None,
        task |-> None, status |-> "running", latest |-> 0]

Init ==
  /\ setup \in Setups
  /\ applied = 1..setup.version /\ recorded = 1..setup.version
  /\ proc = [p \in Procs |-> Off]
  /\ created = setup.created /\ row = setup.rows
  /\ attempts = <<>> /\ starts = 0 /\ faults = 0
  /\ reader = [pc |-> "idle", offset |-> 0, got |-> {}, want |-> {}, left |-> FALSE]
  /\ scrape = [pc |-> "idle", total |-> 0, completed |-> 0, failed |-> 0,
               durations |-> FALSE, failures |-> 0, reset |-> FALSE]
  /\ overlapped = {} /\ torn = {} /\ resumed = {} /\ told = [r \in Runs |-> None]

-----------------------------------------------------------------------------
(* connect and _migrate *)

At(p, pc) == proc[p].pc = pc
Goes(p, record) == proc' = [proc EXCEPT ![p] = record]

Connect(p) ==
  /\ At(p, "off")
  /\ Goes(p, [Off EXCEPT !.pc = IF p \in setup.migrating THEN "reading" ELSE "ready"])
  /\ UNCHANGED <<setup, dbVars, runVars, starts, faults, readVars>>

Highest(versions) == IF versions = {} THEN 0 ELSE CHOOSE v \in versions : \A w \in versions : w <= v

\* The next migration that the version read before the loop calls for.
ToApply(p, version) ==
  IF version >= Versions THEN [Off EXCEPT !.pc = "ready"]
  ELSE [proc[p] EXCEPT !.pc = "applying", !.at = version + 1, !.saw = applied]

ReadVersion(p) ==
  /\ At(p, "reading")
  /\ Goes(p, ToApply(p, Highest(recorded)))
  /\ UNCHANGED <<setup, dbVars, runVars, starts, faults, readVars>>

ApplyMigration_Later(p) ==
  /\ At(p, "applying")
  /\ recorded' = recorded \union {proc[p].at}
  /\ Goes(p, [proc[p] EXCEPT !.pc = "recording"])
  /\ UNCHANGED <<setup, applied, runVars, starts, faults, readVars>>

\* A migration is one transaction of IF NOT EXISTS statements.
ApplyMigration(p) ==
  /\ At(p, "applying")
  /\ applied' = applied \union {proc[p].at}
  /\ Goes(p, [proc[p] EXCEPT !.pc = "recording"])
  /\ UNCHANGED <<setup, recorded, runVars, starts, faults, readVars>>

\* IF NOT EXISTS does not see what another process creates at the same time:
\* the statement raises once the other commits, and connect with it.
MigrationCollides(p) ==
  /\ At(p, "applying") /\ proc[p].at \in applied \ proc[p].saw
  /\ Goes(p, Off)
  /\ UNCHANGED <<setup, dbVars, runVars, starts, faults, readVars>>

RecordVersion(p) ==
  /\ At(p, "recording")
  /\ recorded' = recorded \union {proc[p].at}
  /\ Goes(p, ToApply(p, proc[p].at))
  /\ UNCHANGED <<setup, applied, runVars, starts, faults, readVars>>

-----------------------------------------------------------------------------
(* An execution: start, unless it is resumed, then checkpoint, suspend and  *)
(* finish, each of which reads the row, updates it, and reads and writes a  *)
(* step attempt.                                                            *)

Executing(p, r) == proc[p].run = r
Settled(r) == row[r].status \in {"completed", "failed"}

Name_Missing(task) == task
Name(task) == IF task = None THEN "workflow" ELSE task

\* What list_runs finds by its filters.
Shows(entry) ==
  /\ entry # NoRow
  /\ setup.filter.status \in {None, entry.status}
  /\ setup.filter.workflow \in {None, entry.workflow}
Listed == {r \in Runs : Shows(row[r])}

\* What readers notice of a row that changes.
Changes(r) ==
  /\ scrape' = [scrape EXCEPT !.reset = @ \/ Settled(r)]
  /\ reader' = [reader EXCEPT !.left = @ \/ (Shows(row[r]) /\ ~ Shows(row'[r]))]

Newest == Max({created[r] : r \in Runs} \union {0})

\* created_at is set when a row is inserted, and two rows may have the same.
Inserts(r) ==
  IF row[r] # NoRow THEN created' = created
  ELSE \E now \in {Newest, Newest + 1} \ {0} : created' = [created EXCEPT ![r] = now]

Overlaps(p, r) ==
  overlapped' = IF \E q \in Procs \ {p} : Executing(q, r) THEN overlapped \union {r} ELSE overlapped

\* start inserts the row or resets it, but for created_at.  A process that
\* did not migrate may find no table.
Start(p, r) ==
  /\ At(p, "ready") /\ starts < setup.starts
  /\ starts' = starts + 1
  /\ IF 1 \notin applied
     THEN UNCHANGED <<proc, runVars, readVars>>
     ELSE /\ \E w \in setup.workflows :
               row' = [row EXCEPT ![r] = [status |-> "running", task |-> None, workflow |-> w]]
          /\ Inserts(r)
          /\ Goes(p, [proc[p] EXCEPT !.pc = "running", !.run = r])
          /\ Overlaps(p, r)
          /\ torn' = torn \ {r} /\ resumed' = resumed \ {r} /\ told' = [told EXCEPT ![r] = None]
          /\ Changes(r)
          /\ UNCHANGED attempts
  /\ UNCHANGED <<setup, dbVars, faults>>

\* A resumed execution reads the row and does not start: the row keeps its
\* status, whatever that is.  (Without a row every get raises, and the
\* execution ends without a trace.)
Resume(p, r) ==
  /\ At(p, "ready") /\ starts < setup.starts /\ row[r] # NoRow
  /\ starts' = starts + 1
  /\ Goes(p, [proc[p] EXCEPT !.pc = "running", !.run = r])
  /\ Overlaps(p, r)
  /\ resumed' = resumed \union {r}
  /\ UNCHANGED <<setup, dbVars, row, created, attempts, torn, told, faults, readVars>>

\* A task has ended and is checkpointed, a wait suspends the run, or the run
\* is over.
Call(p) ==
  /\ At(p, "running")
  /\ \/ \E s \in setup.steps, op \in {"checkpoint", "suspend"} :
          Goes(p, [proc[p] EXCEPT !.pc = "get", !.op = op, !.task = s,
                     !.status = IF op = "suspend" THEN "suspended" ELSE "running"])
     \/ \E status \in {"completed", "failed"} :
          Goes(p, [proc[p] EXCEPT !.pc = "get", !.op = "finish", !.status = status])
  /\ UNCHANGED <<setup, dbVars, runVars, starts, faults, readVars>>

\* finish uses the task of the record that it gets.
Get(p) ==
  /\ At(p, "get")
  /\ Goes(p, [proc[p] EXCEPT !.pc = "update",
                !.task = IF proc[p].op = "finish" THEN Name(row[proc[p].run].task) ELSE @])
  /\ UNCHANGED <<setup, dbVars, runVars, starts, faults, readVars>>

\* checkpoint leaves the status, finish the task.
Update(p) ==
  LET r == proc[p].run IN
  /\ At(p, "update")
  /\ row' = [row EXCEPT ![r].status = IF proc[p].op = "checkpoint" THEN @ ELSE proc[p].status,
                        ![r].task = IF proc[p].op = "finish" THEN @ ELSE proc[p].task]
  /\ Goes(p, IF proc[p].op = "suspend" THEN [Off EXCEPT !.pc = "ready"]
             ELSE [proc[p] EXCEPT !.pc = "select"])
  /\ told' = [told EXCEPT ![r] = IF proc[p].op = "suspend" THEN None ELSE proc[p].status]
  /\ Changes(r)
  /\ UNCHANGED <<setup, dbVars, created, attempts, overlapped, torn, resumed, starts, faults>>

Of(r, s) == {i \in DOMAIN attempts : attempts[i].run = r /\ attempts[i].step = s}

Latest_OfRun(r, s) == Highest({i \in DOMAIN attempts : attempts[i].run = r})

\* The latest attempt of a step, 0 if there is none.
Latest(r, s) == Highest(Of(r, s))

\* record_step_attempt selects the latest attempt...
Select(p) ==
  /\ At(p, "select")
  /\ Goes(p, [proc[p] EXCEPT !.pc = "put", !.latest = Latest(proc[p].run, proc[p].task)])
  /\ UNCHANGED <<setup, dbVars, runVars, starts, faults, readVars>>

\* ... and updates it, or inserts one.
Put(p) ==
  /\ At(p, "put")
  /\ attempts' =
       IF proc[p].latest = 0
       THEN Append(attempts, [run |-> proc[p].run, step |-> proc[p].task, status |-> proc[p].status])
       ELSE [attempts EXCEPT ![proc[p].latest].status = proc[p].status]
  /\ Goes(p, IF proc[p].op = "finish" THEN [Off EXCEPT !.pc = "ready"]
             ELSE [proc[p] EXCEPT !.pc = "running", !.task = None, !.op = None, !.latest = 0])
  /\ torn' = torn \ {proc[p].run}
  /\ UNCHANGED <<setup, dbVars, row, created, overlapped, resumed, told, starts, faults, readVars>>

-----------------------------------------------------------------------------
(* Faults *)

\* The run's row has its outcome or its checkpoint, and no attempt tells of it.
Tears(p) == IF proc[p].pc \in {"select", "put"} THEN torn \union {proc[p].run} ELSE torn

Die(p) ==
  /\ ~ At(p, "off") /\ faults < setup.faults
  /\ faults' = faults + 1
  /\ Goes(p, Off)
  /\ torn' = Tears(p)
  /\ UNCHANGED <<setup, dbVars, row, created, attempts, overlapped, resumed, told, starts, readVars>>

\* A statement raises: connect and finish fail; run_workflow answers to any
\* other failure with finish.
StatementRaises(p) ==
  /\ faults < setup.faults
  /\ proc[p].pc \in {"reading", "applying", "recording", "get", "update", "select", "put"}
  /\ faults' = faults + 1
  /\ Goes(p, CASE proc[p].op = None -> Off
               [] proc[p].op = "checkpoint" ->
                    [proc[p] EXCEPT !.pc = "get", !.op = "finish", !.status = "failed", !.latest = 0]
               [] OTHER -> [Off EXCEPT !.pc = "ready"])
  /\ torn' = Tears(p)
  /\ UNCHANGED <<setup, dbVars, row, created, attempts, overlapped, resumed, told, starts, readVars>>

-----------------------------------------------------------------------------
(* Readers *)

Window(s, offset) ==
  SubSeq(s, offset + 1, IF offset + Limit <= Len(s) THEN offset + Limit ELSE Len(s))

Newer_Updated(q, r) ==
  LET Busy(x) == \E p \in Procs : Executing(p, x)
  IN IF Busy(q) = Busy(r) THEN created[q] > created[r] ELSE Busy(q)

Newer(q, r) == created[q] > created[r]

\* The orders in which the database may return what is listed: newest first,
\* and runs created at the same time in any order.
Orders ==
  {s \in [1..Cardinality(Listed) -> Listed] :
     /\ \A r \in Listed : \E i \in DOMAIN s : s[i] = r
     /\ \A i, j \in DOMAIN s : i < j => s[i] # s[j] /\ ~ Newer(s[j], s[i])}

BeginList ==
  /\ setup.reads = "pages" /\ reader.pc = "idle" /\ 1 \in applied
  /\ reader' = [reader EXCEPT !.pc = "paging", !.want = Listed, !.left = FALSE]
  /\ UNCHANGED <<setup, dbVars, proc, runVars, starts, faults, scrape>>

NextPage ==
  /\ reader.pc = "paging"
  /\ \E s \in Orders :
       LET page == Window(s, reader.offset) IN
       reader' = [reader EXCEPT !.got = @ \union ToSet(page),
                                !.offset = @ + Limit,
                                !.pc = IF Len(page) < Limit THEN "done" ELSE @]
  /\ UNCHANGED <<setup, dbVars, proc, runVars, starts, faults, scrape>>

Rows(statuses) == {r \in Runs : row[r].status \in statuses}
Count(statuses) == Cardinality(Rows(statuses))

\* stats_summary counts by status in one statement,
ScrapeCounts ==
  /\ setup.reads = "metrics" /\ scrape.pc = "idle" /\ 1 \in applied
  /\ scrape' = [scrape EXCEPT !.pc = "durations", !.reset = FALSE,
                  !.total = Count(AllStatuses),
                  !.completed = Count({"completed"}), !.failed = Count({"failed"})]
  /\ UNCHANGED <<setup, dbVars, proc, runVars, starts, faults, reader>>

\* and takes the percentiles of the completed runs in another;
ScrapeDurations ==
  /\ scrape.pc = "durations"
  /\ scrape' = [scrape EXCEPT !.pc = "failures", !.durations = Rows({"completed"}) # {}]
  /\ UNCHANGED <<setup, dbVars, proc, runVars, starts, faults, reader>>

AtMost(n, limit) == IF n < limit THEN n ELSE limit

\* failure_summary lists the failed runs, up to its limit.
ScrapeFailures ==
  /\ scrape.pc = "failures"
  /\ scrape' = [scrape EXCEPT !.pc = "done", !.failures = AtMost(Count({"failed"}), FailureLimit)]
  /\ UNCHANGED <<setup, dbVars, proc, runVars, starts, faults, reader>>

-----------------------------------------------------------------------------
Next ==
  \/ \E p \in Procs :
       \/ Connect(p) \/ ReadVersion(p) \/ ApplyMigration(p) \/ MigrationCollides(p)
       \/ RecordVersion(p)
       \/ \E r \in setup.runs : Start(p, r)
       \/ \E r \in setup.runs : Resume(p, r)
       \/ Call(p) \/ Get(p) \/ Update(p) \/ Select(p) \/ Put(p)
       \/ Die(p) \/ StatementRaises(p)
  \/ BeginList \/ NextPage
  \/ ScrapeCounts \/ ScrapeDurations \/ ScrapeFailures

Spec == Init /\ [][Next]_vars

-----------------------------------------------------------------------------
(* Properties *)

Pcs == {"off", "reading", "applying", "recording", "ready", "running", "get", "update",
        "select", "put"}

TypeOK ==
  /\ applied \subseteq 1..Versions /\ recorded \subseteq 1..Versions
  /\ \A p \in Procs :
       /\ proc[p].pc \in Pcs /\ proc[p].at \in 0..Versions
       /\ proc[p].run \in Runs \union {None}
       /\ proc[p].task \in Steps \union {None, "workflow"}
       /\ proc[p].latest \in 0..Len(attempts)
  /\ \A r \in Runs : /\ row[r].status \in AllStatuses \union {"none"}
                     /\ row[r].task \in Steps \union {None}
                     /\ row[r] # NoRow <=> created[r] \in Nat \ {0}
  /\ \A i \in DOMAIN attempts : /\ attempts[i].status \in AllStatuses
                                /\ attempts[i].step \in Steps \union {"workflow"}
                                /\ row[attempts[i].run] # NoRow
  /\ starts \in 0..setup.starts /\ faults \in 0..setup.faults
  /\ reader.got \subseteq Runs

\* postgres_history.py:748-783: whoever migrates at once and wherever one
\* dies, a recorded migration is in the schema with all before it, and a
\* process that has connected with migrations on finds all of them.
MigratedBeforeUse ==
  /\ recorded \subseteq applied
  /\ \A v \in applied : 1..v \subseteq applied
  /\ \A v \in recorded : 1..v \subseteq recorded
  /\ \A p \in setup.migrating :
       proc[p].pc \in Pcs \ {"off", "reading", "applying", "recording"} =>
         applied = 1..Versions

Quiet(r) == \A p \in Procs : Executing(p, r) => At(p, "running")

\* postgres_history.py:127-190 and 281-338: of a run that is executed by one
\* process at a time, new or resumed, a step has one attempt at most, and
\* between two calls the attempt of the checkpointed task has the status that
\* the last checkpoint or finish gave it, unless that died or failed between
\* its two statements.  This is the status of the run itself, unless the run
\* was resumed: the row of a resumed run says what it said before.  The
\* attempts of earlier tasks stay as they are.
AttemptsFollowRuns ==
  \A r \in Runs \ overlapped :
    /\ \A s \in Steps \union {"workflow"} : Cardinality(Of(r, s)) <= 1
    /\ Quiet(r) /\ r \notin torn /\ told[r] # None =>
         /\ Of(r, Name(row[r].task)) # {}
         /\ attempts[Latest(r, Name(row[r].task))].status = told[r]
    /\ told[r] # None /\ row[r].status # told[r] => r \in resumed /\ told[r] = "running"

\* No other run was created at the same time.
Apart(r) == \A q \in Runs \ {r} : created[q] # created[r]

\* postgres_history.py:388-417 and 598-723, server.py:251-278: a reader that
\* takes all the pages has every run that was there when it began, whatever
\* is started meanwhile, if none has left the list (which a filter by status
\* or workflow lets it do) and none was created at the same time; and the
\* metrics, which are three statements, count no failure, up to the limit of
\* the last, and no completion that the later ones do not know of, unless
\* what a finished run says has changed in between.
ReadersMissNothing ==
  /\ reader.pc = "done" /\ ~ reader.left =>
       \A r \in reader.want : Apart(r) => r \in reader.got
  /\ scrape.pc \in {"failures", "done"} /\ ~ scrape.reset =>
       (scrape.completed > 0 => scrape.durations)
  /\ scrape.pc = "done" /\ ~ scrape.reset =>
       AtMost(scrape.failed, FailureLimit) <= scrape.failures
  /\ scrape.completed + scrape.failed <= scrape.total
=============================================================================
