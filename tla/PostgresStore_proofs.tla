------------------------ MODULE PostgresStore_proofs ------------------------
(***************************************************************************)
(* Theorems about PostgresStore, for every set of processes, runs and      *)
(* steps, every number of migrations, every length of a page and every     *)
(* limit on the failures that the metrics ask for.                         *)
(***************************************************************************)
EXTENDS PostgresStore, FiniteSetTheorems, TLAPS

-----------------------------------------------------------------------------
(* The inductive invariant *)

Ops == {"checkpoint", "suspend", "finish"}
InCall == {"get", "update", "select", "put"}
Migration == {"reading", "applying", "recording"}
StepNames == Steps \union {"workflow"}

Process == [pc : Pcs, at : 0..Versions, saw : SUBSET (1..Versions), run : Runs \union {None},
            op : Ops \union {None}, task : StepNames \union {None}, status : AllStatuses,
            latest : Nat]

RowType == [status : AllStatuses \union {"none"}, task : Steps \union {None},
            workflow : Workflows \union {None}]

Attempt == [run : Runs, step : StepNames, status : AllStatuses]

\* What a process has set when it is where it is.
Consistent(x) ==
  /\ x.pc \in InCall \union {"running"} <=> x.run \in Runs
  /\ x.pc \in InCall <=> x.op # None
  /\ x.op = "checkpoint" => x.status = "running" /\ x.task \in Steps
  /\ x.op = "suspend" => x.status = "suspended" /\ x.task \in Steps /\ x.pc \in {"get", "update"}
  /\ x.op = "finish" => /\ x.status \in {"completed", "failed"}
                        /\ x.pc # "get" => x.task \in StepNames

ProcInv ==
  /\ setup \in Setups
  /\ starts \in 0..setup.starts /\ faults \in 0..setup.faults
  /\ proc \in [Procs -> Process]
  /\ \A p \in Procs : Consistent(proc[p])
  /\ \A p \in Procs : proc[p].pc \in Migration => p \in setup.migrating

\* A recorded version is in the schema, and neither has gaps.
MigrationInv ==
  /\ \E n \in 0..Versions : recorded = 1..n
  /\ \E n \in 0..Versions : applied = 1..n
  /\ recorded \subseteq applied
  /\ \A p \in Procs : proc[p].pc \in {"applying", "recording"} =>
       proc[p].at \in 1..Versions /\ 1..(proc[p].at - 1) \subseteq recorded
  /\ \A p \in Procs : proc[p].pc = "recording" => proc[p].at \in applied
  /\ \A p \in setup.migrating :
       proc[p].pc \in InCall \union {"ready", "running"} => applied = 1..Versions

\* What a process knows of the database.
Fits(x) ==
  /\ x.run \in Runs => row[x.run] # NoRow
  /\ x.latest \in 0..Len(attempts)
  /\ x.latest # 0 => x.pc = "put" /\ x.latest \in Of(x.run, x.task)

RowInv ==
  /\ row \in [Runs -> RowType]
  /\ created \in [Runs -> Nat]
  /\ \A r \in Runs : row[r].status = "none" => row[r] = NoRow
  /\ \A r \in Runs : row[r] # NoRow <=> created[r] # 0
  /\ attempts \in Seq(Attempt)
  /\ \A i \in DOMAIN attempts : row[attempts[i].run] # NoRow
  /\ \A p \in Procs : Fits(proc[p])
  /\ overlapped \subseteq Runs /\ torn \subseteq Runs /\ resumed \subseteq Runs
  /\ told \in [Runs -> AllStatuses \union {None}]

\* What the one process that executes a run knows of its row y, of what was
\* last said of the run, and whether it is one of the runs R that were resumed.
Follows(x, y, said, R) ==
  /\ x.pc \in {"running", "get", "update"} /\ x.run \notin R => y.status = "running"
  /\ x.pc = "update" /\ x.op = "finish" => x.task = Name(y.task)
  /\ x.pc \in {"select", "put"} => said = x.status /\ x.task = Name(y.task)

Alone(r) ==
  /\ \A p, q \in Procs : Executing(p, r) /\ Executing(q, r) => p = q
  /\ \A p \in Procs : Executing(p, r) => Follows(proc[p], row[r], told[r], resumed)
  /\ \A p \in Procs : Executing(p, r) /\ At(p, "put") /\ proc[p].latest = 0
       => Of(r, proc[p].task) = {}
  /\ \A s \in StepNames : \A i, j \in Of(r, s) : i = j
  /\ told[r] # None /\ r \notin torn
       /\ (\A p \in Procs : Executing(p, r) => proc[p].pc \notin {"select", "put"})
       => \E i \in Of(r, Name(row[r].task)) : attempts[i].status = told[r]
  /\ told[r] # None /\ row[r].status # told[r] => r \in resumed /\ told[r] = "running"

AttemptInv == \A r \in Runs \ overlapped : Alone(r)

Reader == [pc : {"idle", "paging", "done"}, offset : Nat, got : SUBSET Runs,
           want : SUBSET Runs, left : BOOLEAN]

\* The listed runs that come before a run.
Ahead(r) == {q \in Listed : Newer(q, r)}

\* A wanted run that the reader has not got is not on the pages before.
ReaderInv ==
  /\ reader \in Reader
  /\ reader.pc = "idle" => reader.offset = 0 /\ reader.got = {}
  /\ reader.pc # "idle" /\ ~ reader.left => reader.want \subseteq Listed
  /\ reader.pc = "paging" /\ ~ reader.left =>
       \A r \in reader.want \ reader.got : Apart(r) => reader.offset <= Cardinality(Ahead(r))
  /\ reader.pc = "done" /\ ~ reader.left =>
       \A r \in reader.want : Apart(r) => r \in reader.got

Scrape == [pc : {"idle", "durations", "failures", "done"}, total : Nat, completed : Nat,
           failed : Nat, durations : BOOLEAN, failures : Nat, reset : BOOLEAN]

ScrapeInv ==
  /\ scrape \in Scrape
  /\ scrape.completed + scrape.failed <= scrape.total
  /\ ~ scrape.reset /\ scrape.completed > 0 =>
       /\ scrape.pc = "durations" => Rows({"completed"}) # {}
       /\ scrape.pc \in {"failures", "done"} => scrape.durations
  /\ ~ scrape.reset =>
       /\ scrape.pc \in {"durations", "failures"} => scrape.failed <= Count({"failed"})
       /\ scrape.pc = "done" => AtMost(scrape.failed, FailureLimit) <= scrape.failures

IInv == ProcInv /\ MigrationInv /\ RowInv /\ AttemptInv /\ ReaderInv /\ ScrapeInv
-----------------------------------------------------------------------------
(* Facts about the constants and the operators *)

LEMMA ConstantFacts ==
  /\ Versions \in Nat \ {0} /\ Limit \in Nat \ {0} /\ FailureLimit \in Nat
  /\ "workflow" \notin Steps /\ None \notin Steps /\ None \notin Ops
  /\ None \notin AllStatuses
  /\ None \notin StepNames /\ None \notin Runs /\ IsFiniteSet(Runs)
  /\ \A s \in Setups : Schema(s)
BY PostgresStoreAssumption DEF Ops, StepNames

\* A finite set of numbers that is not empty has a greatest element: among
\* the sets of the elements above one of them, take a minimal one.
LEMMA GreatestExists ==
  ASSUME NEW S \in SUBSET Nat, IsFiniteSet(S), S # {}
  PROVE  \E v \in S : \A w \in S : w <= v
<1> DEFINE Above(v) == {w \in S : w > v}
           F == {U \in SUBSET S : \E v \in S : U = Above(v)}
<1>1. IsWellFoundedOn(StrictSubsetOrdering(S), SUBSET S)
  BY FS_StrictSubsetOrderingWellFounded, FS_FiniteSubsetsOfFinite
<1>2. F \subseteq SUBSET S /\ F # {}
  OBVIOUS
<1>3. PICK U \in F : \A V \in F : ~ (<<V, U>> \in StrictSubsetOrdering(S))
  <2> HIDE DEF F
  <2> QED BY <1>1, <1>2, WFMin
<1>4. PICK v \in S : U = Above(v)
  BY <1>3
<1>5. ASSUME NEW w \in S, w > v PROVE FALSE
  <2>1. Above(w) \in F /\ Above(w) \subseteq U
    <3>1. \A x \in S : x > w => x > v
      <4>1. w \in Nat /\ v \in Nat /\ \A x \in S : x \in Nat
        OBVIOUS
      <4> QED BY <1>5, <4>1
    <3>3. Above(w) \subseteq Above(v)
      BY <3>1
    <3>2. Above(w) \in SUBSET S
      OBVIOUS
    <3> QED BY <1>4, <3>2, <3>3
  <2>2. w \in U /\ w \notin Above(w)
    BY <1>4, <1>5
  <2>3. <<Above(w), U>> \in StrictSubsetOrdering(S)
    <3> HIDE DEF Above
    <3>1. Above(w) # U /\ U \in SUBSET S /\ Above(w) \in SUBSET S
      BY <1>3, <2>1, <2>2
    <3> QED BY <2>1, <3>1 DEF StrictSubsetOrdering
  <2> QED BY <1>3, <2>1, <2>3
<1> QED BY <1>5

LEMMA HighestIn ==
  ASSUME NEW S \in SUBSET Nat, IsFiniteSet(S), S # {}
  PROVE  Highest(S) \in S
BY GreatestExists DEF Highest

LEMMA HighestOfInterval ==
  ASSUME NEW n \in Nat
  PROVE  Highest(1..n) = n
<1>1. CASE n = 0
  BY <1>1 DEF Highest
<1>2. CASE n # 0
  <2>1. n \in 1..n /\ \A w \in 1..n : w <= n
    BY <1>2
  <2>2. Highest(1..n) \in 1..n /\ \A w \in 1..n : w <= Highest(1..n)
    BY <2>1 DEF Highest
  <2> QED BY <2>1, <2>2
<1> QED BY <1>1, <1>2

LEMMA LatestIn ==
  ASSUME attempts \in Seq(Attempt), NEW r, NEW s
  PROVE  /\ Latest(r, s) \in 0..Len(attempts)
         /\ Latest(r, s) # 0 => Latest(r, s) \in Of(r, s)
         /\ Latest(r, s) = 0 => Of(r, s) = {}
<1>1. DOMAIN attempts = 1..Len(attempts) /\ Len(attempts) \in Nat
  OBVIOUS
<1>2. Of(r, s) \subseteq 1..Len(attempts)
  BY <1>1 DEF Of
<1>3. IsFiniteSet(Of(r, s)) /\ Of(r, s) \in SUBSET Nat
  <2>1. IsFiniteSet(1..Len(attempts))
    BY <1>1, FS_Interval
  <2> QED BY <1>1, <1>2, <2>1, FS_Subset
<1>4. Of(r, s) # {} => Highest(Of(r, s)) \in Of(r, s)
  BY <1>3, HighestIn
<1>5. Of(r, s) = {} => Latest(r, s) = 0
  BY DEF Latest, Highest
<1> QED BY <1>1, <1>2, <1>4, <1>5 DEF Latest

-----------------------------------------------------------------------------
(* Where the processes are *)

LEMMA OffIsProcess == Off \in Process /\ Consistent(Off)
                      /\ [Off EXCEPT !.pc = "ready"] \in Process
                      /\ Consistent([Off EXCEPT !.pc = "ready"])
                      /\ [Off EXCEPT !.pc = "reading"] \in Process
                      /\ Consistent([Off EXCEPT !.pc = "reading"])
BY ConstantFacts DEF Off, Process, Consistent, Pcs, AllStatuses, StepNames, InCall, Ops

\* A step of one process.
LEMMA Moves ==
  ASSUME ProcInv, NEW p \in Procs, NEW x \in Process, Goes(p, x)
  PROVE  /\ proc' \in [Procs -> Process]
         /\ \A q \in Procs : proc'[q] = IF q = p THEN x ELSE proc[q]
BY DEF ProcInv, Goes

\* What the process that moves becomes, for each action.
Next1(p, x) ==
  /\ x \in Process /\ Consistent(x) /\ Goes(p, x)
  /\ x.pc \in Migration => p \in setup.migrating

LEMMA ToApplyIsProcess ==
  ASSUME NEW p \in Procs, proc[p] \in Process, Consistent(proc[p]), proc[p].pc \in Migration,
         NEW v \in Nat, applied \subseteq 1..Versions
  PROVE  ToApply(p, v) \in Process /\ Consistent(ToApply(p, v))
         /\ ToApply(p, v).pc \in {"ready", "applying"}
<1>1. CASE v >= Versions
  BY <1>1, OffIsProcess DEF ToApply, Off
<1>2. CASE ~ (v >= Versions)
  <2>1. ToApply(p, v) = [proc[p] EXCEPT !.pc = "applying", !.at = v + 1, !.saw = applied]
    BY <1>2 DEF ToApply
  <2>2. v + 1 \in 0..Versions
    BY <1>2, ConstantFacts
  <2>3. [proc[p] EXCEPT !.pc = "applying", !.at = v + 1, !.saw = applied] \in Process
    BY <2>2 DEF Process, Pcs
  <2>4. Consistent([proc[p] EXCEPT !.pc = "applying", !.at = v + 1, !.saw = applied])
    BY DEF Process, Consistent, Migration, InCall
  <2> QED BY <2>1, <2>3, <2>4 DEF Process
<1> QED BY <1>1, <1>2

LEMMA MigrationMoves ==
  ASSUME ProcInv, MigrationInv, NEW p \in Procs,
         Connect(p) \/ ReadVersion(p) \/ ApplyMigration(p) \/ MigrationCollides(p) \/ RecordVersion(p)
  PROVE  \E x : Next1(p, x)
<1> USE DEF Next1
<1>1. proc[p] \in Process /\ Consistent(proc[p]) /\ applied \subseteq 1..Versions
  BY ConstantFacts DEF ProcInv, MigrationInv
<1>2. CASE Connect(p)
  <2>1. CASE p \in setup.migrating
    BY <1>2, <2>1, OffIsProcess DEF Connect
  <2>2. CASE p \notin setup.migrating
    BY <1>2, <2>2, OffIsProcess DEF Connect, Migration, Off
  <2> QED BY <2>1, <2>2
<1>3. CASE ReadVersion(p)
  <2>1. PICK n \in 0..Versions : recorded = 1..n
    BY DEF MigrationInv
  <2>2. Highest(recorded) \in Nat
    BY <2>1, HighestOfInterval, ConstantFacts
  <2>3. p \in setup.migrating /\ proc[p].pc \in Migration
    BY <1>3 DEF ReadVersion, At, ProcInv, Migration
  <2>4. Goes(p, ToApply(p, Highest(recorded)))
    BY <1>3 DEF ReadVersion
  <2> QED BY <1>1, <2>2, <2>3, <2>4, ToApplyIsProcess
<1>4. CASE ApplyMigration(p)
  <2> DEFINE x == [proc[p] EXCEPT !.pc = "recording"]
  <2>1. p \in setup.migrating /\ proc[p].pc \in Migration /\ Goes(p, x)
    BY <1>4 DEF ApplyMigration, At, ProcInv, Migration
  <2>2. x \in Process /\ Consistent(x)
    BY <1>1, <2>1 DEF Process, Pcs, Consistent, Migration, InCall
  <2> QED BY <2>1, <2>2
<1>5. CASE MigrationCollides(p)
  BY <1>5, OffIsProcess DEF MigrationCollides, Migration, Off
<1>6. CASE RecordVersion(p)
  <2>1. p \in setup.migrating /\ proc[p].pc \in Migration /\ proc[p].at \in Nat
    BY <1>6, ConstantFacts DEF RecordVersion, At, ProcInv, Migration, MigrationInv
  <2>2. Goes(p, ToApply(p, proc[p].at))
    BY <1>6 DEF RecordVersion
  <2> QED BY <1>1, <2>1, <2>2, ToApplyIsProcess
<1> QED BY <1>2, <1>3, <1>4, <1>5, <1>6

\* The record that follows a call's statement, or the end of the call.
LEMMA ExecutionMoves ==
  ASSUME ProcInv, RowInv, NEW p \in Procs,
         \/ \E r \in setup.runs : Start(p, r) /\ proc' # proc
         \/ \E r \in setup.runs : Resume(p, r)
         \/ Call(p) \/ Get(p) \/ Update(p) \/ Select(p) \/ Put(p)
  PROVE  \E x : Next1(p, x)
<1> USE DEF Next1
<1>1. proc[p] \in Process /\ Consistent(proc[p])
  BY DEF ProcInv
<1>2. setup.runs \subseteq Runs /\ setup.steps \subseteq Steps
  BY ConstantFacts DEF ProcInv, Schema
<1>3. ASSUME NEW r \in setup.runs, (Start(p, r) /\ proc' # proc) \/ Resume(p, r)
      PROVE  \E x : Next1(p, x)
  <2> DEFINE x == [proc[p] EXCEPT !.pc = "running", !.run = r]
  <2>1. At(p, "ready") /\ Goes(p, x)
    BY <1>3 DEF Start, Resume
  <2>2. x \in Process
    BY <1>1, <1>2 DEF Process, Pcs
  <2>3. Consistent(x)
    BY <1>1, <1>2, <2>1 DEF Consistent, Process, At, InCall
  <2>4. x.pc = "running"
    BY <1>1 DEF Process
  <2> HIDE DEF x
  <2> QED BY <2>1, <2>2, <2>3, <2>4 DEF Migration
<1>4. CASE Call(p)
  <2>1. PICK op \in Ops, s \in Steps \union {proc[p].task},
             status \in {"suspended", "running", "completed", "failed"} :
          /\ Goes(p, [proc[p] EXCEPT !.pc = "get", !.op = op, !.task = s, !.status = status])
          /\ op = "checkpoint" => status = "running" /\ s \in Steps
          /\ op = "suspend" => status = "suspended" /\ s \in Steps
          /\ op = "finish" => status \in {"completed", "failed"}
    <3>1. CASE \E s \in setup.steps, op \in {"checkpoint", "suspend"} :
                 Goes(p, [proc[p] EXCEPT !.pc = "get", !.op = op, !.task = s,
                            !.status = IF op = "suspend" THEN "suspended" ELSE "running"])
      BY <3>1, <1>2 DEF Ops
    <3>2. CASE \E status \in {"completed", "failed"} :
                 Goes(p, [proc[p] EXCEPT !.pc = "get", !.op = "finish", !.status = status])
      <4>1. PICK status \in {"completed", "failed"} :
              Goes(p, [proc[p] EXCEPT !.pc = "get", !.op = "finish", !.status = status])
        BY <3>2
      <4>2. [proc[p] EXCEPT !.pc = "get", !.op = "finish", !.status = status]
              = [proc[p] EXCEPT !.pc = "get", !.op = "finish", !.task = proc[p].task, !.status = status]
        BY <1>1 DEF Process
      <4> QED BY <4>1, <4>2 DEF Ops
    <3> QED BY <1>4, <3>1, <3>2 DEF Call
  <2> DEFINE x == [proc[p] EXCEPT !.pc = "get", !.op = op, !.task = s, !.status = status]
  <2>2. At(p, "running")
    BY <1>4 DEF Call
  <2>3. x \in Process /\ x.pc = "get"
    <3>1. op \in Ops \union {None} /\ status \in AllStatuses /\ "get" \in Pcs
      BY DEF AllStatuses, Pcs
    <3>2. s \in StepNames \union {None}
      BY <1>1 DEF Process, StepNames
    <3>3. proc[p] \in Process
      BY <1>1
    <3>4. x \in Process
      BY <3>1, <3>2, <3>3 DEF Process
    <3>5. x.pc = "get"
      BY <3>3 DEF Process
    <3> QED BY <3>4, <3>5
  <2>4. x.run = proc[p].run /\ x.op = op /\ x.task = s /\ x.status = status
    BY <1>1 DEF Process
  <2>5. Consistent(x)
    BY <1>1, <2>1, <2>2, <2>3, <2>4, ConstantFacts DEF Consistent, At, InCall
  <2> QED BY <2>1, <2>3, <2>5 DEF Migration
<1>5. CASE Get(p)
  <2> DEFINE t == IF proc[p].op = "finish" THEN Name(row[proc[p].run].task) ELSE proc[p].task
             x == [proc[p] EXCEPT !.pc = "update", !.task = t]
  <2>1. At(p, "get") /\ Goes(p, x)
    BY <1>5, <1>1 DEF Get, Process
  <2>2. proc[p].run \in Runs
    BY <1>1, <2>1 DEF Consistent, At, InCall
  <2>3. t \in StepNames \union {None} /\ (proc[p].op = "finish" => t \in StepNames)
        /\ (proc[p].op # "finish" => t = proc[p].task)
    BY <1>1, <2>2 DEF Process, RowInv, RowType, Name, StepNames
  <2> HIDE DEF t
  <2>4. x \in Process /\ x.pc = "update"
    BY <1>1, <2>3 DEF Process, Pcs
  <2>5. x.run = proc[p].run /\ x.op = proc[p].op /\ x.task = t /\ x.status = proc[p].status
    BY <1>1 DEF Process
  <2>6. Consistent(x)
    BY <1>1, <2>1, <2>3, <2>4, <2>5 DEF Consistent, At, InCall
  <2> QED BY <2>1, <2>4, <2>6 DEF Migration
<1>6. CASE Update(p)
  <2>1. At(p, "update")
    BY <1>6 DEF Update
  <2>2. CASE proc[p].op = "suspend"
    BY <1>6, <2>2, OffIsProcess DEF Update, Migration, Off
  <2>3. CASE proc[p].op # "suspend"
    <3> DEFINE x == [proc[p] EXCEPT !.pc = "select"]
    <3>1. Goes(p, x)
      BY <1>6, <2>3 DEF Update
    <3>2. x \in Process /\ x.pc = "select"
      BY <1>1 DEF Process, Pcs
    <3>3. Consistent(x)
      BY <1>1, <2>1, <2>3 DEF Consistent, Process, At, InCall
    <3> QED BY <3>1, <3>2, <3>3 DEF Migration
  <2> QED BY <2>2, <2>3
<1>7. CASE Select(p)
  <2> DEFINE x == [proc[p] EXCEPT !.pc = "put", !.latest = Latest(proc[p].run, proc[p].task)]
  <2>1. At(p, "select") /\ Goes(p, x)
    BY <1>7 DEF Select
  <2>2. Latest(proc[p].run, proc[p].task) \in Nat
    BY LatestIn DEF RowInv
  <2>3. x \in Process /\ x.pc = "put"
    BY <1>1, <2>2 DEF Process, Pcs
  <2>4. Consistent(x)
    BY <1>1, <2>1 DEF Consistent, Process, At, InCall
  <2> QED BY <2>1, <2>3, <2>4 DEF Migration
<1>8. CASE Put(p)
  <2>1. At(p, "put")
    BY <1>8 DEF Put
  <2>2. CASE proc[p].op = "finish"
    BY <1>8, <2>2, OffIsProcess DEF Put, Migration, Off
  <2>3. CASE proc[p].op # "finish"
    <3> DEFINE x == [proc[p] EXCEPT !.pc = "running", !.task = None, !.op = None, !.latest = 0]
    <3>1. Goes(p, x)
      BY <1>8, <2>3 DEF Put
    <3>2. x \in Process /\ x.pc = "running" /\ x.op = None
      BY <1>1 DEF Process, Pcs
    <3>3. Consistent(x)
      BY <1>1, <2>1, <3>2, ConstantFacts DEF Consistent, Process, At, InCall, Ops
    <3> QED BY <3>1, <3>2, <3>3 DEF Migration
  <2> QED BY <2>2, <2>3
<1> QED BY <1>3, <1>4, <1>5, <1>6, <1>7, <1>8

\* A failed statement ends the method, the execution or its checkpoint.
FailsTo(x) ==
  CASE x.op = None -> Off
    [] x.op = "checkpoint" ->
         [x EXCEPT !.pc = "get", !.op = "finish", !.status = "failed", !.latest = 0]
    [] OTHER -> [Off EXCEPT !.pc = "ready"]

LEMMA FailedProcess ==
  ASSUME NEW x \in Process, Consistent(x)
  PROVE  /\ FailsTo(x) \in Process /\ Consistent(FailsTo(x)) /\ FailsTo(x).pc \in {"off", "get", "ready"}
         /\ FailsTo(x).latest = 0
         /\ FailsTo(x).run # None => FailsTo(x).run = x.run /\ x.op = "checkpoint"
         /\ FailsTo(x).pc = "get" <=> x.op = "checkpoint"
         /\ FailsTo(x).pc = "ready" => x.op # None
<1>1. CASE x.op = None
  BY <1>1, OffIsProcess, ConstantFacts DEF FailsTo, Off, Ops
<1>2. CASE x.op = "checkpoint"
  <2> DEFINE y == [x EXCEPT !.pc = "get", !.op = "finish", !.status = "failed", !.latest = 0]
  <2>1. FailsTo(x) = y
    BY <1>2, ConstantFacts DEF FailsTo, Ops
  <2>2. y \in Process /\ y.pc = "get" /\ y.latest = 0 /\ y.run = x.run
    BY DEF Process, Pcs, Ops, AllStatuses
  <2>3. Consistent(y)
    BY <1>2, ConstantFacts DEF Process, Consistent, InCall, Ops
  <2> QED BY <1>2, <2>1, <2>2, <2>3
<1>3. CASE x.op # None /\ x.op # "checkpoint"
  BY <1>3, OffIsProcess DEF FailsTo, Off
<1> QED BY <1>1, <1>2, <1>3

LEMMA FaultMoves ==
  ASSUME ProcInv, NEW p \in Procs, Die(p) \/ StatementRaises(p)
  PROVE  \E x : Next1(p, x)
<1>1. CASE Die(p)
  BY <1>1, OffIsProcess DEF Next1, Die, Migration, Off
<1>2. CASE StatementRaises(p)
  <2>1. Goes(p, FailsTo(proc[p]))
    BY <1>2 DEF StatementRaises, FailsTo
  <2> QED BY <2>1, FailedProcess DEF ProcInv, Next1, Migration
<1> QED BY <1>1, <1>2

LEMMA ProcInit == Init => ProcInv
<1> SUFFICES ASSUME Init PROVE ProcInv
  OBVIOUS
<1>1. setup.starts \in Nat /\ setup.faults \in Nat
  BY ConstantFacts DEF Init, Schema
<1>2. \A p \in Procs : proc[p] = Off
  BY DEF Init
<1>3. proc \in [Procs -> Process] /\ Off.pc \notin Migration
  BY OffIsProcess DEF Init, Off, Migration
<1>4. setup \in Setups /\ starts = 0 /\ faults = 0
  BY DEF Init
<1> QED BY <1>1, <1>2, <1>3, <1>4, OffIsProcess DEF ProcInv

LEMMA ProcStep == ProcInv /\ MigrationInv /\ RowInv /\ [Next]_vars => ProcInv'
<1> SUFFICES ASSUME ProcInv, MigrationInv, RowInv, [Next]_vars PROVE ProcInv'
  OBVIOUS
<1>1. ASSUME NEW p \in Procs, NEW x, Next1(p, x), setup' = setup,
             starts' \in 0..setup.starts, faults' \in 0..setup.faults
      PROVE  ProcInv'
  BY <1>1, Moves DEF Next1, ProcInv
<1>2. setup.starts \in Nat /\ setup.faults \in Nat /\ starts \in 0..setup.starts
      /\ faults \in 0..setup.faults
  BY ConstantFacts DEF ProcInv, Schema
<1>3. ASSUME UNCHANGED <<proc, setup, faults>>, starts' \in 0..setup.starts PROVE ProcInv'
  BY <1>3 DEF ProcInv
<1>4. CASE UNCHANGED vars
  BY <1>3, <1>4, <1>2 DEF vars
<1>5. ASSUME NEW p \in Procs,
             Connect(p) \/ ReadVersion(p) \/ ApplyMigration(p) \/ MigrationCollides(p) \/ RecordVersion(p)
      PROVE  ProcInv'
  <2>1. UNCHANGED <<setup, starts, faults>>
    BY <1>5 DEF Connect, ReadVersion, ApplyMigration, MigrationCollides, RecordVersion
  <2> QED BY <1>1, <1>2, <1>5, <2>1, MigrationMoves
<1>6. ASSUME NEW p \in Procs, NEW r \in setup.runs, Start(p, r) \/ Resume(p, r) PROVE ProcInv'
  <2>1. UNCHANGED <<setup, faults>> /\ starts' \in 0..setup.starts
    BY <1>2, <1>6 DEF Start, Resume
  <2>2. CASE proc' = proc
    BY <1>3, <2>1, <2>2
  <2>3. CASE proc' # proc
    BY <1>1, <1>2, <1>6, <2>1, <2>3, ExecutionMoves
  <2> QED BY <2>2, <2>3
<1>7. ASSUME NEW p \in Procs, Call(p) \/ Get(p) \/ Update(p) \/ Select(p) \/ Put(p)
      PROVE  ProcInv'
  <2>1. UNCHANGED <<setup, starts, faults>>
    BY <1>7 DEF Call, Get, Update, Select, Put
  <2> QED BY <1>1, <1>2, <1>7, <2>1, ExecutionMoves
<1>8. ASSUME NEW p \in Procs, Die(p) \/ StatementRaises(p) PROVE ProcInv'
  <2>1. UNCHANGED <<setup, starts>> /\ faults' \in 0..setup.faults
    BY <1>2, <1>8 DEF Die, StatementRaises
  <2> QED BY <1>1, <1>2, <1>8, <2>1, FaultMoves
<1>9. CASE BeginList \/ NextPage \/ ScrapeCounts \/ ScrapeDurations \/ ScrapeFailures
  BY <1>2, <1>3, <1>9 DEF BeginList, NextPage, ScrapeCounts, ScrapeDurations, ScrapeFailures
<1> QED BY <1>4, <1>5, <1>6, <1>7, <1>8, <1>9 DEF Next

-----------------------------------------------------------------------------
(* The migrations *)

\* The obligations of a step of one process, and of the versions it adds.
LEMMA MigrationKept ==
  ASSUME ProcInv, MigrationInv, NEW p \in Procs, NEW x \in Process, Goes(p, x),
         setup' = setup,
         applied \subseteq applied', recorded \subseteq recorded', recorded' \subseteq applied',
         \E n \in 0..Versions : recorded' = 1..n,
         \E n \in 0..Versions : applied' = 1..n,
         x.pc \in {"applying", "recording"} => x.at \in 1..Versions /\ 1..(x.at - 1) \subseteq recorded',
         x.pc = "recording" => x.at \in applied',
         p \in setup.migrating /\ x.pc \in InCall \union {"ready", "running"} => applied' = 1..Versions
  PROVE  MigrationInv'
<1>1. \A q \in Procs : proc'[q] = IF q = p THEN x ELSE proc[q]
  BY Moves
<1>2. applied' \subseteq 1..Versions
  BY ConstantFacts
<1>3. setup.migrating \subseteq Procs
  BY ConstantFacts DEF ProcInv, Schema
<1>4. \A q \in Procs : proc'[q].pc \in {"applying", "recording"} =>
        proc'[q].at \in 1..Versions /\ 1..(proc'[q].at - 1) \subseteq recorded'
  BY <1>1 DEF MigrationInv
<1>5. \A q \in Procs : proc'[q].pc = "recording" => proc'[q].at \in applied'
  BY <1>1 DEF MigrationInv
<1>6. \A q \in setup.migrating :
        proc'[q].pc \in InCall \union {"ready", "running"} => applied' = 1..Versions
  <2> SUFFICES ASSUME NEW q \in setup.migrating, proc'[q].pc \in InCall \union {"ready", "running"}
               PROVE  applied' = 1..Versions
    OBVIOUS
  <2>1. CASE q = p
    BY <1>1, <1>3, <2>1
  <2>2. CASE q # p
    <3>1. applied = 1..Versions
      BY <1>1, <1>3, <2>2 DEF MigrationInv
    <3> QED BY <1>2, <3>1
  <2> QED BY <2>1, <2>2
<1> QED BY <1>4, <1>5, <1>6 DEF MigrationInv

\* The migration that is applied next follows the recorded ones.
LEMMA NextVersion ==
  ASSUME ProcInv, MigrationInv, NEW p \in Procs, NEW v \in 0..Versions, proc[p].pc \in Migration,
         1..v \subseteq recorded', recorded' \subseteq applied'
  PROVE  /\ ToApply(p, v).pc = "applying" => ToApply(p, v).at \in 1..Versions
                                             /\ 1..(ToApply(p, v).at - 1) \subseteq recorded'
         /\ ToApply(p, v).pc \in {"applying", "ready"}
         /\ ToApply(p, v).pc = "ready" => 1..Versions \subseteq applied'
<1>1. v \in Nat /\ proc[p] \in Process
  BY ConstantFacts DEF ProcInv
<1>2. CASE v >= Versions
  <2>1. ToApply(p, v).pc = "ready" /\ v = Versions
    BY <1>1, <1>2, ConstantFacts DEF ToApply, Off
  <2> QED BY <2>1
<1>3. CASE ~ (v >= Versions)
  <2> DEFINE x == [proc[p] EXCEPT !.pc = "applying", !.at = v + 1, !.saw = applied]
  <2>1. ToApply(p, v) = x
    BY <1>3 DEF ToApply
  <2>2. x.pc = "applying" /\ x.at = v + 1
    BY <1>1 DEF Process
  <2>3. v + 1 \in 1..Versions /\ (v + 1) - 1 = v
    BY <1>1, <1>3, ConstantFacts
  <2> QED BY <2>1, <2>2, <2>3
<1> QED BY <1>2, <1>3

LEMMA MigrationInit == Init => MigrationInv
<1> SUFFICES ASSUME Init PROVE MigrationInv
  OBVIOUS
<1>1. setup.version \in 0..Versions /\ setup.migrating \subseteq Procs
  BY ConstantFacts DEF Init, Schema
<1>2. \A p \in Procs : proc[p].pc = "off"
  BY DEF Init, Off
<1> QED BY <1>1, <1>2 DEF Init, MigrationInv, InCall

LEMMA MigrationStep == ProcInv /\ MigrationInv /\ RowInv /\ [Next]_vars => MigrationInv'
<1> SUFFICES ASSUME ProcInv, MigrationInv, RowInv, [Next]_vars PROVE MigrationInv'
  OBVIOUS
<1>0. /\ \E n \in 0..Versions : recorded = 1..n
      /\ \E n \in 0..Versions : applied = 1..n
      /\ recorded \subseteq applied
      /\ \A p \in Procs : proc[p] \in Process /\ Consistent(proc[p])
  BY DEF ProcInv, MigrationInv
<1>1. ASSUME UNCHANGED <<setup, dbVars, proc>> PROVE MigrationInv'
  BY <1>1 DEF MigrationInv, dbVars
<1>2. ASSUME NEW p \in Procs, NEW x, Next1(p, x), UNCHANGED <<setup, dbVars>>,
             x.pc \notin {"applying", "recording"},
             p \in setup.migrating /\ x.pc \in InCall \union {"ready", "running"} =>
               proc[p].pc \in InCall \union {"ready", "running"}
      PROVE  MigrationInv'
  <2>1. applied' = applied /\ recorded' = recorded /\ setup' = setup
    BY <1>2 DEF dbVars
  <2>2. p \in setup.migrating /\ x.pc \in InCall \union {"ready", "running"} => applied' = 1..Versions
    BY <1>2, <2>1 DEF MigrationInv
  <2> QED BY <1>0, <1>2, <2>1, <2>2, MigrationKept DEF Next1
<1>3. CASE UNCHANGED vars
  BY <1>1, <1>3 DEF vars
<1>4. ASSUME NEW p \in Procs, Connect(p) PROVE MigrationInv'
  <2> DEFINE x == [Off EXCEPT !.pc = IF p \in setup.migrating THEN "reading" ELSE "ready"]
  <2>1. Next1(p, x)
    BY <1>4, MigrationMoves, OffIsProcess DEF Connect, Next1, Migration, Off
  <2>2. x.pc = IF p \in setup.migrating THEN "reading" ELSE "ready"
    BY DEF Off
  <2>3. UNCHANGED <<setup, dbVars>>
    BY <1>4 DEF Connect
  <2> HIDE DEF x
  <2> QED BY <1>2, <2>1, <2>2, <2>3 DEF InCall
<1>5. ASSUME NEW p \in Procs, ReadVersion(p) PROVE MigrationInv'
  <2>1. PICK n \in 0..Versions : recorded = 1..n
    BY <1>0
  <2>2. Highest(recorded) = n
    BY <2>1, HighestOfInterval, ConstantFacts
  <2>3. recorded' = recorded /\ applied' = applied /\ setup' = setup /\ proc[p].pc \in Migration
        /\ Goes(p, ToApply(p, n))
    BY <1>5, <2>2 DEF ReadVersion, dbVars, At, Migration
  <2>4. ToApply(p, n) \in Process
    BY <1>0, <2>3, ToApplyIsProcess, ConstantFacts
  <2>5. ToApply(p, n).pc = "ready" => applied' = 1..Versions
    BY <1>0, <2>1, <2>3, NextVersion, ConstantFacts
  <2> QED BY <1>0, <2>1, <2>3, <2>4, <2>5, NextVersion, MigrationKept DEF InCall
<1>6. ASSUME NEW p \in Procs, ApplyMigration(p) PROVE MigrationInv'
  <2> DEFINE x == [proc[p] EXCEPT !.pc = "recording"]
  <2>1. /\ applied' = applied \union {proc[p].at} /\ recorded' = recorded /\ setup' = setup
        /\ Goes(p, x) /\ proc[p].pc = "applying"
    BY <1>6 DEF ApplyMigration, At
  <2>2. proc[p].at \in 1..Versions /\ 1..(proc[p].at - 1) \subseteq recorded
    BY <2>1 DEF MigrationInv
  <2>3. PICK n \in 0..Versions : applied = 1..n
    BY <1>0
  <2>4. proc[p].at <= n + 1
    <3>1. CASE proc[p].at = 1
      BY <3>1, <2>3
    <3>2. CASE proc[p].at # 1
      <4>1. proc[p].at - 1 \in 1..n
        <5>1. proc[p].at - 1 \in 1..(proc[p].at - 1)
          BY <3>2, <2>2, ConstantFacts
        <5>2. recorded \subseteq applied
          BY <1>0
        <5> QED BY <5>1, <5>2, <2>2, <2>3
      <4> QED BY <4>1, <2>2, <2>3, ConstantFacts
    <3> QED BY <3>1, <3>2
  <2>5. \E m \in 0..Versions : applied' = 1..m
    <3>1. CASE proc[p].at <= n
      BY <3>1, <2>1, <2>2, <2>3
    <3>2. CASE proc[p].at = n + 1
      <4>1. applied' = 1..(n + 1) /\ n + 1 \in 0..Versions
        BY <3>2, <2>1, <2>2, <2>3
      <4> QED BY <4>1
    <3> QED BY <2>2, <2>3, <2>4, <3>1, <3>2
  <2>6. x \in Process /\ x.pc = "recording" /\ x.at = proc[p].at
    BY <1>0 DEF Process, Pcs
  <2> HIDE DEF x
  <2> QED BY <1>0, <2>1, <2>2, <2>5, <2>6, MigrationKept DEF InCall
<1>7. ASSUME NEW p \in Procs, MigrationCollides(p) PROVE MigrationInv'
  <2>1. UNCHANGED <<setup, dbVars>> /\ Next1(p, Off)
    BY <1>7, OffIsProcess DEF MigrationCollides, Next1, Off, Migration
  <2>2. Off.pc = "off"
    BY DEF Off
  <2> QED BY <1>2, <2>1, <2>2 DEF InCall
<1>8. ASSUME NEW p \in Procs, RecordVersion(p) PROVE MigrationInv'
  <2>1. /\ recorded' = recorded \union {proc[p].at} /\ applied' = applied /\ setup' = setup
        /\ Goes(p, ToApply(p, proc[p].at)) /\ proc[p].pc = "recording" /\ proc[p].pc \in Migration
    BY <1>8 DEF RecordVersion, At, Migration
  <2>2. proc[p].at \in 1..Versions /\ 1..(proc[p].at - 1) \subseteq recorded /\ proc[p].at \in applied
    BY <2>1 DEF MigrationInv
  <2>3. PICK n \in 0..Versions : recorded = 1..n
    BY <1>0
  <2>4. proc[p].at <= n + 1
    <3>1. CASE proc[p].at = 1
      BY <3>1, <2>3
    <3>2. CASE proc[p].at # 1
      <4>1. proc[p].at - 1 \in 1..n
        BY <3>2, <2>2, <2>3, ConstantFacts
      <4> QED BY <4>1, <2>2, <2>3, ConstantFacts
    <3> QED BY <3>1, <3>2
  <2>5. \E m \in 0..Versions : recorded' = 1..m
    <3>1. CASE proc[p].at <= n
      BY <3>1, <2>1, <2>2, <2>3
    <3>2. CASE proc[p].at = n + 1
      <4>1. recorded' = 1..(n + 1) /\ n + 1 \in 0..Versions
        BY <3>2, <2>1, <2>2, <2>3
      <4> QED BY <4>1
    <3> QED BY <2>2, <2>3, <2>4, <3>1, <3>2
  <2>6. 1..proc[p].at \subseteq recorded' /\ proc[p].at \in 0..Versions
    BY <2>1, <2>2, ConstantFacts
  <2>7. ToApply(p, proc[p].at) \in Process
    BY <1>0, <2>1, <2>6, ToApplyIsProcess, ConstantFacts
  <2>8. recorded' \subseteq applied' /\ applied' \subseteq 1..Versions
    BY <1>0, <2>1, <2>2, ConstantFacts
  <2>9. ToApply(p, proc[p].at).pc = "ready" => applied' = 1..Versions
    BY <2>1, <2>6, <2>8, NextVersion
  <2> QED BY <1>0, <2>1, <2>5, <2>6, <2>7, <2>8, <2>9, NextVersion, MigrationKept DEF InCall
<1>9. ASSUME NEW p \in Procs, NEW r \in setup.runs, Start(p, r) \/ Resume(p, r)
      PROVE  MigrationInv'
  <2>1. UNCHANGED <<setup, dbVars>> /\ proc[p].pc = "ready"
    BY <1>9 DEF Start, Resume, At
  <2>2. CASE proc' = proc
    BY <1>1, <2>1, <2>2
  <2>3. CASE proc' # proc
    <3>1. PICK x : Next1(p, x)
      BY <1>9, <2>3, ExecutionMoves
    <3>2. x = [proc[p] EXCEPT !.pc = "running", !.run = r]
      <4>1. Goes(p, [proc[p] EXCEPT !.pc = "running", !.run = r]) /\ Goes(p, x)
        BY <1>9, <2>3, <3>1 DEF Start, Resume, Next1
      <4>2. p \in DOMAIN proc
        BY DEF ProcInv
      <4> QED BY <4>1, <4>2 DEF Goes
    <3>3. x.pc = "running"
      BY <1>0, <3>2 DEF Process
    <3> QED BY <1>2, <2>1, <3>1, <3>3 DEF InCall
  <2> QED BY <2>2, <2>3
<1>10. ASSUME NEW p \in Procs, Call(p) \/ Get(p) \/ Update(p) \/ Select(p) \/ Put(p)
       PROVE  MigrationInv'
  <2>1. UNCHANGED <<setup, dbVars>> /\ proc[p].pc \in InCall \union {"running"}
    BY <1>10 DEF Call, Get, Update, Select, Put, At, InCall
  <2>2. PICK x : Next1(p, x)
    BY <1>10, ExecutionMoves
  <2>3. x.pc \notin Migration
    <3>1. x = proc'[p]
      BY <2>2, Moves DEF Next1
    <3>2. \A y \in Process : \A z : [y EXCEPT !.pc = z].pc = z
      BY DEF Process
    <3>3. Off.pc = "off" /\ [Off EXCEPT !.pc = "ready"].pc = "ready"
      BY DEF Off
    <3>4. x.pc \in InCall \union {"off", "ready", "running"}
      <4>1. CASE Call(p)
        <5>1. \E y : proc' = [proc EXCEPT ![p] = y] /\ y.pc = "get"
          <6>2. CASE \E s \in setup.steps, op \in {"checkpoint", "suspend"} :
                       Goes(p, [proc[p] EXCEPT !.pc = "get", !.op = op, !.task = s,
                                  !.status = IF op = "suspend" THEN "suspended" ELSE "running"])
            <7>1. PICK s, op, status :
                    Goes(p, [proc[p] EXCEPT !.pc = "get", !.op = op, !.task = s, !.status = status])
              BY <6>2
            <7> DEFINE z == [proc[p] EXCEPT !.pc = "get", !.op = op, !.task = s, !.status = status]
            <7>2. z.pc = "get"
              BY <1>0 DEF Process
            <7>3. proc' = [proc EXCEPT ![p] = z]
              BY <7>1 DEF Goes
            <7> HIDE DEF z
            <7> QED BY <7>2, <7>3
          <6>3. CASE \E status \in {"completed", "failed"} :
                       Goes(p, [proc[p] EXCEPT !.pc = "get", !.op = "finish", !.status = status])
            <7>1. PICK status :
                    Goes(p, [proc[p] EXCEPT !.pc = "get", !.op = "finish", !.status = status])
              BY <6>3
            <7> DEFINE z == [proc[p] EXCEPT !.pc = "get", !.op = "finish", !.status = status]
            <7>2. z.pc = "get"
              BY <1>0 DEF Process
            <7>3. proc' = [proc EXCEPT ![p] = z]
              BY <7>1 DEF Goes
            <7> HIDE DEF z
            <7> QED BY <7>2, <7>3
          <6> QED BY <4>1, <6>2, <6>3 DEF Call
        <5> QED BY <5>1, <3>1 DEF ProcInv, InCall
      <4>2. CASE Get(p)
        BY <4>2, <1>0, <3>1 DEF Get, Goes, ProcInv, Process, InCall
      <4>3. CASE Update(p)
        BY <4>3, <1>0, <3>1, <3>3 DEF Update, Goes, ProcInv, Process, InCall
      <4>4. CASE Select(p)
        BY <4>4, <1>0, <3>1 DEF Select, Goes, ProcInv, Process, InCall
      <4>5. CASE Put(p)
        BY <4>5, <1>0, <3>1, <3>3 DEF Put, Goes, ProcInv, Process, InCall
      <4> QED BY <1>10, <4>1, <4>2, <4>3, <4>4, <4>5
    <3> QED BY <3>4 DEF InCall, Migration
  <2> QED BY <1>2, <2>1, <2>2, <2>3 DEF Migration
<1>11. ASSUME NEW p \in Procs, Die(p) PROVE MigrationInv'
  <2>1. UNCHANGED <<setup, dbVars>> /\ Next1(p, Off)
    BY <1>11, OffIsProcess DEF Die, Next1, Off, Migration
  <2>2. Off.pc = "off"
    BY DEF Off
  <2> QED BY <1>2, <2>1, <2>2 DEF InCall
<1>12. ASSUME NEW p \in Procs, StatementRaises(p) PROVE MigrationInv'
  <2>1. UNCHANGED <<setup, dbVars>> /\ Goes(p, FailsTo(proc[p]))
    BY <1>12 DEF StatementRaises, FailsTo
  <2>2. Next1(p, FailsTo(proc[p])) /\ FailsTo(proc[p]).pc \in {"off", "get", "ready"}
        /\ (FailsTo(proc[p]).pc # "off" => proc[p].op # None)
    BY <1>0, <2>1, FailedProcess, ConstantFacts DEF Next1, Migration, Ops
  <2>3. proc[p].op # None => proc[p].pc \in InCall
    BY <1>0 DEF Consistent
  <2> QED BY <1>2, <2>1, <2>2, <2>3 DEF InCall
<1>13. CASE BeginList \/ NextPage \/ ScrapeCounts \/ ScrapeDurations \/ ScrapeFailures
  BY <1>1, <1>13 DEF BeginList, NextPage, ScrapeCounts, ScrapeDurations, ScrapeFailures
<1> QED BY <1>3, <1>4, <1>5, <1>6, <1>7, <1>8, <1>9, <1>10, <1>11, <1>12, <1>13 DEF Next

-----------------------------------------------------------------------------
(* The rows and the attempts *)

LEMMA OffFits ==
  ASSUME RowInv
  PROVE  Fits(Off) /\ Fits([Off EXCEPT !.pc = "ready"]) /\ Fits([Off EXCEPT !.pc = "reading"])
BY ConstantFacts DEF Fits, Off, RowInv

\* Only the process that is about to write an attempt knows one.
LEMMA NoLatest ==
  ASSUME RowInv, NEW p \in Procs, proc[p].pc # "put"
  PROVE  proc[p].latest = 0
BY DEF RowInv, Fits

\* A step that leaves the database alone.
LEMMA RowKept ==
  ASSUME ProcInv, RowInv, NEW p \in Procs, NEW x \in Process, Goes(p, x), Fits(x),
         UNCHANGED <<row, created, attempts, overlapped, told>>,
         torn' \subseteq Runs, resumed' \subseteq Runs
  PROVE  RowInv'
<1>1. \A q \in Procs : proc'[q] = IF q = p THEN x ELSE proc[q]
  BY Moves
<1>2. \A q \in Procs : Fits(proc[q])
  BY DEF RowInv
<1>3. (\A q \in Procs : Fits(proc[q]))'
  BY <1>1, <1>2 DEF Fits, Of
<1> QED BY <1>3 DEF RowInv

\* Put writes one attempt and leaves the others.
LEMMA PutAttempts ==
  ASSUME ProcInv, RowInv, NEW p \in Procs, Put(p)
  PROVE  /\ attempts' \in Seq(Attempt)
         /\ \A i \in 1..Len(attempts) :
              /\ i \in 1..Len(attempts')
              /\ attempts'[i].run = attempts[i].run /\ attempts'[i].step = attempts[i].step
              /\ i # proc[p].latest => attempts'[i].status = attempts[i].status
         /\ proc[p].latest = 0 =>
              /\ Len(attempts') = Len(attempts) + 1
              /\ attempts'[Len(attempts) + 1] =
                   [run |-> proc[p].run, step |-> proc[p].task, status |-> proc[p].status]
         /\ proc[p].latest # 0 =>
              /\ Len(attempts') = Len(attempts)
              /\ attempts'[proc[p].latest].status = proc[p].status
         /\ proc[p].run \in Runs /\ proc[p].task \in StepNames /\ proc[p].op \in {"checkpoint", "finish"}
<1>1. proc[p] \in Process /\ Consistent(proc[p]) /\ Fits(proc[p]) /\ proc[p].pc = "put"
  BY DEF ProcInv, RowInv, Put, At
<1>2. proc[p].run \in Runs /\ proc[p].task \in StepNames /\ proc[p].op \in {"checkpoint", "finish"}
      /\ proc[p].status \in AllStatuses
  BY <1>1 DEF Consistent, Process, InCall, StepNames, Ops
<1>3. attempts \in Seq(Attempt)
  BY DEF RowInv
<1> DEFINE new == [run |-> proc[p].run, step |-> proc[p].task, status |-> proc[p].status]
<1>4. CASE proc[p].latest = 0
  <2>1. attempts' = Append(attempts, new) /\ new \in Attempt
    BY <1>2, <1>4 DEF Put, Attempt
  <2> HIDE DEF new
  <2>2. /\ attempts' \in Seq(Attempt) /\ Len(attempts') = Len(attempts) + 1
        /\ attempts'[Len(attempts) + 1] = new
        /\ \A i \in 1..Len(attempts) : i \in 1..Len(attempts') /\ attempts'[i] = attempts[i]
    BY <2>1, <1>3
  <2> QED BY <1>2, <1>4, <2>2 DEF new
<1>5. CASE proc[p].latest # 0
  <2> DEFINE l == proc[p].latest
  <2>1. l \in 1..Len(attempts)
    BY <1>1, <1>3, <1>5 DEF Fits
  <2>2. attempts' = [attempts EXCEPT ![l].status = proc[p].status]
    BY <1>5 DEF Put
  <2>3. attempts \in [1..Len(attempts) -> Attempt] /\ Len(attempts) \in Nat
    BY <1>3
  <2>4. attempts[l] \in Attempt /\ [attempts[l] EXCEPT !.status = proc[p].status] \in Attempt
    BY <2>1, <2>3, <1>2 DEF Attempt
  <2>5. attempts' = [attempts EXCEPT ![l] = [attempts[l] EXCEPT !.status = proc[p].status]]
    BY <2>2
  <2>6. attempts' \in [1..Len(attempts) -> Attempt]
    BY <2>3, <2>4, <2>5
  <2>7. attempts' \in Seq(Attempt) /\ Len(attempts') = Len(attempts)
    BY <2>3, <2>6
  <2>8. /\ [attempts[l] EXCEPT !.status = proc[p].status].run = attempts[l].run
        /\ [attempts[l] EXCEPT !.status = proc[p].status].step = attempts[l].step
        /\ [attempts[l] EXCEPT !.status = proc[p].status].status = proc[p].status
    BY <2>4 DEF Attempt
  <2> HIDE DEF l
  <2>9. \A i \in 1..Len(attempts) :
          attempts'[i] = IF i = l THEN [attempts[l] EXCEPT !.status = proc[p].status] ELSE attempts[i]
    BY <2>3, <2>5
  <2> QED BY <1>2, <1>5, <2>1, <2>7, <2>8, <2>9 DEF l
<1> QED BY <1>4, <1>5

LEMMA PutKeepsAttempts ==
  ASSUME ProcInv, RowInv, NEW p \in Procs, Put(p), NEW r, NEW s
  PROVE  /\ Of(r, s) \subseteq Of(r, s)'
         /\ <<r, s>> # <<proc[p].run, proc[p].task>> =>
              /\ Of(r, s)' = Of(r, s)
              /\ \A i \in Of(r, s) : attempts'[i].status = attempts[i].status
         /\ <<r, s>> = <<proc[p].run, proc[p].task>> =>
              IF proc[p].latest = 0
              THEN Of(r, s)' = Of(r, s) \union {Len(attempts) + 1}
                   /\ attempts'[Len(attempts) + 1].status = proc[p].status
              ELSE Of(r, s)' = Of(r, s) /\ proc[p].latest \in Of(r, s)
                   /\ attempts'[proc[p].latest].status = proc[p].status
<1>1. attempts \in Seq(Attempt) /\ attempts' \in Seq(Attempt)
  BY PutAttempts DEF RowInv
<1>2. DOMAIN attempts = 1..Len(attempts) /\ DOMAIN attempts' = 1..Len(attempts') /\ Len(attempts) \in Nat
  BY <1>1
<1>3. Of(r, s)' = {i \in DOMAIN attempts' : attempts'[i].run = r /\ attempts'[i].step = s}
  BY DEF Of
<1>4. Of(r, s) \subseteq Of(r, s)'
  BY <1>2, <1>3, PutAttempts DEF Of
<1>5. CASE proc[p].latest = 0
  <2>0. /\ Len(attempts') = Len(attempts) + 1
        /\ attempts'[Len(attempts) + 1] =
             [run |-> proc[p].run, step |-> proc[p].task, status |-> proc[p].status]
        /\ \A i \in 1..Len(attempts) :
              /\ attempts'[i].run = attempts[i].run /\ attempts'[i].step = attempts[i].step
              /\ i # proc[p].latest => attempts'[i].status = attempts[i].status
    BY <1>5, PutAttempts
  <2>1. DOMAIN attempts' = DOMAIN attempts \union {Len(attempts) + 1}
    BY <1>2, <2>0
  <2>2. /\ attempts'[Len(attempts) + 1].run = proc[p].run
        /\ attempts'[Len(attempts) + 1].step = proc[p].task
        /\ attempts'[Len(attempts) + 1].status = proc[p].status
    BY <2>0
  <2>3. \A i \in DOMAIN attempts :
          /\ attempts'[i].run = attempts[i].run /\ attempts'[i].step = attempts[i].step
          /\ attempts'[i].status = attempts[i].status
    BY <1>2, <1>5, <2>0
  <2>4. Of(r, s)' = Of(r, s) \union (IF <<r, s>> = <<proc[p].run, proc[p].task>>
                                     THEN {Len(attempts) + 1} ELSE {})
    BY <1>3, <2>1, <2>2, <2>3 DEF Of
  <2>5. \A i \in Of(r, s) : i \in DOMAIN attempts
    BY DEF Of
  <2> QED BY <1>4, <1>5, <2>2, <2>3, <2>4, <2>5
<1>6. CASE proc[p].latest # 0
  <2>1. DOMAIN attempts' = DOMAIN attempts
    BY <1>2, <1>6, PutAttempts
  <2>2. \A i \in DOMAIN attempts :
          /\ attempts'[i].run = attempts[i].run /\ attempts'[i].step = attempts[i].step
          /\ i # proc[p].latest => attempts'[i].status = attempts[i].status
    <3>1. \A i \in 1..Len(attempts) :
            /\ attempts'[i].run = attempts[i].run /\ attempts'[i].step = attempts[i].step
            /\ i # proc[p].latest => attempts'[i].status = attempts[i].status
      BY PutAttempts
    <3> QED BY <1>2, <3>1
  <2>3. Of(r, s)' = Of(r, s)
    BY <1>3, <2>1, <2>2 DEF Of
  <2>4. proc[p].latest \in Of(proc[p].run, proc[p].task)
    BY <1>6 DEF RowInv, Fits
  <2>5. attempts'[proc[p].latest].status = proc[p].status
    BY <1>6, PutAttempts
  <2>6. \A i \in Of(r, s) : i \in DOMAIN attempts /\ attempts[i].run = r /\ attempts[i].step = s
    BY DEF Of
  <2>7. attempts[proc[p].latest].run = proc[p].run /\ attempts[proc[p].latest].step = proc[p].task
    BY <2>4 DEF Of
  <2> QED BY <1>4, <1>6, <2>2, <2>3, <2>4, <2>5, <2>6, <2>7
<1> QED
  <2>1. proc[p].latest = 0 \/ proc[p].latest # 0
    OBVIOUS
  <2> QED BY <2>1, <1>5, <1>6

LEMMA RowInit == Init => RowInv
<1> SUFFICES ASSUME Init PROVE RowInv
  OBVIOUS
<1>1. /\ created \in [Runs -> Nat] /\ row \in [Runs -> Enqueued \union {NoRow}]
      /\ \A r \in Runs : row[r] # NoRow <=> created[r] # 0
  BY ConstantFacts DEF Init, Schema
<1>2. /\ NoRow \in RowType /\ Enqueued \subseteq RowType
      /\ \A e \in Enqueued : e.status = "pending"
  BY DEF NoRow, RowType, Enqueued, AllStatuses
<1>3. row \in [Runs -> RowType] /\ \A r \in Runs : row[r].status = "none" => row[r] = NoRow
  BY <1>1, <1>2
<1>4. attempts = <<>> /\ overlapped = {} /\ torn = {} /\ resumed = {}
      /\ \A p \in Procs : proc[p] = Off
  BY DEF Init
<1>5. told \in [Runs -> AllStatuses \union {None}]
  BY DEF Init
<1>6. Fits(Off)
  BY <1>4, ConstantFacts DEF Fits, Off
<1> QED BY <1>1, <1>3, <1>4, <1>5, <1>6 DEF RowInv

LEMMA NewestIsNat ==
  ASSUME RowInv
  PROVE  Newest \in Nat
<1> DEFINE S == {created[r] : r \in Runs} \union {0}
<1>1. S \in SUBSET Nat /\ S # {}
  BY DEF RowInv
<1>2. IsFiniteSet(S)
  <2>1. created \in Surjection(Runs, {created[r] : r \in Runs})
    BY DEF RowInv, Surjection
  <2>2. IsFiniteSet({created[r] : r \in Runs})
    BY <2>1, ConstantFacts, FS_Surjection
  <2> QED BY <2>2, FS_AddElement
<1>3. PICK v \in S : \A w \in S : w <= v
  <2> HIDE DEF S
  <2> QED BY <1>1, <1>2, GreatestExists
<1>4. \A w \in S : v >= w
  <2>1. \A w \in S : w \in Nat
    BY <1>1
  <2> HIDE DEF S
  <2> QED BY <1>3, <2>1
<1>5. Max(S) \in S
  <2> HIDE DEF S
  <2> QED BY <1>3, <1>4 DEF Max
<1> QED BY <1>1, <1>5 DEF Newest

\* An inserted row gets a stamp of its own or of the newest ones, and no
\* other row's changes.
LEMMA InsertStamps ==
  ASSUME RowInv, NEW r \in Runs, Inserts(r)
  PROVE  /\ created' \in [Runs -> Nat] /\ created'[r] # 0
         /\ \A q \in Runs : q # r \/ row[r] # NoRow => created'[q] = created[q]
<1>1. created \in [Runs -> Nat] /\ (row[r] # NoRow => created[r] # 0)
  BY DEF RowInv
<1>2. CASE row[r] # NoRow
  BY <1>1, <1>2 DEF Inserts
<1>3. CASE row[r] = NoRow
  <2>1. PICK now \in {Newest, Newest + 1} \ {0} : created' = [created EXCEPT ![r] = now]
    BY <1>3 DEF Inserts
  <2>2. now \in Nat \ {0}
    BY <2>1, NewestIsNat
  <2> QED BY <1>1, <1>3, <2>1, <2>2
<1> QED BY <1>2, <1>3

\* A step that writes the row of one run.
LEMMA RowWritten ==
  ASSUME ProcInv, RowInv, NEW p \in Procs, NEW x \in Process, Goes(p, x),
         x.latest = 0, NEW r \in Runs, x.run \in Runs => x.run = r,
         NEW y \in RowType, y.status # "none", row' = [row EXCEPT ![r] = y],
         created' \in [Runs -> Nat], created'[r] # 0,
         \A q \in Runs : q # r => created'[q] = created[q],
         attempts' = attempts, overlapped' \subseteq Runs, torn' \subseteq Runs,
         resumed' \subseteq Runs, told' \in [Runs -> AllStatuses \union {None}]
  PROVE  RowInv'
<1>1. /\ row \in [Runs -> RowType] /\ attempts \in Seq(Attempt)
      /\ \A q \in Procs : Fits(proc[q])
  BY DEF RowInv
<1>2. row' \in [Runs -> RowType] /\ \A q \in Runs : row'[q] = IF q = r THEN y ELSE row[q]
  BY <1>1
<1>3. y # NoRow
  BY DEF NoRow
<1>4. \A q \in Runs : row'[q].status = "none" => row'[q] = NoRow
  BY <1>2 DEF RowInv
<1>5. \A q \in Runs : row'[q] # NoRow <=> created'[q] # 0
  BY <1>2, <1>3 DEF RowInv
<1>6. \A i \in DOMAIN attempts' : row'[attempts'[i].run] # NoRow
  <2>1. \A i \in DOMAIN attempts : attempts[i].run \in Runs
    <3>1. \A i \in DOMAIN attempts : attempts[i] \in Attempt
      BY <1>1
    <3> QED BY <3>1 DEF Attempt
  <2> QED BY <1>2, <1>3, <2>1 DEF RowInv
<1>7. \A q \in Procs : proc'[q] = IF q = p THEN x ELSE proc[q]
  BY Moves
<1>8. (\A q \in Procs : Fits(proc[q]))'
  <2> SUFFICES ASSUME NEW q \in Procs PROVE Fits(proc[q])'
    OBVIOUS
  <2>1. \A s \in Runs : row[s] # NoRow => row'[s] # NoRow
    BY <1>2, <1>3
  <2>2. CASE q = p
    <3>1. proc'[q] = x /\ (x.run \in Runs => row'[x.run] # NoRow) /\ Len(attempts') \in Nat
      BY <1>1, <1>2, <1>3, <1>7, <2>2
    <3> QED BY <3>1 DEF Fits
  <2>3. CASE q # p
    <3>1. proc'[q] = proc[q] /\ Fits(proc[q])
      BY <1>1, <1>7, <2>3
    <3> QED BY <2>1, <3>1 DEF Fits, Of
  <2> QED BY <2>2, <2>3
<1> QED BY <1>1, <1>2, <1>4, <1>5, <1>6, <1>8 DEF RowInv

LEMMA RowStep == ProcInv /\ MigrationInv /\ RowInv /\ [Next]_vars => RowInv'
<1> SUFFICES ASSUME ProcInv, MigrationInv, RowInv, [Next]_vars PROVE RowInv'
  OBVIOUS
<1>0. /\ \A p \in Procs : proc[p] \in Process /\ Consistent(proc[p]) /\ Fits(proc[p])
      /\ overlapped \subseteq Runs /\ torn \subseteq Runs /\ resumed \subseteq Runs
      /\ row \in [Runs -> RowType] /\ applied \subseteq 1..Versions
      /\ told \in [Runs -> AllStatuses \union {None}] /\ created \in [Runs -> Nat]
  BY ConstantFacts DEF ProcInv, RowInv, MigrationInv
<1>1. ASSUME UNCHANGED <<runVars, proc>> PROVE RowInv'
  BY <1>1 DEF RowInv, runVars, history, Fits, Of
<1>2. ASSUME NEW p \in Procs, NEW x, Next1(p, x),
             UNCHANGED <<row, created, attempts, overlapped, resumed, told>>,
             torn' \subseteq Runs, x.latest = 0, x.run \in {None, proc[p].run}
      PROVE  RowInv'
  <2>1. Fits(x)
    BY <1>0, <1>2, ConstantFacts DEF Fits, Next1, RowInv
  <2> QED BY <1>0, <1>2, <2>1, RowKept DEF Next1
<1>3. CASE UNCHANGED vars
  BY <1>1, <1>3 DEF vars
<1>4. ASSUME NEW p \in Procs,
             Connect(p) \/ ReadVersion(p) \/ ApplyMigration(p) \/ MigrationCollides(p) \/ RecordVersion(p)
      PROVE  RowInv'
  <2>1. UNCHANGED runVars /\ proc[p].pc # "put"
    BY <1>4 DEF Connect, ReadVersion, ApplyMigration, MigrationCollides, RecordVersion, At
  <2>2. PICK x : Next1(p, x)
    BY <1>4, MigrationMoves
  <2>3. x = proc'[p] /\ proc[p].latest = 0
    BY <2>1, <2>2, NoLatest, Moves DEF Next1
  <2>4. x.latest = 0 /\ x.run \in {None, proc[p].run}
    <3>1. \A v : ToApply(p, v).latest = 0 /\ ToApply(p, v).run \in {None, proc[p].run}
      BY <1>0, <2>3 DEF ToApply, Off, Process
    <3>2. CASE Connect(p)
      BY <3>2, <2>3 DEF Connect, Goes, Off, ProcInv
    <3>3. CASE ReadVersion(p)
      BY <3>1, <3>3, <2>3 DEF ReadVersion, Goes, ProcInv
    <3>4. CASE ApplyMigration(p)
      BY <1>0, <3>4, <2>3 DEF ApplyMigration, Goes, ProcInv, Process
    <3>5. CASE MigrationCollides(p)
      BY <3>5, <2>3 DEF MigrationCollides, Goes, Off, ProcInv
    <3>6. CASE RecordVersion(p)
      BY <3>1, <3>6, <2>3 DEF RecordVersion, Goes, ProcInv
    <3> QED BY <1>4, <3>2, <3>3, <3>4, <3>5, <3>6
  <2> QED BY <1>0, <1>2, <2>1, <2>2, <2>4 DEF runVars, history
<1>5. ASSUME NEW p \in Procs, NEW r \in setup.runs, Start(p, r) \/ Resume(p, r) PROVE RowInv'
  <2> DEFINE x == [proc[p] EXCEPT !.pc = "running", !.run = r]
  <2>1. r \in Runs
    BY ConstantFacts DEF ProcInv, Schema
  <2>2. proc[p].latest = 0
    BY <1>5, NoLatest DEF Start, Resume, At
  <2>3. x \in Process /\ x.latest = 0 /\ x.run = r
    <3>1. "running" \in Pcs /\ proc[p] \in Process
      BY <1>0 DEF Pcs
    <3>2. x \in Process
      BY <2>1, <3>1 DEF Process
    <3>3. x.latest = 0 /\ x.run = r
      BY <2>2, <3>1 DEF Process
    <3> QED BY <3>2, <3>3
  <2>4. CASE Start(p, r) /\ 1 \notin applied
    BY <1>1, <2>4 DEF Start
  <2>5. CASE Start(p, r) /\ 1 \in applied
    <3>1. PICK w \in setup.workflows :
            row' = [row EXCEPT ![r] = [status |-> "running", task |-> None, workflow |-> w]]
      BY <2>5 DEF Start
    <3>2. PICK y : y = [status |-> "running", task |-> None, workflow |-> w]
      OBVIOUS
    <3>3. w \in Workflows
      BY ConstantFacts DEF ProcInv, Schema
    <3>4. y \in RowType /\ y.status # "none" /\ row' = [row EXCEPT ![r] = y]
      BY <3>1, <3>2, <3>3 DEF RowType, AllStatuses
    <3>5. Goes(p, x) /\ Inserts(r) /\ attempts' = attempts
          /\ overlapped' \subseteq Runs /\ torn' \subseteq Runs /\ resumed' \subseteq Runs
          /\ told' \in [Runs -> AllStatuses \union {None}]
      BY <1>0, <2>1, <2>5 DEF Start, Overlaps
    <3> HIDE DEF x
    <3> QED BY <2>1, <2>3, <3>4, <3>5, InsertStamps, RowWritten
  <2>6. CASE Resume(p, r)
    <3>1. /\ Goes(p, x) /\ row[r] # NoRow
          /\ UNCHANGED <<row, created, attempts, told, torn>>
          /\ overlapped' \subseteq Runs /\ resumed' \subseteq Runs
      BY <1>0, <2>1, <2>6 DEF Resume, Overlaps
    <3> HIDE DEF x
    <3>2. \A q \in Procs : proc'[q] = IF q = p THEN x ELSE proc[q]
      BY <2>3, <3>1, Moves
    <3>3. (\A q \in Procs : Fits(proc[q]))'
      <4>1. Len(attempts) \in Nat
        BY DEF RowInv
      <4> QED BY <1>0, <2>3, <3>1, <3>2, <4>1 DEF Fits, Of
    <3> QED BY <1>0, <3>1, <3>3 DEF RowInv
  <2> QED BY <1>5, <2>4, <2>5, <2>6
<1>6. ASSUME NEW p \in Procs, Call(p) PROVE RowInv'
  <2>1. proc[p].latest = 0 /\ UNCHANGED runVars
    BY <1>6, NoLatest DEF Call, At
  <2>2. PICK x : Next1(p, x)
    BY <1>6, ExecutionMoves
  <2>3. x = proc'[p]
    BY <2>2, Moves DEF Next1
  <2>4. x.latest = 0 /\ x.run = proc[p].run
    <3>1. CASE \E s \in setup.steps, op \in {"checkpoint", "suspend"} :
                 Goes(p, [proc[p] EXCEPT !.pc = "get", !.op = op, !.task = s,
                            !.status = IF op = "suspend" THEN "suspended" ELSE "running"])
      <4>1. PICK s, op, status :
              Goes(p, [proc[p] EXCEPT !.pc = "get", !.op = op, !.task = s, !.status = status])
        BY <3>1
      <4>2. x = [proc[p] EXCEPT !.pc = "get", !.op = op, !.task = s, !.status = status]
        BY <4>1, <2>3 DEF Goes, ProcInv
      <4> QED BY <1>0, <2>1, <4>2 DEF Process
    <3>2. CASE \E status \in {"completed", "failed"} :
                 Goes(p, [proc[p] EXCEPT !.pc = "get", !.op = "finish", !.status = status])
      <4>1. PICK status :
              Goes(p, [proc[p] EXCEPT !.pc = "get", !.op = "finish", !.status = status])
        BY <3>2
      <4>2. x = [proc[p] EXCEPT !.pc = "get", !.op = "finish", !.status = status]
        BY <4>1, <2>3 DEF Goes, ProcInv
      <4> QED BY <1>0, <2>1, <4>2 DEF Process
    <3> QED BY <1>6, <3>1, <3>2 DEF Call
  <2> QED BY <1>0, <1>2, <2>1, <2>2, <2>4 DEF runVars, history
<1>7. ASSUME NEW p \in Procs, Get(p) PROVE RowInv'
  <2>1. proc[p].latest = 0 /\ UNCHANGED runVars
    BY <1>7, NoLatest DEF Get, At
  <2>2. PICK x : Next1(p, x)
    BY <1>7, ExecutionMoves
  <2>3. x.latest = 0 /\ x.run = proc[p].run
    <3>1. PICK t : Goes(p, [proc[p] EXCEPT !.pc = "update", !.task = t])
      BY <1>7 DEF Get
    <3>2. x = [proc[p] EXCEPT !.pc = "update", !.task = t]
      BY <2>2, <3>1 DEF Next1, Goes, ProcInv
    <3> QED BY <1>0, <2>1, <3>2 DEF Process
  <2> QED BY <1>0, <1>2, <2>1, <2>2, <2>3 DEF runVars, history
<1>8. ASSUME NEW p \in Procs, Update(p) PROVE RowInv'
  <2>1. proc[p].latest = 0 /\ proc[p].run \in Runs
    BY <1>0, <1>8, NoLatest DEF Update, At, Consistent, InCall
  <2>2. PICK x : Next1(p, x)
    BY <1>8, ExecutionMoves
  <2>3. x = IF proc[p].op = "suspend" THEN [Off EXCEPT !.pc = "ready"] ELSE [proc[p] EXCEPT !.pc = "select"]
    BY <1>8, <2>2 DEF Update, Next1, Goes, ProcInv
  <2>4. x.latest = 0 /\ (x.run \in Runs => x.run = proc[p].run)
    <3>1. CASE proc[p].op = "suspend"
      BY <2>3, <3>1, ConstantFacts DEF Off
    <3>2. CASE proc[p].op # "suspend"
      BY <1>0, <2>1, <2>3, <3>2 DEF Process
    <3> QED BY <3>1, <3>2
  <2> DEFINE r == proc[p].run
             z == row[r]
             y == [z EXCEPT !.status = IF proc[p].op = "checkpoint" THEN z.status ELSE proc[p].status,
                            !.task = IF proc[p].op = "finish" THEN z.task ELSE proc[p].task]
  <2>5. row' = [row EXCEPT ![r] = y]
    BY <1>0, <1>8, <2>1 DEF Update
  <2>6. z \in RowType /\ z # NoRow /\ z.status # "none"
    BY <1>0, <2>1 DEF Fits, RowInv
  <2>7. proc[p].op \in Ops /\ proc[p].status \in AllStatuses
        /\ (proc[p].op # "finish" => proc[p].task \in Steps)
    BY <1>0, <1>8 DEF Update, At, Consistent, InCall, Process, Ops
  <2>8. y \in RowType /\ y.status # "none"
    BY <2>6, <2>7 DEF RowType, AllStatuses
  <2>9. created' = created /\ created[r] # 0
    BY <1>8, <2>1, <2>6 DEF Update, RowInv
  <2>10. attempts' = attempts /\ overlapped' \subseteq Runs /\ torn' \subseteq Runs
         /\ resumed' \subseteq Runs
    BY <1>0, <1>8 DEF Update
  <2>11. told' \in [Runs -> AllStatuses \union {None}]
    BY <1>0, <1>8, <2>1, <2>7 DEF Update
  <2> HIDE DEF y, z
  <2> QED BY <1>0, <2>1, <2>2, <2>4, <2>5, <2>8, <2>9, <2>10, <2>11, RowWritten DEF Next1
<1>9. ASSUME NEW p \in Procs, Select(p) PROVE RowInv'
  <2> DEFINE l == Latest(proc[p].run, proc[p].task)
             x == [proc[p] EXCEPT !.pc = "put", !.latest = l]
  <2>1. l \in 0..Len(attempts) /\ (l # 0 => l \in Of(proc[p].run, proc[p].task)) /\ l \in Nat
    BY LatestIn DEF RowInv
  <2>2. UNCHANGED runVars /\ Goes(p, x)
    BY <1>9 DEF Select
  <2> HIDE DEF l
  <2>3. x \in Process /\ x.pc = "put" /\ x.latest = l /\ x.run = proc[p].run /\ x.task = proc[p].task
    BY <1>0, <2>1 DEF Process, Pcs
  <2>4. Fits(x)
    BY <1>0, <2>1, <2>3 DEF Fits
  <2> QED BY <1>0, <2>2, <2>3, <2>4, RowKept DEF runVars, history
<1>10. ASSUME NEW p \in Procs, Put(p) PROVE RowInv'
  <2>1. PICK x : Next1(p, x)
    BY <1>10, ExecutionMoves
  <2>2. x = IF proc[p].op = "finish" THEN [Off EXCEPT !.pc = "ready"]
            ELSE [proc[p] EXCEPT !.pc = "running", !.task = None, !.op = None, !.latest = 0]
    BY <1>10, <2>1 DEF Put, Next1, Goes, ProcInv
  <2>3. x.latest = 0 /\ x.run \in {None, proc[p].run}
    BY <1>0, <2>2 DEF Process, Off
  <2>4. /\ attempts' \in Seq(Attempt) /\ attempts \in Seq(Attempt)
        /\ \A i \in 1..Len(attempts) : i \in 1..Len(attempts') /\ attempts'[i].run = attempts[i].run
        /\ proc[p].run \in Runs
    BY <1>10, PutAttempts DEF RowInv
  <2>5. \A i \in DOMAIN attempts' : row[attempts'[i].run] # NoRow
    <3>1. \A i \in DOMAIN attempts : row[attempts[i].run] # NoRow
      BY DEF RowInv
    <3>2. row[proc[p].run] # NoRow
      BY <1>0, <2>4 DEF Fits
    <3>3. CASE proc[p].latest = 0
      <4>1. Len(attempts') = Len(attempts) + 1 /\ attempts'[Len(attempts) + 1].run = proc[p].run
        <5>1. Len(attempts') = Len(attempts) + 1 /\ attempts'[Len(attempts) + 1] =
                [run |-> proc[p].run, step |-> proc[p].task, status |-> proc[p].status]
          BY <1>10, <3>3, PutAttempts
        <5> QED BY <5>1
      <4> QED BY <2>4, <3>1, <3>2, <4>1
    <3>4. CASE proc[p].latest # 0
      <4>1. Len(attempts') = Len(attempts)
        BY <1>10, <3>4, PutAttempts
      <4> QED BY <2>4, <3>1, <4>1
    <3> QED BY <3>3, <3>4
  <2>6. UNCHANGED <<row, created, overlapped, resumed, told>> /\ torn' \subseteq Runs
    BY <1>0, <1>10 DEF Put
  <2>7. \A q \in Procs : proc'[q] = IF q = p THEN x ELSE proc[q]
    BY <2>1, Moves DEF Next1
  <2>8. Len(attempts) <= Len(attempts') /\ Len(attempts) \in Nat /\ Len(attempts') \in Nat
    <3>1. Len(attempts) \in Nat /\ Len(attempts') \in Nat
      BY <2>4
    <3>2. Len(attempts) # 0 => Len(attempts) \in 1..Len(attempts)
      BY <3>1
    <3>3. Len(attempts) # 0 => Len(attempts) \in 1..Len(attempts')
      BY <2>4, <3>2
    <3> QED BY <3>1, <3>3
  <2>9. (\A q \in Procs : Fits(proc[q]))'
    <3> SUFFICES ASSUME NEW q \in Procs PROVE Fits(proc[q])'
      OBVIOUS
    <3>1. CASE q = p
      <4>1. proc'[q] = x /\ row' = row
        BY <2>6, <2>7, <3>1
      <4>2. x.run \in Runs => row[x.run] # NoRow
        BY <1>0, <2>3, ConstantFacts DEF Fits
      <4> QED BY <2>3, <2>8, <4>1, <4>2 DEF Fits
    <3>2. CASE q # p
      <4>1. proc'[q] = proc[q] /\ row' = row /\ Fits(proc[q])
        BY <1>0, <2>6, <2>7, <3>2
      <4>2. PICK r, s : r = proc[q].run /\ s = proc[q].task
        OBVIOUS
      <4>3. Of(r, s) \subseteq {i \in DOMAIN attempts' : attempts'[i].run = r /\ attempts'[i].step = s}
        <5>1. Of(r, s) \subseteq Of(r, s)'
          BY <1>10, PutKeepsAttempts
        <5>2. Of(r, s)' = {i \in DOMAIN attempts' : attempts'[i].run = r /\ attempts'[i].step = s}
          BY DEF Of
        <5> QED BY <5>1, <5>2
      <4>4. Of(proc[q].run, proc[q].task)' = {i \in DOMAIN attempts' :
               attempts'[i].run = proc'[q].run /\ attempts'[i].step = proc'[q].task}
        BY DEF Of
      <4>5. Of(r, s) \subseteq Of(proc[q].run, proc[q].task)'
        BY <4>1, <4>2, <4>3, <4>4
      <4>6. proc[q].latest # 0 => proc[q].pc = "put" /\ proc[q].latest \in Of(r, s)
        BY <4>1, <4>2 DEF Fits
      <4> QED BY <2>8, <4>1, <4>5, <4>6 DEF Fits
    <3> QED BY <3>1, <3>2
  <2> QED BY <2>4, <2>5, <2>6, <2>9 DEF RowInv
<1>11. ASSUME NEW p \in Procs, Die(p) \/ StatementRaises(p) PROVE RowInv'
  <2>1. UNCHANGED <<row, created, attempts, overlapped, resumed, told>>
    BY <1>11 DEF Die, StatementRaises
  <2>2. torn' \subseteq Runs
    <3>1. proc[p].pc \in {"select", "put"} => proc[p].run \in Runs
      BY <1>0 DEF Consistent, InCall
    <3> QED BY <1>0, <1>11, <3>1 DEF Die, StatementRaises, Tears
  <2>3. Goes(p, Off) \/ Goes(p, FailsTo(proc[p]))
    BY <1>11 DEF Die, StatementRaises, FailsTo
  <2>4. Next1(p, Off) => Off.latest = 0 /\ Off.run = None
    BY DEF Off
  <2>5. FailsTo(proc[p]).latest = 0 /\ FailsTo(proc[p]).run \in {None, proc[p].run}
    BY <1>0, FailedProcess
  <2>6. Goes(p, Off) => Next1(p, Off)
    BY OffIsProcess DEF Next1, Migration, Off
  <2>7. Goes(p, FailsTo(proc[p])) => Next1(p, FailsTo(proc[p]))
    BY <1>0, FailedProcess DEF Next1, Migration
  <2> QED BY <1>2, <2>1, <2>2, <2>3, <2>4, <2>5, <2>6, <2>7
<1>12. CASE BeginList \/ NextPage \/ ScrapeCounts \/ ScrapeDurations \/ ScrapeFailures
  BY <1>1, <1>12 DEF BeginList, NextPage, ScrapeCounts, ScrapeDurations, ScrapeFailures
<1> QED BY <1>3, <1>4, <1>5, <1>6, <1>7, <1>8, <1>9, <1>10, <1>11, <1>12 DEF Next

-----------------------------------------------------------------------------
(* A run that one process executes at a time *)

\* A step of a process that executes another run.
LEMMA Uninvolved ==
  ASSUME ProcInv, NEW p \in Procs, NEW x, Next1(p, x), NEW r \in Runs, Alone(r),
         proc[p].run # r, x.run # r, row'[r] = row[r], told'[r] = told[r],
         r \in resumed' <=> r \in resumed,
         \A s : Of(r, s)' = Of(r, s) /\ \A i \in Of(r, s) : attempts'[i].status = attempts[i].status,
         r \notin torn' => r \notin torn
  PROVE  Alone(r)'
<1>1. \A q \in Procs : proc'[q] = IF q = p THEN x ELSE proc[q]
  BY Moves DEF Next1
<1>2. \A q \in Procs : proc'[q].run = r => proc'[q] = proc[q]
  BY <1>1
<1>2a. \A q \in Procs : proc[q].run = r <=> proc'[q].run = r
  BY <1>1
<1>3. (\A q, s \in Procs : Executing(q, r) /\ Executing(s, r) => q = s)'
  BY <1>2 DEF Alone, Executing
<1>4. (\A q \in Procs : Executing(q, r) => Follows(proc[q], row[r], told[r], resumed))'
  BY <1>2 DEF Alone, Executing, Follows
<1>5. (\A q \in Procs : Executing(q, r) /\ At(q, "put") /\ proc[q].latest = 0 => Of(r, proc[q].task) = {})'
  <2> SUFFICES ASSUME NEW q \in Procs, proc'[q].run = r, proc'[q].pc = "put", proc'[q].latest = 0
               PROVE  Of(r, proc[q].task)' = {}
    BY DEF Executing, At
  <2>1. Of(r, proc[q].task) = {} /\ proc'[q] = proc[q]
    BY <1>2 DEF Alone, Executing, At
  <2>2. PICK s : s = proc[q].task
    OBVIOUS
  <2>3. Of(r, s)' = {}
    BY <2>1, <2>2
  <2>4. Of(r, s)' = Of(r, proc[q].task)'
    BY <2>1, <2>2 DEF Of
  <2> QED BY <2>3, <2>4
<1>6. (\A s \in StepNames : \A i, j \in Of(r, s) : i = j)'
  <2> SUFFICES ASSUME NEW s \in StepNames PROVE \A i, j \in Of(r, s)' : i = j
    OBVIOUS
  <2>1. Of(r, s)' = Of(r, s)
    OBVIOUS
  <2> QED BY <2>1 DEF Alone
<1>7. (told[r] # None /\ r \notin torn
         /\ (\A q \in Procs : Executing(q, r) => proc[q].pc \notin {"select", "put"})
        => \E i \in Of(r, Name(row[r].task)) : attempts[i].status = told[r])'
  <2> SUFFICES ASSUME told'[r] # None, r \notin torn',
                      \A q \in Procs : proc'[q].run = r => proc'[q].pc \notin {"select", "put"}
               PROVE  (\E i \in Of(r, Name(row[r].task)) : attempts[i].status = told[r])'
    BY DEF Executing
  <2>1. told[r] # None /\ r \notin torn
    OBVIOUS
  <2>2. \A q \in Procs : Executing(q, r) => proc[q].pc \notin {"select", "put"}
    BY <1>2, <1>2a DEF Executing
  <2>3. PICK s : s = Name(row[r].task)
    OBVIOUS
  <2>4. PICK i \in Of(r, s) : attempts[i].status = told[r]
    BY <2>1, <2>2, <2>3 DEF Alone
  <2>5. Of(r, Name(row[r].task))' = Of(r, s)'
    BY <2>3 DEF Of, Name
  <2>6. i \in Of(r, s)' /\ attempts'[i].status = told'[r]
    BY <2>4
  <2> QED BY <2>5, <2>6
<1>8. (told[r] # None /\ row[r].status # told[r] => r \in resumed /\ told[r] = "running")'
  BY DEF Alone
<1> QED BY <1>3, <1>4, <1>5, <1>6, <1>7, <1>8 DEF Alone

\* A step of the one process that executes the run, or starts or
\* resumes it.
LEMMA Involved ==
  ASSUME ProcInv, NEW p \in Procs, NEW x, Next1(p, x), NEW r \in Runs,
         \A q \in Procs \ {p} : proc[q].run # r,
         x.run = r => Follows(x, row'[r], told'[r], resumed'),
         NEW s, s = x.task, x.run = r /\ x.pc = "put" /\ x.latest = 0 => Of(r, s)' = {},
         \A t \in StepNames : \A i, j \in Of(r, t)' : i = j,
         NEW t, t = Name(row'[r].task),
         told'[r] # None /\ r \notin torn' /\ (x.run = r => x.pc \notin {"select", "put"}) =>
           \E i \in Of(r, t)' : attempts'[i].status = told'[r],
         told'[r] # None /\ row'[r].status # told'[r] => r \in resumed' /\ told'[r] = "running"
  PROVE  Alone(r)'
<1>1. \A q \in Procs : proc'[q] = IF q = p THEN x ELSE proc[q]
  BY Moves DEF Next1
<1>2. \A q \in Procs : proc'[q].run = r => q = p
  BY <1>1
<1>3. (\A q, u \in Procs : Executing(q, r) /\ Executing(u, r) => q = u)'
  BY <1>2 DEF Executing
<1>4. (\A q \in Procs : Executing(q, r) => Follows(proc[q], row[r], told[r], resumed))'
  <2> SUFFICES ASSUME NEW q \in Procs, proc'[q].run = r
               PROVE  Follows(proc[q], row[r], told[r], resumed)'
    BY DEF Executing
  <2>1. proc'[q] = x
    BY <1>1, <1>2
  <2> QED BY <2>1 DEF Follows
<1>5. (\A q \in Procs : Executing(q, r) /\ At(q, "put") /\ proc[q].latest = 0 => Of(r, proc[q].task) = {})'
  <2> SUFFICES ASSUME NEW q \in Procs, proc'[q].run = r, proc'[q].pc = "put", proc'[q].latest = 0
               PROVE  Of(r, proc[q].task)' = {}
    BY DEF Executing, At
  <2>1. proc'[q] = x
    BY <1>1, <1>2
  <2>2. Of(r, s)' = Of(r, proc[q].task)'
    BY <2>1 DEF Of
  <2> QED BY <2>1, <2>2
<1>6. (told[r] # None /\ r \notin torn
         /\ (\A q \in Procs : Executing(q, r) => proc[q].pc \notin {"select", "put"})
        => \E i \in Of(r, Name(row[r].task)) : attempts[i].status = told[r])'
  <2> SUFFICES ASSUME told'[r] # None, r \notin torn',
                      \A q \in Procs : proc'[q].run = r => proc'[q].pc \notin {"select", "put"}
               PROVE  (\E i \in Of(r, Name(row[r].task)) : attempts[i].status = told[r])'
    BY DEF Executing
  <2>1. x.run = r => x.pc \notin {"select", "put"}
    BY <1>1
  <2>2. Of(r, Name(row[r].task))' = Of(r, t)'
    BY DEF Of, Name
  <2> QED BY <2>1, <2>2
<1> QED BY <1>3, <1>4, <1>5, <1>6 DEF Alone

\* A step that leaves the rows and the attempts alone.
LEMMA AloneKept ==
  ASSUME ProcInv, NEW p \in Procs, NEW x, Next1(p, x), NEW r \in Runs, Alone(r),
         UNCHANGED <<row, attempts, told, resumed>>, torn \subseteq torn',
         x.run = r => proc[p].run = r /\ Follows(x, row[r], told[r], resumed),
         x.run = r /\ x.pc = "put" /\ x.latest = 0 => Of(r, x.task) = {},
         proc[p].run = r /\ proc[p].pc \in {"select", "put"} =>
           (x.run = r /\ x.pc \in {"select", "put"}) \/ r \in torn'
  PROVE  Alone(r)'
<1>1. \A s : Of(r, s)' = Of(r, s)
  BY DEF Of
<1>2. CASE proc[p].run # r
  BY <1>1, <1>2, Uninvolved
<1>3. CASE proc[p].run = r
  <2>1. \A q \in Procs \ {p} : proc[q].run # r
    BY <1>3 DEF Alone, Executing
  <2>2. PICK s : s = x.task
    OBVIOUS
  <2>3. PICK t : t = Name(row[r].task)
    OBVIOUS
  <2>4. \A u \in StepNames : \A i, j \in Of(r, u)' : i = j
    BY <1>1 DEF Alone
  <2>5. told'[r] # None /\ r \notin torn' /\ (x.run = r => x.pc \notin {"select", "put"}) =>
          \E i \in Of(r, t)' : attempts'[i].status = told'[r]
    <3> SUFFICES ASSUME told[r] # None, r \notin torn', x.run = r => x.pc \notin {"select", "put"}
                 PROVE  \E i \in Of(r, t)' : attempts'[i].status = told'[r]
      OBVIOUS
    <3>1. r \notin torn
      OBVIOUS
    <3>2. \A q \in Procs : Executing(q, r) => proc[q].pc \notin {"select", "put"}
      BY <2>1, <1>3 DEF Executing
    <3>3. \E i \in Of(r, t) : attempts[i].status = told[r]
      BY <3>1, <3>2, <2>3 DEF Alone
    <3> QED BY <1>1, <3>3
  <2>6. Of(r, s)' = Of(r, s)
    BY <1>1
  <2>7. x.run = r /\ x.pc = "put" /\ x.latest = 0 => Of(r, s)' = {}
    BY <2>2, <2>6
  <2>8. t = Name(row'[r].task) /\ (x.run = r => Follows(x, row'[r], told'[r], resumed'))
    BY <2>3
  <2>9. told'[r] # None /\ row'[r].status # told'[r] => r \in resumed' /\ told'[r] = "running"
    BY DEF Alone
  <2> QED BY <2>1, <2>2, <2>4, <2>5, <2>7, <2>8, <2>9, Involved
<1> QED BY <1>2, <1>3

LEMMA AttemptInit == Init /\ RowInv => AttemptInv
<1> SUFFICES ASSUME Init, RowInv, NEW r \in Runs PROVE Alone(r)
  BY DEF AttemptInv
<1>1. \A p \in Procs : proc[p] = Off
  BY DEF Init
<1>2. \A p \in Procs : ~ Executing(p, r)
  BY <1>1, ConstantFacts DEF Executing, Off
<1>3. \A s : Of(r, s) = {}
  BY DEF Init, Of
<1>4. told[r] = None
  BY DEF Init
<1> QED BY <1>2, <1>3, <1>4 DEF Alone

LEMMA AttemptStart ==
  ASSUME ProcInv, RowInv, NEW p \in Procs, NEW r0 \in setup.runs, Start(p, r0), 1 \in applied,
         NEW r \in Runs, Alone(r), r \notin overlapped'
  PROVE  Alone(r)'
<1> DEFINE x == [proc[p] EXCEPT !.pc = "running", !.run = r0]
<1>1. proc[p] \in Process /\ Consistent(proc[p]) /\ row \in [Runs -> RowType]
      /\ told \in [Runs -> AllStatuses \union {None}]
  BY DEF ProcInv, RowInv
<1>2. r0 \in Runs /\ proc[p].pc = "ready"
  BY ConstantFacts DEF ProcInv, Schema, Start, At
<1>3. proc[p].run \notin Runs
  BY <1>1, <1>2 DEF Consistent, InCall
<1>4. Goes(p, x) /\ proc' # proc
  <2>1. Goes(p, x) /\ x.pc = "running"
    BY <1>1 DEF Start, Process
  <2> HIDE DEF x
  <2>2. proc'[p] = x
    BY <2>1 DEF Goes, ProcInv
  <2> QED BY <1>2, <2>1, <2>2
<1>5. Next1(p, x)
  <2>1. PICK z : Next1(p, z)
    BY <1>4, ExecutionMoves
  <2>2. z = x
    BY <1>4, <2>1 DEF Next1, Goes, ProcInv
  <2> QED BY <2>1, <2>2
<1>6. x.run = r0 /\ x.pc = "running"
  BY <1>1 DEF Process
<1>7. /\ \E w : row' = [row EXCEPT ![r0] = [status |-> "running", task |-> None, workflow |-> w]]
      /\ torn' = torn \ {r0} /\ attempts' = attempts
      /\ resumed' = resumed \ {r0} /\ told' = [told EXCEPT ![r0] = None]
      /\ overlapped' = IF \E q \in Procs \ {p} : Executing(q, r0) THEN overlapped \union {r0} ELSE overlapped
  BY DEF Start, Overlaps
<1>8. \A s : Of(r, s)' = Of(r, s)
  BY <1>7 DEF Of
<1> HIDE DEF x
<1>9. CASE r # r0
  <2>1. row'[r] = row[r] /\ told'[r] = told[r] /\ (r \in resumed' <=> r \in resumed)
    BY <1>1, <1>2, <1>7, <1>9
  <2> QED BY <1>1, <1>3, <1>5, <1>6, <1>7, <1>8, <1>9, <2>1, Uninvolved
<1>10. CASE r = r0
  <2>1. \A q \in Procs \ {p} : proc[q].run # r
    BY <1>7, <1>10 DEF Executing
  <2>2. row'[r].status = "running"
    BY <1>1, <1>7, <1>10
  <2>3. Follows(x, row'[r], told'[r], resumed')
    BY <1>6, <2>2 DEF Follows
  <2>4. told'[r] = None
    BY <1>1, <1>7, <1>10
  <2>5. \A u \in StepNames : \A i, j \in Of(r, u)' : i = j
    BY <1>8 DEF Alone
  <2>6. PICK s, t : s = x.task /\ t = Name(row'[r].task)
    OBVIOUS
  <2> QED BY <1>5, <1>6, <2>1, <2>3, <2>4, <2>5, <2>6, Involved
<1> QED BY <1>9, <1>10

LEMMA AttemptResume ==
  ASSUME ProcInv, RowInv, NEW p \in Procs, NEW r0 \in setup.runs, Resume(p, r0),
         NEW r \in Runs, Alone(r), r \notin overlapped'
  PROVE  Alone(r)'
<1> DEFINE x == [proc[p] EXCEPT !.pc = "running", !.run = r0]
<1>1. proc[p] \in Process /\ Consistent(proc[p])
  BY DEF ProcInv
<1>2. r0 \in Runs /\ proc[p].pc = "ready"
  BY ConstantFacts DEF ProcInv, Schema, Resume, At
<1>3. proc[p].run \notin Runs
  BY <1>1, <1>2 DEF Consistent, InCall
<1>4. Goes(p, x)
  BY DEF Resume
<1>5. Next1(p, x)
  <2>1. PICK z : Next1(p, z)
    BY ExecutionMoves
  <2>2. z = x
    BY <1>4, <2>1 DEF Next1, Goes, ProcInv
  <2> QED BY <2>1, <2>2
<1>6. x.run = r0 /\ x.pc = "running"
  BY <1>1 DEF Process
<1>7. /\ UNCHANGED <<row, attempts, torn, told>> /\ resumed' = resumed \union {r0}
      /\ overlapped' = IF \E q \in Procs \ {p} : Executing(q, r0) THEN overlapped \union {r0} ELSE overlapped
  BY DEF Resume, Overlaps
<1>8. \A s : Of(r, s)' = Of(r, s)
  BY <1>7 DEF Of
<1> HIDE DEF x
<1>9. CASE r # r0
  BY <1>1, <1>3, <1>5, <1>6, <1>7, <1>8, <1>9, Uninvolved
<1>10. CASE r = r0
  <2>1. \A q \in Procs \ {p} : proc[q].run # r
    BY <1>7, <1>10 DEF Executing
  <2>2. Follows(x, row'[r], told'[r], resumed')
    BY <1>6, <1>7 DEF Follows
  <2>3. PICK s, t : s = x.task /\ t = Name(row[r].task)
    OBVIOUS
  <2>4. \A q \in Procs : ~ Executing(q, r)
    BY <1>2, <1>3, <1>10, <2>1 DEF Executing
  <2>5. told'[r] # None /\ r \notin torn' => \E i \in Of(r, t)' : attempts'[i].status = told'[r]
    BY <1>7, <1>8, <2>3, <2>4 DEF Alone
  <2>6. told'[r] # None /\ row'[r].status # told'[r] => r \in resumed' /\ told'[r] = "running"
    BY <1>7 DEF Alone
  <2>7. \A u \in StepNames : \A i, j \in Of(r, u)' : i = j
    BY <1>8 DEF Alone
  <2>8. t = Name(row'[r].task)
    BY <1>7, <2>3
  <2> QED BY <1>5, <1>6, <2>1, <2>2, <2>3, <2>5, <2>6, <2>7, <2>8, Involved
<1> QED BY <1>9, <1>10

LEMMA AttemptUpdate ==
  ASSUME ProcInv, RowInv, NEW p \in Procs, Update(p), NEW r \in Runs, Alone(r)
  PROVE  Alone(r)'
<1>1. proc[p] \in Process /\ Consistent(proc[p]) /\ row \in [Runs -> RowType]
      /\ proc[p].pc = "update" /\ UNCHANGED <<attempts, torn, resumed>>
      /\ told \in [Runs -> AllStatuses \union {None}]
  BY DEF ProcInv, RowInv, Update, At
<1>2. PICK x : Next1(p, x)
  BY ExecutionMoves
<1>3. x = IF proc[p].op = "suspend" THEN [Off EXCEPT !.pc = "ready"] ELSE [proc[p] EXCEPT !.pc = "select"]
  BY <1>2 DEF Update, Next1, Goes, ProcInv
<1>4. PICK r0 \in Runs : r0 = proc[p].run
  BY <1>1 DEF Consistent, InCall
<1>5. \A s : Of(r, s)' = Of(r, s)
  BY <1>1 DEF Of
<1>6. /\ row' = [row EXCEPT
                  ![r0].status = IF proc[p].op = "checkpoint" THEN @ ELSE proc[p].status,
                  ![r0].task = IF proc[p].op = "finish" THEN @ ELSE proc[p].task]
      /\ told' = [told EXCEPT ![r0] = IF proc[p].op = "suspend" THEN None ELSE proc[p].status]
  BY <1>4 DEF Update
<1>7. x.run \in {r0, None}
  <2>1. CASE proc[p].op = "suspend"
    BY <1>3, <2>1 DEF Off
  <2>2. CASE proc[p].op # "suspend"
    BY <1>1, <1>3, <1>4, <2>2 DEF Process
  <2> QED BY <2>1, <2>2
<1>8. CASE r # r0
  <2>1. row'[r] = row[r] /\ told'[r] = told[r]
    BY <1>1, <1>6, <1>8
  <2> QED BY <1>1, <1>2, <1>4, <1>5, <1>7, <1>8, <2>1, Uninvolved, ConstantFacts
<1>9. CASE r = r0
  <2>1. \A q \in Procs \ {p} : proc[q].run # r
    BY <1>4, <1>9 DEF Alone, Executing
  <2>2. /\ row'[r].status = IF proc[p].op = "checkpoint" THEN row[r].status ELSE proc[p].status
        /\ row'[r].task = IF proc[p].op = "finish" THEN row[r].task ELSE proc[p].task
        /\ told'[r] = IF proc[p].op = "suspend" THEN None ELSE proc[p].status
    <3>1. row[r] \in RowType
      BY <1>1
    <3> QED BY <1>1, <1>6, <1>9, <3>1 DEF RowType
  <2>3. /\ r \notin resumed => row[r].status = "running"
        /\ proc[p].op = "finish" => proc[p].task = Name(row[r].task)
    BY <1>1, <1>4, <1>9 DEF Alone, Executing, Follows
  <2>4. x.run = r => Follows(x, row'[r], told'[r], resumed')
    <3> SUFFICES ASSUME x.run = r PROVE Follows(x, row'[r], told'[r], resumed')
      OBVIOUS
    <3>1. proc[p].op # "suspend"
      BY <1>3, ConstantFacts DEF Off
    <3>2. x.pc = "select" /\ x.status = proc[p].status /\ x.task = proc[p].task
      BY <1>1, <1>3, <3>1 DEF Process
    <3>3. proc[p].op \in {"checkpoint", "finish"}
      BY <1>1, <3>1 DEF Consistent, Process, Ops, InCall
    <3>4. CASE proc[p].op = "finish"
      BY <2>2, <2>3, <3>2, <3>4 DEF Follows
    <3>5. CASE proc[p].op = "checkpoint"
      <4>1. proc[p].status = "running" /\ proc[p].task \in Steps
        BY <1>1, <3>5 DEF Consistent
      <4>2. Name(row'[r].task) = proc[p].task
        BY <2>2, <3>5, <4>1, ConstantFacts DEF Name
      <4> QED BY <2>2, <2>3, <3>2, <3>5, <4>1, <4>2 DEF Follows
    <3> QED BY <3>3, <3>4, <3>5
  <2>5. x.pc # "put"
    <3>1. CASE proc[p].op = "suspend"
      BY <1>3, <3>1 DEF Off
    <3>2. CASE proc[p].op # "suspend"
      BY <1>1, <1>3, <3>2 DEF Process
    <3> QED BY <3>1, <3>2
  <2>6. told'[r] # None => x.run = r /\ x.pc = "select"
    <3>1. proc[p].op # "suspend" => x.run = r /\ x.pc = "select"
      BY <1>1, <1>3, <1>4, <1>9 DEF Process
    <3> QED BY <2>2, <3>1
  <2>10. told'[r] # None /\ row'[r].status # told'[r] => r \in resumed' /\ told'[r] = "running"
    <3>1. CASE proc[p].op = "checkpoint"
      BY <1>1, <2>2, <2>3, <3>1 DEF Consistent
    <3>2. CASE proc[p].op # "checkpoint"
      BY <2>2, <3>2
    <3> QED BY <3>1, <3>2
  <2>7. \A u \in StepNames : \A i, j \in Of(r, u)' : i = j
    BY <1>5 DEF Alone
  <2>8. PICK s, t : s = x.task /\ t = Name(row'[r].task)
    OBVIOUS
  <2> QED BY <1>2, <2>1, <2>4, <2>5, <2>6, <2>7, <2>8, <2>10, Involved
<1> QED BY <1>8, <1>9

LEMMA AttemptPut ==
  ASSUME ProcInv, RowInv, NEW p \in Procs, Put(p), NEW r \in Runs, Alone(r)
  PROVE  Alone(r)'
<1>1. proc[p] \in Process /\ Consistent(proc[p]) /\ proc[p].pc = "put"
      /\ UNCHANGED <<row, told, resumed>>
  BY DEF ProcInv, Put, At
<1>2. PICK x : Next1(p, x)
  BY ExecutionMoves
<1>3. x = IF proc[p].op = "finish" THEN [Off EXCEPT !.pc = "ready"]
          ELSE [proc[p] EXCEPT !.pc = "running", !.task = None, !.op = None, !.latest = 0]
  BY <1>2 DEF Put, Next1, Goes, ProcInv
<1>4. PICK r0 \in Runs, s0 \in StepNames : r0 = proc[p].run /\ s0 = proc[p].task
  BY PutAttempts
<1>5. x.run \in {r0, None} /\ x.pc \in {"ready", "running"} /\ (x.run = r0 => proc[p].op # "finish")
  <2>1. CASE proc[p].op = "finish"
    BY <1>3, <1>4, <2>1, ConstantFacts DEF Off
  <2>2. CASE proc[p].op # "finish"
    BY <1>1, <1>3, <1>4, <2>2 DEF Process
  <2> QED BY <2>1, <2>2
<1>6. torn' = torn \ {r0}
  BY <1>4 DEF Put
<1>7. CASE r # r0
  <2>1. \A s : Of(r, s)' = Of(r, s) /\ \A i \in Of(r, s) : attempts'[i].status = attempts[i].status
    <3> SUFFICES ASSUME NEW s
                 PROVE  Of(r, s)' = Of(r, s) /\ \A i \in Of(r, s) : attempts'[i].status = attempts[i].status
      OBVIOUS
    <3>1. <<r, s>> # <<proc[p].run, proc[p].task>>
      BY <1>4, <1>7
    <3> QED BY <3>1, PutKeepsAttempts
  <2> QED BY <1>1, <1>2, <1>4, <1>5, <1>6, <1>7, <2>1, Uninvolved, ConstantFacts
<1>8. CASE r = r0
  <2>1. Executing(p, r) /\ \A q \in Procs \ {p} : proc[q].run # r
    BY <1>4, <1>8 DEF Alone, Executing
  <2>2. told[r] = proc[p].status /\ s0 = Name(row[r].task)
    BY <1>1, <1>4, <2>1 DEF Alone, Follows
  <2>3. x.run = r => Follows(x, row'[r], told'[r], resumed')
    <3> SUFFICES ASSUME x.run = r PROVE Follows(x, row'[r], told'[r], resumed')
      OBVIOUS
    <3>1. proc[p].op = "checkpoint"
      BY <1>5, <1>8, PutAttempts
    <3>2. proc[p].status = "running"
      BY <1>1, <3>1 DEF Consistent
    <3>3. x.pc = "running"
      BY <1>1, <1>3, <3>1 DEF Process
    <3>4. told[r] # None
      BY <2>2, <3>2, ConstantFacts DEF AllStatuses
    <3>5. r \notin resumed => row[r].status = "running"
      BY <2>2, <3>2, <3>4 DEF Alone
    <3> QED BY <1>1, <3>3, <3>5 DEF Follows
  <2>4. <<r, s0>> = <<proc[p].run, proc[p].task>>
    BY <1>4, <1>8
  <2>5. IF proc[p].latest = 0
        THEN Of(r, s0)' = Of(r, s0) \union {Len(attempts) + 1}
             /\ attempts'[Len(attempts) + 1].status = proc[p].status
        ELSE Of(r, s0)' = Of(r, s0) /\ proc[p].latest \in Of(r, s0)
             /\ attempts'[proc[p].latest].status = proc[p].status
    BY <2>4, PutKeepsAttempts
  <2>6. proc[p].latest = 0 => Of(r, s0) = {}
    BY <1>1, <1>4, <2>1 DEF Alone, At
  <2>7. \A u \in StepNames : \A i, j \in Of(r, u)' : i = j
    <3> SUFFICES ASSUME NEW u \in StepNames PROVE \A i, j \in Of(r, u)' : i = j
      OBVIOUS
    <3>1. CASE u = s0
      <4>1. \A i, j \in Of(r, s0) : i = j
        BY DEF Alone
      <4> QED BY <2>5, <2>6, <3>1, <4>1
    <3>2. CASE u # s0
      <4>1. Of(r, u)' = Of(r, u)
        <5>1. <<r, u>> # <<proc[p].run, proc[p].task>>
          BY <1>4, <3>2
        <5> QED BY <5>1, PutKeepsAttempts
      <4> QED BY <4>1 DEF Alone
    <3> QED BY <3>1, <3>2
  <2>8. \E i \in Of(r, s0)' : attempts'[i].status = told'[r]
    BY <1>1, <2>2, <2>5
  <2>9. PICK s : s = x.task
    OBVIOUS
  <2>10. s0 = Name(row'[r].task) /\ x.pc # "put"
    BY <1>1, <1>5, <2>2
  <2>11. told'[r] # None /\ row'[r].status # told'[r] => r \in resumed' /\ told'[r] = "running"
    BY <1>1 DEF Alone
  <2> QED BY <1>2, <2>1, <2>3, <2>7, <2>8, <2>9, <2>10, <2>11, Involved
<1> QED BY <1>7, <1>8

\* Who migrates executes no run.
LEMMA MigrationRuns ==
  ASSUME ProcInv, MigrationInv, NEW p \in Procs,
         Connect(p) \/ ReadVersion(p) \/ ApplyMigration(p) \/ MigrationCollides(p) \/ RecordVersion(p),
         NEW x, Next1(p, x)
  PROVE  x.run \notin Runs /\ proc[p].run \notin Runs
<1>1. proc[p] \in Process /\ Consistent(proc[p]) /\ proc[p].pc \in Migration \union {"off"}
  BY DEF ProcInv, Connect, ReadVersion, ApplyMigration, MigrationCollides, RecordVersion, At, Migration
<1>2. proc[p].run \notin Runs
  BY <1>1 DEF Consistent, InCall, Migration
<1>3. x = proc'[p]
  BY Moves DEF Next1
<1>5. CASE Connect(p)
  <2>1. x.run = None
    BY <1>3, <1>5 DEF Connect, Goes, Off, ProcInv
  <2> QED BY <1>2, <2>1, ConstantFacts
<1>6. CASE ReadVersion(p)
  <2>1. x = ToApply(p, Highest(recorded))
    BY <1>3, <1>6 DEF ReadVersion, Goes, ProcInv
  <2>2. ToApply(p, Highest(recorded)).run \in {None, proc[p].run}
    BY <1>1 DEF ToApply, Off, Process
  <2> QED BY <1>2, <2>1, <2>2, ConstantFacts
<1>7. CASE ApplyMigration(p)
  BY <1>1, <1>2, <1>3, <1>7 DEF ApplyMigration, Goes, ProcInv, Process
<1>8. CASE MigrationCollides(p)
  <2>1. x.run = None
    BY <1>3, <1>8 DEF MigrationCollides, Goes, Off, ProcInv
  <2> QED BY <1>2, <2>1, ConstantFacts
<1>9. CASE RecordVersion(p)
  <2>1. x = ToApply(p, proc[p].at)
    BY <1>3, <1>9 DEF RecordVersion, Goes, ProcInv
  <2>2. ToApply(p, proc[p].at).run \in {None, proc[p].run}
    BY <1>1 DEF ToApply, Off, Process
  <2> QED BY <1>2, <2>1, <2>2, ConstantFacts
<1> QED BY <1>2, <1>5, <1>6, <1>7, <1>8, <1>9

LEMMA AttemptFault ==
  ASSUME ProcInv, RowInv, NEW p \in Procs, Die(p) \/ StatementRaises(p), NEW r \in Runs, Alone(r)
  PROVE  Alone(r)'
<1>1. proc[p] \in Process /\ Consistent(proc[p]) /\ UNCHANGED <<row, attempts, told, resumed>>
      /\ torn' = Tears(p)
  BY DEF ProcInv, Die, StatementRaises
<1>2. torn \subseteq torn' /\ (proc[p].run = r /\ proc[p].pc \in {"select", "put"} => r \in torn')
  BY <1>1 DEF Tears
<1>3. CASE Die(p)
  <2>1. Next1(p, Off) /\ Off.run = None
    BY <1>3, OffIsProcess DEF Die, Next1, Migration, Off
  <2> QED BY <1>1, <1>2, <2>1, AloneKept, ConstantFacts
<1>4. CASE StatementRaises(p)
  <2> DEFINE x == FailsTo(proc[p])
  <2>1. Next1(p, x)
    BY <1>1, <1>4, FailedProcess DEF StatementRaises, FailsTo, Next1, Migration
  <2>2. x.run = r => proc[p].run = r /\ proc[p].op = "checkpoint" /\ x.pc = "get"
    BY <1>1, FailedProcess, ConstantFacts
  <2>3. x.pc # "put"
    BY <1>1, FailedProcess
  <2> HIDE DEF x
  <2>4. x.run = r => Follows(x, row[r], told[r], resumed)
    <3> SUFFICES ASSUME x.run = r PROVE Follows(x, row[r], told[r], resumed)
      OBVIOUS
    <3>1. proc[p].status = "running" /\ proc[p].pc \in InCall
          /\ Follows(proc[p], row[r], told[r], resumed)
      BY <1>1, <2>2, ConstantFacts DEF Consistent, Alone, Executing, Ops
    <3>2. r \notin resumed => row[r].status = "running"
      <4>1. CASE proc[p].pc \in {"get", "update"}
        BY <2>2, <3>1, <4>1 DEF Follows
      <4>2. CASE proc[p].pc \in {"select", "put"}
        <5>1. told[r] = "running" /\ told[r] # None
          BY <3>1, <4>2, ConstantFacts DEF Follows, AllStatuses
        <5> QED BY <5>1 DEF Alone
      <4> QED BY <3>1, <4>1, <4>2 DEF InCall
    <3> QED BY <2>2, <3>2 DEF Follows
  <2> QED BY <1>1, <1>2, <2>1, <2>2, <2>3, <2>4, AloneKept
<1> QED BY <1>3, <1>4

LEMMA AttemptStep == ProcInv /\ MigrationInv /\ RowInv /\ AttemptInv /\ [Next]_vars => AttemptInv'
<1> SUFFICES ASSUME ProcInv, MigrationInv, RowInv, AttemptInv, [Next]_vars,
                    NEW r \in Runs, r \notin overlapped'
             PROVE  Alone(r)'
  BY DEF AttemptInv
<1>0. r \notin overlapped
  <2>1. CASE UNCHANGED overlapped
    BY <2>1
  <2>2. ASSUME NEW p \in Procs, NEW q \in setup.runs, Start(p, q) \/ Resume(p, q)
        PROVE  r \notin overlapped
    <3>1. overlapped \subseteq overlapped'
      BY <2>2 DEF Start, Resume, Overlaps, runVars, history
    <3> QED BY <3>1
  <2>3. ASSUME NEW p \in Procs,
               Connect(p) \/ ReadVersion(p) \/ ApplyMigration(p) \/ MigrationCollides(p)
                 \/ RecordVersion(p) \/ Call(p) \/ Get(p) \/ Select(p)
        PROVE  UNCHANGED overlapped
    BY <2>3 DEF Connect, ReadVersion, ApplyMigration, MigrationCollides, RecordVersion, Call, Get,
                Select, runVars, history
  <2>4. ASSUME NEW p \in Procs, Update(p) \/ Put(p) \/ Die(p) \/ StatementRaises(p)
        PROVE  UNCHANGED overlapped
    BY <2>4 DEF Update, Put, Die, StatementRaises
  <2>5. ASSUME BeginList \/ NextPage \/ ScrapeCounts \/ ScrapeDurations \/ ScrapeFailures
        PROVE  UNCHANGED overlapped
    BY <2>5 DEF BeginList, NextPage, ScrapeCounts, ScrapeDurations, ScrapeFailures, runVars, history
  <2>6. CASE UNCHANGED vars
    BY <2>1, <2>6 DEF vars, runVars, history
  <2> QED BY <2>1, <2>2, <2>3, <2>4, <2>5, <2>6 DEF Next
<1>1. Alone(r)
  BY <1>0 DEF AttemptInv
<1>2. ASSUME UNCHANGED <<runVars, proc>> PROVE Alone(r)'
  BY <1>1, <1>2 DEF Alone, runVars, history, Executing, Follows, At, Of
<1>3. CASE UNCHANGED vars
  BY <1>2, <1>3 DEF vars
<1>4. ASSUME NEW p \in Procs,
             Connect(p) \/ ReadVersion(p) \/ ApplyMigration(p) \/ MigrationCollides(p) \/ RecordVersion(p)
      PROVE  Alone(r)'
  <2>1. PICK x : Next1(p, x)
    BY <1>4, MigrationMoves
  <2>2. UNCHANGED <<row, attempts, torn, told, resumed>>
    BY <1>4 DEF Connect, ReadVersion, ApplyMigration, MigrationCollides, RecordVersion, runVars, history
  <2> QED BY <1>1, <1>4, <2>1, <2>2, MigrationRuns, AloneKept
<1>5. ASSUME NEW p \in Procs, NEW r0 \in setup.runs, Start(p, r0) \/ Resume(p, r0)
      PROVE  Alone(r)'
  <2>1. CASE Start(p, r0) /\ 1 \notin applied
    BY <1>2, <2>1 DEF Start
  <2>2. CASE Start(p, r0) /\ 1 \in applied
    BY <1>1, <2>2, AttemptStart
  <2>3. CASE Resume(p, r0)
    BY <1>1, <2>3, AttemptResume
  <2> QED BY <1>5, <2>1, <2>2, <2>3
<1>6. ASSUME NEW p \in Procs, Call(p) \/ Get(p) \/ Select(p) PROVE Alone(r)'
  <2>1. PICK x : Next1(p, x)
    BY <1>6, ExecutionMoves
  <2>2. UNCHANGED <<row, attempts, torn, told, resumed>> /\ proc[p] \in Process
        /\ Consistent(proc[p]) /\ row \in [Runs -> RowType]
    BY <1>6 DEF Call, Get, Select, runVars, history, ProcInv, RowInv
  <2>3. CASE Call(p)
    <3>1. x.run = proc[p].run /\ x.pc = "get"
      <4>1. CASE \E s \in setup.steps, op \in {"checkpoint", "suspend"} :
                   Goes(p, [proc[p] EXCEPT !.pc = "get", !.op = op, !.task = s,
                              !.status = IF op = "suspend" THEN "suspended" ELSE "running"])
        <5>1. PICK s, op, status :
                Goes(p, [proc[p] EXCEPT !.pc = "get", !.op = op, !.task = s, !.status = status])
          BY <4>1
        <5>2. x = [proc[p] EXCEPT !.pc = "get", !.op = op, !.task = s, !.status = status]
          BY <5>1, <2>1 DEF Goes, Next1, ProcInv
        <5> QED BY <2>2, <5>2 DEF Process
      <4>2. CASE \E status \in {"completed", "failed"} :
                   Goes(p, [proc[p] EXCEPT !.pc = "get", !.op = "finish", !.status = status])
        <5>1. PICK status :
                Goes(p, [proc[p] EXCEPT !.pc = "get", !.op = "finish", !.status = status])
          BY <4>2
        <5>2. x = [proc[p] EXCEPT !.pc = "get", !.op = "finish", !.status = status]
          BY <5>1, <2>1 DEF Goes, Next1, ProcInv
        <5> QED BY <2>2, <5>2 DEF Process
      <4> QED BY <2>3, <4>1, <4>2 DEF Call
    <3>2. proc[p].pc = "running"
      BY <2>3 DEF Call, At
    <3>3. x.run = r => Follows(x, row[r], told[r], resumed)
      BY <1>1, <3>1, <3>2 DEF Alone, Executing, Follows
    <3> QED BY <1>1, <2>1, <2>2, <3>1, <3>2, <3>3, AloneKept
  <2>4. CASE Get(p)
    <3>0. PICK t : /\ Goes(p, [proc[p] EXCEPT !.pc = "update", !.task = t])
                   /\ proc[p].op = "finish" => t = Name(row[proc[p].run].task)
      BY <2>4 DEF Get
    <3>1. x = [proc[p] EXCEPT !.pc = "update", !.task = t]
      BY <3>0, <2>1 DEF Goes, Next1, ProcInv
    <3>2. x.run = proc[p].run /\ x.pc = "update" /\ x.op = proc[p].op /\ x.task = t
      BY <2>2, <3>1 DEF Process
    <3>3. proc[p].pc = "get"
      BY <2>4 DEF Get, At
    <3>4. x.run = r => Follows(x, row[r], told[r], resumed)
      BY <1>1, <3>0, <3>2, <3>3 DEF Alone, Executing, Follows
    <3> QED BY <1>1, <2>1, <2>2, <3>2, <3>3, <3>4, AloneKept
  <2>5. CASE Select(p)
    <3>1. PICK l : /\ Goes(p, [proc[p] EXCEPT !.pc = "put", !.latest = l])
                   /\ l = Latest(proc[p].run, proc[p].task)
      BY <2>5 DEF Select
    <3>2. x = [proc[p] EXCEPT !.pc = "put", !.latest = l]
      BY <3>1, <2>1 DEF Goes, Next1, ProcInv
    <3>3. x.run = proc[p].run /\ x.pc = "put" /\ x.op = proc[p].op /\ x.task = proc[p].task /\ x.latest = l
          /\ x.status = proc[p].status
      BY <2>2, <3>2 DEF Process
    <3>4. proc[p].pc = "select"
      BY <2>5 DEF Select, At
    <3>5. x.run = r => Follows(x, row[r], told[r], resumed)
      BY <1>1, <3>3, <3>4 DEF Alone, Executing, Follows
    <3>6. x.run = r /\ x.latest = 0 => Of(r, x.task) = {}
      BY <3>1, <3>3, LatestIn DEF RowInv
    <3> QED BY <1>1, <2>1, <2>2, <3>3, <3>4, <3>5, <3>6, AloneKept
  <2> QED BY <1>6, <2>3, <2>4, <2>5
<1>7. ASSUME NEW p \in Procs, Update(p) PROVE Alone(r)'
  BY <1>1, <1>7, AttemptUpdate
<1>8. ASSUME NEW p \in Procs, Put(p) PROVE Alone(r)'
  BY <1>1, <1>8, AttemptPut
<1>9. ASSUME NEW p \in Procs, Die(p) \/ StatementRaises(p) PROVE Alone(r)'
  BY <1>1, <1>9, AttemptFault
<1>10. CASE BeginList \/ NextPage \/ ScrapeCounts \/ ScrapeDurations \/ ScrapeFailures
  BY <1>2, <1>10 DEF BeginList, NextPage, ScrapeCounts, ScrapeDurations, ScrapeFailures
<1> QED BY <1>3, <1>4, <1>5, <1>6, <1>7, <1>8, <1>9, <1>10 DEF Next

-----------------------------------------------------------------------------
(* The readers *)

\* A page has every row from its offset on that it does not leave to the
\* next page.
LEMMA PageHas ==
  ASSUME NEW s \in Seq(Runs), NEW offset \in Nat, NEW i \in DOMAIN s, offset < i
  PROVE  LET page == Window(s, offset) IN
         /\ s[i] \in ToSet(page) \/ offset + Limit < i
         /\ Len(page) < Limit => s[i] \in ToSet(page)
<1> DEFINE n == Len(s)
           last == IF offset + Limit <= n THEN offset + Limit ELSE n
           page == Window(s, offset)
<1>1. Limit \in Nat /\ Limit > 0 /\ n \in Nat /\ i \in 1..n /\ DOMAIN s = 1..n
  BY ConstantFacts
<1>2. page = SubSeq(s, offset + 1, last)
  BY DEF Window
<1>3. last \in Nat /\ last <= n /\ offset <= last
  BY <1>1
<1> HIDE DEF page, last
<1>4. page = [k \in 1..(last - offset) |-> s[offset + k]]
  <2>1. SubSeq(s, offset + 1, last) = [k \in 1..(last - (offset + 1) + 1) |-> s[k + (offset + 1) - 1]]
    BY <1>1, <1>3
  <2>2. last - (offset + 1) + 1 = last - offset
    BY <1>3
  <2>3. \A k \in 1..(last - offset) : k + (offset + 1) - 1 = offset + k
    BY <1>3
  <2> QED BY <1>2, <2>1, <2>2, <2>3
<1>5. DOMAIN page = 1..(last - offset) /\ Len(page) = last - offset
  BY <1>3, <1>4
<1>6. i <= last => s[i] \in ToSet(page)
  <2> SUFFICES ASSUME i <= last PROVE s[i] \in ToSet(page)
    OBVIOUS
  <2>1. i - offset \in 1..(last - offset) /\ offset + (i - offset) = i
    BY <1>1, <1>3
  <2>2. page[i - offset] = s[i]
    BY <1>4, <2>1
  <2> QED BY <1>5, <2>1, <2>2 DEF ToSet
<1>7. i > last => offset + Limit < i
  BY <1>1 DEF last
<1>8. Len(page) < Limit => last = n
  <2>1. CASE offset + Limit <= n
    <3>1. last - offset = Limit
      BY <1>1, <2>1 DEF last
    <3> QED BY <1>1, <1>5, <3>1
  <2>2. CASE ~ (offset + Limit <= n)
    BY <2>2 DEF last
  <2> QED BY <2>1, <2>2
<1>9. (i <= last \/ i > last) /\ (last = n => i <= last)
  <2>1. i \in Nat /\ last \in Nat /\ i <= n
    BY <1>1, <1>3
  <2> HIDE DEF n
  <2> QED BY <2>1
<1> QED BY <1>6, <1>7, <1>8, <1>9 DEF page

\* What stands before place i of a sequence without repetitions.
Before(s, i) == {s[j] : j \in 1..(i - 1)}

LEMMA PlacesBefore ==
  ASSUME NEW n \in Nat, NEW S, NEW s \in [1..n -> S], NEW i \in 1..n,
         \A j, k \in 1..n : j < k => s[j] # s[k]
  PROVE  Cardinality(Before(s, i)) = i - 1
<1> DEFINE f == [j \in 1..(i - 1) |-> s[j]]
<1>1. f \in Surjection(1..(i - 1), Before(s, i))
  BY DEF Surjection, Before
<1>2. \A j, k \in 1..(i - 1) : j # k => s[j] # s[k]
  <2> TAKE j, k \in 1..(i - 1)
  <2>1. j \in 1..n /\ k \in 1..n /\ (j # k => j < k \/ k < j)
    OBVIOUS
  <2> QED BY <2>1
<1>3. f \in Injection(1..(i - 1), Before(s, i))
  BY <1>2 DEF Injection, IsInjective, Before
<1>4. IsFiniteSet(1..(i - 1)) /\ Cardinality(1..(i - 1)) = i - 1
  <2>1. 1 \in Int /\ i - 1 \in Int
    OBVIOUS
  <2>2. /\ IsFiniteSet(1..(i - 1))
        /\ Cardinality(1..(i - 1)) = IF 1 > i - 1 THEN 0 ELSE (i - 1) - 1 + 1
    BY <2>1, FS_Interval
  <2> QED BY <2>2
<1> HIDE DEF f
<1>5. Cardinality(Before(s, i)) = Cardinality(1..(i - 1))
  BY <1>1, <1>3, <1>4, FS_Surjection
<1> QED BY <1>4, <1>5

LEMMA ListedIsFinite == Listed \subseteq Runs /\ IsFiniteSet(Listed) /\ Cardinality(Listed) \in Nat
BY ConstantFacts, FS_Subset, FS_CardinalityType DEF Listed

\* A run that no other shares its stamp with has, in every order that the
\* database may return, exactly the newer ones before it.
LEMMA AheadOfPlace ==
  ASSUME RowInv, NEW s \in Orders, NEW i \in DOMAIN s, Apart(s[i])
  PROVE  Cardinality(Ahead(s[i])) = i - 1
<1> DEFINE n == Cardinality(Listed)
<1>1. n \in Nat /\ Listed \subseteq Runs
  BY ListedIsFinite
<1>2. /\ s \in [1..n -> Listed] /\ DOMAIN s = 1..n
      /\ \A r \in Listed : \E j \in 1..n : s[j] = r
      /\ \A j, k \in 1..n : j < k => s[j] # s[k] /\ ~ Newer(s[k], s[j])
  BY DEF Orders
<1> HIDE DEF n
<1>3. \A r \in Runs : created[r] \in Nat
  BY DEF RowInv
<1>4. \A j \in 1..(i - 1) : j \in 1..n /\ j < i
  BY <1>1, <1>2
<1>5. ASSUME NEW j \in 1..(i - 1) PROVE s[j] \in Ahead(s[i])
  <2>1. s[j] \in Listed /\ s[i] \in Listed /\ s[j] # s[i] /\ ~ Newer(s[i], s[j])
    BY <1>2, <1>4
  <2>2. s[j] \in Runs \ {s[i]} /\ s[i] \in Runs
    BY <1>1, <2>1
  <2>3. created[s[j]] # created[s[i]]
    BY <2>2 DEF Apart
  <2>4. created[s[j]] \in Nat /\ created[s[i]] \in Nat
    BY <1>3, <2>2
  <2>5. created[s[j]] > created[s[i]]
    BY <2>1, <2>3, <2>4 DEF Newer
  <2> QED BY <2>1, <2>5 DEF Ahead, Newer
<1>6. ASSUME NEW q \in Ahead(s[i]) PROVE \E j \in 1..(i - 1) : q = s[j]
  <2>1. q \in Listed /\ Newer(q, s[i])
    BY <1>6 DEF Ahead
  <2>2. PICK j \in 1..n : s[j] = q
    BY <1>2, <2>1
  <2>3. ~ (i < j)
    BY <1>2, <2>1, <2>2
  <2>4. i # j
    <3>1. s[i] \in Runs
      BY <1>1, <1>2
    <3>2. ~ (created[s[i]] > created[s[i]])
      BY <1>3, <3>1
    <3> QED BY <2>1, <2>2, <3>2 DEF Newer
  <2>5. j \in 1..(i - 1)
    BY <1>1, <1>2, <2>2, <2>3, <2>4
  <2> QED BY <2>2, <2>5
<1>8. Ahead(s[i]) = Before(s, i)
  BY <1>5, <1>6 DEF Before
<1>9. i \in 1..n /\ \A j, k \in 1..n : j < k => s[j] # s[k]
  BY <1>2
<1>10. Cardinality(Before(s, i)) = i - 1
  BY <1>1, <1>2, <1>9, PlacesBefore
<1> QED BY <1>8, <1>10

LEMMA ReaderInit == Init => ReaderInv
BY DEF Init, ReaderInv, Reader

\* Rows come and change, and none goes or gets another stamp.
LEMMA ReaderKept ==
  ASSUME RowInv, ReaderInv, setup' = setup,
         NEW r0 \in Runs, NEW y, row' = [row EXCEPT ![r0] = y],
         \A q \in Runs : row[q] # NoRow => created'[q] = created[q],
         \A q \in Runs : q # r0 => created'[q] = created[q],
         reader' = [reader EXCEPT !.left = reader.left \/ (Shows(row[r0]) /\ ~ Shows(row'[r0]))]
  PROVE  ReaderInv'
<1>1. row \in [Runs -> RowType] /\ reader \in Reader /\ \A q \in Runs : row[q] # NoRow <=> created[q] # 0
  BY DEF RowInv, ReaderInv
<1>2. /\ reader' \in Reader
      /\ reader'.pc = reader.pc /\ reader'.offset = reader.offset /\ reader'.got = reader.got
      /\ reader'.want = reader.want
      /\ reader'.left = (reader.left \/ (Shows(row[r0]) /\ ~ Shows(row'[r0])))
  BY <1>1 DEF Reader
<1>3. Listed' = {q \in Runs : Shows(row'[q])}
  BY DEF Listed, Shows
<1>4. ~ reader'.left => ~ reader.left /\ Listed \subseteq Listed'
  <2> SUFFICES ASSUME ~ reader'.left PROVE ~ reader.left /\ Listed \subseteq Listed'
    OBVIOUS
  <2>1. ~ reader.left /\ (Shows(row[r0]) => Shows(row'[r0]))
    BY <1>2
  <2>2. \A q \in Runs : q # r0 => row'[q] = row[q]
    BY <1>1
  <2>3. \A q \in Runs : Shows(row[q]) => Shows(row'[q])
    BY <2>1, <2>2
  <2> QED BY <1>3, <2>1, <2>3 DEF Listed
<1>5. \A q \in Listed : q \in Runs /\ row[q] # NoRow /\ created'[q] = created[q] /\ created[q] # 0
  BY <1>1 DEF Listed, Shows
<1>6. ASSUME NEW r \in Listed, Apart(r)' PROVE Apart(r)
  <2> SUFFICES ASSUME NEW q \in Runs \ {r} PROVE created[q] # created[r]
    BY DEF Apart
  <2>1. created'[q] # created'[r] /\ created'[r] = created[r] /\ created[r] # 0
    BY <1>5, <1>6 DEF Apart
  <2>2. CASE row[q] # NoRow
    BY <2>1, <2>2
  <2>3. CASE row[q] = NoRow
    BY <1>1, <2>1, <2>3
  <2> QED BY <2>2, <2>3
<1>7. ASSUME NEW r \in Listed, Listed \subseteq Listed'
      PROVE  Cardinality(Ahead(r)) <= Cardinality(Ahead(r)')
  <2>1. Ahead(r) \subseteq Ahead(r)'
    <3> SUFFICES ASSUME NEW q \in Ahead(r) PROVE q \in Ahead(r)'
      OBVIOUS
    <3>1. q \in Listed /\ created[q] > created[r]
      BY DEF Ahead, Newer
    <3>2. q \in Listed' /\ created'[q] > created'[r]
      BY <1>5, <1>7, <3>1
    <3> QED BY <3>2 DEF Ahead, Newer
  <2>2. IsFiniteSet(Ahead(r)')
    <3>1. Ahead(r)' \subseteq Runs
      BY <1>3 DEF Ahead
    <3> QED BY <3>1, ConstantFacts, FS_Subset
  <2> QED BY <2>1, <2>2, FS_Subset
<1>8. ASSUME reader'.pc = "paging", ~ reader'.left
      PROVE  \A r \in reader'.want \ reader'.got :
               Apart(r)' => reader'.offset <= Cardinality(Ahead(r)')
  <2>1. reader.pc = "paging" /\ ~ reader.left /\ Listed \subseteq Listed'
    BY <1>2, <1>4, <1>8
  <2>2. reader.want \subseteq Listed
    BY <2>1 DEF ReaderInv
  <2>3. ASSUME NEW r \in reader.want \ reader.got, Apart(r)'
        PROVE  reader.offset <= Cardinality(Ahead(r)')
    <3>1. r \in Listed /\ Apart(r)
      BY <1>6, <2>2, <2>3
    <3>2. reader.offset <= Cardinality(Ahead(r))
      BY <2>1, <2>3, <3>1 DEF ReaderInv
    <3>3. Cardinality(Ahead(r)) <= Cardinality(Ahead(r)')
      BY <1>7, <2>1, <3>1
    <3>4. reader.offset \in Nat /\ Cardinality(Ahead(r)) \in Nat /\ Cardinality(Ahead(r)') \in Nat
      <4>1. Ahead(r) \subseteq Runs /\ Ahead(r)' \subseteq Runs
        BY <1>3 DEF Ahead, Listed
      <4> QED BY <1>1, <4>1, ConstantFacts, FS_Subset, FS_CardinalityType DEF Reader
    <3> QED BY <3>2, <3>3, <3>4
  <2> QED BY <1>2, <2>1, <2>2, <2>3
<1>9. ASSUME reader'.pc = "done", ~ reader'.left
      PROVE  \A r \in reader'.want : Apart(r)' => r \in reader'.got
  <2> SUFFICES ASSUME NEW r \in reader.want, Apart(r)' PROVE r \in reader.got
    BY <1>2
  <2>1. reader.pc = "done" /\ ~ reader.left /\ reader.want \subseteq Listed
    BY <1>2, <1>4, <1>9 DEF ReaderInv
  <2> QED BY <1>6, <2>1 DEF ReaderInv
<1>10. reader'.pc = "idle" => reader'.offset = 0 /\ reader'.got = {}
  BY <1>2 DEF ReaderInv
<1>11. reader'.pc # "idle" /\ ~ reader'.left => reader'.want \subseteq Listed'
  BY <1>2, <1>4 DEF ReaderInv
<1> QED BY <1>2, <1>8, <1>9, <1>10, <1>11 DEF ReaderInv

\* The step of the reader that takes a page.
LEMMA ReaderPages ==
  ASSUME ProcInv, RowInv, ReaderInv, NextPage
  PROVE  ReaderInv'
<1>1. PICK s \in Orders :
        /\ reader' = [reader EXCEPT !.got = @ \union ToSet(Window(s, reader.offset)),
                                    !.offset = @ + Limit,
                                    !.pc = IF Len(Window(s, reader.offset)) < Limit THEN "done" ELSE @]
  BY DEF NextPage
<1> DEFINE page == Window(s, reader.offset)
           n == Cardinality(Listed)
<1>2. reader.pc = "paging" /\ UNCHANGED <<setup, row, created>>
  BY DEF NextPage, runVars
<1>3. reader \in Reader /\ reader.offset \in Nat
  BY DEF ReaderInv, Reader
<1>4. n \in Nat /\ Listed \subseteq Runs
  BY ListedIsFinite
<1>5. s \in [1..n -> Listed] /\ \A r \in Listed : \E j \in 1..n : s[j] = r
  BY DEF Orders
<1> HIDE DEF n
<1>6. s \in Seq(Runs) /\ Len(s) = n /\ DOMAIN s = 1..n
  BY <1>4, <1>5
<1>7. ToSet(page) \subseteq Runs
  <2> DEFINE m == IF reader.offset + Limit <= Len(s) THEN reader.offset + Limit ELSE Len(s)
  <2>1. page = SubSeq(s, reader.offset + 1, m) /\ m \in Nat /\ m <= Len(s)
    BY <1>3, <1>4, <1>6, ConstantFacts DEF Window
  <2> HIDE DEF m
  <2>2. \A k \in (reader.offset + 1)..m : k \in 1..Len(s)
    BY <1>3, <1>4, <1>6, <2>1
  <2> HIDE DEF page
  <2>3. page \in Seq(Runs)
    BY <1>3, <1>6, <2>1, <2>2
  <2> QED BY <2>3 DEF ToSet
<1>8. ASSUME ~ reader.left, NEW r \in reader.want \ reader.got, Apart(r)
      PROVE  /\ r \in ToSet(page) \/ reader.offset + Limit <= Cardinality(Ahead(r))
             /\ Len(page) < Limit => r \in ToSet(page)
  <2>1. r \in Listed /\ reader.offset <= Cardinality(Ahead(r))
    BY <1>2, <1>8 DEF ReaderInv
  <2>2. PICK i \in 1..n : s[i] = r
    BY <1>5, <2>1
  <2>3. i \in DOMAIN s /\ Cardinality(Ahead(r)) = i - 1
    BY <1>6, <1>8, <2>2, AheadOfPlace
  <2>4. i \in Nat /\ Limit \in Nat /\ reader.offset < i
    BY <1>3, <1>4, <2>1, <2>2, <2>3, ConstantFacts
  <2>5. /\ s[i] \in ToSet(page) \/ reader.offset + Limit < i
        /\ Len(page) < Limit => s[i] \in ToSet(page)
    BY <1>3, <1>6, <2>3, <2>4, PageHas
  <2> HIDE DEF page
  <2>6. reader.offset + Limit < i => reader.offset + Limit <= Cardinality(Ahead(r))
    BY <1>3, <2>3, <2>4
  <2> QED BY <2>2, <2>5, <2>6
<1> HIDE DEF page
<1>9. /\ reader'.pc = (IF Len(page) < Limit THEN "done" ELSE "paging")
      /\ reader'.offset = reader.offset + Limit /\ reader'.want = reader.want
      /\ reader'.got = reader.got \union ToSet(page) /\ reader'.left = reader.left
  BY <1>1, <1>2, <1>3 DEF Reader, page
<1>10. reader' \in Reader
  <2>1. reader.got \union ToSet(page) \in SUBSET Runs /\ reader.offset + Limit \in Nat
    BY <1>3, <1>7, ConstantFacts DEF Reader
  <2>2. (IF Len(page) < Limit THEN "done" ELSE reader.pc) \in {"idle", "paging", "done"}
    BY <1>2
  <2>3. reader' = [reader EXCEPT !.got = reader.got \union ToSet(page),
                     !.offset = reader.offset + Limit,
                     !.pc = IF Len(page) < Limit THEN "done" ELSE reader.pc]
    BY <1>1 DEF page
  <2> QED BY <1>3, <2>1, <2>2, <2>3 DEF Reader
<1>11. Listed' = Listed /\ \A r : (Ahead(r)' = Ahead(r)) /\ (Apart(r)' <=> Apart(r))
  BY <1>2 DEF Listed, Shows, Ahead, Newer, Apart
<1>12. ~ reader'.left => reader'.want \subseteq Listed'
  BY <1>2, <1>9, <1>11 DEF ReaderInv
<1>13. ASSUME reader'.pc = "paging", ~ reader'.left, NEW r \in reader'.want \ reader'.got, Apart(r)'
       PROVE  reader'.offset <= Cardinality(Ahead(r)')
  <2>1. ~ reader.left /\ r \in reader.want \ reader.got /\ r \notin ToSet(page) /\ Apart(r)
    BY <1>9, <1>11, <1>13
  <2>2. reader.offset + Limit <= Cardinality(Ahead(r))
    BY <1>8, <2>1
  <2> QED BY <1>9, <1>11, <2>2
<1>14. ASSUME reader'.pc = "done", ~ reader'.left, NEW r \in reader'.want, Apart(r)'
       PROVE  r \in reader'.got
  <2>1. ~ reader.left /\ r \in reader.want /\ Apart(r) /\ Len(page) < Limit
    BY <1>9, <1>11, <1>14
  <2> QED BY <1>8, <1>9, <2>1
<1> QED BY <1>9, <1>10, <1>12, <1>13, <1>14 DEF ReaderInv

\* Rows only come and change, by start and by the statements of a call.
LEMMA RowsChange ==
  ASSUME ProcInv, RowInv, [Next]_vars, ~ BeginList, ~ NextPage
  PROVE  /\ setup' = setup
         /\ \/ UNCHANGED <<row, created, reader>>
            \/ \E r0 \in Runs : \E y :
                 /\ row' = [row EXCEPT ![r0] = y] /\ Changes(r0)
                 /\ \A q \in Runs : q # r0 \/ row[q] # NoRow => created'[q] = created[q]
<1>1. ASSUME NEW p \in Procs, NEW r \in setup.runs, Start(p, r), 1 \in applied
      PROVE  \E r0 \in Runs : \E y :
               /\ row' = [row EXCEPT ![r0] = y] /\ Changes(r0)
               /\ \A q \in Runs : q # r0 \/ row[q] # NoRow => created'[q] = created[q]
  <2>1. r \in Runs /\ Inserts(r) /\ Changes(r)
    BY <1>1, ConstantFacts DEF ProcInv, Schema, Start
  <2>2. PICK w : row' = [row EXCEPT ![r] = [status |-> "running", task |-> None, workflow |-> w]]
    BY <1>1 DEF Start
  <2>3. PICK y : y = [status |-> "running", task |-> None, workflow |-> w]
    OBVIOUS
  <2>4. row' = [row EXCEPT ![r] = y]
    BY <2>2, <2>3
  <2>5. \A q \in Runs : q # r \/ row[q] # NoRow => created'[q] = created[q]
    BY <2>1, InsertStamps
  <2> QED BY <2>1, <2>4, <2>5
<1>2. ASSUME NEW p \in Procs, Update(p)
      PROVE  \E r0 \in Runs : \E y :
               /\ row' = [row EXCEPT ![r0] = y] /\ Changes(r0)
               /\ \A q \in Runs : q # r0 \/ row[q] # NoRow => created'[q] = created[q]
  <2>1. PICK r \in Runs : r = proc[p].run
    BY <1>2 DEF ProcInv, Update, At, Consistent, InCall
  <2>2. row \in [Runs -> RowType]
    BY DEF RowInv
  <2>3. PICK y : y = row'[r]
    OBVIOUS
  <2>4. row' = [row EXCEPT ![r] = y]
    BY <1>2, <2>1, <2>2, <2>3 DEF Update
  <2>5. Changes(r) /\ created' = created
    BY <1>2, <2>1 DEF Update
  <2> QED BY <2>4, <2>5
<1>3. ASSUME NEW p \in Procs, NEW r \in setup.runs, Start(p, r), 1 \notin applied
      PROVE  UNCHANGED <<row, created, reader>>
  BY <1>3 DEF Start, runVars, readVars
<1>4. ASSUME NEW p \in Procs, NEW r \in setup.runs, Resume(p, r) PROVE UNCHANGED <<row, created, reader>>
  BY <1>4 DEF Resume, readVars
<1>5. ASSUME NEW p \in Procs,
             \/ Connect(p) \/ ReadVersion(p) \/ ApplyMigration(p) \/ MigrationCollides(p) \/ RecordVersion(p)
             \/ Call(p) \/ Get(p) \/ Select(p) \/ Put(p) \/ Die(p) \/ StatementRaises(p)
      PROVE  UNCHANGED <<row, created, reader>>
  BY <1>5 DEF Connect, ReadVersion, ApplyMigration, MigrationCollides, RecordVersion, Call, Get,
       Select, Put, Die, StatementRaises, runVars, readVars
<1>6. CASE ScrapeCounts \/ ScrapeDurations \/ ScrapeFailures \/ UNCHANGED vars
  BY <1>6 DEF ScrapeCounts, ScrapeDurations, ScrapeFailures, vars, runVars, readVars
<1>7. setup' = setup
  BY DEF Next, vars, Connect, ReadVersion, ApplyMigration, MigrationCollides, RecordVersion,
         Start, Resume, Call, Get, Update, Select, Put, Die, StatementRaises,
         ScrapeCounts, ScrapeDurations, ScrapeFailures
<1> QED BY <1>1, <1>2, <1>3, <1>4, <1>5, <1>6, <1>7 DEF Next

LEMMA ReaderStep == ProcInv /\ RowInv /\ ReaderInv /\ [Next]_vars => ReaderInv'
<1> SUFFICES ASSUME ProcInv, RowInv, ReaderInv, [Next]_vars PROVE ReaderInv'
  OBVIOUS
<1>1. CASE BeginList
  <2>1. /\ reader' = [reader EXCEPT !.pc = "paging", !.want = Listed, !.left = FALSE]
        /\ reader.pc = "idle" /\ UNCHANGED <<setup, row, created>>
    BY <1>1 DEF BeginList, runVars
  <2>2. reader \in Reader /\ reader.offset = 0 /\ reader.got = {}
    BY <2>1 DEF ReaderInv
  <2>3. Listed \subseteq Runs /\ Listed' = Listed
    BY <2>1 DEF Listed, Shows
  <2>4. /\ reader' \in Reader /\ reader'.pc = "paging" /\ reader'.offset = 0
        /\ reader'.got = {} /\ reader'.want = Listed
    BY <2>1, <2>2, <2>3 DEF Reader
  <2>5. \A r : 0 <= Cardinality(Ahead(r)')
    <3> SUFFICES ASSUME NEW r PROVE 0 <= Cardinality(Ahead(r)')
      OBVIOUS
    <3>1. Ahead(r)' \subseteq Runs
      BY DEF Ahead, Listed
    <3>2. Cardinality(Ahead(r)') \in Nat
      BY <3>1, ConstantFacts, FS_Subset, FS_CardinalityType
    <3> QED BY <3>2
  <2> QED BY <2>3, <2>4, <2>5 DEF ReaderInv
<1>2. CASE NextPage
  BY <1>2, ReaderPages
<1>3. CASE ~ BeginList /\ ~ NextPage
  <2>1. CASE UNCHANGED <<row, created, reader>>
    <3>1. setup' = setup
      BY <1>3, RowsChange
    <3>2. Listed' = Listed /\ \A r : (Ahead(r)' = Ahead(r)) /\ (Apart(r)' <=> Apart(r))
      BY <2>1, <3>1 DEF Listed, Shows, Ahead, Newer, Apart
    <3> QED BY <2>1, <3>2 DEF ReaderInv
  <2>2. CASE ~ UNCHANGED <<row, created, reader>>
    <3>0. PICK r0 \in Runs : \E y :
            /\ row' = [row EXCEPT ![r0] = y] /\ Changes(r0)
            /\ \A q \in Runs : q # r0 \/ row[q] # NoRow => created'[q] = created[q]
      BY <1>3, <2>2, RowsChange
    <3>1. PICK y :
            /\ row' = [row EXCEPT ![r0] = y] /\ Changes(r0)
            /\ \A q \in Runs : q # r0 \/ row[q] # NoRow => created'[q] = created[q]
      BY <3>0
    <3>2. setup' = setup
      BY <1>3, RowsChange
    <3>3. reader' = [reader EXCEPT !.left = reader.left \/ (Shows(row[r0]) /\ ~ Shows(row'[r0]))]
      BY <3>1 DEF Changes
    <3> QED BY <3>1, <3>2, <3>3, ReaderKept
  <2> QED BY <2>1, <2>2
<1> QED BY <1>1, <1>2, <1>3

-----------------------------------------------------------------------------
(* The metrics *)

LEMMA Counts ==
  ASSUME NEW S, NEW T, S \subseteq T
  PROVE  /\ IsFiniteSet(Rows(S)) /\ Count(S) \in Nat
         /\ Count(S) <= Count(T)
         /\ Count(S) > 0 => Rows(S) # {}
<1>1. Rows(S) \subseteq Rows(T) /\ Rows(T) \subseteq Runs
  BY DEF Rows
<1>2. IsFiniteSet(Rows(T))
  BY <1>1, ConstantFacts, FS_Subset
<1>3. IsFiniteSet(Rows(S)) /\ Cardinality(Rows(S)) <= Cardinality(Rows(T))
  BY <1>1, <1>2, FS_Subset
<1>4. Cardinality(Rows(S)) \in Nat
  BY <1>3, FS_CardinalityType
<1>5. Cardinality(Rows(S)) > 0 => Rows(S) # {}
  BY <1>4, FS_EmptySet
<1> QED BY <1>3, <1>4, <1>5 DEF Count

LEMMA CountsAddUp ==
  Count({"completed"}) + Count({"failed"}) <= Count(AllStatuses)
<1> DEFINE C == Rows({"completed"})
           F == Rows({"failed"})
           A == Rows(AllStatuses)
<1>1. C \intersect F = {} /\ C \union F \subseteq A
  BY DEF Rows, AllStatuses
<1>2. IsFiniteSet(C) /\ IsFiniteSet(F) /\ IsFiniteSet(A)
  BY Counts
<1> HIDE DEF C, F, A
<1>3. Cardinality(C \union F) = Cardinality(C) + Cardinality(F) - Cardinality(C \intersect F)
  BY <1>2, FS_Union
<1>4. Cardinality(C \intersect F) = 0
  BY <1>1, FS_EmptySet
<1>5. Cardinality(C \union F) <= Cardinality(A)
  BY <1>1, <1>2, FS_Subset
<1>6. Cardinality(C) \in Nat /\ Cardinality(F) \in Nat
  BY <1>2, FS_CardinalityType
<1>7. Cardinality(C) + Cardinality(F) <= Cardinality(A)
  BY <1>3, <1>4, <1>5, <1>6
<1> QED BY <1>7 DEF Count, C, F, A

\* Without a run that starts again or changes its outcome, the finished runs
\* stay as they are.
LEMMA ScrapeKept ==
  ASSUME RowInv, ScrapeInv,
         \/ scrape' = scrape /\ row' = row
         \/ \E r \in Runs : \E y :
              /\ row' = [row EXCEPT ![r] = y]
              /\ scrape' = [scrape EXCEPT !.reset = scrape.reset \/ Settled(r)]
  PROVE  ScrapeInv'
<1>1. scrape \in Scrape
  BY DEF ScrapeInv
<1>2. CASE scrape' = scrape /\ row' = row
  BY <1>2 DEF ScrapeInv, Rows, Count, AtMost
<1>3. ASSUME NEW r \in Runs, NEW y, row' = [row EXCEPT ![r] = y],
             scrape' = [scrape EXCEPT !.reset = scrape.reset \/ Settled(r)]
      PROVE  ScrapeInv'
  <2>1. /\ scrape' \in Scrape
        /\ scrape'.reset = (scrape.reset \/ Settled(r))
        /\ scrape'.pc = scrape.pc /\ scrape'.total = scrape.total
        /\ scrape'.completed = scrape.completed /\ scrape'.failed = scrape.failed
        /\ scrape'.durations = scrape.durations /\ scrape'.failures = scrape.failures
    BY <1>1, <1>3 DEF Scrape
  <2>2. ~ scrape'.reset => ~ scrape.reset /\ ~ Settled(r)
    BY <2>1
  <2>3. ~ scrape'.reset => /\ Rows({"completed"}) \subseteq Rows({"completed"})'
                           /\ Rows({"failed"}) \subseteq Rows({"failed"})'
    <3> SUFFICES ASSUME ~ scrape'.reset, NEW q \in Runs, row[q].status \in {"completed", "failed"}
                 PROVE  row'[q] = row[q]
      BY DEF Rows
    <3>1. q # r
      BY <2>2 DEF Settled
    <3> QED BY <1>3, <3>1 DEF RowInv
  <2>4. ~ scrape'.reset => Count({"failed"}) <= Count({"failed"})'
    <3>1. Rows({"failed"})' \subseteq Runs
      BY DEF Rows
    <3>2. IsFiniteSet(Rows({"failed"})')
      BY <3>1, ConstantFacts, FS_Subset
    <3>3. Rows({"failed"}) \subseteq Rows({"failed"})'
            => Cardinality(Rows({"failed"})) <= Cardinality(Rows({"failed"})')
      BY <3>2, FS_Subset
    <3>4. Count({"failed"})' = Cardinality(Rows({"failed"})')
      BY DEF Count
    <3> QED BY <2>3, <3>3, <3>4 DEF Count
  <2>5. Count({"failed"}) \in Nat /\ Count({"failed"})' \in Nat
    <3>1. Count({"failed"}) \in Nat
      BY Counts
    <3>2. Rows({"failed"})' \subseteq Runs
      BY DEF Rows
    <3>3. Count({"failed"})' \in Nat
      BY <3>2, ConstantFacts, FS_Subset, FS_CardinalityType DEF Count
    <3> QED BY <3>1, <3>3
  <2>6. ~ scrape'.reset /\ scrape'.completed > 0 =>
          /\ scrape'.pc = "durations" => Rows({"completed"})' # {}
          /\ scrape'.pc \in {"failures", "done"} => scrape'.durations
    BY <2>1, <2>2, <2>3 DEF ScrapeInv
  <2>7. ~ scrape'.reset =>
          /\ scrape'.pc \in {"durations", "failures"} => scrape'.failed <= Count({"failed"})'
          /\ scrape'.pc = "done" => AtMost(scrape'.failed, FailureLimit) <= scrape'.failures
    <3>1. scrape.failed \in Nat
      BY <1>1 DEF Scrape
    <3> QED BY <2>1, <2>2, <2>4, <2>5, <3>1 DEF ScrapeInv
  <2>8. scrape'.completed + scrape'.failed <= scrape'.total
    BY <2>1 DEF ScrapeInv
  <2> QED BY <2>1, <2>6, <2>7, <2>8 DEF ScrapeInv
<1> QED BY <1>2, <1>3

LEMMA ScrapeInit == Init => ScrapeInv
<1> SUFFICES ASSUME Init PROVE ScrapeInv
  OBVIOUS
<1>1. scrape = [pc |-> "idle", total |-> 0, completed |-> 0, failed |-> 0,
                durations |-> FALSE, failures |-> 0, reset |-> FALSE]
  BY DEF Init
<1> QED BY <1>1 DEF ScrapeInv, Scrape

LEMMA ScrapeStep == ProcInv /\ RowInv /\ ScrapeInv /\ [Next]_vars => ScrapeInv'
<1> SUFFICES ASSUME ProcInv, RowInv, ScrapeInv, [Next]_vars PROVE ScrapeInv'
  OBVIOUS
<1>1. scrape \in Scrape
  BY DEF ScrapeInv
<1>2. ASSUME row' = row /\ scrape' = scrape PROVE ScrapeInv'
  BY <1>2, ScrapeKept
<1>3. ASSUME NEW p \in Procs, NEW r \in setup.runs, Start(p, r) PROVE ScrapeInv'
  <2>1. r \in Runs
    BY ConstantFacts DEF ProcInv, Schema
  <2>2. CASE 1 \notin applied
    BY <1>2, <1>3, <2>2 DEF Start, runVars, readVars
  <2>3. CASE 1 \in applied
    BY <1>3, <2>1, <2>3, ScrapeKept DEF Start, Changes
  <2> QED BY <2>2, <2>3
<1>4. ASSUME NEW p \in Procs, Update(p) PROVE ScrapeInv'
  <2>1. PICK r \in Runs : r = proc[p].run
    BY <1>4 DEF ProcInv, Update, At, Consistent, InCall
  <2>2. row \in [Runs -> RowType]
    BY DEF RowInv
  <2>3. PICK y : y = row'[r]
    OBVIOUS
  <2>4. row' = [row EXCEPT ![r] = y]
    BY <1>4, <2>1, <2>2, <2>3 DEF Update
  <2>5. scrape' = [scrape EXCEPT !.reset = scrape.reset \/ Settled(r)]
    BY <1>4, <2>1 DEF Update, Changes
  <2> QED BY <2>4, <2>5, ScrapeKept
<1>5. CASE ScrapeCounts
  <2>1. /\ scrape' = [scrape EXCEPT !.pc = "durations", !.reset = FALSE, !.total = Count(AllStatuses),
                        !.completed = Count({"completed"}), !.failed = Count({"failed"})]
        /\ row' = row
    BY <1>5 DEF ScrapeCounts, runVars
  <2>2. /\ Count(AllStatuses) \in Nat /\ Count({"completed"}) \in Nat /\ Count({"failed"}) \in Nat
        /\ Count({"completed"}) > 0 => Rows({"completed"}) # {}
    BY Counts
  <2>3. /\ scrape' \in Scrape /\ scrape'.pc = "durations"
        /\ scrape'.total = Count(AllStatuses) /\ scrape'.completed = Count({"completed"})
        /\ scrape'.failed = Count({"failed"})
    BY <1>1, <2>1, <2>2 DEF Scrape
  <2>4. Rows({"completed"})' = Rows({"completed"}) /\ Count({"failed"})' = Count({"failed"})
    BY <2>1 DEF Rows, Count
  <2>5. scrape'.failed <= Count({"failed"})'
    BY <2>2, <2>3, <2>4
  <2> QED BY <2>2, <2>3, <2>4, <2>5, CountsAddUp DEF ScrapeInv
<1>6. CASE ScrapeDurations
  <2>1. /\ scrape' = [scrape EXCEPT !.pc = "failures", !.durations = (Rows({"completed"}) # {})]
        /\ row' = row /\ scrape.pc = "durations"
    BY <1>6 DEF ScrapeDurations, runVars
  <2>2. /\ scrape' \in Scrape /\ scrape'.pc = "failures" /\ scrape'.total = scrape.total
        /\ scrape'.completed = scrape.completed /\ scrape'.failed = scrape.failed
        /\ scrape'.durations = (Rows({"completed"}) # {}) /\ scrape'.reset = scrape.reset
    BY <1>1, <2>1 DEF Scrape
  <2>3. Count({"failed"})' = Count({"failed"})
    BY <2>1 DEF Rows, Count
  <2> QED BY <2>1, <2>2, <2>3 DEF ScrapeInv
<1>7. CASE ScrapeFailures
  <2>1. /\ scrape' = [scrape EXCEPT !.pc = "done", !.failures = AtMost(Count({"failed"}), FailureLimit)]
        /\ row' = row /\ scrape.pc = "failures"
    BY <1>7 DEF ScrapeFailures, runVars
  <2>2. Count({"failed"}) \in Nat /\ FailureLimit \in Nat /\ scrape.failed \in Nat
    BY <1>1, Counts, ConstantFacts DEF Scrape
  <2>3. AtMost(Count({"failed"}), FailureLimit) \in Nat
    BY <2>2 DEF AtMost
  <2>4. /\ scrape' \in Scrape /\ scrape'.pc = "done" /\ scrape'.total = scrape.total
        /\ scrape'.completed = scrape.completed /\ scrape'.failed = scrape.failed
        /\ scrape'.durations = scrape.durations /\ scrape'.reset = scrape.reset
        /\ scrape'.failures = AtMost(Count({"failed"}), FailureLimit)
    BY <1>1, <2>1, <2>3 DEF Scrape
  <2>5. scrape.failed <= Count({"failed"}) =>
          AtMost(scrape.failed, FailureLimit) <= AtMost(Count({"failed"}), FailureLimit)
    BY <2>2 DEF AtMost
  <2> QED BY <2>1, <2>4, <2>5 DEF ScrapeInv
<1>8. CASE UNCHANGED vars
  BY <1>2, <1>8 DEF vars, runVars, readVars
<1>9. ASSUME NEW p \in Procs,
             \/ Connect(p) \/ ReadVersion(p) \/ ApplyMigration(p) \/ MigrationCollides(p) \/ RecordVersion(p)
             \/ Call(p) \/ Get(p) \/ Select(p) \/ Put(p) \/ Die(p) \/ StatementRaises(p)
      PROVE  ScrapeInv'
  BY <1>2, <1>9 DEF Connect, ReadVersion, ApplyMigration, MigrationCollides, RecordVersion, Call, Get,
       Select, Put, Die, StatementRaises, runVars, readVars
<1>10. CASE BeginList \/ NextPage
  BY <1>2, <1>10 DEF BeginList, NextPage, runVars
<1>11. ASSUME NEW p \in Procs, NEW r \in setup.runs, Resume(p, r) PROVE ScrapeInv'
  BY <1>2, <1>11 DEF Resume, readVars
<1> QED BY <1>3, <1>4, <1>5, <1>6, <1>7, <1>8, <1>9, <1>10, <1>11 DEF Next

-----------------------------------------------------------------------------
(* The theorems *)

LEMMA Inductive == Spec => []IInv
<1>1. Init => IInv
  BY ProcInit, MigrationInit, RowInit, AttemptInit, ReaderInit, ScrapeInit DEF IInv
<1>2. IInv /\ [Next]_vars => IInv'
  BY ProcStep, MigrationStep, RowStep, AttemptStep, ReaderStep, ScrapeStep DEF IInv
<1> QED BY <1>1, <1>2, PTL DEF Spec

\* The types, for whatever database the store finds: a run has a stamp of its
\* creation exactly when it has a row, and an attempt has its run's row.
THEOREM Types == Spec => []TypeOK
<1>1. IInv => TypeOK
  <2> SUFFICES ASSUME IInv PROVE TypeOK
    OBVIOUS
  <2>1. applied \subseteq 1..Versions /\ recorded \subseteq 1..Versions
    BY ConstantFacts DEF IInv, MigrationInv
  <2>2. \A p \in Procs : /\ proc[p].pc \in Pcs /\ proc[p].at \in 0..Versions
                         /\ proc[p].run \in Runs \union {None}
                         /\ proc[p].task \in Steps \union {None, "workflow"}
                         /\ proc[p].latest \in 0..Len(attempts)
    BY DEF IInv, ProcInv, RowInv, Process, Fits, StepNames
  <2>3. \A r \in Runs : /\ row[r].status \in AllStatuses \union {"none"}
                        /\ row[r].task \in Steps \union {None}
                        /\ row[r] # NoRow <=> created[r] \in Nat \ {0}
    BY DEF IInv, RowInv, RowType
  <2>4. \A i \in DOMAIN attempts : /\ attempts[i].status \in AllStatuses
                                   /\ attempts[i].step \in Steps \union {"workflow"}
                                   /\ row[attempts[i].run] # NoRow
    <3>1. \A i \in DOMAIN attempts : attempts[i] \in Attempt
      BY DEF IInv, RowInv
    <3> QED BY <3>1 DEF IInv, RowInv, Attempt, StepNames
  <2>5. reader.got \subseteq Runs
    BY DEF IInv, ReaderInv, Reader
  <2> QED BY <2>1, <2>2, <2>3, <2>4, <2>5 DEF IInv, ProcInv, RowInv, TypeOK
<1> QED BY <1>1, Inductive, PTL

\* postgres_history.py:748-783: any number of processes may migrate at once
\* and die anywhere; a version is recorded when all up to it are in the
\* schema, and who has migrated finds the whole schema.
THEOREM Migrations == Spec => []MigratedBeforeUse
<1>1. IInv => MigratedBeforeUse
  <2> SUFFICES ASSUME IInv PROVE MigratedBeforeUse
    OBVIOUS
  <2>1. (\A v \in applied : 1..v \subseteq applied) /\ (\A v \in recorded : 1..v \subseteq recorded)
    BY ConstantFacts DEF IInv, MigrationInv
  <2>2. setup.migrating \subseteq Procs
    BY ConstantFacts DEF IInv, ProcInv, Schema
  <2>3. \A p \in setup.migrating :
          proc[p].pc \in Pcs \ {"off", "reading", "applying", "recording"} =>
            proc[p].pc \in InCall \union {"ready", "running"}
    BY DEF Pcs, InCall
  <2> QED BY <2>1, <2>2, <2>3 DEF IInv, MigrationInv, MigratedBeforeUse
<1> QED BY <1>1, Inductive, PTL

\* postgres_history.py:127-190 and 281-338: of a run that is executed by one
\* process at a time, new or resumed, a step has one attempt at most, and
\* between two calls the attempt of the last checkpointed task says what the
\* last checkpoint or finish said, unless that died or failed between its two
\* statements; the row says the same, unless the run was resumed.
THEOREM Attempts == Spec => []AttemptsFollowRuns
<1>1. IInv => AttemptsFollowRuns
  <2> SUFFICES ASSUME IInv, NEW r \in Runs \ overlapped
               PROVE  /\ \A s \in Steps \union {"workflow"} : Cardinality(Of(r, s)) <= 1
                      /\ Quiet(r) /\ r \notin torn /\ told[r] # None =>
                           /\ Of(r, Name(row[r].task)) # {}
                           /\ attempts[Latest(r, Name(row[r].task))].status = told[r]
                      /\ told[r] # None /\ row[r].status # told[r] =>
                           r \in resumed /\ told[r] = "running"
    BY DEF AttemptsFollowRuns
  <2>1. Alone(r) /\ attempts \in Seq(Attempt)
    BY DEF IInv, AttemptInv, RowInv
  <2>3. ASSUME NEW s \in StepNames PROVE Cardinality(Of(r, s)) <= 1
    <3>1. CASE Of(r, s) = {}
      BY <3>1, FS_EmptySet
    <3>2. CASE Of(r, s) # {}
      <4>1. PICK i : i \in Of(r, s)
        BY <3>2
      <4>2. \A j \in Of(r, s) : j = i
        BY <2>1, <4>1 DEF Alone
      <4>3. Of(r, s) = {i}
        BY <4>1, <4>2
      <4> QED BY <4>3, FS_Singleton
    <3> QED BY <3>1, <3>2
  <2>4. ASSUME Quiet(r), r \notin torn, told[r] # None
        PROVE  /\ Of(r, Name(row[r].task)) # {}
               /\ attempts[Latest(r, Name(row[r].task))].status = told[r]
    <3>1. \A p \in Procs : Executing(p, r) => proc[p].pc \notin {"select", "put"}
      BY <2>4 DEF Quiet, At
    <3>2. PICK i \in Of(r, Name(row[r].task)) : attempts[i].status = told[r]
      BY <2>1, <2>4, <3>1 DEF Alone
    <3>3. Name(row[r].task) \in StepNames
      BY DEF IInv, RowInv, RowType, Name, StepNames
    <3>4. Latest(r, Name(row[r].task)) \in Of(r, Name(row[r].task))
      BY <2>1, <3>2, LatestIn
    <3>5. Latest(r, Name(row[r].task)) = i
      BY <2>1, <3>2, <3>3, <3>4 DEF Alone
    <3> QED BY <3>2, <3>5
  <2>5. told[r] # None /\ row[r].status # told[r] => r \in resumed /\ told[r] = "running"
    BY <2>1 DEF Alone
  <2> QED BY <2>3, <2>4, <2>5 DEF StepNames
<1> QED BY <1>1, Inductive, PTL

\* postgres_history.py:388-417 and 598-723: for every length of a page, filter
\* and order of rows with the same stamp, the pages of a list have every run
\* that was there, stayed in the list and shares its stamp with no other; and
\* the statements of the metrics agree, up to the limit of the last, as far as
\* finished runs stay as they are.
THEOREM Readers == Spec => []ReadersMissNothing
<1>1. IInv => ReadersMissNothing
  BY DEF IInv, ReaderInv, ScrapeInv, ReadersMissNothing
<1> QED BY <1>1, Inductive, PTL
=============================================================================
