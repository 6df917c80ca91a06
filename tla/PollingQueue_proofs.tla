------------------------ MODULE PollingQueue_proofs ------------------------
(***************************************************************************)
(* Theorems about PollingQueue, for every set of runs, workers and slots   *)
(* and every value of the bounds; that it implements JobQueue while        *)
(* heartbeats are timely and clients leave runs in progress alone; and     *)
(* what a stalled worker may release without that assumption.              *)
(***************************************************************************)
EXTENDS PollingQueue, TLAPS

-----------------------------------------------------------------------------
(* Types *)

\* What the actions write to a row is a row.
LEMMA RowUpdate ==
  ASSUME NEW x \in Row, NEW s \in Statuses, NEW w \in Workers \union {NoWorker},
         NEW a \in {"null", "future", "past"}, NEW d \in States,
         NEW n \in Nat, NEW m \in Nat
  PROVE  /\ [x EXCEPT !.status = s, !.worker = w, !.available = a] \in Row
         /\ [x EXCEPT !.status = s, !.state = d, !.log = n, !.index = m] \in Row
         /\ [x EXCEPT !.status = s, !.available = a, !.state = d] \in Row
         /\ [x EXCEPT !.status = s, !.state = d, !.index = n] \in Row
         /\ [x EXCEPT !.status = s, !.state = d] \in Row
         /\ [x EXCEPT !.state = d, !.index = n] \in Row
         /\ [x EXCEPT !.available = a] \in Row
         /\ [x EXCEPT !.log = n] \in Row
BY DEF Row

\* What the actions write to a slot is an execution.
LEMMA ExecUpdate ==
  ASSUME NEW x \in Exec, NEW pc \in Phases, NEW h \in {"on", "off"}, NEW n \in Nat
  PROVE  /\ [x EXCEPT !.pc = pc] \in Exec
         /\ [x EXCEPT !.heartbeat = h] \in Exec
         /\ [x EXCEPT !.pc = pc, !.heartbeat = h] \in Exec
         /\ [x EXCEPT !.pc = pc, !.events = n] \in Exec
BY DEF Exec

LEMMA IdleType == Idle \in Exec /\ Idle.pc = "idle" /\ Idle.run = NoRun
BY DEF Idle, Exec, States, Phases

LEMMA ConstantTypes ==
  /\ Finished \subseteq Statuses
  /\ WorkerOf \in [Execs -> Workers]
  /\ NoRun \notin Runs
  /\ NoWorker \notin Workers
BY ConstantsAssumption DEF Finished, Statuses

\* An active slot works on a run that has a row.
LEMMA ActiveTypes ==
  ASSUME TypeOK, NEW e \in Execs
  PROVE  /\ exec[e] \in Exec
         /\ StateOf(e) \in States
         /\ Active(e) => exec[e].run \in Runs /\ RowOf(e) \in Row
         /\ ~ Active(e) => exec[e] = Idle
         /\ exec[e].heartbeat = "on" => Active(e)
<1>1. exec[e] \in Exec
  BY DEF TypeOK
<1>2. Active(e) => exec[e].run \in Runs
  BY <1>1, IdleType DEF TypeOK, Active, Exec
<1>3. ~ Active(e) => exec[e] = Idle
  BY DEF TypeOK, Active
<1>4. Idle.heartbeat = "off"
  BY DEF Idle
<1>5. QED
  BY <1>1, <1>2, <1>3, <1>4 DEF TypeOK, RowOf, StateOf, Exec, States

\* A step that writes one row and one slot keeps the types.
LEMMA SlotStepType ==
  ASSUME TypeOK, NEW e \in Execs, NEW r, NEW v \in Row, NEW u \in Exec,
         SetRow(r, v), SetExec(e, u), u.pc = "idle" \/ u.run = NoRun => u = Idle,
         alive' \subseteq Workers, UNCHANGED enqueues,
         delivered' \in [Runs -> 0..2], faults' \in Nat
  PROVE  TypeOK'
<1>1. row' \in [Runs -> Row]
  BY DEF TypeOK, SetRow
<1>2. exec' \in [Execs -> Exec]
  BY DEF TypeOK, SetExec
<1>3. \A f \in Execs : exec'[f] = IF f = e THEN u ELSE exec[f]
  BY DEF TypeOK, SetExec
<1>4. \A f \in Execs :
        exec'[f].pc = "idle" \/ exec'[f].run = NoRun => exec'[f] = Idle
  BY <1>3 DEF TypeOK
<1>5. QED
  BY <1>1, <1>2, <1>4 DEF TypeOK

\* Whatever an active slot writes to its row and to itself is well-typed.
LEMMA WrittenTypes ==
  ASSUME TypeOK, NEW e \in Execs, Active(e)
  PROVE  /\ StartedRow(e) \in Row
         /\ \A s \in Finished : ReleasedRow(e, s) \in Row
         /\ [RowOf(e) EXCEPT !.log = RowOf(e).log + 1] \in Row
         /\ [RowOf(e) EXCEPT !.state = StateOf(e), !.index = exec[e].events] \in Row
         /\ [RowOf(e) EXCEPT !.status = "suspended", !.state = StateOf(e),
                             !.index = exec[e].events] \in Row
         /\ [RowOf(e) EXCEPT !.status = "completed", !.state = "final"] \in Row
         /\ [RowOf(e) EXCEPT !.status = "failed", !.state = StateOf(e)] \in Row
         /\ [RowOf(e) EXCEPT !.available = "future"] \in Row
         /\ \A pc \in Phases : [exec[e] EXCEPT !.pc = pc] \in Exec
         /\ [exec[e] EXCEPT !.pc = "starting", !.heartbeat = "on"] \in Exec
         /\ \A pc \in Phases :
              [exec[e] EXCEPT !.pc = pc, !.events = exec[e].events + 1] \in Exec
         /\ [exec[e] EXCEPT !.heartbeat = "off"] \in Exec
<1>1. RowOf(e) \in Row /\ exec[e] \in Exec /\ StateOf(e) \in States
  BY ActiveTypes
<1>2. /\ RowOf(e).log \in Nat
      /\ exec[e].events \in Nat
      /\ exec[e].events + 1 \in Nat
      /\ RowOf(e).log + 1 \in Nat
      /\ exec[e].input \in States
  BY <1>1 DEF Row, Exec
<1>3. /\ {"running", "suspended", "completed", "failed"} \subseteq Statuses
      /\ "final" \in States
      /\ "starting" \in Phases
  BY DEF Statuses, Finished, States, Phases
<1>4. StartedRow(e) \in Row
  BY <1>1, <1>2, <1>3, RowUpdate DEF StartedRow
<1>5. \A s \in Finished : ReleasedRow(e, s) \in Row
  BY <1>1, ConstantTypes, RowUpdate DEF ReleasedRow
<1>6. /\ [RowOf(e) EXCEPT !.log = RowOf(e).log + 1] \in Row
      /\ [RowOf(e) EXCEPT !.available = "future"] \in Row
  BY <1>1, <1>2 DEF Row
<1>7. [RowOf(e) EXCEPT !.state = StateOf(e), !.index = exec[e].events] \in Row
  BY <1>1, <1>2 DEF Row
<1>8. [RowOf(e) EXCEPT !.status = "suspended", !.state = StateOf(e),
                       !.index = exec[e].events] \in Row
  BY <1>1, <1>2, <1>3 DEF Row
<1>9. /\ [RowOf(e) EXCEPT !.status = "completed", !.state = "final"] \in Row
      /\ [RowOf(e) EXCEPT !.status = "failed", !.state = StateOf(e)] \in Row
  BY <1>1, <1>3 DEF Row
<1>10. /\ \A pc \in Phases : [exec[e] EXCEPT !.pc = pc] \in Exec
       /\ [exec[e] EXCEPT !.pc = "starting", !.heartbeat = "on"] \in Exec
       /\ [exec[e] EXCEPT !.heartbeat = "off"] \in Exec
  BY <1>1, <1>3, ExecUpdate
<1>11. \A pc \in Phases :
         [exec[e] EXCEPT !.pc = pc, !.events = exec[e].events + 1] \in Exec
  BY <1>1, <1>2, ExecUpdate
<1>12. QED
  BY <1>4, <1>5, <1>6, <1>7, <1>8, <1>9, <1>10, <1>11

\* Leaving a row or a slot alone is writing what it holds.
LEMMA KeepRow ==
  ASSUME TypeOK, NEW r \in Runs, UNCHANGED row
  PROVE  SetRow(r, row[r])
BY DEF TypeOK, SetRow

LEMMA KeepExec ==
  ASSUME TypeOK, NEW e \in Execs, UNCHANGED exec
  PROVE  SetExec(e, exec[e])
BY DEF TypeOK, SetExec

\* The record that GoTo writes.
LEMMA GoToFields ==
  ASSUME TypeOK, NEW e \in Execs, NEW pc \in Phases
  PROVE  LET u == [exec[e] EXCEPT !.pc = pc] IN
         /\ u.run = exec[e].run
         /\ u.pc = pc
         /\ u.events = exec[e].events
         /\ u.heartbeat = exec[e].heartbeat
BY ActiveTypes DEF Exec

\* Every step of an execution keeps the types.
LEMMA ExecStepType ==
  ASSUME TypeOK, NEW e \in Execs, Advance(e) \/ Heartbeat(e) \/ ReleaseLost(e)
  PROVE  TypeOK'
<1> DEFINE r == exec[e].run
<1>1. Active(e)
  BY ActiveTypes
     DEF Active, Advance, Heartbeat, ReleaseLost, Resolve, ResolveFails, Start,
         SetupFails, RecordEvent, Checkpoint, Suspend, FinishCompleted,
         CloseStepAttempt, FinishFailed, ReleaseCompleted, ReleaseFailed, Deliver
<1>2. /\ r \in Runs
      /\ RowOf(e) \in Row
      /\ exec[e] \in Exec
      /\ exec[e].pc # "idle"
      /\ r # NoRun
  BY <1>1, ActiveTypes, ConstantTypes DEF Active
<1>3. SUFFICES \E v \in Row, u \in Exec :
        /\ SetRow(r, v) /\ SetExec(e, u)
        /\ u.pc = "idle" \/ u.run = NoRun => u = Idle
        /\ alive' \subseteq Workers /\ UNCHANGED enqueues
        /\ delivered' \in [Runs -> 0..2] /\ faults' \in Nat
  BY SlotStepType
<1>4. UNCHANGED row => SetRow(r, RowOf(e))
  BY <1>2, KeepRow DEF RowOf
<1>5. UNCHANGED exec => SetExec(e, exec[e])
  BY KeepExec
<1>6. \A pc \in Phases \ {"idle"} :
        /\ [exec[e] EXCEPT !.pc = pc] \in Exec
        /\ [exec[e] EXCEPT !.pc = pc].pc # "idle"
        /\ [exec[e] EXCEPT !.pc = pc].run # NoRun
  BY <1>1, <1>2, GoToFields, WrittenTypes
<1>7. /\ alive \subseteq Workers
      /\ delivered \in [Runs -> 0..2]
      /\ faults \in Nat
  BY DEF TypeOK
<1> HIDE DEF r
<1>10. CASE Resolve(e)
  <2> DEFINE u == [exec[e] EXCEPT !.pc = "starting", !.heartbeat = "on"]
  <2>1. u \in Exec /\ u.pc # "idle" /\ u.run # NoRun
    BY <1>1, <1>2, WrittenTypes DEF Exec, r
  <2>2. SetRow(r, RowOf(e)) /\ SetExec(e, u)
    BY <1>4, <1>10 DEF Resolve
  <2>3. QED
    BY <1>2, <1>7, <1>10, <2>1, <2>2 DEF Resolve
<1>11. CASE ResolveFails(e)
  BY <1>2, <1>4, <1>7, <1>11, IdleType DEF ResolveFails
<1>12. CASE Start(e)
  <2>1. "executing" \in Phases \ {"idle"}
    BY DEF Phases
  <2>2. QED
    BY <1>1, <1>6, <1>7, <1>12, <2>1, WrittenTypes DEF Start, GoTo, r
<1>13. CASE SetupFails(e)
  <2>1. "raised" \in Phases \ {"idle"}
    BY DEF Phases
  <2>2. QED
    BY <1>2, <1>4, <1>6, <1>7, <1>13, <2>1 DEF SetupFails, GoTo
<1>14. CASE RecordEvent(e)
  <2>1. PICK pc \in {"recorded", "executing"} :
          SetExec(e, [exec[e] EXCEPT !.pc = pc, !.events = exec[e].events + 1])
    BY <1>14 DEF RecordEvent
  <2> DEFINE u == [exec[e] EXCEPT !.pc = pc, !.events = exec[e].events + 1]
  <2>2. pc \in Phases
    BY DEF Phases
  <2>3. u \in Exec /\ u.pc # "idle" /\ u.run # NoRun
    BY <1>1, <1>2, <2>2, WrittenTypes DEF Exec, r
  <2>4. [RowOf(e) EXCEPT !.log = RowOf(e).log + 1] \in Row
    BY <1>1, WrittenTypes
  <2> HIDE DEF u
  <2>5. SetExec(e, u)
    BY <2>1 DEF u
  <2>6. QED
    BY <1>7, <1>14, <2>3, <2>4, <2>5 DEF RecordEvent, r
<1>15. CASE Checkpoint(e)
  <2>1. "executing" \in Phases \ {"idle"}
    BY DEF Phases
  <2>2. QED
    BY <1>1, <1>6, <1>7, <1>15, <2>1, WrittenTypes DEF Checkpoint, GoTo, r
<1>16. CASE Suspend(e)
  <2>1. "returned" \in Phases \ {"idle"}
    BY DEF Phases
  <2>2. QED
    BY <1>1, <1>6, <1>7, <1>16, <2>1, WrittenTypes DEF Suspend, GoTo, r
<1>17. CASE FinishCompleted(e)
  <2>1. "finishing" \in Phases \ {"idle"}
    BY DEF Phases
  <2>2. QED
    BY <1>1, <1>6, <1>7, <1>17, <2>1, WrittenTypes DEF FinishCompleted, GoTo, r
<1>18. CASE CloseStepAttempt(e)
  <2>1. {"returned", "raised"} \subseteq Phases \ {"idle"}
    BY DEF Phases
  <2>2. QED
    BY <1>2, <1>4, <1>6, <1>7, <1>18, <2>1 DEF CloseStepAttempt, GoTo
<1>19. CASE FinishFailed(e)
  <2>1. "raised" \in Phases \ {"idle"}
    BY DEF Phases
  <2>2. PICK v \in Row : SetRow(r, v)
    BY <1>1, <1>2, <1>4, <1>19, WrittenTypes DEF FinishFailed, r
  <2>3. QED
    BY <1>6, <1>7, <1>19, <2>1, <2>2 DEF FinishFailed, GoTo
<1>20. CASE ReleaseCompleted(e)
  <2>1. "delivering" \in Phases \ {"idle"} /\ "completed" \in Finished
    BY DEF Phases, Finished
  <2>2. QED
    BY <1>1, <1>6, <1>7, <1>20, <2>1, WrittenTypes DEF ReleaseCompleted, GoTo, r
<1>21. CASE ReleaseFailed(e)
  <2>1. "failed" \in Finished
    BY DEF Finished
  <2>2. QED
    BY <1>1, <1>7, <1>21, <2>1, WrittenTypes, IdleType DEF ReleaseFailed, r
<1>22. CASE Deliver(e)
  <2>1. delivered' \in [Runs -> 0..2]
    <3>1. \A n \in 0..2 : (IF n < 2 THEN n + 1 ELSE n) \in 0..2
      OBVIOUS
    <3>2. delivered' = [delivered EXCEPT ![r] =
                          IF delivered[r] < 2 THEN delivered[r] + 1 ELSE delivered[r]]
      BY <1>22 DEF Deliver, r
    <3>3. QED
      BY <1>2, <1>7, <3>1, <3>2
  <2>2. QED
    BY <1>2, <1>4, <1>7, <1>22, <2>1, IdleType DEF Deliver
<1>23. CASE Heartbeat(e)
  <2> DEFINE off == [exec[e] EXCEPT !.heartbeat = "off"]
  <2>1. off \in Exec /\ off.pc # "idle" /\ off.run # NoRun
    BY <1>1, <1>2, WrittenTypes DEF Exec, r
  <2>2. [RowOf(e) EXCEPT !.available = "future"] \in Row
    BY <1>1, WrittenTypes
  <2>3. CASE UNCHANGED exec
    BY <1>2, <1>4, <1>5, <1>7, <1>23, <2>2, <2>3 DEF Heartbeat, r
  <2>4. CASE SetExec(e, off) /\ UNCHANGED row
    BY <1>2, <1>4, <1>7, <1>23, <2>1, <2>4 DEF Heartbeat
  <2>5. QED
    BY <1>23, <2>3, <2>4 DEF Heartbeat
<1>24. CASE ReleaseLost(e)
  BY <1>2, <1>4, <1>7, <1>24, IdleType DEF ReleaseLost
<1>25. QED
  BY <1>10, <1>11, <1>12, <1>13, <1>14, <1>15, <1>16, <1>17, <1>18, <1>19,
     <1>20, <1>21, <1>22, <1>23, <1>24 DEF Advance

\* Every variable keeps its type, whatever the clients and the clock do.
THEOREM TypeCorrect == Spec => []TypeOK
<1>1. Init => TypeOK
  <2> SUFFICES ASSUME Init PROVE TypeOK
    OBVIOUS
  <2>1. AbsentRow \in Row
    BY DEF AbsentRow, Row, Statuses, Finished, States
  <2>2. QED
    BY <2>1, IdleType DEF Init, TypeOK
<1>2. TypeOK /\ [Next]_vars => TypeOK'
  <2> SUFFICES ASSUME TypeOK, [Next]_vars PROVE TypeOK'
    OBVIOUS
  <2>1. ASSUME NEW r \in Runs, Enqueue(r) PROVE TypeOK'
    <3>1. PICK a \in {"null", "future"} :
            SetRow(r, [row[r] EXCEPT !.status = StatusOnEnqueue(row[r].status),
                                     !.available = a, !.state = "input"])
      BY <2>1 DEF Enqueue
    <3>2. row[r] \in Row
      BY DEF TypeOK
    <3>3. StatusOnEnqueue(row[r].status) \in Statuses /\ "input" \in States
      BY <3>2 DEF StatusOnEnqueue, Row, Statuses, States
    <3>4. [row[r] EXCEPT !.status = StatusOnEnqueue(row[r].status),
                         !.available = a, !.state = "input"] \in Row
      BY <3>2, <3>3, RowUpdate
    <3>5. row' \in [Runs -> Row]
      BY <3>1, <3>4 DEF TypeOK, SetRow
    <3>6. enqueues' \in [Runs -> Nat]
      BY <2>1 DEF Enqueue, TypeOK
    <3>7. QED
      BY <2>1, <3>5, <3>6 DEF Enqueue, TypeOK
  <2>2. ASSUME NEW r \in Runs, LeaseExpires(r) PROVE TypeOK'
    <3>1. [row[r] EXCEPT !.available = "past"] \in Row
      <4>1. row[r] \in Row
        BY DEF TypeOK
      <4>2. QED
        BY <4>1 DEF Row
    <3>2. row' \in [Runs -> Row]
      BY <2>2, <3>1 DEF LeaseExpires, TypeOK, SetRow
    <3>3. QED
      BY <2>2, <3>2 DEF LeaseExpires, TypeOK
  <2>3. ASSUME NEW e \in Execs, NEW r \in Runs, Claim(e, r) PROVE TypeOK'
    <3> DEFINE u == [run |-> r, pc |-> "claimed", input |-> row[r].state,
                     events |-> 0, heartbeat |-> "off"]
    <3>1. row[r] \in Row
      BY DEF TypeOK
    <3>2. ClaimedRow(WorkerOf[e], r) \in Row
      BY <3>1, ConstantTypes DEF ClaimedRow, Row, Statuses
    <3>3. u \in Exec /\ u.pc # "idle" /\ u.run # NoRun
      BY <3>1, ConstantTypes DEF Row, Exec, Phases
    <3>4. QED
      BY <2>3, <3>2, <3>3, SlotStepType DEF Claim, TypeOK
  <2>4. ASSUME NEW e \in Execs, Advance(e) \/ Heartbeat(e) \/ ReleaseLost(e)
        PROVE  TypeOK'
    BY <2>4, ExecStepType
  <2>5. ASSUME NEW w \in Workers, Crash(w) \/ Cancel(w) PROVE TypeOK'
    <3>1. exec' \in [Execs -> Exec] /\ faults' \in Nat
      BY <2>5, IdleType DEF Crash, Cancel, DropExecs, TypeOK
    <3>2. \A e \in Execs :
            exec'[e].pc = "idle" \/ exec'[e].run = NoRun => exec'[e] = Idle
      BY <2>5 DEF Crash, Cancel, DropExecs, TypeOK
    <3>3. QED
      BY <2>5, <3>1, <3>2 DEF Crash, Cancel, DropExecs, TypeOK
  <2>6. CASE UNCHANGED vars
    BY <2>6 DEF vars, TypeOK
  <2>7. QED
    BY <2>1, <2>2, <2>3, <2>4, <2>5, <2>6 DEF Next
<1>3. QED
  BY <1>1, <1>2, PTL DEF Spec

-----------------------------------------------------------------------------
(* The inductive invariant, for timely heartbeats and disciplined clients *)

\* Nothing has been delivered of a run that is being executed.
LEMMA ActiveUndelivered ==
  ASSUME IInv, NEW e \in Execs, Active(e)
  PROVE  exec[e].run \in Runs /\ delivered[exec[e].run] = 0
<1>1. exec[e].run \in Runs
  BY ActiveTypes DEF IInv
<1>2. delivered[exec[e].run] \in 0..2
  BY <1>1 DEF IInv, TypeOK
<1>3. QED
  BY <1>1, <1>2 DEF IInv, DeliveredInv

\* A step that writes the row and the slot of one execution keeps IInv if it
\* keeps it for that execution: every other one works on another row.
LEMMA SlotStep ==
  ASSUME IInv, TypeOK', NEW e \in Execs, Active(e), NEW v \in Row, NEW u \in Exec,
         SetRow(exec[e].run, v), SetExec(e, u),
         u.run = exec[e].run \/ u = Idle,
         ActiveInv(e)', v.index <= v.log,
         \A q \in Runs \ {exec[e].run} : delivered'[q] = delivered[q],
         delivered'[exec[e].run] > 0 =>
           delivered'[exec[e].run] = 1 /\ v.status \in Finished /\ u = Idle
  PROVE  IInv'
<1> DEFINE r == exec[e].run
<1>1. TypeOK /\ r \in Runs /\ r # NoRun
  BY ActiveTypes, ConstantTypes DEF IInv
<1>2. /\ exec'[e] = u
      /\ \A f \in Execs \ {e} : exec'[f] = exec[f]
  BY <1>1 DEF TypeOK, SetExec
<1>3. /\ row'[r] = v
      /\ \A q \in Runs \ {r} : row'[q] = row[q]
  BY <1>1 DEF TypeOK, SetRow
<1>4. \A f \in Execs \ {e} : exec[f].run # r
  BY <1>1 DEF IInv, ExclusiveExecution
<1>5. ASSUME NEW f \in Execs PROVE ActiveInv(f)'
  <2>1. CASE f = e
    BY <2>1
  <2>2. CASE f # e
    <3>1. exec'[f] = exec[f] /\ exec[f].run # r
      BY <1>2, <1>4, <2>2
    <3>2. Active(f) => row'[exec'[f].run] = row[exec[f].run]
      BY <1>1, <1>3, <3>1, ActiveTypes
    <3>3. ActiveInv(f)
      BY DEF IInv
    <3>4. QED
      BY <3>1, <3>2, <3>3
         DEF ActiveInv, Active, Unsettled, KeepsLease, OwnsRow, RowOf
  <2>3. QED
    BY <2>1, <2>2
<1>6. ExclusiveExecution'
  <2>1. u.run \in {r, NoRun}
    BY IdleType
  <2>2. \A f \in Execs \ {e} : Active(f) => exec[f].run # NoRun
    BY <1>1, ActiveTypes, ConstantTypes
  <2>3. SUFFICES ASSUME NEW f \in Execs, NEW g \in Execs, Active(f)',
                        exec'[f].run = exec'[g].run, f # g
                 PROVE  FALSE
    BY DEF ExclusiveExecution
  <2>4. u.run = NoRun => u = Idle
    BY <1>1
  <2>5. CASE f = e
    BY <1>1, <1>2, <1>4, <2>3, <2>1, <2>4, <2>5, IdleType DEF Active
  <2>6. CASE g = e
    BY <1>1, <1>2, <1>4, <2>1, <2>2, <2>3, <2>6 DEF Active
  <2>7. CASE f # e /\ g # e
    BY <1>2, <2>3, <2>7 DEF IInv, ExclusiveExecution, Active
  <2>8. QED
    BY <2>5, <2>6, <2>7
<1>7. CheckpointWithinLog'
  BY <1>3 DEF CheckpointWithinLog, IInv
<1>8. ASSUME NEW q \in Runs PROVE DeliveredInv(q)'
  <2>1. CASE q = r
    <3>1. u = Idle => \A f \in Execs : exec'[f].run # r
      BY <1>1, <1>2, <1>4, IdleType
    <3>2. QED
      BY <1>3, <2>1, <3>1 DEF DeliveredInv
  <2>2. CASE q # r
    <3>1. DeliveredInv(q)
      BY DEF IInv
    <3>2. delivered'[q] = delivered[q] /\ row'[q] = row[q]
      BY <1>3, <2>2
    <3>3. \A f \in Execs : exec'[f].run = q => exec[f].run = q
      BY <1>1, <1>2, <2>2, IdleType, ConstantTypes
    <3>4. QED
      BY <3>1, <3>2, <3>3 DEF DeliveredInv
  <2>3. QED
    BY <2>1, <2>2
<1>9. QED
  BY <1>5, <1>6, <1>7, <1>8 DEF IInv

\* What ActiveInv says of a slot u that worker w executes and of its row v.
Fits(w, v, u) ==
  /\ v.index <= v.log
  /\ v.status \in Finished \union {"running", "suspended"}
  /\ u.pc \in {"claimed", "starting", "executing", "recorded"} => v.status = "running"
  /\ v.status = "running" =>
       v.available = "future" /\ (u.heartbeat = "on" \/ u.pc = "claimed")
  /\ u.pc # "delivering" => v.worker = w
  /\ u.pc = "finishing" => v.status = "completed"
  /\ u.pc = "returned" => v.status \in {"completed", "suspended"}
  /\ u.pc = "raised" => v.status # "suspended"
  /\ u.pc = "delivering" => v.status = "completed" /\ v.worker = NoWorker
  /\ u.pc \in {"executing", "recorded"} => v.log = u.events
  /\ u.pc \in {"claimed", "starting"} => u.events = 0

\* An active slot and its row fit each other.
LEMMA ActiveFits ==
  ASSUME IInv, NEW e \in Execs, Active(e)
  PROVE  Fits(WorkerOf[e], RowOf(e), exec[e])
<1>1. exec[e].run \in Runs
  BY ActiveTypes DEF IInv
<1>2. RowOf(e).index <= RowOf(e).log
  BY <1>1 DEF IInv, CheckpointWithinLog, RowOf
<1>3. QED
  BY <1>2 DEF IInv, ActiveInv, Fits, Unsettled, KeepsLease, OwnsRow, RowOf

\* A step of a slot that goes on keeps IInv if slot and row fit afterwards.
LEMMA GoOnStep ==
  ASSUME IInv, TypeOK', NEW e \in Execs, Active(e), NEW v \in Row, NEW u \in Exec,
         SetRow(exec[e].run, v), SetExec(e, u),
         u.run = exec[e].run, u.pc # "idle",
         Fits(WorkerOf[e], v, u), UNCHANGED delivered
  PROVE  IInv'
<1>1. exec[e].run \in Runs /\ delivered[exec[e].run] = 0
  BY ActiveUndelivered
<1>2. exec'[e] = u /\ row'[exec[e].run] = v
  BY <1>1 DEF IInv, TypeOK, SetRow, SetExec
<1>3. ActiveInv(e)'
  BY <1>2, ConstantTypes
     DEF ActiveInv, Fits, Unsettled, KeepsLease, OwnsRow, RowOf, Finished
<1>4. v.index <= v.log
  BY DEF Fits
<1>5. QED
  BY <1>1, <1>3, <1>4, SlotStep

\* A slot that becomes idle has no more obligations.
LEMMA StopStep ==
  ASSUME IInv, TypeOK', NEW e \in Execs, Active(e), NEW v \in Row,
         SetRow(exec[e].run, v), SetExec(e, Idle), v.index <= v.log,
         \A q \in Runs \ {exec[e].run} : delivered'[q] = delivered[q],
         delivered'[exec[e].run] > 0 =>
           delivered'[exec[e].run] = 1 /\ v.status \in Finished
  PROVE  IInv'
<1>1. exec'[e] = Idle
  BY DEF IInv, TypeOK, SetExec
<1>2. ActiveInv(e)'
  BY <1>1, IdleType DEF ActiveInv, Active
<1>3. QED
  BY <1>2, IdleType, SlotStep

\* Every step of an execution preserves the invariant.
LEMMA ExecStep ==
  ASSUME IInv, NEW e \in Execs, Advance(e) \/ Heartbeat(e) \/ ReleaseLost(e)
  PROVE  IInv'
<1> DEFINE r == exec[e].run
           x == RowOf(e)
           y == exec[e]
           w == WorkerOf[e]
<1>1. TypeOK /\ TypeOK'
  BY ExecStepType DEF IInv
<1>2. Active(e)
  BY <1>1, ActiveTypes
     DEF Active, Advance, Heartbeat, ReleaseLost, Resolve, ResolveFails, Start,
         SetupFails, RecordEvent, Checkpoint, Suspend, FinishCompleted,
         CloseStepAttempt, FinishFailed, ReleaseCompleted, ReleaseFailed, Deliver
<1>3. r \in Runs /\ x \in Row /\ y \in Exec /\ delivered[r] = 0 /\ y.pc # "idle"
  BY <1>1, <1>2, ActiveTypes, ActiveUndelivered DEF Active
<1>4. Fits(w, x, y)
  BY <1>2, ActiveFits
<1>5. /\ x.index <= x.log
      /\ x.log \in Nat /\ x.index \in Nat /\ y.events \in Nat
  BY <1>3, <1>4 DEF Fits, Row, Exec
<1>6. UNCHANGED row => SetRow(r, x)
  BY <1>1, <1>3, KeepRow DEF RowOf
<1>7. UNCHANGED exec => SetExec(e, y)
  BY <1>1, KeepExec
<1>8. OwnsRow(e) <=> x.worker = w
  BY DEF OwnsRow, RowOf
<1>9. ASSUME NEW v \in Row, NEW u \in Exec, SetRow(r, v), SetExec(e, u),
             u.run = r, u.pc # "idle", Fits(w, v, u), UNCHANGED delivered
      PROVE  IInv'
  BY <1>1, <1>2, <1>9, GoOnStep
<1>10. ASSUME NEW v \in Row, SetRow(r, v), SetExec(e, Idle), v.index <= v.log,
              UNCHANGED delivered
       PROVE  IInv'
  BY <1>1, <1>2, <1>3, <1>10, StopStep
<1>11. ASSUME NEW v \in Row, NEW pc \in Phases \ {"idle"}, SetRow(r, v), GoTo(e, pc),
              Fits(w, v, [y EXCEPT !.pc = pc]), UNCHANGED delivered
       PROVE  IInv'
  <2>1. /\ [y EXCEPT !.pc = pc] \in Exec
        /\ [y EXCEPT !.pc = pc].run = r
        /\ [y EXCEPT !.pc = pc].pc # "idle"
    BY <1>3, <1>11, ExecUpdate DEF Exec
  <2>2. QED
    BY <1>9, <1>11, <2>1 DEF GoTo
<1>12. {"starting", "executing", "recorded", "finishing", "returned", "raised",
        "delivering"} \subseteq Phases \ {"idle"}
  BY DEF Phases
<1>13. /\ StartedRow(e) = [x EXCEPT !.status = "running", !.state = y.input,
                                    !.log = 0, !.index = 0]
       /\ \A s : ReleasedRow(e, s) = IF x.worker = w
                   THEN [x EXCEPT !.status = s, !.worker = NoWorker, !.available = "null"]
                   ELSE x
  BY DEF StartedRow, ReleasedRow, OwnsRow, RowOf
<1>14. /\ StartedRow(e) \in Row
       /\ \A s \in Finished : ReleasedRow(e, s) \in Row
       /\ [x EXCEPT !.log = x.log + 1] \in Row
       /\ [x EXCEPT !.state = StateOf(e), !.index = y.events] \in Row
       /\ [x EXCEPT !.status = "suspended", !.state = StateOf(e),
                    !.index = y.events] \in Row
       /\ [x EXCEPT !.status = "completed", !.state = "final"] \in Row
       /\ [x EXCEPT !.status = "failed", !.state = StateOf(e)] \in Row
       /\ [x EXCEPT !.available = "future"] \in Row
       /\ [y EXCEPT !.pc = "starting", !.heartbeat = "on"] \in Exec
       /\ \A pc \in Phases :
            [y EXCEPT !.pc = pc, !.events = y.events + 1] \in Exec
       /\ [y EXCEPT !.heartbeat = "off"] \in Exec
  BY <1>1, <1>2, WrittenTypes
<1> HIDE DEF r, x, y, w
<1>20. CASE Resolve(e)
  <2> DEFINE u == [y EXCEPT !.pc = "starting", !.heartbeat = "on"]
  <2>1. /\ u \in Exec /\ u.run = r /\ u.pc = "starting"
        /\ u.events = y.events /\ u.heartbeat = "on"
    BY <1>3, <1>14 DEF Exec, r, y
  <2>2. y.pc = "claimed"
    BY <1>20 DEF Resolve, y
  <2> HIDE DEF u
  <2>3. Fits(w, x, u)
    BY <1>4, <2>1, <2>2 DEF Fits
  <2>4. SetRow(r, x) /\ SetExec(e, u) /\ UNCHANGED delivered
    BY <1>6, <1>20 DEF Resolve, u, y
  <2>5. QED
    BY <1>3, <1>9, <2>1, <2>3, <2>4
<1>21. CASE ResolveFails(e)
  BY <1>3, <1>5, <1>6, <1>10, <1>21 DEF ResolveFails
<1>22. CASE Start(e)
  <2> DEFINE v == [x EXCEPT !.status = "running", !.state = y.input,
                            !.log = 0, !.index = 0]
  <2>1. y.pc = "starting" /\ y.events = 0
    BY <1>4, <1>22 DEF Start, Fits, y
  <2>2. /\ v.status = "running" /\ v.log = 0 /\ v.index = 0
        /\ v.available = x.available /\ v.worker = x.worker
    BY <1>3 DEF Row
  <2>3. v \in Row /\ SetRow(r, v)
    BY <1>13, <1>14, <1>22 DEF Start, r
  <2> HIDE DEF v
  <2>4. Fits(w, v, [y EXCEPT !.pc = "executing"])
    BY <1>3, <1>4, <2>1, <2>2 DEF Fits, Exec
  <2>5. QED
    BY <1>11, <1>12, <1>22, <2>3, <2>4 DEF Start
<1>23. CASE SetupFails(e)
  <2>1. y.pc \in {"starting", "executing"}
    BY <1>23 DEF SetupFails, y
  <2>2. Fits(w, x, [y EXCEPT !.pc = "raised"])
    BY <1>3, <1>4, <2>1 DEF Fits, Exec
  <2>3. QED
    BY <1>3, <1>6, <1>11, <1>12, <1>23, <2>2 DEF SetupFails
<1>24. CASE RecordEvent(e)
  <2>1. PICK pc \in {"recorded", "executing"} :
          SetExec(e, [y EXCEPT !.pc = pc, !.events = y.events + 1])
    BY <1>24 DEF RecordEvent, y
  <2> DEFINE u == [y EXCEPT !.pc = pc, !.events = y.events + 1]
             v == [x EXCEPT !.log = x.log + 1]
  <2>2. y.pc = "executing"
    BY <1>24 DEF RecordEvent, y
  <2>3. /\ u \in Exec /\ u.run = r /\ u.pc = pc
        /\ u.events = y.events + 1 /\ u.heartbeat = y.heartbeat
    BY <1>3, <1>12, <1>14 DEF Exec, r, y
  <2>4. /\ v \in Row /\ v.log = x.log + 1 /\ v.index = x.index
        /\ v.status = x.status /\ v.available = x.available /\ v.worker = x.worker
    BY <1>3, <1>14 DEF Row
  <2>5. SetRow(r, v) /\ UNCHANGED delivered
    BY <1>24 DEF RecordEvent, r, x
  <2> HIDE DEF u, v
  <2>6. Fits(w, v, u)
    BY <1>4, <1>5, <2>2, <2>3, <2>4 DEF Fits
  <2>7. SetExec(e, u)
    BY <2>1 DEF u
  <2>8. QED
    BY <1>9, <2>3, <2>4, <2>5, <2>6, <2>7
<1>25. CASE Checkpoint(e)
  <2> DEFINE v == [x EXCEPT !.state = StateOf(e), !.index = y.events]
  <2>1. y.pc = "recorded"
    BY <1>25 DEF Checkpoint, y
  <2>2. Fits(w, v, [y EXCEPT !.pc = "executing"])
    BY <1>3, <1>4, <1>5, <2>1 DEF Fits, Row, Exec
  <2>3. SetRow(r, v) /\ GoTo(e, "executing") /\ UNCHANGED delivered
    BY <1>25 DEF Checkpoint, r, x, y
  <2>4. QED
    BY <1>11, <1>12, <1>14, <2>2, <2>3
<1>26. CASE Suspend(e)
  <2> DEFINE v == [x EXCEPT !.status = "suspended", !.state = StateOf(e),
                            !.index = y.events]
  <2>1. y.pc = "executing"
    BY <1>26 DEF Suspend, y
  <2>2. Fits(w, v, [y EXCEPT !.pc = "returned"])
    BY <1>3, <1>4, <1>5, <2>1 DEF Fits, Row, Exec
  <2>3. SetRow(r, v) /\ GoTo(e, "returned") /\ UNCHANGED delivered
    BY <1>26 DEF Suspend, r, x, y
  <2>4. QED
    BY <1>11, <1>12, <1>14, <2>2, <2>3
<1>27. CASE FinishCompleted(e)
  <2> DEFINE v == [x EXCEPT !.status = "completed", !.state = "final"]
  <2>1. y.pc = "executing"
    BY <1>27 DEF FinishCompleted, y
  <2>2. Fits(w, v, [y EXCEPT !.pc = "finishing"])
    BY <1>3, <1>4, <1>5, <2>1 DEF Fits, Row, Exec, Finished
  <2>3. SetRow(r, v) /\ GoTo(e, "finishing") /\ UNCHANGED delivered
    BY <1>27 DEF FinishCompleted, r, x
  <2>4. QED
    BY <1>11, <1>12, <1>14, <2>2, <2>3
<1>28. CASE CloseStepAttempt(e)
  <2>1. y.pc = "finishing"
    BY <1>28 DEF CloseStepAttempt, y
  <2>2. \A pc \in {"returned", "raised"} : Fits(w, x, [y EXCEPT !.pc = pc])
    BY <1>3, <1>4, <2>1 DEF Fits, Exec
  <2>3. QED
    BY <1>3, <1>6, <1>11, <1>12, <1>28, <2>2 DEF CloseStepAttempt
<1>29. CASE FinishFailed(e)
  <2> DEFINE v == [x EXCEPT !.status = "failed", !.state = StateOf(e)]
  <2>1. y.pc \in {"executing", "recorded"}
    BY <1>29 DEF FinishFailed, y
  <2>2. Fits(w, v, [y EXCEPT !.pc = "raised"])
    BY <1>3, <1>4, <1>5, <2>1 DEF Fits, Row, Exec, Finished
  <2>3. Fits(w, x, [y EXCEPT !.pc = "raised"])
    BY <1>3, <1>4, <2>1 DEF Fits, Exec
  <2>4. SetRow(r, v) \/ SetRow(r, x)
    BY <1>6, <1>29 DEF FinishFailed, r, x
  <2>5. GoTo(e, "raised") /\ UNCHANGED delivered
    BY <1>29 DEF FinishFailed
  <2>6. QED
    BY <1>3, <1>11, <1>12, <1>14, <2>2, <2>3, <2>4, <2>5
<1>30. CASE ReleaseCompleted(e)
  <2>1. y.pc = "returned" /\ "completed" \in Finished
    BY <1>30 DEF ReleaseCompleted, y, Finished
  <2> DEFINE v == [x EXCEPT !.status = "completed", !.worker = NoWorker,
                            !.available = "null"]
  <2>2. ReleasedRow(e, "completed") = v
    BY <1>4, <1>13, <2>1 DEF Fits
  <2>3. Fits(w, v, [y EXCEPT !.pc = "delivering"])
    BY <1>3, <1>4, <1>5, <2>1 DEF Fits, Row, Exec
  <2>4. SetRow(r, v) /\ GoTo(e, "delivering") /\ UNCHANGED delivered
    BY <1>30, <2>2 DEF ReleaseCompleted, r
  <2>5. v \in Row
    BY <1>14, <2>1, <2>2
  <2>6. QED
    BY <1>11, <1>12, <2>3, <2>4, <2>5
<1>31. CASE ReleaseFailed(e)
  <2>1. "failed" \in Finished
    BY DEF Finished
  <2>2. ReleasedRow(e, "failed").index <= ReleasedRow(e, "failed").log
    <3>1. /\ [x EXCEPT !.status = "failed", !.worker = NoWorker,
                       !.available = "null"].index = x.index
          /\ [x EXCEPT !.status = "failed", !.worker = NoWorker,
                       !.available = "null"].log = x.log
      BY <1>3 DEF Row
    <3>2. QED
      BY <1>5, <1>13, <3>1
  <2>3. QED
    BY <1>10, <1>14, <1>31, <2>1, <2>2 DEF ReleaseFailed, r
<1>32. CASE ReleaseLost(e)
  BY <1>3, <1>5, <1>6, <1>10, <1>32 DEF ReleaseLost
<1>33. CASE Deliver(e)
  <2>1. x.status \in Finished
    BY <1>4, <1>33 DEF Deliver, Fits, Finished, y
  <2>2. delivered' = [delivered EXCEPT ![r] = 1]
    BY <1>3, <1>33 DEF Deliver, r
  <2>3. /\ delivered'[r] = 1
        /\ \A q \in Runs \ {r} : delivered'[q] = delivered[q]
    BY <1>1, <1>3, <2>2 DEF TypeOK
  <2>4. SetRow(r, x) /\ SetExec(e, Idle)
    BY <1>6, <1>33 DEF Deliver
  <2>5. QED
    BY <1>1, <1>2, <1>3, <1>5, <2>1, <2>3, <2>4, StopStep DEF r
<1>34. CASE Heartbeat(e)
  <2> DEFINE v == [x EXCEPT !.available = "future"]
             u == [y EXCEPT !.heartbeat = "off"]
  <2>1. CASE SetRow(r, v) /\ UNCHANGED exec
    <3>1. Fits(w, v, y)
      BY <1>3, <1>4 DEF Fits, Row
    <3>2. QED
      BY <1>3, <1>7, <1>9, <1>14, <1>34, <2>1, <3>1 DEF Heartbeat, r, y
  <2>2. CASE SetExec(e, u) /\ UNCHANGED row /\ ~ (x.worker = w /\ x.status = "running")
    <3>1. /\ u \in Exec /\ u.run = r /\ u.pc = y.pc /\ u.events = y.events
      BY <1>3, <1>14 DEF Exec, r, y
    <3>2. x.status # "running"
      BY <1>4, <2>2 DEF Fits
    <3> HIDE DEF u
    <3>3. Fits(w, x, u)
      BY <1>4, <3>1, <3>2 DEF Fits
    <3>4. QED
      BY <1>3, <1>6, <1>9, <1>34, <2>2, <3>1, <3>3 DEF Heartbeat
  <2>3. QED
    BY <1>8, <1>34, <2>1, <2>2 DEF Heartbeat, r, x, y
<1>35. QED
  BY <1>20, <1>21, <1>22, <1>23, <1>24, <1>25, <1>26, <1>27, <1>28, <1>29,
     <1>30, <1>31, <1>32, <1>33, <1>34 DEF Advance

\* A step that writes one row keeps IInv if the executions of the run still
\* fit it.
LEMMA RowStep ==
  ASSUME IInv, TypeOK', NEW r \in Runs, NEW v \in Row, SetRow(r, v),
         UNCHANGED <<exec, delivered>>, v.index <= v.log,
         row[r].status \in Finished => v.status \in Finished,
         \A e \in Execs : Active(e) /\ exec[e].run = r => Fits(WorkerOf[e], v, exec[e])
  PROVE  IInv'
<1>1. /\ row'[r] = v
      /\ \A q \in Runs \ {r} : row'[q] = row[q]
  BY DEF IInv, TypeOK, SetRow
<1>2. ASSUME NEW e \in Execs PROVE ActiveInv(e)'
  <2>1. CASE exec[e].run = r
    BY <1>1, <2>1 DEF ActiveInv, Active, Fits, Unsettled, KeepsLease, OwnsRow, RowOf
  <2>2. CASE exec[e].run # r
    <3>1. Active(e) => row'[exec[e].run] = row[exec[e].run]
      BY <1>1, <2>2, ActiveTypes DEF IInv
    <3>2. ActiveInv(e)
      BY DEF IInv
    <3>3. QED
      BY <3>1, <3>2 DEF ActiveInv, Active, Unsettled, KeepsLease, OwnsRow, RowOf
  <2>3. QED
    BY <2>1, <2>2
<1>3. ExclusiveExecution'
  BY DEF IInv, ExclusiveExecution, Active
<1>4. CheckpointWithinLog'
  BY <1>1 DEF CheckpointWithinLog, IInv
<1>5. \A q \in Runs : DeliveredInv(q)'
  BY <1>1 DEF IInv, DeliveredInv
<1>6. QED
  BY <1>2, <1>3, <1>4, <1>5 DEF IInv

\* A disciplined client never enqueues a run that is being executed.
LEMMA EnqueueStep ==
  ASSUME Disciplined, IInv, TypeOK', NEW r \in Runs, Enqueue(r)
  PROVE  IInv'
<1>1. PICK a \in {"null", "future"} :
        SetRow(r, [row[r] EXCEPT !.status = StatusOnEnqueue(row[r].status),
                                 !.available = a, !.state = "input"])
  BY DEF Enqueue
<1> DEFINE x == row[r]
           v == [x EXCEPT !.status = StatusOnEnqueue(x.status),
                          !.available = a, !.state = "input"]
<1>2. x \in Row /\ x.index <= x.log
  BY DEF IInv, TypeOK, CheckpointWithinLog
<1>3. x.status \in {"absent", "pending", "completed", "failed"}
  <2>1. ReenqueueIn \subseteq {"pending", "completed", "failed"}
    BY ConstantsAssumption DEF Disciplined, Statuses, Finished
  <2>2. QED
    BY <2>1 DEF Enqueue
<1> HIDE DEF x
<1>4. /\ v.status = StatusOnEnqueue(x.status) /\ v.worker = x.worker
      /\ v.log = x.log /\ v.index = x.index
  BY <1>2 DEF Row
<1>5. v \in Row
  <2>1. StatusOnEnqueue(x.status) \in Statuses /\ "input" \in States
    BY <1>3 DEF StatusOnEnqueue, Statuses, States, Finished
  <2>2. QED
    BY <1>2, <2>1, RowUpdate
<1>6. SetRow(r, v) /\ UNCHANGED <<exec, delivered>>
  BY <1>1 DEF Enqueue, x
<1> HIDE DEF v
<1>7. x.status \in Finished => v.status = x.status
  BY <1>4 DEF StatusOnEnqueue
<1>8. ASSUME NEW e \in Execs, Active(e), exec[e].run = r
      PROVE  Fits(WorkerOf[e], v, exec[e])
  <2>1. Fits(WorkerOf[e], x, exec[e])
    BY <1>8, ActiveFits DEF RowOf, x
  <2>2. x.status \in {"completed", "failed"}
    BY <1>3, <2>1 DEF Fits, Finished
  <2>3. v.status = x.status
    BY <1>7, <2>2 DEF Finished
  <2>4. QED
    BY <1>4, <2>1, <2>2, <2>3 DEF Fits
<1>9. v.index <= v.log /\ (row[r].status \in Finished => v.status \in Finished)
  BY <1>2, <1>4, <1>7 DEF x
<1>10. QED
  BY <1>5, <1>6, <1>8, <1>9, RowStep

\* The lease of a run that is being executed does not lapse.
LEMMA LeaseStep ==
  ASSUME Disciplined, IInv, TypeOK', NEW r \in Runs, LeaseExpires(r)
  PROVE  IInv'
<1> DEFINE x == row[r]
           v == [x EXCEPT !.available = "past"]
<1>1. x \in Row /\ x.index <= x.log
  BY DEF IInv, TypeOK, CheckpointWithinLog
<1>2. v \in Row
  BY <1>1 DEF Row
<1>3. SetRow(r, v) /\ UNCHANGED <<exec, delivered>>
  BY DEF LeaseExpires
<1> HIDE DEF x
<1>4. /\ v.status = x.status /\ v.worker = x.worker
      /\ v.log = x.log /\ v.index = x.index
  BY <1>1 DEF Row
<1> HIDE DEF v
<1>5. ASSUME NEW e \in Execs, Active(e), exec[e].run = r
      PROVE  Fits(WorkerOf[e], v, exec[e])
  <2>1. Fits(WorkerOf[e], x, exec[e])
    BY <1>5, ActiveFits DEF RowOf, x
  <2>2. ~ KeepsLease(e) /\ ActiveInv(e)
    BY <1>5 DEF LeaseExpires, Disciplined, IInv
  <2>3. x.status # "running"
    BY <1>5, <2>2 DEF ActiveInv, x
  <2>4. QED
    BY <1>4, <2>1, <2>3 DEF Fits
<1>6. v.index <= v.log /\ (row[r].status \in Finished => v.status \in Finished)
  BY <1>1, <1>4 DEF x
<1>7. QED
  BY <1>2, <1>3, <1>5, <1>6, RowStep

\* Nobody executes a run that can be claimed.
LEMMA ClaimableIsFree ==
  ASSUME IInv, NEW r \in Runs, Claimable(r)
  PROVE  /\ \A e \in Execs : exec[e].run # r
         /\ delivered[r] = 0
<1>1. ASSUME NEW e \in Execs, exec[e].run = r PROVE FALSE
  <2>1. Active(e)
    BY <1>1, ActiveTypes, IdleType, ConstantTypes DEF IInv
  <2>2. QED
    BY <1>1, <2>1 DEF IInv, ActiveInv, Claimable, Finished
<1>2. delivered[r] = 0
  BY DEF IInv, DeliveredInv, Claimable, Finished, TypeOK
<1>3. QED
  BY <1>1, <1>2

LEMMA ClaimStep ==
  ASSUME IInv, TypeOK', NEW e \in Execs, NEW r \in Runs, Claim(e, r)
  PROVE  IInv'
<1> DEFINE u == [run |-> r, pc |-> "claimed", input |-> row[r].state,
                 events |-> 0, heartbeat |-> "off"]
           v == ClaimedRow(WorkerOf[e], r)
<1>1. TypeOK /\ row[r] \in Row /\ Claimable(r)
  BY DEF IInv, TypeOK, Claim
<1>2. /\ v.status = "running" /\ v.worker = WorkerOf[e] /\ v.available = "future"
      /\ v.log = row[r].log /\ v.index = row[r].index
  BY <1>1 DEF ClaimedRow, Row
<1>3. u.run = r /\ u.pc = "claimed" /\ u.events = 0
  OBVIOUS
<1>4. SetRow(r, v) /\ SetExec(e, u) /\ UNCHANGED delivered /\ exec[e].pc = "idle"
  BY DEF Claim
<1> HIDE DEF u, v
<1>5. /\ row'[r] = v
      /\ \A q \in Runs \ {r} : row'[q] = row[q]
  BY <1>1, <1>4 DEF TypeOK, SetRow
<1>6. /\ exec'[e] = u
      /\ \A f \in Execs \ {e} : exec'[f] = exec[f]
  BY <1>1, <1>4 DEF TypeOK, SetExec
<1>7. (\A f \in Execs : exec[f].run # r) /\ delivered[r] = 0
  BY <1>1, ClaimableIsFree
<1>8. ASSUME NEW f \in Execs PROVE ActiveInv(f)'
  <2>1. CASE f = e
    BY <1>2, <1>3, <1>5, <1>6, <2>1
       DEF ActiveInv, Active, Unsettled, KeepsLease, OwnsRow, RowOf
  <2>2. CASE f # e
    <3>1. Active(f) => row'[exec[f].run] = row[exec[f].run]
      BY <1>1, <1>5, <1>7, ActiveTypes
    <3>2. ActiveInv(f)
      BY DEF IInv
    <3>3. QED
      BY <1>6, <2>2, <3>1, <3>2
         DEF ActiveInv, Active, Unsettled, KeepsLease, OwnsRow, RowOf
  <2>3. QED
    BY <2>1, <2>2
<1>9. ExclusiveExecution'
  BY <1>3, <1>6, <1>7 DEF IInv, ExclusiveExecution, Active
<1>10. CheckpointWithinLog'
  BY <1>2, <1>5 DEF CheckpointWithinLog, IInv
<1>11. ASSUME NEW q \in Runs PROVE DeliveredInv(q)'
  <2>1. CASE q = r
    BY <1>4, <1>7, <2>1 DEF DeliveredInv
  <2>2. CASE q # r
    BY <1>3, <1>4, <1>5, <1>6, <2>2 DEF DeliveredInv, IInv
  <2>3. QED
    BY <2>1, <2>2
<1>12. QED
  BY <1>8, <1>9, <1>10, <1>11 DEF IInv

\* Losing executions breaks nothing that the others rely on.
LEMMA DropStep ==
  ASSUME IInv, TypeOK', NEW w, DropExecs(w)
  PROVE  IInv'
<1>1. \A e \in Execs : exec'[e] = Idle \/ exec'[e] = exec[e]
  BY DEF DropExecs
<1>2. ASSUME NEW e \in Execs PROVE ActiveInv(e)'
  <2>1. CASE exec'[e] = Idle
    BY <2>1, IdleType DEF ActiveInv, Active
  <2>2. CASE exec'[e] = exec[e]
    BY <2>2 DEF DropExecs, IInv, ActiveInv, Active, Unsettled, KeepsLease, OwnsRow, RowOf
  <2>3. QED
    BY <1>1, <2>1, <2>2
<1>3. ExclusiveExecution'
  <2> SUFFICES ASSUME NEW e \in Execs, NEW f \in Execs, Active(e)',
                      exec'[e].run = exec'[f].run
               PROVE  e = f
    BY DEF ExclusiveExecution
  <2>1. exec'[e] = exec[e] /\ Active(e)
    BY <1>1, IdleType DEF Active
  <2>2. exec[e].run # NoRun
    BY <2>1, ActiveTypes, ConstantTypes DEF IInv
  <2>3. exec'[f] = exec[f]
    BY <1>1, <2>1, <2>2, IdleType
  <2>4. QED
    BY <2>1, <2>3 DEF IInv, ExclusiveExecution
<1>4. CheckpointWithinLog'
  BY DEF DropExecs, IInv, CheckpointWithinLog
<1>5. \A r \in Runs : DeliveredInv(r)'
  BY <1>1, IdleType, ConstantTypes DEF DropExecs, IInv, DeliveredInv
<1>6. QED
  BY <1>2, <1>3, <1>4, <1>5 DEF IInv

LEMMA InitIInv == Init => IInv
<1> SUFFICES ASSUME Init PROVE IInv
  OBVIOUS
<1>1. AbsentRow \in Row /\ AbsentRow.index = 0 /\ AbsentRow.log = 0
  BY DEF AbsentRow, Row, Statuses, Finished, States
<1>2. TypeOK
  BY <1>1, IdleType DEF Init, TypeOK
<1>3. \A e \in Execs : ~ Active(e)
  BY IdleType DEF Init, Active
<1>4. CheckpointWithinLog
  BY <1>1 DEF Init, CheckpointWithinLog
<1>5. \A r \in Runs : DeliveredInv(r)
  BY DEF Init, DeliveredInv
<1>6. QED
  BY <1>2, <1>3, <1>4, <1>5 DEF IInv, ActiveInv, ExclusiveExecution

LEMMA NextIInv ==
  ASSUME Disciplined, IInv, TypeOK', [Next]_vars
  PROVE  IInv'
<1>1. ASSUME NEW r \in Runs, Enqueue(r) PROVE IInv'
  BY <1>1, EnqueueStep
<1>2. ASSUME NEW r \in Runs, LeaseExpires(r) PROVE IInv'
  BY <1>2, LeaseStep
<1>3. ASSUME NEW e \in Execs, NEW r \in Runs, Claim(e, r) PROVE IInv'
  BY <1>3, ClaimStep
<1>4. ASSUME NEW e \in Execs, Advance(e) \/ Heartbeat(e) \/ ReleaseLost(e)
      PROVE  IInv'
  BY <1>4, ExecStep
<1>5. ASSUME NEW w \in Workers, Crash(w) \/ Cancel(w) PROVE IInv'
  BY <1>5, DropStep DEF Crash, Cancel
<1>6. CASE UNCHANGED vars
  BY <1>6
     DEF vars, IInv, TypeOK, ActiveInv, Active, Unsettled, KeepsLease, OwnsRow,
         RowOf, ExclusiveExecution, CheckpointWithinLog, DeliveredInv
<1>7. QED
  BY <1>1, <1>2, <1>3, <1>4, <1>5, <1>6 DEF Next

\* While heartbeats are timely and clients leave runs in progress alone, the
\* queue, its workers and their faults keep the inductive invariant.
THEOREM InductiveInvariant == Disciplined => (Spec => []IInv)
<1> SUFFICES ASSUME Disciplined PROVE Spec => []IInv
  OBVIOUS
<1>1. Init => IInv
  BY InitIInv
<1>2. IInv /\ TypeOK' /\ [Next]_vars => IInv'
  BY NextIInv
<1>3. QED
  BY <1>1, <1>2, TypeCorrect, PTL DEF Spec

-----------------------------------------------------------------------------
(* What follows from it *)

\* No run is executed twice at the same time.
THEOREM Exclusive == Disciplined => (Spec => []ExclusiveExecution)
<1>1. IInv => ExclusiveExecution
  BY DEF IInv
<1>2. QED
  BY <1>1, InductiveInvariant, PTL

\* An execution at work holds its row, and its lease lies ahead.
THEOREM UnderLease == Disciplined => (Spec => []WorkingUnderLease)
<1>1. IInv => WorkingUnderLease
  BY DEF IInv, ActiveInv, WorkingUnderLease, KeepsLease
<1>2. QED
  BY <1>1, InductiveInvariant, PTL

\* on_result sees results of completed, released runs only, once per run.
THEOREM Delivery ==
  Disciplined => (Spec => [](DeliveredIsCompleted /\ DeliveredOnce))
<1>1. IInv => DeliveredIsCompleted
  BY DEF IInv, ActiveInv, Active, DeliveredIsCompleted
<1>2. IInv => DeliveredOnce
  <2> SUFFICES ASSUME IInv, NEW r \in Runs PROVE delivered[r] <= 1
    BY DEF DeliveredOnce
  <2>1. DeliveredInv(r) /\ delivered[r] \in 0..2
    BY DEF IInv, TypeOK
  <2>2. QED
    BY <2>1 DEF DeliveredInv
<1>3. QED
  BY <1>1, <1>2, InductiveInvariant, PTL

\* event_log holds the events of the execution under way, and the checkpoint
\* lies within it.
THEOREM LogAndCheckpoint ==
  Disciplined => (Spec => [](LogBelongsToExecution /\ CheckpointWithinLog))
<1>1. IInv => LogBelongsToExecution /\ CheckpointWithinLog
  BY DEF IInv, ActiveInv, Active, LogBelongsToExecution
<1>2. QED
  BY <1>1, InductiveInvariant, PTL

\* What one step may do to the status of a finished run.
StaysFinished ==
  \A r \in Runs :
    /\ row[r].status = "failed" => row'[r].status = "failed"
    /\ row[r].status = "completed" => row'[r].status \in Finished

\* Only the failing release of a completed run writes to a finished row.
LEMMA ExecStaysFinished ==
  ASSUME IInv, NEW e \in Execs, Advance(e) \/ Heartbeat(e) \/ ReleaseLost(e)
  PROVE  StaysFinished
<1> DEFINE r == exec[e].run
           x == RowOf(e)
<1>1. UNCHANGED row => StaysFinished
  BY DEF StaysFinished, Finished
<1>2. Active(e)
  BY ActiveTypes
     DEF IInv, Active, Advance, Heartbeat, ReleaseLost, Resolve, ResolveFails, Start,
         SetupFails, RecordEvent, Checkpoint, Suspend, FinishCompleted,
         CloseStepAttempt, FinishFailed, ReleaseCompleted, ReleaseFailed, Deliver
<1>3. r \in Runs /\ x \in Row /\ x = row[r]
  BY <1>2, ActiveTypes DEF IInv, RowOf
<1>4. Fits(WorkerOf[e], x, exec[e])
  BY <1>2, ActiveFits
<1>5. ASSUME NEW v, SetRow(r, v),
             x.status = "failed" => v.status = "failed",
             x.status = "completed" => v.status \in Finished
      PROVE  StaysFinished
  <2>1. /\ row'[r] = v
        /\ \A q \in Runs \ {r} : row'[q] = row[q]
    BY <1>3, <1>5 DEF IInv, TypeOK, SetRow
  <2>2. QED
    BY <1>3, <1>5, <2>1 DEF StaysFinished, Finished
<1>6. x.status \notin Finished => \A v : SetRow(r, v) => StaysFinished
  BY <1>5 DEF Finished
<1>7. \A v \in Row : v.status = x.status /\ SetRow(r, v) => StaysFinished
  BY <1>5 DEF Finished
<1>8. exec[e].pc \in {"claimed", "starting", "executing", "recorded"} =>
        x.status \notin Finished
  BY <1>4 DEF Fits, Finished
<1> HIDE DEF r, x
<1>10. CASE Start(e) \/ RecordEvent(e) \/ Checkpoint(e) \/ Suspend(e)
              \/ FinishCompleted(e) \/ FinishFailed(e)
  BY <1>1, <1>6, <1>8, <1>10
     DEF Start, RecordEvent, Checkpoint, Suspend, FinishCompleted, FinishFailed, r
<1>11. CASE ReleaseCompleted(e)
  <2>1. ReleasedRow(e, "completed").status = "completed" /\ x.status # "failed"
    BY <1>3, <1>4, <1>11 DEF ReleaseCompleted, ReleasedRow, OwnsRow, RowOf, Fits, Row, x
  <2>2. QED
    BY <1>5, <1>11, <2>1 DEF ReleaseCompleted, Finished, r
<1>12. CASE ReleaseFailed(e)
  <2>1. ReleasedRow(e, "failed").status = "failed"
    BY <1>3, <1>4, <1>12 DEF ReleaseFailed, ReleasedRow, OwnsRow, RowOf, Fits, Row, x
  <2>2. QED
    BY <1>5, <1>12, <2>1 DEF ReleaseFailed, Finished, r
<1>13. CASE Heartbeat(e)
  <2>1. /\ [x EXCEPT !.available = "future"] \in Row
        /\ [x EXCEPT !.available = "future"].status = x.status
    BY <1>3 DEF Row
  <2>2. QED
    BY <1>1, <1>7, <1>13, <2>1 DEF Heartbeat, r, x
<1>14. CASE Resolve(e) \/ ResolveFails(e) \/ SetupFails(e) \/ CloseStepAttempt(e)
              \/ Deliver(e) \/ ReleaseLost(e)
  BY <1>1, <1>14
     DEF Resolve, ResolveFails, SetupFails, CloseStepAttempt, Deliver, ReleaseLost
<1>15. QED
  BY <1>10, <1>11, <1>12, <1>13, <1>14 DEF Advance

\* A finished run is never reopened.
THEOREM Finality == Disciplined => (Spec => NeverReopened)
<1>1. IInv /\ [Next]_vars => [StaysFinished]_vars
  <2> SUFFICES ASSUME IInv, Next PROVE StaysFinished
    OBVIOUS
  <2>1. ASSUME NEW r \in Runs, Enqueue(r) PROVE StaysFinished
    <3>1. PICK a : SetRow(r, [row[r] EXCEPT !.status = StatusOnEnqueue(row[r].status),
                                            !.available = a, !.state = "input"])
      BY <2>1 DEF Enqueue
    <3>2. /\ row'[r].status = StatusOnEnqueue(row[r].status)
          /\ \A q \in Runs \ {r} : row'[q] = row[q]
      BY <3>1 DEF IInv, TypeOK, SetRow, Row
    <3>3. QED
      BY <3>2 DEF StaysFinished, StatusOnEnqueue, Finished
  <2>2. ASSUME NEW r \in Runs, LeaseExpires(r) PROVE StaysFinished
    <3>1. /\ row'[r].status = row[r].status
          /\ \A q \in Runs \ {r} : row'[q] = row[q]
      BY <2>2 DEF LeaseExpires, IInv, TypeOK, SetRow, Row
    <3>2. QED
      BY <3>1 DEF StaysFinished, Finished
  <2>3. ASSUME NEW e \in Execs, NEW r \in Runs, Claim(e, r) PROVE StaysFinished
    <3>1. row[r].status \notin Finished /\ \A q \in Runs \ {r} : row'[q] = row[q]
      BY <2>3 DEF Claim, Claimable, Finished, IInv, TypeOK, SetRow
    <3>2. QED
      BY <3>1 DEF StaysFinished, Finished
  <2>4. ASSUME NEW e \in Execs, Advance(e) \/ Heartbeat(e) \/ ReleaseLost(e)
        PROVE  StaysFinished
    BY <2>4, ExecStaysFinished
  <2>5. ASSUME NEW w \in Workers, Crash(w) \/ Cancel(w) PROVE StaysFinished
    BY <2>5 DEF Crash, Cancel, DropExecs, StaysFinished, Finished
  <2>6. QED
    BY <2>1, <2>2, <2>3, <2>4, <2>5 DEF Next
<1>2. QED
  BY <1>1, InductiveInvariant, PTL DEF Spec, NeverReopened, StaysFinished

-----------------------------------------------------------------------------
(* The mapping to JobQueue *)

Over == Finished \union {"suspended"}

\* The stage and the holder of a run, from its status and its executions.
LEMMA Stages ==
  ASSUME NEW r \in Runs
  PROVE  /\ row[r].status = "absent" => StageOf(r) = "unknown"
         /\ row[r].status \in Over => StageOf(r) = "settled"
         /\ row[r].status \in {"pending", "running"} =>
              StageOf(r) = IF Working(r) = {} THEN "waiting" ELSE "held"
         /\ StageOf(r) # "held" => HolderOf(r) = NoExec
BY DEF StageOf, HolderOf, Over, Finished

LEMMA StagesNext ==
  ASSUME NEW r \in Runs
  PROVE  /\ row'[r].status = "absent" => StageOf(r)' = "unknown"
         /\ row'[r].status \in Over => StageOf(r)' = "settled"
         /\ row'[r].status \in {"pending", "running"} =>
              StageOf(r)' = IF Working(r)' = {} THEN "waiting" ELSE "held"
         /\ StageOf(r)' # "held" => HolderOf(r)' = NoExec
BY DEF StageOf, HolderOf, Over, Finished

\* A run whose status and executions stay keeps its stage and its holder.
LEMMA SameStage ==
  ASSUME NEW r \in Runs, row'[r].status = row[r].status, Working(r)' = Working(r)
  PROVE  StageOf(r)' = StageOf(r) /\ HolderOf(r)' = HolderOf(r)
BY DEF StageOf, HolderOf

\* A step that keeps the stages and the holders stutters.
LEMMA Stutter ==
  ASSUME \A r \in Runs : StageOf(r)' = StageOf(r) /\ HolderOf(r)' = HolderOf(r)
  PROVE  UNCHANGED Queue!vars
BY DEF Queue!vars

\* The only execution of a run is the one that it has.
LEMMA OnlyWorking ==
  ASSUME IInv, NEW e \in Execs, Active(e)
  PROVE  /\ exec[e].run \in Runs
         /\ Working(exec[e].run) = {e}
         /\ row[exec[e].run].status \in Over \union {"running"}
<1>1. exec[e].run \in Runs
  BY ActiveTypes DEF IInv
<1>2. Working(exec[e].run) = {e}
  BY DEF IInv, ExclusiveExecution, Working
<1>3. QED
  BY <1>1, <1>2 DEF IInv, ActiveInv, Over

\* A run with an execution is over or running.
LEMMA WorkingIsActive ==
  ASSUME IInv, NEW r \in Runs, NEW e \in Working(r)
  PROVE  Active(e) /\ exec[e].run = r
BY ActiveTypes, IdleType, ConstantTypes DEF IInv, Working

-----------------------------------------------------------------------------
(* Each kind of step *)

\* A new run is submitted; enqueueing a known one is not seen.
LEMMA EnqueueMaps ==
  ASSUME Disciplined, IInv, NEW r \in Runs, Enqueue(r)
  PROVE  [Queue!Next]_(Queue!vars)
<1>1. PICK a : SetRow(r, [row[r] EXCEPT !.status = StatusOnEnqueue(row[r].status),
                                        !.available = a, !.state = "input"])
  BY DEF Enqueue
<1>2. /\ row'[r].status = StatusOnEnqueue(row[r].status)
      /\ \A q \in Runs \ {r} : row'[q] = row[q]
  BY <1>1 DEF IInv, TypeOK, SetRow, Row
<1>3. \A q \in Runs : Working(q)' = Working(q)
  BY DEF Enqueue, Working
<1>4. row[r].status \in {"absent", "pending", "completed", "failed"}
  <2>1. ReenqueueIn \subseteq {"pending", "completed", "failed"}
    BY ConstantsAssumption DEF Disciplined, Statuses, Finished
  <2>2. QED
    BY <2>1 DEF Enqueue
<1>5. \A q \in Runs \ {r} : StageOf(q)' = StageOf(q) /\ HolderOf(q)' = HolderOf(q)
  BY <1>2, <1>3, SameStage
<1>6. CASE row[r].status = "absent"
  <2>1. Working(r) = {}
    <3>1. ASSUME NEW e \in Working(r) PROVE FALSE
      BY <1>6, <3>1, WorkingIsActive, OnlyWorking DEF Over, Finished, Working
    <3>2. QED
      BY <3>1
  <2>2. row'[r].status = "pending"
    BY <1>2, <1>6 DEF StatusOnEnqueue, Finished
  <2>3. StageOf(r) = "unknown" /\ HolderOf(r) = NoExec
    BY <1>6, Stages
  <2>4. StageOf(r)' = "waiting" /\ HolderOf(r)' = NoExec
    BY <1>3, <2>1, <2>2, StagesNext
  <2>5. Queue!Submit(r)
    BY <1>5, <2>3, <2>4 DEF Queue!Submit
  <2>6. QED
    BY <2>5 DEF Queue!Next
<1>7. CASE row[r].status # "absent"
  <2>1. row'[r].status = row[r].status
    BY <1>2, <1>4, <1>7 DEF StatusOnEnqueue, Finished
  <2>2. StageOf(r)' = StageOf(r) /\ HolderOf(r)' = HolderOf(r)
    BY <1>3, <2>1, SameStage
  <2>3. QED
    BY <1>5, <2>2, Stutter
<1>8. QED
  BY <1>6, <1>7

LEMMA LeaseMaps ==
  ASSUME IInv, NEW r \in Runs, LeaseExpires(r)
  PROVE  UNCHANGED Queue!vars
<1>1. \A q \in Runs : row'[q].status = row[q].status
  BY DEF LeaseExpires, IInv, TypeOK, SetRow, Row
<1>2. \A q \in Runs : Working(q)' = Working(q)
  BY DEF LeaseExpires, Working
<1>3. QED
  BY <1>1, <1>2, SameStage, Stutter

\* A claim takes a run that waits.
LEMMA ClaimMaps ==
  ASSUME IInv, NEW e \in Execs, NEW r \in Runs, Claim(e, r)
  PROVE  Queue!Next
<1>1. TypeOK /\ row[r].status \in {"pending", "running"} /\ exec[e] = Idle
  BY ActiveTypes DEF IInv, Claim, Claimable, Active
<1>2. /\ row'[r].status = "running"
      /\ \A q \in Runs \ {r} : row'[q] = row[q]
  BY DEF IInv, TypeOK, Claim, SetRow, ClaimedRow, Row
<1>3. /\ exec'[e].run = r
      /\ \A f \in Execs \ {e} : exec'[f] = exec[f]
  BY DEF IInv, TypeOK, Claim, SetExec
<1>4. \A f \in Execs : exec[f].run # r
  BY ClaimableIsFree DEF Claim
<1>5. Working(r) = {} /\ Working(r)' = {e}
  BY <1>3, <1>4 DEF Working
<1>6. \A q \in Runs \ {r} : Working(q)' = Working(q)
  BY <1>1, <1>3, IdleType, ConstantTypes DEF Working
<1>7. \A q \in Runs \ {r} : StageOf(q)' = StageOf(q) /\ HolderOf(q)' = HolderOf(q)
  BY <1>2, <1>6, SameStage
<1>8. StageOf(r) = "waiting" /\ StageOf(r)' = "held" /\ HolderOf(r)' = e
  <2>1. StageOf(r) = "waiting"
    BY <1>1, <1>5, Stages
  <2>2. StageOf(r)' = "held"
    BY <1>2, <1>5, StagesNext
  <2>3. QED
    BY <1>5, <2>1, <2>2 DEF HolderOf
<1>9. \A q \in Runs : HolderOf(q) # e
  <2> SUFFICES ASSUME NEW q \in Runs, HolderOf(q) = e PROVE FALSE
    OBVIOUS
  <2>1. e # NoExec
    BY ConstantsAssumption
  <2>2. StageOf(q) = "held"
    BY <2>1, Stages
  <2>3. Working(q) # {}
    BY <2>2 DEF StageOf
  <2>4. e \in Working(q)
    BY <2>2, <2>3 DEF HolderOf
  <2>5. QED
    BY <1>1, <2>4, IdleType, ConstantTypes DEF Working
<1>10. Queue!Take(r, e)
  BY <1>7, <1>8, <1>9 DEF Queue!Take
<1>11. QED
  BY <1>10 DEF Queue!Next

\* What a step of an execution does to its row and to its slot.
Effect(e) ==
  LET r == exec[e].run IN
  /\ \A q \in Runs \ {r} : row'[q] = row[q]
  /\ \A f \in Execs \ {e} : exec'[f] = exec[f]
  /\ exec'[e].run = r \/ exec'[e] = Idle
  /\ row'[r].status \in Over \union {"running"}
  /\ row[r].status \in Over => row'[r].status \in Over

LEMMA SlotEffect ==
  ASSUME TypeOK, NEW e \in Execs, Active(e), NEW v, NEW u,
         SetRow(exec[e].run, v), SetExec(e, u), u.run = exec[e].run \/ u = Idle,
         v.status \in Over \union {"running"},
         RowOf(e).status \in Over => v.status \in Over
  PROVE  Effect(e)
<1>1. exec[e].run \in Runs
  BY ActiveTypes
<1>2. QED
  BY <1>1 DEF TypeOK, SetRow, SetExec, Effect, RowOf

LEMMA ExecEffect ==
  ASSUME IInv, NEW e \in Execs, Advance(e) \/ Heartbeat(e) \/ ReleaseLost(e)
  PROVE  Active(e) /\ Effect(e)
<1> DEFINE r == exec[e].run
           x == RowOf(e)
<1>1. TypeOK /\ Active(e)
  BY ActiveTypes
     DEF IInv, Active, Advance, Heartbeat, ReleaseLost, Resolve, ResolveFails, Start,
         SetupFails, RecordEvent, Checkpoint, Suspend, FinishCompleted,
         CloseStepAttempt, FinishFailed, ReleaseCompleted, ReleaseFailed, Deliver
<1>2. /\ r \in Runs /\ x \in Row /\ x = row[r] /\ exec[e] \in Exec
      /\ x.status \in Over \union {"running"}
      /\ Unsettled(e) => x.status = "running"
  BY <1>1, ActiveTypes, OnlyWorking DEF IInv, ActiveInv, RowOf
<1>3. UNCHANGED row => SetRow(r, x)
  BY <1>1, <1>2, KeepRow
<1>4. UNCHANGED exec => SetExec(e, exec[e])
  BY <1>1, KeepExec
<1>5. \A pc : [exec[e] EXCEPT !.pc = pc].run = r
  BY <1>2 DEF Exec
<1>6. "running" \notin Over /\ "failed" \in Over /\ "completed" \in Over
        /\ "suspended" \in Over
  BY DEF Over, Finished
<1>7. ASSUME NEW v, SetRow(r, v), v.status \in Over \/ v.status = x.status,
             NEW u, SetExec(e, u), u.run = r \/ u = Idle
      PROVE  Effect(e)
  BY <1>1, <1>2, <1>7, SlotEffect
<1> HIDE DEF r, x
<1>10. CASE Resolve(e)
  <2>1. [exec[e] EXCEPT !.pc = "starting", !.heartbeat = "on"].run = r
    BY <1>2 DEF Exec, r
  <2>2. QED
    BY <1>1, <1>3, <1>7, <1>10, <2>1 DEF Resolve
<1>11. CASE SetupFails(e) \/ CloseStepAttempt(e)
  BY <1>1, <1>3, <1>5, <1>7, <1>11 DEF SetupFails, CloseStepAttempt, GoTo
<1>12. CASE Start(e)
  <2>1. StartedRow(e).status = x.status
    BY <1>2, <1>12 DEF StartedRow, Start, Unsettled, Row, x, r
  <2>2. QED
    BY <1>1, <1>5, <1>7, <1>12, <2>1 DEF Start, GoTo, r
<1>13. CASE RecordEvent(e)
  <2>1. PICK pc : SetExec(e, [exec[e] EXCEPT !.pc = pc, !.events = exec[e].events + 1])
    BY <1>13 DEF RecordEvent
  <2>2. [exec[e] EXCEPT !.pc = pc, !.events = exec[e].events + 1].run = r
    BY <1>2 DEF Exec, r
  <2>3. [RowOf(e) EXCEPT !.log = RowOf(e).log + 1].status = x.status
    BY <1>2 DEF Row, x
  <2>4. QED
    BY <1>1, <1>7, <1>13, <2>1, <2>2, <2>3 DEF RecordEvent, r
<1>14. CASE Checkpoint(e)
  <2>1. [RowOf(e) EXCEPT !.state = StateOf(e), !.index = exec[e].events].status = x.status
    BY <1>2 DEF Row, x
  <2>2. QED
    BY <1>1, <1>5, <1>7, <1>14, <2>1 DEF Checkpoint, GoTo, r
<1>15. CASE Suspend(e)
  <2>1. [RowOf(e) EXCEPT !.status = "suspended", !.state = StateOf(e),
                         !.index = exec[e].events].status = "suspended"
    BY <1>2 DEF Row, x
  <2>2. QED
    BY <1>1, <1>5, <1>6, <1>7, <1>15, <2>1 DEF Suspend, GoTo, r
<1>16. CASE FinishCompleted(e)
  <2>1. [RowOf(e) EXCEPT !.status = "completed", !.state = "final"].status = "completed"
    BY <1>2 DEF Row, x
  <2>2. QED
    BY <1>1, <1>5, <1>6, <1>7, <1>16, <2>1 DEF FinishCompleted, GoTo, r
<1>17. CASE FinishFailed(e)
  <2>1. [RowOf(e) EXCEPT !.status = "failed", !.state = StateOf(e)].status = "failed"
    BY <1>2 DEF Row, x
  <2>2. QED
    BY <1>1, <1>3, <1>5, <1>6, <1>7, <1>17, <2>1 DEF FinishFailed, GoTo, r
<1>18. CASE ReleaseCompleted(e)
  <2>1. ReleasedRow(e, "completed").status \in {"completed", x.status}
    BY <1>2 DEF ReleasedRow, Row, x
  <2>2. QED
    BY <1>1, <1>5, <1>6, <1>7, <1>18, <2>1 DEF ReleaseCompleted, GoTo, r
<1>19. CASE ReleaseFailed(e)
  <2>1. ReleasedRow(e, "failed").status \in {"failed", x.status}
    BY <1>2 DEF ReleasedRow, Row, x
  <2>2. QED
    BY <1>1, <1>6, <1>7, <1>19, <2>1 DEF ReleaseFailed, r
<1>20. CASE Heartbeat(e)
  <2>1. [exec[e] EXCEPT !.heartbeat = "off"].run = r
    BY <1>2 DEF Exec, r
  <2>2. [RowOf(e) EXCEPT !.available = "future"].status = x.status
    BY <1>2 DEF Row, x
  <2>3. QED
    BY <1>1, <1>3, <1>4, <1>7, <1>20, <2>1, <2>2 DEF Heartbeat, r
<1>21. CASE ResolveFails(e) \/ ReleaseLost(e) \/ Deliver(e)
  BY <1>1, <1>3, <1>7, <1>21 DEF ResolveFails, ReleaseLost, Deliver
<1>22. QED
  BY <1>1, <1>10, <1>11, <1>12, <1>13, <1>14, <1>15, <1>16, <1>17, <1>18, <1>19,
     <1>20, <1>21 DEF Advance

\* An execution goes on, settles its run, or loses it.
LEMMA ExecMaps ==
  ASSUME IInv, NEW e \in Execs, Active(e), Effect(e)
  PROVE  [Queue!Next]_(Queue!vars)
<1>0. PICK r \in Runs : r = exec[e].run
  BY OnlyWorking
<1>1. Working(r) = {e} /\ row[r].status \in Over \union {"running"}
  BY <1>0, OnlyWorking
<1>2. \A q \in Runs \ {r} : Working(q)' = Working(q)
  BY <1>0, IdleType, ConstantTypes DEF Effect, Working
<1>3. \A q \in Runs \ {r} : StageOf(q)' = StageOf(q) /\ HolderOf(q)' = HolderOf(q)
  BY <1>0, <1>2, SameStage DEF Effect
<1>4. /\ exec'[e].run = r => Working(r)' = {e}
      /\ exec'[e].run # r => Working(r)' = {}
  BY <1>0, <1>1, IdleType, ConstantTypes DEF Effect, Working
<1>5. /\ row'[r].status \in Over \union {"running"}
      /\ row[r].status \in Over => row'[r].status \in Over
  BY <1>0 DEF Effect
<1>6. CASE row[r].status \in Over
  <2>1. StageOf(r) = "settled" /\ HolderOf(r) = NoExec
    BY <1>1, <1>6, Stages
  <2>2. StageOf(r)' = "settled" /\ HolderOf(r)' = NoExec
    BY <1>1, <1>5, <1>6, StagesNext
  <2>3. QED
    BY <1>3, <2>1, <2>2, Stutter
<1>7. CASE row[r].status = "running" /\ row'[r].status \in Over
  <2>1. StageOf(r) = "held"
    BY <1>1, <1>7, Stages
  <2>2. StageOf(r)' = "settled" /\ HolderOf(r)' = NoExec
    BY <1>1, <1>7, StagesNext
  <2>3. Queue!Settle(r)
    BY <1>1, <1>3, <2>1, <2>2 DEF Queue!Settle
  <2>4. QED
    BY <1>1, <2>3 DEF Queue!Next
<1>8. CASE row[r].status = "running" /\ row'[r].status = "running" /\ exec'[e].run = r
  BY <1>1, <1>3, <1>4, <1>8, SameStage, Stutter
<1>9. CASE row[r].status = "running" /\ row'[r].status = "running" /\ exec'[e].run # r
  <2>1. StageOf(r) = "held"
    BY <1>1, <1>9, Stages
  <2>2. StageOf(r)' = "waiting" /\ HolderOf(r)' = NoExec
    BY <1>1, <1>4, <1>9, StagesNext
  <2>3. Queue!Lose({r})
    BY <1>1, <1>3, <2>1, <2>2 DEF Queue!Lose
  <2>4. QED
    BY <1>1, <2>3 DEF Queue!Next
<1>10. QED
  BY <1>1, <1>5, <1>6, <1>7, <1>8, <1>9

\* With a worker all its executions are lost at once.
LEMMA DropMaps ==
  ASSUME IInv, NEW w, DropExecs(w)
  PROVE  Queue!Next
<1> DEFINE L == {r \in Runs : StageOf(r) = "held" /\ Working(r)' = {}}
<1>1. row' = row
  BY DEF DropExecs
<1>2. \A e \in Execs : exec'[e] = Idle \/ exec'[e] = exec[e]
  BY DEF DropExecs
<1>3. \A r \in Runs : Working(r)' = {} \/ Working(r)' = Working(r)
  <2> SUFFICES ASSUME NEW r \in Runs, NEW e \in Working(r)' PROVE Working(r)' = Working(r)
    OBVIOUS
  <2>1. e \in Execs /\ exec'[e].run = r
    BY DEF Working
  <2>2. exec'[e] = exec[e]
    BY <1>2, <2>1, IdleType, ConstantTypes
  <2>3. e \in Working(r)
    BY <2>1, <2>2 DEF Working
  <2>4. Active(e) /\ exec[e].run = r
    BY <2>3, WorkingIsActive
  <2>5. Working(r) = {e}
    BY <2>1, <2>4, OnlyWorking
  <2>6. Working(r)' \subseteq Working(r)
    BY <1>2, IdleType, ConstantTypes DEF Working
  <2>7. QED
    BY <2>5, <2>6
<1>4. ASSUME NEW r \in L
      PROVE  StageOf(r) = "held" /\ StageOf(r)' = "waiting" /\ HolderOf(r)' = NoExec
  <2>1. r \in Runs /\ StageOf(r) = "held" /\ Working(r)' = {}
    OBVIOUS
  <2>2. row[r] \in Row
    BY <2>1 DEF IInv, TypeOK
  <2>3. row[r].status \in {"pending", "running"}
    BY <2>1, <2>2, Stages DEF Row, Statuses, Over
  <2>4. QED
    BY <1>1, <2>1, <2>3, StagesNext
<1>5. ASSUME NEW r \in Runs \ L
      PROVE  StageOf(r)' = StageOf(r) /\ HolderOf(r)' = HolderOf(r)
  <2>1. CASE Working(r)' = Working(r)
    BY <1>1, <2>1, SameStage
  <2>2. CASE Working(r)' = {} /\ StageOf(r) # "held"
    <3>1. row[r].status \in Statuses
      BY DEF IInv, TypeOK, Row
    <3>2. QED
      BY <1>1, <2>2, <3>1, Stages, StagesNext DEF Statuses, Over
  <2>3. QED
    BY <1>3, <2>1, <2>2
<1>6. Queue!Lose(L)
  <2>1. \A r \in L : StageOf(r) = "held"
    OBVIOUS
  <2>2. \A r \in Runs : StageOf(r)' = IF r \in L THEN "waiting" ELSE StageOf(r)
    BY <1>4, <1>5
  <2>3. \A r \in Runs : HolderOf(r)' = IF r \in L THEN NoExec ELSE HolderOf(r)
    BY <1>4, <1>5
  <2>4. L \subseteq Runs
    OBVIOUS
  <2> HIDE DEF L
  <2>5. QED
    BY <2>1, <2>2, <2>3, <2>4 DEF Queue!Lose
<1>7. L \in SUBSET Runs
  OBVIOUS
<1> HIDE DEF L
<1>8. QED
  BY <1>6, <1>7 DEF Queue!Next

-----------------------------------------------------------------------------
(* The theorems *)

\* For its clients the table with its workers, their faults and their races
\* is the abstract queue: whoever executes a run holds it alone, a lost one
\* waits again, and a settled one is not taken again.
THEOREM Refinement == Disciplined => (Spec => ImplementsQueue)
<1> SUFFICES ASSUME Disciplined PROVE Spec => ImplementsQueue
  OBVIOUS
<1>1. Init => Queue!Init
  <2> SUFFICES ASSUME Init PROVE Queue!Init
    OBVIOUS
  <2>1. \A r \in Runs : row[r].status = "absent"
    BY DEF Init, AbsentRow
  <2>2. \A r \in Runs : StageOf(r) = "unknown" /\ HolderOf(r) = NoExec
    BY <2>1, Stages
  <2>3. QED
    BY <2>2 DEF Queue!Init
<1>2. IInv /\ [Next]_vars => [Queue!Next]_(Queue!vars)
  <2> SUFFICES ASSUME IInv, [Next]_vars PROVE [Queue!Next]_(Queue!vars)
    OBVIOUS
  <2>1. ASSUME NEW r \in Runs, Enqueue(r) PROVE [Queue!Next]_(Queue!vars)
    BY <2>1, EnqueueMaps
  <2>2. ASSUME NEW r \in Runs, LeaseExpires(r) PROVE [Queue!Next]_(Queue!vars)
    BY <2>2, LeaseMaps
  <2>3. ASSUME NEW e \in Execs, NEW r \in Runs, Claim(e, r)
        PROVE  [Queue!Next]_(Queue!vars)
    BY <2>3, ClaimMaps
  <2>4. ASSUME NEW e \in Execs, Advance(e) \/ Heartbeat(e) \/ ReleaseLost(e)
        PROVE  [Queue!Next]_(Queue!vars)
    BY <2>4, ExecEffect, ExecMaps
  <2>5. ASSUME NEW w \in Workers, Crash(w) \/ Cancel(w) PROVE [Queue!Next]_(Queue!vars)
    BY <2>5, DropMaps DEF Crash, Cancel
  <2>6. CASE UNCHANGED vars
    BY <2>6, SameStage, Stutter DEF vars, Working
  <2>7. QED
    BY <2>1, <2>2, <2>3, <2>4, <2>5, <2>6 DEF Next
<1>3. QED
  BY <1>1, <1>2, InductiveInvariant, PTL DEF Spec, ImplementsQueue, Queue!Spec

\* What one step may do to the owner of a row.
OwnerReleases ==
  \A r \in Runs :
    row[r].worker # NoWorker /\ row'[r].worker = NoWorker
      => \E e \in Execs :
           /\ WorkerOf[e] = row[r].worker
           /\ exec[e].run = r
           /\ exec'[e].pc # exec[e].pc

\* Whatever time and clients do, only an execution of the worker that a row
\* names takes this name away, and only in the step that ends the execution.
THEOREM OwnerOnly == Spec => OnlyOwnerReleases
<1>1. TypeOK /\ [Next]_vars => [OwnerReleases]_vars
  <2> SUFFICES ASSUME TypeOK, Next, NEW r \in Runs,
                      row[r].worker # NoWorker, row'[r].worker = NoWorker
               PROVE  \E e \in Execs : /\ WorkerOf[e] = row[r].worker
                                       /\ exec[e].run = r
                                       /\ exec'[e].pc # exec[e].pc
    BY DEF OwnerReleases
  <2>1. row[r] \in Row /\ row' # row
    BY DEF TypeOK
  <2>2. ASSUME NEW q \in Runs, NEW v, SetRow(q, v), v.worker = row[q].worker
        PROVE  FALSE
    BY <2>2 DEF TypeOK, SetRow
  <2>3. ASSUME NEW q \in Runs, Enqueue(q) PROVE FALSE
    <3>1. PICK a : SetRow(q, [row[q] EXCEPT !.status = StatusOnEnqueue(row[q].status),
                                            !.available = a, !.state = "input"])
      BY <2>3 DEF Enqueue
    <3>2. [row[q] EXCEPT !.status = StatusOnEnqueue(row[q].status),
                         !.available = a, !.state = "input"].worker = row[q].worker
      BY DEF TypeOK, Row
    <3>3. QED
      BY <2>2, <3>1, <3>2
  <2>4. ASSUME NEW q \in Runs, LeaseExpires(q) PROVE FALSE
    BY <2>4 DEF LeaseExpires, TypeOK, SetRow, Row
  <2>5. ASSUME NEW e \in Execs, NEW q \in Runs, Claim(e, q) PROVE FALSE
    BY <2>5, ConstantTypes DEF Claim, ClaimedRow, TypeOK, SetRow, Row
  <2>6. ASSUME NEW e \in Execs, Advance(e) \/ Heartbeat(e) \/ ReleaseLost(e)
        PROVE  \E f \in Execs : /\ WorkerOf[f] = row[r].worker
                                /\ exec[f].run = r
                                /\ exec'[f].pc # exec[f].pc
    <3>1. Active(e)
      BY <2>6, ActiveTypes
         DEF Active, Advance, Heartbeat, ReleaseLost, Resolve, ResolveFails, Start,
             SetupFails, RecordEvent, Checkpoint, Suspend, FinishCompleted,
             CloseStepAttempt, FinishFailed, ReleaseCompleted, ReleaseFailed, Deliver
    <3>2. exec[e].run \in Runs /\ RowOf(e) \in Row /\ RowOf(e) = row[exec[e].run]
      BY <3>1, ActiveTypes DEF RowOf
    <3>3. CASE ReleaseCompleted(e) \/ ReleaseFailed(e)
      <4>1. PICK s : SetRow(exec[e].run, ReleasedRow(e, s))
        BY <3>3 DEF ReleaseCompleted, ReleaseFailed
      <4>2. r = exec[e].run /\ OwnsRow(e)
        BY <3>2, <4>1 DEF TypeOK, SetRow, ReleasedRow
      <4>3. exec'[e].pc # exec[e].pc
        BY <3>3, IdleType DEF ReleaseCompleted, ReleaseFailed, GoTo, SetExec, TypeOK, Exec
      <4>4. QED
        BY <4>2, <4>3 DEF OwnsRow
    <3>4. CASE Start(e) \/ RecordEvent(e) \/ Checkpoint(e) \/ Suspend(e)
                 \/ FinishCompleted(e) \/ FinishFailed(e) \/ Heartbeat(e)
      <4>1. /\ StartedRow(e).worker = RowOf(e).worker
            /\ [RowOf(e) EXCEPT !.log = RowOf(e).log + 1].worker = RowOf(e).worker
            /\ [RowOf(e) EXCEPT !.state = StateOf(e),
                                !.index = exec[e].events].worker = RowOf(e).worker
            /\ [RowOf(e) EXCEPT !.status = "suspended", !.state = StateOf(e),
                                !.index = exec[e].events].worker = RowOf(e).worker
            /\ [RowOf(e) EXCEPT !.status = "completed",
                                !.state = "final"].worker = RowOf(e).worker
            /\ [RowOf(e) EXCEPT !.status = "failed",
                                !.state = StateOf(e)].worker = RowOf(e).worker
            /\ [RowOf(e) EXCEPT !.available = "future"].worker = RowOf(e).worker
        BY <3>2 DEF StartedRow, Row
      <4>2. QED
        BY <2>1, <2>2, <3>2, <3>4, <4>1
           DEF Start, RecordEvent, Checkpoint, Suspend, FinishCompleted, FinishFailed,
               Heartbeat
    <3>5. CASE Resolve(e) \/ ResolveFails(e) \/ SetupFails(e) \/ CloseStepAttempt(e)
                 \/ Deliver(e) \/ ReleaseLost(e)
      BY <2>1, <3>5
         DEF Resolve, ResolveFails, SetupFails, CloseStepAttempt, Deliver, ReleaseLost
    <3>6. QED
      BY <2>6, <3>3, <3>4, <3>5 DEF Advance
  <2>7. ASSUME NEW w \in Workers, Crash(w) \/ Cancel(w) PROVE FALSE
    BY <2>1, <2>7 DEF Crash, Cancel, DropExecs
  <2>8. QED
    BY <2>3, <2>4, <2>5, <2>6, <2>7 DEF Next
<1>2. QED
  BY <1>1, TypeCorrect, PTL DEF Spec, OnlyOwnerReleases, OwnerReleases
=============================================================================
