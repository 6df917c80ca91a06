---------------------------- MODULE ResumableRun ----------------------------
(***************************************************************************)
(* One run of one document by run_workflow (runtime.py), with a persistent *)
(* history: the graph that build_workflow makes of the task list           *)
(* (translator.py), the record that the history keeps (ops/history.py),    *)
(* suspension, failure and crash, and the resumption that slices the task  *)
(* list at the checkpoint (_resume_task_list).                             *)
(*                                                                         *)
(* A unit is a node whose completion emits one event, named like the node. *)
(* Bodies are one level deep and hold plain tasks.  The session service is *)
(* the in-memory one, made anew by every call.                             *)
(***************************************************************************)
EXTENDS Naturals, Sequences, FiniteSets

CONSTANTS
  Documents,    \* documents, one of which is run: sequences of items
  Intervals,    \* values of checkpoint_interval, one of which is used
  MaxFaults,    \* bound: crashes and failures
  MaxTrail      \* bound: units run (a document may loop)

NoTask == ""

(***************************************************************************)
(* Items.  body holds the children of do, for and try, or the branches of  *)
(* a fork that does not compete; handler is catch.do; routes are the then  *)
(* targets of the cases of a switch, default that of its default case.     *)
(* "listen" also stands for an agent that requests input from a human.     *)
(***************************************************************************)
Item(name, kind, body) ==
  [name |-> name, kind |-> kind, then |-> "continue", body |-> body,
   handler |-> <<>>, routes |-> {}, default |-> NoTask]
Then(item, target) == [item EXCEPT !.then = target]
Kinds == {"step", "wait", "listen", "do", "for", "try", "fork", "switch"}

TaskName == STRING \ {NoTask}
ItemType == [name: TaskName, kind: Kinds, then: TaskName, body: Seq(TaskName),
             handler: Seq(TaskName), routes: SUBSET TaskName, default: TaskName \union {NoTask}]

ASSUME BoundsAssumption ==
  /\ Intervals \subseteq Nat
  /\ MaxFaults \in Nat
  /\ MaxTrail \in Nat

Has(names, name) == \E k \in DOMAIN names : names[k] = name

\* The schema that the loader checks gives bodies to do, for, try and fork
\* only, and catch to try only.  (A task named by the empty string would be
\* no checkpoint: runtime.py:103.)  build_workflow keeps one node for a name,
\* of a task of the list or of a branch: no two of them share it here.
ASSUME DocumentsAssumption ==
  \A d \in Documents :
    /\ d \in Seq(ItemType)
    /\ \A k \in DOMAIN d :
         /\ d[k].kind \notin {"do", "for", "try", "fork"} => d[k].body = <<>>
         /\ d[k].kind # "try" => d[k].handler = <<>>
         /\ \A j \in DOMAIN d :
              /\ d[j].name = d[k].name => j = k
              /\ d[k].kind = "fork" => ~ Has(d[k].body, d[j].name)

VARIABLES
  document,   \* the document that the caller passes
  interval,   \* cfg.checkpoint_interval
  record,     \* the RunRecord in the history
  proc,       \* the run_workflow call in progress
  trail,      \* the units whose effects the run has kept, in order
  kept,       \* the length of trail at the last checkpoint
  ahead,      \* finish has saved a state that is ahead of the checkpoint
  faults      \* faults so far

vars == <<document, interval, record, proc, trail, kept, ahead, faults>>

Record ==
  [status: {"absent", "running", "suspended", "completed", "failed"},
   checkpoint: TaskName \union {NoTask}, state: Seq(STRING),
   timer: {"none", "future", "past"}, reason: {"none", "timer", "listen"}]

\* items is the task list in execution, at the position in it, units the
\* units of that item that are left, and state the in-memory state: the
\* units whose deltas it has merged.
NoProc == [pc |-> "none", items |-> <<>>, at |-> 0, units |-> <<>>,
           state |-> <<>>, events |-> 0, resumed |-> FALSE]

TypeOK ==
  /\ document \in Documents
  /\ interval \in Intervals
  /\ record \in Record
  /\ proc.pc \in {"none", "running", "recorded"}
  /\ proc.pc # "none" => proc.at \in 1..(Len(proc.items) + 1)
  /\ \A k \in DOMAIN proc.units : proc.units[k] # NoTask
  /\ kept <= Len(trail)
  /\ ahead \in BOOLEAN
  /\ faults \in 0..MaxFaults

Init ==
  /\ document \in Documents
  /\ interval \in Intervals
  /\ record = [status |-> "absent", checkpoint |-> NoTask, state |-> <<>>,
               timer |-> "none", reason |-> "none"]
  /\ proc = NoProc
  /\ trail = <<>>
  /\ kept = 0
  /\ ahead = FALSE
  /\ faults = 0

-----------------------------------------------------------------------------
(* The graph of a task list *)

Orders(names) ==
  {order \in [1..Len(names) -> {names[k] : k \in DOMAIN names}] :
     \A j, k \in 1..Len(names) : j # k => order[j] # order[k]}

\* The orders in which the events of an item may arrive: children before
\* their parent, the body of a loop twice, the branches of a fork in any
\* order, the handler after the children that preceded the error.
UnitOrders(item) ==
  CASE item.kind = "do" -> {item.body \o <<item.name>>}
    [] item.kind = "for" -> {item.body \o item.body \o <<item.name>>}
    [] item.kind = "fork" -> Orders(item.body)
    [] item.kind = "try" ->
         {item.body \o <<item.name>>} \union
         IF item.handler = <<>> THEN {}
         ELSE {SubSeq(item.body, 1, k) \o item.handler \o <<item.name>> :
                 k \in 0..(Len(item.body) - 1)}
    [] OTHER -> {<<item.name>>}

Named(items, name) == {k \in DOMAIN items : items[k].name = name}

Successors_SkipsNext(items, k) == {k + 2}

Jumps == {"continue", "end", "exit"}

\* A fork with branches joins them and goes on with the next item even if
\* its then is end or exit.
Joins(item) == item.kind = "fork" /\ item.body # <<>>

\* The positions that build_workflow's edges lead to from position k; one
\* past the end is the end of the run, where a switch goes without an edge
\* for the case that holds.
Successors(items, k) ==
  LET item == items[k]
      end == Len(items) + 1
  IN IF item.kind = "switch"
     THEN (UNION {Named(items, name) : name \in item.routes \union {item.default}})
          \union (IF Named(items, item.default) = {} THEN {end} ELSE {})
     ELSE IF item.then \in Jumps
     THEN {IF item.then = "continue" \/ Joins(item) THEN k + 1 ELSE end}
     ELSE Named(items, item.then)

\* The positions that build_workflow visits, as many steps from the first
\* item as the list has items.
Reachable(items) ==
  LET visited[n \in Nat] ==
        IF n = 0 THEN {1}
        ELSE visited[n - 1] \union
             UNION {Successors(items, k) : k \in visited[n - 1] \intersect DOMAIN items}
  IN  visited[Len(items)]

\* What the item jumps to by name.
Targets(item) ==
  IF item.kind = "switch" THEN item.routes \union {item.default} ELSE {item.then} \ Jumps

\* build_workflow raises when the then of a reachable item is unknown, or
\* when one jumps to a branch of a fork: that has a node, and no index.
Builds(items) ==
  \A k \in Reachable(items) \intersect DOMAIN items :
    /\ Successors(items, k) # {}
    /\ \A name \in Targets(items[k]), j \in DOMAIN items :
         items[j].kind = "fork" => ~ Has(items[j].body, name)

\* The units of the item at position k; none past the end.
UnitsAt(items, k) == IF k \in DOMAIN items THEN UnitOrders(items[k]) ELSE {<<>>}

-----------------------------------------------------------------------------
(* Slicing at a checkpoint *)

\* What is left of a list of names after its first occurrence of name.
After(names, name) ==
  LET first == CHOOSE k \in DOMAIN names :
                 names[k] = name /\ \A j \in 1..(k - 1) : names[j] # name
  IN  SubSeq(names, first + 1, Len(names))

\* The item is what slicing looks for, or its body holds it.
Holds(item, name) == item.name = name \/ Has(item.body, name)

\* The item itself when the checkpoint lies inside it: its body loses what
\* precedes the checkpoint.
Remainder(item, name) == [item EXCEPT !.body = After(item.body, name)]

Slice_Inclusive(items, name) ==
  LET k == CHOOSE j \in DOMAIN items : Holds(items[j], name)
  IN  IF items[k].name = name
      THEN SubSeq(items, k, Len(items))
      ELSE <<Remainder(items[k], name)>> \o SubSeq(items, k + 1, Len(items))
Slice_DropsParent(items, name) ==
  LET k == CHOOSE j \in DOMAIN items : Holds(items[j], name)
  IN  SubSeq(items, k + 1, Len(items))

\* _resume_task_list, by position in the list: then and switch play no part.
Slice(items, name) ==
  LET k == CHOOSE j \in DOMAIN items :
             Holds(items[j], name) /\ \A i \in 1..(j - 1) : ~ Holds(items[i], name)
  IN  IF items[k].name = name
      THEN SubSeq(items, k + 1, Len(items))
      ELSE <<Remainder(items[k], name)>> \o SubSeq(items, k + 1, Len(items))

\* KeyError: the checkpoint is not in the document.  AttributeError: on the
\* way to it slicing looks into the handler of a try, whose tasks are raw
\* mappings without a name.  IndexError: it is the name of a fork's branch,
\* of which slicing leaves nothing.
Sliceable(items, name) ==
  \E k \in DOMAIN items :
    /\ Holds(items[k], name)
    /\ \A j \in 1..(k - 1) : ~ Holds(items[j], name) /\ items[j].handler = <<>>
    /\ items[k].kind = "fork" => items[k].name = name

-----------------------------------------------------------------------------
(* run_workflow *)

SetProc(value) == proc' = value

\* A call with this task list and this state begins at the first item.
Begin(items, state, resumed) ==
  \E units \in UnitsAt(items, 1) :
    SetProc([pc |-> "running", items |-> items, at |-> 1, units |-> units,
             state |-> state, events |-> 0, resumed |-> resumed])

\* resume=False: build the graph, then history.start.
Start ==
  /\ record.status = "absent"
  /\ Builds(document)
  /\ record' = [record EXCEPT !.status = "running"]
  /\ Begin(document, <<>>, FALSE)
  /\ UNCHANGED <<document, interval, trail, kept, ahead, faults>>

ResumedState_Empty == <<>>

\* The input of a resumed run.
ResumedState == record.state

ResumedItems_FromCheckpoint == Slice_Inclusive(document, record.checkpoint)
ResumedItems_AfterParent == Slice_DropsParent(document, record.checkpoint)

\* The task list of a resumed run: all of the document if the run has ever
\* been suspended for a listen, what follows the checkpoint otherwise.
ResumedItems ==
  IF record.reason = "listen" THEN document
  ELSE Slice(document, record.checkpoint)

\* resume=True on a run that is not complete.  What the run did after its
\* last checkpoint is forgotten.  Calls that raise before the runner starts
\* change nothing.
Resume ==
  /\ proc.pc = "none"
  /\ record.status \in {"running", "suspended", "failed"}
  /\ record.status = "suspended" => record.timer # "future"
  /\ IF record.checkpoint = NoTask
     THEN Begin(document, <<>>, TRUE)
     ELSE /\ Sliceable(document, record.checkpoint)
          /\ Builds(ResumedItems)
          /\ Begin(ResumedItems, ResumedState, TRUE)
  /\ trail' = SubSeq(trail, 1, kept)
  /\ UNCHANGED <<document, interval, record, kept, ahead, faults>>

AtEnd == proc.at > Len(proc.items)
Current == proc.items[proc.at]

\* The task in turn raises WorkflowSuspended.
Suspends ==
  /\ ~ AtEnd
  /\ \/ Current.kind = "wait"
     \/ Current.kind = "listen" /\ ~ proc.resumed

\* The next unit completes: its event is merged into the state and recorded.
RunUnit ==
  /\ proc.pc = "running"
  /\ ~ AtEnd
  /\ ~ Suspends
  /\ proc.units # <<>>
  /\ Len(trail) < MaxTrail
  /\ SetProc([proc EXCEPT !.pc = "recorded",
                          !.state = Append(proc.state, Head(proc.units)),
                          !.events = proc.events + 1])
  /\ trail' = Append(trail, Head(proc.units))
  /\ UNCHANGED <<document, interval, record, kept, ahead, faults>>

Due == interval # 0 /\ proc.events % interval = 0

CheckpointedRecord_OldState ==
  [record EXCEPT !.checkpoint = Head(proc.units)]

\* checkpoint: the state and the task of the event that was just recorded.
CheckpointedRecord ==
  [record EXCEPT !.state = proc.state, !.checkpoint = Head(proc.units)]

\* Every interval-th event is checkpointed; then the runner goes on.
Checkpoint ==
  /\ proc.pc = "recorded"
  /\ IF Due
     THEN record' = CheckpointedRecord /\ kept' = Len(trail)
     ELSE UNCHANGED <<record, kept>>
  /\ SetProc([proc EXCEPT !.pc = "running", !.units = Tail(proc.units)])
  /\ UNCHANGED <<document, interval, trail, ahead, faults>>

\* The scheduler follows an edge of the graph.
Advance ==
  /\ proc.pc = "running"
  /\ ~ AtEnd
  /\ ~ Suspends
  /\ proc.units = <<>>
  /\ \E k \in Successors(proc.items, proc.at) :
       \E units \in UnitsAt(proc.items, k) :
         SetProc([proc EXCEPT !.at = k, !.units = units])
  /\ UNCHANGED <<document, interval, record, trail, kept, ahead, faults>>

SuspendedRecord_KeepsCheckpoint ==
  [record EXCEPT !.status = "suspended", !.state = proc.state,
                 !.timer = "future", !.reason = "timer"]

\* suspend: the checkpoint is the suspended task; resume_at is the end of
\* the wait, or now for a listen.
SuspendedRecord ==
  [record EXCEPT !.status = "suspended", !.state = proc.state,
                 !.checkpoint = Current.name,
                 !.timer = IF Current.kind = "wait" THEN "future" ELSE "past",
                 !.reason = IF Current.kind = "wait" THEN "timer" ELSE "listen"]

\* A wait is over when its run resumes, a listen has yet to happen.
Suspend ==
  /\ proc.pc = "running"
  /\ Suspends
  /\ Len(trail) < MaxTrail
  /\ record' = SuspendedRecord
  /\ trail' = IF Current.kind = "wait" THEN Append(trail, Current.name) ELSE trail
  /\ kept' = Len(trail')
  /\ SetProc(NoProc)
  /\ UNCHANGED <<document, interval, ahead, faults>>

\* A task or a call of the history raises: finish records the failure and
\* the latest state, whatever has been checkpointed of it.
Fail ==
  /\ \/ proc.pc = "running" /\ ~ AtEnd /\ ~ Suspends
     \/ proc.pc = "recorded"
  /\ faults < MaxFaults
  /\ faults' = faults + 1
  /\ record' = [record EXCEPT !.status = "failed", !.state = proc.state]
  /\ ahead' = (ahead \/ kept < Len(trail))
  /\ SetProc(NoProc)
  /\ UNCHANGED <<document, interval, trail, kept>>

\* The runner has no more events: finish.
Finish ==
  /\ proc.pc = "running"
  /\ AtEnd
  /\ record' = [record EXCEPT !.status = "completed", !.state = proc.state]
  /\ SetProc(NoProc)
  /\ UNCHANGED <<document, interval, trail, kept, ahead, faults>>

\* The process dies.
Crash ==
  /\ proc.pc # "none"
  /\ faults < MaxFaults
  /\ faults' = faults + 1
  /\ SetProc(NoProc)
  /\ UNCHANGED <<document, interval, record, trail, kept, ahead>>

\* resume_at passes.
TimerElapses ==
  /\ record.timer = "future"
  /\ record' = [record EXCEPT !.timer = "past"]
  /\ UNCHANGED <<document, interval, proc, trail, kept, ahead, faults>>

Next ==
  \/ Start \/ Resume
  \/ RunUnit \/ Checkpoint \/ Advance
  \/ Suspend \/ Fail \/ Finish
  \/ Crash \/ TimerElapses

Spec == Init /\ [][Next]_vars

\* The operator resumes as long as there is something to resume, and a call
\* in progress goes on.
FairSpec ==
  /\ Spec
  /\ WF_vars(Start) /\ WF_vars(Resume) /\ WF_vars(TimerElapses)
  /\ WF_vars(RunUnit \/ Checkpoint \/ Advance \/ Suspend \/ Finish)

-----------------------------------------------------------------------------
(* Properties *)

\* Documents whose tasks run in the order of the list, each once.
Sequential ==
  \A k \in DOMAIN document :
    /\ document[k].kind \in {"step", "wait", "do"}
    /\ document[k].then = "continue"

\* Unit v may come right after unit u in an uninterrupted run.
Follows(u, v) ==
  \E k \in DOMAIN document :
    \E units \in UnitOrders(document[k]) :
      \/ \E j \in 1..(Len(units) - 1) : units[j] = u /\ units[j + 1] = v
      \/ /\ u = units[Len(units)]
         /\ \E next \in Successors(document, k) \intersect DOMAIN document :
              \E after \in UnitOrders(document[next]) : v = after[1]

\* The units that an uninterrupted run may begin with.
First(u) == \E units \in UnitOrders(document[1]) : u = units[1]

\* configuration.md:113: a resumed run goes on after the last checkpointed
\* task.  Whatever the crashes, failures and suspensions, the units whose
\* effects a run has kept are those of an uninterrupted run of its document.
ResumesAfterCheckpoint ==
  /\ trail # <<>> => First(trail[1])
  /\ \A k \in 1..(Len(trail) - 1) : Follows(trail[k], trail[k + 1])

\* The same, for the documents that position-based slicing is right for.
SequentialRunsInOrder == Sequential => ResumesAfterCheckpoint

Waits == {document[k].name : k \in {j \in DOMAIN document : document[j].kind = "wait"}}

\* No other unit has the name of a wait.
WaitsNamedApart ==
  \A k \in DOMAIN document :
    /\ document[k].kind # "wait" => document[k].name \notin Waits
    /\ \A i \in DOMAIN document[k].body : document[k].body[i] \notin Waits

\* state holds the units of s that are no waits, in their order: the n-th of
\* them is the n-th of state.
Rank(s, i) == Cardinality({j \in 1..i : s[j] \notin Waits})
Merges(state, s) ==
  /\ Len(state) = Rank(s, Len(s))
  /\ \A i \in DOMAIN s : s[i] \notin Waits => state[Rank(s, i)] = s[i]

\* The in-memory state of a run, resumed or not, has merged exactly the units
\* that the run has kept, in their order: a task that ran again after a
\* crash counts once.  Units are told by their names, of which waits have
\* their own.  A failure recorded between two checkpoints breaks it: finish
\* overwrites the checkpointed state with a later one.
StateIsTrail ==
  Sequential /\ WaitsNamedApart /\ ~ ahead /\ proc.pc # "none" => Merges(proc.state, trail)

\* A run is completed only by the last task of its document: neither a
\* crash nor a suspension lets it skip the rest.
CompletedIsComplete ==
  Sequential /\ document # <<>> /\ record.status = "completed" =>
    trail # <<>> /\ trail[Len(trail)] = document[Len(document)].name

\* However often it crashes, fails or suspends, a run whose operator resumes
\* it completes in the end.
ResumedRunsComplete == Sequential ~> record.status = "completed"

=============================================================================
