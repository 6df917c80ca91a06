------------------------ MODULE ResumableRun_proofs ------------------------
(***************************************************************************)
(* Theorems about ResumableRun, for every set of documents, every          *)
(* checkpoint interval, any number of faults and any length of a run.      *)
(***************************************************************************)
EXTENDS ResumableRun, FiniteSetTheorems, SequenceTheorems, TLAPS

-----------------------------------------------------------------------------
(* The inductive invariant *)

ProcType ==
  [pc : {"none", "running", "recorded"}, items : Seq(ItemType), at : Nat,
   units : Seq(TaskName), state : Seq(STRING), events : Nat, resumed : BOOLEAN]

Types ==
  /\ document \in Documents /\ interval \in Intervals
  /\ record \in Record
  /\ proc \in ProcType
  /\ proc.pc # "none" => proc.at \in 1..(Len(proc.items) + 1)
  /\ proc.pc = "recorded" => proc.units # <<>> /\ proc.at \in DOMAIN proc.items
  /\ trail \in Seq(TaskName) /\ kept \in 0..Len(trail)
  /\ ahead \in BOOLEAN /\ faults \in 0..MaxFaults

\* All units of the task at position p of a sequential document.
Whole(p) == document[p].body \o <<document[p].name>>

\* The last unit of the trail is the one that comes before the unit m + 1 of
\* the task at position p.
Before(p, m) ==
  IF m > 0 THEN trail # <<>> /\ trail[Len(trail)] = Whole(p)[m]
  ELSE IF p = 1 THEN trail = <<>>
  ELSE trail # <<>> /\ trail[Len(trail)] = document[p - 1].name

\* The task list in execution from its current item on is the document from
\* position p on, and m units of that task have completed.
Place(p, m) ==
  /\ Len(proc.items) + p = Len(document) + proc.at
  /\ \A j \in 1..(Len(document) - p) : proc.items[proc.at + j] = document[p + j]
  /\ p > Len(document) => m = 0 /\ proc.units = <<>>
  /\ proc.pc = "recorded" => m < Len(Whole(p)) /\ document[p].kind # "wait"
  /\ p <= Len(document) =>
       /\ proc.items[proc.at].name = document[p].name
       /\ proc.items[proc.at].kind = document[p].kind
       /\ proc.items[proc.at].then = document[p].then
       /\ m <= Len(Whole(p))
       /\ proc.units = SubSeq(Whole(p), m + 1, Len(Whole(p)))
       /\ document[p].kind = "wait" => m = 0

ProcInv ==
  proc.pc # "none" =>
    \E p \in 1..(Len(document) + 1), m \in Nat :
      Place(p, m) /\ Before(p, IF proc.pc = "recorded" THEN m + 1 ELSE m)

RecordInv ==
  /\ kept = 0 => record.checkpoint = NoTask
  /\ kept > 0 => record.checkpoint = trail[kept]
  /\ record.reason # "listen"
  /\ record.status = "absent" => trail = <<>> /\ proc.pc = "none"
  /\ record.status = "completed" =>
       /\ proc.pc = "none"
       /\ document # <<>> => trail # <<>> /\ trail[Len(trail)] = document[Len(document)].name

IInv == Types /\ (Sequential => ProcInv /\ RecordInv /\ ResumesAfterCheckpoint)

-----------------------------------------------------------------------------
(* First occurrences *)

\* A finite set of numbers that is not empty has a least element: among the
\* sets of the elements below one of them, take a minimal one.
LEMMA LeastExists ==
  ASSUME NEW S \in SUBSET Nat, IsFiniteSet(S), S # {}
  PROVE  \E v \in S : \A w \in S : v <= w
<1> DEFINE Below(v) == {w \in S : w < v}
           F == {U \in SUBSET S : \E v \in S : U = Below(v)}
<1>1. IsWellFoundedOn(StrictSubsetOrdering(S), SUBSET S)
  BY FS_StrictSubsetOrderingWellFounded, FS_FiniteSubsetsOfFinite
<1>2. F \subseteq SUBSET S /\ F # {}
  OBVIOUS
<1>3. PICK U \in F : \A V \in F : ~ (<<V, U>> \in StrictSubsetOrdering(S))
  <2> HIDE DEF F
  <2> QED BY <1>1, <1>2, WFMin
<1>4. PICK v \in S : U = Below(v)
  BY <1>3
<1>5. ASSUME NEW w \in S, w < v PROVE FALSE
  <2>1. Below(w) \in F /\ Below(w) \subseteq U
    <3>1. \A x \in S : x < w => x < v
      <4>1. w \in Nat /\ v \in Nat /\ \A x \in S : x \in Nat
        OBVIOUS
      <4> QED BY <1>5, <4>1
    <3>2. Below(w) \subseteq Below(v)
      BY <3>1
    <3>3. Below(w) \in SUBSET S
      OBVIOUS
    <3> QED BY <1>4, <3>2, <3>3
  <2>2. w \in U /\ w \notin Below(w)
    BY <1>4, <1>5
  <2>3. <<Below(w), U>> \in StrictSubsetOrdering(S)
    <3> HIDE DEF Below
    <3>1. Below(w) # U /\ U \in SUBSET S /\ Below(w) \in SUBSET S
      BY <1>3, <2>1, <2>2
    <3> QED BY <2>1, <3>1 DEF StrictSubsetOrdering
  <2> QED BY <1>3, <2>1, <2>3
<1> QED BY <1>5

\* What After leaves begins behind an occurrence of the name.
LEMMA AfterFirst ==
  ASSUME NEW names \in Seq(TaskName), NEW name, Has(names, name)
  PROVE  \E f \in 1..Len(names) :
           names[f] = name /\ After(names, name) = SubSeq(names, f + 1, Len(names))
<1> DEFINE P(k) == names[k] = name /\ \A j \in 1..(k - 1) : names[j] # name
           S == {k \in 1..Len(names) : names[k] = name}
           first == CHOOSE k \in DOMAIN names : P(k)
<1>1. S \in SUBSET Nat /\ IsFiniteSet(S) /\ S # {}
  <2>1. IsFiniteSet(1..Len(names))
    BY FS_Interval
  <2>2. IsFiniteSet(S)
    BY <2>1, FS_Subset
  <2> QED BY <2>2 DEF Has
<1>2. PICK v \in S : \A w \in S : v <= w
  <2> HIDE DEF S
  <2> QED BY <1>1, LeastExists
<1>3. v \in DOMAIN names /\ P(v)
  BY <1>2
<1>4. first \in DOMAIN names /\ P(first)
  <2> HIDE DEF P
  <2> QED BY <1>3
<1>5. After(names, name) = SubSeq(names, first + 1, Len(names))
  BY DEF After
<1>6. first \in 1..Len(names) /\ names[first] = name
  BY <1>4
<1> HIDE DEF first
<1> QED BY <1>5, <1>6

\* Slicing keeps what follows the first item that holds the name.
LEMMA SliceCases ==
  ASSUME NEW items \in Seq(ItemType), NEW name, Sliceable(items, name)
  PROVE  \E k \in 1..Len(items) :
           /\ Holds(items[k], name)
           /\ items[k].name = name => Slice(items, name) = SubSeq(items, k + 1, Len(items))
           /\ items[k].name # name =>
                Slice(items, name) = <<Remainder(items[k], name)>> \o SubSeq(items, k + 1, Len(items))
<1> DEFINE P(j) == Holds(items[j], name) /\ \A i \in 1..(j - 1) : ~ Holds(items[i], name)
           k == CHOOSE j \in DOMAIN items : P(j)
<1>1. k \in DOMAIN items /\ P(k)
  <2>1. \E j \in DOMAIN items : P(j)
    BY DEF Sliceable
  <2> HIDE DEF P
  <2> QED BY <2>1
<1>2. Slice(items, name) =
        IF items[k].name = name THEN SubSeq(items, k + 1, Len(items))
        ELSE <<Remainder(items[k], name)>> \o SubSeq(items, k + 1, Len(items))
  BY DEF Slice
<1>3. k \in 1..Len(items) /\ Holds(items[k], name)
  BY <1>1
<1> HIDE DEF k, P
<1> QED BY <1>2, <1>3

-----------------------------------------------------------------------------
(* Types of what the operators return *)

LEMMA SubSeqIn ==
  ASSUME NEW S, NEW s \in Seq(S), NEW m \in Nat \ {0}
  PROVE  /\ SubSeq(s, m, Len(s)) \in Seq(S)
         /\ \A n \in 0..Len(s) : SubSeq(s, 1, n) \in Seq(S)
OBVIOUS

LEMMA AfterType ==
  ASSUME NEW names \in Seq(TaskName), NEW name, Has(names, name)
  PROVE  After(names, name) \in Seq(TaskName)
<1>1. PICK f \in 1..Len(names) : After(names, name) = SubSeq(names, f + 1, Len(names))
  BY AfterFirst
<1>2. SubSeq(names, f + 1, Len(names)) \in Seq(TaskName)
  BY SubSeqIn
<1> QED BY <1>1, <1>2

LEMMA RemainderType ==
  ASSUME NEW item \in ItemType, NEW name, item.name # name, Holds(item, name)
  PROVE  Remainder(item, name) \in ItemType
<1>1. item.body \in Seq(TaskName)
  BY DEF ItemType
<1>2. After(item.body, name) \in Seq(TaskName)
  BY <1>1, AfterType DEF Holds
<1> QED BY <1>2 DEF Remainder, ItemType

LEMMA SliceType ==
  ASSUME NEW items \in Seq(ItemType), NEW name, Sliceable(items, name)
  PROVE  Slice(items, name) \in Seq(ItemType)
<1>1. PICK k \in 1..Len(items) :
        /\ Holds(items[k], name)
        /\ items[k].name = name => Slice(items, name) = SubSeq(items, k + 1, Len(items))
        /\ items[k].name # name =>
             Slice(items, name) = <<Remainder(items[k], name)>> \o SubSeq(items, k + 1, Len(items))
  BY SliceCases
<1>2. SubSeq(items, k + 1, Len(items)) \in Seq(ItemType)
  BY SubSeqIn
<1>3. items[k].name # name => <<Remainder(items[k], name)>> \in Seq(ItemType)
  <2>1. items[k].name # name => Remainder(items[k], name) \in ItemType
    BY <1>1, RemainderType
  <2> QED BY <2>1
<1> QED BY <1>1, <1>2, <1>3, ConcatProperties

LEMMA UnitOrdersType ==
  ASSUME NEW item \in ItemType, NEW units \in UnitOrders(item)
  PROVE  units \in Seq(TaskName)
<1>1. /\ item.body \in Seq(TaskName) /\ item.handler \in Seq(TaskName)
      /\ item.name \in TaskName /\ <<item.name>> \in Seq(TaskName)
  BY DEF ItemType
<1>2. item.body \o <<item.name>> \in Seq(TaskName)
  BY <1>1, ConcatProperties
<1>3. item.body \o item.body \in Seq(TaskName)
  BY <1>1, ConcatProperties
<1>4. item.body \o item.body \o <<item.name>> \in Seq(TaskName)
  BY <1>1, <1>3, ConcatProperties
<1>5. Orders(item.body) \subseteq Seq(TaskName)
  BY <1>1 DEF Orders
<1>6. ASSUME NEW k \in 0..(Len(item.body) - 1)
      PROVE  SubSeq(item.body, 1, k) \o item.handler \o <<item.name>> \in Seq(TaskName)
  <2>1. SubSeq(item.body, 1, k) \in Seq(TaskName)
    BY <1>1, SubSeqIn
  <2>2. SubSeq(item.body, 1, k) \o item.handler \in Seq(TaskName)
    BY <1>1, <2>1, ConcatProperties
  <2> QED BY <1>1, <2>2, ConcatProperties
<1>7. item.kind \in Kinds
  BY DEF ItemType
<1> QED BY <1>1, <1>2, <1>4, <1>5, <1>6, <1>7 DEF UnitOrders, Kinds

LEMMA UnitsAtType ==
  ASSUME NEW items \in Seq(ItemType), NEW k \in Nat, NEW units \in UnitsAt(items, k)
  PROVE  units \in Seq(TaskName)
<1>1. CASE k \in DOMAIN items
  <2>1. items[k] \in ItemType
    BY <1>1
  <2> QED BY <1>1, <2>1, UnitOrdersType DEF UnitsAt
<1>2. CASE k \notin DOMAIN items
  BY <1>2 DEF UnitsAt
<1> QED BY <1>1, <1>2

LEMMA SuccessorsType ==
  ASSUME NEW items \in Seq(ItemType), NEW k \in 1..Len(items)
  PROVE  Successors(items, k) \subseteq 1..(Len(items) + 1)
<1> DEFINE item == items[k]
           named == UNION {Named(items, name) : name \in item.routes \union {item.default}}
<1>1. \A name : Named(items, name) \subseteq 1..(Len(items) + 1)
  BY DEF Named
<1>2. {k + 1, Len(items) + 1} \subseteq 1..(Len(items) + 1)
  OBVIOUS
<1>3. named \subseteq 1..(Len(items) + 1)
  BY <1>1
<1>4. CASE item.kind = "switch"
  <2>1. Successors(items, k) =
          named \union (IF Named(items, item.default) = {} THEN {Len(items) + 1} ELSE {})
    BY <1>4, Zenon DEF Successors
  <2> HIDE DEF named
  <2> QED BY <1>2, <1>3, <2>1
<1>5. CASE item.kind # "switch" /\ item.then \in Jumps
  <2>1. Successors(items, k) \subseteq {k + 1, Len(items) + 1}
    BY <1>5 DEF Successors
  <2> QED BY <1>2, <2>1
<1>6. CASE item.kind # "switch" /\ item.then \notin Jumps
  <2>1. Successors(items, k) = Named(items, item.then)
    BY <1>6 DEF Successors
  <2> QED BY <1>1, <2>1
<1> QED BY <1>4, <1>5, <1>6

-----------------------------------------------------------------------------
(* Type correctness *)

LEMMA DocumentType ==
  ASSUME document \in Documents
  PROVE  document \in Seq(ItemType)
BY DocumentsAssumption

LEMMA BeginType ==
  ASSUME NEW items \in Seq(ItemType), NEW state \in Seq(STRING), NEW b \in BOOLEAN,
         Begin(items, state, b)
  PROVE  /\ proc' \in ProcType /\ proc'.pc = "running"
         /\ proc'.at \in 1..(Len(proc'.items) + 1)
<1>1. PICK units \in UnitsAt(items, 1) :
        proc' = [pc |-> "running", items |-> items, at |-> 1, units |-> units,
                 state |-> state, events |-> 0, resumed |-> b]
  BY DEF Begin, SetProc
<1>2. units \in Seq(TaskName)
  BY UnitsAtType
<1> QED BY <1>1, <1>2 DEF ProcType

LEMMA EmptyIn == \A S : <<>> \in Seq(S)
OBVIOUS

LEMMA NoProcType == NoProc \in ProcType /\ NoProc.pc = "none"
BY EmptyIn DEF NoProc, ProcType

LEMMA TypesInit ==
  ASSUME Init
  PROVE  Types
<1>1. record \in Record
  <2>1. NoTask \in TaskName \union {NoTask} /\ <<>> \in Seq(STRING)
    BY EmptyIn
  <2>2. record = [status |-> "absent", checkpoint |-> NoTask, state |-> <<>>,
                  timer |-> "none", reason |-> "none"]
    BY DEF Init
  <2> QED BY <2>1, <2>2 DEF Record
<1>2. trail \in Seq(TaskName) /\ kept \in 0..Len(trail)
  BY DEF Init
<1>3. proc \in ProcType /\ proc.pc = "none"
  BY NoProcType DEF Init
<1>4. document \in Documents /\ interval \in Intervals /\ ahead \in BOOLEAN /\ faults \in 0..MaxFaults
  <2>1. document \in Documents /\ interval \in Intervals /\ ahead = FALSE /\ faults = 0
    BY DEF Init
  <2>2. ahead \in BOOLEAN
    BY <2>1, Zenon
  <2>3. faults \in 0..MaxFaults
    BY <2>1, BoundsAssumption
  <2> QED BY <2>1, <2>2, <2>3
<1> QED BY <1>1, <1>2, <1>3, <1>4 DEF Types

LEMMA TypesNext ==
  ASSUME Types, [Next]_vars
  PROVE  Types'
<1> USE DEF SetProc
<1>1. /\ document \in Seq(ItemType) /\ proc \in ProcType /\ record \in Record
      /\ trail \in Seq(TaskName) /\ kept \in 0..Len(trail)
      /\ NoProc \in ProcType /\ NoProc.pc = "none"
  BY DocumentType, NoProcType DEF Types
<1>2. /\ proc.items \in Seq(ItemType) /\ proc.units \in Seq(TaskName)
      /\ proc.state \in Seq(STRING) /\ proc.at \in Nat /\ proc.events \in Nat
      /\ record.state \in Seq(STRING)
  BY <1>1 DEF ProcType, Record
<1>3. CASE Start
  <2>1. proc' \in ProcType /\ proc'.pc = "running" /\ proc'.at \in 1..(Len(proc'.items) + 1)
    BY <1>1, <1>3, EmptyIn, BeginType DEF Start
  <2>2. record' \in Record
    BY <1>1, <1>3 DEF Start, Record
  <2> QED BY <1>3, <2>1, <2>2 DEF Start, Types
<1>4. CASE Resume
  <2>1. proc' \in ProcType /\ proc'.pc = "running" /\ proc'.at \in 1..(Len(proc'.items) + 1)
    <3>1. CASE record.checkpoint = NoTask
      BY <1>1, <1>4, <3>1, EmptyIn, BeginType DEF Resume
    <3>2. CASE record.checkpoint # NoTask
      <4>1. Sliceable(document, record.checkpoint) /\ Begin(ResumedItems, record.state, TRUE)
        BY <1>4, <3>2 DEF Resume, ResumedState
      <4>2. ResumedItems \in Seq(ItemType)
        BY <1>1, <4>1, SliceType DEF ResumedItems
      <4> QED BY <1>2, <4>1, <4>2, BeginType
    <3> QED BY <3>1, <3>2
  <2>2. trail' = SubSeq(trail, 1, kept) /\ kept' = kept
    BY <1>4 DEF Resume
  <2>3. trail' \in Seq(TaskName) /\ kept' \in 0..Len(trail')
    BY <1>1, <2>2
  <2> QED BY <1>4, <2>1, <2>3 DEF Resume, Types
<1>5. CASE RunUnit
  <2>1. Head(proc.units) \in TaskName /\ Head(proc.units) \in STRING
    BY <1>2, <1>5 DEF RunUnit, TaskName
  <2>2. proc' \in ProcType
    <3>1. Append(proc.state, Head(proc.units)) \in Seq(STRING)
      BY <1>2, <2>1
    <3>2. proc.events + 1 \in Nat
      BY <1>2
    <3>3. proc' = [proc EXCEPT !.pc = "recorded", !.state = Append(proc.state, Head(proc.units)),
                               !.events = proc.events + 1]
      BY <1>5 DEF RunUnit
    <3> QED BY <1>1, <3>1, <3>2, <3>3 DEF ProcType
  <2>3. /\ proc'.pc = "recorded" /\ proc'.items = proc.items
        /\ proc'.at = proc.at /\ proc'.units = proc.units
    BY <1>1, <1>5 DEF RunUnit, ProcType
  <2>4. trail' \in Seq(TaskName) /\ kept' \in 0..Len(trail')
    BY <1>1, <1>5, <2>1 DEF RunUnit
  <2>5. proc.at \in DOMAIN proc.items /\ proc.units # <<>>
    BY <1>2, <1>5 DEF RunUnit, Types, AtEnd
  <2> QED BY <1>5, <2>2, <2>3, <2>4, <2>5 DEF RunUnit, Types
<1>6. CASE Checkpoint
  <2>1. proc.units # <<>> /\ proc.at \in 1..(Len(proc.items) + 1)
    BY <1>6 DEF Checkpoint, Types
  <2>2. Head(proc.units) \in TaskName /\ Tail(proc.units) \in Seq(TaskName)
    BY <1>2, <2>1
  <2>3. record' \in Record /\ kept' \in 0..Len(trail)
    <3>1. CheckpointedRecord \in Record
      BY <1>1, <1>2, <2>2 DEF CheckpointedRecord, Record
    <3> QED BY <1>1, <1>6, <3>1 DEF Checkpoint
  <2>4. proc' \in ProcType
    BY <1>1, <1>6, <2>2 DEF Checkpoint, ProcType
  <2>5. proc'.pc = "running" /\ proc'.items = proc.items /\ proc'.at = proc.at
    BY <1>1, <1>6 DEF Checkpoint, ProcType
  <2> QED BY <1>6, <2>1, <2>3, <2>4, <2>5 DEF Checkpoint, Types
<1>7. CASE Advance
  <2>1. proc.at \in 1..Len(proc.items)
    BY <1>2, <1>7 DEF Advance, AtEnd, Types
  <2>7. PICK k \in Successors(proc.items, proc.at) :
          \E units \in UnitsAt(proc.items, k) : proc' = [proc EXCEPT !.at = k, !.units = units]
    BY <1>7 DEF Advance
  <2>2. PICK units \in UnitsAt(proc.items, k) : proc' = [proc EXCEPT !.at = k, !.units = units]
    BY <2>7
  <2>3. k \in 1..(Len(proc.items) + 1)
    BY <1>2, <2>1, SuccessorsType
  <2>4. units \in Seq(TaskName)
    BY <1>2, <2>3, UnitsAtType
  <2>5. proc' \in ProcType
    <3>1. k \in Nat
      BY <1>2, <2>3
    <3> QED BY <1>1, <2>2, <2>4, <3>1 DEF ProcType
  <2>6. proc'.at = k /\ proc'.items = proc.items /\ proc'.pc = "running"
    BY <1>1, <1>7, <2>2 DEF Advance, ProcType
  <2> QED BY <1>7, <2>3, <2>5, <2>6 DEF Advance, Types
<1>8. CASE Suspend
  <2>1. proc.at \in 1..Len(proc.items)
    BY <1>2, <1>8 DEF Suspend, Suspends, AtEnd, Types
  <2>2. Current.name \in TaskName /\ Current.name \in STRING
    <3>1. proc.items[proc.at] \in ItemType
      BY <1>2, <2>1
    <3> QED BY <3>1 DEF Current, ItemType, TaskName
  <2>3. record' \in Record
    BY <1>1, <1>2, <1>8, <2>2 DEF Suspend, SuspendedRecord, Record
  <2>4. trail' \in Seq(TaskName) /\ kept' \in 0..Len(trail')
    BY <1>1, <1>8, <2>2 DEF Suspend
  <2> QED BY <1>1, <1>8, <2>3, <2>4 DEF Suspend, Types
<1>9. CASE Fail
  <2>1. record' \in Record
    BY <1>1, <1>2, <1>9 DEF Fail, Record
  <2>2. faults' \in 0..MaxFaults /\ ahead' \in BOOLEAN
    BY <1>9, BoundsAssumption DEF Fail, Types
  <2> QED BY <1>1, <1>9, <2>1, <2>2 DEF Fail, Types
<1>10. CASE Finish
  <2>1. record' \in Record
    BY <1>1, <1>2, <1>10 DEF Finish, Record
  <2> QED BY <1>1, <1>10, <2>1 DEF Finish, Types
<1>11. CASE Crash
  <2>1. faults' \in 0..MaxFaults
    BY <1>11, BoundsAssumption DEF Crash, Types
  <2> QED BY <1>1, <1>11, <2>1 DEF Crash, Types
<1>12. CASE TimerElapses
  <2>1. record' \in Record
    BY <1>1, <1>12 DEF TimerElapses, Record
  <2> QED BY <1>12, <2>1 DEF TimerElapses, Types
<1>13. CASE UNCHANGED vars
  BY <1>13 DEF vars, Types
<1> QED BY <1>3, <1>4, <1>5, <1>6, <1>7, <1>8, <1>9, <1>10, <1>11, <1>12, <1>13 DEF Next

-----------------------------------------------------------------------------
(* Sequential documents *)

LEMMA WholeFacts ==
  ASSUME document \in Documents, Sequential, NEW p \in 1..Len(document)
  PROVE  /\ document[p] \in ItemType
         /\ document[p].body \in Seq(TaskName) /\ document[p].handler = <<>>
         /\ document[p].kind \in {"step", "wait", "do"} /\ document[p].then = "continue"
         /\ document[p].kind # "do" => document[p].body = <<>>
         /\ Whole(p) \in Seq(TaskName) /\ Len(Whole(p)) = Len(document[p].body) + 1
         /\ Whole(p)[Len(Whole(p))] = document[p].name
         /\ \A i \in 1..Len(document[p].body) : Whole(p)[i] = document[p].body[i]
         /\ UnitOrders(document[p]) = {Whole(p)}
<1>1. document[p] \in ItemType /\ p \in DOMAIN document
  BY DocumentType
<1>2. document[p].body \in Seq(TaskName) /\ document[p].name \in TaskName
  BY <1>1 DEF ItemType
<1>3. document[p].kind \in {"step", "wait", "do"} /\ document[p].then = "continue"
  BY <1>1 DEF Sequential
<1>4. /\ document[p].handler = <<>>
      /\ document[p].kind # "do" => document[p].body = <<>>
  BY <1>1, <1>3, DocumentsAssumption
<1>5. <<document[p].name>> \in Seq(TaskName) /\ Len(<<document[p].name>>) = 1
      /\ <<document[p].name>>[1] = document[p].name
  BY <1>2
<1>6. /\ Whole(p) \in Seq(TaskName) /\ Len(Whole(p)) = Len(document[p].body) + 1
      /\ Whole(p)[Len(Whole(p))] = document[p].name
      /\ \A i \in 1..Len(document[p].body) : Whole(p)[i] = document[p].body[i]
  BY <1>2, <1>5, ConcatProperties DEF Whole
<1>7. UnitOrders(document[p]) = {Whole(p)}
  <2>1. CASE document[p].kind = "do"
    BY <2>1 DEF UnitOrders, Whole
  <2>2. CASE document[p].kind # "do"
    <3>1. Whole(p) = <<document[p].name>>
      BY <1>4, <1>5, <2>2, ConcatEmptySeq DEF Whole
    <3> QED BY <1>3, <2>2, <3>1 DEF UnitOrders
  <2> QED BY <2>1, <2>2
<1> QED BY <1>1, <1>2, <1>3, <1>4, <1>6, <1>7

LEMMA GoesOn ==
  ASSUME NEW items, NEW k, items[k].kind \in {"step", "wait", "do"}, items[k].then = "continue"
  PROVE  Successors(items, k) = {k + 1}
<1>1. items[k].kind # "switch" /\ items[k].then \in Jumps
  BY DEF Jumps
<1>2. Successors(items, k) =
        {IF items[k].then = "continue" \/ Joins(items[k]) THEN k + 1 ELSE Len(items) + 1}
  BY <1>1, Zenon DEF Successors
<1> QED BY <1>2

LEMMA SuccessorInOrder ==
  ASSUME document \in Documents, Sequential, NEW p \in 1..Len(document)
  PROVE  Successors(document, p) = {p + 1}
BY WholeFacts, GoesOn

\* The next unit may come after the last one of the trail.
LEMMA Extended ==
  ASSUME Types, Sequential, ResumesAfterCheckpoint,
         NEW p \in 1..Len(document), NEW m \in 0..(Len(Whole(p)) - 1), Before(p, m),
         trail' = Append(trail, Whole(p)[m + 1]), document' = document
  PROVE  ResumesAfterCheckpoint'
<1> DEFINE u == Whole(p)[m + 1]
<1>1. /\ document \in Documents /\ trail \in Seq(TaskName) /\ p \in DOMAIN document
      /\ Whole(p) \in Seq(TaskName) /\ Whole(p) \in UnitOrders(document[p])
      /\ m \in Nat
  <2>1. document \in Documents /\ trail \in Seq(TaskName) /\ p \in DOMAIN document
    BY DocumentType DEF Types
  <2>2. Whole(p) \in Seq(TaskName) /\ UnitOrders(document[p]) = {Whole(p)}
    BY <2>1, WholeFacts
  <2> QED BY <2>1, <2>2
<1>2. u \in TaskName
  BY <1>1
<1>3. /\ Len(trail') = Len(trail) + 1 /\ trail'[Len(trail) + 1] = u
      /\ \A k \in 1..Len(trail) : trail'[k] = trail[k]
  BY <1>1, <1>2
<1>4. trail = <<>> => First(u)
  <2>1. SUFFICES ASSUME trail = <<>> PROVE First(u)
    OBVIOUS
  <2>2. m = 0 /\ p = 1
    BY <2>1 DEF Before
  <2> QED BY <1>1, <2>2 DEF First
<1>5. trail # <<>> => Follows(trail[Len(trail)], u)
  <2>1. SUFFICES ASSUME trail # <<>> PROVE Follows(trail[Len(trail)], u)
    OBVIOUS
  <2>2. CASE m > 0
    <3>1. m \in 1..(Len(Whole(p)) - 1) /\ trail[Len(trail)] = Whole(p)[m]
      BY <1>1, <2>2 DEF Before
    <3> HIDE DEF u
    <3>2. u = Whole(p)[m + 1]
      BY DEF u
    <3> QED BY <1>1, <3>1, <3>2 DEF Follows
  <2>3. CASE m = 0
    <3>1. p # 1 /\ trail[Len(trail)] = document[p - 1].name
      BY <2>1, <2>3 DEF Before
    <3>2. p - 1 \in 1..Len(document) /\ p - 1 \in DOMAIN document
      BY <1>1, <3>1, DocumentType
    <3>3. /\ Whole(p - 1) \in UnitOrders(document[p - 1])
          /\ trail[Len(trail)] = Whole(p - 1)[Len(Whole(p - 1))]
      BY <1>1, <3>1, <3>2, WholeFacts
    <3>4. p \in Successors(document, p - 1)
      BY <1>1, <3>2, SuccessorInOrder
    <3>5. u = Whole(p)[1]
      BY <2>3
    <3> HIDE DEF u
    <3>6. \E next \in Successors(document, p - 1) \intersect DOMAIN document :
             \E after \in UnitOrders(document[next]) : u = after[1]
      BY <1>1, <3>4, <3>5
    <3> QED BY <3>2, <3>3, <3>6 DEF Follows
  <2> QED BY <1>1, <2>2, <2>3
<1> HIDE DEF u
<1>6. \A v, w : Follows(v, w)' <=> Follows(v, w)
  BY DEF Follows
<1>7. \A v : First(v)' <=> First(v)
  BY DEF First
<1>8. First(trail'[1])
  <2>1. CASE trail = <<>>
    BY <1>3, <1>4, <2>1
  <2>2. CASE trail # <<>>
    BY <1>1, <1>3, <2>2 DEF ResumesAfterCheckpoint
  <2> QED BY <2>1, <2>2
<1>9. ASSUME NEW k \in 1..(Len(trail') - 1) PROVE Follows(trail'[k], trail'[k + 1])
  <2>1. CASE k = Len(trail)
    <3>1. trail # <<>> /\ trail'[k] = trail[Len(trail)] /\ trail'[k + 1] = u
      BY <1>1, <1>3, <1>9, <2>1
    <3> QED BY <1>5, <3>1
  <2>2. CASE k # Len(trail)
    <3>1. k \in 1..(Len(trail) - 1) /\ trail'[k] = trail[k] /\ trail'[k + 1] = trail[k + 1]
      BY <1>1, <1>3, <1>9, <2>2
    <3> QED BY <3>1 DEF ResumesAfterCheckpoint
  <2> QED BY <2>1, <2>2
<1> QED BY <1>6, <1>7, <1>8, <1>9 DEF ResumesAfterCheckpoint

-----------------------------------------------------------------------------
(* The steps of sequential documents *)

\* Where a call begins: at position p, of which m units are done.
LEMMA BeginPlaces ==
  ASSUME document \in Documents, Sequential, document' = document,
         NEW items \in Seq(ItemType), NEW state, NEW b, Begin(items, state, b),
         NEW p \in 1..(Len(document) + 1), NEW m \in Nat,
         Len(items) + p = Len(document) + 1,
         \A j \in 1..(Len(document) - p) : items[1 + j] = document[p + j],
         p > Len(document) => m = 0,
         p <= Len(document) =>
           /\ items[1].name = document[p].name /\ items[1].kind = document[p].kind
           /\ items[1].then = document[p].then
           /\ m <= Len(Whole(p)) /\ (document[p].kind = "wait" => m = 0)
           /\ UnitOrders(items[1]) = {SubSeq(Whole(p), m + 1, Len(Whole(p)))}
  PROVE  Place(p, m)'
<1>1. PICK units \in UnitsAt(items, 1) :
        proc' = [pc |-> "running", items |-> items, at |-> 1, units |-> units,
                 state |-> state, events |-> 0, resumed |-> b]
  BY DEF Begin, SetProc
<1>2. /\ proc'.pc = "running" /\ proc'.items = items /\ proc'.at = 1 /\ proc'.units = units
  BY <1>1
<1>3. document \in Seq(ItemType)
  BY DocumentType
<1>4. p <= Len(document) => units = SubSeq(Whole(p), m + 1, Len(Whole(p)))
  <2>1. p <= Len(document) => 1 \in DOMAIN items
    BY <1>3
  <2> QED BY <1>1, <2>1 DEF UnitsAt
<1>5. p > Len(document) => units = <<>>
  <2>1. p > Len(document) => 1 \notin DOMAIN items
    BY <1>3
  <2> QED BY <1>1, <2>1 DEF UnitsAt
<1>6. Whole(p)' = Whole(p)
  BY DEF Whole
<1> QED BY <1>2, <1>4, <1>5, <1>6 DEF Place

\* The invariant of a call whose position is known.
LEMMA Placed ==
  ASSUME document' = document, NEW p \in 1..(Len(document) + 1), NEW m \in Nat,
         Place(p, m)', Before(p, IF proc.pc = "recorded" THEN m + 1 ELSE m)'
  PROVE  ProcInv'
BY DEF ProcInv

LEMMA SameProc ==
  ASSUME document' = document, proc' = proc, trail' = trail, ProcInv
  PROVE  ProcInv'
<1>1. \A p : Whole(p)' = Whole(p)
  BY DEF Whole
<1>2. CASE proc.pc = "none"
  BY <1>2 DEF ProcInv
<1>3. CASE proc.pc # "none"
  <2>1. PICK p \in 1..(Len(document) + 1), m \in Nat :
          Place(p, m) /\ Before(p, IF proc.pc = "recorded" THEN m + 1 ELSE m)
    BY <1>3 DEF ProcInv
  <2>2. Place(p, m)'
    BY <1>1, <2>1 DEF Place
  <2>3. Before(p, IF proc.pc = "recorded" THEN m + 1 ELSE m)'
    BY <1>1, <2>1 DEF Before
  <2> QED BY <2>1, <2>2, <2>3, Placed
<1> QED BY <1>2, <1>3

LEMMA CutTail ==
  ASSUME NEW body \in Seq(TaskName), NEW name \in TaskName, NEW f \in 1..Len(body)
  PROVE  SubSeq(body, f + 1, Len(body)) \o <<name>> =
           SubSeq(body \o <<name>>, f + 1, Len(body \o <<name>>))
<1> DEFINE one == <<name>>
           w == body \o one
           t == SubSeq(body, f + 1, Len(body))
           s == SubSeq(w, f + 1, Len(w))
           u == t \o one
<1>1. one \in Seq(TaskName) /\ Len(one) = 1 /\ one[1] = name
  OBVIOUS
<1>2. /\ t \in Seq(TaskName) /\ Len(t) = Len(body) - f
      /\ \A i \in 1..(Len(body) - f) : t[i] = body[f + i]
  OBVIOUS
<1> HIDE DEF one, t
<1>3. /\ w \in Seq(TaskName) /\ Len(w) = Len(body) + 1
      /\ \A i \in 1..(Len(body) + 1) : w[i] = IF i <= Len(body) THEN body[i] ELSE one[i - Len(body)]
  <2>1. /\ w \in Seq(TaskName) /\ Len(w) = Len(body) + Len(one)
        /\ \A i \in 1..(Len(body) + Len(one)) :
             w[i] = IF i <= Len(body) THEN body[i] ELSE one[i - Len(body)]
    BY <1>1, ConcatProperties
  <2> QED BY <1>1, <2>1
<1>4. /\ u \in Seq(TaskName) /\ Len(u) = Len(t) + 1
      /\ \A i \in 1..(Len(t) + 1) : u[i] = IF i <= Len(t) THEN t[i] ELSE one[i - Len(t)]
  <2>1. /\ u \in Seq(TaskName) /\ Len(u) = Len(t) + Len(one)
        /\ \A i \in 1..(Len(t) + Len(one)) : u[i] = IF i <= Len(t) THEN t[i] ELSE one[i - Len(t)]
    BY <1>1, <1>2, ConcatProperties
  <2> QED BY <1>1, <2>1
<1> HIDE DEF w, u
<1>5. /\ s \in Seq(TaskName) /\ Len(s) = Len(body) + 1 - f
      /\ \A i \in 1..(Len(body) + 1 - f) : s[i] = w[f + i]
  BY <1>3
<1> HIDE DEF s
<1>6. ASSUME NEW i \in 1..(Len(body) - f + 1) PROVE u[i] = s[i]
  <2>1. CASE i <= Len(body) - f
    BY <1>2, <1>3, <1>4, <1>5, <2>1
  <2>2. CASE i = Len(body) - f + 1
    BY <1>1, <1>2, <1>3, <1>4, <1>5, <2>2, SMTT(30)
  <2> QED BY <2>1, <2>2
<1>7. Len(u) = Len(s) /\ \A i \in 1..Len(u) : u[i] = s[i]
  BY <1>2, <1>4, <1>5, <1>6
<1>8. u = s
  BY <1>4, <1>5, <1>7, SeqEqual
<1> QED BY <1>8 DEF t, s, w, u, one

\* Slicing a sequential document at the name of a unit leaves what an
\* uninterrupted run has left after this unit.
LEMMA SlicedPlace ==
  ASSUME document \in Documents, Sequential, document' = document,
         NEW name \in TaskName, Sliceable(document, name),
         NEW state, NEW b, Begin(Slice(document, name), state, b),
         trail' # <<>>, trail'[Len(trail')] = name
  PROVE  \E p \in 1..(Len(document) + 1), m \in Nat : Place(p, m)' /\ Before(p, m)'
<1>1. document \in Seq(ItemType) /\ Slice(document, name) \in Seq(ItemType)
  BY DocumentType, SliceType
<1>2. PICK k \in 1..Len(document) :
        /\ Holds(document[k], name)
        /\ document[k].name = name =>
             Slice(document, name) = SubSeq(document, k + 1, Len(document))
        /\ document[k].name # name =>
             Slice(document, name) =
               <<Remainder(document[k], name)>> \o SubSeq(document, k + 1, Len(document))
  BY <1>1, SliceCases
<1> DEFINE items == Slice(document, name)
           rest == SubSeq(document, k + 1, Len(document))
<1>3. /\ rest \in Seq(ItemType) /\ Len(rest) = Len(document) - k
      /\ \A j \in 1..(Len(document) - k) : rest[j] = document[k + j]
  BY <1>1
<1>4. CASE document[k].name = name
  <2>1. items = rest
    BY <1>2, <1>4
  <2> HIDE DEF rest, items
  <2>2. k + 1 \in 1..(Len(document) + 1) /\ 0 \in Nat
    BY <1>1
  <2>3. /\ Len(items) + (k + 1) = Len(document) + 1
        /\ \A j \in 1..(Len(document) - (k + 1)) : items[1 + j] = document[k + 1 + j]
    BY <1>1, <1>3, <2>1
  <2>4. k + 1 <= Len(document) =>
          /\ items[1] = document[k + 1]
          /\ 0 <= Len(Whole(k + 1))
          /\ UnitOrders(items[1]) = {SubSeq(Whole(k + 1), 0 + 1, Len(Whole(k + 1)))}
    <3>1. SUFFICES ASSUME k + 1 <= Len(document)
          PROVE  /\ items[1] = document[k + 1] /\ 0 <= Len(Whole(k + 1))
                 /\ UnitOrders(items[1]) = {SubSeq(Whole(k + 1), 0 + 1, Len(Whole(k + 1)))}
      OBVIOUS
    <3>2. k + 1 \in 1..Len(document) /\ items[1] = document[k + 1]
      BY <1>1, <1>3, <2>1, <3>1
    <3>3. /\ UnitOrders(document[k + 1]) = {Whole(k + 1)}
          /\ Whole(k + 1) \in Seq(TaskName)
      BY <3>2, WholeFacts
    <3>4. SubSeq(Whole(k + 1), 0 + 1, Len(Whole(k + 1))) = Whole(k + 1)
      BY <3>3, SubSeqFull
    <3> QED BY <3>2, <3>3, <3>4
  <2>5. Begin(items, state, b) /\ items \in Seq(ItemType)
    BY <1>1 DEF items
  <2>6. Place(k + 1, 0)'
    BY <2>2, <2>3, <2>4, <2>5, BeginPlaces
  <2>7. Before(k + 1, 0)'
    BY <1>4, <2>2 DEF Before
  <2> QED BY <2>2, <2>6, <2>7
<1>5. CASE document[k].name # name
  <2>1. /\ document[k] \in ItemType /\ document[k].body \in Seq(TaskName)
        /\ document[k].name \in TaskName /\ document[k].handler = <<>>
        /\ document[k].kind \in {"step", "wait", "do"}
        /\ document[k].kind # "do" => document[k].body = <<>>
        /\ Whole(k) \in Seq(TaskName) /\ Len(Whole(k)) = Len(document[k].body) + 1
        /\ \A i \in 1..Len(document[k].body) : Whole(k)[i] = document[k].body[i]
    BY WholeFacts DEF ItemType
  <2>2. Has(document[k].body, name)
    BY <1>2, <1>5, <2>1 DEF Holds, Has
  <2>3. document[k].kind = "do"
    BY <2>1, <2>2 DEF Has
  <2>4. PICK f \in 1..Len(document[k].body) :
          /\ document[k].body[f] = name
          /\ After(document[k].body, name) =
               SubSeq(document[k].body, f + 1, Len(document[k].body))
    <3> DEFINE body == document[k].body
    <3>1. body \in Seq(TaskName) /\ Has(body, name)
      BY <2>1, <2>2
    <3> HIDE DEF body
    <3>2. \E f \in 1..Len(body) :
            body[f] = name /\ After(body, name) = SubSeq(body, f + 1, Len(body))
      BY <3>1, AfterFirst
    <3> QED BY <3>2 DEF body
  <2> DEFINE head == Remainder(document[k], name)
  <2>5. /\ head \in ItemType /\ head.name = document[k].name /\ head.kind = "do"
        /\ head.then = document[k].then
        /\ head.body = SubSeq(document[k].body, f + 1, Len(document[k].body))
    <3>1. head \in ItemType
      BY <1>2, <1>5, <2>1, RemainderType
    <3>2. head = [document[k] EXCEPT !.body = SubSeq(document[k].body, f + 1, Len(document[k].body))]
      BY <2>2, <2>4 DEF Remainder
    <3> HIDE DEF head
    <3> QED BY <2>1, <2>3, <3>1, <3>2 DEF ItemType
  <2>6. UnitOrders(head) = {SubSeq(Whole(k), f + 1, Len(Whole(k)))}
    <3>1. UnitOrders(head) = {head.body \o <<head.name>>}
      BY <2>5 DEF UnitOrders
    <3>2. SubSeq(document[k].body, f + 1, Len(document[k].body)) \o <<document[k].name>> =
            SubSeq(document[k].body \o <<document[k].name>>, f + 1,
                   Len(document[k].body \o <<document[k].name>>))
      BY <2>1, CutTail
    <3> HIDE DEF head
    <3> QED BY <2>5, <3>1, <3>2 DEF Whole
  <2>7. items = <<head>> \o rest
    BY <1>2, <1>5
  <2> HIDE DEF items, head, rest
  <2>8. /\ Len(items) + k = Len(document) + 1 /\ items[1] = head
        /\ \A j \in 1..(Len(document) - k) : items[1 + j] = document[k + j]
    <3> DEFINE one == <<head>>
    <3>1. one \in Seq(ItemType) /\ Len(one) = 1 /\ one[1] = head /\ items = one \o rest
      BY <2>5, <2>7
    <3> HIDE DEF one
    <3>5. /\ Len(items) = Len(one) + Len(rest)
          /\ \A i \in 1..(Len(one) + Len(rest)) :
               items[i] = IF i <= Len(one) THEN one[i] ELSE rest[i - Len(one)]
      BY <1>3, <3>1, ConcatProperties
    <3>2. /\ Len(items) = 1 + (Len(document) - k)
          /\ \A i \in 1..(1 + (Len(document) - k)) :
               items[i] = IF i <= 1 THEN one[i] ELSE rest[i - 1]
      BY <1>3, <3>1, <3>5
    <3>3. Len(items) + k = Len(document) + 1 /\ items[1] = head
      BY <1>1, <3>1, <3>2, SMTT(30)
    <3>4. ASSUME NEW j \in 1..(Len(document) - k) PROVE items[1 + j] = document[k + j]
      <4>1. 1 + j \in 1..(1 + (Len(document) - k)) /\ ~ (1 + j <= 1) /\ (1 + j) - 1 = j
        BY <1>1
      <4>2. items[1 + j] = rest[j]
        BY <3>2, <4>1
      <4> QED BY <1>3, <4>2
    <3> QED BY <3>3, <3>4
  <2>9. Begin(items, state, b) /\ items \in Seq(ItemType)
    BY <1>1 DEF items
  <2>10. f \in Nat /\ k \in 1..(Len(document) + 1) /\ f <= Len(Whole(k)) /\ k <= Len(document)
    BY <1>1, <2>1
  <2>13. /\ items[1].name = document[k].name /\ items[1].kind = document[k].kind
         /\ items[1].then = document[k].then /\ document[k].kind # "wait"
         /\ UnitOrders(items[1]) = {SubSeq(Whole(k), f + 1, Len(Whole(k)))}
    BY <2>3, <2>5, <2>6, <2>8
  <2>11. Place(k, f)'
    <3>1. Len(document) \in Nat
      BY <1>1
    <3>2. k > Len(document) => f = 0
      BY <2>10, <3>1
    <3>3. k <= Len(document) =>
            /\ items[1].name = document[k].name /\ items[1].kind = document[k].kind
            /\ items[1].then = document[k].then
            /\ f <= Len(Whole(k)) /\ (document[k].kind = "wait" => f = 0)
            /\ UnitOrders(items[1]) = {SubSeq(Whole(k), f + 1, Len(Whole(k)))}
      BY <2>10, <2>13
    <3> QED BY <2>8, <2>9, <2>10, <3>2, <3>3, BeginPlaces
  <2>12. Before(k, f)'
    <3>1. Whole(k)' = Whole(k) /\ Whole(k)[f] = name /\ f > 0
      BY <2>1, <2>4 DEF Whole
    <3> QED BY <3>1 DEF Before
  <2> QED BY <2>10, <2>11, <2>12
<1> QED BY <1>4, <1>5

\* A call that begins with the document.
LEMMA FromStart ==
  ASSUME document \in Documents, Sequential, document' = document, trail' = <<>>,
         NEW state, NEW b, Begin(document, state, b)
  PROVE  ProcInv'
<1>1. document \in Seq(ItemType)
  BY DocumentType
<1>2. 1 \in 1..(Len(document) + 1) /\ 0 \in Nat
  BY <1>1
<1>3. 1 <= Len(document) =>
        /\ 0 <= Len(Whole(1))
        /\ UnitOrders(document[1]) = {SubSeq(Whole(1), 0 + 1, Len(Whole(1)))}
  <2>1. SUFFICES ASSUME 1 <= Len(document)
        PROVE  /\ 0 <= Len(Whole(1))
               /\ UnitOrders(document[1]) = {SubSeq(Whole(1), 0 + 1, Len(Whole(1)))}
    OBVIOUS
  <2>2. UnitOrders(document[1]) = {Whole(1)} /\ Whole(1) \in Seq(TaskName)
    <3>1. 1 \in 1..Len(document)
      BY <1>1, <2>1
    <3> QED BY <3>1, WholeFacts
  <2>3. SubSeq(Whole(1), 0 + 1, Len(Whole(1))) = Whole(1)
    BY <2>2, SubSeqFull
  <2> QED BY <2>2, <2>3
<1>4. Place(1, 0)'
  BY <1>1, <1>2, <1>3, BeginPlaces
<1>5. Before(1, 0)' /\ proc'.pc = "running"
  BY <1>2 DEF Before, Begin, SetProc
<1> QED BY <1>2, <1>4, <1>5, Placed

LEMMA RecordKept ==
  ASSUME Types, RecordInv, document' = document, record' = record, kept' = kept,
         proc.pc # "none", trail' = trail \/ \E u \in TaskName : trail' = Append(trail, u)
  PROVE  RecordInv'
<1>1. trail \in Seq(TaskName) /\ kept \in 0..Len(trail)
  BY DEF Types
<1>2. kept > 0 => trail'[kept] = trail[kept]
  BY <1>1
<1> QED BY <1>2 DEF RecordInv

LEMMA SameTrail ==
  ASSUME document' = document, trail' = trail, ResumesAfterCheckpoint
  PROVE  ResumesAfterCheckpoint'
<1>1. \A v, w : Follows(v, w)' <=> Follows(v, w)
  BY DEF Follows
<1>2. \A v : First(v)' <=> First(v)
  BY DEF First
<1> QED BY <1>1, <1>2 DEF ResumesAfterCheckpoint

LEMMA CutTrail ==
  ASSUME document' = document, trail \in Seq(TaskName), kept \in 0..Len(trail),
         trail' = SubSeq(trail, 1, kept), ResumesAfterCheckpoint
  PROVE  ResumesAfterCheckpoint'
<1>1. \A v, w : Follows(v, w)' <=> Follows(v, w)
  BY DEF Follows
<1>2. \A v : First(v)' <=> First(v)
  BY DEF First
<1>3. Len(trail') = kept /\ \A i \in 1..kept : trail'[i] = trail[i]
  OBVIOUS
<1>4. trail' # <<>> => trail # <<>> /\ trail'[1] = trail[1]
  BY <1>3
<1> QED BY <1>1, <1>2, <1>3, <1>4 DEF ResumesAfterCheckpoint

\* What the position says of a call at work on an item.
LEMMA AtWork ==
  ASSUME Types, Sequential, NEW p \in 1..(Len(document) + 1), NEW m \in Nat, Place(p, m),
         proc.at \in DOMAIN proc.items
  PROVE  /\ p \in 1..Len(document) /\ m \in 0..Len(Whole(p))
         /\ Current.name = document[p].name /\ Current.kind = document[p].kind
         /\ Current.then = document[p].then
         /\ proc.units = SubSeq(Whole(p), m + 1, Len(Whole(p)))
         /\ proc.units # <<>> <=> m < Len(Whole(p))
         /\ proc.units # <<>> => Head(proc.units) = Whole(p)[m + 1]
                                /\ Tail(proc.units) = SubSeq(Whole(p), m + 2, Len(Whole(p)))
<1>1. proc.items \in Seq(ItemType) /\ document \in Seq(ItemType) /\ document \in Documents
  BY DocumentType DEF Types, ProcType
<1>2. p \in 1..Len(document)
  BY <1>1 DEF Place
<1>3. /\ m \in 0..Len(Whole(p)) /\ Whole(p) \in Seq(TaskName)
      /\ proc.units = SubSeq(Whole(p), m + 1, Len(Whole(p)))
      /\ Current.name = document[p].name /\ Current.kind = document[p].kind
      /\ Current.then = document[p].then
  BY <1>1, <1>2, WholeFacts DEF Place, Current
<1>4. CASE m = Len(Whole(p))
  BY <1>2, <1>3, <1>4, SubSeqEmpty
<1>5. CASE m < Len(Whole(p))
  <2> DEFINE whole == Whole(p)
  <2>1. /\ whole \in Seq(TaskName) /\ m + 1 \in 1..Len(whole) /\ Len(whole) \in (m + 1)..Len(whole)
        /\ proc.units = SubSeq(whole, m + 1, Len(whole))
    BY <1>3, <1>5
  <2> HIDE DEF whole
  <2>2. Head(proc.units) = whole[m + 1] /\ Tail(proc.units) = SubSeq(whole, (m + 1) + 1, Len(whole))
    BY <2>1, HeadTailOfSubSeq
  <2>3. proc.units # <<>>
    <3>1. \A i \in (m + 1)..Len(whole) : whole[i] \in TaskName
      BY <2>1
    <3>2. m + 1 \in Int /\ Len(whole) \in Int /\ m + 1 <= Len(whole)
      BY <2>1
    <3>3. Len(SubSeq(whole, m + 1, Len(whole))) = Len(whole) - (m + 1) + 1
      BY <3>1, <3>2, SubSeqProperties
    <3>4. Len(proc.units) >= 1
      BY <2>1, <3>2, <3>3
    <3>5. proc.units = <<>> => Len(proc.units) = 0
      OBVIOUS
    <3> QED BY <3>4, <3>5
  <2>4. (m + 1) + 1 = m + 2
    OBVIOUS
  <2> QED BY <1>2, <1>3, <1>5, <2>2, <2>3, <2>4 DEF whole
<1> QED BY <1>3, <1>4, <1>5, SMTT(30)

-----------------------------------------------------------------------------
(* Order, and what a completed run has done *)

LEMMA OrderInit ==
  ASSUME Init
  PROVE  ProcInv /\ RecordInv /\ ResumesAfterCheckpoint
<1>1. /\ proc.pc = "none" /\ trail = <<>> /\ kept = 0 /\ record.status = "absent"
      /\ record.checkpoint = NoTask /\ record.reason = "none"
  BY NoProcType DEF Init
<1>2. Len(trail) = 0
  BY <1>1
<1> QED BY <1>1, <1>2 DEF ProcInv, RecordInv, ResumesAfterCheckpoint

LEMMA OrderNext ==
  ASSUME Types, Types', Sequential, ProcInv, RecordInv, ResumesAfterCheckpoint, [Next]_vars
  PROVE  ProcInv' /\ RecordInv' /\ ResumesAfterCheckpoint'
<1> USE DEF SetProc
<1>1. /\ document \in Documents /\ document \in Seq(ItemType) /\ proc \in ProcType
      /\ record \in Record /\ trail \in Seq(TaskName) /\ kept \in 0..Len(trail)
      /\ NoProc.pc = "none" /\ Len(document) \in Nat
  BY DocumentType, NoProcType DEF Types
<1>2. document' = document
  BY DEF Next, Start, Resume, RunUnit, Checkpoint, Advance, Suspend, Fail, Finish, Crash,
         TimerElapses, vars
<1>3. CASE Start
  <2>1. trail = <<>> /\ trail' = trail /\ Begin(document, <<>>, FALSE)
    BY <1>3 DEF Start, RecordInv
  <2>2. ProcInv'
    BY <1>1, <1>2, <2>1, FromStart
  <2>3. RecordInv'
    <3>1. /\ kept' = kept /\ record'.status = "running" /\ record'.checkpoint = record.checkpoint
          /\ record'.reason = record.reason
      BY <1>1, <1>3 DEF Start, Record
    <3> QED BY <2>1, <3>1 DEF RecordInv
  <2> QED BY <1>2, <2>1, <2>2, <2>3, SameTrail
<1>4. CASE Resume
  <2>1. /\ trail' = SubSeq(trail, 1, kept) /\ kept' = kept /\ record' = record
        /\ record.status \notin {"absent", "completed"}
    BY <1>4 DEF Resume
  <2>2. Len(trail') = kept /\ \A i \in 1..kept : trail'[i] = trail[i]
    BY <1>1, <2>1
  <2>3. ProcInv'
    <3>1. CASE kept = 0
      <4>1. trail' = <<>> /\ Begin(document, <<>>, TRUE)
        <5>1. trail' = <<>>
          BY <2>1, <3>1, SubSeqEmpty
        <5>2. Begin(document, <<>>, TRUE)
          BY <1>4, <3>1 DEF Resume, RecordInv
        <5> QED BY <5>1, <5>2
      <4> QED BY <1>1, <1>2, <4>1, FromStart
    <3>2. CASE kept > 0
      <4>1. /\ record.checkpoint = trail[kept] /\ trail[kept] \in TaskName
            /\ record.reason # "listen"
        BY <1>1, <3>2 DEF RecordInv
      <4>2. record.checkpoint # NoTask /\ ResumedItems = Slice(document, record.checkpoint)
        BY <4>1 DEF TaskName, ResumedItems
      <4>3. /\ Sliceable(document, record.checkpoint)
            /\ Begin(Slice(document, record.checkpoint), ResumedState, TRUE)
        BY <1>4, <4>2 DEF Resume
      <4>4. trail' # <<>> /\ trail'[Len(trail')] = record.checkpoint
        BY <1>1, <2>2, <3>2, <4>1
      <4>5. PICK p \in 1..(Len(document) + 1), m \in Nat : Place(p, m)' /\ Before(p, m)'
        BY <1>1, <1>2, <4>1, <4>3, <4>4, SlicedPlace
      <4>6. proc'.pc = "running"
        BY <4>3 DEF Begin
      <4> QED BY <1>2, <4>5, <4>6, Placed
    <3> QED BY <1>1, <3>1, <3>2
  <2>4. RecordInv'
    BY <2>1, <2>2, <1>1 DEF RecordInv
  <2> QED BY <1>1, <1>2, <2>1, <2>3, <2>4, CutTrail
<1>5. CASE RunUnit
  <2>1. proc.pc = "running" /\ proc.units # <<>> /\ proc.at \in DOMAIN proc.items
    <3>1. proc.at \in Nat /\ proc.items \in Seq(ItemType) /\ proc.at \in 1..(Len(proc.items) + 1)
      BY <1>1, <1>5 DEF RunUnit, Types, ProcType
    <3> QED BY <1>5, <3>1 DEF RunUnit, AtEnd
  <2>2. PICK p \in 1..(Len(document) + 1), m \in Nat : Place(p, m) /\ Before(p, m)
    BY <2>1 DEF ProcInv
  <2>3. /\ p \in 1..Len(document) /\ m \in 0..(Len(Whole(p)) - 1)
        /\ Head(proc.units) = Whole(p)[m + 1] /\ Current.kind = document[p].kind
    <3>1. Len(Whole(p)) \in Nat /\ p \in 1..Len(document)
      BY <1>1, <2>1, <2>2, AtWork, WholeFacts
    <3> QED BY <2>1, <2>2, <3>1, AtWork
  <2>4. trail' = Append(trail, Whole(p)[m + 1])
    BY <1>5, <2>3 DEF RunUnit
  <2>5. document[p].kind # "wait"
    BY <1>5, <2>3 DEF RunUnit, Suspends
  <2>6. Whole(p)[m + 1] \in TaskName /\ Len(Whole(p)) \in Nat
    BY <1>1, <2>3, WholeFacts, SMTT(30)
  <2>7. ProcInv'
    <3>1. /\ proc'.pc = "recorded" /\ proc'.items = proc.items /\ proc'.at = proc.at
          /\ proc'.units = proc.units
      BY <1>1, <1>5 DEF RunUnit, ProcType
    <3>2. Whole(p)' = Whole(p)
      BY <1>2 DEF Whole
    <3>3. Place(p, m)'
      BY <1>1, <1>2, <2>2, <2>3, <2>5, <2>6, <3>1, <3>2 DEF Place
    <3>4. Before(p, m + 1)'
      <4>1. trail' # <<>> /\ trail'[Len(trail')] = Whole(p)[m + 1]
        BY <1>1, <2>4, <2>6
      <4> QED BY <2>3, <3>2, <4>1 DEF Before
    <3> QED BY <1>2, <2>2, <3>1, <3>3, <3>4 DEF ProcInv
  <2>8. record' = record /\ kept' = kept
    BY <1>5 DEF RunUnit
  <2> QED BY <1>2, <2>1, <2>2, <2>3, <2>4, <2>6, <2>7, <2>8, Extended, RecordKept

<1>6. CASE Checkpoint
  <2>1. proc.pc = "recorded" /\ proc.units # <<>> /\ proc.at \in DOMAIN proc.items
    BY <1>6 DEF Checkpoint, Types
  <2>2. PICK p \in 1..(Len(document) + 1), m \in Nat : Place(p, m) /\ Before(p, m + 1)
    BY <2>1 DEF ProcInv
  <2>3. /\ p \in 1..Len(document) /\ m \in 0..(Len(Whole(p)) - 1)
        /\ Head(proc.units) = Whole(p)[m + 1]
        /\ Tail(proc.units) = SubSeq(Whole(p), m + 2, Len(Whole(p)))
        /\ document[p].kind # "wait"
    <3>1. Len(Whole(p)) \in Nat /\ p \in 1..Len(document)
      BY <1>1, <2>1, <2>2, AtWork, WholeFacts
    <3>2. /\ Types /\ Sequential /\ Place(p, m) /\ proc.at \in DOMAIN proc.items
      BY <1>1, <2>1, <2>2
    <3>3. m < Len(Whole(p)) /\ document[p].kind # "wait"
      BY <2>1, <2>2 DEF Place
    <3>4. /\ Head(proc.units) = Whole(p)[m + 1]
          /\ Tail(proc.units) = SubSeq(Whole(p), m + 2, Len(Whole(p)))
      BY <2>1, <2>2, <3>2, AtWork
    <3> QED BY <2>2, <3>1, <3>3, <3>4
  <2>4. trail' = trail /\ trail # <<>> /\ trail[Len(trail)] = Whole(p)[m + 1]
    BY <1>6, <2>2, <2>3 DEF Checkpoint, Before
  <2>7. /\ m + 1 \in Nat /\ m + 1 <= Len(Whole(p)) /\ p <= Len(document) /\ m + 1 > 0
        /\ (m + 1) + 1 = m + 2
    <3>1. Len(Whole(p)) \in Nat
      BY <1>1, <2>3, WholeFacts
    <3> QED BY <2>3, <3>1
  <2>5. ProcInv'
    <3>1. /\ proc'.pc = "running" /\ proc'.items = proc.items /\ proc'.at = proc.at
          /\ proc'.units = SubSeq(Whole(p), (m + 1) + 1, Len(Whole(p)))
      <4>1. proc' = [proc EXCEPT !.pc = "running", !.units = Tail(proc.units)]
        BY <1>6 DEF Checkpoint
      <4> QED BY <1>1, <2>3, <2>7, <4>1 DEF ProcType
    <3>2. Whole(p)' = Whole(p)
      BY <1>2 DEF Whole
    <3>3. Place(p, m + 1)'
      BY <1>2, <2>2, <2>3, <2>7, <3>1, <3>2 DEF Place
    <3>4. Before(p, m + 1)'
      BY <2>4, <2>7, <3>2 DEF Before
    <3> QED BY <1>2, <2>2, <2>7, <3>1, <3>3, <3>4, Placed
  <2>6. RecordInv'
    <3>1. record.status \notin {"absent", "completed"} /\ Len(trail) > 0
      BY <1>1, <2>1, <2>4 DEF RecordInv
    <3>2. CASE Due
      <4>1. /\ record'.checkpoint = trail[Len(trail)] /\ record'.status = record.status
            /\ record'.reason = record.reason /\ kept' = Len(trail)
        BY <1>1, <1>6, <2>3, <2>4, <3>2 DEF Checkpoint, CheckpointedRecord, Record
      <4> QED BY <2>4, <3>1, <4>1 DEF RecordInv
    <3>3. CASE ~ Due
      BY <1>6, <2>4, <3>1, <3>3 DEF Checkpoint, RecordInv
    <3> QED BY <3>2, <3>3
  <2> QED BY <1>2, <2>4, <2>5, <2>6, SameTrail
<1>7. CASE Advance
  <2>1. /\ proc.pc = "running" /\ proc.units = <<>> /\ proc.at \in DOMAIN proc.items
        /\ proc.items \in Seq(ItemType) /\ proc.at \in Nat
    <3>1. proc.at \in Nat /\ proc.items \in Seq(ItemType) /\ proc.at \in 1..(Len(proc.items) + 1)
      BY <1>1, <1>7 DEF Advance, Types, ProcType
    <3> QED BY <1>7, <3>1 DEF Advance, AtEnd
  <2>2. PICK p \in 1..(Len(document) + 1), m \in Nat : Place(p, m) /\ Before(p, m)
    BY <2>1 DEF ProcInv
  <2>3. /\ p \in 1..Len(document) /\ m \in 0..Len(Whole(p)) /\ ~ (m < Len(Whole(p)))
        /\ Current.kind = document[p].kind /\ Current.then = document[p].then
    BY <2>1, <2>2, AtWork
  <2>4. /\ m = Len(Whole(p)) /\ m > 0 /\ Whole(p)[m] = document[p].name
        /\ Successors(proc.items, proc.at) = {proc.at + 1}
    <3>1. /\ Len(Whole(p)) \in Nat \ {0} /\ Whole(p)[Len(Whole(p))] = document[p].name
          /\ document[p].kind \in {"step", "wait", "do"} /\ document[p].then = "continue"
      BY <1>1, <2>3, WholeFacts, SMTT(30)
    <3>2. Successors(proc.items, proc.at) = {proc.at + 1}
      BY <2>3, <3>1, GoesOn DEF Current
    <3> QED BY <2>3, <3>1, <3>2
  <2>5. PICK units \in UnitsAt(proc.items, proc.at + 1) :
          proc' = [proc EXCEPT !.at = proc.at + 1, !.units = units]
    BY <1>7, <2>4 DEF Advance
  <2>6. /\ proc'.pc = "running" /\ proc'.items = proc.items /\ proc'.at = proc.at + 1
        /\ proc'.units = units
    BY <1>1, <2>1, <2>5 DEF ProcType
  <2>7. trail' = trail /\ record' = record /\ kept' = kept
    BY <1>7 DEF Advance
  <2>9. /\ p \in Nat \ {0} /\ p <= Len(document) /\ Len(document) \in Nat /\ proc.at \in Nat
        /\ Len(proc.items) \in Nat /\ Len(proc.items) + p = Len(document) + proc.at
    <3>1. Len(proc.items) + p = Len(document) + proc.at
      BY <2>2 DEF Place
    <3>2. document \in Seq(ItemType)
      BY <1>1, DocumentsAssumption DEF Types
    <3>3. Len(document) \in Nat /\ Len(proc.items) \in Nat
      BY <2>1, <3>2
    <3>4. p \in Nat \ {0} /\ p <= Len(document)
      BY <2>3, <3>3
    <3> QED BY <2>1, <3>1, <3>3, <3>4
  <2>8. ProcInv'
    <3>1. p + 1 \in 1..(Len(document) + 1) /\ 0 \in Nat /\ p + 1 # 1
          /\ Len(proc.items) + (p + 1) = Len(document) + (proc.at + 1)
      <4>2. Len(proc.items) + (p + 1) = Len(document) + (proc.at + 1)
        <5> DEFINE a == Len(proc.items)
                   b == Len(document)
                   c == proc.at
        <5>1. a \in Nat /\ b \in Nat /\ c \in Nat /\ p \in Nat /\ a + p = b + c
          BY <2>9
        <5> HIDE DEF a, b, c
        <5>2. a + (p + 1) = b + (c + 1)
          BY <5>1
        <5> QED BY <5>2 DEF a, b, c
      <4>3. p + 1 \in 1..(Len(document) + 1) /\ p + 1 # 1
        BY <2>9
      <4> QED BY <4>2, <4>3
    <3>2. \A j \in 1..(Len(document) - (p + 1)) :
             proc.items[(proc.at + 1) + j] = document[(p + 1) + j]
      <4>1. SUFFICES ASSUME NEW j \in 1..(Len(document) - (p + 1))
            PROVE  proc.items[(proc.at + 1) + j] = document[(p + 1) + j]
        OBVIOUS
      <4>2. /\ j + 1 \in 1..(Len(document) - p)
            /\ proc.at + (j + 1) = (proc.at + 1) + j /\ p + (j + 1) = (p + 1) + j
        BY <2>9
      <4> QED BY <2>2, <4>2 DEF Place
    <3>3. p + 1 <= Len(document) =>
            /\ proc.items[proc.at + 1] = document[p + 1]
            /\ units = SubSeq(Whole(p + 1), 0 + 1, Len(Whole(p + 1)))
            /\ 0 <= Len(Whole(p + 1))
      <4>1. SUFFICES ASSUME p + 1 <= Len(document)
            PROVE  /\ proc.items[proc.at + 1] = document[p + 1]
                   /\ units = SubSeq(Whole(p + 1), 0 + 1, Len(Whole(p + 1)))
                   /\ 0 <= Len(Whole(p + 1))
        OBVIOUS
      <4>2. 1 \in 1..(Len(document) - p) /\ p + 1 \in 1..Len(document)
        BY <1>1, <2>3, <4>1
      <4>3. proc.items[proc.at + 1] = document[p + 1]
        BY <2>2, <4>2 DEF Place
      <4>4. proc.at + 1 \in DOMAIN proc.items
        BY <1>1, <2>1, <3>1, <4>1
      <4>5. UnitOrders(document[p + 1]) = {Whole(p + 1)} /\ Whole(p + 1) \in Seq(TaskName)
        BY <1>1, <4>2, WholeFacts
      <4>6. units = Whole(p + 1)
        BY <2>5, <4>3, <4>4, <4>5 DEF UnitsAt
      <4>7. SubSeq(Whole(p + 1), 0 + 1, Len(Whole(p + 1))) = Whole(p + 1)
        BY <4>5, SubSeqFull
      <4> QED BY <4>3, <4>5, <4>6, <4>7
    <3>4. p + 1 > Len(document) => units = <<>>
      <4>1. p + 1 > Len(document) => proc.at + 1 \notin DOMAIN proc.items
        <5>1. p + 1 > Len(document) => proc.at + 1 > Len(proc.items)
          BY <2>9, <3>1
        <5> QED BY <2>1, <2>9, <5>1
      <4> QED BY <2>5, <4>1 DEF UnitsAt
    <3>5. Whole(p + 1)' = Whole(p + 1)
      BY <1>2 DEF Whole
    <3>6. Place(p + 1, 0)'
      BY <1>2, <2>6, <3>1, <3>2, <3>3, <3>4, <3>5 DEF Place
    <3>7. Before(p + 1, 0)'
      <4>1. trail # <<>> /\ trail[Len(trail)] = document[p].name /\ (p + 1) - 1 = p
        BY <2>2, <2>3, <2>4 DEF Before
      <4> QED BY <1>2, <2>7, <3>1, <4>1 DEF Before
    <3> QED BY <1>2, <2>6, <3>1, <3>6, <3>7, Placed
  <2> QED BY <1>2, <2>1, <2>7, <2>8, SameTrail, RecordKept
<1>8. CASE Suspend
  <2>1. proc.pc = "running" /\ Suspends /\ proc.at \in DOMAIN proc.items
    <3>1. proc.at \in Nat /\ proc.items \in Seq(ItemType) /\ proc.at \in 1..(Len(proc.items) + 1)
      BY <1>1, <1>8 DEF Suspend, Types, ProcType
    <3> QED BY <1>8, <3>1 DEF Suspend, Suspends, AtEnd
  <2>2. PICK p \in 1..(Len(document) + 1), m \in Nat : Place(p, m) /\ Before(p, m)
    BY <2>1 DEF ProcInv
  <2>3. /\ p \in 1..Len(document) /\ Current.name = document[p].name
        /\ Current.kind = document[p].kind
    BY <2>1, <2>2, AtWork
  <2>4. /\ document[p].kind = "wait" /\ document[p].body = <<>>
        /\ Whole(p) \in Seq(TaskName) /\ Len(Whole(p)) = 1 /\ Whole(p)[1] = document[p].name
    <3>1. /\ document[p].kind \in {"step", "wait", "do"}
          /\ document[p].kind # "do" => document[p].body = <<>>
          /\ Whole(p) \in Seq(TaskName) /\ Len(Whole(p)) = Len(document[p].body) + 1
          /\ Whole(p)[Len(Whole(p))] = document[p].name
      BY <1>1, <2>3, WholeFacts
    <3>2. document[p].kind = "wait"
      BY <2>1, <2>3, <3>1 DEF Suspends
    <3> QED BY <3>1, <3>2
  <2>5. m = 0
    BY <2>2, <2>3, <2>4 DEF Place
  <2>6. /\ trail' = Append(trail, Whole(p)[0 + 1]) /\ kept' = Len(trail')
        /\ record'.status = "suspended" /\ record'.checkpoint = Whole(p)[1]
        /\ record'.reason = "timer" /\ proc' = NoProc
    BY <1>1, <1>8, <2>3, <2>4 DEF Suspend, SuspendedRecord, Record
  <2>7. ResumesAfterCheckpoint'
    <3>1. 0 \in 0..(Len(Whole(p)) - 1)
      BY <2>4
    <3> QED BY <1>2, <2>2, <2>3, <2>5, <2>6, <3>1, Extended
  <2>8. RecordInv'
    <3>1. Whole(p)[1] \in TaskName
      <4>1. document[p] \in ItemType
        BY <1>1, <2>3
      <4> QED BY <2>4, <4>1 DEF ItemType
    <3>2. Len(trail') = Len(trail) + 1 /\ trail'[Len(trail')] = Whole(p)[1] /\ Len(trail') > 0
      BY <1>1, <2>6, <3>1
    <3> QED BY <2>6, <3>2 DEF RecordInv
  <2> QED BY <1>1, <2>6, <2>7, <2>8 DEF ProcInv
<1>9. CASE Fail
  <2>1. /\ record'.status = "failed" /\ record'.checkpoint = record.checkpoint
        /\ record'.reason = record.reason /\ trail' = trail /\ kept' = kept /\ proc' = NoProc
    BY <1>1, <1>9 DEF Fail, Record
  <2> QED BY <1>1, <1>2, <2>1, SameTrail DEF ProcInv, RecordInv
<1>10. CASE Finish
  <2>1. proc.pc = "running" /\ proc.at = Len(proc.items) + 1 /\ Len(proc.items) \in Nat
    <3>1. proc.at \in Nat /\ proc.items \in Seq(ItemType) /\ proc.at \in 1..(Len(proc.items) + 1)
      BY <1>1, <1>10 DEF Finish, Types, ProcType
    <3> QED BY <1>10, <3>1 DEF Finish, AtEnd
  <2>2. PICK p \in 1..(Len(document) + 1), m \in Nat : Place(p, m) /\ Before(p, m)
    BY <2>1 DEF ProcInv
  <2>3. p = Len(document) + 1 /\ m = 0 /\ p - 1 = Len(document)
    BY <1>1, <2>1, <2>2, SMTT(30) DEF Place
  <2>4. document # <<>> => trail # <<>> /\ trail[Len(trail)] = document[Len(document)].name
    <3>1. document # <<>> => p # 1
      BY <1>1, <2>3
    <3> QED BY <2>2, <2>3, <3>1 DEF Before
  <2>5. /\ record'.status = "completed" /\ record'.checkpoint = record.checkpoint
        /\ record'.reason = record.reason /\ trail' = trail /\ kept' = kept /\ proc' = NoProc
    BY <1>1, <1>10 DEF Finish, Record
  <2> QED BY <1>1, <1>2, <2>4, <2>5, SameTrail DEF ProcInv, RecordInv
<1>11. CASE Crash
  <2>1. record' = record /\ trail' = trail /\ kept' = kept /\ proc' = NoProc
    BY <1>11 DEF Crash
  <2> QED BY <1>1, <1>2, <2>1, SameTrail DEF ProcInv, RecordInv
<1>12. CASE TimerElapses
  <2>1. /\ record'.status = record.status /\ record'.checkpoint = record.checkpoint
        /\ record'.reason = record.reason /\ trail' = trail /\ kept' = kept /\ proc' = proc
    BY <1>1, <1>12 DEF TimerElapses, Record
  <2>2. RecordInv'
    BY <1>2, <2>1 DEF RecordInv
  <2>3. ProcInv'
    BY <1>2, <2>1, SameProc
  <2> QED BY <1>2, <2>1, <2>2, <2>3, SameTrail
<1>13. CASE UNCHANGED vars
  <2>1. proc' = proc /\ trail' = trail /\ record' = record /\ kept' = kept
    BY <1>13 DEF vars
  <2>2. RecordInv'
    BY <1>2, <2>1 DEF RecordInv
  <2>3. ProcInv'
    BY <1>2, <2>1, SameProc
  <2> QED BY <1>2, <2>1, <2>2, <2>3, SameTrail
<1> QED BY <1>3, <1>4, <1>5, <1>6, <1>7, <1>8, <1>9, <1>10, <1>11, <1>12, <1>13 DEF Next

-----------------------------------------------------------------------------
(* What the state has merged *)

StateInv ==
  /\ ~ ahead /\ proc.pc # "none" => Merges(proc.state, trail)
  /\ ~ ahead /\ record.status # "completed" => Merges(record.state, SubSeq(trail, 1, kept))

LEMMA RankFacts ==
  ASSUME NEW s \in Seq(TaskName)
  PROVE  /\ \A i \in 0..Len(s) : Rank(s, i) \in Nat /\ Rank(s, i) <= Rank(s, Len(s))
         /\ \A i \in 1..Len(s) : s[i] \notin Waits => Rank(s, i) >= 1
<1> DEFINE R(i) == {j \in 1..i : s[j] \notin Waits}
<1>1. \A i \in 0..Len(s) : IsFiniteSet(R(i))
  <2> TAKE i \in 0..Len(s)
  <2>1. IsFiniteSet(1..i) /\ R(i) \subseteq 1..i
    BY FS_Interval
  <2> QED BY <2>1, FS_Subset
<1>2. \A i \in 0..Len(s) : Cardinality(R(i)) \in Nat
  BY <1>1, FS_CardinalityType
<1>3. \A i \in 0..Len(s) : R(i) \subseteq R(Len(s))
  OBVIOUS
<1>4. \A i \in 0..Len(s) : Cardinality(R(i)) <= Cardinality(R(Len(s)))
  <2> TAKE i \in 0..Len(s)
  <2>1. Len(s) \in 0..Len(s)
    OBVIOUS
  <2> HIDE DEF R
  <2> QED BY <1>1, <1>3, <2>1, FS_Subset
<1>5. ASSUME NEW i \in 1..Len(s), s[i] \notin Waits PROVE Cardinality(R(i)) >= 1
  <2>1. i \in R(i) /\ i \in 0..Len(s)
    BY <1>5
  <2> HIDE DEF R
  <2>2. Cardinality(R(i)) # 0
    BY <1>1, <2>1, FS_EmptySet
  <2> QED BY <1>2, <2>1, <2>2
<1> QED BY <1>2, <1>4, <1>5 DEF Rank

LEMMA RankAppend ==
  ASSUME NEW s \in Seq(TaskName), NEW u \in TaskName
  PROVE  /\ \A i \in 0..Len(s) : Rank(Append(s, u), i) = Rank(s, i)
         /\ u \in Waits => Rank(Append(s, u), Len(s) + 1) = Rank(s, Len(s))
         /\ u \notin Waits => Rank(Append(s, u), Len(s) + 1) = Rank(s, Len(s)) + 1
<1> DEFINE t == Append(s, u)
           R(i) == {j \in 1..i : s[j] \notin Waits}
           T(i) == {j \in 1..i : t[j] \notin Waits}
           n == Len(s)
<1>1. n \in Nat /\ t[n + 1] = u /\ \A j \in 1..n : t[j] = s[j]
  OBVIOUS
<1> HIDE DEF t, n
<1>2. \A i \in 0..n : T(i) = R(i)
  BY <1>1
<1>3. u \in Waits => T(n + 1) = R(n)
  BY <1>1
<1>4. u \notin Waits => T(n + 1) = R(n) \union {n + 1}
  BY <1>1
<1>5. IsFiniteSet(R(n)) /\ n + 1 \notin R(n)
  <2>1. IsFiniteSet(1..n) /\ R(n) \subseteq 1..n
    BY <1>1, FS_Interval
  <2> QED BY <1>1, <2>1, FS_Subset
<1>6. Cardinality(R(n) \union {n + 1}) = Cardinality(R(n)) + 1
  <2> HIDE DEF R
  <2> QED BY <1>5, FS_AddElement
<1> HIDE DEF R, T
<1>7. /\ \A i \in 0..n : Rank(t, i) = Cardinality(T(i)) /\ Rank(s, i) = Cardinality(R(i))
      /\ Rank(t, n + 1) = Cardinality(T(n + 1))
  BY DEF Rank, R, T
<1>8. n \in 0..n
  BY <1>1
<1> QED BY <1>2, <1>3, <1>4, <1>6, <1>7, <1>8 DEF t, n

\* A unit that is no wait is merged; a wait changes no state.
LEMMA MergesAppend ==
  ASSUME NEW s \in Seq(TaskName), NEW u \in TaskName, NEW state \in Seq(STRING), Merges(state, s)
  PROVE  /\ u \notin Waits => Merges(Append(state, u), Append(s, u))
         /\ u \in Waits => Merges(state, Append(s, u))
<1> DEFINE t == Append(s, u)
           n == Len(s)
           r == Rank(s, n)
<1>1. /\ n \in Nat /\ Len(t) = n + 1 /\ DOMAIN t = 1..(n + 1) /\ t[n + 1] = u
      /\ \A j \in 1..n : t[j] = s[j]
  OBVIOUS
<1>2. /\ \A i \in 0..n : Rank(t, i) = Rank(s, i)
      /\ u \in Waits => Rank(t, n + 1) = r
      /\ u \notin Waits => Rank(t, n + 1) = r + 1
  BY RankAppend
<1>3. /\ \A i \in 0..n : Rank(s, i) \in Nat /\ Rank(s, i) <= r
      /\ \A i \in 1..n : s[i] \notin Waits => Rank(s, i) >= 1
  BY RankFacts
<1>4. Len(state) = r /\ \A i \in 1..n : s[i] \notin Waits => state[Rank(s, i)] = s[i]
  BY <1>1 DEF Merges
<1> HIDE DEF t, n, r
<1>5. ASSUME NEW i \in 1..n, t[i] \notin Waits
      PROVE  Rank(t, i) \in 1..r /\ state[Rank(t, i)] = t[i]
  <2>1. i \in 0..n /\ t[i] = s[i]
    BY <1>1
  <2> QED BY <1>2, <1>3, <1>4, <1>5, <2>1
<1>6. CASE u \notin Waits
  <2> DEFINE a == Append(state, u)
  <2>1. Len(a) = r + 1 /\ a[r + 1] = u /\ \A k \in 1..r : a[k] = state[k]
    BY <1>4
  <2> HIDE DEF a
  <2>2. ASSUME NEW i \in 1..(n + 1), t[i] \notin Waits PROVE a[Rank(t, i)] = t[i]
    <3>1. CASE i = n + 1
      BY <1>1, <1>2, <1>6, <2>1, <3>1
    <3>2. CASE i \in 1..n
      BY <1>5, <2>1, <2>2, <3>2
    <3> QED BY <1>1, <3>1, <3>2
  <2>3. Merges(a, t)
    BY <1>1, <1>2, <1>6, <2>1, <2>2 DEF Merges
  <2> QED BY <1>6, <2>3 DEF a, t
<1>7. CASE u \in Waits
  <2>1. ASSUME NEW i \in 1..(n + 1), t[i] \notin Waits PROVE state[Rank(t, i)] = t[i]
    <3>1. i \in 1..n
      BY <1>1, <1>7, <2>1
    <3> QED BY <1>5, <2>1, <3>1
  <2>2. Merges(state, t)
    BY <1>1, <1>2, <1>4, <1>7, <2>1 DEF Merges
  <2> QED BY <1>7, <2>2 DEF t
<1> QED BY <1>6, <1>7

LEMMA MergesEmpty == Merges(<<>>, <<>>)
<1>1. Len(<<>>) = 0 /\ DOMAIN <<>> = {} /\ 1..0 = {}
  OBVIOUS
<1>2. Rank(<<>>, 0) = Cardinality({})
  BY <1>1 DEF Rank
<1> QED BY <1>1, <1>2, FS_EmptySet DEF Merges

LEMMA StateInit ==
  ASSUME Init
  PROVE  StateInv
<1>1. /\ proc.pc = "none" /\ trail = <<>> /\ kept = 0 /\ record.state = <<>>
  BY NoProcType DEF Init
<1>2. SubSeq(trail, 1, kept) = <<>>
  BY <1>1
<1> QED BY <1>1, <1>2, MergesEmpty DEF StateInv

\* The name of a unit that is no wait is none of the waits'.
LEMMA UnitIsNoWait ==
  ASSUME document \in Seq(ItemType), WaitsNamedApart,
         NEW p \in 1..Len(document), document[p].kind # "wait", NEW j \in 1..Len(Whole(p))
  PROVE  Whole(p)[j] \notin Waits
<1>1. document[p].body \in Seq(TaskName) /\ document[p].name \in TaskName
  <2>1. document[p] \in ItemType
    OBVIOUS
  <2> QED BY <2>1 DEF ItemType
<1>2. document[p].name \notin Waits /\ \A i \in 1..Len(document[p].body) : document[p].body[i] \notin Waits
  BY <1>1 DEF WaitsNamedApart
<1> DEFINE body == document[p].body
           name == document[p].name
<1>3. /\ Len(body \o <<name>>) = Len(body) + 1
      /\ \A i \in 1..Len(body) : (body \o <<name>>)[i] = body[i]
      /\ (body \o <<name>>)[Len(body) + 1] = name
  <2> HIDE DEF body, name
  <2>1. body \in Seq(TaskName) /\ name \in TaskName /\ <<name>> \in Seq(TaskName)
    BY <1>1 DEF body, name
  <2> QED BY <2>1, ConcatProperties
<1>4. j \in 1..Len(body) \/ j = Len(body) + 1
  <2>1. Len(body) \in Nat
    BY <1>1
  <2> QED BY <1>3, <2>1 DEF Whole
<1> QED BY <1>2, <1>3, <1>4 DEF Whole

LEMMA MergesNext ==
  ASSUME document' = document
  PROVE  /\ Merges(proc'.state, trail') => Merges(proc.state, trail)'
         /\ Merges(record'.state, SubSeq(trail', 1, kept')) => Merges(record.state, SubSeq(trail, 1, kept))'
<1>1. Waits' = Waits
  BY DEF Waits
<1> QED BY <1>1 DEF Merges, Rank

LEMMA StateNext ==
  ASSUME Types, Types', Sequential, WaitsNamedApart, ProcInv, RecordInv, StateInv, [Next]_vars
  PROVE  StateInv'
<1> USE DEF SetProc
<1>1. /\ document \in Seq(ItemType) /\ proc \in ProcType
      /\ record \in Record /\ trail \in Seq(TaskName) /\ kept \in 0..Len(trail)
      /\ NoProc.pc = "none" /\ Len(trail) \in Nat /\ proc.state \in Seq(STRING)
  BY DocumentType, NoProcType DEF Types, ProcType
<1>2. document' = document
  BY DEF Next, Start, Resume, RunUnit, Checkpoint, Advance, Suspend, Fail, Finish, Crash,
         TimerElapses, vars
<1> DEFINE Cut(n) == SubSeq(trail, 1, n)
<1>3. Cut(Len(trail)) = trail /\ Cut(0) = <<>>
  BY <1>1, SubSeqFull, SubSeqEmpty
<1>4. CASE Start
  <2>1. trail = <<>> /\ kept = 0 /\ trail' = trail /\ kept' = kept
    BY <1>1, <1>4 DEF Start, RecordInv
  <2>2. proc'.state = <<>>
    BY <1>4 DEF Start, Begin
  <2>3. record'.state = record.state /\ record.status = "absent" /\ ahead' = ahead
    BY <1>1, <1>4 DEF Start, Record
  <2>4. Merges(proc'.state, trail')
    BY <2>1, <2>2, MergesEmpty
  <2>5. ~ ahead' => Merges(record'.state, SubSeq(trail', 1, kept'))
    BY <2>1, <2>3 DEF StateInv
  <2> QED BY <1>2, <2>4, <2>5, MergesNext DEF StateInv
<1>5. CASE Resume
  <2>1. /\ trail' = Cut(kept) /\ kept' = kept /\ record' = record /\ ahead' = ahead
        /\ record.status \notin {"absent", "completed"}
    BY <1>5 DEF Resume
  <2>2. ~ ahead => Merges(record.state, Cut(kept))
    BY <2>1 DEF StateInv
  <2>3. ~ ahead' => Merges(proc'.state, trail')
    <3>1. CASE record.checkpoint = NoTask
      <4>1. proc'.state = <<>>
        BY <1>5, <3>1 DEF Resume, Begin
      <4>2. kept = 0
        <5>1. kept > 0 => trail[kept] \in TaskName
          BY <1>1
        <5> QED BY <1>1, <3>1, <5>1 DEF RecordInv, TaskName
      <4> QED BY <1>3, <2>1, <4>1, <4>2, MergesEmpty
    <3>2. CASE record.checkpoint # NoTask
      <4>1. proc'.state = record.state
        BY <1>5, <3>2 DEF Resume, Begin, ResumedState
      <4> QED BY <2>1, <2>2, <4>1
    <3> QED BY <3>1, <3>2
  <2>4. SubSeq(trail', 1, kept') = Cut(kept)
    <3>1. Cut(kept) \in Seq(TaskName) /\ Len(Cut(kept)) = kept
      BY <1>1
    <3>2. SubSeq(Cut(kept), 1, Len(Cut(kept))) = Cut(kept)
      <4> HIDE DEF Cut
      <4> QED BY <3>1, SubSeqFull
    <3> QED BY <2>1, <3>1, <3>2
  <2> QED BY <1>2, <2>1, <2>2, <2>3, <2>4, MergesNext DEF StateInv
<1>6. CASE RunUnit
  <2>1. proc.pc = "running" /\ proc.units # <<>> /\ proc.at \in DOMAIN proc.items
    <3>1. proc.at \in Nat /\ proc.items \in Seq(ItemType) /\ proc.at \in 1..(Len(proc.items) + 1)
      BY <1>1, <1>6 DEF RunUnit, Types, ProcType
    <3> QED BY <1>6, <3>1 DEF RunUnit, AtEnd
  <2>2. PICK p \in 1..(Len(document) + 1), m \in Nat : Place(p, m) /\ Before(p, m)
    BY <2>1 DEF ProcInv
  <2>3. /\ p \in 1..Len(document) /\ m \in 0..(Len(Whole(p)) - 1)
        /\ Head(proc.units) = Whole(p)[m + 1] /\ Current.kind = document[p].kind
        /\ Len(Whole(p)) \in Nat
    <3>1. Len(Whole(p)) \in Nat /\ p \in 1..Len(document)
      BY <2>1, <2>2, AtWork, WholeFacts DEF Types
    <3> QED BY <2>1, <2>2, <3>1, AtWork
  <2>4. document[p].kind # "wait"
    BY <1>6, <2>3 DEF RunUnit, Suspends
  <2> DEFINE u == Head(proc.units)
  <2>5. u \notin Waits
    <3>1. m + 1 \in 1..Len(Whole(p))
      BY <2>3
    <3> QED BY <1>1, <2>3, <2>4, <3>1, UnitIsNoWait
  <2>6. u \in TaskName
    BY <1>1, <2>1 DEF ProcType
  <2>7. /\ proc'.state = Append(proc.state, u) /\ trail' = Append(trail, u)
        /\ record' = record /\ kept' = kept /\ ahead' = ahead
    BY <1>1, <1>6 DEF RunUnit, ProcType
  <2> HIDE DEF u
  <2>8. ~ ahead' => Merges(proc'.state, trail')
    BY <1>1, <2>1, <2>5, <2>6, <2>7, MergesAppend DEF StateInv
  <2>9. SubSeq(trail', 1, kept') = Cut(kept)
    BY <1>1, <2>6, <2>7
  <2> QED BY <1>2, <2>7, <2>8, <2>9, MergesNext DEF StateInv
<1>7. CASE Checkpoint
  <2>1. /\ proc.pc = "recorded" /\ trail' = trail /\ ahead' = ahead
        /\ proc' = [proc EXCEPT !.pc = "running", !.units = Tail(proc.units)]
    BY <1>7 DEF Checkpoint
  <2>2. proc'.state = proc.state
    BY <1>1, <2>1 DEF ProcType
  <2>3. ~ ahead' => Merges(proc'.state, trail')
    BY <2>1, <2>2 DEF StateInv
  <2>4. CASE Due
    <3>1. record'.state = proc.state /\ kept' = Len(trail)
      BY <1>1, <1>7, <2>4 DEF Checkpoint, CheckpointedRecord, Record
    <3> QED BY <1>2, <1>3, <2>1, <2>2, <2>3, <3>1, MergesNext DEF StateInv
  <2>5. CASE ~ Due
    <3>1. record' = record /\ kept' = kept
      BY <1>7, <2>5 DEF Checkpoint
    <3> QED BY <1>2, <2>1, <2>3, <3>1, MergesNext DEF StateInv
  <2> QED BY <2>4, <2>5
<1>8. CASE Advance
  <2>1. trail' = trail /\ record' = record /\ kept' = kept /\ ahead' = ahead /\ proc.pc = "running"
    BY <1>8 DEF Advance
  <2>2. proc'.state = proc.state
    BY <1>1, <1>8 DEF Advance, ProcType
  <2> QED BY <1>2, <2>1, <2>2, MergesNext DEF StateInv
<1>9. CASE Suspend
  <2>1. /\ proc.pc = "running" /\ kept' = Len(trail') /\ ahead' = ahead /\ proc' = NoProc
        /\ record'.state = proc.state
    BY <1>1, <1>9 DEF Suspend, SuspendedRecord, Record
  <2>2. proc.at \in DOMAIN proc.items
    <3>1. proc.at \in Nat /\ proc.items \in Seq(ItemType) /\ proc.at \in 1..(Len(proc.items) + 1)
      BY <1>1, <2>1 DEF Types, ProcType
    <3> QED BY <1>9, <3>1 DEF Suspend, Suspends, AtEnd
  <2>3. PICK p \in 1..(Len(document) + 1), m \in Nat : Place(p, m) /\ Before(p, m)
    BY <2>1 DEF ProcInv
  <2>4. p \in 1..Len(document) /\ Current.name = document[p].name /\ Current.kind = document[p].kind
    BY <2>2, <2>3, AtWork
  <2>5. document[p].kind = "wait" /\ document[p].name \in Waits /\ document[p].name \in TaskName
    <3>1. document[p].kind \in {"step", "wait", "do"} /\ document[p] \in ItemType
      BY <1>1, <2>4 DEF Sequential
    <3>2. document[p].kind = "wait"
      BY <1>9, <2>4, <3>1 DEF Suspend, Suspends
    <3>3. document[p].name \in Waits
      BY <1>1, <2>4, <3>2 DEF Waits
    <3> QED BY <3>1, <3>2, <3>3 DEF ItemType
  <2>6. trail' = Append(trail, document[p].name)
    BY <1>9, <2>4, <2>5 DEF Suspend
  <2>7. ~ ahead' => Merges(record'.state, trail')
    BY <1>1, <2>1, <2>5, <2>6, MergesAppend DEF StateInv
  <2>8. SubSeq(trail', 1, kept') = trail'
    BY <2>1, SubSeqFull DEF Types
  <2> QED BY <1>1, <1>2, <2>1, <2>7, <2>8, MergesNext DEF StateInv
<1>10. CASE Fail
  <2>1. /\ proc.pc # "none" /\ record'.state = proc.state /\ proc' = NoProc
        /\ trail' = trail /\ kept' = kept /\ ahead' = (ahead \/ kept < Len(trail))
    BY <1>1, <1>10 DEF Fail, Record
  <2>2. ~ ahead' => ~ ahead /\ kept = Len(trail)
    <3>1. ~ ahead' => ~ (ahead \/ kept < Len(trail))
      BY <2>1, Zenon
    <3>2. ~ (kept < Len(trail)) => kept = Len(trail)
      BY <1>1
    <3> QED BY <3>1, <3>2
  <2>3. ~ ahead' => Merges(record'.state, SubSeq(trail', 1, kept'))
    BY <1>3, <2>1, <2>2 DEF StateInv
  <2> QED BY <1>1, <1>2, <2>1, <2>3, MergesNext DEF StateInv
<1>11. CASE Finish
  BY <1>1, <1>11 DEF Finish, Record, StateInv
<1>12. CASE Crash
  <2>1. record' = record /\ trail' = trail /\ kept' = kept /\ ahead' = ahead /\ proc' = NoProc
    BY <1>12 DEF Crash
  <2> QED BY <1>1, <1>2, <2>1, MergesNext DEF StateInv
<1>13. CASE TimerElapses
  <2>1. /\ record'.status = record.status /\ record'.state = record.state /\ trail' = trail
        /\ kept' = kept /\ ahead' = ahead /\ proc' = proc
    BY <1>1, <1>13 DEF TimerElapses, Record
  <2> QED BY <1>2, <2>1, MergesNext DEF StateInv
<1>14. CASE UNCHANGED vars
  <2>1. record' = record /\ trail' = trail /\ kept' = kept /\ ahead' = ahead /\ proc' = proc
    BY <1>14 DEF vars
  <2> QED BY <1>2, <2>1, MergesNext DEF StateInv
<1> QED BY <1>4, <1>5, <1>6, <1>7, <1>8, <1>9, <1>10, <1>11, <1>12, <1>13, <1>14 DEF Next

-----------------------------------------------------------------------------
(* Theorems *)

LEMMA InvInit == Init => IInv
BY TypesInit, OrderInit DEF IInv

LEMMA InvNext == IInv /\ [Next]_vars => IInv'
<1> SUFFICES ASSUME IInv, [Next]_vars PROVE IInv'
  OBVIOUS
<1>1. Types /\ Types'
  BY TypesNext DEF IInv
<1>2. Sequential' => Sequential
  <2>1. document' = document
    BY DEF Next, Start, Resume, RunUnit, Checkpoint, Advance, Suspend, Fail, Finish, Crash,
           TimerElapses, vars
  <2> QED BY <2>1 DEF Sequential
<1> QED BY <1>1, <1>2, OrderNext DEF IInv

\* The invariant behind the other theorems: types, and where in its document
\* a run stands and what its record keeps of it.
THEOREM Invariant == Spec => []IInv
BY InvInit, InvNext, PTL DEF Spec

\* Types of the record, the call in progress and the trail: whatever the
\* edges that lead out of tasks, forks and switches, and wherever a checkpoint
\* slices the list, a call stands at one of its items or right behind them.
THEOREM Typed == Spec => []TypeOK
<1>1. ASSUME IInv PROVE TypeOK
  <2>1. /\ proc.units \in Seq(TaskName) /\ proc.pc \in {"none", "running", "recorded"}
        /\ trail \in Seq(TaskName) /\ kept \in 0..Len(trail)
    BY <1>1 DEF IInv, Types, ProcType
  <2>2. (\A k \in DOMAIN proc.units : proc.units[k] # NoTask) /\ kept <= Len(trail)
    BY <2>1 DEF TaskName
  <2> QED BY <1>1, <2>1, <2>2 DEF IInv, Types, TypeOK
<1> QED BY <1>1, Invariant, PTL

\* Whatever the checkpoint interval, and however often a call crashes, fails
\* or suspends, the units that a run of a sequential document has kept are
\* those of an uninterrupted run, in their order.  The tasks of the list have
\* names of their own; those inside bodies may repeat any name.
THEOREM InOrder == Spec => []SequentialRunsInOrder
<1>1. IInv => SequentialRunsInOrder
  BY DEF IInv, SequentialRunsInOrder
<1> QED BY <1>1, Invariant, PTL

\* A run of a sequential document is recorded as completed only after its
\* last task.
THEOREM Complete == Spec => []CompletedIsComplete
<1>1. IInv => CompletedIsComplete
  BY DEF IInv, RecordInv, CompletedIsComplete
<1> QED BY <1>1, Invariant, PTL

\* The state in memory has merged the units that the run has kept, each once
\* and in their order, whatever was repeated after crashes; unless a failure
\* has saved a state that is ahead of the checkpoint.
THEOREM Merged == Spec => []StateIsTrail
<1> DEFINE Inv == Sequential /\ WaitsNamedApart => StateInv
<1>1. Init => Inv
  BY StateInit
<1>2. IInv /\ IInv' /\ Inv /\ [Next]_vars => Inv'
  <2> SUFFICES ASSUME IInv, IInv', Inv, [Next]_vars, (Sequential /\ WaitsNamedApart)'
               PROVE  StateInv'
    OBVIOUS
  <2>1. document' = document
    BY DEF Next, Start, Resume, RunUnit, Checkpoint, Advance, Suspend, Fail, Finish, Crash,
           TimerElapses, vars
  <2>2. Sequential /\ WaitsNamedApart
    BY <2>1 DEF Sequential, WaitsNamedApart, Waits
  <2> QED BY <2>2, StateNext DEF IInv
<1>3. Inv => StateIsTrail
  BY DEF StateInv, StateIsTrail
<1> HIDE DEF Inv
<1> QED BY <1>1, <1>2, <1>3, Invariant, PTL DEF Spec
=============================================================================
