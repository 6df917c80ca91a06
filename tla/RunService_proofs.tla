-------------------------- MODULE RunService_proofs --------------------------
(***************************************************************************)
(* Theorems about RunService, for every finite set of calls, any run ids   *)
(* and callers of shutdown, and every bound on events and faults.          *)
(***************************************************************************)
EXTENDS RunService, FiniteSetTheorems, TLAPS

-----------------------------------------------------------------------------
(* The inductive invariant *)

Outcomes == {"completed", "suspended", "failed"}
Phases == Ended \union {"idle", "starting", "looping", "recording", "finishing"}
Threads == {"free", "called", "read", "done", "raised"}
Ops == {"start", "record_event", "finish"}
Entry == Calls \X (1..MaxEvents)

Record == [start : Nat, owner : Calls \union {Nobody}, status : Statuses, log : Seq(Entry)]
CallType == [pc : Phases, events : 0..MaxEvents, outcome : Outcomes \union {"none"}]
Thread == [pc : Threads, op : Ops, saw : Record]
StreamType == [pc : {"open", "ended", "error", "closed"}, got : Nat]

Types ==
  /\ setup \in Setups
  /\ history \in [Ids -> Record]
  /\ call \in [Calls -> CallType]
  /\ thread \in [Calls -> Thread]
  /\ stream \in [Calls -> StreamType]
  /\ ready \in BOOLEAN /\ active \in Nat
  /\ shutdown \in [Shutdowns -> {"idle", "waiting", "drained", "timed_out"}]
  /\ shared \subseteq Ids /\ faults \in 0..MaxFaults

Writes(c, op) == Busy(c) /\ thread[c].op = op

\* Which method the thread of a call is in.
CallInv(c) ==
  /\ call[c].pc \in {"idle", "refused"} => thread[c].pc = "free" /\ call[c].events = 0
  /\ call[c].pc = "starting" => thread[c].op = "start" /\ thread[c].pc # "free"
                                /\ call[c].events = 0
  /\ call[c].pc = "looping" => thread[c].pc = "done"
  /\ call[c].pc = "recording" => thread[c].op = "record_event" \/ ~ Busy(c)
  /\ call[c].pc = "finishing" => thread[c].op = "finish" \/ ~ Busy(c)
  /\ call[c].pc = "finishing" => call[c].outcome # "none"
  /\ call[c].pc \in {"returned", "raised"} => ~ Busy(c)
  /\ call[c].pc = "returned" => call[c].outcome \in {"completed", "suspended"}
  /\ Writes(c, "start") => call[c].events = 0 /\ thread[c].pc = "called"
  /\ Writes(c, "record_event") => call[c].events > 0
  /\ Writes(c, "finish") => call[c].outcome # "none"
  /\ setup.store = "postgres" => thread[c].pc # "read"

\* A call has asked for its record.
Begun(c) == call[c].pc \notin {"idle", "refused"} /\ ~ Writes(c, "start")

\* Its start is written.
Past(c) ==
  \/ call[c].pc \in {"looping", "recording", "finishing", "returned"}
  \/ call[c].pc = "starting" /\ thread[c].pc = "done"
  \/ Writes(c, "record_event") \/ Writes(c, "finish")

StartInv(i) ==
  /\ \A c \in Calls : Id(c) = i /\ Past(c) => history[i].owner # Nobody
  /\ IsFiniteSet({c \in Calls : Begun(c)})
  /\ history[i].start <= Cardinality({c \in Calls : Begun(c)})
  /\ history[i].owner = Nobody <=> history[i].status = "absent"
  /\ history[i].owner \in Calls =>
       LET c == history[i].owner IN
       /\ Id(c) = i /\ Begun(c)
       /\ call[c].pc = "starting" => thread[c].pc = "done"
       /\ thread[c].pc = "read" => thread[c].saw.start = history[i].start
       /\ call[c].pc = "finishing" /\ ~ Busy(c) /\ thread[c].pc = "done" => history[i].status # "running"
       /\ call[c].pc \in {"returned", "raised"} => history[i].status # "running"

\* The events of a log are those that are written, in their order.
Ordered(log) ==
  /\ \A j \in DOMAIN log :
       /\ log[j][2] <= call[log[j][1]].events
       /\ Writes(log[j][1], "record_event") => log[j][2] < call[log[j][1]].events
  /\ \A j, k \in DOMAIN log : j < k /\ log[j][1] = log[k][1] => log[j][2] < log[k][2]

LogInv ==
  /\ \A i \in Ids : Ordered(history[i].log)
  /\ \A c \in Calls : thread[c].pc = "read" => Ordered(thread[c].saw.log)

\* A record that one call has to itself.
Own(i, c) ==
  LET log == history[i].log IN
  /\ log = [k \in 1..Len(log) |-> <<c, k>>]
  /\ Len(log) <= call[c].events /\ Len(log) >= call[c].events - 1
  /\ Writes(c, "record_event") => Len(log) = call[c].events - 1
  /\ call[c].pc \in {"starting", "looping", "returned"} => Len(log) = call[c].events
  /\ call[c].pc = "recording" /\ thread[c].pc = "done" => Len(log) = call[c].events
  /\ call[c].pc = "finishing" /\ call[c].outcome # "failed" => Len(log) = call[c].events
  /\ thread[c].pc = "read" => thread[c].saw = history[i]
  /\ call[c].pc \in {"starting", "looping", "recording"} => history[i].status = "running"
  /\ Writes(c, "finish") => history[i].status = "running"
  /\ call[c].pc = "finishing" /\ thread[c].pc = "done" => history[i].status = call[c].outcome
  /\ call[c].pc \in {"returned", "raised"} => history[i].status = call[c].outcome

AtWork(c) == UnderWay(c) \/ Busy(c)

OwnInv ==
  \A i \in Ids \ shared :
    /\ \A c, d \in Calls : Id(c) = i /\ Id(d) = i /\ AtWork(c) /\ AtWork(d) => c = d
    /\ \A c \in Calls : Id(c) = i /\ AtWork(c) /\ Begun(c) /\ ~ (call[c].pc = "starting" /\ thread[c].pc = "raised")
         => history[i].owner = c
    /\ history[i].owner \in Calls => Own(i, history[i].owner)

StreamInv ==
  \A c \in Calls :
    /\ stream[c].got <= call[c].events
    /\ Kind(c) = "run_stream" /\ stream[c].got > 0 => call[c].pc = "returned"
    /\ stream[c].pc = "ended" => call[c].pc = "returned" /\ stream[c].got = call[c].events
    /\ stream[c].pc = "error" /\ Kind(c) = "stream_run" =>
         call[c].pc \in Ended /\ stream[c].got = call[c].events

HostInv ==
  /\ active = Cardinality({c \in Calls : Kind(c) = "execute" /\ UnderWay(c)})
  /\ \A s \in Shutdowns : shutdown[s] # "idle" => ~ ready
  /\ \A s \in Shutdowns : shutdown[s] = "drained" => active = 0

IInv == /\ Types /\ \A c \in Calls : CallInv(c)
        /\ \A i \in Ids : StartInv(i)
        /\ LogInv /\ OwnInv /\ StreamInv /\ HostInv

-----------------------------------------------------------------------------
(* The steps of a call, by what they do to it and to its thread *)

LEMMA ConstantFacts ==
  /\ MaxEvents \in Nat /\ MaxFaults \in Nat /\ IsFiniteSet(Calls) /\ Nobody \notin Calls
  /\ setup \in Setups => /\ setup.kind \in [Calls -> Kinds] /\ setup.id \in [Calls -> Ids]
                         /\ setup.store \in Stores
                         /\ \A c \in Calls : Id(c) \in Ids /\ Kind(c) \in Kinds
BY RunServiceAssumption DEF Id, Kind

Keeps(c, y) == y.events = call[c].events /\ y.outcome = call[c].outcome

CallStep(c, y, z) ==
  \/ /\ call[c].pc = "idle" /\ y.pc = "refused" /\ Keeps(c, y) /\ z = thread[c]
  \/ /\ call[c].pc = "idle" /\ y.pc = "starting" /\ Keeps(c, y)
     /\ z.pc = "called" /\ z.op = "start"
  \/ /\ call[c].pc = "starting" /\ thread[c].pc = "done"
     /\ y.pc \in {"looping", "left_running"} /\ Keeps(c, y) /\ z = thread[c]
  \/ /\ call[c].pc = "starting" /\ thread[c].pc = "raised"
     /\ y.pc = "raised" /\ Keeps(c, y) /\ z = thread[c]
  \/ /\ call[c].pc = "looping" /\ y.pc = "recording"
     /\ y.events = call[c].events + 1 /\ y.outcome = call[c].outcome
     /\ z.pc = "called" /\ z.op = "record_event"
  \/ /\ call[c].pc = "recording" /\ thread[c].pc = "done"
     /\ y.pc = "looping" /\ Keeps(c, y) /\ z = thread[c]
  \/ /\ \/ call[c].pc = "looping"
        \/ call[c].pc = "recording" /\ thread[c].pc = "raised" /\ y.outcome = "failed"
     /\ y.pc = "finishing" /\ y.events = call[c].events /\ y.outcome \in Outcomes
     /\ z.pc = "called" /\ z.op = "finish"
  \/ /\ call[c].pc = "finishing" /\ thread[c].pc = "done"
     /\ y.pc = (IF call[c].outcome = "failed" THEN "raised" ELSE "returned")
     /\ Keeps(c, y) /\ z = thread[c]
  \/ /\ call[c].pc = "finishing" /\ thread[c].pc = "raised"
     /\ y.pc = "left_running" /\ Keeps(c, y) /\ z = thread[c]
  \/ /\ UnderWay(c) /\ y.pc = "left_running" /\ Keeps(c, y)
     /\ z = thread[c] \/ (setup.store = "postgres" /\ z.pc = "free")

Calls1(c) ==
  \/ Unauthorized(c) \/ Refuse(c) \/ Begin(c) \/ Step(c) \/ Cancel(c)
  \/ (Close(c) /\ UnderWay(c))

Moved(c, y, z) ==
  /\ y \in CallType /\ z \in Thread
  /\ call' = [call EXCEPT ![c] = y] /\ thread' = [thread EXCEPT ![c] = z]
  /\ setup' = setup /\ history' = history /\ faults' = faults

LEMMA FreeType ==
  /\ Absent \in Record /\ Free \in Thread
  /\ \A pc \in Threads : [Free EXCEPT !.pc = pc] \in Thread /\ [Free EXCEPT !.pc = pc].pc = pc
                         /\ [Free EXCEPT !.pc = pc].op = "start"
  /\ \A op \in Ops : /\ [Free EXCEPT !.pc = "called", !.op = op] \in Thread
                     /\ [Free EXCEPT !.pc = "called", !.op = op].pc = "called"
                     /\ [Free EXCEPT !.pc = "called", !.op = op].op = op
<1>1. Absent \in Record
  BY DEF Absent, Record, Statuses
<1> QED BY <1>1 DEF Free, Thread, Threads, Ops

LEMMA CallFields ==
  ASSUME NEW u \in CallType, NEW pc \in Phases, NEW o \in Outcomes
  PROVE  /\ [u EXCEPT !.pc = pc] \in CallType /\ [u EXCEPT !.pc = pc].pc = pc
         /\ [u EXCEPT !.pc = pc].events = u.events /\ [u EXCEPT !.pc = pc].outcome = u.outcome
         /\ [u EXCEPT !.pc = pc, !.outcome = o] \in CallType
         /\ [u EXCEPT !.pc = pc, !.outcome = o].pc = pc
         /\ [u EXCEPT !.pc = pc, !.outcome = o].events = u.events
         /\ [u EXCEPT !.pc = pc, !.outcome = o].outcome = o
BY DEF CallType

LEMMA PcStep ==
  ASSUME Types, NEW c \in Calls, NEW pc \in Phases, NEW z \in Thread,
         call' = [call EXCEPT ![c].pc = pc], thread' = [thread EXCEPT ![c] = z],
         setup' = setup, history' = history, faults' = faults
  PROVE  \E y : Moved(c, y, z) /\ y.pc = pc /\ Keeps(c, y)
<1> DEFINE y == [call[c] EXCEPT !.pc = pc]
<1>1. call[c] \in CallType
  BY DEF Types
<1>2. y \in CallType /\ y.pc = pc /\ y.events = call[c].events /\ y.outcome = call[c].outcome
  BY <1>1 DEF CallType
<1>3. call' = [call EXCEPT ![c] = y]
  OBVIOUS
<1> HIDE DEF y
<1> QED BY <1>2, <1>3 DEF Moved, Keeps

\* A thread that stays as it is.
LEMMA SameThread ==
  ASSUME Types, NEW c \in Calls, thread' = thread
  PROVE  thread[c] \in Thread /\ thread' = [thread EXCEPT ![c] = thread[c]]
BY DEF Types

LEMMA CallSteps ==
  ASSUME Types, NEW c \in Calls, Calls1(c)
  PROVE  \E y, z : Moved(c, y, z) /\ CallStep(c, y, z)
<1>1. CASE Unauthorized(c) \/ Refuse(c)
  <2>1. call' = [call EXCEPT ![c].pc = "refused"] /\ thread' = thread /\ call[c].pc = "idle"
        /\ setup' = setup /\ history' = history /\ faults' = faults
    BY <1>1 DEF Unauthorized, Refuse
  <2>2. \E y : Moved(c, y, thread[c]) /\ y.pc = "refused" /\ Keeps(c, y)
    BY <2>1, SameThread, PcStep DEF Phases, Ended
  <2> QED BY <2>1, <2>2 DEF CallStep
<1>2. CASE Begin(c)
  <2> DEFINE z == [Free EXCEPT !.pc = "called", !.op = "start"]
  <2>1. call' = [call EXCEPT ![c].pc = "starting"] /\ thread' = [thread EXCEPT ![c] = z]
        /\ call[c].pc = "idle" /\ setup' = setup /\ history' = history /\ faults' = faults
    BY <1>2 DEF Begin, Calling
  <2>2. z \in Thread /\ z.pc = "called" /\ z.op = "start"
    BY FreeType DEF Ops
  <2> HIDE DEF z
  <2>3. \E y : Moved(c, y, z) /\ y.pc = "starting" /\ Keeps(c, y)
    BY <2>1, <2>2, PcStep DEF Phases
  <2> QED BY <2>1, <2>2, <2>3 DEF CallStep
<1>3. CASE SetUp(c)
  <2>1. PICK pc \in {"looping", "left_running"} : call' = [call EXCEPT ![c].pc = pc]
    BY <1>3 DEF SetUp, Ends
  <2>2. thread' = thread /\ call[c].pc = "starting" /\ thread[c].pc = "done"
        /\ setup' = setup /\ history' = history /\ faults' = faults
    BY <1>3 DEF SetUp, Waiting
  <2>3. \E y : Moved(c, y, thread[c]) /\ y.pc = pc /\ Keeps(c, y)
    BY <2>1, <2>2, SameThread, PcStep DEF Phases, Ended
  <2> QED BY <2>2, <2>3 DEF CallStep
<1>4. CASE StartRaises(c)
  <2>1. call' = [call EXCEPT ![c].pc = "raised"]
    BY <1>4 DEF StartRaises, Ends
  <2>2. thread' = thread /\ call[c].pc = "starting" /\ thread[c].pc = "raised"
        /\ setup' = setup /\ history' = history /\ faults' = faults
    BY <1>4 DEF StartRaises, Waiting
  <2>3. \E y : Moved(c, y, thread[c]) /\ y.pc = "raised" /\ Keeps(c, y)
    BY <2>1, <2>2, SameThread, PcStep DEF Phases, Ended
  <2> QED BY <2>2, <2>3 DEF CallStep
<1>5. CASE Event(c)
  <2> DEFINE z == [Free EXCEPT !.pc = "called", !.op = "record_event"]
             y == [call[c] EXCEPT !.pc = "recording", !.events = call[c].events + 1]
  <2>1. call' = [call EXCEPT ![c] = y] /\ thread' = [thread EXCEPT ![c] = z]
        /\ call[c].pc = "looping" /\ setup' = setup /\ history' = history /\ faults' = faults
        /\ call[c].events < MaxEvents
    BY <1>5 DEF Event, Calling
  <2>2. z \in Thread /\ z.pc = "called" /\ z.op = "record_event"
    BY FreeType DEF Ops
  <2>3. call[c] \in CallType
    BY DEF Types
  <2>4. call[c].events + 1 \in 0..MaxEvents
    BY <2>1, <2>3, ConstantFacts DEF CallType
  <2>5. y \in CallType /\ y.pc = "recording" /\ y.events = call[c].events + 1
        /\ y.outcome = call[c].outcome
    BY <2>3, <2>4 DEF CallType, Phases
  <2> HIDE DEF y, z
  <2> QED BY <2>1, <2>2, <2>5 DEF CallStep, Moved
<1>6. CASE EventRecorded(c)
  <2>1. call' = [call EXCEPT ![c].pc = "looping"]
    BY <1>6 DEF EventRecorded
  <2>2. thread' = thread /\ call[c].pc = "recording" /\ thread[c].pc = "done"
        /\ setup' = setup /\ history' = history /\ faults' = faults
    BY <1>6 DEF EventRecorded, Waiting
  <2>3. \E y : Moved(c, y, thread[c]) /\ y.pc = "looping" /\ Keeps(c, y)
    BY <2>1, <2>2, SameThread, PcStep DEF Phases, Ended
  <2> QED BY <2>2, <2>3 DEF CallStep
<1>7. CASE RunnerEnds(c)
  <2> DEFINE z == [Free EXCEPT !.pc = "called", !.op = "finish"]
  <2>1. PICK outcome \in Outcomes :
          /\ call[c].pc = "looping" \/ (outcome = "failed" /\ Waiting(c, "recording", "raised"))
          /\ call' = [call EXCEPT ![c].pc = "finishing", ![c].outcome = outcome]
    BY <1>7 DEF RunnerEnds, Outcomes
  <2> DEFINE y == [call[c] EXCEPT !.pc = "finishing", !.outcome = outcome]
  <2>2. call' = [call EXCEPT ![c] = y] /\ thread' = [thread EXCEPT ![c] = z]
        /\ setup' = setup /\ history' = history /\ faults' = faults
    BY <1>7, <2>1 DEF RunnerEnds, Calling
  <2>3. z \in Thread /\ z.pc = "called" /\ z.op = "finish"
    BY FreeType DEF Ops
  <2>4. call[c] \in CallType
    BY DEF Types
  <2>5. y \in CallType /\ y.pc = "finishing" /\ y.events = call[c].events /\ y.outcome = outcome
    BY <2>4 DEF CallType, Phases, Outcomes
  <2> HIDE DEF y, z
  <2> QED BY <2>1, <2>2, <2>3, <2>5 DEF CallStep, Moved, Waiting
<1>8. CASE Finished(c)
  <2>1. PICK pc \in {"raised", "returned", "left_running"} :
          /\ call' = [call EXCEPT ![c].pc = pc] /\ call[c].pc = "finishing"
          /\ \/ thread[c].pc = "done" /\ pc = (IF call[c].outcome = "failed" THEN "raised" ELSE "returned")
             \/ thread[c].pc = "raised" /\ pc = "left_running"
    BY <1>8 DEF Finished, Ends, Waiting
  <2>2. thread' = thread /\ setup' = setup /\ history' = history /\ faults' = faults
    BY <1>8 DEF Finished
  <2>3. \E y : Moved(c, y, thread[c]) /\ y.pc = pc /\ Keeps(c, y)
    BY <2>1, <2>2, SameThread, PcStep DEF Phases, Ended
  <2> QED BY <2>1, <2>3 DEF CallStep
<1>9. ASSUME Cancel(c) \/ (Close(c) /\ UnderWay(c))
      PROVE  \E y, z : Moved(c, y, z) /\ CallStep(c, y, z)
  <2>1. UnderWay(c) /\ call' = [call EXCEPT ![c].pc = "left_running"]
        /\ thread' = (IF setup.store = "postgres" THEN [thread EXCEPT ![c] = Free] ELSE thread)
        /\ setup' = setup /\ history' = history /\ faults' = faults
    BY <1>9 DEF Cancel, Close, Abandon, Ends
  <2>2. PICK z \in Thread : /\ thread' = [thread EXCEPT ![c] = z]
                            /\ z = thread[c] \/ (setup.store = "postgres" /\ z.pc = "free")
    <3>1. Free \in Thread /\ Free.pc = "free"
      BY FreeType DEF Free
    <3> QED BY <2>1, <3>1, SameThread
  <2>3. \E y : Moved(c, y, z) /\ y.pc = "left_running" /\ Keeps(c, y)
    BY <2>1, <2>2, PcStep DEF Phases, Ended
  <2> QED BY <2>1, <2>2, <2>3 DEF CallStep
<1> QED BY <1>1, <1>2, <1>3, <1>4, <1>5, <1>6, <1>7, <1>8, <1>9 DEF Calls1, Step

LEMMA MovedFacts ==
  ASSUME Types, NEW c \in Calls, NEW y, NEW z, Moved(c, y, z)
  PROVE  /\ call'[c] = y /\ thread'[c] = z
         /\ \A d \in Calls \ {c} : call'[d] = call[d] /\ thread'[d] = thread[d]
         /\ \A d \in Calls : Id(d)' = Id(d) /\ Kind(d)' = Kind(d)
         /\ setup' = setup
BY DEF Types, Moved, Id, Kind

\* A step of the thread of a call.
Turned(c, z) ==
  /\ z \in Thread /\ thread' = [thread EXCEPT ![c] = z]
  /\ setup' = setup /\ call' = call

LEMMA TurnedFacts ==
  ASSUME Types, NEW c \in Calls, NEW z, Turned(c, z)
  PROVE  /\ thread'[c] = z /\ call' = call /\ setup' = setup
         /\ \A d \in Calls \ {c} : thread'[d] = thread[d]
         /\ \A d \in Calls : Id(d)' = Id(d) /\ Kind(d)' = Kind(d)
BY DEF Types, Turned, Id, Kind

LEMMA CallTypes ==
  ASSUME Types, NEW c \in Calls
  PROVE  /\ call[c] \in CallType /\ call[c].pc \in Phases /\ call[c].events \in 0..MaxEvents
         /\ call[c].outcome \in Outcomes \union {"none"}
         /\ thread[c] \in Thread /\ thread[c].pc \in Threads /\ thread[c].op \in Ops
         /\ thread[c].saw \in Record /\ thread[c].saw.log \in Seq(Entry)
         /\ stream[c].got \in Nat
<1>1. call[c] \in CallType /\ thread[c] \in Thread /\ stream[c] \in StreamType
  BY DEF Types
<1> QED BY <1>1 DEF CallType, Thread, Record, StreamType

LEMMA RowTypes ==
  ASSUME Types, NEW i \in Ids
  PROVE  /\ history[i] \in Record /\ history[i].start \in Nat
         /\ history[i].owner \in Calls \union {Nobody}
         /\ history[i].status \in Statuses /\ history[i].log \in Seq(Entry)
BY DEF Types, Record

-----------------------------------------------------------------------------
(* CallInv *)

LEMMA CallInvKept ==
  ASSUME NEW c, call'[c] = call[c], thread'[c] = thread[c], setup' = setup, CallInv(c)
  PROVE  CallInv(c)'
BY DEF CallInv, Writes, Busy

LEMMA CallInvMoved ==
  ASSUME Types, NEW c \in Calls, NEW y, NEW z, Moved(c, y, z), CallStep(c, y, z),
         \A d \in Calls : CallInv(d)
  PROVE  \A d \in Calls : CallInv(d)'
<1>1. \A d \in Calls \ {c} : CallInv(d)'
  BY MovedFacts, CallInvKept
<1>2. CallInv(c)'
  <2>1. call'[c] = y /\ thread'[c] = z /\ setup' = setup
    BY MovedFacts
  <2>2. y.events \in Nat /\ call[c].events \in Nat /\ call[c].outcome \in Outcomes \union {"none"}
    BY ConstantFacts, CallTypes DEF Moved, CallType
  <2>3. CallInv(c)
    OBVIOUS
  <2> QED BY <2>1, <2>2, <2>3 DEF CallInv, CallStep, Keeps, Writes, Busy, Outcomes, Ended, UnderWay
<1> QED BY <1>1, <1>2

LEMMA ReadTurns ==
  ASSUME Types, NEW c \in Calls, Read(c)
  PROVE  \E z : /\ Turned(c, z) /\ z.pc = "read" /\ z.op = thread[c].op /\ z.saw = Row(c)
                /\ thread[c].pc = "called" /\ thread[c].op # "start"
                /\ setup.store # "postgres" /\ history' = history
<1> DEFINE z == [thread[c] EXCEPT !.pc = "read", !.saw = Row(c)]
<1>1. thread[c] \in Thread /\ Row(c) \in Record
  BY CallTypes, ConstantFacts, RowTypes DEF Row, Types
<1>2. z \in Thread /\ z.pc = "read" /\ z.op = thread[c].op /\ z.saw = Row(c)
  BY <1>1 DEF Thread, Threads
<1>3. thread' = [thread EXCEPT ![c] = z] /\ setup' = setup /\ call' = call
  BY DEF Read
<1> HIDE DEF z
<1> QED BY <1>2, <1>3 DEF Turned, Read

LEMMA WriteTurns ==
  ASSUME Types, NEW c \in Calls, Write(c) \/ WriteRaises(c)
  PROVE  \E z : /\ Turned(c, z) /\ z.op = "start"
                /\ \/ Write(c) /\ z.pc = "done"
                   \/ WriteRaises(c) /\ z.pc = "raised"
                /\ Busy(c)
<1>1. CASE Write(c)
  BY <1>1, FreeType DEF Write, CanWrite, Busy, Answer, Turned, Threads
<1>2. CASE WriteRaises(c)
  BY <1>2, FreeType DEF WriteRaises, Answer, Turned, Threads
<1> QED BY <1>1, <1>2

LEMMA CallInvTurned ==
  ASSUME Types, NEW c \in Calls, Read(c) \/ Write(c) \/ WriteRaises(c),
         \A d \in Calls : CallInv(d)
  PROVE  \A d \in Calls : CallInv(d)'
<1>1. PICK z : /\ Turned(c, z)
               /\ \/ /\ z.pc = "read" /\ z.op = thread[c].op /\ thread[c].op # "start"
                     /\ setup.store # "postgres"
                  \/ z.pc \in {"done", "raised"} /\ z.op = "start"
               /\ Busy(c)
  BY ReadTurns, WriteTurns DEF Busy
<1>2. \A d \in Calls \ {c} : CallInv(d)'
  BY <1>1, TurnedFacts, CallInvKept
<1>3. CallInv(c)'
  <2>1. call'[c] = call[c] /\ thread'[c] = z /\ setup' = setup /\ CallInv(c)
    BY <1>1, TurnedFacts
  <2> QED BY <1>1, <2>1 DEF CallInv, Writes, Busy
<1> QED BY <1>2, <1>3

-----------------------------------------------------------------------------
(* StartInv *)

BegunSet == {c \in Calls : Begun(c)}

LEMMA BegunGrows ==
  ASSUME IsFiniteSet(Calls), \A d \in Calls : Begun(d) => Begun(d)', IsFiniteSet(BegunSet)
  PROVE  IsFiniteSet(BegunSet') /\ Cardinality(BegunSet) <= Cardinality(BegunSet')
         /\ Cardinality(BegunSet) \in Nat /\ Cardinality(BegunSet') \in Nat
<1>1. BegunSet \subseteq BegunSet' /\ BegunSet' \subseteq Calls
  BY DEF BegunSet
<1>2. IsFiniteSet(BegunSet')
  BY <1>1, FS_Subset
<1> QED BY <1>1, <1>2, FS_Subset, FS_CardinalityType

LEMMA BegunOneMore ==
  ASSUME IsFiniteSet(Calls), \A d \in Calls : Begun(d) => Begun(d)', IsFiniteSet(BegunSet),
         NEW c \in Calls, ~ Begun(c), Begun(c)'
  PROVE  IsFiniteSet(BegunSet') /\ Cardinality(BegunSet) + 1 <= Cardinality(BegunSet')
         /\ Cardinality(BegunSet) \in Nat /\ Cardinality(BegunSet') \in Nat
<1>1. BegunSet \union {c} \subseteq BegunSet' /\ BegunSet' \subseteq Calls /\ c \notin BegunSet
  BY DEF BegunSet
<1>2. IsFiniteSet(BegunSet')
  BY <1>1, FS_Subset
<1>3. Cardinality(BegunSet \union {c}) = Cardinality(BegunSet) + 1
  BY <1>1, FS_AddElement
<1> QED BY <1>1, <1>2, <1>3, FS_Subset, FS_CardinalityType

\* What StartInv says of the call that owns a record.
OwnerStarted(i) ==
  history[i].owner \in Calls =>
    LET c == history[i].owner IN
    /\ Id(c) = i /\ Begun(c)
    /\ call[c].pc = "starting" => thread[c].pc = "done"
    /\ thread[c].pc = "read" => thread[c].saw.start = history[i].start
    /\ call[c].pc = "finishing" /\ ~ Busy(c) /\ thread[c].pc = "done" => history[i].status # "running"
    /\ call[c].pc \in {"returned", "raised"} => history[i].status # "running"

LEMMA BegunMoved ==
  ASSUME Types, NEW c \in Calls, NEW y, NEW z, Moved(c, y, z), CallStep(c, y, z),
         \A d \in Calls : CallInv(d)
  PROVE  \A d \in Calls : (Begun(d) => Begun(d)') /\ (Past(d)' => Past(d))
<1>1. \A d \in Calls \ {c} : (Begun(d) => Begun(d)') /\ (Past(d)' => Past(d))
  BY MovedFacts DEF Begun, Past, Writes, Busy
<1>2. call'[c] = y /\ thread'[c] = z /\ CallInv(c)
  BY MovedFacts
<1>3. (Begun(c) => Begun(c)') /\ (Past(c)' => Past(c))
  BY <1>2 DEF CallInv, CallStep, Keeps, Begun, Past, Writes, Busy, Ended, UnderWay
<1> QED BY <1>1, <1>3

LEMMA StartInvMoved ==
  ASSUME Types, NEW c \in Calls, NEW y, NEW z, Moved(c, y, z), CallStep(c, y, z),
         \A d \in Calls : CallInv(d), \A i \in Ids : StartInv(i)
  PROVE  \A i \in Ids : StartInv(i)'
<1> SUFFICES ASSUME NEW i \in Ids PROVE StartInv(i)'
  OBVIOUS
<1>1. StartInv(i) /\ history' = history
  BY DEF Moved
<1>2. \A d \in Calls : (Begun(d) => Begun(d)') /\ (Past(d)' => Past(d)) /\ Id(d)' = Id(d)
  BY BegunMoved, MovedFacts
<1>3. /\ IsFiniteSet(BegunSet') /\ Cardinality(BegunSet) <= Cardinality(BegunSet')
      /\ Cardinality(BegunSet) \in Nat /\ Cardinality(BegunSet') \in Nat
  BY <1>1, <1>2, BegunGrows, ConstantFacts DEF StartInv, BegunSet
<1>4. history[i].start \in Nat
  BY RowTypes
<1>5. history[i].start <= Cardinality(BegunSet)'
  BY <1>1, <1>3, <1>4 DEF StartInv, BegunSet
<1>6. OwnerStarted(i)'
  <2> SUFFICES ASSUME NEW d \in Calls, history[i].owner = d
               PROVE  /\ Id(d)' = i /\ Begun(d)'
                      /\ call'[d].pc = "starting" => thread'[d].pc = "done"
                      /\ thread'[d].pc = "read" => thread'[d].saw.start = history[i].start
                      /\ (call[d].pc = "finishing" /\ ~ Busy(d) /\ thread[d].pc = "done")'
                           => history[i].status # "running"
                      /\ call'[d].pc \in {"returned", "raised"} => history[i].status # "running"
    BY <1>1 DEF OwnerStarted
  <2>1. /\ Id(d)' = i /\ Begun(d) /\ Begun(d)' /\ CallInv(d)
        /\ call[d].pc = "starting" => thread[d].pc = "done"
        /\ thread[d].pc = "read" => thread[d].saw.start = history[i].start
        /\ call[d].pc = "finishing" /\ ~ Busy(d) /\ thread[d].pc = "done" => history[i].status # "running"
        /\ call[d].pc \in {"returned", "raised"} => history[i].status # "running"
    BY <1>1, <1>2 DEF StartInv
  <2>2. CASE d # c
    <3>1. call'[d] = call[d] /\ thread'[d] = thread[d]
      BY <2>2, MovedFacts
    <3> QED BY <2>1, <3>1 DEF Busy
  <2>3. CASE d = c
    <3>1. call'[d] = y /\ thread'[d] = z
      BY <2>3, MovedFacts
    <3> QED BY <2>1, <2>3, <3>1 DEF CallStep, Begun, Busy, Ended, UnderWay, CallInv
  <2> QED BY <2>2, <2>3
<1> QED BY <1>1, <1>2, <1>3, <1>5, <1>6 DEF StartInv, OwnerStarted, BegunSet

LEMMA BegunTurned ==
  ASSUME Types, NEW c \in Calls, Read(c) \/ Write(c) \/ WriteRaises(c),
         \A d \in Calls : CallInv(d)
  PROVE  /\ \A d \in Calls : Begun(d) => Begun(d)'
         /\ \A d \in Calls \ {c} : Past(d)' => Past(d)
         /\ Past(c)' => Past(c) \/ (Write(c) /\ thread[c].op = "start")
<1>1. PICK z : /\ Turned(c, z)
               /\ \/ /\ z.pc = "read" /\ z.op = thread[c].op /\ thread[c].op # "start"
                     /\ thread[c].pc = "called"
                  \/ z.pc = "done" /\ z.op = "start" /\ Write(c)
                  \/ z.pc = "raised" /\ z.op = "start"
               /\ Busy(c)
  BY ReadTurns, WriteTurns DEF Busy
<1>2. \A d \in Calls \ {c} : (Begun(d) => Begun(d)') /\ (Past(d)' => Past(d))
  BY <1>1, TurnedFacts DEF Begun, Past, Writes, Busy
<1>3. call'[c] = call[c] /\ thread'[c] = z /\ CallInv(c) /\ thread[c].op \in Ops
  BY <1>1, TurnedFacts, CallTypes
<1>4. Begun(c) => Begun(c)'
  BY <1>1, <1>3 DEF Begun, Writes, Busy
<1>5. Past(c)' => Past(c) \/ (Write(c) /\ thread[c].op = "start")
  BY <1>1, <1>3 DEF Past, Writes, Busy, Ops
<1> QED BY <1>2, <1>4, <1>5

\* What a write does to its record.
SameButLog(r, q) == r.start = q.start /\ r.owner = q.owner /\ r.status = q.status
SameButStatus(r, q) == r.start = q.start /\ r.owner = q.owner /\ r.log = q.log
Stale(c) == setup.store = "memory" /\ thread[c].saw.start # Row(c).start

LEMMA WriteRow ==
  ASSUME Types, NEW c \in Calls, Write(c)
  PROVE  /\ history' = [history EXCEPT ![Id(c)] = Written(c)]
         /\ Id(c) \in Ids /\ history'[Id(c)] = Written(c) /\ Row(c) \in Record
         /\ \A i \in Ids \ {Id(c)} : history'[i] = history[i]
         /\ thread[c].op = "start" =>
              /\ Written(c).start = Row(c).start + 1 /\ Written(c).owner = c
              /\ Written(c).status = "running" /\ Written(c).log = <<>>
         /\ thread[c].op = "record_event" =>
              /\ SameButLog(Written(c), Row(c))
              /\ \/ Written(c).log = Append(Row(c).log, <<c, call[c].events>>)
                 \/ /\ setup.store = "sqlite"
                    /\ Written(c).log = Append(thread[c].saw.log, <<c, call[c].events>>)
                 \/ Stale(c) /\ Written(c).log = Row(c).log
         /\ thread[c].op = "finish" =>
              /\ SameButStatus(Written(c), Row(c))
              /\ \/ Stale(c) /\ Written(c).status = Row(c).status
                 \/ ~ Stale(c) /\ Written(c).status = call[c].outcome
         /\ setup.store # "postgres" /\ thread[c].op # "start" => thread[c].pc = "read"
<1>1. Id(c) \in Ids /\ Row(c) \in Record /\ Row(c) = history[Id(c)]
  BY ConstantFacts, RowTypes DEF Row, Types
<1>2. history' = [history EXCEPT ![Id(c)] = Written(c)] /\ history \in [Ids -> Record]
  BY DEF Write, Types
<1>3. thread[c].op = "start" =>
        /\ Written(c).start = Row(c).start + 1 /\ Written(c).owner = c
        /\ Written(c).status = "running" /\ Written(c).log = <<>>
  BY DEF Written, StartedRow
<1>4. ASSUME thread[c].op = "record_event"
      PROVE  /\ SameButLog(Written(c), Row(c))
             /\ \/ Written(c).log = Append(Row(c).log, <<c, call[c].events>>)
                \/ /\ setup.store = "sqlite"
                   /\ Written(c).log = Append(thread[c].saw.log, <<c, call[c].events>>)
                \/ Stale(c) /\ Written(c).log = Row(c).log
  <2> DEFINE new == LogWith(c, <<c, call[c].events>>)
  <2>1. Written(c) = [Row(c) EXCEPT !.log = new]
    BY <1>4 DEF Written
  <2>2. \/ new = Append(Row(c).log, <<c, call[c].events>>)
        \/ setup.store = "sqlite" /\ new = Append(thread[c].saw.log, <<c, call[c].events>>)
        \/ Stale(c) /\ new = Row(c).log
    <3>1. setup.store \in Stores
      BY ConstantFacts DEF Types
    <3>2. CASE setup.store = "postgres"
      BY <3>2 DEF LogWith
    <3>3. CASE setup.store = "sqlite"
      BY <3>3 DEF LogWith
    <3>4. CASE setup.store = "memory"
      BY <3>4 DEF LogWith, Stale
    <3> QED BY <3>1, <3>2, <3>3, <3>4 DEF Stores
  <2> HIDE DEF new
  <2>3. SameButLog(Written(c), Row(c)) /\ Written(c).log = new
    BY <1>1, <2>1 DEF Record, SameButLog
  <2> QED BY <2>2, <2>3
<1>5. ASSUME thread[c].op = "finish"
      PROVE  /\ SameButStatus(Written(c), Row(c))
             /\ \/ Stale(c) /\ Written(c).status = Row(c).status
                \/ ~ Stale(c) /\ Written(c).status = call[c].outcome
  <2>1. Written(c) = Settled(c)
    BY <1>5 DEF Written
  <2>2. CASE Stale(c)
    BY <2>1, <2>2 DEF Settled, Stale, SameButStatus
  <2>3. CASE ~ Stale(c)
    <3>1. Written(c) = [Row(c) EXCEPT !.status = call[c].outcome]
      BY <2>1, <2>3 DEF Settled, Stale
    <3> QED BY <1>1, <2>3, <3>1 DEF Record, SameButStatus
  <2> QED BY <2>2, <2>3
<1>6. setup.store # "postgres" /\ thread[c].op # "start" => thread[c].pc = "read"
  BY DEF Write, CanWrite
<1> QED BY <1>1, <1>2, <1>3, <1>4, <1>5, <1>6

\* A start is written while its call starts, or after it was cancelled.
LEMMA WriterPhases ==
  ASSUME Types, NEW c \in Calls, CallInv(c), Busy(c)
  PROVE  /\ call[c].pc \notin {"idle", "refused", "looping", "returned", "raised"}
         /\ thread[c].op = "start" =>
              call[c].pc \in {"starting", "left_running"} /\ call[c].events = 0 /\ ~ Begun(c)
         /\ thread[c].op = "record_event" =>
              /\ call[c].pc \in {"recording", "left_running"} /\ call[c].events > 0
              /\ Begun(c) /\ Past(c)
         /\ thread[c].op = "finish" =>
              /\ call[c].pc \in {"finishing", "left_running"} /\ call[c].outcome \in Outcomes
              /\ Begun(c) /\ Past(c)
BY CallTypes DEF CallInv, Busy, Writes, Begun, Past, Phases, Ended, Ops

LEMMA WriteAnswers ==
  ASSUME Types, NEW c \in Calls, Write(c)
  PROVE  thread'[c].pc = "done" /\ thread'[c].op = "start" /\ shared' \subseteq shared
<1>1. thread' = [thread EXCEPT ![c] = Answer("done")]
  BY DEF Write
<1>2. Answer("done").pc = "done" /\ Answer("done").op = "start"
  BY FreeType DEF Answer, Threads
<1> HIDE DEF Answer
<1>3. thread'[c] = Answer("done")
  BY <1>1 DEF Types
<1> QED BY <1>2, <1>3 DEF Write

LEMMA StartInvTurned ==
  ASSUME Types, NEW c \in Calls, Read(c) \/ Write(c) \/ WriteRaises(c),
         \A d \in Calls : CallInv(d), \A i \in Ids : StartInv(i)
  PROVE  \A i \in Ids : StartInv(i)'
<1> SUFFICES ASSUME NEW i \in Ids PROVE StartInv(i)'
  OBVIOUS
<1> DEFINE starts == Write(c) /\ thread[c].op = "start" /\ Id(c) = i
<1>1. PICK z : /\ Turned(c, z)
               /\ \/ /\ Read(c) /\ z.pc = "read" /\ z.op = thread[c].op /\ thread[c].op # "start"
                     /\ z.saw = Row(c) /\ thread[c].pc = "called" /\ history' = history
                  \/ z.pc = "done" /\ z.op = "start" /\ Write(c)
                  \/ z.pc = "raised" /\ z.op = "start" /\ history' = history
               /\ Busy(c)
  BY ReadTurns, WriteTurns DEF Busy, WriteRaises
<1>2. /\ call' = call /\ thread'[c] = z /\ Id(c)' = Id(c)
      /\ \A d \in Calls \ {c} : thread'[d] = thread[d] /\ Id(d)' = Id(d)
  BY <1>1, TurnedFacts
<1>0. Write(c) => z.pc = "done"
  BY <1>2, WriteAnswers
<1>3. /\ \A d \in Calls : Begun(d) => Begun(d)'
      /\ \A d \in Calls \ {c} : Past(d)' => Past(d)
      /\ Past(c)' => Past(c) \/ (Write(c) /\ thread[c].op = "start")
  BY BegunTurned
<1>4. StartInv(i) /\ Id(c) \in Ids /\ history[i].start \in Nat /\ CallInv(c)
  BY ConstantFacts, RowTypes DEF Types
<1>5. CASE starts
  <2>1. history'[i].owner = c /\ history'[i].status = "running"
        /\ history'[i].start = history[i].start + 1
    BY <1>5, WriteRow DEF Row
  <2>2. ~ Begun(c) /\ call[c].pc \in {"starting", "left_running"} /\ z.pc = "done"
    BY <1>0, <1>1, <1>4, <1>5, WriterPhases
  <2>3. Begun(c)'
    BY <1>2, <2>2 DEF Begun, Writes, Busy
  <2>4. /\ IsFiniteSet(BegunSet') /\ Cardinality(BegunSet) + 1 <= Cardinality(BegunSet')
        /\ Cardinality(BegunSet) \in Nat /\ Cardinality(BegunSet') \in Nat
    BY <1>3, <1>4, <2>2, <2>3, BegunOneMore, ConstantFacts DEF StartInv, BegunSet
  <2>5. history'[i].start <= Cardinality(BegunSet)'
    BY <1>4, <2>1, <2>4 DEF StartInv, BegunSet
  <2>6. OwnerStarted(i)'
    BY <1>2, <1>5, <2>1, <2>2, <2>3 DEF OwnerStarted
  <2> QED BY <2>1, <2>4, <2>5, <2>6, ConstantFacts DEF StartInv, OwnerStarted, BegunSet
<1>6. CASE ~ starts
  <2>1. /\ IsFiniteSet(BegunSet') /\ Cardinality(BegunSet) <= Cardinality(BegunSet')
        /\ Cardinality(BegunSet) \in Nat /\ Cardinality(BegunSet') \in Nat
    BY <1>3, <1>4, BegunGrows, ConstantFacts DEF StartInv, BegunSet
  <2>2. /\ history'[i].start = history[i].start /\ history'[i].owner = history[i].owner
        /\ \/ history'[i].status = history[i].status
           \/ /\ Id(c) = i /\ Write(c) /\ thread[c].op = "finish" /\ ~ Stale(c)
              /\ history'[i].status = call[c].outcome
    <3>1. CASE history' = history
      BY <3>1
    <3>2. CASE Write(c) /\ Id(c) # i
      BY <3>2, WriteRow
    <3>3. CASE Write(c) /\ Id(c) = i
      <4>1. thread[c].op \in {"record_event", "finish"}
        BY <1>6, <3>3, CallTypes DEF Ops
      <4> QED BY <3>3, <4>1, WriteRow DEF Row, SameButLog, SameButStatus, Stale
    <3> QED BY <1>1, <3>1, <3>2, <3>3
  <2>3. history'[i].start <= Cardinality(BegunSet)'
    BY <1>4, <2>1, <2>2 DEF StartInv, BegunSet
  <2>4. history'[i].status # history[i].status =>
          /\ history'[i].status \in Outcomes /\ history[i].owner # Nobody
    BY <1>1, <1>4, <2>2, WriterPhases DEF StartInv
  <2>5. history'[i].owner = Nobody <=> history'[i].status = "absent"
    BY <1>4, <2>2, <2>4 DEF StartInv, Outcomes
  <2>6. \A d \in Calls : Id(d)' = i /\ Past(d)' => history'[i].owner # Nobody
    BY <1>2, <1>3, <1>4, <1>6, <2>2 DEF StartInv
  <2>7. OwnerStarted(i)'
    <3> SUFFICES ASSUME NEW d \in Calls, history[i].owner = d
                 PROVE  /\ Id(d)' = i /\ Begun(d)'
                        /\ call'[d].pc = "starting" => thread'[d].pc = "done"
                        /\ thread'[d].pc = "read" => thread'[d].saw.start = history[i].start
                        /\ (call[d].pc = "finishing" /\ ~ Busy(d) /\ thread[d].pc = "done")'
                             => history'[i].status # "running"
                        /\ call'[d].pc \in {"returned", "raised"} => history'[i].status # "running"
      BY <2>2 DEF OwnerStarted
    <3>1. /\ Id(d)' = i /\ Begun(d) /\ Begun(d)' /\ CallInv(d)
          /\ call[d].pc = "starting" => thread[d].pc = "done"
          /\ thread[d].pc = "read" => thread[d].saw.start = history[i].start
          /\ call[d].pc = "finishing" /\ ~ Busy(d) /\ thread[d].pc = "done" => history[i].status # "running"
          /\ call[d].pc \in {"returned", "raised"} => history[i].status # "running"
      BY <1>2, <1>3, <1>4 DEF StartInv
    <3>2. CASE d # c
      <4>1. call'[d] = call[d] /\ thread'[d] = thread[d]
        BY <1>2, <3>2
      <4> QED BY <3>1, <2>4, <4>1 DEF Busy, Outcomes
    <3>3. CASE d = c
      <4>1. call'[d] = call[d] /\ thread'[d] = z
        BY <1>2, <3>3
      <4>2. Write(c) /\ thread[c].op = "finish" => history'[i].status \in Outcomes
        <5> SUFFICES ASSUME Write(c), thread[c].op = "finish"
                     PROVE  history'[i].status \in Outcomes
          OBVIOUS
        <5>1. ~ Stale(c)
          BY <1>2, <3>1, <3>3, WriteRow DEF Stale, Row
        <5>2. history'[i] = Written(c) /\ call[c].outcome \in Outcomes
          <6>1. Id(c) = i
            BY <1>2, <3>1, <3>3
          <6>2. call[c].outcome \in Outcomes
            BY <1>1, <1>4, WriterPhases
          <6> QED BY <6>1, <6>2, WriteRow
        <5> QED BY <5>1, <5>2, WriteRow
      <4>3. /\ call[c].pc \notin {"returned", "raised"}
            /\ call[c].pc # "starting"
            /\ call[c].pc = "finishing" => thread[c].op = "finish"
        BY <1>1, <1>4, <3>1, <3>3, WriterPhases DEF CallInv, Begun, Writes
      <4>4. z.pc = "done" => Write(c)
        BY <1>1
      <4>5. z.pc = "read" => z.saw.start = history[i].start
        BY <1>1, <1>2, <3>1, <3>3 DEF Row
      <4> QED BY <3>1, <3>3, <4>1, <4>2, <4>3, <4>4, <4>5, <1>2 DEF Busy, Outcomes
    <3> QED BY <3>2, <3>3
  <2> QED BY <2>1, <2>2, <2>3, <2>5, <2>6, <2>7 DEF StartInv, OwnerStarted, BegunSet
<1> QED BY <1>5, <1>6

-----------------------------------------------------------------------------
(* LogInv *)

\* A call's thread writes an event that its log has not got yet, or none.
Newer(d) ==
  /\ call[d].events \in Nat /\ call'[d].events \in Nat
  /\ call'[d].events >= call[d].events
  /\ Writes(d, "record_event")' => Writes(d, "record_event") \/ call'[d].events > call[d].events

LEMMA OrderedKept ==
  ASSUME NEW log \in Seq(Entry), \A d \in Calls : Newer(d), Ordered(log), MaxEvents \in Nat
  PROVE  Ordered(log)'
<1>1. ASSUME NEW j \in DOMAIN log
      PROVE  /\ log[j][2] <= call'[log[j][1]].events
             /\ Writes(log[j][1], "record_event")' => log[j][2] < call'[log[j][1]].events
  <2>1. log[j] \in Entry
    BY <1>1
  <2>2. PICK d \in Calls : log[j][1] = d
    BY <2>1 DEF Entry
  <2>3. log[j][2] \in Nat
    BY <2>1 DEF Entry
  <2>4. log[j][2] <= call[d].events /\ (Writes(d, "record_event") => log[j][2] < call[d].events)
    BY <1>1, <2>2 DEF Ordered
  <2>5. log[j][2] <= call'[d].events /\ (Writes(d, "record_event")' => log[j][2] < call'[d].events)
    BY <2>3, <2>4 DEF Newer
  <2> QED BY <2>2, <2>5
<1>2. \A j, k \in DOMAIN log : j < k /\ log[j][1] = log[k][1] => log[j][2] < log[k][2]
  BY DEF Ordered
<1> QED BY <1>1, <1>2 DEF Ordered

LEMMA OrderedAppend ==
  ASSUME NEW log \in Seq(Entry), NEW c \in Calls, NEW n \in Nat, MaxEvents \in Nat, Ordered(log),
         call[c].events = n, Writes(c, "record_event"),
         call' = call, \A d \in Calls : Writes(d, "record_event")' => Writes(d, "record_event"),
         ~ Writes(c, "record_event")'
  PROVE  Ordered(Append(log, <<c, n>>))'
<1> DEFINE e == <<c, n>>
           new == Append(log, e)
<1>1. /\ DOMAIN log = 1..Len(log) /\ Len(log) \in Nat /\ DOMAIN new = 1..(Len(log) + 1)
      /\ \A j \in 1..Len(log) : new[j] = log[j]
      /\ new[Len(log) + 1] = e
  OBVIOUS
<1> HIDE DEF new
<1>2. \A j \in DOMAIN log : log[j][1] \in Calls /\ log[j][2] \in Nat
  BY DEF Entry
<1>3. e[1] = c /\ e[2] = n
  OBVIOUS
<1> HIDE DEF e
<1>4. ASSUME NEW j \in DOMAIN new
      PROVE  /\ new[j][2] <= call[new[j][1]].events
             /\ Writes(new[j][1], "record_event")' => new[j][2] < call[new[j][1]].events
  <2>1. CASE j = Len(log) + 1
    <3>1. new[j][1] = c /\ new[j][2] = n
      BY <1>1, <1>3, <2>1
    <3> QED BY <3>1
  <2>2. CASE j \in 1..Len(log)
    <3>1. PICK d \in Calls : new[j][1] = d /\ log[j][1] = d
      BY <1>1, <1>2, <2>2
    <3>2. log[j][2] <= call[d].events /\ (Writes(d, "record_event") => log[j][2] < call[d].events)
      BY <1>1, <2>2, <3>1 DEF Ordered
    <3> QED BY <1>1, <2>2, <3>1, <3>2
  <2> QED BY <1>1, <2>1, <2>2
<1>5. ASSUME NEW j \in DOMAIN new, NEW k \in DOMAIN new, j < k, new[j][1] = new[k][1]
      PROVE  new[j][2] < new[k][2]
  <2>1. j \in DOMAIN log /\ new[j] = log[j]
    BY <1>1, <1>5
  <2>2. CASE k = Len(log) + 1
    <3>1. new[k][1] = c /\ new[k][2] = n /\ log[j][1] = c
      BY <1>1, <1>3, <1>5, <2>1, <2>2
    <3> QED BY <2>1, <3>1 DEF Ordered
  <2>3. CASE k \in 1..Len(log)
    BY <1>1, <1>5, <2>1, <2>3 DEF Ordered
  <2> QED BY <1>1, <2>2, <2>3
<1>6. Ordered(new)'
  <2>1. call' = call
    OBVIOUS
  <2> QED BY <1>4, <1>5, <2>1 DEF Ordered, new, e
<1> QED BY <1>6 DEF new, e

LEMMA NewerMoved ==
  ASSUME Types, NEW c \in Calls, NEW y, NEW z, Moved(c, y, z), CallStep(c, y, z)
  PROVE  \A d \in Calls : Newer(d) /\ (thread'[d].pc = "read" => thread'[d] = thread[d])
<1>1. ASSUME NEW d \in Calls, d # c
      PROVE  Newer(d) /\ (thread'[d].pc = "read" => thread'[d] = thread[d])
  BY <1>1, MovedFacts, CallTypes, ConstantFacts DEF Newer, Writes, Busy
<1>2. call'[c] = y /\ thread'[c] = z
  BY MovedFacts
<1>3. y.events \in Nat /\ call[c].events \in Nat
  BY ConstantFacts, CallTypes DEF Moved, CallType
<1>4. Newer(c) /\ (thread'[c].pc = "read" => thread'[c] = thread[c])
  BY <1>2, <1>3 DEF CallStep, Keeps, Newer, Writes, Busy
<1> QED BY <1>1, <1>4

LEMMA LogInvMoved ==
  ASSUME Types, NEW c \in Calls, NEW y, NEW z, Moved(c, y, z), CallStep(c, y, z), LogInv
  PROVE  LogInv'
<1>1. \A d \in Calls : Newer(d) /\ (thread'[d].pc = "read" => thread'[d] = thread[d])
  BY NewerMoved
<1>2. ASSUME NEW i \in Ids PROVE Ordered(history[i].log)'
  <2>1. PICK log \in Seq(Entry) : log = history[i].log
    BY RowTypes
  <2>2. Ordered(log)'
    BY <1>1, <2>1, OrderedKept, ConstantFacts DEF LogInv
  <2>3. history'[i].log = log
    BY <2>1 DEF Moved
  <2> QED BY <2>2, <2>3 DEF Ordered
<1>3. ASSUME NEW d \in Calls, thread'[d].pc = "read" PROVE Ordered(thread[d].saw.log)'
  <2>1. PICK log \in Seq(Entry) : log = thread[d].saw.log
    BY CallTypes
  <2>2. Ordered(log)'
    BY <1>1, <1>3, <2>1, OrderedKept, ConstantFacts DEF LogInv
  <2>3. thread'[d].saw.log = log
    BY <1>1, <1>3, <2>1
  <2> QED BY <2>2, <2>3 DEF Ordered
<1> QED BY <1>2, <1>3 DEF LogInv

LEMMA LogInvTurned ==
  ASSUME Types, NEW c \in Calls, Read(c) \/ Write(c) \/ WriteRaises(c), LogInv,
         \A d \in Calls : CallInv(d)
  PROVE  LogInv'
<1>1. PICK z : /\ Turned(c, z)
               /\ \/ /\ z.pc = "read" /\ z.op = thread[c].op /\ z.saw = Row(c)
                     /\ thread[c].pc = "called" /\ history' = history
                  \/ z.pc = "done" /\ z.op = "start" /\ Write(c)
                  \/ z.pc = "raised" /\ z.op = "start" /\ history' = history
               /\ Busy(c)
  BY ReadTurns, WriteTurns DEF Busy, WriteRaises
<1>2. /\ call' = call /\ thread'[c] = z
      /\ \A d \in Calls \ {c} : thread'[d] = thread[d]
  BY <1>1, TurnedFacts
<1>3. \A d \in Calls : Newer(d) /\ (Writes(d, "record_event")' => Writes(d, "record_event"))
  <2>1. ASSUME NEW d \in Calls
        PROVE  Writes(d, "record_event")' => Writes(d, "record_event")
    BY <1>1, <1>2 DEF Writes, Busy
  <2> QED BY <1>2, <2>1, CallTypes, ConstantFacts DEF Newer
<1>4. ASSUME NEW log \in Seq(Entry), Ordered(log) PROVE Ordered(log)'
  BY <1>3, <1>4, OrderedKept, ConstantFacts
<1>5. ASSUME NEW i \in Ids PROVE Ordered(history[i].log)'
  <2>1. Ordered(history[i].log) /\ history[i].log \in Seq(Entry)
    BY RowTypes DEF LogInv
  <2>2. CASE history'[i].log = history[i].log
    <3>1. PICK log \in Seq(Entry) : log = history[i].log
      BY <2>1
    <3> QED BY <1>4, <2>1, <2>2, <3>1 DEF Ordered
  <2>3. CASE Write(c) /\ Id(c) = i /\ thread[c].op = "start"
    <3>1. history'[i].log = <<>>
      BY <2>3, WriteRow
    <3> QED BY <3>1 DEF Ordered
  <2>4. CASE Write(c) /\ Id(c) = i /\ thread[c].op = "record_event" /\ history'[i].log # history[i].log
    <3>1. PICK log \in Seq(Entry) :
            Ordered(log) /\ history'[i].log = Append(log, <<c, call[c].events>>)
      <4>1. CASE history'[i].log = Append(history[i].log, <<c, call[c].events>>)
        BY <2>1, <4>1
      <4>2. CASE setup.store = "sqlite" /\ history'[i].log = Append(thread[c].saw.log, <<c, call[c].events>>)
        BY <2>4, <4>2, WriteRow, CallTypes DEF LogInv
      <4>3. history'[i] = Written(c) /\ Row(c) = history[i]
        BY <2>4, WriteRow DEF Row
      <4>4. Written(c).log # Row(c).log
        BY <2>4, <4>3
      <4>5. \/ Written(c).log = Append(Row(c).log, <<c, call[c].events>>)
            \/ /\ setup.store = "sqlite"
               /\ Written(c).log = Append(thread[c].saw.log, <<c, call[c].events>>)
        BY <2>4, <4>4, WriteRow
      <4> QED BY <4>1, <4>2, <4>3, <4>5
    <3>2. Writes(c, "record_event") /\ ~ Writes(c, "record_event")'
      BY <1>1, <1>2, <2>4, WriteAnswers DEF Writes, Busy
    <3>3. PICK n \in Nat : n = call[c].events
      BY CallTypes, ConstantFacts
    <3>4. Ordered(Append(log, <<c, n>>))'
      BY <1>2, <1>3, <3>1, <3>2, <3>3, OrderedAppend, ConstantFacts
    <3> QED BY <1>2, <3>1, <3>3, <3>4 DEF Ordered
  <2>5. CASE Write(c) /\ Id(c) = i /\ thread[c].op = "finish"
    <3>1. history'[i].log = history[i].log
      BY <2>5, WriteRow DEF Row, SameButStatus
    <3> QED BY <2>2, <3>1
  <2>6. CASE history' = history \/ (Write(c) /\ Id(c) # i)
    <3>1. history'[i].log = history[i].log
      BY <2>6, WriteRow
    <3> QED BY <2>2, <3>1
  <2> QED BY <1>1, <2>2, <2>3, <2>4, <2>5, <2>6, CallTypes DEF Ops
<1>6. ASSUME NEW d \in Calls, thread'[d].pc = "read" PROVE Ordered(thread[d].saw.log)'
  <2>1. PICK log \in Seq(Entry) : log = thread'[d].saw.log /\ Ordered(log)
    <3>1. CASE d # c
      BY <1>2, <1>6, <3>1, CallTypes DEF LogInv
    <3>2. CASE d = c
      BY <1>1, <1>2, <1>6, <3>2, RowTypes, ConstantFacts DEF Row, LogInv, Types
    <3> QED BY <3>1, <3>2
  <2>2. Ordered(log)'
    BY <1>4, <2>1
  <2> QED BY <2>1, <2>2 DEF Ordered
<1> QED BY <1>5, <1>6 DEF LogInv

-----------------------------------------------------------------------------
(* OwnInv *)

\* The parts of OwnInv for one id.
Alone(i) ==
  \A c, d \in Calls : Id(c) = i /\ Id(d) = i /\ AtWork(c) /\ AtWork(d) => c = d
Recording(c) ==
  AtWork(c) /\ Begun(c) /\ ~ (call[c].pc = "starting" /\ thread[c].pc = "raised")
Mine(i) == \A c \in Calls : Id(c) = i /\ Recording(c) => history[i].owner = c

LEMMA OwnParts ==
  OwnInv <=> \A i \in Ids \ shared :
               Alone(i) /\ Mine(i) /\ (history[i].owner \in Calls => Own(i, history[i].owner))
BY DEF OwnInv, Alone, Mine, Recording

\* A call that begins may be the second at its record; no other step adds one.
LEMMA AtWorkMoved ==
  ASSUME Types, NEW c \in Calls, NEW y, NEW z, Moved(c, y, z), CallStep(c, y, z)
  PROVE  /\ \A d \in Calls \ {c} : (AtWork(d)' <=> AtWork(d)) /\ (Recording(d)' <=> Recording(d))
         /\ call[c].pc # "idle" => (AtWork(c)' => AtWork(c))
         /\ CallInv(c) => (Recording(c)' => Recording(c))
<1>1. \A d \in Calls \ {c} : (AtWork(d)' <=> AtWork(d)) /\ (Recording(d)' <=> Recording(d))
  BY MovedFacts DEF AtWork, UnderWay, Busy, Recording, Begun, Writes
<1>2. call'[c] = y /\ thread'[c] = z
  BY MovedFacts
<1>3. call[c].pc # "idle" => (AtWork(c)' => AtWork(c))
  BY <1>2 DEF CallStep, AtWork, UnderWay, Busy, Ended
<1>4. CallInv(c) => (Recording(c)' => Recording(c))
  BY <1>2 DEF CallStep, CallInv, AtWork, UnderWay, Busy, Ended, Recording, Begun, Writes
<1> QED BY <1>1, <1>3, <1>4

LEMMA OwnMoved ==
  ASSUME Types, NEW c \in Calls, NEW y, NEW z, Moved(c, y, z), CallStep(c, y, z),
         NEW i \in Ids, CallInv(c), Begun(c), Own(i, c),
         call[c].pc = "starting" => thread[c].pc = "done"
  PROVE  Own(i, c)'
<1>1. call'[c] = y /\ thread'[c] = z /\ history' = history
  <2>1. history' = history
    BY DEF Moved
  <2>2. call'[c] = y /\ thread'[c] = z
    BY MovedFacts
  <2> QED BY <2>1, <2>2
<1>2. call[c].events \in Nat /\ Len(history[i].log) \in Nat /\ y.events \in Nat
  BY CallTypes, RowTypes, ConstantFacts DEF Moved, CallType
<1> DEFINE n == Len(history[i].log)
<1>3. history'[i].log = [k \in 1..n |-> <<c, k>>] /\ Len(history'[i].log) = n
  BY <1>1 DEF Own
<1>4. /\ n <= call[c].events /\ n >= call[c].events - 1
      /\ Writes(c, "record_event") => n = call[c].events - 1
      /\ call[c].pc \in {"starting", "looping", "returned"} => n = call[c].events
      /\ call[c].pc = "recording" /\ thread[c].pc = "done" => n = call[c].events
      /\ call[c].pc = "finishing" /\ call[c].outcome # "failed" => n = call[c].events
  BY DEF Own
<1> HIDE DEF n
<1>5. /\ n <= y.events /\ n >= y.events - 1
      /\ z.pc \in {"called", "read"} /\ z.op = "record_event" => n = y.events - 1
      /\ y.pc \in {"starting", "looping", "returned"} => n = y.events
      /\ y.pc = "recording" /\ z.pc = "done" => n = y.events
      /\ y.pc = "finishing" /\ y.outcome # "failed" => n = y.events
  BY <1>2, <1>4 DEF CallStep, Keeps, n, Writes, Busy, Begun
<1>6. /\ thread[c].pc = "read" => thread[c].saw = history[i]
      /\ call[c].pc \in {"starting", "looping", "recording"} => history[i].status = "running"
      /\ Writes(c, "finish") => history[i].status = "running"
      /\ call[c].pc = "finishing" /\ thread[c].pc = "done" => history[i].status = call[c].outcome
      /\ call[c].pc \in {"returned", "raised"} => history[i].status = call[c].outcome
  BY DEF Own
<1>7. /\ z.pc = "read" => z.saw = history[i]
      /\ y.pc \in {"starting", "looping", "recording"} => history[i].status = "running"
      /\ z.pc \in {"called", "read"} /\ z.op = "finish" => history[i].status = "running"
      /\ y.pc = "finishing" /\ z.pc = "done" => history[i].status = y.outcome
      /\ y.pc \in {"returned", "raised"} => history[i].status = y.outcome
  BY <1>6 DEF CallStep, Keeps, Writes, Busy, Begun
<1> QED BY <1>1, <1>3, <1>5, <1>7 DEF Own, Writes, Busy, n

LEMMA OwnSame ==
  ASSUME NEW i, NEW c, call'[c] = call[c], thread'[c] = thread[c], history'[i] = history[i],
         Own(i, c)
  PROVE  Own(i, c)'
BY DEF Own, Writes, Busy

LEMMA OwnInvMoved ==
  ASSUME Types, NEW c \in Calls, NEW y, NEW z, Moved(c, y, z), CallStep(c, y, z),
         \A d \in Calls : CallInv(d), \A i \in Ids : StartInv(i), OwnInv,
         shared \subseteq shared', AtWork(c)' /\ ~ AtWork(c) /\ Contended(c) => Id(c) \in shared'
  PROVE  OwnInv'
<1> SUFFICES ASSUME NEW i \in Ids, i \notin shared'
             PROVE  /\ Alone(i)' /\ Mine(i)'
                    /\ (history[i].owner \in Calls => Own(i, history[i].owner))'
  BY DEF OwnInv, Alone, Mine, Recording
<1>1. /\ i \notin shared /\ Alone(i) /\ Mine(i)
      /\ history[i].owner \in Calls => Own(i, history[i].owner)
  BY OwnParts
<1>2. history' = history /\ \A d \in Calls : Id(d)' = Id(d)
  BY MovedFacts DEF Moved
<1>3. Alone(i)'
  <2>1. AtWork(c)' /\ ~ AtWork(c) /\ Id(c) = i => \A d \in Calls \ {c} : Id(d) = i => ~ AtWork(d)
    BY DEF Contended, AtWork
  <2> QED BY <1>1, <1>2, <2>1, AtWorkMoved DEF Alone
<1>4. Mine(i)'
  BY <1>1, <1>2, AtWorkMoved DEF Mine
<1>5. ASSUME NEW d \in Calls, history[i].owner = d PROVE Own(i, d)'
  <2>1. CASE d # c
    BY <1>1, <1>2, <1>5, <2>1, MovedFacts, OwnSame
  <2>2. CASE d = c
    <3>1. Begun(c) /\ (call[c].pc = "starting" => thread[c].pc = "done")
      BY <1>5, <2>2 DEF StartInv
    <3> QED BY <1>1, <1>5, <2>2, <3>1, OwnMoved
  <2> QED BY <2>1, <2>2
<1>6. (history[i].owner \in Calls => Own(i, history[i].owner))'
  BY <1>2, <1>5 DEF Own
<1> QED BY <1>3, <1>4, <1>6

\* The log of one call: its first n events.
First(c, n) == [k \in 1..n |-> <<c, k>>]

LEMMA OneMoreEvent ==
  ASSUME NEW c \in Calls, NEW n \in Nat, NEW log \in Seq(Entry), log = First(c, n), Len(log) = n
  PROVE  Append(log, <<c, n + 1>>) = First(c, n + 1) /\ Len(Append(log, <<c, n + 1>>)) = n + 1
<1> DEFINE new == Append(log, <<c, n + 1>>)
<1>1. /\ Len(new) = n + 1 /\ new = [k \in 1..(n + 1) |-> new[k]]
      /\ \A k \in 1..n : new[k] = log[k]
      /\ new[n + 1] = <<c, n + 1>>
  OBVIOUS
<1>2. \A k \in 1..n : log[k] = <<c, k>>
  BY DEF First
<1>3. \A k \in 1..(n + 1) : new[k] = <<c, k>>
  BY <1>1, <1>2
<1> HIDE DEF new
<1>4. new = First(c, n + 1)
  BY <1>1, <1>3 DEF First
<1> QED BY <1>1, <1>4 DEF new

\* What Own says apart from the log and the row that was read.
Told(i, c) ==
  /\ call[c].pc \in {"starting", "looping", "recording"} => history[i].status = "running"
  /\ Writes(c, "finish") => history[i].status = "running"
  /\ call[c].pc = "finishing" /\ thread[c].pc = "done" => history[i].status = call[c].outcome
  /\ call[c].pc \in {"returned", "raised"} => history[i].status = call[c].outcome

Counted(i, c) ==
  LET n == Len(history[i].log) IN
  /\ n <= call[c].events /\ n >= call[c].events - 1
  /\ Writes(c, "record_event") => n = call[c].events - 1
  /\ call[c].pc \in {"starting", "looping", "returned"} => n = call[c].events
  /\ call[c].pc = "recording" /\ thread[c].pc = "done" => n = call[c].events
  /\ call[c].pc = "finishing" /\ call[c].outcome # "failed" => n = call[c].events

LEMMA OwnIs ==
  ASSUME NEW i, NEW c
  PROVE  Own(i, c) <=> /\ history[i].log = First(c, Len(history[i].log))
                       /\ Counted(i, c) /\ Told(i, c)
                       /\ thread[c].pc = "read" => thread[c].saw = history[i]
BY DEF Own, First, Counted, Told

LEMMA OwnStarts ==
  ASSUME Types, NEW c \in Calls, Write(c), CallInv(c), thread[c].op = "start"
  PROVE  Own(Id(c), c)' /\ history'[Id(c)].owner = c
<1>1. PICK i \in Ids : i = Id(c)
  BY WriteRow
<1>2. history'[i].log = <<>> /\ history'[i].status = "running" /\ history'[i].owner = c
  BY <1>1, WriteRow
<1>3. call[c].pc \in {"starting", "left_running"} /\ call[c].events = 0
  BY WriterPhases DEF Write, CanWrite, Busy
<1>4. call'[c] = call[c] /\ thread'[c].pc = "done" /\ Id(c)' = Id(c)
  BY WriteAnswers DEF Write, Id
<1>5. history'[i].log = First(c, Len(history'[i].log)) /\ Len(history'[i].log) = 0
  BY <1>2 DEF First
<1>6. Counted(i, c)' /\ Told(i, c)'
  BY <1>2, <1>3, <1>4, <1>5 DEF Counted, Told, Writes, Busy
<1>7. Own(i, c)' <=> /\ history'[i].log = First(c, Len(history'[i].log))
                     /\ Counted(i, c)' /\ Told(i, c)'
                     /\ thread'[c].pc = "read" => thread'[c].saw = history'[i]
  BY DEF Own, First, Counted, Told
<1>8. Own(i, c)'
  BY <1>4, <1>5, <1>6, <1>7
<1> QED BY <1>1, <1>2, <1>4, <1>8 DEF Own

LEMMA OwnWritten ==
  ASSUME Types, NEW c \in Calls, NEW i \in Ids, i = Id(c), Write(c), CallInv(c),
         thread[c].op # "start", Own(i, c)
  PROVE  Own(i, c)'
<1>1. /\ thread[c].op \in {"record_event", "finish"} /\ Busy(c)
      /\ call[c].events \in 0..MaxEvents /\ call[c].events \in Nat
  BY CallTypes, ConstantFacts DEF Ops, Write, CanWrite, Busy
<1>2. call'[c] = call[c] /\ thread'[c].pc = "done"
  BY WriteAnswers DEF Write
<1>3. PICK n \in Nat : n = Len(history[i].log)
  BY RowTypes
<1>4. /\ history[i].log = First(c, n) /\ Counted(i, c) /\ Told(i, c)
      /\ thread[c].pc = "read" => thread[c].saw = history[i]
  BY <1>3, OwnIs
<1>5. Row(c) = history[i] /\ history'[i] = Written(c)
  BY WriteRow DEF Row
<1>6. ~ Stale(c)
  BY <1>4, <1>5, WriteRow DEF Stale
<1>7. CASE thread[c].op = "record_event"
  <2>1. call[c].pc \in {"recording", "left_running"} /\ n = call[c].events - 1
    BY <1>1, <1>3, <1>4, <1>7, WriterPhases DEF Counted, Writes
  <2>2. history'[i].log = Append(history[i].log, <<c, n + 1>>)
    <3>1. call[c].events = n + 1
      BY <1>1, <2>1
    <3>2. setup.store = "sqlite" => thread[c].saw.log = Row(c).log
      BY <1>4, <1>5, <1>7, WriteRow
    <3>3. \/ Written(c).log = Append(Row(c).log, <<c, call[c].events>>)
          \/ /\ setup.store = "sqlite"
             /\ Written(c).log = Append(thread[c].saw.log, <<c, call[c].events>>)
      BY <1>6, <1>7, WriteRow
    <3>4. Written(c).log = Append(Row(c).log, <<c, n + 1>>)
      BY <3>1, <3>2, <3>3
    <3> QED BY <1>5, <3>4
  <2>3. history'[i].log = First(c, n + 1) /\ Len(history'[i].log) = n + 1
    <3>1. PICK log \in Seq(Entry) : log = history[i].log
      BY RowTypes
    <3>2. Append(log, <<c, n + 1>>) = First(c, n + 1) /\ Len(Append(log, <<c, n + 1>>)) = n + 1
      BY <1>3, <1>4, <3>1, OneMoreEvent
    <3> QED BY <2>2, <3>1, <3>2
  <2>4. history'[i].status = history[i].status
    BY <1>5, <1>7, WriteRow DEF SameButLog
  <2>5. Counted(i, c)'
    BY <1>1, <1>2, <2>1, <2>3 DEF Counted, Writes, Busy
  <2>6. Told(i, c)'
    BY <1>2, <1>4, <2>1, <2>4 DEF Told, Writes, Busy
  <2> QED BY <1>2, <2>3, <2>5, <2>6 DEF Own, First, Counted, Told
<1>8. CASE thread[c].op = "finish"
  <2>1. call[c].pc \in {"finishing", "left_running"}
    BY <1>1, <1>8, WriterPhases
  <2>2. history'[i].log = history[i].log /\ history'[i].status = call[c].outcome
    BY <1>5, <1>6, <1>8, WriteRow DEF SameButStatus
  <2>3. Counted(i, c)'
    BY <1>2, <1>4, <2>1, <2>2 DEF Counted, Writes, Busy
  <2>4. Told(i, c)'
    BY <1>2, <2>1, <2>2 DEF Told, Writes, Busy
  <2>5. history'[i].log = First(c, n) /\ Len(history'[i].log) = n
    BY <1>3, <1>4, <2>2
  <2> QED BY <1>2, <2>3, <2>4, <2>5 DEF Own, First, Counted, Told
<1> QED BY <1>1, <1>7, <1>8

LEMMA OwnTurned ==
  ASSUME Types, NEW c \in Calls, NEW i \in Ids, i = Id(c), Read(c) \/ WriteRaises(c),
         CallInv(c), Begun(c), Own(i, c)
  PROVE  Own(i, c)'
<1>1. PICK z : /\ Turned(c, z) /\ history' = history
               /\ \/ z.pc = "read" /\ z.op = thread[c].op /\ z.saw = Row(c)
                  \/ z.pc = "raised" /\ z.op = "start"
               /\ Busy(c)
  <2>1. CASE Read(c)
    BY <2>1, ReadTurns DEF Busy
  <2>2. CASE WriteRaises(c)
    BY <2>2, FreeType DEF WriteRaises, Answer, Turned, Threads
  <2> QED BY <2>1, <2>2
<1>2. call'[c] = call[c] /\ thread'[c] = z
  BY <1>1, TurnedFacts
<1>3. Counted(i, c) /\ Told(i, c) /\ history[i].log = First(c, Len(history[i].log))
  BY OwnIs
<1>4. Counted(i, c)'
  BY <1>1, <1>2, <1>3 DEF Counted, Writes, Busy
<1>5. Told(i, c)'
  BY <1>1, <1>2, <1>3 DEF Told, Writes, Busy
<1>6. thread'[c].pc = "read" => thread'[c].saw = history'[i]
  BY <1>1, <1>2 DEF Row
<1> QED BY <1>1, <1>3, <1>4, <1>5, <1>6 DEF Own, First, Counted, Told

LEMMA AtWorkTurned ==
  ASSUME Types, NEW c \in Calls, Read(c) \/ Write(c) \/ WriteRaises(c),
         \A d \in Calls : CallInv(d)
  PROVE  /\ \A d \in Calls : AtWork(d)' => AtWork(d)
         /\ \A d \in Calls \ {c} : Recording(d)' => Recording(d)
         /\ Recording(c)' => Recording(c) \/ (Write(c) /\ thread[c].op = "start")
         /\ Busy(c) /\ AtWork(c) /\ (thread[c].op # "start" => Recording(c))
<1>1. PICK z : /\ Turned(c, z) /\ Busy(c)
               /\ \/ z.pc = "read" /\ z.op = thread[c].op /\ thread[c].op # "start"
                  \/ z.pc = "done" /\ z.op = "start" /\ Write(c)
                  \/ z.pc = "raised" /\ z.op = "start"
  BY ReadTurns, WriteTurns DEF Busy
<1>2. call' = call /\ thread'[c] = z /\ \A d \in Calls \ {c} : thread'[d] = thread[d]
  BY <1>1, TurnedFacts
<1>3. CallInv(c) /\ thread[c].op \in Ops
  BY CallTypes
<1>4. \A d \in Calls \ {c} : (AtWork(d)' => AtWork(d)) /\ (Recording(d)' => Recording(d))
  BY <1>2 DEF AtWork, UnderWay, Busy, Recording, Begun, Writes
<1>5. AtWork(c) /\ (thread[c].op # "start" => Recording(c))
  <2>1. AtWork(c)
    BY <1>1 DEF AtWork
  <2>2. ASSUME thread[c].op # "start" PROVE Begun(c) /\ call[c].pc # "starting"
    BY <1>1, <1>3, <2>2, WriterPhases DEF Ops
  <2> QED BY <2>1, <2>2 DEF Recording
<1>6. Recording(c)' => Recording(c) \/ (Write(c) /\ thread[c].op = "start")
  <2> SUFFICES ASSUME Recording(c)', thread[c].op = "start", ~ Write(c) PROVE FALSE
    BY <1>5
  <2>1. z.pc = "raised" /\ call[c].pc \in {"starting", "left_running"}
    BY <1>1, <1>3, WriterPhases
  <2> QED BY <1>2, <2>1 DEF Recording, AtWork, UnderWay, Busy, Ended
<1> QED BY <1>1, <1>4, <1>5, <1>6

LEMMA OwnInvTurned ==
  ASSUME Types, NEW c \in Calls, Read(c) \/ Write(c) \/ WriteRaises(c),
         \A d \in Calls : CallInv(d), \A i \in Ids : StartInv(i), OwnInv
  PROVE  OwnInv'
<1> SUFFICES ASSUME NEW i \in Ids, i \notin shared'
             PROVE  /\ Alone(i)' /\ Mine(i)'
                    /\ (history[i].owner \in Calls => Own(i, history[i].owner))'
  BY DEF OwnInv, Alone, Mine, Recording
<1>1. /\ \A d \in Calls : AtWork(d)' => AtWork(d)
      /\ \A d \in Calls \ {c} : Recording(d)' => Recording(d)
      /\ Recording(c)' => Recording(c) \/ (Write(c) /\ thread[c].op = "start")
      /\ Busy(c) /\ AtWork(c) /\ (thread[c].op # "start" => Recording(c))
  BY AtWorkTurned
<1>2. \A d \in Calls : Id(d)' = Id(d)
  BY DEF Id, Read, Write, WriteRaises
<1>3. i \notin shared =>
        /\ Alone(i) /\ Mine(i)
        /\ history[i].owner \in Calls => Own(i, history[i].owner)
  BY OwnParts
<1>4. CASE Write(c) /\ thread[c].op = "start" /\ Id(c) = i
  <2>1. ~ Contended(c)
    <3> SUFFICES ASSUME Contended(c) PROVE FALSE
      OBVIOUS
    <3>1. i \notin shared
      BY <1>4 DEF Write
    <3>2. PICK d \in Calls \ {c} : Id(d) = Id(c) /\ AtWork(d)
      BY DEF Contended, AtWork
    <3> QED BY <1>1, <1>3, <1>4, <3>1, <3>2 DEF Alone
  <2>2. \A d \in Calls : Id(d) = i /\ AtWork(d) => d = c
    BY <1>4, <2>1 DEF Contended, AtWork
  <2>3. Own(i, c)' /\ history'[i].owner = c
    <3>1. Own(Id(c), c)' /\ history'[Id(c)].owner = c
      BY <1>4, OwnStarts
    <3>2. Id(c)' = i
      BY <1>2, <1>4
    <3> QED BY <1>4, <3>1, <3>2 DEF Own
  <2>4. Alone(i)'
    BY <1>1, <1>2, <2>2 DEF Alone
  <2>5. Mine(i)'
    BY <1>1, <1>2, <2>2, <2>3 DEF Mine, Recording
  <2> QED BY <2>3, <2>4, <2>5 DEF Own
<1>5. CASE ~ (Write(c) /\ thread[c].op = "start" /\ Id(c) = i)
  <2>1. i \notin shared
    BY <1>5 DEF Read, Write, WriteRaises
  <2>2. Alone(i) /\ Mine(i) /\ (history[i].owner \in Calls => Own(i, history[i].owner))
    BY <1>3, <2>1
  <2>3. Alone(i)'
    BY <1>1, <1>2, <2>2 DEF Alone
  <2>4. Write(c) /\ Id(c) = i => history[i].owner = c
    BY <1>1, <1>5, <2>2 DEF Mine
  <2>5. history'[i].owner = history[i].owner
        /\ (~ (Write(c) /\ Id(c) = i) => history'[i] = history[i])
    <3>1. CASE ~ (Write(c) /\ Id(c) = i)
      BY <3>1, WriteRow DEF Read, WriteRaises
    <3>2. CASE Write(c) /\ Id(c) = i
      <4>1. thread[c].op \in {"record_event", "finish"}
        BY <1>5, <3>2, CallTypes DEF Ops
      <4> QED BY <3>2, <4>1, WriteRow DEF Row, SameButLog, SameButStatus
    <3> QED BY <3>1, <3>2
  <2>6. Mine(i)'
    BY <1>1, <1>2, <1>5, <2>2, <2>5 DEF Mine
  <2>7. ASSUME NEW d \in Calls, history[i].owner = d PROVE Own(i, d)'
    <3>1. CASE d # c
      <4>1. call'[d] = call[d] /\ thread'[d] = thread[d]
        BY <3>1, ReadTurns, WriteTurns, TurnedFacts
      <4> QED BY <2>2, <2>4, <2>5, <2>7, <3>1, <4>1, OwnSame
    <3>2. CASE d = c
      <4>1. Id(c) = i /\ Begun(c) /\ Own(i, c) /\ CallInv(c)
        BY <2>2, <2>7, <3>2 DEF StartInv
      <4>2. CASE Write(c)
        BY <1>5, <3>2, <4>1, <4>2, OwnWritten
      <4>3. CASE Read(c) \/ WriteRaises(c)
        BY <3>2, <4>1, <4>3, OwnTurned
      <4> QED BY <4>2, <4>3
    <3> QED BY <3>1, <3>2
  <2>8. (history[i].owner \in Calls => Own(i, history[i].owner))'
    BY <2>5, <2>7 DEF Own
  <2> QED BY <2>3, <2>6, <2>8
<1> QED BY <1>4, <1>5

-----------------------------------------------------------------------------
(* StreamInv *)

\* What a step of a call or of its reader does to the stream.
StreamTo(c, pc) ==
  /\ \A d \in Calls : stream'[d].got = stream[d].got
  /\ \A d \in Calls \ {c} : stream'[d] = stream[d]
  /\ stream'[c].pc = pc
  /\ stream' \in [Calls -> StreamType]

LEMMA StreamChange ==
  ASSUME Types, NEW c \in Calls, NEW pc \in {"open", "ended", "error", "closed"},
         stream' = [stream EXCEPT ![c].pc = pc]
  PROVE  StreamTo(c, pc)
<1>1. stream \in [Calls -> StreamType] /\ stream[c] \in StreamType
  BY DEF Types
<1> DEFINE r == [stream[c] EXCEPT !.pc = pc]
<1>2. r \in StreamType /\ r.pc = pc /\ r.got = stream[c].got
  BY <1>1 DEF StreamType
<1>3. stream' = [stream EXCEPT ![c] = r]
  OBVIOUS
<1> HIDE DEF r
<1> QED BY <1>1, <1>2, <1>3 DEF StreamTo

LEMMA CallStreams ==
  ASSUME Types, NEW c \in Calls, Calls1(c)
  PROVE  \/ stream' = stream
         \/ StreamTo(c, "closed")
         \/ StreamTo(c, "error") /\ Kind(c) \in {"run", "run_stream"}
BY StreamChange DEF Calls1, Unauthorized, Refuse, Begin, Step, SetUp, StartRaises, Event,
   EventRecorded, RunnerEnds, Finished, Cancel, Close

LEMMA StreamInvMoved ==
  ASSUME Types, NEW c \in Calls, NEW y, NEW z, Moved(c, y, z), CallStep(c, y, z), Calls1(c),
         StreamInv
  PROVE  StreamInv'
<1> SUFFICES ASSUME NEW d \in Calls
             PROVE  /\ stream'[d].got <= call'[d].events
                    /\ Kind(d)' = "run_stream" /\ stream'[d].got > 0 => call'[d].pc = "returned"
                    /\ stream'[d].pc = "ended" =>
                         call'[d].pc = "returned" /\ stream'[d].got = call'[d].events
                    /\ stream'[d].pc = "error" /\ Kind(d)' = "stream_run" =>
                         call'[d].pc \in Ended /\ stream'[d].got = call'[d].events
  BY DEF StreamInv
<1>1. /\ stream'[d].got = stream[d].got
      /\ \/ stream'[d].pc = stream[d].pc \/ stream'[d].pc = "closed"
         \/ stream'[d].pc = "error" /\ Kind(d) \in {"run", "run_stream"}
  BY CallStreams DEF StreamTo
<1>2. Kind(d)' = Kind(d)
  BY MovedFacts
<1>3. /\ stream[d].got <= call[d].events
      /\ Kind(d) = "run_stream" /\ stream[d].got > 0 => call[d].pc = "returned"
      /\ stream[d].pc = "ended" => call[d].pc = "returned" /\ stream[d].got = call[d].events
      /\ stream[d].pc = "error" /\ Kind(d) = "stream_run" =>
           call[d].pc \in Ended /\ stream[d].got = call[d].events
  BY DEF StreamInv
<1>4. \/ call'[d].events = call[d].events /\ (call[d].pc \in Ended => call'[d].pc = call[d].pc)
      \/ call'[d].events = call[d].events + 1 /\ call[d].pc \notin Ended
  <2>1. CASE d # c
    BY <2>1, MovedFacts
  <2>2. CASE d = c
    <3>1. call'[d] = y
      BY <2>2, MovedFacts
    <3> QED BY <2>2, <3>1 DEF CallStep, Keeps, UnderWay, Ended
  <2> QED BY <2>1, <2>2
<1>5. stream[d].got \in Nat /\ call[d].events \in Nat
  BY CallTypes, ConstantFacts
<1> QED BY <1>1, <1>2, <1>3, <1>4, <1>5 DEF Ended

LEMMA StreamSteps ==
  ASSUME Types, NEW c \in Calls, StreamInv, CallInv(c),
         Yield(c) \/ StreamEnds(c) \/ (Close(c) /\ ~ UnderWay(c))
  PROVE  StreamInv' /\ stream' \in [Calls -> StreamType]
<1>0. call' = call /\ setup' = setup /\ \A d \in Calls : Kind(d)' = Kind(d)
  BY DEF Yield, StreamEnds, Close, Kind
<1>1. stream \in [Calls -> StreamType] /\ stream[c] \in StreamType
      /\ stream[c].got \in Nat /\ call[c].events \in Nat
  BY CallTypes, ConstantFacts DEF Types
<1>2. CASE Yield(c)
  <2> DEFINE r == [stream[c] EXCEPT !.got = stream[c].got + 1]
  <2>1. r \in StreamType /\ r.pc = "open" /\ r.got = stream[c].got + 1
    BY <1>1, <1>2 DEF StreamType, Yield
  <2>2. stream' = [stream EXCEPT ![c] = r]
    BY <1>2 DEF Yield
  <2>3. Offered(c) \in {0, call[c].events} /\ stream[c].got < Offered(c)
        /\ (Kind(c) = "run_stream" => call[c].pc = "returned")
    BY <1>1, <1>2 DEF Yield, Offered
  <2> HIDE DEF r
  <2>4. stream'[c] = r /\ \A d \in Calls \ {c} : stream'[d] = stream[d]
    BY <1>1, <2>2
  <2> QED BY <1>0, <1>1, <2>1, <2>2, <2>3, <2>4 DEF StreamInv
<1>3. CASE StreamEnds(c)
  <2>1. PICK pc \in {"ended", "error"} :
          /\ StreamTo(c, pc) /\ (pc = "ended" <=> call[c].pc = "returned")
          /\ call[c].pc \in Ended /\ stream[c].got = Offered(c)
    BY <1>3, StreamChange DEF StreamEnds
  <2>2. call[c].pc = "returned" \/ Kind(c) = "stream_run" => Offered(c) = call[c].events
    BY DEF Offered
  <2> QED BY <1>0, <2>1, <2>2 DEF StreamInv, StreamTo
<1>4. CASE Close(c) /\ ~ UnderWay(c)
  <2>1. StreamTo(c, "closed")
    BY <1>4, StreamChange DEF Close
  <2> QED BY <1>0, <2>1 DEF StreamInv, StreamTo
<1> QED BY <1>2, <1>3, <1>4

-----------------------------------------------------------------------------
(* HostInv *)

Runs == {c \in Calls : Kind(c) = "execute" /\ UnderWay(c)}

LEMMA ActiveType ==
  ASSUME IsFiniteSet(Calls)
  PROVE  /\ IsFiniteSet(Runs) /\ Cardinality(Runs) \in Nat
         /\ Cardinality(Runs) = 0 => Runs = {}
<1>1. Runs \subseteq Calls
  BY DEF Runs
<1> QED BY <1>1, FS_Subset, FS_CardinalityType, FS_EmptySet

\* How a call counts after a step.
Counts(c, n) ==
  /\ Kind(c) = "execute" /\ UnderWay(c)' /\ ~ UnderWay(c) => n = active + 1
  /\ Kind(c) = "execute" /\ ~ UnderWay(c)' /\ UnderWay(c) => n = active - 1
  /\ (Kind(c) # "execute" \/ (UnderWay(c)' <=> UnderWay(c))) => n = active

LEMMA ActiveMoved ==
  ASSUME Types, NEW c \in Calls, NEW y, NEW z, Moved(c, y, z), active = Cardinality(Runs),
         Counts(c, active')
  PROVE  active' = Cardinality(Runs')
<1>1. \A d \in Calls : /\ Kind(d)' = Kind(d)
                       /\ d # c => (UnderWay(d)' <=> UnderWay(d))
  BY MovedFacts DEF UnderWay
<1>2. IsFiniteSet(Runs) /\ Cardinality(Runs) \in Nat
  BY ActiveType, ConstantFacts
<1>3. CASE Kind(c) = "execute" /\ UnderWay(c)' /\ ~ UnderWay(c)
  <2>1. Runs' = Runs \union {c} /\ c \notin Runs
    BY <1>1, <1>3 DEF Runs
  <2> QED BY <1>2, <1>3, <2>1, FS_AddElement DEF Counts
<1>4. CASE Kind(c) = "execute" /\ ~ UnderWay(c)' /\ UnderWay(c)
  <2>1. Runs' = Runs \ {c} /\ c \in Runs
    BY <1>1, <1>4 DEF Runs
  <2> QED BY <1>2, <1>4, <2>1, FS_RemoveElement DEF Counts
<1>5. CASE Kind(c) # "execute" \/ (UnderWay(c)' <=> UnderWay(c))
  <2>1. Runs' = Runs
    BY <1>1, <1>5 DEF Runs
  <2> QED BY <1>5, <2>1 DEF Counts
<1> QED BY <1>3, <1>4, <1>5

LEMMA CallCounts ==
  ASSUME Types, NEW c \in Calls, Calls1(c)
  PROVE  /\ Counts(c, active') /\ ready' = ready /\ shutdown' = shutdown
         /\ active' = active + 1 => ready
<1>0. call[c].pc \in Phases /\ active \in Nat /\ call \in [Calls -> CallType] /\ call[c] \in CallType
  BY CallTypes DEF Types
<1>1. ASSUME NEW pc \in Phases, call' = [call EXCEPT ![c].pc = pc] PROVE call'[c].pc = pc
  BY <1>0, <1>1 DEF CallType
<1>2. CASE Unauthorized(c) \/ Refuse(c)
  <2>1. call' = [call EXCEPT ![c].pc = "refused"] /\ call[c].pc = "idle" /\ UNCHANGED hostVars
    BY <1>2 DEF Unauthorized, Refuse
  <2>2. call'[c].pc = "refused"
    BY <1>1, <2>1 DEF Phases, Ended
  <2> QED BY <1>0, <2>1, <2>2 DEF Counts, UnderWay, Ended, hostVars
<1>3. CASE Begin(c)
  <2>1. /\ call' = [call EXCEPT ![c].pc = "starting"] /\ call[c].pc = "idle"
        /\ active' = (IF Kind(c) = "execute" THEN active + 1 ELSE active)
        /\ ready' = ready /\ shutdown' = shutdown /\ (Kind(c) = "execute" => ready)
    BY <1>3 DEF Begin
  <2>2. call'[c].pc = "starting"
    BY <1>1, <2>1 DEF Phases
  <2> QED BY <1>0, <2>1, <2>2 DEF Counts, UnderWay, Ended
<1>4. ASSUME NEW pc \in {"left_running", "raised", "returned"}, Ends(c, pc), UnderWay(c)
      PROVE  /\ Counts(c, active') /\ ready' = ready /\ shutdown' = shutdown
             /\ active' = active + 1 => ready
  <2>1. call'[c].pc = pc
    BY <1>1, <1>4 DEF Ends, Phases, Ended
  <2> QED BY <1>0, <1>4, <2>1 DEF Ends, Counts, UnderWay, Ended
<1>5. ASSUME UnderWay(c), UnderWay(c)', UNCHANGED hostVars
      PROVE  /\ Counts(c, active') /\ ready' = ready /\ shutdown' = shutdown
             /\ active' = active + 1 => ready
  BY <1>0, <1>5 DEF Counts, hostVars
<1>6. CASE SetUp(c)
  <2>1. UnderWay(c)
    BY <1>6 DEF SetUp, Waiting, UnderWay, Ended
  <2>2. CASE call' = [call EXCEPT ![c].pc = "looping"] /\ UNCHANGED hostVars
    BY <1>1, <1>5, <2>1, <2>2 DEF Phases, UnderWay, Ended
  <2>3. CASE Ends(c, "left_running")
    BY <1>4, <2>1, <2>3
  <2> QED BY <1>6, <2>2, <2>3 DEF SetUp
<1>7. CASE StartRaises(c)
  BY <1>4, <1>7 DEF StartRaises, Waiting, UnderWay, Ended
<1>8. CASE Event(c) \/ EventRecorded(c) \/ RunnerEnds(c)
  <2>1. UnderWay(c) /\ UNCHANGED hostVars
    BY <1>8 DEF Event, EventRecorded, RunnerEnds, Waiting, UnderWay, Ended
  <2>3. call'[c].pc \in {"recording", "looping", "finishing"}
    BY <1>0, <1>8 DEF CallType, Event, EventRecorded, RunnerEnds
  <2> QED BY <1>5, <2>1, <2>3 DEF UnderWay, Ended
<1>9. CASE Finished(c)
  <2>1. UnderWay(c)
    BY <1>9 DEF Finished, Waiting, UnderWay, Ended
  <2>2. PICK pc \in {"left_running", "raised", "returned"} : Ends(c, pc)
    BY <1>9 DEF Finished
  <2> QED BY <1>4, <2>1, <2>2
<1>10. ASSUME Cancel(c) \/ (Close(c) /\ UnderWay(c))
       PROVE  /\ Counts(c, active') /\ ready' = ready /\ shutdown' = shutdown
              /\ active' = active + 1 => ready
  BY <1>4, <1>10 DEF Cancel, Close, Abandon
<1> QED BY <1>2, <1>3, <1>6, <1>7, <1>8, <1>9, <1>10 DEF Calls1, Step

LEMMA HostInvMoved ==
  ASSUME Types, NEW c \in Calls, NEW y, NEW z, Moved(c, y, z), Calls1(c), HostInv
  PROVE  HostInv' /\ active' \in Nat /\ ready' = ready /\ shutdown' = shutdown
<1>1. active = Cardinality(Runs) /\ active \in Nat
  BY DEF HostInv, Runs, Types
<1>2. /\ Counts(c, active') /\ ready' = ready /\ shutdown' = shutdown
      /\ active' = active + 1 => ready
  BY CallCounts
<1>3. active' = Cardinality(Runs')
  BY <1>1, <1>2, ActiveMoved
<1>4. active' \in Nat
  <2>1. Runs' \subseteq Calls
    BY DEF Runs
  <2> QED BY <1>3, <2>1, ConstantFacts, FS_Subset, FS_CardinalityType
<1>5. active' \in {active, active + 1, active - 1}
  BY <1>2 DEF Counts
<1>6. ASSUME NEW s \in Shutdowns, shutdown'[s] = "drained" PROVE active' = 0
  <2>1. active = 0 /\ ~ ready
    BY <1>2, <1>6 DEF HostInv
  <2> QED BY <1>1, <1>2, <1>4, <1>5, <2>1
<1> QED BY <1>2, <1>3, <1>4, <1>6 DEF HostInv, Runs

LEMMA HostSteps ==
  ASSUME Types, HostInv, NEW s \in Shutdowns, Shutdown(s) \/ Drained(s) \/ TimesOut(s)
  PROVE  /\ HostInv' /\ UNCHANGED <<setup, history, call, thread, stream, active, shared, faults>>
         /\ ready' \in BOOLEAN
         /\ shutdown' \in [Shutdowns -> {"idle", "waiting", "drained", "timed_out"}]
<1>1. UNCHANGED <<setup, history, call, thread, stream, active, shared, faults>>
  BY DEF Shutdown, Drained, TimesOut
<1>2. shutdown \in [Shutdowns -> {"idle", "waiting", "drained", "timed_out"}] /\ ready \in BOOLEAN
  BY DEF Types
<1>3. PICK w \in {"waiting", "drained", "timed_out"} :
        /\ shutdown' = [shutdown EXCEPT ![s] = w]
        /\ ready' = ready \/ ready' = FALSE
        /\ shutdown[s] = "idle" => ready' = FALSE
        /\ w = "drained" => active = 0
  BY DEF Shutdown, Drained, TimesOut
<1>4. /\ ready' \in BOOLEAN
      /\ shutdown' \in [Shutdowns -> {"idle", "waiting", "drained", "timed_out"}]
  BY <1>2, <1>3
<1>5. active' = Cardinality({c \in Calls : Kind(c) = "execute" /\ UnderWay(c)})'
  BY <1>1 DEF HostInv, Kind, UnderWay
<1>6. ASSUME NEW t \in Shutdowns
      PROVE  /\ shutdown'[t] # "idle" => ~ ready'
             /\ shutdown'[t] = "drained" => active' = 0
  <2>1. CASE t = s
    BY <1>1, <1>2, <1>3, <2>1 DEF HostInv
  <2>2. CASE t # s
    BY <1>1, <1>2, <1>3, <2>2 DEF HostInv
  <2> QED BY <2>1, <2>2
<1> QED BY <1>1, <1>4, <1>5, <1>6 DEF HostInv

-----------------------------------------------------------------------------
(* Types *)

LEMMA WrittenType ==
  ASSUME Types, NEW c \in Calls, Write(c), CallInv(c)
  PROVE  Written(c) \in Record
<1>1. Row(c) \in Record /\ thread[c].op \in Ops /\ Busy(c)
  BY WriteRow, CallTypes DEF Write, CanWrite, Busy
<1>2. CASE thread[c].op = "start"
  BY <1>1, <1>2 DEF Written, StartedRow, Record, Statuses
<1>3. CASE thread[c].op = "record_event"
  <2> DEFINE e == <<c, call[c].events>>
             new == LogWith(c, e)
  <2>1. e \in Entry
    BY <1>1, <1>3, WriterPhases, CallTypes, ConstantFacts DEF Entry
  <2> HIDE DEF e
  <2>2. Row(c).log \in Seq(Entry) /\ thread[c].saw.log \in Seq(Entry)
    BY <1>1, CallTypes DEF Record
  <2>3. new \in Seq(Entry)
    BY <2>1, <2>2 DEF LogWith
  <2>4. Written(c) = [Row(c) EXCEPT !.log = new]
    BY <1>3 DEF Written, e
  <2> HIDE DEF new
  <2> QED BY <1>1, <2>3, <2>4 DEF Record
<1>4. CASE thread[c].op = "finish"
  <2>1. call[c].outcome \in Statuses
    BY <1>1, <1>4, WriterPhases DEF Outcomes, Statuses
  <2>2. Written(c) = Row(c) \/ Written(c) = [Row(c) EXCEPT !.status = call[c].outcome]
    BY <1>4 DEF Written, Settled
  <2> QED BY <1>1, <2>1, <2>2 DEF Record
<1> QED BY <1>1, <1>2, <1>3, <1>4 DEF Ops

LEMMA TypesMoved ==
  ASSUME Types, NEW c \in Calls, NEW y, NEW z, Moved(c, y, z), Calls1(c), HostInv
  PROVE  Types' /\ shared \subseteq shared'
<1>1. call' \in [Calls -> CallType] /\ thread' \in [Calls -> Thread]
      /\ setup' = setup /\ history' = history /\ faults' = faults
  BY DEF Moved, Types
<1>2. stream' \in [Calls -> StreamType]
  BY CallStreams DEF StreamTo, Types
<1>3. active' \in Nat /\ ready' = ready /\ shutdown' = shutdown
  BY HostInvMoved
<1>4. shared' \in {shared, shared \union {Id(c)}} /\ Id(c) \in Ids
  BY ConstantFacts DEF Types, Calls1, Unauthorized, Refuse, Begin, Step, SetUp, StartRaises, Event,
     EventRecorded, RunnerEnds, Finished, Cancel, Close
<1> QED BY <1>1, <1>2, <1>3, <1>4 DEF Types

LEMMA TypesTurned ==
  ASSUME Types, NEW c \in Calls, Read(c) \/ Write(c) \/ WriteRaises(c), CallInv(c)
  PROVE  Types'
<1>1. PICK z : Turned(c, z)
  BY ReadTurns, WriteTurns
<1>2. call' = call /\ thread' \in [Calls -> Thread] /\ setup' = setup
  BY <1>1 DEF Turned, Types
<1>3. history' \in [Ids -> Record]
  <2>1. CASE Write(c)
    BY <2>1, WriteRow, WrittenType DEF Types
  <2>2. CASE Read(c) \/ WriteRaises(c)
    BY <2>2 DEF Read, WriteRaises, Types
  <2> QED BY <2>1, <2>2
<1>4. /\ stream' = stream /\ ready' = ready /\ active' = active /\ shutdown' = shutdown
      /\ shared' \subseteq shared /\ faults' \in {faults, faults + 1}
      /\ faults' = faults \/ faults < MaxFaults
  BY DEF Read, Write, WriteRaises, hostVars
<1>5. faults' \in 0..MaxFaults
  BY <1>4, ConstantFacts DEF Types
<1> QED BY <1>2, <1>3, <1>4, <1>5 DEF Types

LEMMA SecondIsShared ==
  ASSUME Types, NEW c \in Calls, Calls1(c), CallInv(c)
  PROVE  AtWork(c)' /\ ~ AtWork(c) /\ Contended(c) => Id(c) \in shared'
<1> SUFFICES ASSUME AtWork(c)', ~ AtWork(c), Contended(c), ~ Begin(c) PROVE FALSE
  BY DEF Begin
<1>1. PICK y, z : Moved(c, y, z) /\ CallStep(c, y, z)
  BY CallSteps
<1>2. call'[c] = y /\ thread'[c] = z
  BY <1>1, MovedFacts
<1>3. call[c].pc = "idle"
  BY <1>1, AtWorkMoved
<1>4. Unauthorized(c) \/ Refuse(c)
  BY <1>3 DEF Calls1, Step, SetUp, StartRaises, Event, EventRecorded, RunnerEnds, Finished, Cancel,
     Close, Waiting, UnderWay
<1>5. thread' = thread /\ ~ Busy(c) /\ call' = [call EXCEPT ![c].pc = "refused"]
  BY <1>3, <1>4 DEF Unauthorized, Refuse, CallInv, Busy
<1>6. call'[c].pc = "refused"
  BY <1>5, CallTypes DEF Types, CallType
<1> QED BY <1>5, <1>6 DEF AtWork, UnderWay, Busy, Ended

-----------------------------------------------------------------------------
(* The invariant *)

LEMMA Initially == Init => IInv
<1> SUFFICES ASSUME Init PROVE IInv
  OBVIOUS
<1>1. Types
  <2>1. [pc |-> "idle", events |-> 0, outcome |-> "none"] \in CallType
        /\ [pc |-> "open", got |-> 0] \in StreamType
    BY ConstantFacts DEF CallType, StreamType, Phases
  <2>2. history \in [Ids -> Record] /\ thread \in [Calls -> Thread]
    BY FreeType DEF Init
  <2>3. call \in [Calls -> CallType] /\ stream \in [Calls -> StreamType]
    BY <2>1 DEF Init
  <2>4. shutdown \in [Shutdowns -> {"idle", "waiting", "drained", "timed_out"}]
    BY DEF Init
  <2>5. setup \in Setups /\ ready \in BOOLEAN /\ active \in Nat /\ shared \subseteq Ids
        /\ faults \in 0..MaxFaults
    BY ConstantFacts DEF Init
  <2> QED BY <2>2, <2>3, <2>4, <2>5 DEF Types
<1>2. \A c \in Calls : /\ call[c].pc = "idle" /\ call[c].events = 0 /\ thread[c].pc = "free"
                       /\ stream[c].pc = "open" /\ stream[c].got = 0
                       /\ ~ Busy(c) /\ ~ UnderWay(c) /\ ~ Begun(c)
  BY DEF Init, Free, Busy, UnderWay, Ended, Begun
<1>3. \A i \in Ids : history[i].start = 0 /\ history[i].owner = Nobody
                     /\ history[i].status = "absent" /\ history[i].log = <<>>
  BY DEF Init, Absent
<1>4. \A c \in Calls : CallInv(c)
  BY <1>2 DEF CallInv, Writes
<1>5. \A i \in Ids : StartInv(i)
  <2>1. BegunSet = {} /\ IsFiniteSet(BegunSet) /\ Cardinality(BegunSet) = 0
    <3>1. BegunSet = {}
      BY <1>2 DEF BegunSet
    <3> QED BY <3>1, FS_EmptySet
  <2>2. \A c \in Calls : ~ Past(c)
    BY <1>2 DEF Past, Writes
  <2> QED BY <1>3, <2>1, <2>2, ConstantFacts DEF StartInv, BegunSet
<1>6. LogInv
  BY <1>2, <1>3 DEF LogInv, Ordered
<1>7. OwnInv
  BY <1>2, <1>3, ConstantFacts DEF OwnInv, AtWork
<1>8. StreamInv
  BY <1>2 DEF StreamInv
<1>9. HostInv
  <2>1. Runs = {}
    BY <1>2 DEF Runs
  <2> QED BY <2>1, FS_EmptySet DEF Init, HostInv, Runs
<1> QED BY <1>1, <1>4, <1>5, <1>6, <1>7, <1>8, <1>9 DEF IInv

\* Nothing but a stream, or the host, changes.
LEMMA RestKept ==
  ASSUME IInv, UNCHANGED <<setup, history, call, thread, shared>>
  PROVE  /\ \A c \in Calls : CallInv(c)'
         /\ \A i \in Ids : StartInv(i)'
         /\ LogInv' /\ OwnInv'
<1>1. \A c \in Calls : CallInv(c)'
  BY CallInvKept DEF IInv
<1>2. \A i \in Ids : StartInv(i)'
  <2> SUFFICES ASSUME NEW i \in Ids PROVE StartInv(i)'
    OBVIOUS
  <2>1. \A c \in Calls : (Begun(c)' <=> Begun(c)) /\ (Past(c)' <=> Past(c)) /\ Id(c)' = Id(c)
    BY DEF Past, Begun, Writes, Busy, Id
  <2>2. BegunSet' = BegunSet
    BY <2>1 DEF BegunSet
  <2>3. StartInv(i) /\ history' = history
    BY DEF IInv
  <2>4. /\ \A c \in Calls : Id(c)' = i /\ Past(c)' => history'[i].owner # Nobody
        /\ IsFiniteSet(BegunSet') /\ history'[i].start <= Cardinality(BegunSet')
        /\ history'[i].owner = Nobody <=> history'[i].status = "absent"
    BY <2>1, <2>2, <2>3 DEF StartInv, BegunSet
  <2>5. OwnerStarted(i)'
    BY <2>1, <2>3 DEF StartInv, OwnerStarted, Busy
  <2> QED BY <2>4, <2>5 DEF StartInv, OwnerStarted, BegunSet
<1>3. LogInv'
  BY ZenonT(60) DEF IInv, LogInv, Ordered, Writes, Busy
<1>4. OwnInv'
  <2>1. \A c \in Calls : (AtWork(c)' <=> AtWork(c)) /\ (Begun(c)' <=> Begun(c)) /\ Id(c)' = Id(c)
    BY DEF AtWork, UnderWay, Begun, Writes, Busy, Id
  <2>2. \A i \in Ids, c \in Calls : Own(i, c) => Own(i, c)'
    BY DEF Own, Writes, Busy
  <2>3. OwnInv /\ shared' = shared /\ history' = history /\ call' = call /\ thread' = thread
    BY DEF IInv
  <2> QED BY <2>1, <2>2, <2>3 DEF OwnInv
<1> QED BY <1>1, <1>2, <1>3, <1>4

LEMMA Kept == IInv /\ [Next]_vars => IInv'
<1> SUFFICES ASSUME IInv, [Next]_vars PROVE IInv'
  OBVIOUS
<1>1. /\ Types /\ (\A c \in Calls : CallInv(c)) /\ (\A i \in Ids : StartInv(i))
      /\ LogInv /\ OwnInv /\ StreamInv /\ HostInv
  BY DEF IInv
<1>2. ASSUME NEW c \in Calls, Calls1(c) PROVE IInv'
  <2>1. PICK y, z : Moved(c, y, z) /\ CallStep(c, y, z)
    BY <1>1, <1>2, CallSteps
  <2>2. Types' /\ shared \subseteq shared'
    BY <1>1, <1>2, <2>1, TypesMoved
  <2>3. (\A d \in Calls : CallInv(d))' /\ (\A i \in Ids : StartInv(i))'
    BY <1>1, <2>1, CallInvMoved, StartInvMoved
  <2>4. LogInv'
    BY <1>1, <2>1, LogInvMoved
  <2>5. OwnInv'
    BY <1>1, <1>2, <2>1, <2>2, OwnInvMoved, SecondIsShared
  <2>6. StreamInv' /\ HostInv'
    BY <1>1, <1>2, <2>1, StreamInvMoved, HostInvMoved
  <2> QED BY <2>2, <2>3, <2>4, <2>5, <2>6 DEF IInv
<1>3. ASSUME NEW c \in Calls, Read(c) \/ Write(c) \/ WriteRaises(c) PROVE IInv'
  <2>1. Types'
    BY <1>1, <1>3, TypesTurned
  <2>2. (\A d \in Calls : CallInv(d))' /\ (\A i \in Ids : StartInv(i))'
    BY <1>1, <1>3, CallInvTurned, StartInvTurned
  <2>3. LogInv' /\ OwnInv'
    BY <1>1, <1>3, LogInvTurned, OwnInvTurned
  <2>4. UNCHANGED <<setup, call, stream, ready, active, shutdown>>
    BY <1>3 DEF Read, Write, WriteRaises, hostVars
  <2>5. StreamInv' /\ HostInv'
    BY <1>1, <2>4 DEF StreamInv, HostInv, Kind, UnderWay
  <2> QED BY <2>1, <2>2, <2>3, <2>5 DEF IInv
<1>4. ASSUME NEW c \in Calls, Yield(c) \/ StreamEnds(c) \/ (Close(c) /\ ~ UnderWay(c)) PROVE IInv'
  <2>1. UNCHANGED <<setup, history, call, thread, shared, faults, ready, active, shutdown>>
    BY <1>4 DEF Yield, StreamEnds, Close, hostVars
  <2>2. StreamInv' /\ stream' \in [Calls -> StreamType]
    BY <1>1, <1>4, StreamSteps
  <2>3. Types' /\ HostInv'
    BY <1>1, <2>1, <2>2 DEF Types, HostInv, Kind, UnderWay
  <2> QED BY <2>1, <2>2, <2>3, RestKept DEF IInv
<1>5. ASSUME NEW s \in Shutdowns, Shutdown(s) \/ Drained(s) \/ TimesOut(s) PROVE IInv'
  <2>1. /\ HostInv' /\ UNCHANGED <<setup, history, call, thread, stream, active, shared, faults>>
        /\ ready' \in BOOLEAN
        /\ shutdown' \in [Shutdowns -> {"idle", "waiting", "drained", "timed_out"}]
    BY <1>1, <1>5, HostSteps
  <2>2. Types' /\ StreamInv'
    BY <1>1, <2>1 DEF Types, StreamInv, Kind
  <2> QED BY <2>1, <2>2, RestKept DEF IInv
<1>6. CASE UNCHANGED vars
  <2>1. Types' /\ StreamInv' /\ HostInv'
    BY <1>1, <1>6 DEF vars, Types, StreamInv, HostInv, Kind, UnderWay
  <2> QED BY <1>6, <2>1, RestKept DEF IInv, vars
<1> QED BY <1>2, <1>3, <1>4, <1>5, <1>6 DEF Next, Calls1

\* IInv is an invariant.
THEOREM Invariant == Spec => []IInv
<1>1. Init => IInv
  BY Initially
<1>2. IInv /\ [Next]_vars => IInv'
  BY Kept
<1> QED BY <1>1, <1>2, PTL DEF Spec

-----------------------------------------------------------------------------
(* What follows from it *)

\* Every record, call, thread and stream is what the code makes of it, and a
\* host counts exactly the runs that are under way.
THEOREM Typed == Spec => []TypeOK
<1>1. ASSUME IInv PROVE TypeOK
  <2>1. Types /\ HostInv /\ StreamInv /\ \A i \in Ids : StartInv(i)
    BY <1>1 DEF IInv
  <2>2. ASSUME NEW i \in Ids
        PROVE  /\ history[i].status \in Statuses /\ history[i].start \in 0..Cardinality(Calls)
               /\ history[i].owner \in Calls \union {Nobody}
               /\ history[i].log \in Seq(Calls \X (1..MaxEvents))
               /\ history[i].owner = Nobody <=> history[i].status = "absent"
    <3>1. BegunSet \subseteq Calls
      BY DEF BegunSet
    <3>2. Cardinality(BegunSet) <= Cardinality(Calls) /\ Cardinality(Calls) \in Nat
          /\ Cardinality(BegunSet) \in Nat
      BY <3>1, ConstantFacts, FS_Subset, FS_CardinalityType
    <3>3. history[i].start <= Cardinality(BegunSet)
          /\ (history[i].owner = Nobody <=> history[i].status = "absent")
      BY <2>1 DEF StartInv, BegunSet
    <3> QED BY <2>1, <3>2, <3>3, RowTypes DEF Entry
  <2>3. ASSUME NEW c \in Calls
        PROVE  /\ call[c].pc \in Ended \union {"idle", "starting", "looping", "recording", "finishing"}
               /\ call[c].events \in 0..MaxEvents
               /\ thread[c].pc \in {"free", "called", "read", "done", "raised"}
               /\ stream[c].pc \in {"open", "ended", "error", "closed"}
               /\ stream[c].got \in 0..call[c].events
    <3>1. stream[c].got <= call[c].events /\ stream[c] \in StreamType
      BY <2>1 DEF StreamInv, Types
    <3> QED BY <2>1, <3>1, CallTypes, ConstantFacts DEF Phases, Threads, StreamType
  <2> QED BY <2>1, <2>2, <2>3 DEF TypeOK, Types, HostInv
<1> QED BY <1>1, Invariant, PTL

\* Behind every store, a log keeps the order of each call's events, a record
\* that nobody writes is settled, and one that a call has to itself is true.
THEOREM Faithful == Spec => []HistoryIsFaithful
<1>1. ASSUME IInv PROVE HistoryIsFaithful
  <2> SUFFICES ASSUME NEW i \in Ids
               PROVE  /\ EventsInOrder(i) /\ SettledWhenQuiet(i)
                      /\ i \notin shared /\ history[i].owner # Nobody => Recorded(i, history[i].owner)
    BY DEF HistoryIsFaithful
  <2>1. Types /\ StartInv(i) /\ LogInv /\ OwnInv /\ \A c \in Calls : CallInv(c)
    BY <1>1 DEF IInv
  <2>2. EventsInOrder(i)
    BY <2>1 DEF LogInv, Ordered, EventsInOrder
  <2>3. SettledWhenQuiet(i)
    <3> SUFFICES ASSUME history[i].status = "running", call[history[i].owner].pc # "left_running"
                 PROVE  \E c \in Calls : Id(c) = i /\ (UnderWay(c) \/ Busy(c))
      BY DEF SettledWhenQuiet
    <3>1. PICK c \in Calls : history[i].owner = c
      BY <2>1, RowTypes DEF StartInv
    <3>2. Id(c) = i /\ Begun(c) /\ call[c].pc \notin {"returned", "raised"}
      BY <2>1, <3>1 DEF StartInv
    <3>3. UnderWay(c)
      BY <3>1, <3>2 DEF UnderWay, Begun, Ended
    <3> QED BY <3>2, <3>3
  <2>4. ASSUME i \notin shared, history[i].owner # Nobody PROVE Recorded(i, history[i].owner)
    <3>1. PICK c \in Calls : history[i].owner = c
      BY <2>1, <2>4, RowTypes
    <3>2. Own(i, c)
      BY <2>1, <2>4, <3>1 DEF OwnInv
    <3>3. Recorded(i, c)
      BY <3>2 DEF Own, Recorded
    <3> QED BY <3>1, <3>3
  <2> QED BY <2>2, <2>3, <2>4
<1> QED BY <1>1, Invariant, PTL

\* A reader is never more than one event ahead of a history that its run has
\* to itself, and misses nothing of a run that came to its end.
THEOREM ReadersFollow == Spec => []StreamsFollowHistory
<1>1. ASSUME IInv PROVE StreamsFollowHistory
  <2> SUFFICES ASSUME NEW c \in Calls, NEW alone, alone = (Id(c) \notin shared /\ Row(c).owner = c)
               PROVE  /\ Kind(c) = "stream_run" /\ alone => stream[c].got <= Len(Row(c).log) + 1
                      /\ stream[c].pc = "ended" \/ (stream[c].pc = "error" /\ Kind(c) = "stream_run")
                           => stream[c].got = call[c].events
                      /\ Kind(c) = "run_stream" /\ stream[c].got > 0 =>
                           /\ call[c].outcome \in {"completed", "suspended"}
                           /\ alone => /\ Row(c).status = call[c].outcome
                                       /\ Len(Row(c).log) = call[c].events
    BY DEF StreamsFollowHistory
  <2>1. Types /\ OwnInv /\ CallInv(c) /\ StreamInv
    BY <1>1 DEF IInv
  <2>2. PICK i \in Ids : i = Id(c) /\ Row(c) = history[i]
    BY <2>1, ConstantFacts DEF Types, Row
  <2>3. alone => Own(i, c)
    BY <2>1, <2>2 DEF OwnInv
  <2>4. /\ stream[c].got <= call[c].events
        /\ Kind(c) = "run_stream" /\ stream[c].got > 0 => call[c].pc = "returned"
        /\ stream[c].pc = "ended" => stream[c].got = call[c].events
        /\ stream[c].pc = "error" /\ Kind(c) = "stream_run" => stream[c].got = call[c].events
    BY <2>1 DEF StreamInv
  <2>5. stream[c].got \in Nat /\ call[c].events \in Nat /\ Len(history[i].log) \in Nat
    BY <2>1, CallTypes, RowTypes, ConstantFacts
  <2>6. alone => Len(history[i].log) >= call[c].events - 1
    BY <2>3 DEF Own
  <2>7. call[c].pc = "returned" =>
          /\ call[c].outcome \in {"completed", "suspended"}
          /\ alone => history[i].status = call[c].outcome /\ Len(history[i].log) = call[c].events
    BY <2>1, <2>3 DEF CallInv, Own
  <2> QED BY <2>2, <2>4, <2>5, <2>6, <2>7
<1> QED BY <1>1, Invariant, PTL

\* A host that reports itself drained runs nothing, now or later.
THEOREM Quiet == Spec => []ShutdownIsQuiet
<1>1. ASSUME IInv PROVE ShutdownIsQuiet
  <2> SUFFICES ASSUME NEW s \in Shutdowns, shutdown[s] = "drained"
               PROVE  ~ ready /\ \A c \in Calls : Kind(c) = "execute" => ~ UnderWay(c)
    BY DEF ShutdownIsQuiet
  <2>1. ~ ready /\ active = 0 /\ active = Cardinality(Runs)
    BY <1>1 DEF IInv, HostInv, Runs
  <2>2. Runs = {}
    BY <2>1, ActiveType, ConstantFacts
  <2> QED BY <2>1, <2>2 DEF Runs
<1> QED BY <1>1, Invariant, PTL
=============================================================================
