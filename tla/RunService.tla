----------------------------- MODULE RunService -----------------------------
(***************************************************************************)
(* The hosts of a workflow: POST /run and /run/stream of the server, run   *)
(* and stream_run of WorkflowManager, and WorkflowHost with its drain.     *)
(* Their calls share one run history, often under one run id: the server   *)
(* and the manager have a default.  run_workflow writes the history in     *)
(* worker threads, which outlive a call that is cancelled.                 *)
(*                                                                         *)
(* A definition X_Something is X with a plausible bug, for the checks.     *)
(***************************************************************************)
EXTENDS Integers, FiniteSets, SequencesExt

CONSTANTS Calls, Ids,
          Setups,        \* records [kind, id, store]: the calls and their history
          Shutdowns,     \* the callers of shutdown; a repeated SIGTERM is none
          MaxEvents,     \* bound on the events of a run
          MaxFaults,     \* bound on the writes to the history that raise
          Nobody

Kinds == {"run", "execute", "stream_run", "run_stream"}
Stores == {"memory", "sqlite", "postgres"}

ASSUME RunServiceAssumption ==
  /\ MaxEvents \in Nat /\ MaxFaults \in Nat
  /\ IsFiniteSet(Calls) /\ Nobody \notin Calls
  /\ Setups \subseteq [kind : [Calls -> Kinds], id : [Calls -> Ids], store : Stores]

VARIABLES setup,         \* which calls there are
          history,       \* the record of each run id
          call,          \* run_workflow in each call
          thread,        \* the method of the history that each call awaits
          stream,        \* what the reader of a stream has got
          ready,         \* WorkflowHealth
          active,
          shutdown,
          shared,        \* ids whose record another call still writes (history variable)
          faults         \* writes that raised (history variable)

vars == <<setup, history, call, thread, stream, ready, active, shutdown, shared, faults>>
hostVars == <<ready, active, shutdown>>

Id(c) == setup.id[c]
Kind(c) == setup.kind[c]

Absent == [start |-> 0, owner |-> Nobody, status |-> "absent", log |-> <<>>]
Free == [pc |-> "free", op |-> "start", saw |-> Absent]
Ended == {"returned", "raised", "refused", "left_running"}
UnderWay(c) == call[c].pc \notin Ended \union {"idle"}
Busy(c) == thread[c].pc \in {"called", "read"}

\* Another call, or the thread of one, is at the record of the call's run.
Contended(c) == \E d \in Calls \ {c} : Id(d) = Id(c) /\ (UnderWay(d) \/ Busy(d))

Init ==
  /\ setup \in Setups
  /\ history = [i \in Ids |-> Absent]
  /\ call = [c \in Calls |-> [pc |-> "idle", events |-> 0, outcome |-> "none"]]
  /\ thread = [c \in Calls |-> Free]
  /\ stream = [c \in Calls |-> [pc |-> "open", got |-> 0]]
  /\ ready = TRUE /\ active = 0
  /\ shutdown = [s \in Shutdowns |-> "idle"]
  /\ shared = {} /\ faults = 0

-----------------------------------------------------------------------------
(* The run histories *)

Row(c) == history[Id(c)]

StartedRow_KeepsLog(c) ==
  [start |-> Row(c).start + 1, owner |-> c, status |-> "running", log |-> Row(c).log]

\* start replaces what is there.
StartedRow(c) ==
  [start |-> Row(c).start + 1, owner |-> c, status |-> "running", log |-> <<>>]

\* get, or the record object of the dictionary.
Read(c) ==
  /\ thread[c].pc = "called" /\ thread[c].op # "start"
  /\ setup.store # "postgres"
  /\ thread' = [thread EXCEPT ![c].pc = "read", ![c].saw = Row(c)]
  /\ UNCHANGED <<setup, history, call, stream, shared, faults>> /\ UNCHANGED hostVars

\* PostgreSQL appends in one statement, memory to the object that it read,
\* and SQLite writes the log that it read, with the event.
LogWith(c, event) ==
  CASE setup.store = "postgres" -> Append(Row(c).log, event)
    [] setup.store = "sqlite" -> Append(thread[c].saw.log, event)
    [] OTHER -> IF thread[c].saw.start = Row(c).start
                THEN Append(Row(c).log, event) ELSE Row(c).log

\* suspend and finish write the status, not the log.
Settled(c) ==
  IF setup.store = "memory" /\ thread[c].saw.start # Row(c).start THEN Row(c)
  ELSE [Row(c) EXCEPT !.status = call[c].outcome]

Answer(pc) == [Free EXCEPT !.pc = pc]

Written(c) ==
  CASE thread[c].op = "start" -> StartedRow(c)
    [] thread[c].op = "record_event" ->
         [Row(c) EXCEPT !.log = LogWith(c, <<c, call[c].events>>)]
    [] OTHER -> Settled(c)

CanWrite(c) ==
  \/ thread[c].pc = "read"
  \/ thread[c].pc = "called" /\ (thread[c].op = "start" \/ setup.store = "postgres")

Write(c) ==
  /\ CanWrite(c)
  /\ history' = [history EXCEPT ![Id(c)] = Written(c)]
  /\ thread' = [thread EXCEPT ![c] = Answer("done")]
  /\ shared' = IF thread[c].op = "start" /\ ~ Contended(c) THEN shared \ {Id(c)} ELSE shared
  /\ UNCHANGED <<setup, call, stream, faults>> /\ UNCHANGED hostVars

WriteRaises(c) ==
  /\ faults < MaxFaults /\ Busy(c)
  /\ faults' = faults + 1
  /\ thread' = [thread EXCEPT ![c] = Answer("raised")]
  /\ UNCHANGED <<setup, history, call, stream, shared>> /\ UNCHANGED hostVars

\* _call_history_method: the call goes on when the thread has returned.
Calling(c, op) == [thread EXCEPT ![c] = [Free EXCEPT !.pc = "called", !.op = op]]

-----------------------------------------------------------------------------
(* run_workflow *)

Ends_Forgets(c, pc) ==
  /\ call' = [call EXCEPT ![c].pc = pc]
  /\ active' = IF Kind(c) = "execute" /\ pc # "left_running" THEN active - 1 ELSE active
  /\ UNCHANGED <<ready, shutdown>>

\* What follows the end of run_workflow in the same step: leaving
\* WorkflowHealth.run.
Ends(c, pc) ==
  /\ call' = [call EXCEPT ![c].pc = pc]
  /\ active' = IF Kind(c) = "execute" THEN active - 1 ELSE active
  /\ UNCHANGED <<ready, shutdown>>

\* WorkflowHealth.run refuses when the host drains.
Refuse(c) ==
  /\ call[c].pc = "idle" /\ Kind(c) = "execute" /\ ~ ready
  /\ call' = [call EXCEPT ![c].pc = "refused"]
  /\ UNCHANGED <<setup, history, thread, stream, shared, faults>> /\ UNCHANGED hostVars

\* The credentials of a request do not pass.
Unauthorized(c) ==
  /\ call[c].pc = "idle" /\ Kind(c) \in {"run", "run_stream"}
  /\ call' = [call EXCEPT ![c].pc = "refused"]
  /\ stream' = [stream EXCEPT ![c].pc = "error"]
  /\ UNCHANGED <<setup, history, thread, shared, faults>> /\ UNCHANGED hostVars

\* The document is resolved and built, and the history's start is called.
Begin(c) ==
  /\ call[c].pc = "idle"
  /\ Kind(c) = "execute" => ready
  /\ call' = [call EXCEPT ![c].pc = "starting"]
  /\ thread' = Calling(c, "start")
  /\ active' = IF Kind(c) = "execute" THEN active + 1 ELSE active
  /\ shared' = IF Contended(c) THEN shared \union {Id(c)} ELSE shared
  /\ UNCHANGED <<setup, history, stream, ready, shutdown, faults>>

Waiting(c, pc, answer) == call[c].pc = pc /\ thread[c].pc = answer

\* Secrets, session and memory service are set up outside of the try block.
SetUp(c) ==
  /\ Waiting(c, "starting", "done")
  /\ \/ call' = [call EXCEPT ![c].pc = "looping"] /\ UNCHANGED hostVars
     \/ Ends(c, "left_running")
  /\ UNCHANGED <<setup, history, thread, stream, shared, faults>>

StartRaises(c) ==
  /\ Waiting(c, "starting", "raised")
  /\ Ends(c, "raised")
  /\ UNCHANGED <<setup, history, thread, stream, shared, faults>>

\* The runner yields an event: the sink gets it first, then the history.
Event(c) ==
  /\ call[c].pc = "looping" /\ call[c].events < MaxEvents
  /\ call' = [call EXCEPT ![c].pc = "recording", ![c].events = @ + 1]
  /\ thread' = Calling(c, "record_event")
  /\ UNCHANGED <<setup, history, stream, shared, faults>> /\ UNCHANGED hostVars

EventRecorded(c) ==
  /\ Waiting(c, "recording", "done")
  /\ call' = [call EXCEPT ![c].pc = "looping"]
  /\ UNCHANGED <<setup, history, thread, stream, shared, faults>> /\ UNCHANGED hostVars

\* The runner ends, suspends or raises, or the history did: suspend or finish.
RunnerEnds(c) ==
  /\ \E outcome \in {"completed", "suspended", "failed"} :
       /\ \/ call[c].pc = "looping"
          \/ outcome = "failed" /\ Waiting(c, "recording", "raised")
       /\ call' = [call EXCEPT ![c].pc = "finishing", ![c].outcome = outcome]
  /\ thread' = Calling(c, "finish")
  /\ UNCHANGED <<setup, history, stream, shared, faults>> /\ UNCHANGED hostVars

Finished(c) ==
  /\ \/ Waiting(c, "finishing", "done")
          /\ Ends(c, IF call[c].outcome = "failed" THEN "raised" ELSE "returned")
     \/ Waiting(c, "finishing", "raised") /\ Ends(c, "left_running")
  /\ UNCHANGED <<setup, history, thread, stream, shared, faults>>

\* CancelledError passes the except clauses; a thread goes on without its
\* call, a query of PostgreSQL does not.
Abandon(c) ==
  /\ Ends(c, "left_running")
  /\ thread' = IF setup.store = "postgres" THEN [thread EXCEPT ![c] = Free] ELSE thread

\* The caller of a run gives up.
Cancel(c) ==
  /\ UnderWay(c) /\ Kind(c) # "stream_run"
  /\ Abandon(c)
  /\ stream' = [stream EXCEPT ![c].pc = "closed"]
  /\ UNCHANGED <<setup, history, shared, faults>>

-----------------------------------------------------------------------------
(* The readers of stream_run and of /run/stream *)

Streams(c) == Kind(c) \in {"stream_run", "run_stream"}

Offered_Early(c) == call[c].events

\* stream_run yields what is in its queue; /run/stream what it has collected,
\* after a run that did not raise.
Offered(c) ==
  IF Kind(c) = "stream_run" \/ call[c].pc = "returned" THEN call[c].events ELSE 0

Yield(c) ==
  /\ Streams(c) /\ stream[c].pc = "open"
  /\ stream[c].got < Offered(c)
  /\ stream' = [stream EXCEPT ![c].got = @ + 1]
  /\ UNCHANGED <<setup, history, call, thread, shared, faults>> /\ UNCHANGED hostVars

\* The task is done and its queue is empty; its exception is raised, or
\* reported as an error event.
StreamEnds(c) ==
  /\ Streams(c) /\ stream[c].pc = "open"
  /\ call[c].pc \in Ended /\ stream[c].got = Offered(c)
  /\ stream' = [stream EXCEPT ![c].pc = IF call[c].pc = "returned" THEN "ended" ELSE "error"]
  /\ UNCHANGED <<setup, history, call, thread, shared, faults>> /\ UNCHANGED hostVars

\* The reader closes the generator of stream_run, which cancels the run.
Close(c) ==
  /\ Kind(c) = "stream_run" /\ stream[c].pc = "open" /\ call[c].pc # "idle"
  /\ IF UnderWay(c) THEN Abandon(c)
     ELSE UNCHANGED <<call, thread>> /\ UNCHANGED hostVars
  /\ stream' = [stream EXCEPT ![c].pc = "closed"]
  /\ UNCHANGED <<setup, history, shared, faults>>

-----------------------------------------------------------------------------
(* WorkflowHealth.shutdown *)

\* There is a WorkflowHost.
Hosted == \E c \in Calls : Kind(c) = "execute"

Shutdown_Late(s) ==
  /\ shutdown[s] = "idle" /\ Hosted
  /\ shutdown' = [shutdown EXCEPT ![s] = "waiting"]
  /\ UNCHANGED <<setup, history, call, thread, stream, ready, active, shared, faults>>

Shutdown(s) ==
  /\ shutdown[s] = "idle" /\ Hosted
  /\ ready' = FALSE
  /\ shutdown' = [shutdown EXCEPT ![s] = "waiting"]
  /\ UNCHANGED <<setup, history, call, thread, stream, active, shared, faults>>

\* The event is set when the last run leaves, or before any run.
Drained(s) ==
  /\ shutdown[s] = "waiting" /\ active = 0
  /\ shutdown' = [shutdown EXCEPT ![s] = "drained"]
  /\ UNCHANGED <<setup, history, call, thread, stream, ready, active, shared, faults>>

TimesOut(s) ==
  /\ shutdown[s] = "waiting"
  /\ shutdown' = [shutdown EXCEPT ![s] = "timed_out"]
  /\ UNCHANGED <<setup, history, call, thread, stream, ready, active, shared, faults>>

-----------------------------------------------------------------------------
Step(c) ==
  \/ SetUp(c) \/ StartRaises(c) \/ Event(c) \/ EventRecorded(c)
  \/ RunnerEnds(c) \/ Finished(c)

Next ==
  \/ \E c \in Calls :
       \/ Unauthorized(c) \/ Refuse(c) \/ Begin(c) \/ Step(c) \/ Cancel(c)
       \/ Read(c) \/ Write(c) \/ WriteRaises(c)
       \/ Yield(c) \/ StreamEnds(c) \/ Close(c)
  \/ \E s \in Shutdowns : Shutdown(s) \/ Drained(s) \/ TimesOut(s)

Spec == Init /\ [][Next]_vars

-----------------------------------------------------------------------------
(* Properties *)

Statuses == {"absent", "running", "completed", "failed", "suspended"}

TypeOK ==
  /\ \A i \in Ids :
       /\ history[i].status \in Statuses /\ history[i].start \in 0..Cardinality(Calls)
       /\ history[i].owner \in Calls \union {Nobody}
       /\ history[i].log \in Seq(Calls \X (1..MaxEvents))
       /\ history[i].owner = Nobody <=> history[i].status = "absent"
  /\ \A c \in Calls :
       /\ call[c].pc \in Ended \union {"idle", "starting", "looping", "recording", "finishing"}
       /\ call[c].events \in 0..MaxEvents
       /\ thread[c].pc \in {"free", "called", "read", "done", "raised"}
       /\ stream[c].pc \in {"open", "ended", "error", "closed"}
       /\ stream[c].got \in 0..call[c].events
  /\ ready \in BOOLEAN /\ shared \subseteq Ids /\ faults \in 0..MaxFaults
  /\ active = Cardinality({c \in Calls : Kind(c) = "execute" /\ UnderWay(c)})

\* Each call's events are in a log in their order, and once.
EventsInOrder(i) ==
  \A j, k \in DOMAIN history[i].log :
    j < k /\ history[i].log[j][1] = history[i].log[k][1]
      => history[i].log[j][2] < history[i].log[k][2]

\* The call that started a record which no other call writes: all its events
\* are there but the one that is being recorded, and its outcome.
Recorded(i, c) ==
  LET log == history[i].log IN
  /\ log = [k \in 1..Len(log) |-> <<c, k>>]
  /\ Len(log) >= call[c].events - 1
  /\ call[c].pc \in {"looping", "returned"} => Len(log) = call[c].events
  /\ call[c].pc \in {"returned", "raised"} => history[i].status = call[c].outcome
  /\ call[c].pc \in {"starting", "looping", "recording"} => history[i].status = "running"

\* A record that nobody writes any more is settled, unless the last call that
\* started it was cancelled or found its session or its history failing.
SettledWhenQuiet(i) ==
  history[i].status = "running" =>
    \/ call[history[i].owner].pc = "left_running"
    \/ \E c \in Calls : Id(c) = i /\ (UnderWay(c) \/ Busy(c))

\* history.py:33-290, runtime.py:83-330: whichever store is behind it, a log
\* keeps the order of a call's events and repeats none, and a record that a
\* call has to itself tells its events and its outcome.  (Calls under one id
\* at a time lose events in SQLite and share a record everywhere; so does a
\* call that starts while a thread of a cancelled one still writes.)
HistoryIsFaithful ==
  \A i \in Ids :
    /\ EventsInOrder(i)
    /\ SettledWhenQuiet(i)
    /\ i \notin shared /\ history[i].owner # Nobody => Recorded(i, history[i].owner)

\* management.py:70-97, server.py:197-226: the reader of a stream gets the
\* run's events in order.  stream_run is never more than the event in
\* progress ahead of the history, and ends only when all is delivered, also
\* before an error; /run/stream shows nothing of a run that is not settled.
StreamsFollowHistory ==
  \A c \in Calls :
    LET alone == Id(c) \notin shared /\ Row(c).owner = c IN
    /\ Kind(c) = "stream_run" /\ alone => stream[c].got <= Len(Row(c).log) + 1
    /\ stream[c].pc = "ended" \/ (stream[c].pc = "error" /\ Kind(c) = "stream_run") =>
         stream[c].got = call[c].events
    /\ Kind(c) = "run_stream" /\ stream[c].got > 0 =>
         /\ call[c].outcome \in {"completed", "suspended"}
         /\ alone => Row(c).status = call[c].outcome /\ Len(Row(c).log) = call[c].events

\* health.py:26-50: once a shutdown has reported that the host is drained, no
\* run of the host is under way and none begins any more.
ShutdownIsQuiet ==
  (\E s \in Shutdowns : shutdown[s] = "drained") =>
    /\ ~ ready
    /\ \A c \in Calls : Kind(c) = "execute" => ~ UnderWay(c)
=============================================================================
