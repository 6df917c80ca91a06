----------------------------- MODULE EventTasks -----------------------------
(***************************************************************************)
(* The tasks that read events: listen, asyncapi subscriptions and the      *)
(* schedule of a workflow, which share one FIFO broker.  The broker hands  *)
(* an event to one of the tasks that wait for one, and a task drops what   *)
(* it has no use for: nothing returns to the broker.                       *)
(*                                                                         *)
(* A definition X_Something is X with a plausible bug, for the checks.     *)
(***************************************************************************)
EXTENDS Integers, FiniteSets, Sequences

CONSTANTS Tasks,         \* the tasks and schedules that use the broker
          Setups,        \* what the tasks may be: functions from Tasks to configurations
          Values,        \* what the attributes of an event may be
          Names,         \* names to correlate by
          Events,        \* records [type, key, tag]; an asyncapi message has its channel as type
          MaxEvents,     \* bound on the events published
          Minute,        \* ticks of the clock in a minute
          MaxTime,       \* bound on the clock
          NoValue

\* What the from of a rule may look at.
Attributes == {"key", "tag"}

\* Every event has the attributes that filters look at.
ASSUME EventsAssumption ==
  /\ MaxEvents \in Nat /\ Minute \in Nat \ {0} /\ MaxTime \in Nat
  /\ Events \subseteq [type : Values, key : Values, tag : Values]
  /\ NoValue \notin Values

VARIABLES config,        \* the configuration of each task
          log,           \* the events published so far
          next,          \* how many of them tasks have taken
          task,          \* the local variables of each task
          clock

vars == <<config, log, next, task, clock>>

-----------------------------------------------------------------------------
(* Configurations: the task of the document, and its filters. *)

\* with: type and source are one attribute here; rules: the correlate map, in
\* the order of the document.
Filter(type, rules) == [type |-> type, rules |-> rules]
Rule(name, from, expect) == [name |-> name, from |-> from, expect |-> expect]

Listening(strategy, filters, until, foreach, suspends) ==
  [kind |-> "listen", strategy |-> strategy, filters |-> filters,
   until |-> until, foreach |-> foreach, suspends |-> suspends]
Until(strategy, filters, count) ==
  [strategy |-> strategy, filters |-> filters, count |-> count]
Forever == Until("none", <<>>, 0)
Subscription(channel) == [kind |-> "asyncapi", channel |-> channel]
OnEvent(runs) == [kind |-> "on", runs |-> runs]
Timer(kind, minutes, runs) == [kind |-> kind, minutes |-> minutes, runs |-> runs]

RuleType == [name : Names, from : Attributes, expect : Values \union {NoValue}]
RulesType ==
  {rules \in Seq(RuleType) : \A i, j \in DOMAIN rules : rules[i].name = rules[j].name => i = j}
FilterType == [type : Values \union {NoValue}, rules : RulesType]
UntilType == [strategy : {"none", "expression", "one", "any", "all"},
              filters : Seq(FilterType), count : Nat]
ListenType == [kind : {"listen"}, strategy : {"one", "any", "all"}, filters : Seq(FilterType),
               until : UntilType, foreach : BOOLEAN, suspends : BOOLEAN]
AsyncType == [kind : {"asyncapi"}, channel : Values]
OnType == [kind : {"on"}, runs : Nat \ {0}]
TimerType == [kind : {"every", "after", "cron"}, minutes : Nat, runs : Nat \ {0}]

\* listen looks at until only next to any; an expression is evaluated on the
\* events so far and the one that has come.
ASSUME SetupsAssumption ==
  \A s \in Setups, t \in Tasks :
    /\ s[t] \in ListenType \union AsyncType \union OnType \union TimerType
    /\ s[t].kind = "listen" =>
         /\ s[t].strategy # "any" => s[t].until.strategy = "none"
         /\ s[t].until.strategy = "expression" => s[t].until.count > 0

Unbound == [n \in Names |-> NoValue]

Idle == [pc |-> "idle", consumed |-> <<>>, bound |-> Unbound,
         untilBound |-> Unbound, untilSeen |-> {}, runs |-> <<>>, wake |-> 0]

Init ==
  /\ config \in Setups
  /\ log = <<>> /\ next = 0 /\ clock = 0
  /\ task = [t \in Tasks |-> Idle]

-----------------------------------------------------------------------------
(* Matching an event against a filter *)

HasType(filter, event) == filter.type \in {NoValue, event.type}

\* A rule without expect compares with the value that the name is bound to.
Fails(rule, event, bound) ==
  IF rule.expect # NoValue
  THEN event[rule.from] # rule.expect
  ELSE bound[rule.name] \notin {NoValue, event[rule.from]}

Failing(filter, event, bound) ==
  {i \in DOMAIN filter.rules : Fails(filter.rules[i], event, bound)}

Matches(filter, event, bound) ==
  HasType(filter, event) /\ Failing(filter, event, bound) = {}

\* The rules are checked in order up to the first that fails, and each binds
\* its name before it is checked.
Checked(filter, event, bound) ==
  LET bad == Failing(filter, event, bound) IN
  {i \in DOMAIN filter.rules : \A j \in bad : i <= j}

\* What the names are bound to once the filter has been tried: each rule that
\* is checked binds its own name, if that is free, to what it looks at.
Bound(filter, event, bound) ==
  [n \in Names |->
     LET own == {i \in Checked(filter, event, bound) : filter.rules[i].name = n}
     IN IF HasType(filter, event) /\ bound[n] = NoValue /\ own # {}
        THEN event[filter.rules[CHOOSE i \in own : TRUE].from] ELSE bound[n]]

\* The i-th filter is tried, if those before it have not matched.
Tried(filters, skip, event, i, found) ==
  IF found.index # 0 \/ i \in skip THEN found
  ELSE [index |-> IF Matches(filters[i], event, found.bound) THEN i ELSE 0,
        bound |-> Bound(filters[i], event, found.bound)]

\* Filter after filter up to the first that matches, each on what those
\* before it have bound: index 0 if there is none.
FirstMatch(filters, skip, event, bound) ==
  LET found[i \in 0..Len(filters)] ==
        IF i = 0 THEN [index |-> 0, bound |-> bound]
        ELSE Tried(filters, skip, event, i, found[i - 1])
  IN found[Len(filters)]

-----------------------------------------------------------------------------
(* The broker *)

\* emit, the message of an asyncapi task, or a publisher outside.
Publish(event) ==
  /\ Len(log) < MaxEvents
  /\ log' = Append(log, event)
  /\ UNCHANGED <<config, next, task, clock>>

Waits(t, kind) == config[t].kind = kind /\ task[t].pc = "waiting"

Take_Peeks(t) ==
  /\ next < Len(log)
  /\ UNCHANGED <<config, log, next, clock>>

\* consume: the event at the head of the queue goes to task t.
Take(t) ==
  /\ next < Len(log)
  /\ next' = next + 1
  /\ UNCHANGED <<config, log, clock>>

NextEvent == log[next + 1]

-----------------------------------------------------------------------------
(* listen *)

\* A run with a history suspends when it reaches a listen, and its resumption
\* listens at once.
BeginListen(t) ==
  /\ config[t].kind = "listen" /\ task[t].pc = "idle"
  /\ task' = [task EXCEPT ![t].pc = IF config[t].suspends THEN "suspended" ELSE "waiting"]
  /\ UNCHANGED <<config, log, next, clock>>

ResumeListen(t) ==
  /\ task[t].pc = "suspended"
  /\ task' = [task EXCEPT ![t].pc = "waiting"]
  /\ UNCHANGED <<config, log, next, clock>>

SawUntil_Forgets(t, event) ==
  LET until == config[t].until
      found == FirstMatch(until.filters, {}, event, task[t].untilBound)
  IN [bound |-> found.bound, seen |-> {},
      ends |-> found.index # 0 /\ (until.strategy = "all" => Len(until.filters) = 1)]

\* _matches_until: whether the event ends the listen, and what is remembered.
SawUntil(t, event) ==
  LET until == config[t].until
      found == FirstMatch(until.filters, task[t].untilSeen, event, task[t].untilBound)
      seen == IF until.strategy = "all" /\ found.index # 0
              THEN task[t].untilSeen \union {found.index} ELSE task[t].untilSeen
  IN [bound |-> found.bound,
      seen |-> seen,
      ends |-> CASE until.strategy = "all" -> seen = DOMAIN until.filters
                 [] until.strategy = "one" -> found.index # 0
                 [] until.strategy = "any" -> found.index # 0 \/ until.filters = <<>>
                 [] OTHER -> FALSE]

NextFilters_Any(t) == config[t].filters

\* The filters that the next event may match: all takes them in turn.
NextFilters(t) ==
  LET filters == config[t].filters
      nth == Len(task[t].consumed) + 1
  IN IF config[t].strategy = "all" /\ nth \in DOMAIN filters
     THEN <<filters[nth]>> ELSE filters

\* The end of the loop of listen, once consumed holds the event.
LoopsOn(t, consumed) ==
  IF config[t].strategy = "all"
  THEN Len(consumed) < Len(config[t].filters)
  ELSE config[t].until.strategy # "none"

\* until as an expression: true when so many events have come.
ExpressionHolds(t) ==
  config[t].until.strategy = "expression"
    /\ Len(task[t].consumed) + 1 >= config[t].until.count

\* What listen does with an event that it takes from the broker.
AfterEvent(t, event) ==
  LET until == SawUntil(t, event)
      found == FirstMatch(NextFilters(t), {}, event, task[t].bound)
      heard == [task[t] EXCEPT !.untilBound = until.bound, !.untilSeen = until.seen]
      consumed == Append(task[t].consumed, next + 1)
  IN IF until.ends THEN [heard EXCEPT !.pc = "done"]
     ELSE IF found.index = 0 /\ NextFilters(t) # <<>>
     THEN [heard EXCEPT !.bound = found.bound]
     ELSE IF ExpressionHolds(t) THEN [heard EXCEPT !.bound = found.bound, !.pc = "done"]
     ELSE [heard EXCEPT !.bound = found.bound, !.consumed = consumed,
                        !.pc = IF config[t].foreach THEN "child"
                               ELSE IF LoopsOn(t, consumed) THEN "waiting" ELSE "done"]

Hear(t) ==
  /\ Waits(t, "listen")
  /\ Take(t)
  /\ task' = [task EXCEPT ![t] = AfterEvent(t, NextEvent)]

\* The children of foreach have run for the event, or one of them raised.
ChildEnds(t) ==
  /\ task[t].pc = "child"
  /\ \E ok \in BOOLEAN :
       task' = [task EXCEPT ![t].pc =
                  IF ~ ok THEN "failed"
                  ELSE IF LoopsOn(t, task[t].consumed) THEN "waiting" ELSE "done"]
  /\ UNCHANGED <<config, log, next, clock>>

-----------------------------------------------------------------------------
(* asyncapi *)

Subscribe(t) ==
  /\ config[t].kind = "asyncapi" /\ task[t].pc = "idle"
  /\ task' = [task EXCEPT ![t].pc = "waiting"]
  /\ UNCHANGED <<config, log, next, clock>>

\* An event of another channel is dropped, and the wait begins anew.
Receive(t) ==
  /\ Waits(t, "asyncapi")
  /\ Take(t)
  /\ task' = IF NextEvent.type # config[t].channel THEN task
             ELSE [task EXCEPT ![t].pc = "done", ![t].consumed = <<next + 1>>]

\* wait_for gives up while it waits for one event.
ConsumeTimesOut(t) ==
  /\ Waits(t, "asyncapi")
  /\ task' = [task EXCEPT ![t].pc = "failed"]
  /\ UNCHANGED <<config, log, next, clock>>

-----------------------------------------------------------------------------
(* run_scheduled over trigger_events *)

Scheduled(t) == config[t].kind \in {"on", "every", "after", "cron"}

\* The generator runs up to its first wait.
BeginSchedule(t) ==
  /\ Scheduled(t) /\ task[t].pc = "idle"
  /\ task' = [task EXCEPT ![t] =
       CASE config[t].kind = "on" -> [@ EXCEPT !.pc = "waiting"]
         [] config[t].kind = "cron" -> [@ EXCEPT !.pc = "asleep", !.wake = clock]
         [] OTHER -> [@ EXCEPT !.pc = "asleep", !.wake = clock + Minute * config[t].minutes]]
  /\ UNCHANGED <<config, log, next, clock>>

\* Any event of the broker triggers a run.
Trigger(t) ==
  /\ Waits(t, "on")
  /\ Take(t)
  /\ task' = [task EXCEPT ![t].pc = "running", ![t].consumed = Append(@, next + 1),
                          ![t].runs = Append(@, next + 1)]

Now == clock \div Minute

\* The minute of the hour that a cron expression names, with * as 0.
CronMatches(t, minute) ==
  config[t].minutes = 0 \/ minute % config[t].minutes = 0

\* The generator after a sleep.
AfterSleep(t) ==
  IF config[t].kind # "cron" \/ CronMatches(t, Now)
  THEN [task[t] EXCEPT !.pc = "running", !.runs = Append(@, clock)]
  ELSE [task[t] EXCEPT !.wake = Minute * (Now + 1)]

\* A sleep is over; it may last longer than asked.
WakeUp(t) ==
  /\ task[t].pc = "asleep" /\ clock >= task[t].wake
  /\ task' = [task EXCEPT ![t] = AfterSleep(t)]
  /\ UNCHANGED <<config, log, next, clock>>

AfterYield_Polls(t) ==
  CASE config[t].kind = "on" -> [task[t] EXCEPT !.pc = "waiting"]
    [] config[t].kind = "after" -> [task[t] EXCEPT !.pc = "done"]
    [] OTHER -> [task[t] EXCEPT !.pc = "asleep", !.wake = clock + 1]

\* The generator after a yield.
AfterYield(t) ==
  CASE config[t].kind = "on" -> [task[t] EXCEPT !.pc = "waiting"]
    [] config[t].kind = "after" -> [task[t] EXCEPT !.pc = "done"]
    [] config[t].kind = "every" ->
         [task[t] EXCEPT !.pc = "asleep", !.wake = clock + Minute * config[t].minutes]
    [] OTHER -> [task[t] EXCEPT !.pc = "asleep", !.wake = clock + Minute]

\* run_workflow returns or raises; a failure ends the schedule.
EndRun(t) ==
  /\ Scheduled(t) /\ task[t].pc = "running"
  /\ \E ok \in BOOLEAN :
       task' = [task EXCEPT ![t] =
                  IF ~ ok THEN [@ EXCEPT !.pc = "failed"]
                  ELSE IF Len(@.runs) >= config[t].runs THEN [@ EXCEPT !.pc = "done"]
                  ELSE AfterYield(t)]
  /\ UNCHANGED <<config, log, next, clock>>

\* The clock moves only for those that look at it.
Tick ==
  /\ clock < MaxTime
  /\ \E t \in Tasks : config[t].kind \in {"every", "after", "cron"}
  /\ clock' = clock + 1
  /\ UNCHANGED <<config, log, next, task>>

-----------------------------------------------------------------------------
\* A timeout around a task, or the run that it belongs to, cancels its wait.
Cancel(t) ==
  /\ task[t].pc \in {"waiting", "child"}
  /\ task' = [task EXCEPT ![t].pc = "failed"]
  /\ UNCHANGED <<config, log, next, clock>>

Step(t) ==
  \/ BeginListen(t) \/ Hear(t) \/ ChildEnds(t)
  \/ Subscribe(t) \/ Receive(t)
  \/ BeginSchedule(t) \/ Trigger(t) \/ WakeUp(t) \/ EndRun(t)

Next ==
  \/ \E e \in Events : Publish(e)
  \/ \E t \in Tasks : Step(t) \/ ResumeListen(t) \/ ConsumeTimesOut(t) \/ Cancel(t)
  \/ Tick

Spec == Init /\ [][Next]_vars

\* asyncio runs every task whose wait is over.  Nobody is obliged to publish,
\* to resume, to cancel or to time out.
FairSpec == Spec /\ \A t \in Tasks : WF_vars(Step(t)) /\ WF_vars(Hear(t))

-----------------------------------------------------------------------------
(* Properties *)

States == {"idle", "suspended", "waiting", "child", "asleep", "running", "done", "failed"}

TypeOK ==
  /\ log \in Seq(Events) /\ Len(log) <= MaxEvents
  /\ next \in 0..Len(log)
  /\ clock \in 0..MaxTime
  /\ \A t \in Tasks :
       /\ task[t].pc \in States
       /\ task[t].consumed \in Seq(1..next)
       /\ task[t].bound \in [Names -> Values \union {NoValue}]
       /\ config[t].kind = "listen" =>
            /\ Len(task[t].consumed) <= MaxEvents
            /\ task[t].untilSeen \subseteq DOMAIN config[t].until.filters

Increasing(s) == \A i, j \in DOMAIN s : i < j => s[i] < s[j]

\* An event is what a filter asks for, correlation with other events aside.
Fits(filter, event) ==
  /\ HasType(filter, event)
  /\ \A i \in DOMAIN filter.rules :
       filter.rules[i].expect \in {NoValue, event[filter.rules[i].from]}

FitsOne(filters, event) ==
  filters = <<>> \/ \E i \in DOMAIN filters : Fits(filters[i], event)

\* What a filter compares under a name, expecting no value of its own.
Compared(filter, n) ==
  {a \in Attributes : \E i \in DOMAIN filter.rules : filter.rules[i] = Rule(n, a, NoValue)}

\* What a listen has consumed so far is what it asks for, in the order of
\* publication; for all, one event per filter in the order of the filters,
\* and equal in what they compare under one name.
HearsItsEvents(t) ==
  LET filters == config[t].filters
      heard == task[t].consumed
  IN /\ Increasing(heard)
     /\ config[t].strategy # "all" =>
          \A i \in DOMAIN heard : FitsOne(filters, log[heard[i]])
     /\ config[t].strategy = "all" =>
          \A i \in DOMAIN heard \intersect DOMAIN filters :
            /\ Fits(filters[i], log[heard[i]])
            /\ \A j \in DOMAIN heard \intersect DOMAIN filters, n \in Names :
                 \A a \in Compared(filters[i], n), b \in Compared(filters[j], n) :
                   log[heard[i]][a] = log[heard[j]][b]

\* A listen that has ended has what it waited for: each filter's event, one
\* event, or all that came before its until was met.
HasItsFill(t) ==
  LET until == config[t].until
      heard == task[t].consumed
      fit(i) == \E k \in 1..next : Fits(until.filters[i], log[k])
  IN CASE config[t].strategy = "all" ->
            Len(heard) = IF config[t].filters = <<>> THEN 1 ELSE Len(config[t].filters)
       [] until.strategy = "expression" -> Len(heard) = until.count - 1
       [] until.strategy = "all" -> \A i \in DOMAIN until.filters : fit(i)
       [] until.strategy \in {"one", "any"} ->
            \/ until.filters = <<>>
            \/ \E k \in 1..next : FitsOne(until.filters, log[k]) /\ \A i \in DOMAIN heard : heard[i] < k
       [] OTHER -> Len(heard) = 1

\* simple.py:154-343: a listen returns the events that its filters, their
\* order, their correlation and its until ask for, and no event is given to
\* two tasks, whoever else reads from the broker.
ListensGetWhatTheyAsk ==
  /\ \A t \in Tasks : config[t].kind = "listen" =>
       HearsItsEvents(t) /\ (task[t].pc = "done" => HasItsFill(t))
  /\ \A t, u \in Tasks : t # u =>
       {task[t].consumed[i] : i \in DOMAIN task[t].consumed} \intersect
         {task[u].consumed[i] : i \in DOMAIN task[u].consumed} = {}

\* schedule.py: a schedule runs one workflow at a time and no more than
\* asked: one per event, at most one in a minute that the cron expression
\* names, and the period apart, however long runs and sleeps take.
SchedulesFireOnce ==
  \A t \in Tasks : Scheduled(t) =>
    LET runs == task[t].runs
        period == IF config[t].kind = "on" THEN 0 ELSE Minute * config[t].minutes
    IN /\ Len(runs) <= config[t].runs
       /\ config[t].kind = "on" => Increasing(runs) /\ runs = task[t].consumed
       /\ config[t].kind = "cron" =>
            /\ Increasing([i \in DOMAIN runs |-> runs[i] \div Minute])
            /\ \A i \in DOMAIN runs : CronMatches(t, runs[i] \div Minute)
       /\ config[t].kind \in {"every", "after"} =>
            \A i \in DOMAIN runs : runs[i] >= period + (IF i = 1 THEN 0 ELSE runs[i - 1])
       /\ config[t].kind = "after" => Len(runs) <= 1

\* The events still in the broker.
Queued == next + 1 .. Len(log)

\* An event of the broker that passes a filter whatever the events before it
\* bind: it has the value that a name is bound to, or whatever may bind the
\* name, any rule of any of the filters on any event, gives this value.
Passes(filters, i, k, bound) ==
  /\ Fits(filters[i], log[k])
  /\ \A n \in Names : \A a \in Compared(filters[i], n) :
       \/ bound[n] = log[k][a]
       \/ /\ bound[n] = NoValue
          /\ \A filter \in {filters[j] : j \in DOMAIN filters}, e \in Queued :
               \A r \in DOMAIN filter.rules :
                 filter.rules[r].name = n => log[e][filter.rules[r].from] = log[k][a]

\* The broker holds all that a listen still waits for.
Fulfilled(t) ==
  LET filters == config[t].filters
      until == config[t].until
      passes(i, k) == Passes(filters, i, k, task[t].bound)
      ends(i, k) == Passes(until.filters, i, k, task[t].untilBound)
      enough == {k \in Queued : filters = <<>> \/ \E i \in DOMAIN filters : passes(i, k)}
      left == Len(task[t].consumed) + 1 .. Len(filters)
  IN CASE config[t].strategy = "all" /\ filters # <<>> ->
            \E at \in [left -> Queued] :
              /\ \A i, j \in left : i < j => at[i] < at[j]
              /\ \A i \in left : passes(i, at[i])
       [] until.strategy = "expression" ->
            Cardinality(enough) >= until.count - Len(task[t].consumed)
       [] until.strategy = "one" -> \E k \in Queued : ends(1, k)
       [] until.strategy = "any" ->
            Queued # {} /\ (until.filters # <<>> =>
              \E k \in Queued, i \in DOMAIN until.filters : ends(i, k))
       [] until.strategy = "all" ->
            Queued # {} /\ \A i \in DOMAIN until.filters \ task[t].untilSeen :
              \E k \in Queued : ends(i, k) /\ \A j \in DOMAIN until.filters :
                                                Fits(until.filters[j], log[k]) => i = j
       [] OTHER -> enough # {}

Ended(t) == task[t].pc \in {"done", "failed"}

\* A listen that has the broker to itself ends when the broker holds what it
\* still waits for, under the values that it has bound: it drops nothing that
\* it needs.  (A name may be bound by an event that is then refused.)
LoneListenEnds ==
  \A t \in Tasks :
    (/\ Waits(t, "listen") /\ Fulfilled(t)
     /\ \A u \in Tasks \ {t} : Ended(u)) ~> Ended(t)
=============================================================================
