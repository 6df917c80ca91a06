------------------------- MODULE EventTasks_proofs -------------------------
(***************************************************************************)
(* What the tasks of a broker get, for every set of tasks, configurations, *)
(* events and bounds: the types, ListensGetWhatTheyAsk and                 *)
(* SchedulesFireOnce.                                                      *)
(***************************************************************************)
EXTENDS EventTasks, FiniteSetTheorems, SequenceTheorems, TLAPS

-----------------------------------------------------------------------------
(* The inductive invariant *)

Bounds == [Names -> Values \union {NoValue}]

TaskType == [pc : States, consumed : Seq(Nat), bound : Bounds, untilBound : Bounds,
             untilSeen : SUBSET Nat, runs : Seq(Nat), wake : Nat]

TypeInv ==
  /\ config \in Setups
  /\ log \in Seq(Events) /\ Len(log) <= MaxEvents
  /\ next \in Nat /\ next <= Len(log)
  /\ clock \in Nat /\ clock <= MaxTime
  /\ task \in [Tasks -> TaskType]

\* Where a task of each kind can be.
PlacesOf(kind) ==
  CASE kind = "listen" -> {"idle", "suspended", "waiting", "child", "done", "failed"}
    [] kind = "asyncapi" -> {"idle", "waiting", "done", "failed"}
    [] kind = "on" -> {"idle", "waiting", "running", "done", "failed"}
    [] OTHER -> {"idle", "asleep", "running", "done", "failed"}

Placed(t) == task[t].pc \in PlacesOf(config[t].kind)

\* A task takes what is in the broker, in order, and once.
InOrder(t) ==
  LET taken == task[t].consumed IN
  /\ Len(taken) <= next
  /\ \A i \in DOMAIN taken : 1 <= taken[i] /\ taken[i] <= next
  /\ Increasing(taken)

Apart(t, u) ==
  \A i \in DOMAIN task[t].consumed, j \in DOMAIN task[u].consumed :
    task[t].consumed[i] # task[u].consumed[j]

Asks(filter, n, a) == \E i \in DOMAIN filter.rules : filter.rules[i] = Rule(n, a, NoValue)

\* What all has consumed fits its filters in turn, and the names that these
\* correlate by are bound to what they compare of the events.
HeardAll(t) ==
  LET filters == config[t].filters
      heard == task[t].consumed
  IN \A i \in DOMAIN heard \intersect DOMAIN filters :
       /\ Fits(filters[i], log[heard[i]])
       /\ \A n \in Names, a \in Attributes :
            Asks(filters[i], n, a) => task[t].bound[n] = log[heard[i]][a]

HeardAny(t) ==
  \A i \in DOMAIN task[t].consumed : FitsOne(config[t].filters, log[task[t].consumed[i]])

Heard(t) == IF config[t].strategy = "all" THEN HeardAll(t) ELSE HeardAny(t)

\* What until remembers has come.
Seen(t) ==
  \A i \in task[t].untilSeen :
    /\ i \in DOMAIN config[t].until.filters
    /\ \E k \in 1..next : Fits(config[t].until.filters[i], log[k])

\* How much a listen that goes on has heard.
Pending(t) == task[t].pc \in {"idle", "suspended", "waiting"}

CountsAll(t) ==
  LET wanted == Len(config[t].filters)
      heard == Len(task[t].consumed)
  IN /\ Pending(t) => heard = 0 \/ heard < wanted
     /\ task[t].pc = "child" => heard >= 1 /\ (heard <= wanted \/ heard = 1)

CountsOne(t) ==
  /\ Pending(t) => Len(task[t].consumed) = 0
  /\ task[t].pc = "child" => Len(task[t].consumed) = 1

CountsExpression(t) ==
  Pending(t) \/ task[t].pc = "child" =>
    Len(task[t].consumed) < config[t].until.count

Counts(t) ==
  /\ config[t].strategy = "all" => CountsAll(t)
  /\ config[t].strategy # "all" /\ config[t].until.strategy = "none" => CountsOne(t)
  /\ config[t].until.strategy = "expression" => CountsExpression(t)

ListenInv(t) ==
  config[t].kind = "listen" =>
    /\ Heard(t) /\ Seen(t) /\ Counts(t)
    /\ task[t].pc = "done" => HasItsFill(t)

Period(t) == Minute * config[t].minutes

\* The runs so far.
Spaced(t) ==
  LET runs == task[t].runs
      kind == config[t].kind
  IN /\ Len(runs) <= config[t].runs
     /\ kind = "on" => runs = task[t].consumed
     /\ kind = "cron" =>
          /\ \A i, j \in DOMAIN runs : i < j => runs[i] \div Minute < runs[j] \div Minute
          /\ \A i \in DOMAIN runs : CronMatches(t, runs[i] \div Minute)
     /\ kind \in {"every", "after"} =>
          \A i \in DOMAIN runs : runs[i] >= Period(t) + (IF i = 1 THEN 0 ELSE runs[i - 1])
     /\ kind = "after" => Len(runs) <= 1

\* The runs of a timer are past, and a sleep ends late enough.
Timely(t) ==
  LET runs == task[t].runs
      kind == config[t].kind
  IN /\ \A i \in DOMAIN runs : runs[i] <= clock
     /\ kind = "cron" /\ task[t].pc = "asleep" =>
          \A i \in DOMAIN runs : runs[i] + Minute <= task[t].wake
     /\ kind # "cron" /\ task[t].pc = "asleep" =>
          /\ Period(t) <= task[t].wake
          /\ \A i \in DOMAIN runs : runs[i] + Period(t) <= task[t].wake

\* A schedule that waits has a run left.
RunsLeft(t) ==
  /\ task[t].pc \in {"idle", "waiting", "asleep"} => Len(task[t].runs) < config[t].runs
  /\ task[t].pc = "idle" => task[t].runs = <<>>
  /\ config[t].kind = "after" /\ task[t].pc = "asleep" => task[t].runs = <<>>

FireInv(t) ==
  Scheduled(t) =>
    /\ Spaced(t) /\ RunsLeft(t)
    /\ config[t].kind # "on" => Timely(t)

TaskInv(t) ==
  /\ Placed(t) /\ InOrder(t)
  /\ ListenInv(t) /\ FireInv(t)

IInv ==
  /\ TypeInv
  /\ \A t \in Tasks : TaskInv(t)
  /\ \A t, u \in Tasks : t # u => Apart(t, u)

-----------------------------------------------------------------------------
(* Configurations, events and the first filter that matches *)

LEMMA ListenConfig ==
  ASSUME config \in Setups, NEW t \in Tasks, config[t].kind = "listen"
  PROVE  /\ config[t] \in ListenType
         /\ config[t].strategy # "any" => config[t].until.strategy = "none"
         /\ config[t].until.strategy = "expression" => config[t].until.count > 0
BY SetupsAssumption DEF ListenType, AsyncType, OnType, TimerType

LEMMA AsyncConfig ==
  ASSUME config \in Setups, NEW t \in Tasks, config[t].kind = "asyncapi"
  PROVE  config[t] \in AsyncType
BY SetupsAssumption DEF ListenType, AsyncType, OnType, TimerType

LEMMA ScheduleConfig ==
  ASSUME config \in Setups, NEW t \in Tasks, Scheduled(t)
  PROVE  /\ config[t].runs \in Nat \ {0}
         /\ config[t].kind # "on" => config[t].minutes \in Nat /\ Period(t) \in Nat
<1>1. config[t] \in OnType \union TimerType
  BY SetupsAssumption DEF Scheduled, ListenType, AsyncType, OnType, TimerType
<1>2. config[t].runs \in Nat \ {0}
  BY <1>1 DEF OnType, TimerType
<1>3. config[t].kind # "on" => config[t].minutes \in Nat
  BY <1>1 DEF OnType, TimerType
<1>4. config[t].kind # "on" => Period(t) \in Nat
  BY <1>3, EventsAssumption DEF Period
<1> QED
  BY <1>2, <1>3, <1>4

LEMMA EventValue ==
  ASSUME NEW e \in Events, NEW a \in Attributes
  PROVE  e[a] \in Values /\ e[a] # NoValue
<1>1. e \in [type : Values, key : Values, tag : Values]
  BY EventsAssumption
<1>2. e["key"] \in Values /\ e["tag"] \in Values
  BY <1>1
<1> QED
  BY <1>2, EventsAssumption DEF Attributes

\* A set of natural numbers that is finite has a least element.
LEMMA LeastExists ==
  ASSUME NEW S \in SUBSET Nat, IsFiniteSet(S), S # {}
  PROVE  \E v \in S : \A w \in S : v <= w
<1> DEFINE Below(v) == {w \in S : w < v}
           F == {U \in SUBSET S : \E v \in S : U = Below(v)}
<1>1. IsWellFoundedOn(StrictSubsetOrdering(S), SUBSET S)
  BY FS_StrictSubsetOrderingWellFounded, FS_FiniteSubsetsOfFinite
<1>2. F \subseteq SUBSET S /\ F # {}
  OBVIOUS
<1>3. PICK U \in F : \A V \in F : ~ (<<V, U>> \in StrictSubsetOrdering(S))
  <2> HIDE DEF F
  <2> QED BY <1>1, <1>2, WFMin
<1>4. PICK v \in S : U = Below(v)
  BY <1>3
<1>5. ASSUME NEW w \in S, w < v PROVE FALSE
  <2>1. Below(w) \in F /\ Below(w) \subseteq U
    <3>1. \A x \in S : x < w => x < v
      <4>1. w \in Nat /\ v \in Nat /\ \A x \in S : x \in Nat
        OBVIOUS
      <4> QED BY <1>5, <4>1
    <3>2. Below(w) \subseteq Below(v)
      BY <3>1
    <3>3. Below(w) \in SUBSET S
      OBVIOUS
    <3> QED BY <1>4, <3>2, <3>3
  <2>2. w \in U /\ w \notin Below(w)
    BY <1>4, <1>5
  <2>3. <<Below(w), U>> \in StrictSubsetOrdering(S)
    <3> HIDE DEF Below
    <3>1. Below(w) # U /\ U \in SUBSET S /\ Below(w) \in SUBSET S
      BY <1>3, <2>1, <2>2
    <3> QED BY <2>1, <3>1 DEF StrictSubsetOrdering
  <2> QED BY <1>3, <2>1, <2>3
<1> QED BY <1>5

\* What FirstMatch has found before it tries a filter.
FoundType == [index : Nat, bound : Bounds]

\* A recursion over 0 .. n has a solution: it is one step after another, and
\* there is no first number that none of them reaches.
Follows(f, n, a, step) == f[0] = a /\ \A i \in 1..n : f[i] = step[<<i, f[i - 1]>>]

LEMMA Recursion ==
  ASSUME NEW n \in Nat, NEW S, NEW a \in S, NEW step \in [(1..n) \X S -> S]
  PROVE  \E f \in [0..n -> S] : Follows(f, n, a, step)
<1> DEFINE Solves(f, k) == f[0] = a /\ \A i \in 1..k : f[i] = step[<<i, f[i - 1]>>]
           Unreached == {k \in 0..n : ~ \E f \in [0..n -> S] : Solves(f, k)}
<1>1. IsFiniteSet(Unreached) /\ Unreached \in SUBSET Nat
  <2>1. IsFiniteSet(0..n) /\ 0..n \subseteq Nat
    BY FS_Interval
  <2>2. Unreached \subseteq 0..n
    OBVIOUS
  <2> HIDE DEF Unreached
  <2> QED BY <2>1, <2>2, FS_Subset
<1>2. ASSUME Unreached # {} PROVE FALSE
  <2>1. PICK k \in Unreached : \A w \in Unreached : k <= w
    <3> HIDE DEF Unreached
    <3> QED BY <1>1, <1>2, LeastExists
  <2>2. k # 0
    <3>1. [i \in 0..n |-> a] \in [0..n -> S] /\ Solves([i \in 0..n |-> a], 0)
      OBVIOUS
    <3>2. \E f \in [0..n -> S] : Solves(f, 0)
      <4> HIDE DEF Solves
      <4> QED BY <3>1
    <3>3. ~ \E f \in [0..n -> S] : Solves(f, k)
      <4> HIDE DEF Solves
      <4> QED BY <2>1
    <3>4. k # 0
      <4> SUFFICES ASSUME k = 0 PROVE FALSE
        OBVIOUS
      <4>1. \E f \in [0..n -> S] : Solves(f, k)
        BY <3>2
      <4> HIDE DEF Solves, Unreached
      <4> QED BY <3>3, <4>1
    <3> QED BY <3>4
  <2>3. k \in 1..n /\ k - 1 \in 0..n /\ k - 1 \notin Unreached
    <3>1. k \in 0..n
      BY <2>1
    <3> HIDE DEF Unreached
    <3>2. k \in 1..n /\ k - 1 \in 0..n /\ ~ (k <= k - 1)
      BY <2>2, <3>1
    <3> QED BY <2>1, <3>2
  <2>4. PICK f \in [0..n -> S] : Solves(f, k - 1)
    <3> HIDE DEF Solves
    <3> QED BY <2>3
  <2> DEFINE g == [f EXCEPT ![k] = step[<<k, f[k - 1]>>]]
  <2>5. f[k - 1] \in S
    BY <2>3, <2>4
  <2>6. step[<<k, f[k - 1]>>] \in S
    BY <2>3, <2>5
  <2>7. g \in [0..n -> S] /\ g[k] = step[<<k, f[k - 1]>>] /\ \A i \in 0..n \ {k} : g[i] = f[i]
    BY <2>3, <2>4, <2>6
  <2> HIDE DEF g
  <2>8. \A i \in 1..k : i = k \/ i \in 1..(k - 1)
    BY <2>3
  <2>9. \A i \in 1..k : i \in 0..n /\ i - 1 \in 0..n /\ i - 1 # k
    BY <2>3
  <2>10. \A i \in 1..(k - 1) : i # k
    BY <2>3
  <2>11. g[0] = a
    BY <2>2, <2>3, <2>4, <2>7
  <2>12. ASSUME NEW i \in 1..k PROVE g[i] = step[<<i, g[i - 1]>>]
    <3>1. g[i - 1] = f[i - 1]
      BY <2>7, <2>9
    <3>2. CASE i = k
      BY <2>7, <3>1, <3>2
    <3>3. CASE i \in 1..(k - 1)
      <4>1. g[i] = f[i]
        BY <2>7, <2>9, <2>10, <3>3
      <4> QED BY <2>4, <3>1, <3>3, <4>1
    <3> QED BY <2>8, <3>2, <3>3
  <2> QED BY <2>1, <2>7, <2>11, <2>12
<1>3. n \in 0..n
  OBVIOUS
<1>4. PICK f \in [0..n -> S] : Solves(f, n)
  BY <1>2, <1>3
<1>5. Follows(f, n, a, step)
  BY <1>4 DEF Follows
<1> QED BY <1>5

\* What is so at 0 and goes on from each number to the next is so up to n.
LEMMA UpTo ==
  ASSUME NEW n \in Nat, NEW P \in SUBSET (0..n), 0 \in P,
         \A i \in 1..n : i - 1 \in P => i \in P
  PROVE  P = 0..n
<1> DEFINE Missing == (0..n) \ P
<1>1. IsFiniteSet(Missing) /\ Missing \in SUBSET Nat
  <2>1. IsFiniteSet(0..n) /\ 0..n \subseteq Nat
    BY FS_Interval
  <2> QED BY <2>1, FS_Subset
<1>2. ASSUME Missing # {} PROVE FALSE
  <2>1. PICK k \in Missing : \A w \in Missing : k <= w
    <3> HIDE DEF Missing
    <3> QED BY <1>1, <1>2, LeastExists
  <2>2. k \in 1..n /\ k - 1 \in 0..n /\ k - 1 \notin Missing
    BY <2>1
  <2> QED BY <2>1, <2>2
<1> QED BY <1>2

\* Trying a filter binds free names alone; one that matches fits the event,
\* and all that it compares is bound to what the event has.
LEMMA TriedSound ==
  ASSUME NEW filter \in FilterType, NEW event \in Events, NEW bound \in Bounds
  PROVE  LET after == Bound(filter, event, bound)
         IN /\ after \in Bounds
            /\ \A n \in Names : bound[n] # NoValue => after[n] = bound[n]
            /\ Matches(filter, event, bound) =>
                 /\ Fits(filter, event)
                 /\ \A n \in Names, a \in Attributes :
                      Asks(filter, n, a) => after[n] = event[a]
<1> DEFINE Own(n) == {i \in Checked(filter, event, bound) : filter.rules[i].name = n}
           after == Bound(filter, event, bound)
<1>1. /\ filter.rules \in Seq(RuleType)
      /\ \A i, j \in DOMAIN filter.rules : filter.rules[i].name = filter.rules[j].name => i = j
      /\ \A i \in DOMAIN filter.rules : filter.rules[i] \in RuleType
  BY DEF FilterType, RulesType
<1>2. \A n \in Names :
        after[n] = IF HasType(filter, event) /\ bound[n] = NoValue /\ Own(n) # {}
                   THEN event[filter.rules[CHOOSE i \in Own(n) : TRUE].from] ELSE bound[n]
  BY DEF Bound
<1>3. after \in Bounds
  <2>1. \A n \in Names : after[n] \in Values \union {NoValue}
    <3> SUFFICES ASSUME NEW n \in Names PROVE after[n] \in Values \union {NoValue}
      OBVIOUS
    <3>1. CASE HasType(filter, event) /\ bound[n] = NoValue /\ Own(n) # {}
      <4> DEFINE i == CHOOSE k \in Own(n) : TRUE
      <4>1. i \in Own(n)
        BY <3>1
      <4>2. after[n] = event[filter.rules[i].from]
        BY <1>2, <3>1
      <4> HIDE DEF i
      <4>3. filter.rules[i].from \in Attributes
        BY <1>1, <4>1 DEF Checked, RuleType
      <4> HIDE DEF after
      <4> QED BY <4>2, <4>3, EventValue
    <3>2. CASE ~ (HasType(filter, event) /\ bound[n] = NoValue /\ Own(n) # {})
      BY <1>2, <3>2 DEF Bounds
    <3> QED BY <3>1, <3>2
  <2>2. DOMAIN after = Names /\ after = [n \in Names |-> after[n]]
    BY DEF Bound
  <2> HIDE DEF after
  <2> QED BY <2>1, <2>2 DEF Bounds
<1>4. \A n \in Names : bound[n] # NoValue => after[n] = bound[n]
  BY <1>2
<1>5. ASSUME Matches(filter, event, bound)
      PROVE  /\ Fits(filter, event)
             /\ \A n \in Names, a \in Attributes : Asks(filter, n, a) => after[n] = event[a]
  <2>1. HasType(filter, event) /\ Failing(filter, event, bound) = {}
    BY <1>5 DEF Matches
  <2>2. \A i \in DOMAIN filter.rules : ~ Fails(filter.rules[i], event, bound)
    BY <2>1 DEF Failing
  <2>3. Checked(filter, event, bound) = DOMAIN filter.rules
    BY <2>1 DEF Checked
  <2>4. Fits(filter, event)
    BY <2>1, <2>2 DEF Fits, Fails
  <2>5. ASSUME NEW n \in Names, NEW a \in Attributes, Asks(filter, n, a)
        PROVE  after[n] = event[a]
    <3>1. PICK i \in DOMAIN filter.rules : filter.rules[i] = Rule(n, a, NoValue)
      BY <2>5 DEF Asks
    <3>2. /\ filter.rules[i].name = n /\ filter.rules[i].from = a
          /\ filter.rules[i].expect = NoValue
      BY <3>1 DEF Rule
    <3>3. bound[n] \in {NoValue, event[a]}
      BY <2>2, <3>2 DEF Fails
    <3>4. Own(n) = {i}
      BY <1>1, <2>3, <3>2
    <3>5. (CHOOSE k \in Own(n) : TRUE) = i
      BY <3>4
    <3> HIDE DEF Own
    <3>6. CASE bound[n] = NoValue
      BY <1>2, <2>1, <3>2, <3>4, <3>5, <3>6
    <3>7. CASE bound[n] # NoValue
      BY <1>4, <3>3, <3>7
    <3> QED BY <3>6, <3>7
  <2> QED BY <2>4, <2>5
<1> HIDE DEF Own, after
<1> QED BY <1>3, <1>4, <1>5 DEF after

\* FirstMatch finds a filter that fits the event and that it may look at; it
\* binds free names alone, and with those it binds all that the filter it
\* finds compares to what the event has.
Sound(found, filters, skip, event, bound) ==
  /\ found \in FoundType
  /\ \A n \in Names : bound[n] # NoValue => found.bound[n] = bound[n]
  /\ found.index # 0 =>
       /\ found.index \in DOMAIN filters \ skip
       /\ Fits(filters[found.index], event)
       /\ \A n \in Names, a \in Attributes :
            Asks(filters[found.index], n, a) => found.bound[n] = event[a]

LEMMA TriedStep ==
  ASSUME NEW filters \in Seq(FilterType), NEW skip, NEW event \in Events, NEW bound \in Bounds,
         NEW i \in 1..Len(filters), NEW found, Sound(found, filters, skip, event, bound)
  PROVE  Sound(Tried(filters, skip, event, i, found), filters, skip, event, bound)
<1>1. CASE found.index # 0 \/ i \in skip
  BY <1>1 DEF Tried
<1>2. CASE ~ (found.index # 0 \/ i \in skip)
  <2> DEFINE after == Bound(filters[i], event, found.bound)
             index == IF Matches(filters[i], event, found.bound) THEN i ELSE 0
  <2>1. Tried(filters, skip, event, i, found) = [index |-> index, bound |-> after]
    BY <1>2 DEF Tried
  <2>2. filters[i] \in FilterType /\ i \in DOMAIN filters \ skip /\ i \in Nat
    BY <1>2
  <2>3. found.bound \in Bounds /\ \A n \in Names : bound[n] # NoValue => found.bound[n] = bound[n]
    BY DEF Sound, FoundType
  <2>4. /\ after \in Bounds
        /\ \A n \in Names : found.bound[n] # NoValue => after[n] = found.bound[n]
        /\ Matches(filters[i], event, found.bound) =>
             /\ Fits(filters[i], event)
             /\ \A n \in Names, a \in Attributes : Asks(filters[i], n, a) => after[n] = event[a]
    BY <2>2, <2>3, TriedSound
  <2> HIDE DEF after
  <2>5. [index |-> index, bound |-> after] \in FoundType
    BY <2>2, <2>4 DEF FoundType
  <2>6. index # 0 => index = i /\ Matches(filters[i], event, found.bound)
    OBVIOUS
  <2> HIDE DEF index
  <2> QED BY <2>1, <2>2, <2>3, <2>4, <2>5, <2>6 DEF Sound
<1> QED BY <1>1, <1>2

LEMMA FirstMatchSound ==
  ASSUME NEW filters \in Seq(FilterType), NEW skip, NEW event \in Events, NEW bound \in Bounds
  PROVE  Sound(FirstMatch(filters, skip, event, bound), filters, skip, event, bound)
<1> DEFINE n == Len(filters)
           start == [index |-> 0, bound |-> bound]
           S == {found \in FoundType : Sound(found, filters, skip, event, bound)}
           step == [p \in (1..n) \X S |-> Tried(filters, skip, event, p[1], p[2])]
           Solves(f) == f = [i \in 0..n |->
                               IF i = 0 THEN start ELSE Tried(filters, skip, event, i, f[i - 1])]
           found == CHOOSE f : Solves(f)
<1>1. n \in Nat
  OBVIOUS
<1>2. start \in S
  <2>1. start \in FoundType /\ start.index = 0 /\ start.bound = bound
    BY DEF FoundType
  <2> HIDE DEF start
  <2> QED BY <2>1 DEF Sound
<1>3. step \in [(1..n) \X S -> S]
  <2> SUFFICES ASSUME NEW i \in 1..n, NEW x \in S
               PROVE  Tried(filters, skip, event, i, x) \in S
    OBVIOUS
  <2>1. Sound(Tried(filters, skip, event, i, x), filters, skip, event, bound)
    BY TriedStep
  <2> QED BY <2>1 DEF Sound
<1>4. \A i \in 1..n, x \in S : step[<<i, x>>] = Tried(filters, skip, event, i, x)
  OBVIOUS
<1>5. FirstMatch(filters, skip, event, bound) = found[n]
  BY DEF FirstMatch
<1> HIDE DEF start, S, step, n
<1>6. PICK f \in [0..n -> S] : f[0] = start /\ \A i \in 1..n : f[i] = step[<<i, f[i - 1]>>]
  <2>1. PICK f \in [0..n -> S] : Follows(f, n, start, step)
    BY <1>1, <1>2, <1>3, Recursion
  <2> QED BY <2>1 DEF Follows
<1>7. Solves(f)
  <2>1. \A i \in 1..n : i - 1 \in 0..n
    BY <1>1
  <2>2. \A i \in 1..n : f[i] = Tried(filters, skip, event, i, f[i - 1])
    BY <1>4, <1>6, <2>1
  <2>3. \A i \in 0..n : i = 0 \/ i \in 1..n
    BY <1>1
  <2>4. \A i \in 0..n : f[i] = IF i = 0 THEN start ELSE Tried(filters, skip, event, i, f[i - 1])
    BY <1>6, <2>2, <2>3
  <2> QED BY <1>6, <2>4
<1>8. Solves(found)
  <2> HIDE DEF Solves
  <2> QED BY <1>7
<1>9. /\ found[0] = start
      /\ \A i \in 1..n : found[i] = Tried(filters, skip, event, i, found[i - 1])
  <2> HIDE DEF found
  <2>1. 0 \in 0..n /\ \A i \in 1..n : i \in 0..n /\ i # 0
    BY <1>1
  <2> QED BY <1>8, <2>1
<1> HIDE DEF found, Solves
<1>10. {i \in 0..n : found[i] \in S} = 0..n
  <2> DEFINE P == {i \in 0..n : found[i] \in S}
  <2>1. 0 \in P
    BY <1>1, <1>2, <1>9
  <2>2. ASSUME NEW i \in 1..n, i - 1 \in P PROVE i \in P
    <3>1. found[i - 1] \in S /\ i \in 0..n
      BY <2>2, <1>1
    <3>2. found[i] = step[<<i, found[i - 1]>>]
      BY <1>4, <1>9, <3>1
    <3>3. step[<<i, found[i - 1]>>] \in S
      BY <1>3, <3>1
    <3> QED BY <3>1, <3>2, <3>3
  <2>3. P \in SUBSET (0..n)
    OBVIOUS
  <2> HIDE DEF P
  <2>4. P = 0..n
    BY <1>1, <2>1, <2>2, <2>3, UpTo
  <2> QED BY <2>4 DEF P
<1>11. found[n] \in S
  <2>1. n \in 0..n
    BY <1>1
  <2> QED BY <1>10, <2>1
<1> QED BY <1>5, <1>11 DEF S

-----------------------------------------------------------------------------
(* What a step leaves *)

\* No step takes back an event, forgets one, or turns back the clock.
Grows ==
  /\ config' = config
  /\ log' \in Seq(Events) /\ Len(log) <= Len(log') /\ \A k \in 1..Len(log) : log'[k] = log[k]
  /\ next' \in Nat /\ next <= next' /\ next' <= Len(log')
  /\ clock' \in Nat /\ clock <= clock'

\* A task that takes nothing has still what it has taken.
LEMMA InOrderStays ==
  ASSUME TypeInv, Grows, NEW t \in Tasks, InOrder(t), task'[t].consumed = task[t].consumed
  PROVE  /\ InOrder(t)'
         /\ \A i \in DOMAIN task[t].consumed : log'[task[t].consumed[i]] = log[task[t].consumed[i]]
<1>1. task[t].consumed \in Seq(Nat)
  BY DEF TypeInv, TaskType
<1>2. Len(task[t].consumed) \in Nat
  BY <1>1
<1>3. \A i \in DOMAIN task[t].consumed : task[t].consumed[i] \in Nat
  BY <1>1
<1>4. Len(task[t].consumed) <= next' /\ \A i \in DOMAIN task[t].consumed : task[t].consumed[i] <= next'
  BY <1>2, <1>3 DEF InOrder, Grows, TypeInv
<1>5. InOrder(t)'
  BY <1>4 DEF InOrder, Increasing
<1>6. \A i \in DOMAIN task[t].consumed : task[t].consumed[i] \in 1..Len(log)
  BY <1>3 DEF InOrder, TypeInv
<1> QED BY <1>5, <1>6 DEF Grows

\* So has a listen what it has heard, what its until has seen and its fill.
LEMMA HeardStays ==
  ASSUME TypeInv, Grows, NEW t \in Tasks, config[t].kind = "listen", InOrder(t),
         task'[t].consumed = task[t].consumed, Heard(t),
         config[t].strategy = "all" => \A n \in Names :
           task[t].bound[n] # NoValue => task'[t].bound[n] = task[t].bound[n]
  PROVE  Heard(t)'
<1>1. \A i \in DOMAIN task[t].consumed :
        log'[task[t].consumed[i]] = log[task[t].consumed[i]] /\ log[task[t].consumed[i]] \in Events
  <2>1. \A i \in DOMAIN task[t].consumed : task[t].consumed[i] \in 1..Len(log)
    <3>1. task[t].consumed \in Seq(Nat)
      BY DEF TypeInv, TaskType
    <3> QED BY <3>1 DEF InOrder, TypeInv
  <2>2. log \in Seq(Events)
    BY DEF TypeInv
  <2> QED BY <2>1, <2>2, InOrderStays
<1>2. config' = config
  BY DEF Grows
<1>3. CASE config[t].strategy = "all"
  <2>1. HeardAll(t)
    BY <1>3 DEF Heard
  <2>2. HeardAll(t)'
    <3> SUFFICES ASSUME NEW i \in DOMAIN task[t].consumed \intersect DOMAIN config[t].filters
                 PROVE  /\ Fits(config[t].filters[i], log'[task[t].consumed[i]])
                        /\ \A n \in Names, a \in Attributes : Asks(config[t].filters[i], n, a) =>
                             task'[t].bound[n] = log'[task[t].consumed[i]][a]
      BY <1>2 DEF HeardAll
    <3>1. Fits(config[t].filters[i], log[task[t].consumed[i]])
      BY <2>1 DEF HeardAll
    <3>2. ASSUME NEW n \in Names, NEW a \in Attributes, Asks(config[t].filters[i], n, a)
          PROVE  task'[t].bound[n] = log[task[t].consumed[i]][a]
      <4>1. task[t].bound[n] = log[task[t].consumed[i]][a]
        BY <2>1, <3>2 DEF HeardAll
      <4>2. task[t].bound[n] # NoValue
        BY <1>1, <4>1, EventValue
      <4> QED BY <1>3, <4>1, <4>2
    <3> QED BY <1>1, <3>1, <3>2
  <2> QED BY <1>2, <1>3, <2>2 DEF Heard
<1>4. CASE config[t].strategy # "all"
  <2>1. HeardAny(t)
    BY <1>4 DEF Heard
  <2>2. HeardAny(t)'
    BY <1>1, <1>2, <2>1 DEF HeardAny
  <2> QED BY <1>2, <1>4, <2>2 DEF Heard
<1> QED BY <1>3, <1>4

LEMMA SeenStays ==
  ASSUME TypeInv, Grows, NEW t \in Tasks, Seen(t), task'[t].untilSeen = task[t].untilSeen
  PROVE  Seen(t)'
<1>1. \A k \in 1..next : k \in 1..next' /\ log'[k] = log[k]
  BY DEF TypeInv, Grows
<1>2. config' = config
  BY DEF Grows
<1> QED BY <1>1, <1>2 DEF Seen

LEMMA FillStays ==
  ASSUME TypeInv, Grows, NEW t \in Tasks, InOrder(t), HasItsFill(t),
         task'[t].consumed = task[t].consumed
  PROVE  HasItsFill(t)'
<1>1. \A k \in 1..next : k \in 1..next' /\ log'[k] = log[k]
  BY DEF TypeInv, Grows
<1>2. config' = config
  BY DEF Grows
<1> DEFINE until == config[t].until
           heard == task[t].consumed
           met == \A i \in DOMAIN until.filters : \E k \in 1..next : Fits(until.filters[i], log[k])
           came == \E k \in 1..next : FitsOne(until.filters, log[k]) /\ \A i \in DOMAIN heard : heard[i] < k
<1>3. met => met'
  BY <1>1, <1>2
<1>4. came => came'
  BY <1>1, <1>2
<1>5. (heard = heard') /\ (until = until')
  BY <1>2
<1> QED BY <1>2, <1>3, <1>4 DEF HasItsFill

\* A schedule that does not run keeps its runs.
LEMMA SpacedStays ==
  ASSUME Grows, NEW t \in Tasks, Spaced(t),
         task'[t].runs = task[t].runs, task'[t].consumed = task[t].consumed
  PROVE  Spaced(t)'
BY DEF Spaced, CronMatches, Period, Grows

LEMMA TimelyStays ==
  ASSUME TypeInv, Grows, NEW t \in Tasks, Timely(t), task'[t] = task[t]
  PROVE  Timely(t)'
<1>1. task[t].runs \in Seq(Nat)
  BY DEF TypeInv, TaskType
<1>2. \A i \in DOMAIN task[t].runs : task[t].runs[i] \in Nat
  BY <1>1
<1>3. \A i \in DOMAIN task[t].runs : task[t].runs[i] <= clock'
  BY <1>2 DEF Timely, TypeInv, Grows
<1> QED BY <1>3 DEF Timely, Period, Grows

\* What a step does not touch is as before.
LEMMA TaskStays ==
  ASSUME TypeInv, Grows, NEW t \in Tasks, TaskInv(t), task'[t] = task[t]
  PROVE  TaskInv(t)'
<1>1. config' = config
  BY DEF Grows
<1>2. Placed(t)'
  BY <1>1 DEF TaskInv, Placed
<1>3. InOrder(t)'
  BY InOrderStays DEF TaskInv
<1>4. ListenInv(t)'
  <2> SUFFICES ASSUME config[t].kind = "listen" PROVE ListenInv(t)'
    BY <1>1 DEF ListenInv
  <2>1. Heard(t) /\ Seen(t) /\ Counts(t) /\ (task[t].pc = "done" => HasItsFill(t))
    BY DEF TaskInv, ListenInv
  <2>2. Heard(t)' /\ Seen(t)'
    BY <2>1, HeardStays, SeenStays DEF TaskInv
  <2>3. Counts(t)'
    BY <1>1, <2>1 DEF Counts, CountsAll, CountsOne, CountsExpression, Pending
  <2>4. task'[t].pc = "done" => HasItsFill(t)'
    BY <2>1, FillStays DEF TaskInv
  <2> QED BY <2>2, <2>3, <2>4 DEF ListenInv
<1>5. FireInv(t)'
  <2> SUFFICES ASSUME Scheduled(t) PROVE FireInv(t)'
    BY <1>1 DEF FireInv, Scheduled
  <2>1. Spaced(t) /\ RunsLeft(t) /\ (config[t].kind # "on" => Timely(t))
    BY DEF TaskInv, FireInv
  <2>2. Spaced(t)'
    BY <2>1, SpacedStays
  <2>3. RunsLeft(t)'
    BY <1>1, <2>1 DEF RunsLeft
  <2>4. config'[t].kind # "on" => Timely(t)'
    BY <1>1, <2>1, TimelyStays
  <2> QED BY <2>2, <2>3, <2>4 DEF FireInv
<1> QED BY <1>2, <1>3, <1>4, <1>5 DEF TaskInv

\* A task takes no event but the next.
TakesNext(t) ==
  \A i \in DOMAIN task'[t].consumed :
    \/ \E j \in DOMAIN task[t].consumed : task'[t].consumed[i] = task[t].consumed[j]
    \/ task'[t].consumed[i] = next + 1

\* A step is well if its task is: the others are as before.
LEMMA OthersStay ==
  ASSUME IInv, Grows, NEW t \in Tasks,
         task' \in [Tasks -> TaskType], \A u \in Tasks \ {t} : task'[u] = task[u],
         Len(log') <= MaxEvents, clock' <= MaxTime,
         TakesNext(t), TaskInv(t)'
  PROVE  IInv'
<1>1. TypeInv'
  BY DEF IInv, TypeInv, Grows
<1>2. ASSUME NEW u \in Tasks PROVE TaskInv(u)'
  <2>1. CASE u = t BY <2>1
  <2>2. CASE u # t BY <2>2, TaskStays DEF IInv
  <2> QED BY <2>1, <2>2
<1>3. ASSUME NEW u \in Tasks, u # t,
             NEW i \in DOMAIN task'[t].consumed, NEW j \in DOMAIN task'[u].consumed
      PROVE  task'[t].consumed[i] # task'[u].consumed[j]
  <2>1. task'[u] = task[u] /\ task[u] \in TaskType
    BY <1>3 DEF IInv, TypeInv
  <2>2. task[u].consumed[j] <= next /\ task[u].consumed[j] \in Nat /\ next \in Nat
    <3>1. task[u].consumed \in Seq(Nat) /\ j \in DOMAIN task[u].consumed
      BY <1>3, <2>1 DEF TaskType
    <3>2. task[u].consumed[j] <= next
      BY <3>1 DEF IInv, TaskInv, InOrder
    <3> QED BY <3>1, <3>2 DEF IInv, TypeInv
  <2>3. \A k \in DOMAIN task[t].consumed : task[t].consumed[k] # task[u].consumed[j]
    BY <1>3, <2>1 DEF IInv, Apart
  <2> QED BY <2>1, <2>2, <2>3 DEF TakesNext
<1>4. ASSUME NEW u \in Tasks, NEW v \in Tasks, u # v PROVE Apart(u, v)'
  <2>1. CASE u = t
    BY <1>3, <1>4, <2>1 DEF Apart
  <2>2. CASE v = t
    BY <1>3, <1>4, <2>2 DEF Apart
  <2>3. CASE u # t /\ v # t
    BY <1>4, <2>3 DEF Apart, IInv
  <2> QED BY <2>1, <2>2, <2>3
<1> QED BY <1>1, <1>2, <1>4 DEF IInv

\* So is a step of the broker or of the clock.
LEMMA AllStay ==
  ASSUME IInv, Grows, task' = task, Len(log') <= MaxEvents, clock' <= MaxTime
  PROVE  IInv'
<1>1. TypeInv'
  BY DEF IInv, TypeInv, Grows
<1>2. \A u \in Tasks : TaskInv(u)'
  BY TaskStays DEF IInv
<1>3. \A u, v \in Tasks : u # v => Apart(u, v)'
  BY DEF IInv, Apart
<1> QED BY <1>1, <1>2, <1>3 DEF IInv

-----------------------------------------------------------------------------
(* The steps of a task on its own *)

LEMMA TaskTyped ==
  ASSUME TypeInv, NEW t \in Tasks
  PROVE  /\ task[t] \in TaskType
         /\ task[t].consumed \in Seq(Nat) /\ Len(task[t].consumed) \in Nat
         /\ task[t].runs \in Seq(Nat) /\ Len(task[t].runs) \in Nat
         /\ task[t].bound \in Bounds /\ task[t].untilBound \in Bounds
         /\ task[t].untilSeen \subseteq Nat /\ task[t].wake \in Nat /\ task[t].pc \in States
<1>1. task[t] \in TaskType
  BY DEF TypeInv
<1>2. task[t].consumed \in Seq(Nat) /\ task[t].runs \in Seq(Nat)
  BY <1>1 DEF TaskType
<1>3. /\ task[t].bound \in Bounds /\ task[t].untilBound \in Bounds
      /\ task[t].untilSeen \subseteq Nat /\ task[t].wake \in Nat /\ task[t].pc \in States
  BY <1>1 DEF TaskType
<1> QED BY <1>1, <1>2, <1>3

Alone == UNCHANGED <<config, log, next, clock>>

LEMMA AloneGrows ==
  ASSUME TypeInv, Alone
  PROVE  Grows /\ Len(log') <= MaxEvents /\ clock' <= MaxTime
BY DEF TypeInv, Alone, Grows

\* A task that moves on without an event.
LEMMA Quiet ==
  ASSUME IInv, Alone, NEW t \in Tasks, NEW new \in TaskType, task' = [task EXCEPT ![t] = new],
         new.consumed = task[t].consumed, new.bound = task[t].bound,
         new.untilSeen = task[t].untilSeen,
         new.pc \in PlacesOf(config[t].kind),
         config[t].kind = "listen" => Counts(t)' /\ (new.pc = "done" => HasItsFill(t)),
         FireInv(t)'
  PROVE  IInv'
<1>1. TypeInv /\ Grows /\ Len(log') <= MaxEvents /\ clock' <= MaxTime /\ config' = config
  BY AloneGrows DEF IInv, Alone
<1>2. /\ task' \in [Tasks -> TaskType]
      /\ task'[t] = new
      /\ \A u \in Tasks \ {t} : task'[u] = task[u]
  BY <1>1 DEF TypeInv
<1>3. InOrder(t)'
  BY <1>1, <1>2, InOrderStays DEF IInv, TaskInv
<1>4. ListenInv(t)'
  <2> SUFFICES ASSUME config[t].kind = "listen" PROVE ListenInv(t)'
    BY <1>1 DEF ListenInv
  <2>1. Heard(t) /\ Seen(t) /\ InOrder(t)
    BY DEF IInv, TaskInv, ListenInv
  <2>2. Heard(t)' /\ Seen(t)'
    BY <1>1, <1>2, <2>1, HeardStays, SeenStays
  <2>3. new.pc = "done" => HasItsFill(t)'
    BY <1>1, <1>2, <2>1, FillStays
  <2> QED BY <1>2, <2>2, <2>3 DEF ListenInv
<1>5. TaskInv(t)'
  BY <1>1, <1>2, <1>3, <1>4 DEF TaskInv, Placed
<1>6. TakesNext(t)
  BY <1>2 DEF TakesNext
<1> QED BY <1>1, <1>2, <1>5, <1>6, OthersStay

LEMMA NewPlace ==
  ASSUME NEW old \in TaskType, NEW pc \in States
  PROVE  LET new == [old EXCEPT !.pc = pc] IN
         /\ new \in TaskType /\ new.pc = pc
         /\ new.consumed = old.consumed /\ new.bound = old.bound
         /\ new.untilBound = old.untilBound /\ new.untilSeen = old.untilSeen
         /\ new.runs = old.runs /\ new.wake = old.wake
BY DEF TaskType

LEMMA Places ==
  \A kind : /\ PlacesOf(kind) \subseteq States
            /\ "failed" \in PlacesOf(kind) /\ "done" \in PlacesOf(kind)
BY DEF PlacesOf, States

\* A listen, or a subscription, that only moves.
LEMMA Moves ==
  ASSUME IInv, Alone, NEW t \in Tasks, NEW pc \in PlacesOf(config[t].kind),
         task' = [task EXCEPT ![t].pc = pc],
         (pc # "asleep" /\ pc # "waiting") \/ ~ Scheduled(t),
         pc # "idle",
         config[t].kind = "listen" => Counts(t)' /\ (pc = "done" => HasItsFill(t))
  PROVE  IInv'
<1> DEFINE new == [task[t] EXCEPT !.pc = pc]
<1>1. TypeInv /\ pc \in States /\ task[t] \in TaskType /\ Grows
  BY Places, TaskTyped, AloneGrows DEF IInv
<1>2. /\ new \in TaskType /\ new.pc = pc
      /\ new.consumed = task[t].consumed /\ new.bound = task[t].bound
      /\ new.untilBound = task[t].untilBound /\ new.untilSeen = task[t].untilSeen
      /\ new.runs = task[t].runs /\ new.wake = task[t].wake
  BY <1>1, NewPlace
<1>3. task' = [task EXCEPT ![t] = new] /\ task'[t] = new
  BY <1>1 DEF TypeInv
<1> HIDE DEF new
<1>4. FireInv(t)'
  <2> SUFFICES ASSUME Scheduled(t) PROVE FireInv(t)'
    BY DEF Alone, FireInv, Scheduled
  <2>1. Spaced(t) /\ (config[t].kind # "on" => Timely(t))
    BY DEF IInv, TaskInv, FireInv
  <2>2. Spaced(t)'
    BY <1>1, <1>2, <1>3, <2>1, SpacedStays
  <2>3. RunsLeft(t)'
    BY <1>2, <1>3 DEF RunsLeft
  <2>4. config[t].kind # "on" => Timely(t)'
    BY <1>2, <1>3, <2>1 DEF Timely, Alone
  <2>5. config' = config
    BY DEF Alone
  <2> QED BY <2>2, <2>3, <2>4, <2>5 DEF FireInv
<1> QED BY <1>2, <1>3, <1>4, Quiet

\* No task minds being cancelled.
LEMMA Fail ==
  ASSUME IInv, Alone, NEW t \in Tasks, task' = [task EXCEPT ![t].pc = "failed"]
  PROVE  IInv'
<1>1. "failed" \in PlacesOf(config[t].kind)
  BY Places
<1>2. task'[t].pc = "failed"
  BY DEF IInv, TypeInv, TaskType
<1>3. Counts(t)'
  BY <1>2 DEF Counts, CountsAll, CountsOne, CountsExpression, Pending
<1> QED BY <1>1, <1>3, Moves

LEMMA BeginListenInv ==
  ASSUME IInv, NEW t \in Tasks, BeginListen(t)
  PROVE  IInv'
<1> DEFINE pc == IF config[t].suspends THEN "suspended" ELSE "waiting"
<1>1. Alone /\ config[t].kind = "listen" /\ task' = [task EXCEPT ![t].pc = pc]
  BY DEF BeginListen, Alone
<1>2. pc \in {"suspended", "waiting"}
  OBVIOUS
<1> HIDE DEF pc
<1>3. pc \in PlacesOf(config[t].kind)
  BY <1>1, <1>2 DEF PlacesOf
<1>4. task[t].pc = "idle" /\ task'[t].pc = pc /\ task'[t].consumed = task[t].consumed
  BY <1>1 DEF BeginListen, IInv, TypeInv, TaskType
<1>5. Counts(t)
  BY <1>1 DEF IInv, TaskInv, ListenInv
<1>6. Counts(t)'
  BY <1>1, <1>2, <1>4, <1>5 DEF Counts, CountsAll, CountsOne, CountsExpression, Pending, Alone
<1> QED BY <1>1, <1>2, <1>3, <1>6, Moves DEF Scheduled

LEMMA ResumeListenInv ==
  ASSUME IInv, NEW t \in Tasks, ResumeListen(t)
  PROVE  IInv'
<1>1. Alone /\ task[t].pc = "suspended" /\ task' = [task EXCEPT ![t].pc = "waiting"]
  BY DEF ResumeListen, Alone
<1>2. config[t].kind = "listen"
  BY <1>1 DEF IInv, TaskInv, Placed, PlacesOf
<1>3. task'[t].pc = "waiting" /\ task'[t].consumed = task[t].consumed
  BY <1>1 DEF IInv, TypeInv, TaskType
<1>4. Counts(t)
  BY <1>2 DEF IInv, TaskInv, ListenInv
<1>5. Counts(t)'
  BY <1>1, <1>3, <1>4 DEF Counts, CountsAll, CountsOne, CountsExpression, Pending, Alone
<1>6. "waiting" \in PlacesOf(config[t].kind)
  BY <1>2 DEF PlacesOf
<1> QED BY <1>1, <1>2, <1>5, <1>6, Moves DEF Scheduled

\* The loop of a listen ends when it has its fill.
LEMMA LoopEnds ==
  ASSUME NEW t \in Tasks, NEW heard \in Seq(Nat), config[t] \in ListenType,
         ~ LoopsOn(t, heard), heard # <<>>,
         config[t].strategy # "all" => Len(heard) = 1,
         Len(heard) <= Len(config[t].filters) \/ Len(heard) = 1
  PROVE  IF config[t].strategy = "all"
         THEN Len(heard) = IF config[t].filters = <<>> THEN 1 ELSE Len(config[t].filters)
         ELSE config[t].until.strategy = "none" /\ Len(heard) = 1
<1>1. config[t].filters \in Seq(FilterType) /\ Len(config[t].filters) \in Nat
  BY DEF ListenType
<1>2. Len(heard) \in Nat /\ Len(heard) > 0
  OBVIOUS
<1>3. CASE config[t].strategy = "all"
  <2>1. Len(heard) >= Len(config[t].filters)
    BY <1>1, <1>2, <1>3 DEF LoopsOn
  <2>2. config[t].filters # <<>> => Len(config[t].filters) > 0
    BY <1>1
  <2>3. config[t].filters = <<>> => Len(config[t].filters) = 0
    BY <1>1
  <2> QED BY <1>1, <1>2, <1>3, <2>1, <2>2, <2>3
<1>4. CASE config[t].strategy # "all"
  BY <1>4 DEF LoopsOn
<1> QED BY <1>3, <1>4

LEMMA ChildEndsInv ==
  ASSUME IInv, NEW t \in Tasks, ChildEnds(t)
  PROVE  IInv'
<1>1. Alone /\ task[t].pc = "child" /\ TypeInv
  BY DEF ChildEnds, Alone, IInv
<1>2. config[t].kind = "listen" /\ config[t] \in ListenType /\ config \in Setups
  <2>1. config[t].kind = "listen"
    BY <1>1 DEF IInv, TaskInv, Placed, PlacesOf
  <2> QED BY <1>1, <2>1, ListenConfig DEF TypeInv
<1>3. CASE task' = [task EXCEPT ![t].pc = "failed"]
  BY <1>1, <1>3, Fail
<1>4. ASSUME NEW pc, task' = [task EXCEPT ![t].pc = pc],
             pc = IF LoopsOn(t, task[t].consumed) THEN "waiting" ELSE "done"
      PROVE  IInv'
  <2>1. pc \in PlacesOf(config[t].kind)
    BY <1>2, <1>4 DEF PlacesOf
  <2>2. task'[t].pc = pc /\ task'[t].consumed = task[t].consumed
    BY <1>1, <1>4 DEF TypeInv, TaskType
  <2>3. Counts(t) /\ Len(task[t].consumed) \in Nat /\ task[t].consumed \in Seq(Nat)
    BY <1>1, <1>2, TaskTyped DEF IInv, TaskInv, ListenInv
  <2>4. Counts(t)'
    BY <1>1, <1>4, <2>2, <2>3
    DEF Counts, CountsAll, CountsOne, CountsExpression, Pending, Alone, LoopsOn
  <2>5. ASSUME pc = "done" PROVE HasItsFill(t)
    <3>1. ~ LoopsOn(t, task[t].consumed)
      BY <1>4, <2>5
    <3>2. config[t].strategy # "all" => config[t].until.strategy = "none"
      BY <3>1 DEF LoopsOn
    <3>3. config[t].strategy # "all" => Len(task[t].consumed) = 1
      BY <1>1, <2>3, <3>2 DEF Counts, CountsOne
    <3>4. Len(task[t].consumed) >= 1
      <4>1. CASE config[t].strategy = "all"
        BY <1>1, <2>3, <4>1 DEF Counts, CountsAll
      <4>2. CASE config[t].strategy # "all"
        BY <3>3, <4>2
      <4> QED BY <4>1, <4>2
    <3>5. Len(task[t].consumed) <= Len(config[t].filters) \/ Len(task[t].consumed) = 1
      BY <1>1, <2>3, <3>3 DEF Counts, CountsAll
    <3>6. task[t].consumed # <<>>
      BY <2>3, <3>4
    <3>7. IF config[t].strategy = "all"
          THEN Len(task[t].consumed) = IF config[t].filters = <<>> THEN 1 ELSE Len(config[t].filters)
          ELSE config[t].until.strategy = "none" /\ Len(task[t].consumed) = 1
      BY <1>2, <2>3, <3>1, <3>3, <3>5, <3>6, LoopEnds
    <3>8. CASE config[t].strategy = "all"
      <4>1. Len(task[t].consumed) = IF config[t].filters = <<>> THEN 1 ELSE Len(config[t].filters)
        BY <3>7, <3>8
      <4>2. config[t].until.strategy = "none"
        BY <1>2, <3>8, ListenConfig
      <4> QED BY <3>8, <4>1, <4>2 DEF HasItsFill
    <3>9. CASE config[t].strategy # "all"
      <4>1. config[t].until.strategy = "none" /\ Len(task[t].consumed) = 1
        BY <3>7, <3>9
      <4> QED BY <3>9, <4>1 DEF HasItsFill
    <3> QED BY <3>8, <3>9
  <2> QED BY <1>1, <1>2, <1>4, <2>1, <2>4, <2>5, Moves DEF Scheduled
<1>5. PICK ok \in BOOLEAN :
        task' = [task EXCEPT ![t].pc =
                  IF ~ ok THEN "failed"
                  ELSE IF LoopsOn(t, task[t].consumed) THEN "waiting" ELSE "done"]
  BY DEF ChildEnds
<1>6. CASE ok
  BY <1>4, <1>5, <1>6
<1>7. CASE ~ ok
  BY <1>3, <1>5, <1>7
<1> QED BY <1>6, <1>7

LEMMA SubscribeInv ==
  ASSUME IInv, NEW t \in Tasks, Subscribe(t)
  PROVE  IInv'
<1>1. Alone /\ config[t].kind = "asyncapi" /\ task' = [task EXCEPT ![t].pc = "waiting"]
  BY DEF Subscribe, Alone
<1>2. "waiting" \in PlacesOf(config[t].kind)
  BY <1>1 DEF PlacesOf
<1> QED BY <1>1, <1>2, Moves DEF Scheduled

-----------------------------------------------------------------------------
(* A listen and the next event *)

LEMMA TakeGrows ==
  ASSUME TypeInv, NEW t \in Tasks, Take(t)
  PROVE  /\ Grows /\ Len(log') <= MaxEvents /\ clock' <= MaxTime
         /\ next' = next + 1 /\ NextEvent \in Events /\ log'[next + 1] = NextEvent
         /\ config' = config /\ clock' = clock /\ log' = log
BY DEF TypeInv, Take, Grows, NextEvent

\* What until makes of an event: it remembers filters that the event fits,
\* and it is met by all of them or by one.
LEMMA SawFacts ==
  ASSUME TypeInv, NEW t \in Tasks, config[t].kind = "listen", Seen(t), NEW event \in Events
  PROVE  LET until == config[t].until
             saw == SawUntil(t, event)
         IN /\ saw.bound \in Bounds /\ saw.seen \subseteq Nat
            /\ \A i \in saw.seen : \/ i \in task[t].untilSeen
                                   \/ i \in DOMAIN until.filters /\ Fits(until.filters[i], event)
            /\ saw.ends => /\ until.strategy \in {"all", "one", "any"}
                           /\ until.strategy = "all" => saw.seen = DOMAIN until.filters
                           /\ until.strategy # "all" => FitsOne(until.filters, event)
<1> DEFINE until == config[t].until
           found == FirstMatch(until.filters, task[t].untilSeen, event, task[t].untilBound)
           saw == SawUntil(t, event)
           seen == IF until.strategy = "all" /\ found.index # 0
                   THEN task[t].untilSeen \union {found.index} ELSE task[t].untilSeen
           ends == CASE until.strategy = "all" -> seen = DOMAIN until.filters
                     [] until.strategy = "one" -> found.index # 0
                     [] until.strategy = "any" -> found.index # 0 \/ until.filters = <<>>
                     [] OTHER -> FALSE
<1>1. /\ until.filters \in Seq(FilterType)
      /\ until.strategy \in {"none", "expression", "one", "any", "all"}
  BY ListenConfig DEF TypeInv, ListenType, UntilType
<1>2. task[t].untilBound \in Bounds /\ task[t].untilSeen \subseteq Nat
  BY TaskTyped
<1>3. saw = [bound |-> found.bound, seen |-> seen, ends |-> ends]
  BY Zenon DEF SawUntil
<1>4. /\ found.bound \in Bounds
      /\ found.index # 0 => /\ found.index \in DOMAIN until.filters
                            /\ Fits(until.filters[found.index], event)
      /\ found.index \in Nat
  <2>1. Sound(found, until.filters, task[t].untilSeen, event, task[t].untilBound)
    <3> HIDE DEF until
    <3> QED BY <1>1, <1>2, FirstMatchSound
  <2> HIDE DEF until, found
  <2> QED BY <2>1 DEF Sound, FoundType
<1> HIDE DEF found, until
<1>6. found.index # 0 => FitsOne(until.filters, event)
  BY <1>4 DEF FitsOne
<1>7. seen \subseteq Nat /\ \A i \in seen : \/ i \in task[t].untilSeen
                                            \/ i \in DOMAIN until.filters /\ Fits(until.filters[i], event)
  BY <1>2, <1>4
<1>8. ends => /\ until.strategy \in {"all", "one", "any"}
              /\ until.strategy = "all" => seen = DOMAIN until.filters
              /\ until.strategy # "all" => FitsOne(until.filters, event)
  <2>1. until.filters = <<>> => FitsOne(until.filters, event)
    BY DEF FitsOne
  <2> HIDE DEF seen
  <2>2. CASE until.strategy = "all" BY <2>2
  <2>3. CASE until.strategy = "one" BY <1>6, <2>3
  <2>4. CASE until.strategy = "any" BY <1>6, <2>1, <2>4
  <2>5. CASE until.strategy \notin {"all", "one", "any"} BY <2>5
  <2> QED BY <2>2, <2>3, <2>4, <2>5
<1>9. saw.bound = found.bound /\ saw.seen = seen /\ saw.ends = ends
  <2> HIDE DEF saw, seen, ends
  <2> QED BY <1>3
<1> HIDE DEF saw, seen, ends
<1>10. /\ saw.bound \in Bounds /\ saw.seen \subseteq Nat
       /\ \A i \in saw.seen : \/ i \in task[t].untilSeen
                              \/ i \in DOMAIN until.filters /\ Fits(until.filters[i], event)
  BY <1>4, <1>7, <1>9
<1>11. saw.ends => /\ until.strategy \in {"all", "one", "any"}
                   /\ until.strategy = "all" => saw.seen = DOMAIN until.filters
                   /\ until.strategy # "all" => FitsOne(until.filters, event)
  BY <1>8, <1>9
<1> QED BY <1>10, <1>11 DEF until, saw

Found(t, event) == FirstMatch(NextFilters(t), {}, event, task[t].bound)

\* The filter that an event matches for all is the next; bindings only grow.
LEMMA FoundFacts ==
  ASSUME TypeInv, NEW t \in Tasks, config[t].kind = "listen", NEW event \in Events
  PROVE  LET filters == config[t].filters
             nth == Len(task[t].consumed) + 1
             found == Found(t, event)
         IN /\ found.bound \in Bounds
            /\ \A n \in Names : task[t].bound[n] # NoValue => found.bound[n] = task[t].bound[n]
            /\ found.index # 0 \/ NextFilters(t) = <<>> =>
                 /\ config[t].strategy # "all" => FitsOne(filters, event)
                 /\ config[t].strategy = "all" /\ nth \in DOMAIN filters =>
                      /\ Fits(filters[nth], event)
                      /\ \A n \in Names, a \in Attributes :
                           Asks(filters[nth], n, a) => found.bound[n] = event[a]
<1> DEFINE filters == config[t].filters
           nth == Len(task[t].consumed) + 1
           found == Found(t, event)
<1>1. filters \in Seq(FilterType)
  BY ListenConfig DEF TypeInv, ListenType
<1>2. NextFilters(t) = IF config[t].strategy = "all" /\ nth \in DOMAIN filters
                       THEN <<filters[nth]>> ELSE filters
  BY Zenon DEF NextFilters
<1>3. NextFilters(t) \in Seq(FilterType)
  BY <1>1, <1>2
<1>4. /\ found.bound \in Bounds
      /\ \A n \in Names : task[t].bound[n] # NoValue => found.bound[n] = task[t].bound[n]
      /\ found.index # 0 =>
           /\ found.index \in DOMAIN NextFilters(t)
           /\ Fits(NextFilters(t)[found.index], event)
           /\ \A n \in Names, a \in Attributes :
                Asks(NextFilters(t)[found.index], n, a) => found.bound[n] = event[a]
  <2>1. task[t].bound \in Bounds
    BY TaskTyped
  <2>2. Sound(found, NextFilters(t), {}, event, task[t].bound)
    BY <1>3, <2>1, FirstMatchSound DEF Found
  <2> HIDE DEF found
  <2> QED BY <2>2 DEF Sound, FoundType
<1> HIDE DEF found
<1>6. ASSUME found.index # 0 \/ NextFilters(t) = <<>>, config[t].strategy # "all"
      PROVE  FitsOne(filters, event)
  <2>1. NextFilters(t) = filters
    BY <1>2, <1>6
  <2> QED BY <1>4, <1>6, <2>1 DEF FitsOne
<1>7. ASSUME found.index # 0 \/ NextFilters(t) = <<>>,
             config[t].strategy = "all", nth \in DOMAIN filters
      PROVE  /\ Fits(filters[nth], event)
             /\ \A n \in Names, a \in Attributes :
                  Asks(filters[nth], n, a) => found.bound[n] = event[a]
  <2>1. NextFilters(t) = <<filters[nth]>>
    BY <1>2, <1>7
  <2>2. found.index # 0 /\ found.index \in DOMAIN NextFilters(t)
    BY <1>4, <1>7, <2>1
  <2>3. NextFilters(t)[found.index] = filters[nth]
    BY <2>1, <2>2
  <2> QED BY <1>4, <2>2, <2>3
<1> QED BY <1>4, <1>6, <1>7 DEF found

LEMMA Appending ==
  ASSUME NEW s \in Seq(Nat), NEW x \in Nat
  PROVE  /\ Append(s, x) \in Seq(Nat)
         /\ DOMAIN Append(s, x) = 1..(Len(s) + 1) /\ DOMAIN s = 1..Len(s) /\ Len(s) \in Nat
         /\ Len(Append(s, x)) = Len(s) + 1
         /\ Append(s, x)[Len(s) + 1] = x
         /\ \A i \in DOMAIN s : Append(s, x)[i] = s[i] /\ s[i] \in Nat
         /\ \A i \in DOMAIN Append(s, x) : i \in DOMAIN s \/ i = Len(s) + 1
OBVIOUS

\* What has been heard, next to a listen that hears one event more.
LEMMA HeardMore ==
  ASSUME TypeInv, NEW t \in Tasks, config[t].kind = "listen", InOrder(t), Heard(t), Take(t),
         Found(t, NextEvent).index # 0 \/ NextFilters(t) = <<>>,
         task'[t].consumed = Append(task[t].consumed, next + 1),
         task'[t].bound = Found(t, NextEvent).bound
  PROVE  Heard(t)' /\ InOrder(t)'
<1> DEFINE filters == config[t].filters
           heard == task[t].consumed
           nth == Len(heard) + 1
           found == Found(t, NextEvent)
<1>1. /\ Grows /\ next' = next + 1 /\ NextEvent \in Events /\ log'[next + 1] = NextEvent
      /\ config' = config /\ log' = log
  BY TakeGrows
<1>2. heard \in Seq(Nat) /\ Len(heard) \in Nat /\ next \in Nat
  BY TaskTyped DEF TypeInv
<1>3. /\ DOMAIN task'[t].consumed = 1..nth /\ DOMAIN heard = 1..Len(heard)
      /\ Len(task'[t].consumed) = nth
      /\ task'[t].consumed[nth] = next + 1
      /\ \A i \in DOMAIN heard : task'[t].consumed[i] = heard[i] /\ heard[i] \in Nat
  <2>1. task'[t].consumed = Append(heard, next + 1) /\ next + 1 \in Nat
    BY <1>2
  <2> HIDE DEF heard
  <2>2. /\ DOMAIN Append(heard, next + 1) = 1..nth /\ DOMAIN heard = 1..Len(heard)
        /\ Len(Append(heard, next + 1)) = nth
        /\ Append(heard, next + 1)[nth] = next + 1
        /\ \A i \in DOMAIN heard : Append(heard, next + 1)[i] = heard[i] /\ heard[i] \in Nat
    BY <1>2, <2>1, Appending
  <2> QED BY <2>1, <2>2
<1>4. \A i \in DOMAIN heard : heard[i] \in 1..next /\ log[heard[i]] \in Events
  <2>1. \A i \in DOMAIN heard : heard[i] \in 1..next
    BY <1>2, <1>3 DEF InOrder
  <2>2. \A k \in 1..next : log[k] \in Events
    BY DEF TypeInv
  <2> QED BY <2>1, <2>2
<1>5. InOrder(t)'
  <2>1. \A i \in DOMAIN heard : 1 <= heard[i] /\ heard[i] <= next
    BY DEF InOrder
  <2>2. \A i \in DOMAIN task'[t].consumed : i \in DOMAIN heard \/ i = nth
    BY <1>2, <1>3
  <2>3. \A i \in DOMAIN task'[t].consumed : 1 <= task'[t].consumed[i] /\ task'[t].consumed[i] <= next'
    BY <1>1, <1>2, <1>3, <2>1, <2>2
  <2>4. Len(task'[t].consumed) <= next'
    BY <1>1, <1>2, <1>3 DEF InOrder
  <2>5. ASSUME NEW i \in DOMAIN task'[t].consumed, NEW j \in DOMAIN task'[t].consumed, i < j
        PROVE  task'[t].consumed[i] < task'[t].consumed[j]
    <3>1. i \in DOMAIN heard
      BY <1>2, <1>3, <2>5
    <3>2. CASE j \in DOMAIN heard
      BY <1>3, <2>5, <3>1, <3>2 DEF InOrder, Increasing
    <3>3. CASE j = nth
      BY <1>2, <1>3, <1>4, <3>1, <3>3
    <3> QED BY <2>2, <3>2, <3>3
  <2> QED BY <2>3, <2>4, <2>5 DEF InOrder, Increasing
<1>6. /\ \A n \in Names : task[t].bound[n] # NoValue => found.bound[n] = task[t].bound[n]
      /\ config[t].strategy # "all" => FitsOne(filters, NextEvent)
      /\ config[t].strategy = "all" /\ nth \in DOMAIN filters =>
           /\ Fits(filters[nth], NextEvent)
           /\ \A n \in Names, a \in Attributes :
                Asks(filters[nth], n, a) => found.bound[n] = NextEvent[a]
  BY <1>1, FoundFacts
<1> HIDE DEF found
<1>7. \A i \in DOMAIN task'[t].consumed :
        \/ i \in DOMAIN heard /\ task'[t].consumed[i] = heard[i]
        \/ i = nth /\ log'[task'[t].consumed[i]] = NextEvent
  BY <1>1, <1>2, <1>3
<1>8. CASE config[t].strategy = "all"
  <2> SUFFICES ASSUME NEW i \in DOMAIN task'[t].consumed \intersect DOMAIN filters
               PROVE  /\ Fits(filters[i], log'[task'[t].consumed[i]])
                      /\ \A n \in Names, a \in Attributes : Asks(filters[i], n, a) =>
                           task'[t].bound[n] = log'[task'[t].consumed[i]][a]
    BY <1>1, <1>5, <1>8 DEF Heard, HeardAll
  <2>1. CASE i = nth
    <3>1. /\ Fits(filters[nth], NextEvent)
          /\ \A n \in Names, a \in Attributes :
               Asks(filters[nth], n, a) => found.bound[n] = NextEvent[a]
      BY <1>6, <1>8, <2>1
    <3>2. log'[task'[t].consumed[i]] = NextEvent
      BY <1>1, <1>2, <1>3, <2>1
    <3>3. task'[t].bound = found.bound
      BY DEF found
    <3>4. Fits(filters[i], log'[task'[t].consumed[i]])
      BY <2>1, <3>1, <3>2
    <3>5. ASSUME NEW n \in Names, NEW a \in Attributes, Asks(filters[i], n, a)
          PROVE  task'[t].bound[n] = log'[task'[t].consumed[i]][a]
      BY <2>1, <3>1, <3>2, <3>3, <3>5
    <3> QED BY <3>4, <3>5
  <2>2. CASE i \in DOMAIN heard
    <3>1. HeardAll(t)
      BY <1>8 DEF Heard
    <3>2. log'[task'[t].consumed[i]] = log[heard[i]]
      BY <1>1, <1>3, <2>2
    <3>3. Fits(filters[i], log[heard[i]])
      BY <2>2, <3>1 DEF HeardAll
    <3>4. ASSUME NEW n \in Names, NEW a \in Attributes, Asks(filters[i], n, a)
          PROVE  task'[t].bound[n] = log[heard[i]][a]
      <4>1. task[t].bound[n] = log[heard[i]][a]
        BY <2>2, <3>1, <3>4 DEF HeardAll
      <4>2. task[t].bound[n] # NoValue
        BY <1>4, <2>2, <4>1, EventValue
      <4> QED BY <1>6, <4>1, <4>2 DEF found
    <3> QED BY <3>2, <3>3, <3>4
  <2> QED BY <1>7, <2>1, <2>2
<1>9. CASE config[t].strategy # "all"
  <2>1. HeardAny(t)
    BY <1>9 DEF Heard
  <2>2. \A i \in DOMAIN task'[t].consumed : FitsOne(filters, log'[task'[t].consumed[i]])
    BY <1>1, <1>6, <1>7, <1>9, <2>1 DEF HeardAny
  <2> QED BY <1>1, <1>5, <1>9, <2>2 DEF Heard, HeardAny
<1> QED BY <1>5, <1>8, <1>9

\* What until remembers has come, this event included.
LEMMA SeenMore ==
  ASSUME TypeInv, NEW t \in Tasks, config[t].kind = "listen", Seen(t), Take(t),
         task'[t].untilSeen = SawUntil(t, NextEvent).seen
  PROVE  Seen(t)'
<1>1. /\ Grows /\ next' = next + 1 /\ NextEvent \in Events /\ log'[next + 1] = NextEvent
      /\ config' = config /\ log' = log /\ next \in Nat
  BY TakeGrows DEF TypeInv
<1>2. \A i \in SawUntil(t, NextEvent).seen :
        \/ i \in task[t].untilSeen
        \/ i \in DOMAIN config[t].until.filters /\ Fits(config[t].until.filters[i], NextEvent)
  BY <1>1, SawFacts
<1>3. next + 1 \in 1..next' /\ \A k \in 1..next : k \in 1..next' /\ log'[k] = log[k]
  BY <1>1 DEF TypeInv
<1>4. ASSUME NEW i \in SawUntil(t, NextEvent).seen
      PROVE  /\ i \in DOMAIN config[t].until.filters
             /\ \E k \in 1..next' : Fits(config[t].until.filters[i], log'[k])
  <2>1. CASE i \in task[t].untilSeen
    BY <1>3, <2>1 DEF Seen
  <2>2. CASE i \in DOMAIN config[t].until.filters /\ Fits(config[t].until.filters[i], NextEvent)
    BY <1>1, <1>3, <2>2
  <2> QED BY <1>2, <1>4, <2>1, <2>2
<1> QED BY <1>1, <1>4 DEF Seen

\* A listen that has taken an event, and consumed it or not.
LEMMA Hears ==
  ASSUME IInv, NEW t \in Tasks, config[t].kind = "listen", Take(t),
         NEW new \in TaskType, task' = [task EXCEPT ![t] = new],
         new.untilSeen = SawUntil(t, NextEvent).seen,
         \/ new.consumed = task[t].consumed /\ new.bound \in {task[t].bound, Found(t, NextEvent).bound}
         \/ /\ new.consumed = Append(task[t].consumed, next + 1)
            /\ new.bound = Found(t, NextEvent).bound
            /\ Found(t, NextEvent).index # 0 \/ NextFilters(t) = <<>>,
         new.pc \in {"waiting", "child", "done"},
         Counts(t)', new.pc = "done" => HasItsFill(t)'
  PROVE  IInv'
<1>1. /\ TypeInv /\ Grows /\ Len(log') <= MaxEvents /\ clock' <= MaxTime
      /\ next' = next + 1 /\ config' = config /\ NextEvent \in Events
  BY TakeGrows DEF IInv
<1>2. /\ task' \in [Tasks -> TaskType] /\ task'[t] = new
      /\ \A u \in Tasks \ {t} : task'[u] = task[u]
  BY <1>1 DEF TypeInv
<1>3. InOrder(t) /\ Heard(t) /\ Seen(t)
  BY DEF IInv, TaskInv, ListenInv
<1>4. InOrder(t)' /\ Heard(t)' /\ TakesNext(t)
  <2>1. CASE /\ new.consumed = task[t].consumed
             /\ new.bound \in {task[t].bound, Found(t, NextEvent).bound}
    <3>1. \A n \in Names : task[t].bound[n] # NoValue => task'[t].bound[n] = task[t].bound[n]
      BY <1>1, <1>2, <2>1, FoundFacts
    <3>2. InOrder(t)' /\ Heard(t)'
      BY <1>1, <1>2, <1>3, <2>1, <3>1, InOrderStays, HeardStays
    <3> QED BY <1>2, <2>1, <3>2 DEF TakesNext
  <2>2. CASE /\ new.consumed = Append(task[t].consumed, next + 1)
             /\ new.bound = Found(t, NextEvent).bound
             /\ Found(t, NextEvent).index # 0 \/ NextFilters(t) = <<>>
    <3>1. InOrder(t)' /\ Heard(t)'
      BY <1>1, <1>2, <1>3, <2>2, HeardMore
    <3>2. task[t].consumed \in Seq(Nat) /\ next + 1 \in Nat
      BY <1>1, TaskTyped DEF TypeInv
    <3>3. \A i \in DOMAIN new.consumed :
            \/ i \in DOMAIN task[t].consumed /\ new.consumed[i] = task[t].consumed[i]
            \/ new.consumed[i] = next + 1
      BY <2>2, <3>2, Appending
    <3>4. TakesNext(t)
      BY <1>2, <3>3 DEF TakesNext
    <3> QED BY <3>1, <3>4
  <2> QED BY <2>1, <2>2
<1>5. Seen(t)'
  BY <1>1, <1>2, <1>3, SeenMore
<1>6. ListenInv(t)'
  BY <1>2, <1>4, <1>5 DEF ListenInv
<1>7. Placed(t)' /\ FireInv(t)'
  BY <1>1, <1>2 DEF Placed, PlacesOf, FireInv, Scheduled
<1> QED BY <1>1, <1>2, <1>4, <1>6, <1>7, OthersStay DEF TaskInv

\* The event that ends until is its last.
LEMMA UntilEnds ==
  ASSUME TypeInv, NEW t \in Tasks, config[t].kind = "listen", InOrder(t), Seen(t)',
         Take(t), SawUntil(t, NextEvent).ends, Seen(t),
         task'[t].untilSeen = SawUntil(t, NextEvent).seen,
         task'[t].consumed = task[t].consumed
  PROVE  HasItsFill(t)'
<1> DEFINE until == config[t].until
<1>1. /\ next' = next + 1 /\ config' = config /\ NextEvent \in Events
      /\ log'[next + 1] = NextEvent /\ next \in Nat
  BY TakeGrows DEF TypeInv
<1>2. /\ until.strategy \in {"all", "one", "any"}
      /\ until.strategy = "all" => task'[t].untilSeen = DOMAIN until.filters
      /\ until.strategy # "all" => FitsOne(until.filters, NextEvent)
  BY <1>1, SawFacts
<1>3. config[t].strategy # "all"
  <2>1. config[t].strategy = "all" => until.strategy = "none"
    BY ListenConfig DEF TypeInv
  <2> QED BY <1>2, <2>1
<1>4. CASE until.strategy = "all"
  <2>1. \A i \in DOMAIN until.filters : \E k \in 1..next' : Fits(until.filters[i], log'[k])
    BY <1>1, <1>2, <1>4 DEF Seen
  <2> QED BY <1>1, <1>3, <1>4, <2>1 DEF HasItsFill
<1>5. CASE until.strategy # "all"
  <2>1. \A i \in DOMAIN task'[t].consumed : task'[t].consumed[i] < next + 1
    <3>1. task[t].consumed \in Seq(Nat)
      BY TaskTyped
    <3>2. \A i \in DOMAIN task[t].consumed : task[t].consumed[i] \in Nat /\ task[t].consumed[i] <= next
      BY <3>1 DEF InOrder
    <3> QED BY <1>1, <3>2
  <2>2. next + 1 \in 1..next' /\ FitsOne(until.filters, log'[next + 1])
    BY <1>1, <1>2, <1>5
  <2>3. \E k \in 1..next' : /\ FitsOne(until.filters, log'[k])
                            /\ \A i \in DOMAIN task'[t].consumed : task'[t].consumed[i] < k
    BY <2>1, <2>2
  <2>4. until.strategy \in {"one", "any"}
    BY <1>2, <1>5
  <2> QED BY <1>1, <1>3, <2>3, <2>4 DEF HasItsFill
<1> QED BY <1>4, <1>5

LEMMA HearInv ==
  ASSUME IInv, NEW t \in Tasks, Hear(t)
  PROVE  IInv'
<1> DEFINE until == SawUntil(t, NextEvent)
           found == Found(t, NextEvent)
           heard == [task[t] EXCEPT !.untilBound = until.bound, !.untilSeen = until.seen]
           more == Append(task[t].consumed, next + 1)
           pc == IF config[t].foreach THEN "child"
                 ELSE IF LoopsOn(t, more) THEN "waiting" ELSE "done"
           new == AfterEvent(t, NextEvent)
           Last(bound, consumed, at) ==
             [heard EXCEPT !.bound = bound, !.consumed = consumed, !.pc = at]
<1>1. /\ TypeInv /\ config[t].kind = "listen" /\ task[t].pc = "waiting" /\ Take(t)
      /\ task' = [task EXCEPT ![t] = new]
  BY DEF Hear, Waits, IInv
<1>2. /\ next' = next + 1 /\ config' = config /\ NextEvent \in Events /\ next \in Nat
      /\ config[t] \in ListenType
      /\ config[t].strategy # "any" => config[t].until.strategy = "none"
  BY <1>1, TakeGrows, ListenConfig DEF TypeInv
<1>3. /\ until.bound \in Bounds /\ until.seen \subseteq Nat
      /\ found.bound \in Bounds
      /\ InOrder(t) /\ Seen(t) /\ Counts(t)
  <2>1. InOrder(t) /\ Seen(t) /\ Counts(t)
    BY <1>1 DEF IInv, TaskInv, ListenInv
  <2> QED BY <1>1, <1>2, <2>1, SawFacts, FoundFacts
<1>4. /\ task[t].consumed \in Seq(Nat) /\ more \in Seq(Nat)
      /\ Len(more) = Len(task[t].consumed) + 1 /\ Len(task[t].consumed) \in Nat
  BY <1>1, <1>2, TaskTyped, Appending
<1>5. new = IF until.ends THEN [heard EXCEPT !.pc = "done"]
            ELSE IF found.index = 0 /\ NextFilters(t) # <<>>
            THEN [heard EXCEPT !.bound = found.bound]
            ELSE IF ExpressionHolds(t) THEN [heard EXCEPT !.bound = found.bound, !.pc = "done"]
            ELSE [heard EXCEPT !.bound = found.bound, !.consumed = more, !.pc = pc]
  BY Zenon DEF AfterEvent, Found
<1>6. /\ heard \in TaskType /\ heard.untilSeen = until.seen /\ heard.pc = "waiting"
      /\ heard.consumed = task[t].consumed /\ heard.bound = task[t].bound
  <2>1. task[t] \in TaskType
    BY <1>1, TaskTyped
  <2> HIDE DEF until
  <2> QED BY <1>1, <1>3, <2>1 DEF TaskType
<1>7. pc \in {"child", "waiting", "done"}
  OBVIOUS
<1> HIDE DEF until, found, heard, more, pc, new
<1>8. ASSUME NEW bound \in Bounds, NEW consumed \in Seq(Nat), NEW at \in {"child", "waiting", "done"}
      PROVE  /\ Last(bound, consumed, at) \in TaskType
             /\ Last(bound, consumed, at).untilSeen = until.seen
             /\ Last(bound, consumed, at).pc = at
             /\ Last(bound, consumed, at).consumed = consumed
             /\ Last(bound, consumed, at).bound = bound
  BY <1>6 DEF TaskType, States
<1>9. [heard EXCEPT !.pc = "done"] = Last(task[t].bound, task[t].consumed, "done")
  BY <1>6 DEF TaskType
<1>10. [heard EXCEPT !.bound = found.bound] = Last(found.bound, task[t].consumed, "waiting")
  BY <1>6 DEF TaskType
<1>11. [heard EXCEPT !.bound = found.bound, !.pc = "done"] = Last(found.bound, task[t].consumed, "done")
  BY <1>6 DEF TaskType
<1> HIDE DEF Last
<1>12. task[t].bound \in Bounds
  BY <1>1, TaskTyped
<1>13. CASE until.ends
  <2>1. /\ new \in TaskType /\ new.untilSeen = until.seen /\ new.pc = "done"
        /\ new.consumed = task[t].consumed /\ new.bound = task[t].bound
    <3>1. new = Last(task[t].bound, task[t].consumed, "done")
      BY <1>5, <1>9, <1>13
    <3> QED BY <1>4, <1>8, <1>12, <3>1
  <2>2. task'[t] = new
    BY <1>1 DEF TypeInv
  <2>3. Counts(t)'
    BY <2>1, <2>2 DEF Counts, CountsAll, CountsOne, CountsExpression, Pending
  <2>4. Seen(t)'
    BY <1>1, <1>3, <2>1, <2>2, SeenMore DEF until
  <2>5. HasItsFill(t)'
    BY <1>1, <1>3, <1>13, <2>1, <2>2, <2>4, UntilEnds DEF until
  <2> QED BY <1>1, <2>1, <2>3, <2>5, Hears DEF until
<1>14. CASE ~ until.ends /\ found.index = 0 /\ NextFilters(t) # <<>>
  <2>1. /\ new \in TaskType /\ new.untilSeen = until.seen /\ new.pc = "waiting"
        /\ new.consumed = task[t].consumed /\ new.bound = found.bound
    <3>1. new = Last(found.bound, task[t].consumed, "waiting")
      BY <1>5, <1>10, <1>14
    <3> QED BY <1>3, <1>4, <1>8, <3>1
  <2>2. task'[t] = new
    BY <1>1 DEF TypeInv
  <2>3. Counts(t)'
    BY <1>1, <1>2, <1>3, <2>1, <2>2 DEF Counts, CountsAll, CountsOne, CountsExpression, Pending
  <2> QED BY <1>1, <2>1, <2>3, Hears DEF until, found
<1>15. CASE ~ until.ends /\ ~ (found.index = 0 /\ NextFilters(t) # <<>>) /\ ExpressionHolds(t)
  <2>1. /\ new \in TaskType /\ new.untilSeen = until.seen /\ new.pc = "done"
        /\ new.consumed = task[t].consumed /\ new.bound = found.bound
    <3>1. new = Last(found.bound, task[t].consumed, "done")
      BY <1>5, <1>11, <1>15
    <3> QED BY <1>3, <1>4, <1>8, <3>1
  <2>2. task'[t] = new
    BY <1>1 DEF TypeInv
  <2>3. Counts(t)'
    BY <2>1, <2>2 DEF Counts, CountsAll, CountsOne, CountsExpression, Pending
  <2>4. /\ config[t].until.strategy = "expression"
        /\ Len(task[t].consumed) + 1 >= config[t].until.count
    BY <1>15 DEF ExpressionHolds
  <2>5. Len(task[t].consumed) < config[t].until.count
    BY <1>1, <1>3, <2>4 DEF Counts, CountsExpression, Pending
  <2>6. config[t].until.count \in Nat
    BY <1>2 DEF ListenType, UntilType
  <2>7. Len(task[t].consumed) = config[t].until.count - 1
    <3> DEFINE n == Len(task[t].consumed)
               count == config[t].until.count
    <3>1. n \in Nat /\ count \in Nat /\ n + 1 >= count /\ n < count
      BY <1>4, <2>4, <2>5, <2>6
    <3> HIDE DEF n, count
    <3>2. n = count - 1
      BY <3>1
    <3> QED BY <3>2 DEF n, count
  <2>8. HasItsFill(t)'
    BY <1>2, <2>1, <2>2, <2>4, <2>7 DEF HasItsFill
  <2> QED BY <1>1, <2>1, <2>3, <2>8, Hears DEF until, found
<1>16. CASE ~ until.ends /\ ~ (found.index = 0 /\ NextFilters(t) # <<>>) /\ ~ ExpressionHolds(t)
  <2>1. /\ new \in TaskType /\ new.untilSeen = until.seen /\ new.pc = pc
        /\ new.consumed = more /\ new.bound = found.bound
    <3>1. new = Last(found.bound, more, pc)
      BY <1>5, <1>16 DEF Last
    <3> QED BY <1>3, <1>4, <1>7, <1>8, <3>1
  <2>2. task'[t] = new
    BY <1>1 DEF TypeInv
  <2>3. pc = IF config[t].foreach THEN "child"
             ELSE IF LoopsOn(t, more) THEN "waiting" ELSE "done"
    BY Zenon DEF pc
  <2>4. Len(config[t].filters) \in Nat /\ config[t].until.count \in Nat
    BY <1>2 DEF ListenType, UntilType
  <2>5. config[t].strategy = "all" =>
          Len(task[t].consumed) = 0 \/ Len(task[t].consumed) < Len(config[t].filters)
    BY <1>1, <1>3 DEF Counts, CountsAll, Pending
  <2>6. config[t].strategy # "all" /\ config[t].until.strategy = "none" => Len(task[t].consumed) = 0
    BY <1>1, <1>3 DEF Counts, CountsOne, Pending
  <2>7. config[t].until.strategy = "expression" => Len(more) < config[t].until.count
    BY <1>4, <1>16, <2>4 DEF ExpressionHolds
  <2>8. Counts(t)'
    <3>1. ASSUME config[t].strategy = "all" PROVE CountsAll(t)'
      <4> DEFINE n == Len(task[t].consumed)
                 m == Len(more)
                 wanted == Len(config[t].filters)
      <4>1. n \in Nat /\ m = n + 1 /\ wanted \in Nat /\ (n = 0 \/ n < wanted)
        BY <1>4, <2>4, <2>5, <3>1
      <4>2. pc = "waiting" => m < wanted
        BY <2>3, <3>1 DEF LoopsOn
      <4>3. pc \in {"child", "waiting", "done"}
        BY <1>7
      <4> HIDE DEF n, m, wanted
      <4>4. m >= 1 /\ (m <= wanted \/ m = 1)
        BY <4>1
      <4>5. m = Len(task'[t].consumed) /\ task'[t].pc = pc /\ wanted = Len(config'[t].filters)
        BY <1>2, <2>1, <2>2 DEF m, wanted
      <4> HIDE DEF pc
      <4> QED BY <4>2, <4>3, <4>4, <4>5 DEF CountsAll, Pending
    <3>2. ASSUME config[t].strategy # "all", config[t].until.strategy = "none"
          PROVE  CountsOne(t)'
      <4>1. pc # "waiting"
        BY <2>3, <3>2 DEF LoopsOn
      <4>2. pc \in {"child", "waiting", "done"}
        BY <1>7
      <4>3. Len(more) = 1
        BY <1>4, <2>6, <3>2
      <4>4. task'[t].consumed = more /\ task'[t].pc = pc
        BY <2>1, <2>2
      <4> QED BY <4>1, <4>2, <4>3, <4>4 DEF CountsOne, Pending
    <3>3. config[t].until.strategy = "expression" => CountsExpression(t)'
      BY <1>2, <2>1, <2>2, <2>7 DEF CountsExpression
    <3> QED BY <1>2, <3>1, <3>2, <3>3 DEF Counts
  <2>9. ASSUME pc = "done" PROVE HasItsFill(t)'
    <3>1. ~ LoopsOn(t, more)
      BY <2>3, <2>9
    <3>2. Len(more) <= Len(config[t].filters) \/ Len(more) = 1
      <4> DEFINE n == Len(task[t].consumed)
                 m == Len(more)
                 wanted == Len(config[t].filters)
      <4>1. n \in Nat /\ m = n + 1 /\ wanted \in Nat
        BY <1>4, <2>4
      <4>2. n = 0 \/ n < wanted
        <5>1. CASE config[t].strategy = "all"
          BY <2>5, <5>1
        <5>2. CASE config[t].strategy # "all"
          BY <2>6, <3>1, <5>2 DEF LoopsOn
        <5> QED BY <5>1, <5>2
      <4> HIDE DEF n, m, wanted
      <4>3. m <= wanted \/ m = 1
        BY <4>1, <4>2
      <4> QED BY <4>3 DEF m, wanted
    <3>3. config[t].strategy # "all" => Len(more) = 1
      BY <1>4, <2>6, <3>1 DEF LoopsOn
    <3>4. IF config[t].strategy = "all"
          THEN Len(more) = IF config[t].filters = <<>> THEN 1 ELSE Len(config[t].filters)
          ELSE config[t].until.strategy = "none" /\ Len(more) = 1
      <4>1. more \in Seq(Nat) /\ more # <<>>
        BY <1>4
      <4> QED BY <1>2, <3>1, <3>2, <3>3, <4>1, LoopEnds
    <3>5. CASE config[t].strategy = "all"
      BY <1>2, <2>1, <2>2, <3>4, <3>5 DEF HasItsFill
    <3>6. CASE config[t].strategy # "all"
      <4>1. config[t].until.strategy = "none" /\ Len(more) = 1
        BY <3>4, <3>6
      <4> QED BY <1>2, <2>1, <2>2, <3>6, <4>1 DEF HasItsFill
    <3> QED BY <3>5, <3>6
  <2>10. found.index # 0 \/ NextFilters(t) = <<>>
    BY <1>16
  <2> QED BY <1>1, <1>7, <2>1, <2>8, <2>9, <2>10, Hears DEF until, found, more
<1> QED BY <1>13, <1>14, <1>15, <1>16

-----------------------------------------------------------------------------
(* Subscriptions and schedules *)

\* A task that takes the next event, of a kind that is no listen.
LEMMA TakesOne ==
  ASSUME IInv, NEW t \in Tasks, config[t].kind # "listen", Take(t),
         NEW new \in TaskType, task' = [task EXCEPT ![t] = new],
         \/ new.consumed = Append(task[t].consumed, next + 1)
         \/ new.consumed = <<next + 1>>,
         new.pc \in PlacesOf(config[t].kind), FireInv(t)'
  PROVE  IInv'
<1>1. /\ TypeInv /\ Grows /\ Len(log') <= MaxEvents /\ clock' <= MaxTime
      /\ next' = next + 1 /\ config' = config /\ next \in Nat /\ next + 1 \in Nat
  BY TakeGrows DEF IInv, TypeInv
<1>2. /\ task' \in [Tasks -> TaskType] /\ task'[t] = new
      /\ \A u \in Tasks \ {t} : task'[u] = task[u]
  BY <1>1 DEF TypeInv
<1> DEFINE old == task[t].consumed
<1>3. PICK s \in Seq(Nat) : /\ new.consumed = Append(s, next + 1)
                            /\ s \in {old, <<>>}
  <2>1. old \in Seq(Nat) /\ <<>> \in Seq(Nat) /\ <<next + 1>> = Append(<<>>, next + 1)
    BY <1>1, TaskTyped
  <2> QED BY <2>1
<1>4. /\ \A i \in DOMAIN s : 1 <= s[i] /\ s[i] <= next
      /\ Increasing(s) /\ Len(s) <= next
      /\ \A i \in DOMAIN s : \E j \in DOMAIN old : s[i] = old[j]
  BY <1>1, <1>3 DEF IInv, TaskInv, InOrder, Increasing
<1> DEFINE more == Append(s, next + 1)
<1>5. /\ Len(more) = Len(s) + 1 /\ Len(s) \in Nat /\ DOMAIN s = 1..Len(s)
      /\ more[Len(s) + 1] = next + 1
      /\ \A i \in DOMAIN s : more[i] = s[i] /\ s[i] \in Nat
      /\ \A i \in DOMAIN more : i \in DOMAIN s \/ i = Len(s) + 1
      /\ DOMAIN more = 1..(Len(s) + 1)
  BY <1>1, <1>3, Appending
<1> HIDE DEF more, old
<1>6. new.consumed = more
  BY <1>3 DEF more
<1>7. Increasing(more)
  <2> SUFFICES ASSUME NEW i \in DOMAIN more, NEW j \in DOMAIN more, i < j
               PROVE  more[i] < more[j]
    BY DEF Increasing
  <2>1. i \in DOMAIN s
    BY <1>5
  <2>2. CASE j \in DOMAIN s
    BY <1>4, <1>5, <2>1, <2>2 DEF Increasing
  <2>3. CASE j = Len(s) + 1
    BY <1>1, <1>4, <1>5, <2>1, <2>3
  <2> QED BY <1>5, <2>2, <2>3
<1>8. \A i \in DOMAIN more : 1 <= more[i] /\ more[i] <= next + 1
  BY <1>1, <1>4, <1>5
<1>9. InOrder(t)'
  <2>1. Len(more) <= next + 1
    BY <1>1, <1>4, <1>5
  <2>2. task'[t].consumed = more
    BY <1>2, <1>6
  <2>3. Len(task'[t].consumed) <= next'
    BY <1>1, <2>1, <2>2
  <2>4. \A i \in DOMAIN task'[t].consumed : 1 <= task'[t].consumed[i] /\ task'[t].consumed[i] <= next'
    BY <1>1, <1>8, <2>2
  <2> QED BY <1>7, <2>2, <2>3, <2>4 DEF InOrder
<1>10. TakesNext(t)
  <2>1. \A i \in DOMAIN more : (\E j \in DOMAIN old : more[i] = old[j]) \/ more[i] = next + 1
    BY <1>4, <1>5
  <2> QED BY <1>2, <1>6, <2>1 DEF TakesNext, old
<1>11. Placed(t)' /\ ListenInv(t)'
  BY <1>1, <1>2 DEF Placed, ListenInv
<1> QED BY <1>1, <1>2, <1>9, <1>10, <1>11, OthersStay DEF TaskInv

LEMMA ReceiveInv ==
  ASSUME IInv, NEW t \in Tasks, Receive(t)
  PROVE  IInv'
<1>1. config[t].kind = "asyncapi" /\ Take(t) /\ TypeInv
  BY DEF Receive, Waits, IInv
<1>2. CASE task' = task
  BY <1>1, <1>2, TakeGrows, AllStay DEF IInv
<1>3. CASE task' = [task EXCEPT ![t].pc = "done", ![t].consumed = <<next + 1>>]
  <2> DEFINE new == [task[t] EXCEPT !.pc = "done", !.consumed = <<next + 1>>]
  <2>1. task[t] \in TaskType /\ <<next + 1>> \in Seq(Nat)
    BY <1>1, TaskTyped DEF TypeInv
  <2>2. new \in TaskType /\ new.pc = "done" /\ new.consumed = <<next + 1>>
    BY <2>1 DEF TaskType, States
  <2>3. task' = [task EXCEPT ![t] = new]
    BY <1>1, <1>3 DEF TypeInv
  <2>4. FireInv(t)'
    BY <1>1 DEF FireInv, Scheduled, Take
  <2> HIDE DEF new
  <2> QED BY <1>1, <2>2, <2>3, <2>4, Places, TakesOne
<1> QED BY <1>2, <1>3 DEF Receive

LEMMA BeginScheduleInv ==
  ASSUME IInv, NEW t \in Tasks, BeginSchedule(t)
  PROVE  IInv'
<1>1. /\ Alone /\ Scheduled(t) /\ task[t].pc = "idle" /\ TypeInv
      /\ task[t] \in TaskType /\ config' = config
  BY TaskTyped DEF BeginSchedule, Alone, IInv
<1>2. /\ Spaced(t) /\ task[t].runs = <<>> /\ Len(task[t].runs) < config[t].runs
  BY <1>1 DEF IInv, TaskInv, FireInv, RunsLeft
<1>3. Minute \in Nat /\ clock \in Nat /\ config[t].kind \in {"on", "cron", "every", "after"}
  BY <1>1, EventsAssumption DEF TypeInv, Scheduled
<1>4. ASSUME NEW pc \in {"waiting", "asleep"}, NEW wake \in Nat,
             task' = [task EXCEPT ![t] = [@ EXCEPT !.pc = pc, !.wake = wake]],
             pc = "waiting" <=> config[t].kind = "on",
             config[t].kind \in {"every", "after"} => Period(t) <= wake
      PROVE  IInv'
  <2> DEFINE new == [task[t] EXCEPT !.pc = pc, !.wake = wake]
  <2>1. /\ new \in TaskType /\ new.pc = pc /\ new.wake = wake
        /\ new.consumed = task[t].consumed /\ new.bound = task[t].bound
        /\ new.untilSeen = task[t].untilSeen /\ new.runs = <<>>
    BY <1>1, <1>2 DEF TaskType, States
  <2>2. task' = [task EXCEPT ![t] = new] /\ task'[t] = new
    BY <1>1, <1>4 DEF TypeInv
  <2> HIDE DEF new
  <2>3. pc \in PlacesOf(config[t].kind) /\ config[t].kind # "listen"
    BY <1>3, <1>4 DEF PlacesOf
  <2>4. Spaced(t)'
    BY <1>1, <1>2, <2>1, <2>2, AloneGrows, SpacedStays
  <2>5. RunsLeft(t)'
    BY <1>1, <1>2, <2>1, <2>2 DEF RunsLeft
  <2>6. config[t].kind # "on" => Timely(t)'
    <3>1. task'[t].runs = <<>> /\ task'[t].pc = pc /\ task'[t].wake = wake /\ Period(t)' = Period(t)
      BY <1>1, <2>1, <2>2 DEF Period
    <3>2. DOMAIN task'[t].runs = {}
      BY <3>1
    <3>3. config[t].kind # "on" /\ config[t].kind # "cron" => Period(t)' <= task'[t].wake
      BY <1>3, <1>4, <3>1
    <3> QED BY <1>1, <3>2, <3>3, Zenon DEF Timely
  <2>7. FireInv(t)'
    BY <1>1, <2>4, <2>5, <2>6 DEF FireInv
  <2> QED BY <1>1, <2>1, <2>2, <2>3, <2>7, Quiet
<1>5. CASE config[t].kind = "on"
  <2>1. task' = [task EXCEPT ![t] = [@ EXCEPT !.pc = "waiting"]]
    BY <1>5 DEF BeginSchedule
  <2>2. [task[t] EXCEPT !.pc = "waiting"] = [task[t] EXCEPT !.pc = "waiting", !.wake = task[t].wake]
    BY <1>1 DEF TaskType
  <2>3. task' = [task EXCEPT ![t] = [@ EXCEPT !.pc = "waiting", !.wake = task[t].wake]]
    BY <2>1, <2>2
  <2> QED BY <1>1, <1>4, <1>5, <2>3, TaskTyped
<1>6. CASE config[t].kind = "cron"
  <2>1. task' = [task EXCEPT ![t] = [@ EXCEPT !.pc = "asleep", !.wake = clock]]
    BY <1>6 DEF BeginSchedule
  <2> QED BY <1>3, <1>4, <1>6, <2>1
<1>7. CASE config[t].kind \in {"every", "after"}
  <2>1. task' = [task EXCEPT ![t] = [@ EXCEPT !.pc = "asleep", !.wake = clock + Period(t)]]
    BY <1>7 DEF BeginSchedule, Period
  <2>2. Period(t) \in Nat
    BY <1>1, <1>7, ScheduleConfig DEF TypeInv
  <2>3. clock + Period(t) \in Nat /\ Period(t) <= clock + Period(t)
    BY <1>3, <2>2
  <2> QED BY <1>4, <1>7, <2>1, <2>3
<1> QED BY <1>3, <1>5, <1>6, <1>7

LEMMA Division ==
  ASSUME NEW a \in Nat, NEW m \in Nat \ {0}
  PROVE  /\ a \div m \in Nat
         /\ m * (a \div m) <= a
         /\ a < m * (a \div m) + m
OBVIOUS

LEMMA LaterMinute ==
  ASSUME NEW a \in Nat, NEW b \in Nat, NEW m \in Nat \ {0}, a + m <= b
  PROVE  a \div m < b \div m
<1> DEFINE p == a \div m
           q == b \div m
<1>1. p \in Nat /\ q \in Nat /\ m * p <= a /\ b < m * q + m
  BY Division
<1> HIDE DEF p, q
<1>2. ASSUME q <= p PROVE FALSE
  <2>1. m * q <= m * p
    BY <1>1, <1>2
  <2> DEFINE mp == m * p
             mq == m * q
  <2>2. mp \in Nat /\ mq \in Nat /\ mp <= a /\ b < mq + m /\ mq <= mp
    BY <1>1, <2>1
  <2> HIDE DEF mp, mq
  <2> QED BY <2>2
<1> QED BY <1>1, <1>2 DEF p, q

LEMMA TriggerInv ==
  ASSUME IInv, NEW t \in Tasks, Trigger(t)
  PROVE  IInv'
<1> DEFINE more == Append(task[t].consumed, next + 1)
           new == [task[t] EXCEPT !.pc = "running", !.consumed = more, !.runs = more]
<1>1. /\ config[t].kind = "on" /\ Scheduled(t) /\ task[t].pc = "waiting" /\ Take(t)
      /\ TypeInv /\ task[t] \in TaskType /\ next + 1 \in Nat
  BY TaskTyped DEF Trigger, Waits, IInv, Scheduled, TypeInv
<1>2. task[t].runs = task[t].consumed /\ Len(task[t].runs) < config[t].runs
  BY <1>1 DEF IInv, TaskInv, FireInv, Spaced, RunsLeft
<1>3. task[t].consumed \in Seq(Nat) /\ more \in Seq(Nat) /\ Len(more) = Len(task[t].consumed) + 1
  BY <1>1, TaskTyped, Appending
<1>4. config[t].runs \in Nat
  BY <1>1, ScheduleConfig DEF TypeInv
<1>5. Len(more) <= config[t].runs
  <2>1. Len(task[t].consumed) \in Nat /\ Len(task[t].consumed) < config[t].runs
    BY <1>2, <1>3
  <2> QED BY <1>3, <1>4, <2>1
<1> HIDE DEF more
<1>6. /\ new \in TaskType /\ new.pc = "running" /\ new.consumed = more /\ new.runs = more
  BY <1>1, <1>3 DEF TaskType, States
<1>7. task' = [task EXCEPT ![t] = new]
  BY <1>1, <1>2 DEF Trigger, TypeInv, more
<1> HIDE DEF new
<1>8. task'[t] = new /\ config' = config
  BY <1>1, <1>7 DEF TypeInv, Take
<1>9. Spaced(t)'
  BY <1>1, <1>5, <1>6, <1>8 DEF Spaced
<1>10. FireInv(t)'
  BY <1>1, <1>6, <1>8, <1>9 DEF FireInv, RunsLeft
<1>11. new.pc \in PlacesOf(config[t].kind)
  BY <1>1, <1>6 DEF PlacesOf
<1> QED BY <1>1, <1>6, <1>7, <1>10, <1>11, TakesOne DEF more

\* A timer that fires does so late enough.
LEMMA SpacedMore ==
  ASSUME IInv, Alone, NEW t \in Tasks, Scheduled(t), config[t].kind # "on", task[t].pc = "asleep",
         clock >= task[t].wake,
         config[t].kind = "cron" => CronMatches(t, Now),
         task'[t].runs = Append(task[t].runs, clock)
  PROVE  Spaced(t)'
<1> DEFINE runs == task[t].runs
           more == Append(runs, clock)
           kind == config[t].kind
           last == Len(runs) + 1
<1>1. /\ TypeInv /\ runs \in Seq(Nat) /\ task[t].wake \in Nat /\ clock \in Nat
      /\ Minute \in Nat \ {0} /\ config[t].runs \in Nat /\ Period(t) \in Nat
      /\ kind \in {"cron", "every", "after"}
  BY TaskTyped, ScheduleConfig, EventsAssumption DEF IInv, TypeInv, Scheduled
<1>2. /\ Spaced(t) /\ Timely(t) /\ Len(runs) < config[t].runs
      /\ kind = "after" => runs = <<>>
  BY DEF IInv, TaskInv, FireInv, RunsLeft
<1>3. config' = config /\ task'[t].runs = more
  BY DEF Alone
<1>4. /\ DOMAIN more = 1..last /\ DOMAIN runs = 1..Len(runs) /\ Len(runs) \in Nat
      /\ Len(more) = last /\ more[last] = clock
      /\ \A i \in DOMAIN runs : more[i] = runs[i] /\ runs[i] \in Nat
      /\ \A i \in DOMAIN more : i \in DOMAIN runs \/ i = last
  BY <1>1, Appending
<1>5. kind = "cron" => \A i \in DOMAIN runs : runs[i] + Minute <= clock
  <2> SUFFICES ASSUME kind = "cron", NEW i \in DOMAIN runs PROVE runs[i] + Minute <= clock
    OBVIOUS
  <2>1. runs[i] + Minute <= task[t].wake
    BY <1>2 DEF Timely
  <2>2. runs[i] \in Nat /\ Minute \in Nat /\ task[t].wake \in Nat /\ clock \in Nat
    BY <1>1, <1>4
  <2> HIDE DEF runs, kind
  <2> QED BY <2>1, <2>2
<1>6. kind # "cron" => /\ Period(t) <= clock
                       /\ \A i \in DOMAIN runs : runs[i] + Period(t) <= clock
  <2> SUFFICES ASSUME kind # "cron"
               PROVE  /\ Period(t) <= clock
                      /\ \A i \in DOMAIN runs : runs[i] + Period(t) <= clock
    OBVIOUS
  <2>1. /\ Period(t) <= task[t].wake
        /\ \A i \in DOMAIN runs : runs[i] + Period(t) <= task[t].wake
    BY <1>2 DEF Timely
  <2>2. /\ Period(t) \in Nat /\ task[t].wake \in Nat /\ clock \in Nat /\ clock >= task[t].wake
        /\ \A i \in DOMAIN runs : runs[i] \in Nat
    BY <1>1, <1>4
  <2> HIDE DEF runs, kind
  <2> QED BY <2>1, <2>2
<1> HIDE DEF more, runs, last
<1>7. ASSUME kind = "cron"
      PROVE  /\ \A i, j \in DOMAIN more : i < j => more[i] \div Minute < more[j] \div Minute
             /\ \A i \in DOMAIN more : CronMatches(t, more[i] \div Minute)
  <2>1. /\ \A i, j \in DOMAIN runs : i < j => runs[i] \div Minute < runs[j] \div Minute
        /\ \A i \in DOMAIN runs : CronMatches(t, runs[i] \div Minute)
    BY <1>2, <1>7 DEF Spaced, runs
  <2>2. \A i \in DOMAIN runs : runs[i] \div Minute < clock \div Minute
    BY <1>1, <1>4, <1>5, <1>7, LaterMinute
  <2>3. CronMatches(t, clock \div Minute)
    BY <1>7 DEF Now
  <2>4. \A i \in DOMAIN more : CronMatches(t, more[i] \div Minute)
    BY <1>4, <2>1, <2>3
  <2>5. ASSUME NEW i \in DOMAIN more, NEW j \in DOMAIN more, i < j
        PROVE  more[i] \div Minute < more[j] \div Minute
    <3>1. i \in DOMAIN runs
      <4>1. i \in 1..last /\ j \in 1..last /\ last = Len(runs) + 1
        BY <1>4 DEF last
      <4> QED BY <1>4, <2>5, <4>1
    <3>2. CASE j \in DOMAIN runs
      BY <1>4, <2>1, <2>5, <3>1, <3>2
    <3>3. CASE j = last
      BY <1>4, <2>2, <3>1, <3>3
    <3> QED BY <1>4, <3>2, <3>3
  <2> QED BY <2>4, <2>5
<1>8. ASSUME kind # "cron", NEW i \in DOMAIN more
      PROVE  more[i] >= Period(t) + (IF i = 1 THEN 0 ELSE more[i - 1])
  <2>1. last = Len(runs) + 1
    BY DEF last
  <2>2. CASE i \in DOMAIN runs
    <3>1. runs[i] >= Period(t) + (IF i = 1 THEN 0 ELSE runs[i - 1])
      BY <1>1, <1>2, <1>8, <2>2 DEF Spaced, runs
    <3>2. i # 1 => i - 1 \in DOMAIN runs
      BY <1>4, <2>2
    <3>3. more[i] = runs[i] /\ (i # 1 => more[i - 1] = runs[i - 1])
      BY <1>4, <2>2, <3>2
    <3> QED BY <3>1, <3>3
  <2>3. CASE i = last
    <3>1. i # 1 => i - 1 \in DOMAIN runs
      BY <1>4, <2>1, <2>3
    <3>2. i # 1 => more[i - 1] \in Nat /\ more[i - 1] + Period(t) <= clock
      BY <1>4, <1>6, <1>8, <3>1
    <3> QED BY <1>1, <1>4, <1>6, <1>8, <2>3, <3>2
  <2> QED BY <1>4, <2>2, <2>3
<1>9. Len(more) <= config[t].runs /\ (kind = "after" => Len(more) <= 1)
  <2>1. runs = <<>> => Len(runs) = 0
    BY <1>1
  <2> QED BY <1>1, <1>2, <1>4, <2>1 DEF last, runs
<1>10. Period(t)' = Period(t)
  BY <1>3 DEF Period
<1> HIDE DEF kind
<1>11. kind # "on"
  BY DEF kind
<1>12. /\ Len(task'[t].runs) <= config'[t].runs
       /\ kind = "after" => Len(task'[t].runs) <= 1
  BY <1>3, <1>9 DEF kind
<1>13. kind = "cron" =>
         /\ \A i, j \in DOMAIN task'[t].runs :
              i < j => task'[t].runs[i] \div Minute < task'[t].runs[j] \div Minute
         /\ \A i \in DOMAIN task'[t].runs : CronMatches(t, task[t].runs[i] \div Minute)'
  <2>1. \A i : (CronMatches(t, task[t].runs[i] \div Minute)' <=> CronMatches(t, more[i] \div Minute))
    BY <1>3 DEF CronMatches
  <2>2. task'[t].runs = more
    BY <1>3
  <2> QED BY <1>7, <2>1, <2>2
<1>14. kind # "cron" =>
         \A i \in DOMAIN task'[t].runs :
           task'[t].runs[i] >= Period(t)' + (IF i = 1 THEN 0 ELSE task'[t].runs[i - 1])
  BY <1>3, <1>8, <1>10
<1> QED BY <1>3, <1>11, <1>12, <1>13, <1>14 DEF Spaced, kind

LEMMA WakeUpInv ==
  ASSUME IInv, NEW t \in Tasks, WakeUp(t)
  PROVE  IInv'
<1>1. /\ Alone /\ task[t].pc = "asleep" /\ clock >= task[t].wake /\ TypeInv
      /\ task[t] \in TaskType /\ task[t].runs \in Seq(Nat) /\ task[t].wake \in Nat
  BY TaskTyped DEF WakeUp, Alone, IInv
<1>2. config[t].kind \notin {"listen", "asyncapi", "on"}
  BY <1>1 DEF IInv, TaskInv, Placed, PlacesOf
<1>3. Scheduled(t) /\ config[t].kind \in {"cron", "every", "after"}
  <2>1. config[t].kind \in {"listen", "asyncapi", "on", "cron", "every", "after"}
    BY <1>1, SetupsAssumption DEF TypeInv, ListenType, AsyncType, OnType, TimerType
  <2> QED BY <1>2, <2>1 DEF Scheduled
<1>4. clock \in Nat /\ Minute \in Nat \ {0} /\ config' = config /\ clock' = clock
  BY <1>1, EventsAssumption DEF TypeInv, Alone
<1>5. Timely(t) /\ Spaced(t) /\ RunsLeft(t)
  BY <1>3 DEF IInv, TaskInv, FireInv
<1>6. CASE config[t].kind # "cron" \/ CronMatches(t, Now)
  <2> DEFINE more == Append(task[t].runs, clock)
             new == [task[t] EXCEPT !.pc = "running", !.runs = more]
  <2>1. more \in Seq(Nat)
    BY <1>1, <1>4
  <2>2. task' = [task EXCEPT ![t] = new] /\ task'[t] = new
    <3>1. AfterSleep(t) = [task[t] EXCEPT !.pc = "running", !.runs = Append(@, clock)]
      BY <1>6 DEF AfterSleep
    <3>2. AfterSleep(t) = new
      BY <1>1, <3>1 DEF TaskType
    <3> QED BY <1>1, <3>2 DEF WakeUp, TypeInv
  <2>3. \A i \in DOMAIN more : more[i] <= clock
    <3>1. \A i \in DOMAIN task[t].runs : task[t].runs[i] <= clock
      BY <1>5 DEF Timely
    <3>2. \A i \in DOMAIN more : \/ /\ i \in DOMAIN task[t].runs
                                    /\ more[i] = task[t].runs[i]
                                 \/ more[i] = clock
      BY <1>1, <1>4, Appending
    <3> QED BY <1>4, <3>1, <3>2
  <2> HIDE DEF more
  <2>4. /\ new \in TaskType /\ new.pc = "running" /\ new.runs = more
        /\ new.consumed = task[t].consumed /\ new.bound = task[t].bound
        /\ new.untilSeen = task[t].untilSeen
    BY <1>1, <2>1 DEF TaskType, States
  <2> HIDE DEF new
  <2>5. Spaced(t)'
    BY <1>1, <1>3, <1>6, <2>2, <2>4, SpacedMore DEF more
  <2>6. Timely(t)' /\ RunsLeft(t)'
    BY <1>4, <2>2, <2>3, <2>4 DEF Timely, RunsLeft
  <2>7. FireInv(t)'
    BY <2>5, <2>6 DEF FireInv
  <2>8. new.pc \in PlacesOf(config[t].kind) /\ config[t].kind # "listen"
    BY <1>3, <2>4 DEF PlacesOf
  <2> QED BY <1>1, <2>2, <2>4, <2>7, <2>8, Quiet
<1>7. CASE ~ (config[t].kind # "cron" \/ CronMatches(t, Now))
  <2> DEFINE wake == Minute * (Now + 1)
             new == [task[t] EXCEPT !.wake = wake]
  <2>1. wake \in Nat /\ clock <= wake
    <3> DEFINE now == clock \div Minute
    <3>1. now \in Nat /\ clock < Minute * now + Minute
      BY <1>4, Division
    <3>2. wake = Minute * (now + 1)
      BY DEF Now
    <3> HIDE DEF now, wake
    <3>3. Minute * (now + 1) = Minute * now + Minute /\ Minute * now \in Nat
      BY <1>4, <3>1
    <3> DEFINE mn == Minute * now
    <3>4. mn \in Nat /\ clock < mn + Minute /\ wake = mn + Minute
      BY <3>1, <3>2, <3>3
    <3> HIDE DEF mn
    <3> QED BY <1>4, <3>4
  <2>2. task' = [task EXCEPT ![t] = new] /\ task'[t] = new
    BY <1>1, <1>7 DEF WakeUp, AfterSleep, TypeInv
  <2> HIDE DEF wake
  <2>3. /\ new \in TaskType /\ new.pc = "asleep" /\ new.runs = task[t].runs /\ new.wake = wake
        /\ new.consumed = task[t].consumed /\ new.bound = task[t].bound
        /\ new.untilSeen = task[t].untilSeen
    BY <1>1, <2>1 DEF TaskType, States
  <2> HIDE DEF new
  <2>4. Spaced(t)'
    BY <1>1, <1>5, <2>2, <2>3, AloneGrows, SpacedStays
  <2>5. RunsLeft(t)'
    BY <1>1, <1>4, <1>5, <2>2, <2>3 DEF RunsLeft
  <2>6. \A i \in DOMAIN task[t].runs : task[t].runs[i] + Minute <= wake /\ task[t].runs[i] <= clock
    <3>1. \A i \in DOMAIN task[t].runs :
            task[t].runs[i] + Minute <= task[t].wake /\ task[t].runs[i] <= clock
      BY <1>1, <1>5, <1>7 DEF Timely
    <3>2. \A i \in DOMAIN task[t].runs : task[t].runs[i] \in Nat
      BY <1>1
    <3>3. Minute \in Nat /\ clock \in Nat /\ task[t].wake \in Nat /\ task[t].wake <= wake /\ wake \in Nat
      BY <1>1, <1>4, <2>1
    <3> QED BY <3>1, <3>2, <3>3
  <2>7. Timely(t)'
    BY <1>4, <1>7, <2>2, <2>3, <2>6 DEF Timely
  <2>8. FireInv(t)'
    BY <2>4, <2>5, <2>7 DEF FireInv
  <2>9. new.pc \in PlacesOf(config[t].kind) /\ config[t].kind # "listen"
    BY <1>3, <2>3 DEF PlacesOf
  <2> QED BY <1>1, <2>2, <2>3, <2>8, <2>9, Quiet
<1> QED BY <1>6, <1>7

LEMMA EndRunInv ==
  ASSUME IInv, NEW t \in Tasks, EndRun(t)
  PROVE  IInv'
<1>1. /\ Alone /\ Scheduled(t) /\ task[t].pc = "running" /\ TypeInv
      /\ task[t] \in TaskType /\ task[t].runs \in Seq(Nat)
  BY TaskTyped DEF EndRun, Alone, IInv
<1>2. clock \in Nat /\ Minute \in Nat \ {0} /\ config' = config /\ clock' = clock
  BY <1>1, EventsAssumption DEF TypeInv, Alone
<1>3. /\ Spaced(t) /\ (config[t].kind # "on" => Timely(t))
      /\ config[t].kind \in {"on", "cron", "every", "after"}
      /\ config[t].runs \in Nat
      /\ config[t].kind # "on" => Period(t) \in Nat
  BY <1>1, ScheduleConfig DEF IInv, TaskInv, FireInv, Scheduled, TypeInv
<1>4. CASE task' = [task EXCEPT ![t] = [@ EXCEPT !.pc = "failed"]]
  <2>1. task' = [task EXCEPT ![t].pc = "failed"]
    BY <1>4
  <2> QED BY <1>1, <2>1, Fail
<1>5. CASE task' = [task EXCEPT ![t] = [@ EXCEPT !.pc = "done"]]
  <2>1. task' = [task EXCEPT ![t].pc = "done"]
    BY <1>5
  <2> QED BY <1>1, <1>3, <2>1, Places, Moves
<1>6. ASSUME NEW pc \in {"waiting", "asleep"}, NEW wake \in Nat,
             task' = [task EXCEPT ![t] = [@ EXCEPT !.pc = pc, !.wake = wake]],
             ~ Len(task[t].runs) >= config[t].runs,
             pc = "waiting" <=> config[t].kind = "on", config[t].kind # "after",
             config[t].kind = "cron" => wake = clock + Minute,
             config[t].kind = "every" => wake = clock + Period(t)
      PROVE  IInv'
  <2> DEFINE new == [task[t] EXCEPT !.pc = pc, !.wake = wake]
  <2>1. /\ new \in TaskType /\ new.pc = pc /\ new.wake = wake
        /\ new.consumed = task[t].consumed /\ new.bound = task[t].bound
        /\ new.untilSeen = task[t].untilSeen /\ new.runs = task[t].runs
    BY <1>1 DEF TaskType, States
  <2>2. task' = [task EXCEPT ![t] = new] /\ task'[t] = new
    BY <1>1, <1>6 DEF TypeInv
  <2> HIDE DEF new
  <2>3. pc \in PlacesOf(config[t].kind) /\ config[t].kind # "listen"
    BY <1>3, <1>6 DEF PlacesOf
  <2>4. Spaced(t)'
    BY <1>1, <1>3, <2>1, <2>2, AloneGrows, SpacedStays
  <2>5. RunsLeft(t)'
    <3>1. Len(task[t].runs) < config[t].runs
      BY <1>1, <1>3, <1>6
    <3> QED BY <1>2, <1>6, <2>1, <2>2, <3>1 DEF RunsLeft
  <2>6. ASSUME config[t].kind # "on" PROVE Timely(t)'
    <3>1. \A i \in DOMAIN task[t].runs : task[t].runs[i] <= clock /\ task[t].runs[i] \in Nat
      BY <1>1, <1>3, <2>6 DEF Timely
    <3>2. ASSUME config[t].kind = "cron" PROVE Timely(t)'
      <4>1. \A i \in DOMAIN task[t].runs : task[t].runs[i] + Minute <= wake
        BY <1>2, <1>6, <3>1, <3>2
      <4> QED BY <1>2, <2>1, <2>2, <3>1, <3>2, <4>1 DEF Timely
    <3>3. ASSUME config[t].kind = "every" PROVE Timely(t)'
      <4>1. Period(t) <= wake /\ \A i \in DOMAIN task[t].runs : task[t].runs[i] + Period(t) <= wake
        BY <1>2, <1>3, <1>6, <2>6, <3>1, <3>3
      <4>2. Period(t)' = Period(t)
        BY <1>2 DEF Period
      <4> QED BY <1>2, <2>1, <2>2, <3>1, <3>3, <4>1, <4>2 DEF Timely
    <3> QED BY <1>3, <1>6, <2>6, <3>2, <3>3
  <2>7. FireInv(t)'
    BY <1>2, <2>4, <2>5, <2>6 DEF FireInv
  <2> QED BY <1>1, <2>1, <2>2, <2>3, <2>7, Quiet
<1>7. CASE /\ ~ Len(task[t].runs) >= config[t].runs
           /\ task' = [task EXCEPT ![t] = AfterYield(t)]
  <2>1. CASE config[t].kind = "on"
    <3>1. AfterYield(t) = [task[t] EXCEPT !.pc = "waiting"]
      BY <2>1 DEF AfterYield
    <3>2. [task[t] EXCEPT !.pc = "waiting"] = [task[t] EXCEPT !.pc = "waiting", !.wake = task[t].wake]
      BY <1>1 DEF TaskType
    <3>3. task' = [task EXCEPT ![t] = [@ EXCEPT !.pc = "waiting", !.wake = task[t].wake]]
      BY <1>7, <3>1, <3>2
    <3> QED BY <1>1, <1>6, <1>7, <2>1, <3>3, TaskTyped
  <2>2. CASE config[t].kind = "after"
    <3>1. AfterYield(t) = [task[t] EXCEPT !.pc = "done"]
      BY <2>2 DEF AfterYield
    <3> QED BY <1>5, <1>7, <3>1
  <2>3. CASE config[t].kind = "every"
    <3>1. AfterYield(t) = [task[t] EXCEPT !.pc = "asleep", !.wake = clock + Period(t)]
      BY <2>3 DEF AfterYield, Period
    <3>2. task' = [task EXCEPT ![t] = [@ EXCEPT !.pc = "asleep", !.wake = clock + Period(t)]]
      BY <1>7, <3>1
    <3>3. clock + Period(t) \in Nat
      BY <1>2, <1>3, <2>3
    <3> QED BY <1>6, <1>7, <2>3, <3>2, <3>3
  <2>4. CASE config[t].kind = "cron"
    <3>1. AfterYield(t) = [task[t] EXCEPT !.pc = "asleep", !.wake = clock + Minute]
      BY <2>4 DEF AfterYield
    <3>2. task' = [task EXCEPT ![t] = [@ EXCEPT !.pc = "asleep", !.wake = clock + Minute]]
      BY <1>7, <3>1
    <3>3. clock + Minute \in Nat
      BY <1>2
    <3> QED BY <1>6, <1>7, <2>4, <3>2, <3>3
  <2> QED BY <1>3, <2>1, <2>2, <2>3, <2>4
<1> QED BY <1>4, <1>5, <1>7 DEF EndRun

-----------------------------------------------------------------------------
(* The theorems *)

LEMMA PublishInv ==
  ASSUME IInv, NEW e \in Events, Publish(e)
  PROVE  IInv'
<1>1. /\ Len(log) < MaxEvents /\ log' = Append(log, e) /\ log \in Seq(Events) /\ MaxEvents \in Nat
      /\ UNCHANGED <<config, next, task, clock>>
  BY EventsAssumption DEF Publish, IInv, TypeInv
<1>2. /\ log' \in Seq(Events) /\ Len(log') = Len(log) + 1 /\ Len(log) \in Nat
      /\ \A k \in 1..Len(log) : log'[k] = log[k]
  BY <1>1
<1>3. Len(log') <= MaxEvents
  BY <1>1, <1>2
<1>4. Grows /\ clock' <= MaxTime
  BY <1>1, <1>2 DEF IInv, TypeInv, Grows
<1> QED BY <1>1, <1>3, <1>4, AllStay

LEMMA TickInv ==
  ASSUME IInv, Tick
  PROVE  IInv'
<1>1. Grows /\ Len(log') <= MaxEvents
  BY DEF IInv, TypeInv, Tick, Grows
<1>2. clock' <= MaxTime
  BY EventsAssumption DEF Tick, IInv, TypeInv
<1> QED BY <1>1, <1>2, AllStay DEF Tick

LEMMA InitInv ==
  ASSUME Init
  PROVE  IInv
<1>1. TypeInv
  <2>1. Idle \in TaskType
    <3>1. Unbound \in Bounds
      BY DEF Unbound, Bounds
    <3> QED BY <3>1 DEF Idle, TaskType, States
  <2> QED BY <2>1, EventsAssumption DEF Init, TypeInv
<1>2. ASSUME NEW t \in Tasks PROVE TaskInv(t)
  <2>1. /\ task[t].pc = "idle" /\ task[t].consumed = <<>> /\ task[t].runs = <<>>
        /\ task[t].untilSeen = {} /\ next = 0
    BY DEF Init, Idle
  <2>2. Placed(t)
    BY <2>1 DEF Placed, PlacesOf
  <2>3. InOrder(t)
    BY <2>1 DEF InOrder, Increasing
  <2>4. ListenInv(t)
    <3> SUFFICES ASSUME config[t].kind = "listen" PROVE ListenInv(t)
      BY DEF ListenInv
    <3>1. Heard(t) /\ Seen(t)
      BY <2>1 DEF Heard, HeardAll, HeardAny, Seen
    <3>2. /\ config[t] \in ListenType
          /\ config[t].until.strategy = "expression" => config[t].until.count > 0
      BY <1>1, ListenConfig DEF TypeInv
    <3>3. Counts(t)
      BY <2>1, <3>2 DEF Counts, CountsAll, CountsOne, CountsExpression
    <3> QED BY <2>1, <3>1, <3>3 DEF ListenInv
  <2>5. FireInv(t)
    <3> SUFFICES ASSUME Scheduled(t) PROVE FireInv(t)
      BY DEF FireInv
    <3>1. config[t].runs \in Nat \ {0}
      BY <1>1, ScheduleConfig DEF TypeInv
    <3>2. Len(task[t].runs) = 0 /\ DOMAIN task[t].runs = {}
      BY <2>1
    <3>3. Spaced(t)
      BY <2>1, <3>1, <3>2 DEF Spaced
    <3>4. RunsLeft(t) /\ Timely(t)
      BY <2>1, <3>1, <3>2 DEF RunsLeft, Timely
    <3> QED BY <3>3, <3>4 DEF FireInv
  <2> QED BY <2>2, <2>3, <2>4, <2>5 DEF TaskInv
<1>3. \A t, u \in Tasks : Apart(t, u)
  BY DEF Init, Idle, Apart
<1> QED BY <1>1, <1>2, <1>3 DEF IInv

LEMMA NextInv ==
  ASSUME IInv, [Next]_vars
  PROVE  IInv'
<1>1. CASE UNCHANGED vars
  <2>1. Grows /\ task' = task /\ Len(log') <= MaxEvents /\ clock' <= MaxTime
    BY <1>1, AloneGrows DEF IInv, vars, Alone
  <2> QED BY <2>1, AllStay
<1>2. CASE \E e \in Events : Publish(e)
  BY <1>2, PublishInv
<1>3. CASE Tick
  BY <1>3, TickInv
<1>4. ASSUME NEW t \in Tasks, Step(t) \/ ResumeListen(t) \/ ConsumeTimesOut(t) \/ Cancel(t)
      PROVE  IInv'
  <2>1. CASE BeginListen(t)
    BY <2>1, BeginListenInv
  <2>2. CASE Hear(t)
    BY <2>2, HearInv
  <2>3. CASE ChildEnds(t)
    BY <2>3, ChildEndsInv
  <2>4. CASE Subscribe(t)
    BY <2>4, SubscribeInv
  <2>5. CASE Receive(t)
    BY <2>5, ReceiveInv
  <2>6. CASE BeginSchedule(t)
    BY <2>6, BeginScheduleInv
  <2>7. CASE Trigger(t)
    BY <2>7, TriggerInv
  <2>8. CASE WakeUp(t)
    BY <2>8, WakeUpInv
  <2>9. CASE EndRun(t)
    BY <2>9, EndRunInv
  <2>10. CASE ResumeListen(t)
    BY <2>10, ResumeListenInv
  <2>11. CASE ConsumeTimesOut(t) \/ Cancel(t)
    BY <2>11, Fail DEF ConsumeTimesOut, Cancel, Alone
  <2> QED
    BY <1>4, <2>1, <2>2, <2>3, <2>4, <2>5, <2>6, <2>7, <2>8, <2>9, <2>10, <2>11 DEF Step
<1> QED BY <1>1, <1>2, <1>3, <1>4 DEF Next

THEOREM Invariant == Spec => []IInv
BY InitInv, NextInv, PTL DEF Spec

\* Every variable has its type: the events taken are among those published,
\* and a listen remembers filters of its until.
THEOREM Types == Spec => []TypeOK
<1>1. ASSUME IInv PROVE TypeOK
  <2>1. TypeInv
    BY <1>1 DEF IInv
  <2>2. ASSUME NEW t \in Tasks
        PROVE  /\ task[t].pc \in States
               /\ task[t].consumed \in Seq(1..next)
               /\ task[t].bound \in [Names -> Values \union {NoValue}]
               /\ config[t].kind = "listen" =>
                    /\ Len(task[t].consumed) <= MaxEvents
                    /\ task[t].untilSeen \subseteq DOMAIN config[t].until.filters
    <3>1. task[t].pc \in States /\ task[t].consumed \in Seq(Nat) /\ task[t].bound \in Bounds
      BY <2>1, TaskTyped
    <3>2. InOrder(t) /\ ListenInv(t)
      BY <1>1 DEF IInv, TaskInv
    <3>3. \A i \in 1..Len(task[t].consumed) : task[t].consumed[i] \in 1..next
      BY <3>1, <3>2 DEF InOrder
    <3>4. task[t].consumed \in Seq(1..next)
      <4> DEFINE taken == task[t].consumed
      <4>1. Len(taken) \in Nat /\ taken \in [1..Len(taken) -> Nat]
        BY <3>1
      <4>2. taken \in [1..Len(taken) -> 1..next]
        BY <3>3, <4>1
      <4> HIDE DEF taken
      <4>3. taken \in Seq(1..next)
        BY <4>1, <4>2, SeqDef
      <4> QED BY <4>3 DEF taken
    <3>5. Len(task[t].consumed) <= MaxEvents
      BY <2>1, <3>1, <3>2, EventsAssumption DEF InOrder, TypeInv
    <3>6. config[t].kind = "listen" => task[t].untilSeen \subseteq DOMAIN config[t].until.filters
      BY <3>2 DEF ListenInv, Seen
    <3> QED BY <3>1, <3>4, <3>5, <3>6 DEF Bounds
  <2> QED BY <2>1, <2>2, EventsAssumption DEF TypeOK, TypeInv
<1> QED BY <1>1, Invariant, PTL

\* simple.py:154-343: a listen returns the events that its filters, their
\* order, their correlation and its until ask for, and no event is given to
\* two tasks.
THEOREM Listens == Spec => []ListensGetWhatTheyAsk
<1>1. ASSUME IInv PROVE ListensGetWhatTheyAsk
  <2>1. ASSUME NEW t \in Tasks, config[t].kind = "listen"
        PROVE  HearsItsEvents(t) /\ (task[t].pc = "done" => HasItsFill(t))
    <3>1. InOrder(t) /\ Heard(t) /\ (task[t].pc = "done" => HasItsFill(t))
      BY <1>1, <2>1 DEF IInv, TaskInv, ListenInv
    <3>2. Increasing(task[t].consumed)
      BY <3>1 DEF InOrder
    <3>3. config[t].strategy # "all" =>
            \A i \in DOMAIN task[t].consumed : FitsOne(config[t].filters, log[task[t].consumed[i]])
      BY <3>1 DEF Heard, HeardAny
    <3>4. ASSUME config[t].strategy = "all",
                 NEW i \in DOMAIN task[t].consumed \intersect DOMAIN config[t].filters
          PROVE  /\ Fits(config[t].filters[i], log[task[t].consumed[i]])
                 /\ \A n \in Names, a \in Attributes : Asks(config[t].filters[i], n, a) =>
                      task[t].bound[n] = log[task[t].consumed[i]][a]
      BY <3>1, <3>4 DEF Heard, HeardAll
    <3>5. ASSUME config[t].strategy = "all",
                 NEW i \in DOMAIN task[t].consumed \intersect DOMAIN config[t].filters,
                 NEW j \in DOMAIN task[t].consumed \intersect DOMAIN config[t].filters,
                 NEW n \in Names,
                 NEW a \in Compared(config[t].filters[i], n),
                 NEW b \in Compared(config[t].filters[j], n)
          PROVE  log[task[t].consumed[i]][a] = log[task[t].consumed[j]][b]
      <4>1. /\ a \in Attributes /\ Asks(config[t].filters[i], n, a)
            /\ b \in Attributes /\ Asks(config[t].filters[j], n, b)
        BY DEF Compared, Asks
      <4>2. task[t].bound[n] = log[task[t].consumed[i]][a]
        BY <3>4, <3>5, <4>1
      <4>3. task[t].bound[n] = log[task[t].consumed[j]][b]
        BY <3>4, <3>5, <4>1
      <4> QED BY <4>2, <4>3
    <3> QED BY <3>1, <3>2, <3>3, <3>4, <3>5 DEF HearsItsEvents
  <2>2. ASSUME NEW t \in Tasks, NEW u \in Tasks, t # u
        PROVE  {task[t].consumed[i] : i \in DOMAIN task[t].consumed} \intersect
                 {task[u].consumed[i] : i \in DOMAIN task[u].consumed} = {}
    BY <1>1, <2>2 DEF IInv, Apart
  <2> QED BY <2>1, <2>2 DEF ListensGetWhatTheyAsk
<1> QED BY <1>1, Invariant, PTL

\* schedule.py: a schedule runs one workflow at a time and no more than
\* asked, once for each event, minute or period, however long runs and
\* sleeps take.
THEOREM Schedules == Spec => []SchedulesFireOnce
<1>1. ASSUME IInv PROVE SchedulesFireOnce
  <2> SUFFICES ASSUME NEW t \in Tasks, Scheduled(t)
               PROVE
      LET runs == task[t].runs
          period == IF config[t].kind = "on" THEN 0 ELSE Minute * config[t].minutes
      IN /\ Len(runs) <= config[t].runs
         /\ config[t].kind = "on" => Increasing(runs) /\ runs = task[t].consumed
         /\ config[t].kind = "cron" =>
              /\ Increasing([i \in DOMAIN runs |-> runs[i] \div Minute])
              /\ \A i \in DOMAIN runs : CronMatches(t, runs[i] \div Minute)
         /\ config[t].kind \in {"every", "after"} =>
              \A i \in DOMAIN runs : runs[i] >= period + (IF i = 1 THEN 0 ELSE runs[i - 1])
         /\ config[t].kind = "after" => Len(runs) <= 1
    BY DEF SchedulesFireOnce
  <2>1. Spaced(t) /\ Increasing(task[t].consumed)
    BY <1>1 DEF IInv, TaskInv, FireInv, InOrder
  <2>2. config[t].kind = "cron" =>
          Increasing([i \in DOMAIN task[t].runs |-> task[t].runs[i] \div Minute])
    BY <2>1 DEF Spaced, Increasing
  <2> QED BY <2>1, <2>2 DEF Spaced, Period
<1> QED BY <1>1, Invariant, PTL
=============================================================================
