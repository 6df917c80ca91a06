------------------------ MODULE ExternalTasks_proofs ------------------------
(***************************************************************************)
(* What tasks outside the event loop leave behind and what their cache     *)
(* returns, for every set of calls, setups and bounds: the types,          *)
(* EndedCallsLeaveNothing and SameKeySameResult.                           *)
(***************************************************************************)
EXTENDS ExternalTasks, FiniteSetTheorems, SequenceTheorems, TLAPS

-----------------------------------------------------------------------------
(* The inductive invariant *)

CallType ==
  [pc : Places, round : 1 .. 2, result : Calls \union {Nobody},
   pending : {"ok", "raised", "cancelled"},
   timer : {"off", "running", "fired", "passed"},
   hit : Places \union {"none"}, outcome : {"none", "returned", "raised", "cancelled"}]

DockerType ==
  [container : {"none", "created", "running", "left"}, client : BOOLEAN,
   thread : {"none", "to_prepare", "preparing", "to_wait", "waiting"}]

CoreType ==
  /\ call \in [Calls -> CallType]
  /\ lock \in Seq(Calls) /\ IsInjective(lock)
  /\ values \in Seq(Entries) /\ Len(values) <= MaxEntries
  /\ held \in [Calls -> SUBSET Resources]

OuterType ==
  /\ alive \subseteq Calls \X (1 .. 2) \X {"child", "grandchild"}
  /\ docker \in [Calls -> DockerType]
  /\ IsFiniteSet(Busy) /\ Cardinality(Busy) <= Threads

\* Where a call of each kind can be.
PlacesOf(kind) ==
  {"idle", "done"} \union
  CASE kind = "process" -> {"before", "queued", "spawning", "communicating", "reaping", "after"}
    [] kind = "mcp" -> {"before", "spawning", "asking", "closing", "killing", "after"}
    [] kind = "container" -> {"before", "preparing", "containing", "after"}
    [] kind = "grpc" -> {"before", "reading", "calling", "after"}
    [] kind = "http" -> {"before", "reading", "connecting", "requesting", "after"}
    [] kind = "function" -> {"before", "queued", "computing", "nested", "after"}
    [] OTHER -> {}

Placed(d) ==
  /\ call[d].pc \in PlacesOf(Task(d).kind)
  /\ At(d, "nested") => Child(d) # Nobody
  /\ At(d, "queued") => Memoized(d)
  /\ At(d, "done") => Ended(d)
  /\ call[d].outcome = "returned" => At(d, "done")
  /\ Task(d).kind = "process" => call[d].round = 1

HeldInv(d) == call[d].pc \notin {"requesting", "calling"} => held[d] = {}

\* Which processes of a call can live, where it is.
MayLive(d, p) ==
  \/ /\ Task(d).kind = "process" /\ p[2] = call[d].round
     /\ \/ At(d, "communicating")
        \/ At(d, "reaping") /\ p[3] = "grandchild"
        \/ At(d, "done") /\ Survives(d, p[3])
  \/ /\ Task(d).kind = "mcp"
     /\ p[3] = "child" =>
          /\ p[2] = call[d].round
          /\ \/ call[d].pc \in {"asking", "closing"}
             \/ At(d, "done") /\ call[d].hit = "closing"

ProcInv(d) == \A p \in alive : p[1] = d => MayLive(d, p)

\* A call that uses no container, not yet or no longer.
Untouched(d) ==
  call[d].pc \notin {"preparing", "containing", "done"} \/ call[d].outcome = "returned"

DockerInv(d) ==
  /\ docker[d].container = "running" => docker[d].thread = "waiting"
  /\ Untouched(d) => docker[d] = NoDocker

\* The lock of the cache: who is at work under a key is queued for it, and
\* who computes holds it, for a key that is not in the cache.
Outside == {"idle", "before", "after", "done"}
Inside(d) == call[d].pc \notin Outside
Computing(d) == call[d].pc \notin Outside \union {"queued"}

LockInv(d) ==
  /\ (d \in ToSet(lock)) <=> (Memoized(d) /\ Inside(d))
  /\ Memoized(d) /\ Computing(d) => HoldsLock(d) /\ ~ Cached(Key(d))

CacheInv == \A i, j \in DOMAIN values : values[i].key = values[j].key => i = j

\* The result of a key is in the cache, or the cache has dropped it.
ResultInv(d) ==
  Memoized(d) /\ call[d].result # Nobody =>
    \/ Key(d) \in evicted
    \/ \E i \in DOMAIN values : values[i].key = Key(d) /\ values[i].by = call[d].result

SharedInv == CacheInv /\ \A d \in Calls : LockInv(d) /\ ResultInv(d)

IInv ==
  /\ setup \in Setups /\ CoreType /\ OuterType
  /\ SharedInv
  /\ \A d \in Calls : Placed(d) /\ HeldInv(d) /\ ProcInv(d) /\ DockerInv(d)

-----------------------------------------------------------------------------
(* Sequences *)

\* Taking one element out of a sequence without repetitions.
LEMMA RemovalFacts ==
  ASSUME NEW S, NEW s \in Seq(S), IsInjective(s), NEW i \in DOMAIN s
  PROVE  /\ RemoveAt(s, i) \in Seq(S) /\ IsInjective(RemoveAt(s, i))
         /\ ToSet(RemoveAt(s, i)) = ToSet(s) \ {s[i]}
         /\ i # 1 => RemoveAt(s, i) # <<>> /\ RemoveAt(s, i)[1] = s[1]
<1> DEFINE r == RemoveAt(s, i)
<1>1. i \in 1 .. Len(s) /\ Len(s) \in Nat /\ DOMAIN s = 1 .. Len(s)
  BY LenProperties
<1> DEFINE front == SubSeq(s, 1, i - 1)
<1> DEFINE back == SubSeq(s, i + 1, Len(s))
<1>a. /\ front \in Seq(S) /\ Len(front) = i - 1
      /\ \A j \in 1 .. (i - 1) : front[j] = s[j]
  BY <1>1, SMTT(20)
<1>b. /\ back \in Seq(S) /\ Len(back) = Len(s) - i
      /\ \A j \in 1 .. (Len(s) - i) : back[j] = s[i + j]
  BY <1>1, SMTT(20)
<1>c. r = front \o back
  BY DEF RemoveAt
<1> HIDE DEF front, back, r
<1>2. r \in Seq(S) /\ Len(r) = Len(s) - 1 /\ DOMAIN r = 1 .. (Len(s) - 1)
  <2>1. r \in Seq(S) /\ Len(r) = Len(front) + Len(back)
    BY <1>a, <1>b, <1>c, ConcatProperties
  <2>2. Len(r) = Len(s) - 1
    BY <1>1, <1>a, <1>b, <2>1
  <2> QED
    BY <2>1, <2>2, LenProperties
<1>3. \A j \in 1 .. (Len(s) - 1) : r[j] = IF j < i THEN s[j] ELSE s[j + 1]
  <2> SUFFICES ASSUME NEW j \in 1 .. (Len(s) - 1)
               PROVE  r[j] = IF j < i THEN s[j] ELSE s[j + 1]
    OBVIOUS
  <2>1. j \in 1 .. (Len(front) + Len(back))
    BY <1>1, <1>a, <1>b
  <2>2. r[j] = IF j <= Len(front) THEN front[j] ELSE back[j - Len(front)]
    BY <1>a, <1>b, <1>c, <2>1, ConcatProperties
  <2>3. CASE j < i
    BY <1>1, <1>a, <2>2, <2>3
  <2>4. CASE ~ (j < i)
    <3>1. /\ ~ (j <= Len(front)) /\ j - Len(front) \in 1 .. (Len(s) - i)
          /\ i + (j - Len(front)) = j + 1
      BY <1>1, <1>a, <2>4
    <3>2. r[j] = back[j - Len(front)]
      BY <2>2, <3>1
    <3>3. back[j - Len(front)] = s[i + (j - Len(front))]
      BY <1>b, <3>1
    <3> QED
      BY <2>4, <3>1, <3>2, <3>3
  <2> QED
    BY <2>3, <2>4
<1>4. IsInjective(r)
  <2> SUFFICES ASSUME NEW j \in DOMAIN r, NEW k \in DOMAIN r, r[j] = r[k] PROVE j = k
    BY DEF IsInjective
  <2>1. \A m, n \in 1 .. Len(s) : s[m] = s[n] => m = n
    BY <1>1 DEF IsInjective
  <2> QED
    BY <1>1, <1>2, <1>3, <2>1
<1>5. ToSet(r) \subseteq ToSet(s) \ {s[i]}
  <2> SUFFICES ASSUME NEW j \in DOMAIN r PROVE r[j] \in ToSet(s) /\ r[j] # s[i]
    BY DEF ToSet
  <2>1. \A m, n \in 1 .. Len(s) : s[m] = s[n] => m = n
    BY <1>1 DEF IsInjective
  <2>2. CASE j < i
    BY <1>1, <1>2, <1>3, <2>1, <2>2 DEF ToSet
  <2>3. CASE ~ (j < i)
    BY <1>1, <1>2, <1>3, <2>1, <2>3 DEF ToSet
  <2> QED
    BY <2>2, <2>3
<1>6. ToSet(s) \ {s[i]} \subseteq ToSet(r)
  <2> SUFFICES ASSUME NEW j \in DOMAIN s, s[j] # s[i] PROVE s[j] \in ToSet(r)
    BY DEF ToSet
  <2>1. CASE j < i
    <3>1. j \in DOMAIN r /\ r[j] = s[j]
      BY <1>1, <1>2, <1>3, <2>1
    <3> QED
      BY <3>1 DEF ToSet
  <2>2. CASE j > i
    <3>1. j - 1 \in DOMAIN r /\ r[j - 1] = s[j]
      BY <1>1, <1>2, <1>3, <2>2
    <3> QED
      BY <3>1 DEF ToSet
  <2> QED
    BY <1>1, <2>1, <2>2
<1>7. i # 1 => r # <<>> /\ r[1] = s[1]
  BY <1>1, <1>2, <1>3
<1> QED
  BY <1>2, <1>4, <1>5, <1>6, <1>7 DEF r

\* The queue of the lock without c: the others keep their turns.
LEMMA WithoutFacts ==
  ASSUME lock \in Seq(Calls), IsInjective(lock), NEW c \in Calls
  PROVE  /\ LockWithout(c) \in Seq(Calls) /\ IsInjective(LockWithout(c))
         /\ ToSet(LockWithout(c)) = ToSet(lock) \ {c}
         /\ lock # <<>> /\ lock[1] # c => LockWithout(c) # <<>> /\ LockWithout(c)[1] = lock[1]
<1>1. CASE c \in ToSet(lock)
  <2> DEFINE i == CHOOSE k \in DOMAIN lock : lock[k] = c
  <2>1. i \in DOMAIN lock /\ lock[i] = c
    BY <1>1 DEF ToSet
  <2>2. LockWithout(c) = RemoveAt(lock, i)
    BY <1>1 DEF LockWithout
  <2> HIDE DEF i
  <2> QED
    BY <2>1, <2>2, RemovalFacts
<1>2. CASE c \notin ToSet(lock)
  BY <1>2 DEF LockWithout
<1> QED
  BY <1>1, <1>2

\* A call that gets into the queue is its last.
LEMMA QueuedFacts ==
  ASSUME lock \in Seq(Calls), IsInjective(lock), NEW c \in Calls, c \notin ToSet(lock)
  PROVE  /\ Append(lock, c) \in Seq(Calls) /\ IsInjective(Append(lock, c))
         /\ ToSet(Append(lock, c)) = ToSet(lock) \union {c}
         /\ Append(lock, c) # <<>>
         /\ lock # <<>> => Append(lock, c)[1] = lock[1]
<1> DEFINE r == Append(lock, c)
<1>1. /\ Len(lock) \in Nat /\ DOMAIN lock = 1 .. Len(lock)
      /\ r \in Seq(Calls) /\ Len(r) = Len(lock) + 1 /\ DOMAIN r = 1 .. (Len(lock) + 1)
      /\ \A i \in 1 .. Len(lock) : r[i] = lock[i]
      /\ r[Len(lock) + 1] = c
  BY LenProperties, AppendProperties
<1> HIDE DEF r
<1>2. IsInjective(r)
  BY <1>1 DEF IsInjective, ToSet
<1>3. ToSet(r) = ToSet(lock) \union {c}
  <2>1. \A i \in DOMAIN r : i \in DOMAIN lock \/ i = Len(lock) + 1
    BY <1>1
  <2>2. \A i \in DOMAIN lock : i \in DOMAIN r
    BY <1>1
  <2>3. Len(lock) + 1 \in DOMAIN r
    BY <1>1
  <2> QED
    BY <1>1, <2>1, <2>2, <2>3 DEF ToSet
<1>4. r # <<>> /\ (lock # <<>> => r[1] = lock[1])
  BY <1>1
<1> QED
  BY <1>1, <1>2, <1>3, <1>4 DEF r

\* The cache with a new entry: what it keeps, and its bound.
LEMMA CacheFacts ==
  ASSUME NEW S, values \in Seq(S), Len(values) <= MaxEntries, NEW e \in S
  PROVE  /\ Append(Kept, e) \in Seq(S) /\ Len(Append(Kept, e)) <= MaxEntries
         /\ \A i \in DOMAIN Append(Kept, e) :
              \/ i = Len(Kept) + 1 /\ Append(Kept, e)[i] = e
              \/ /\ i \in 1 .. Len(Kept)
                 /\ \E j \in DOMAIN values :
                      /\ j - i = Len(values) - Len(Kept)
                      /\ Append(Kept, e)[i] = values[j]
         /\ Len(Kept) + 1 \in DOMAIN Append(Kept, e)
         /\ Append(Kept, e)[Len(Kept) + 1] = e
         /\ Len(Kept) \in Nat /\ DOMAIN Append(Kept, e) \subseteq Nat
<1>1. MaxEntries \in Nat \ {0} /\ Len(values) \in Nat /\ DOMAIN values = 1 .. Len(values)
  BY LenProperties, ExternalTasksAssumption
<1>2. /\ Kept \in Seq(S) /\ Len(Kept) \in Nat /\ Len(Kept) < MaxEntries
      /\ \A i \in 1 .. Len(Kept) : \E j \in DOMAIN values :
           j - i = Len(values) - Len(Kept) /\ Kept[i] = values[j]
  <2>1. CASE Len(values) >= MaxEntries
    <3>1. Kept = Tail(values) /\ values # <<>>
      BY <1>1, <2>1 DEF Kept
    <3>2. /\ Kept \in Seq(S) /\ Len(Kept) = Len(values) - 1
          /\ \A i \in 1 .. Len(Kept) : Kept[i] = values[i + 1]
      BY <3>1, HeadTailProperties
    <3>3. \A i \in 1 .. Len(Kept) : i + 1 \in DOMAIN values /\ (i + 1) - i = Len(values) - Len(Kept)
      BY <1>1, <3>2
    <3> QED
      BY <1>1, <3>2, <3>3
  <2>2. CASE ~ (Len(values) >= MaxEntries)
    <3>1. Kept = values
      BY <2>2 DEF Kept
    <3> QED
      BY <1>1, <2>2, <3>1
  <2> QED
    BY <2>1, <2>2
<1> DEFINE r == Append(Kept, e)
<1>3. /\ r \in Seq(S) /\ Len(r) = Len(Kept) + 1 /\ DOMAIN r = 1 .. (Len(Kept) + 1)
      /\ \A i \in 1 .. Len(Kept) : r[i] = Kept[i]
      /\ r[Len(Kept) + 1] = e
  BY <1>2, LenProperties, AppendProperties
<1> HIDE DEF r
<1>4. Len(r) <= MaxEntries
  BY <1>1, <1>2, <1>3
<1>5. \A i \in DOMAIN r :
        \/ i = Len(Kept) + 1 /\ r[i] = e
        \/ /\ i \in 1 .. Len(Kept)
           /\ \E j \in DOMAIN values : j - i = Len(values) - Len(Kept) /\ r[i] = values[j]
  <2> SUFFICES ASSUME NEW i \in DOMAIN r, ~ (i = Len(Kept) + 1 /\ r[i] = e)
               PROVE  /\ i \in 1 .. Len(Kept)
                      /\ \E j \in DOMAIN values : j - i = Len(values) - Len(Kept) /\ r[i] = values[j]
    OBVIOUS
  <2>1. i \in 1 .. Len(Kept) /\ r[i] = Kept[i]
    BY <1>2, <1>3
  <2> QED
    BY <1>2, <2>1
<1>6. Len(Kept) + 1 \in DOMAIN r /\ DOMAIN r \subseteq Nat
  BY <1>2, <1>3
<1> QED
  BY <1>2, <1>3, <1>4, <1>5, <1>6 DEF r

-----------------------------------------------------------------------------
(* The frames of a step *)

\* A step of another call leaves these of d alone.
Steady(d) ==
  /\ call'[d].pc = call[d].pc /\ call'[d].round = call[d].round
  /\ call'[d].result = call[d].result /\ call'[d].hit = call[d].hit
  /\ Ended(d) => Ended(d)'
  /\ call'[d].outcome = "returned" => call[d].outcome = "returned"

\* What a step of c has to show of calls, lock and cache ...
Core(c) ==
  /\ CoreType' /\ SharedInv'
  /\ \A d \in Calls \ {c} : Steady(d) /\ held'[d] = held[d]
  /\ Placed(c)' /\ HeldInv(c)'

\* ... and of what lives outside.
Out(c) ==
  /\ OuterType'
  /\ \A p \in alive' : p[1] # c => p \in alive
  /\ \A d \in Calls \ {c} : docker'[d] = docker[d]
  /\ ProcInv(c)' /\ DockerInv(c)'

\* A step that shows both keeps the invariant.
LEMMA Combined ==
  ASSUME IInv, NEW c \in Calls, setup' = setup, Core(c), Out(c)
  PROVE  IInv'
<1> SUFFICES ASSUME NEW d \in Calls \ {c}
             PROVE  Placed(d)' /\ HeldInv(d)' /\ ProcInv(d)' /\ DockerInv(d)'
  BY DEF IInv, Core, Out
<1>1. Steady(d) /\ held'[d] = held[d] /\ docker'[d] = docker[d] /\ Task(d)' = Task(d) /\ Child(d)' = Child(d)
  BY DEF Core, Out, Task, Child
<1>2. Placed(d)'
  BY <1>1 DEF IInv, Placed, Steady, At, Memoized, PlacesOf
<1>3. HeldInv(d)'
  BY <1>1 DEF IInv, HeldInv, Steady
<1>4. DockerInv(d)'
  BY <1>1 DEF IInv, DockerInv, Untouched, Steady
<1>5. ProcInv(d)'
  <2> SUFFICES ASSUME NEW p \in alive', p[1] = d PROVE MayLive(d, p)'
    BY DEF ProcInv
  <2>1. p \in alive
    BY DEF Out
  <2>2. MayLive(d, p)
    BY <2>1 DEF IInv, ProcInv
  <2> QED
    BY <1>1, <2>2 DEF MayLive, Steady, At, Survives
<1> QED
  BY <1>2, <1>3, <1>4, <1>5

\* Another call keeps its part of the shared invariant, if it keeps its place
\* in the queue, the head of the queue is kept and so is what the cache holds.
LEMMA OthersShared ==
  ASSUME SharedInv, setup' = setup, values' = values, evicted' = evicted,
         NEW d \in Calls, Steady(d),
         d \in ToSet(lock') <=> d \in ToSet(lock),
         HoldsLock(d) => HoldsLock(d)'
  PROVE  LockInv(d)' /\ ResultInv(d)'
<1>1. Memoized(d)' = Memoized(d) /\ Key(d)' = Key(d)
  BY DEF Memoized, Key, Task
<1>2. LockInv(d)'
  <2>1. Inside(d)' = Inside(d) /\ Computing(d)' = Computing(d)
    BY DEF Steady, Inside, Computing
  <2> QED
    BY <1>1, <2>1 DEF SharedInv, LockInv, Cached
<1>3. ResultInv(d)'
  BY <1>1 DEF SharedInv, ResultInv, Steady
<1> QED
  BY <1>2, <1>3

\* c stays where it is in the queue, and computes only what it may.
LEMMA StaysShared ==
  ASSUME SharedInv, setup' = setup, values' = values, evicted' = evicted, lock' = lock,
         NEW c \in Calls, \A d \in Calls \ {c} : Steady(d),
         call'[c].result = call[c].result,
         Memoized(c) => /\ Inside(c)' <=> Inside(c)
                        /\ Computing(c)' => HoldsLock(c) /\ ~ Cached(Key(c))
  PROVE  SharedInv'
<1>1. CacheInv'
  BY DEF SharedInv, CacheInv
<1>2. \A d \in Calls \ {c} : LockInv(d)' /\ ResultInv(d)'
  BY OthersShared DEF HoldsLock
<1>3. LockInv(c)'
  <2>1. Memoized(c)' = Memoized(c) /\ Key(c)' = Key(c) /\ HoldsLock(c)' = HoldsLock(c)
        /\ Cached(Key(c))' = Cached(Key(c))
    BY DEF Memoized, Key, Task, HoldsLock, Cached
  <2>2. LockInv(c)
    BY DEF SharedInv
  <2> QED
    BY <2>1, <2>2 DEF LockInv
<1>4. ResultInv(c)'
  BY DEF SharedInv, ResultInv, Memoized, Key, Task
<1> QED
  BY <1>1, <1>2, <1>3, <1>4 DEF SharedInv

\* c comes to its node, and into the queue where its task is memoized.
LEMMA EntersShared ==
  ASSUME SharedInv, CoreType, setup' = setup, values' = values, evicted' = evicted,
         NEW c \in Calls, \A d \in Calls \ {c} : Steady(d),
         ~ Inside(c), call'[c].pc = EntryOf(c), call'[c].result = call[c].result,
         lock' = IF EntryOf(c) = "queued" THEN Append(lock, c) ELSE lock
  PROVE  SharedInv' /\ lock' \in Seq(Calls) /\ IsInjective(lock')
<1>1. EntryOf(c) = "queued" <=> Memoized(c)
  BY DEF EntryOf, NodeOf
<1>2. CASE ~ Memoized(c)
  BY <1>1, <1>2, StaysShared DEF CoreType
<1>3. CASE Memoized(c)
  <2>1. c \notin ToSet(lock)
    BY DEF SharedInv, LockInv
  <2>2. lock' = Append(lock, c) /\ call'[c].pc = "queued"
    BY <1>1, <1>3
  <2>3. /\ lock' \in Seq(Calls) /\ IsInjective(lock')
        /\ ToSet(lock') = ToSet(lock) \union {c}
        /\ lock' # <<>>
        /\ lock # <<>> => lock'[1] = lock[1]
    BY <2>1, <2>2, QueuedFacts DEF CoreType
  <2>4. CacheInv'
    BY DEF SharedInv, CacheInv
  <2>5. \A d \in Calls \ {c} : LockInv(d)' /\ ResultInv(d)'
    BY <2>3, OthersShared DEF HoldsLock
  <2>6. LockInv(c)'
    <3>1. Inside(c)' /\ ~ Computing(c)' /\ Memoized(c)'
      BY <1>3, <2>2 DEF Inside, Outside, Computing, Memoized, Task
    <3> QED
      BY <2>3, <3>1 DEF LockInv
  <2>7. ResultInv(c)'
    BY DEF SharedInv, ResultInv, Memoized, Key, Task
  <2> QED
    BY <2>3, <2>4, <2>5, <2>6, <2>7 DEF SharedInv
<1> QED
  BY <1>2, <1>3

\* c leaves its node, and with it the queue.
LEMMA LeavesShared ==
  ASSUME SharedInv, CoreType, setup' = setup, values' = values, evicted' = evicted,
         NEW c \in Calls, \A d \in Calls \ {c} : Steady(d),
         call'[c].pc \in Outside, ResultInv(c)',
         lock' = LockWithout(c)
  PROVE  SharedInv' /\ lock' \in Seq(Calls) /\ IsInjective(lock')
<1>1. /\ lock' \in Seq(Calls) /\ IsInjective(lock')
      /\ ToSet(lock') = ToSet(lock) \ {c}
      /\ lock # <<>> /\ lock[1] # c => lock' # <<>> /\ lock'[1] = lock[1]
  BY WithoutFacts DEF CoreType
<1>2. CacheInv'
  BY DEF SharedInv, CacheInv
<1>3. \A d \in Calls \ {c} : LockInv(d)' /\ ResultInv(d)'
  BY <1>1, OthersShared DEF HoldsLock
<1>4. LockInv(c)'
  BY <1>1 DEF LockInv, Inside, Outside, Computing
<1> QED
  BY <1>1, <1>2, <1>3, <1>4 DEF SharedInv

\* The node of c returns, and its result is the newest in the cache.
LEMMA ReturnsShared ==
  ASSUME SharedInv, CoreType, setup' = setup,
         NEW c \in Calls, \A d \in Calls \ {c} : Steady(d),
         Memoized(c) => Computing(c),
         call'[c].pc \in Outside, call'[c].result = c,
         lock' = LockWithout(c),
         IF Memoized(c)
         THEN /\ values' = Append(Kept, [key |-> Key(c), by |-> c])
              /\ evicted' = evicted \union
                   ({v.key : v \in ToSet(values)} \ {v.key : v \in ToSet(values')})
         ELSE UNCHANGED <<values, evicted>>
  PROVE  /\ SharedInv' /\ lock' \in Seq(Calls) /\ IsInjective(lock')
         /\ values' \in Seq(Entries) /\ Len(values') <= MaxEntries
<1>1. CASE ~ Memoized(c)
  <2>1. values' = values /\ evicted' = evicted
    BY <1>1
  <2>2. ResultInv(c)'
    BY <1>1 DEF ResultInv, Memoized, Task
  <2> QED
    BY <2>1, <2>2, LeavesShared DEF CoreType
<1>2. CASE Memoized(c)
  <2> DEFINE e == [key |-> Key(c), by |-> c]
  <2>1. HoldsLock(c) /\ ~ Cached(Key(c))
    BY <1>2 DEF SharedInv, LockInv
  <2>2. e \in Entries /\ e.key = Key(c) /\ e.by = c
    BY <1>2 DEF Entries, Memoized, Key
  <2>3. /\ values' = Append(Kept, e)
        /\ evicted' = evicted \union
             ({v.key : v \in ToSet(values)} \ {v.key : v \in ToSet(values')})
    BY <1>2
  <2> HIDE DEF e
  <2>4. /\ values' \in Seq(Entries) /\ Len(values') <= MaxEntries
        /\ \A i \in DOMAIN values' :
             \/ i = Len(Kept) + 1 /\ values'[i] = e
             \/ /\ i \in 1 .. Len(Kept)
                /\ \E j \in DOMAIN values : j - i = Len(values) - Len(Kept) /\ values'[i] = values[j]
        /\ Len(Kept) + 1 \in DOMAIN values'
        /\ values'[Len(Kept) + 1] = e
        /\ Len(Kept) \in Nat /\ DOMAIN values' \subseteq Nat
        /\ Len(values) \in Nat /\ DOMAIN values = 1 .. Len(values)
    <3>1. values \in Seq(Entries) /\ Len(values) <= MaxEntries
      BY DEF CoreType
    <3> QED
      BY <2>2, <2>3, <3>1, CacheFacts, LenProperties
  <2>5. \A j \in DOMAIN values : values[j].key # Key(c)
    BY <2>1 DEF Cached
  <2>6. CacheInv'
    <3> SUFFICES ASSUME NEW i \in DOMAIN values', NEW j \in DOMAIN values',
                        values'[i].key = values'[j].key
                 PROVE  i = j
      BY DEF CacheInv
    <3>1. CASE values'[i] = e /\ i = Len(Kept) + 1
      <4>1. ~ \E k \in DOMAIN values : values'[j] = values[k]
        BY <2>2, <2>5, <3>1
      <4> QED
        BY <2>4, <3>1, <4>1
    <3>2. CASE values'[j] = e /\ j = Len(Kept) + 1
      <4>1. ~ \E k \in DOMAIN values : values'[i] = values[k]
        BY <2>2, <2>5, <3>2
      <4> QED
        BY <2>4, <3>2, <4>1
    <3>3. CASE /\ i \in 1 .. Len(Kept) /\ j \in 1 .. Len(Kept)
               /\ \E k \in DOMAIN values : k - i = Len(values) - Len(Kept) /\ values'[i] = values[k]
               /\ \E k \in DOMAIN values : k - j = Len(values) - Len(Kept) /\ values'[j] = values[k]
      <4>1. PICK k \in DOMAIN values : k - i = Len(values) - Len(Kept) /\ values'[i] = values[k]
        BY <3>3
      <4>2. PICK l \in DOMAIN values : l - j = Len(values) - Len(Kept) /\ values'[j] = values[l]
        BY <3>3
      <4>3. k = l
        BY <4>1, <4>2 DEF SharedInv, CacheInv
      <4> QED
        BY <2>4, <4>1, <4>2, <4>3
    <3> QED
      BY <2>4, <3>1, <3>2, <3>3
  <2>7. /\ lock' \in Seq(Calls) /\ IsInjective(lock')
        /\ ToSet(lock') = ToSet(lock) \ {c}
    BY WithoutFacts DEF CoreType
  <2>8. LockInv(c)'
    BY <2>7 DEF LockInv, Inside, Outside, Computing
  <2>9. ResultInv(c)'
    BY <2>2, <2>4 DEF ResultInv, Key, Task
  <2>10. \A d \in Calls \ {c} : LockInv(d)'
    <3> SUFFICES ASSUME NEW d \in Calls \ {c} PROVE LockInv(d)'
      OBVIOUS
    <3>1. Memoized(d)' = Memoized(d) /\ Inside(d)' = Inside(d) /\ Computing(d)' = Computing(d)
      BY DEF Steady, Inside, Computing, Memoized, Task
    <3>2. ~ (Memoized(d) /\ Computing(d))
      BY <2>1 DEF SharedInv, LockInv, HoldsLock
    <3> QED
      BY <2>7, <3>1, <3>2 DEF SharedInv, LockInv
  <2>11. \A d \in Calls \ {c} : ResultInv(d)'
    <3> SUFFICES ASSUME NEW d \in Calls \ {c}, Memoized(d), call[d].result # Nobody,
                        Key(d) \notin evicted'
                 PROVE  \E i \in DOMAIN values' :
                          values'[i].key = Key(d) /\ values'[i].by = call[d].result
      BY DEF ResultInv, Memoized, Key, Task, Steady
    <3>1. PICK k \in DOMAIN values : values[k].key = Key(d) /\ values[k].by = call[d].result
      BY <2>3 DEF SharedInv, ResultInv
    <3>2. PICK i \in DOMAIN values' : values'[i].key = Key(d)
      BY <2>3, <3>1 DEF ToSet
    <3>3. values'[i] # e
      BY <2>2, <2>5, <3>1, <3>2
    <3>4. PICK j \in DOMAIN values : values'[i] = values[j]
      BY <2>4, <3>3
    <3>5. j = k
      BY <3>1, <3>2, <3>4 DEF SharedInv, CacheInv
    <3> QED
      BY <3>1, <3>2, <3>4, <3>5
  <2> QED
    BY <2>4, <2>6, <2>7, <2>8, <2>9, <2>10, <2>11 DEF SharedInv
<1> QED
  BY <1>1, <1>2

-----------------------------------------------------------------------------
(* How a call leaves its node *)

LEMMA LeavingFacts ==
  ASSUME CoreType, NEW c \in Calls, NEW how \in {"returned", "raised", "cancelled"}
  PROVE  LET m == Leaving(c, how) IN
         /\ m \in [Calls -> CallType]
         /\ \A d \in Calls \ {c} : m[d] = call[d]
         /\ m[c].pc = "done" /\ m[c].outcome # "none"
         /\ m[c].round = call[c].round /\ m[c].result = call[c].result /\ m[c].hit = call[c].hit
         /\ m[c].outcome = "returned" => "returned" \in {how, call[c].outcome}
<1> DEFINE out == IF Ended(c) THEN call[c].outcome
                  ELSE IF how = "cancelled" /\ call[c].timer = "fired" THEN "raised"
                  ELSE how
<1> DEFINE r == [call[c] EXCEPT !.pc = "done", !.outcome = out]
<1>1. call \in [Calls -> CallType] /\ call[c] \in CallType
  BY DEF CoreType
<1>2. /\ out \in {"returned", "raised", "cancelled"}
      /\ out = "returned" => "returned" \in {how, call[c].outcome}
  BY <1>1 DEF CallType, Ended
<1> HIDE DEF out
<1>3. /\ r \in CallType /\ r.pc = "done" /\ r.outcome = out /\ r.round = call[c].round
      /\ r.result = call[c].result /\ r.hit = call[c].hit
  <2>1. "done" \in Places
    BY DEF Places
  <2>2. r \in CallType
    BY <1>1, <1>2, <2>1 DEF CallType
  <2> QED
    BY <1>1, <2>2 DEF CallType
<1>4. Leaving(c, how) = [call EXCEPT ![c] = r]
  BY <1>1 DEF Leaving, out, CallType
<1> HIDE DEF r
<1> QED
  BY <1>1, <1>2, <1>3, <1>4

LEMMA ReturningFacts ==
  ASSUME CoreType, NEW c \in Calls, NEW by \in Calls \union {Nobody}
  PROVE  LET m == Returning(c, by) IN
         /\ m \in [Calls -> CallType]
         /\ \A d \in Calls \ {c} : m[d] = call[d]
         /\ m[c].pc \in {"after", "done"} /\ (m[c].pc = "done" => m[c].outcome # "none")
         /\ m[c].round = call[c].round /\ m[c].result = by /\ m[c].hit = call[c].hit
         /\ m[c].pc = "after" => m[c].outcome = call[c].outcome
<1> DEFINE n == IF Task(c).extended THEN [call EXCEPT ![c].pc = "after"] ELSE Leaving(c, "returned")
<1>1. call \in [Calls -> CallType] /\ call[c] \in CallType
  BY DEF CoreType
<1>2. /\ n \in [Calls -> CallType]
      /\ \A d \in Calls \ {c} : n[d] = call[d]
      /\ n[c].pc \in {"after", "done"} /\ (n[c].pc = "done" => n[c].outcome # "none")
      /\ n[c].round = call[c].round /\ n[c].hit = call[c].hit
      /\ n[c].pc = "after" => n[c].outcome = call[c].outcome
  <2>1. CASE Task(c).extended
    <3> DEFINE r == [call[c] EXCEPT !.pc = "after"]
    <3>1. /\ r \in CallType /\ r.pc = "after" /\ r.round = call[c].round
          /\ r.hit = call[c].hit /\ r.outcome = call[c].outcome
      BY <1>1 DEF CallType, Places
    <3>2. n = [call EXCEPT ![c] = r]
      BY <2>1
    <3> HIDE DEF r, n
    <3> QED
      BY <1>1, <3>1, <3>2
  <2>2. CASE ~ Task(c).extended
    <3>1. n = Leaving(c, "returned")
      BY <2>2
    <3> HIDE DEF n
    <3> QED
      BY <3>1, LeavingFacts
  <2> QED
    BY <2>1, <2>2
<1>3. Returning(c, by) = [n EXCEPT ![c].result = by]
  BY DEF Returning
<1> HIDE DEF n
<1> DEFINE q == [n[c] EXCEPT !.result = by]
<1>4. n[c] \in CallType
  BY <1>2
<1>5. q \in CallType /\ q.result = by /\ q.pc = n[c].pc /\ q.outcome = n[c].outcome
      /\ q.round = n[c].round /\ q.hit = n[c].hit
  BY <1>4 DEF CallType
<1>6. Returning(c, by) = [n EXCEPT ![c] = q]
  BY <1>3
<1> HIDE DEF q
<1> QED
  BY <1>2, <1>5, <1>6

\* Every way out of a node leaves the queue and what the call has set up.
LEMMA LeavesCore ==
  ASSUME IInv, NEW c \in Calls, NEW how \in {"returned", "raised", "cancelled"},
         Leaves(c, how), setup' = setup, values' = values, evicted' = evicted
  PROVE  /\ Core(c)
         /\ call'[c].pc = "done" /\ call'[c].hit = call[c].hit /\ call'[c].round = call[c].round
         /\ how # "returned" /\ call[c].pc # "done" => call'[c].outcome # "returned"
<1>1. /\ call' \in [Calls -> CallType]
      /\ \A d \in Calls \ {c} : call'[d] = call[d]
      /\ call'[c].pc = "done" /\ call'[c].outcome # "none"
      /\ call'[c].round = call[c].round /\ call'[c].result = call[c].result
      /\ call'[c].hit = call[c].hit
      /\ call'[c].outcome = "returned" => "returned" \in {how, call[c].outcome}
  BY LeavingFacts DEF IInv, Leaves
<1>2. \A d \in Calls \ {c} : Steady(d)
  BY <1>1 DEF Steady, Ended
<1>3. ResultInv(c)'
  BY <1>1 DEF IInv, SharedInv, ResultInv, Memoized, Key, Task
<1>4. SharedInv' /\ lock' \in Seq(Calls) /\ IsInjective(lock')
  BY <1>1, <1>2, <1>3, LeavesShared DEF IInv, Outside, Leaves
<1>5. held' \in [Calls -> SUBSET Resources] /\ held'[c] = {} /\ \A d \in Calls \ {c} : held'[d] = held[d]
  BY DEF IInv, CoreType, Leaves
<1>6. CoreType'
  BY <1>1, <1>4, <1>5 DEF IInv, CoreType, Entries, Key, Task
<1>7. Placed(c)' /\ HeldInv(c)'
  BY <1>1, <1>5 DEF IInv, Placed, HeldInv, At, Ended, PlacesOf, Task, Memoized, Child
<1>8. how # "returned" /\ call[c].pc # "done" => call'[c].outcome # "returned"
  BY <1>1 DEF IInv, Placed, At
<1> QED
  BY <1>1, <1>2, <1>4, <1>5, <1>6, <1>7, <1>8 DEF Core

LEMMA ReturnsCore ==
  ASSUME IInv, NEW c \in Calls, call[c].pc \notin Outside \union {"queued"},
         NodeReturns(c), setup' = setup
  PROVE  /\ Core(c)
         /\ call'[c].pc \in {"after", "done"} /\ call'[c].hit = call[c].hit
         /\ call'[c].round = call[c].round
<1>1. /\ call' \in [Calls -> CallType]
      /\ \A d \in Calls \ {c} : call'[d] = call[d]
      /\ call'[c].pc \in {"after", "done"} /\ (call'[c].pc = "done" => call'[c].outcome # "none")
      /\ call'[c].round = call[c].round /\ call'[c].result = c /\ call'[c].hit = call[c].hit
      /\ call'[c].pc = "after" => call'[c].outcome = call[c].outcome
  BY ReturningFacts DEF IInv, NodeReturns
<1>2. \A d \in Calls \ {c} : Steady(d)
  BY <1>1 DEF Steady, Ended
<1>3. /\ SharedInv' /\ lock' \in Seq(Calls) /\ IsInjective(lock')
      /\ values' \in Seq(Entries) /\ Len(values') <= MaxEntries
  <2>1. call'[c].pc \in Outside /\ Computing(c)
    BY <1>1 DEF Outside, Computing
  <2> QED
    BY <1>1, <1>2, <2>1, ReturnsShared DEF IInv, NodeReturns
<1>4. held' \in [Calls -> SUBSET Resources] /\ held'[c] = {} /\ \A d \in Calls \ {c} : held'[d] = held[d]
  BY DEF IInv, CoreType, NodeReturns
<1>5. CoreType'
  BY <1>1, <1>3, <1>4 DEF CoreType, Entries, Key, Task
<1>6. Placed(c)' /\ HeldInv(c)'
  <2>1. "after" \in PlacesOf(Task(c).kind) /\ call[c].outcome # "returned"
    BY DEF IInv, Placed, PlacesOf, Outside, At
  <2> QED
    BY <1>1, <1>4, <2>1 DEF IInv, Placed, HeldInv, At, Ended, PlacesOf, Task, Memoized, Child
<1> QED
  BY <1>1, <1>2, <1>3, <1>4, <1>5, <1>6 DEF Core

LEMMA EndsCore ==
  ASSUME IInv, NEW c \in Calls, call[c].pc \notin Outside \union {"queued"},
         NodeEnds(c), setup' = setup
  PROVE  /\ Core(c)
         /\ call'[c].pc \in {"after", "done"} /\ call'[c].hit = call[c].hit
         /\ call'[c].round = call[c].round
<1>1. CASE NodeReturns(c)
  BY <1>1, ReturnsCore
<1>2. CASE NodeRaises(c)
  BY <1>2, LeavesCore DEF NodeRaises
<1> QED
  BY <1>1, <1>2 DEF NodeEnds

\* c goes on in its node, or from one of its wrappers to the other.
LEMMA MovesCore ==
  ASSUME IInv, NEW c \in Calls,
         setup' = setup, values' = values, evicted' = evicted, lock' = lock,
         call' \in [Calls -> CallType], \A d \in Calls \ {c} : Steady(d),
         call'[c].result = call[c].result,
         held' \in [Calls -> SUBSET Resources], \A d \in Calls \ {c} : held'[d] = held[d],
         Placed(c)', HeldInv(c)',
         Memoized(c) => /\ Inside(c)' <=> Inside(c)
                        /\ Computing(c)' => HoldsLock(c) /\ ~ Cached(Key(c))
  PROVE  Core(c)
<1>1. SharedInv'
  BY StaysShared DEF IInv
<1>2. CoreType'
  BY DEF IInv, CoreType, Entries, Key, Task
<1> QED
  BY <1>1, <1>2 DEF Core

\* Where c stays at work in its node, it moves as it may.
LEMMA WorksOn ==
  ASSUME IInv, NEW c \in Calls,
         call[c].pc \notin Outside \union {"queued"}, call'[c].pc \notin Outside \union {"queued"}
  PROVE  Memoized(c) => /\ Inside(c)' <=> Inside(c)
                        /\ Computing(c)' => HoldsLock(c) /\ ~ Cached(Key(c))
<1> QED
  BY DEF IInv, SharedInv, LockInv, Computing, Inside

-----------------------------------------------------------------------------
(* What lives outside *)

\* Only a process at work, or one that was left behind, may live.
LEMMA QuietProcesses ==
  ASSUME IInv, NEW c \in Calls, setup' = setup, alive' = alive,
         call[c].pc \notin {"communicating", "reaping", "asking", "closing", "done"}
  PROVE  ProcInv(c)'
<1> SUFFICES ASSUME NEW p \in alive, p[1] = c PROVE MayLive(c, p)'
  BY DEF ProcInv
<1>1. MayLive(c, p)
  BY DEF IInv, ProcInv
<1>2. Task(c).kind = "mcp" /\ p[3] # "child"
  BY <1>1 DEF MayLive, At
<1> QED
  BY <1>2 DEF MayLive, Task

LEMMA QuietOut ==
  ASSUME IInv, NEW c \in Calls, setup' = setup, alive' = alive, docker' = docker, ProcInv(c)',
         Untouched(c)' => Untouched(c)
  PROVE  Out(c)
<1>1. Busy' = Busy
  BY DEF Busy
<1> QED
  BY <1>1 DEF IInv, Out, OuterType, DockerInv

\* A step of processes.
LEMMA ProcessOut ==
  ASSUME IInv, NEW c \in Calls, setup' = setup, docker' = docker, ProcInv(c)',
         Untouched(c)' => Untouched(c),
         alive' \subseteq Calls \X (1 .. 2) \X {"child", "grandchild"},
         \A p \in alive' : p[1] # c => p \in alive
  PROVE  Out(c)
<1>1. Busy' = Busy
  BY DEF Busy
<1> QED
  BY <1>1 DEF IInv, Out, OuterType, DockerInv

\* A step of the container of c, or of its thread: the pool keeps its bound.
LEMMA DockerOut ==
  ASSUME IInv, NEW c \in Calls, setup' = setup, alive' = alive, ProcInv(c)',
         NEW r \in DockerType, docker' = [docker EXCEPT ![c] = r],
         r.container = "running" => r.thread = "waiting", Untouched(c)' => r = NoDocker,
         r.thread \in {"preparing", "waiting"} => c \in Busy \/ Cardinality(Busy) < Threads
  PROVE  Out(c)
<1>1. docker \in [Calls -> DockerType] /\ IsFiniteSet(Busy) /\ Cardinality(Busy) <= Threads
  BY DEF IInv, OuterType
<1>2. docker' \in [Calls -> DockerType] /\ docker'[c] = r /\ \A d \in Calls \ {c} : docker'[d] = docker[d]
  BY <1>1
<1>3. IsFiniteSet(Busy') /\ Cardinality(Busy') <= Threads
  <2>1. Busy' \subseteq Busy \union {c}
    BY <1>2 DEF Busy
  <2>2. CASE c \in Busy \/ r.thread \notin {"preparing", "waiting"}
    <3>1. Busy' \subseteq Busy
      BY <1>2, <2>2 DEF Busy
    <3>2. IsFiniteSet(Busy') /\ Cardinality(Busy') <= Cardinality(Busy)
      BY <1>1, <3>1, FS_Subset
    <3>3. Cardinality(Busy') \in Nat /\ Cardinality(Busy) \in Nat /\ Threads \in Nat
      BY <1>1, <3>2, FS_CardinalityType, ExternalTasksAssumption
    <3> QED
      BY <1>1, <3>2, <3>3
  <2>3. CASE Cardinality(Busy) < Threads
    <3>1. IsFiniteSet(Busy \union {c}) /\ Cardinality(Busy \union {c}) <= Cardinality(Busy) + 1
      <4>1. /\ IsFiniteSet(Busy \union {c})
            /\ Cardinality(Busy \union {c}) =
                 IF c \in Busy THEN Cardinality(Busy) ELSE Cardinality(Busy) + 1
        BY <1>1, FS_AddElement
      <4>2. Cardinality(Busy) \in Nat
        BY <1>1, FS_CardinalityType
      <4> QED
        BY <4>1, <4>2
    <3>2. IsFiniteSet(Busy') /\ Cardinality(Busy') <= Cardinality(Busy \union {c})
      BY <2>1, <3>1, FS_Subset
    <3>3. /\ Cardinality(Busy') \in Nat /\ Cardinality(Busy) \in Nat /\ Threads \in Nat
          /\ Cardinality(Busy \union {c}) \in Nat
      BY <1>1, <3>1, <3>2, FS_CardinalityType, ExternalTasksAssumption
    <3> HIDE DEF Busy
    <3> QED
      BY <2>3, <3>1, <3>2, <3>3
  <2> QED
    BY <2>2, <2>3
<1>4. DockerInv(c)'
  BY <1>2 DEF DockerInv
<1> QED
  BY <1>2, <1>3, <1>4 DEF IInv, Out, OuterType

-----------------------------------------------------------------------------
(* The wrappers, the cache and functions *)

\* Where a node can start, by its kind.
LEMMA EntryPlaced ==
  ASSUME IInv, NEW c \in Calls, Task(c).kind # "absent"
  PROVE  /\ EntryOf(c) \in PlacesOf(Task(c).kind) \ (Outside \union {"calling", "requesting"})
         /\ NodeOf(c) \in PlacesOf(Task(c).kind) \ (Outside \union {"queued", "calling", "requesting"})
         /\ NodeOf(c) = "nested" => Child(c) # Nobody
         /\ EntryOf(c) = "queued" <=> Memoized(c)
         /\ "before" \in PlacesOf(Task(c).kind)
<1>1. /\ Task(c).kind \in Kinds
      /\ Memoized(c) => Task(c).kind \in {"function", "process"}
  BY SetupsAssumption DEF IInv, Task, Memoized
<1>2. /\ NodeOf(c) \in PlacesOf(Task(c).kind) \ (Outside \union {"queued", "calling", "requesting"})
      /\ NodeOf(c) = "nested" => Child(c) # Nobody
      /\ "before" \in PlacesOf(Task(c).kind)
  <2>1. CASE Task(c).kind = "function"
    BY <2>1 DEF NodeOf, PlacesOf, Outside
  <2>2. CASE Task(c).kind = "process"
    BY <2>2 DEF NodeOf, PlacesOf, Outside
  <2>3. CASE Task(c).kind = "mcp"
    BY <2>3 DEF NodeOf, PlacesOf, Outside
  <2>4. CASE Task(c).kind = "container"
    BY <2>4 DEF NodeOf, PlacesOf, Outside
  <2>5. CASE Task(c).kind = "http"
    BY <2>5 DEF NodeOf, PlacesOf, Outside
  <2>6. CASE Task(c).kind = "grpc"
    BY <2>6 DEF NodeOf, PlacesOf, Outside
  <2> QED
    BY <1>1, <2>1, <2>2, <2>3, <2>4, <2>5, <2>6 DEF Kinds
<1>3. Memoized(c) => "queued" \in PlacesOf(Task(c).kind)
  BY <1>1 DEF PlacesOf
<1> QED
  BY <1>2, <1>3 DEF EntryOf, Outside

\* A call that comes to its node.
LEMMA EntersStep ==
  ASSUME IInv, NEW c \in Calls, call[c].pc \in {"idle", "before"}, Task(c).kind # "absent",
         NEW timer \in {"off", "running", "fired", "passed"},
         call' = [call EXCEPT ![c].pc = EntryOf(c), ![c].timer = timer],
         lock' = IF EntryOf(c) = "queued" THEN Append(lock, c) ELSE lock,
         UNCHANGED <<setup, values, cancels, evicted>>, UNCHANGED outside
  PROVE  IInv'
<1> DEFINE r == [call[c] EXCEPT !.pc = EntryOf(c), !.timer = timer]
<1>1. call \in [Calls -> CallType] /\ call[c] \in CallType
  BY DEF IInv, CoreType
<1>2. EntryOf(c) \in Places
  BY EntryPlaced DEF PlacesOf, Places, EntryOf, NodeOf
<1>3. r \in CallType
  BY <1>1, <1>2 DEF CallType
<1>4. r.pc = EntryOf(c) /\ r.round = call[c].round /\ r.result = call[c].result /\ r.outcome = call[c].outcome
  BY <1>1 DEF CallType
<1>5. call' = [call EXCEPT ![c] = r]
  BY <1>1
<1> HIDE DEF r
<1>6. call' \in [Calls -> CallType] /\ call'[c] = r /\ \A d \in Calls \ {c} : call'[d] = call[d]
  BY <1>1, <1>3, <1>5
<1>7. \A d \in Calls \ {c} : Steady(d)
  BY <1>6 DEF Steady, Ended
<1>8. /\ SharedInv' /\ lock' \in Seq(Calls) /\ IsInjective(lock')
  <2>1. ~ Inside(c)
    BY DEF Inside, Outside
  <2> QED
    BY <1>4, <1>6, <1>7, <2>1, EntersShared DEF IInv
<1>9. CoreType'
  BY <1>6, <1>8 DEF IInv, CoreType, Entries, Key, Task, outside
<1>10. Placed(c)' /\ HeldInv(c)'
  <2>1. Task(c)' = Task(c) /\ Child(c)' = Child(c) /\ Memoized(c)' = Memoized(c)
    BY DEF Task, Child, Memoized
  <2>2. /\ call'[c].pc = EntryOf(c) /\ call'[c].round = call[c].round /\ held'[c] = held[c]
        /\ call'[c].outcome = call[c].outcome /\ call[c].outcome # "returned"
    BY <1>4, <1>6 DEF outside, IInv, Placed, At
  <2>3. EntryOf(c) = "nested" => Child(c) # Nobody
    BY EntryPlaced DEF EntryOf
  <2>4. Placed(c)'
    BY <2>1, <2>2, <2>3, EntryPlaced DEF IInv, Placed, At, Outside
  <2>5. HeldInv(c)'
    BY <2>2 DEF IInv, HeldInv
  <2> QED
    BY <2>4, <2>5
<1>11. Core(c)
  BY <1>7, <1>8, <1>9, <1>10 DEF Core, outside
<1>12. Out(c)
  BY QuietProcesses, QuietOut DEF outside, Untouched
<1> QED
  BY <1>11, <1>12, Combined

\* A call that moves on: nothing but its place, its timer, its round or what
\* it still has to raise.
LEMMA MovesOn ==
  ASSUME IInv, NEW c \in Calls, NEW r \in CallType, call' = [call EXCEPT ![c] = r],
         setup' = setup, values' = values, evicted' = evicted, lock' = lock, held' = held,
         r.result = call[c].result, r.outcome = call[c].outcome, call[c].pc # "done",
         r.pc \in PlacesOf(Task(c).kind), r.pc \notin {"done", "queued"},
         r.pc = "nested" => Child(c) # Nobody,
         Task(c).kind = "process" => r.round = 1,
         r.pc \notin {"requesting", "calling"} => call[c].pc \notin {"requesting", "calling"},
         Memoized(c) => /\ r.pc \notin Outside <=> Inside(c)
                        /\ r.pc \notin Outside => HoldsLock(c) /\ ~ Cached(Key(c))
  PROVE  Core(c)
<1>1. /\ call' \in [Calls -> CallType] /\ call'[c] = r
      /\ \A d \in Calls \ {c} : call'[d] = call[d]
  BY DEF IInv, CoreType
<1>2. \A d \in Calls \ {c} : Steady(d)
  BY <1>1 DEF Steady, Ended
<1>3. Placed(c)' /\ HeldInv(c)'
  <2>1. Task(c)' = Task(c) /\ Child(c)' = Child(c)
    BY DEF Task, Child
  <2>2. call[c].outcome # "returned"
    BY DEF IInv, Placed, At
  <2>3. Placed(c)'
    BY <1>1, <2>1, <2>2 DEF Placed, At
  <2>4. HeldInv(c)'
    BY <1>1 DEF IInv, HeldInv
  <2> QED
    BY <2>3, <2>4
<1>4. Memoized(c) => /\ Inside(c)' <=> Inside(c)
                     /\ Computing(c)' => HoldsLock(c) /\ ~ Cached(Key(c))
  BY <1>1 DEF Inside, Computing
<1>5. held' \in [Calls -> SUBSET Resources]
  BY DEF IInv, CoreType
<1> QED
  BY <1>1, <1>2, <1>3, <1>4, <1>5, MovesCore

\* A call that leaves behind nothing of its own.
LEMMA QuietLeaves ==
  ASSUME IInv, NEW c \in Calls, NEW how \in {"returned", "raised", "cancelled"},
         Leaves(c, how), UNCHANGED <<setup, values, alive, docker, evicted>>,
         call[c].pc \notin {"communicating", "reaping", "asking", "closing", "done"},
         call[c].pc \notin {"preparing", "containing"}
  PROVE  IInv'
<1>1. Core(c)
  BY LeavesCore
<1>2. Out(c)
  BY QuietProcesses, QuietOut DEF Untouched
<1> QED
  BY <1>1, <1>2, Combined

LEMMA QuietEnds ==
  ASSUME IInv, NEW c \in Calls, NodeEnds(c), UNCHANGED <<setup, alive, docker>>,
         call[c].pc \notin {"communicating", "reaping", "asking", "closing"},
         call[c].pc \notin {"preparing", "containing"},
         call[c].pc \notin Outside \union {"queued"}
  PROVE  IInv'
<1>1. Core(c)
  BY EndsCore
<1>2. Out(c)
  BY QuietProcesses, QuietOut DEF Outside, Untouched
<1> QED
  BY <1>1, <1>2, Combined

\* A call that goes on and has no process, or none that could be in its way.
LEMMA QuietMove ==
  ASSUME IInv, NEW c \in Calls, Core(c), UNCHANGED <<setup, alive, docker>>,
         call[c].pc \notin {"communicating", "reaping", "asking", "closing", "done"},
         call[c].pc \notin {"preparing", "containing"}
  PROVE  IInv'
<1>1. Out(c)
  BY QuietProcesses, QuietOut DEF Untouched
<1> QED
  BY <1>1, Combined

LEMMA BeginStep ==
  ASSUME IInv, NEW c \in Calls, Begin(c)
  PROVE  IInv'
<1> DEFINE timer == IF Timed(c) THEN "running" ELSE "off"
<1>1. CASE Task(c).extended
  <2> DEFINE r == [call[c] EXCEPT !.pc = "before", !.timer = timer]
  <2>1. call \in [Calls -> CallType] /\ call[c] \in CallType
    BY DEF IInv, CoreType
  <2>2. r \in CallType
    <3>1. timer \in {"off", "running", "fired", "passed"} /\ "before" \in Places
      BY DEF Places
    <3> HIDE DEF timer
    <3> QED
      BY <2>1, <3>1 DEF CallType
  <2>3. r.pc = "before" /\ r.round = call[c].round /\ r.result = call[c].result /\ r.outcome = call[c].outcome
    BY <2>1 DEF CallType
  <2>4. call' = [call EXCEPT ![c] = r] /\ lock' = lock
    BY <1>1, <2>1 DEF Begin
  <2> HIDE DEF r
  <2>5. call[c].pc = "idle" /\ "before" \in PlacesOf(Task(c).kind)
    BY EntryPlaced DEF Begin, At
  <2>6. ~ Inside(c)
    BY <2>5 DEF Inside, Outside
  <2>7. Core(c)
    BY <2>2, <2>3, <2>4, <2>5, <2>6, MovesOn DEF Begin, outside, IInv, Placed, Outside
  <2> QED
    BY <2>5, <2>7, QuietMove DEF Begin, outside
<1>2. CASE ~ Task(c).extended
  <2>1. /\ call' = [call EXCEPT ![c].pc = EntryOf(c), ![c].timer = timer]
        /\ lock' = IF EntryOf(c) = "queued" THEN Append(lock, c) ELSE lock
    BY <1>2 DEF Begin
  <2>2. timer \in {"off", "running", "fired", "passed"}
    OBVIOUS
  <2> HIDE DEF timer
  <2> QED
    BY <2>1, <2>2, EntersStep DEF Begin, At
<1> QED
  BY <1>1, <1>2

LEMMA BeforeTasksStep ==
  ASSUME IInv, NEW c \in Calls, BeforeTasks(c)
  PROVE  IInv'
<1>1. CASE Leaves(c, "raised")
  BY <1>1, QuietLeaves DEF BeforeTasks, At
<1>2. CASE /\ call' = [call EXCEPT ![c].pc = EntryOf(c)]
           /\ lock' = IF EntryOf(c) = "queued" THEN Append(lock, c) ELSE lock
           /\ UNCHANGED held
  <2>1. call \in [Calls -> CallType] /\ call[c] \in CallType
    BY DEF IInv, CoreType
  <2>2. /\ call' = [call EXCEPT ![c].pc = EntryOf(c), ![c].timer = call[c].timer]
        /\ call[c].timer \in {"off", "running", "fired", "passed"}
    BY <1>2, <2>1 DEF CallType
  <2>3. Task(c).kind # "absent"
    BY DEF BeforeTasks, At, IInv, Placed, PlacesOf
  <2> QED
    BY <1>2, <2>2, <2>3, EntersStep DEF BeforeTasks, At, outside
<1> QED
  BY <1>1, <1>2 DEF BeforeTasks

LEMMA AfterTasksStep ==
  ASSUME IInv, NEW c \in Calls, AfterTasks(c)
  PROVE  IInv'
<1> QED
  BY QuietLeaves DEF AfterTasks, At

\* A hit takes the result of the cache, which the invariant knows.
LEMMA HitStep ==
  ASSUME IInv, NEW c \in Calls, Hit(c)
  PROVE  IInv'
<1> DEFINE by == CachedBy(Key(c))
<1>1. PICK i \in DOMAIN values : values[i].key = Key(c) /\ values[i].by = by
  BY DEF Hit, Cached, CachedBy
<1>2. by \in Calls
  <2>1. values \in Seq(Entries)
    BY DEF IInv, CoreType
  <2>2. values[i] \in Entries
    BY <1>1, <2>1, ElementOfSeq, LenProperties
  <2> QED
    BY <1>1, <2>2 DEF Entries
<1>3. call' = Returning(c, by)
  BY DEF Hit
<1> HIDE DEF by
<1>4. /\ call' \in [Calls -> CallType]
      /\ \A d \in Calls \ {c} : call'[d] = call[d]
      /\ call'[c].pc \in {"after", "done"} /\ (call'[c].pc = "done" => call'[c].outcome # "none")
      /\ call'[c].round = call[c].round /\ call'[c].result = by /\ call'[c].hit = call[c].hit
      /\ call'[c].pc = "after" => call'[c].outcome = call[c].outcome
  BY <1>2, <1>3, ReturningFacts DEF IInv
<1>5. \A d \in Calls \ {c} : Steady(d)
  BY <1>4 DEF Steady, Ended
<1>6. ResultInv(c)'
  BY <1>1, <1>4 DEF ResultInv, Hit, Key, Task
<1>7. SharedInv' /\ lock' \in Seq(Calls) /\ IsInjective(lock')
  BY <1>4, <1>5, <1>6, LeavesShared DEF IInv, Outside, Hit
<1>8. CoreType'
  BY <1>4, <1>7 DEF IInv, CoreType, Entries, Key, Task, Hit, outside
<1>9. Placed(c)' /\ HeldInv(c)'
  <2>1. Task(c)' = Task(c) /\ call[c].pc = "queued" /\ held'[c] = held[c]
    BY DEF Task, Hit, At, outside
  <2>2. /\ "after" \in PlacesOf(Task(c).kind) /\ "done" \in PlacesOf(Task(c).kind)
        /\ call[c].outcome # "returned"
    BY <2>1 DEF IInv, Placed, PlacesOf, At
  <2>3. Placed(c)'
    BY <1>4, <2>1, <2>2 DEF IInv, Placed, At, Ended
  <2> QED
    BY <2>1, <2>3 DEF IInv, HeldInv
<1>10. Core(c)
  BY <1>5, <1>7, <1>8, <1>9 DEF Core, Hit, outside
<1> QED
  BY <1>10, QuietMove DEF Hit, At, outside

LEMMA ComputeStep ==
  ASSUME IInv, NEW c \in Calls, Compute(c)
  PROVE  IInv'
<1> DEFINE r == [call[c] EXCEPT !.pc = NodeOf(c)]
<1>1. call \in [Calls -> CallType] /\ call[c] \in CallType /\ call[c].pc = "queued"
  BY DEF IInv, CoreType, Compute, At
<1>2. /\ NodeOf(c) \in PlacesOf(Task(c).kind) \ (Outside \union {"queued", "calling", "requesting"})
      /\ NodeOf(c) = "nested" => Child(c) # Nobody
  <2>1. Task(c).kind # "absent"
    BY <1>1 DEF IInv, Placed, PlacesOf
  <2> QED
    BY <2>1, EntryPlaced
<1>3. r \in CallType /\ r.pc = NodeOf(c) /\ r.round = call[c].round /\ r.result = call[c].result /\ r.outcome = call[c].outcome
  <2>1. NodeOf(c) \in Places
    BY DEF NodeOf, Places
  <2> QED
    BY <1>1, <2>1 DEF CallType
<1>4. call' = [call EXCEPT ![c] = r]
  BY DEF Compute
<1> HIDE DEF r
<1>5. Inside(c)
  BY <1>1 DEF Inside, Outside
<1>6. Core(c)
  BY <1>1, <1>2, <1>3, <1>4, <1>5, MovesOn DEF Compute, outside, IInv, Placed, Outside
<1> QED
  BY <1>1, <1>6, QuietMove DEF Compute, outside

LEMMA FunctionEndsStep ==
  ASSUME IInv, NEW c \in Calls, FunctionEnds(c)
  PROVE  IInv'
<1> QED
  BY QuietEnds DEF FunctionEnds, At, Outside

LEMMA NestedEndsStep ==
  ASSUME IInv, NEW c \in Calls, NestedEnds(c)
  PROVE  IInv'
<1>1. Child(c) \in Calls
  BY SetupsAssumption DEF NestedEnds, IInv, Placed, At, Child, Task
<1>2. CASE call[Child(c)].outcome = "returned"
  <2>1. NodeEnds(c)
    BY <1>2 DEF NestedEnds, NodeEnds
  <2> QED
    BY <2>1, QuietEnds DEF NestedEnds, At, Outside
<1>3. CASE call[Child(c)].outcome # "returned"
  <2>1. Leaves(c, call[Child(c)].outcome) /\ UNCHANGED <<values, evicted>>
    BY <1>3 DEF NestedEnds
  <2>2. call[Child(c)].outcome \in {"returned", "raised", "cancelled"}
    BY <1>1 DEF NestedEnds, Ended, IInv, CoreType, CallType
  <2> QED
    BY <2>1, <2>2, QuietLeaves DEF NestedEnds, At
<1> QED
  BY <1>2, <1>3

-----------------------------------------------------------------------------
(* Processes *)

\* The processes of a call whose program runs, or whose server is asked.
LEMMA SpawnStep ==
  ASSUME IInv, NEW c \in Calls, Spawn(c)
  PROVE  IInv'
<1>1. /\ call[c].pc = "spawning" /\ call \in [Calls -> CallType] /\ call[c] \in CallType
      /\ alive \subseteq Calls \X (1 .. 2) \X {"child", "grandchild"}
  BY DEF IInv, CoreType, OuterType, Spawn, At
<1>2. Task(c).kind \in {"process", "mcp"} /\ (Task(c).kind = "process" => call[c].round = 1)
  BY <1>1 DEF IInv, Placed, PlacesOf
<1>3. /\ alive' \subseteq Calls \X (1 .. 2) \X {"child", "grandchild"}
      /\ \A p \in alive' : p[1] # c => p \in alive
      /\ \A p \in alive' : p[1] = c /\ p \notin alive => p[2] = call[c].round /\ p[3] = "child"
  <2>1. alive' = alive \union {<<c, call[c].round, "child">>} /\ call[c].round \in 1 .. 2
    BY <1>1 DEF Spawn, Proc, CallType
  <2> QED
    BY <1>1, <2>1
<1>4. \A p \in alive : p[1] = c => Task(c).kind = "mcp" /\ p[3] # "child"
  BY <1>1 DEF IInv, ProcInv, MayLive, At
<1>5. CASE Task(c).kind = "mcp"
  <2> DEFINE r == [call[c] EXCEPT !.pc = "asking"]
  <2>1. r \in CallType /\ r.pc = "asking" /\ r.round = call[c].round /\ r.result = call[c].result /\ r.outcome = call[c].outcome
    BY <1>1 DEF CallType, Places
  <2>2. call' = [call EXCEPT ![c] = r] /\ lock' = lock /\ held' = held
    BY <1>5 DEF Spawn
  <2> HIDE DEF r
  <2>3. call'[c] = r
    BY <1>1, <2>2
  <2>4. "asking" \in PlacesOf(Task(c).kind)
    BY <1>5 DEF PlacesOf
  <2>5. Core(c)
    <3>1. ~ Memoized(c)
      BY <1>5, SetupsAssumption DEF IInv, Memoized, Task
    <3> QED
      BY <1>1, <1>5, <2>1, <2>2, <2>4, <3>1, MovesOn DEF Spawn
  <2>6. ProcInv(c)'
    BY <1>3, <1>4, <1>5, <2>1, <2>3 DEF ProcInv, MayLive, Task, Spawn
  <2>7. Out(c)
    BY <1>1, <1>3, <2>6, ProcessOut DEF Spawn, Untouched
  <2> QED
    BY <2>5, <2>7, Combined DEF Spawn
<1>6. CASE Task(c).kind = "process" /\ Task(c).timeout = "named"
  <2>1. Leaves(c, "raised")
    BY <1>6 DEF Spawn
  <2>2. /\ Core(c) /\ call'[c].pc = "done" /\ call'[c].round = call[c].round
    BY <2>1, LeavesCore DEF Spawn
  <2>3. ProcInv(c)'
    <3> SUFFICES ASSUME NEW p \in alive', p[1] = c PROVE MayLive(c, p)'
      BY DEF ProcInv
    <3>1. p[2] = call[c].round
      BY <1>3, <1>4, <1>6
    <3>2. Task(c)' = Task(c)
      BY DEF Spawn, Task
    <3>3. Survives(c, p[3])'
      BY <1>6, <3>2 DEF Survives
    <3> QED
      BY <1>6, <2>2, <3>1, <3>2, <3>3 DEF MayLive, At
  <2>4. Out(c)
    BY <1>1, <1>3, <2>3, ProcessOut DEF Spawn, Untouched
  <2> QED
    BY <2>2, <2>4, Combined DEF Spawn
<1>7. CASE Task(c).kind = "process" /\ Task(c).timeout # "named"
  <2> DEFINE r == [call[c] EXCEPT !.pc = "communicating"]
  <2>1. r \in CallType /\ r.pc = "communicating" /\ r.round = call[c].round /\ r.result = call[c].result /\ r.outcome = call[c].outcome
    BY <1>1 DEF CallType, Places
  <2>2. call' = [call EXCEPT ![c] = r] /\ lock' = lock /\ held' = held
    BY <1>7 DEF Spawn
  <2> HIDE DEF r
  <2>3. call'[c] = r
    BY <1>1, <2>2
  <2>4. "communicating" \in PlacesOf(Task(c).kind)
    BY <1>7 DEF PlacesOf
  <2>5. Core(c)
    <3>1. Memoized(c) => Inside(c) /\ HoldsLock(c) /\ ~ Cached(Key(c))
      BY <1>1 DEF IInv, SharedInv, LockInv, Inside, Computing, Outside
    <3> QED
      BY <1>1, <1>2, <2>1, <2>2, <2>4, <3>1, MovesOn DEF Spawn, Outside
  <2>6. ProcInv(c)'
    BY <1>3, <1>4, <1>7, <2>1, <2>3 DEF ProcInv, MayLive, Task, Spawn, At
  <2>7. Out(c)
    BY <1>1, <1>3, <2>6, ProcessOut DEF Spawn, Untouched
  <2> QED
    BY <2>5, <2>7, Combined DEF Spawn
<1> QED
  BY <1>2, <1>5, <1>6, <1>7

LEMMA SpawnRaisesStep ==
  ASSUME IInv, NEW c \in Calls, SpawnRaises(c)
  PROVE  IInv'
<1> QED
  BY QuietLeaves DEF SpawnRaises, NodeRaises, At

\* A step in which no call moves.
LEMMA SteadyCore ==
  ASSUME IInv, NEW c \in Calls, call' \in [Calls -> CallType], \A d \in Calls : Steady(d),
         UNCHANGED <<setup, lock, values, held, evicted>>
  PROVE  Core(c)
<1>1. Task(c)' = Task(c) /\ Child(c)' = Child(c) /\ Memoized(c)' = Memoized(c)
  BY DEF Task, Child, Memoized
<1>2. Placed(c)' /\ HeldInv(c)'
  BY <1>1 DEF IInv, Placed, HeldInv, At, Steady
<1>3. Memoized(c) => /\ Inside(c)' <=> Inside(c)
                     /\ Computing(c)' => HoldsLock(c) /\ ~ Cached(Key(c))
  BY DEF Inside, Computing, Steady, IInv, SharedInv, LockInv
<1>4. call'[c].result = call[c].result /\ held' \in [Calls -> SUBSET Resources]
  BY DEF Steady, IInv, CoreType
<1> QED
  BY <1>2, <1>3, <1>4, MovesCore

LEMMA SteadyProcesses ==
  ASSUME IInv, NEW c \in Calls, Steady(c), setup' = setup, alive' = alive
  PROVE  ProcInv(c)'
<1> QED
  BY DEF IInv, ProcInv, MayLive, Survives, Steady, At, Task

\* Steps of the programs.
LEMMA ProgramsStep ==
  ASSUME IInv, NEW c \in Calls,
         UNCHANGED <<setup, call, lock, values, docker, held, cancels, evicted>>,
         alive' \subseteq Calls \X (1 .. 2) \X {"child", "grandchild"},
         \A p \in alive' : p[1] # c => p \in alive,
         \A p \in alive' : p[1] = c => MayLive(c, p)
  PROVE  IInv'
<1>1. \A d \in Calls : Steady(d)
  BY DEF Steady, Ended
<1>2. Core(c)
  BY <1>1, SteadyCore DEF IInv, CoreType
<1>3. ProcInv(c)'
  BY DEF ProcInv, MayLive, Survives, At, Task
<1>4. Out(c)
  BY <1>3, ProcessOut DEF Untouched
<1> QED
  BY <1>2, <1>4, Combined

LEMMA ForksStep ==
  ASSUME IInv, NEW c \in Calls, Forks(c)
  PROVE  IInv'
<1>1. /\ alive \subseteq Calls \X (1 .. 2) \X {"child", "grandchild"}
      /\ call[c].round \in 1 .. 2
      /\ alive' = alive \union {<<c, call[c].round, "grandchild">>}
      /\ <<c, call[c].round, "child">> \in alive
  BY DEF IInv, OuterType, CoreType, CallType, Forks, Lives, Proc
<1>2. MayLive(c, <<c, call[c].round, "child">>)
  BY <1>1 DEF IInv, ProcInv
<1>3. MayLive(c, <<c, call[c].round, "grandchild">>)
  BY <1>2 DEF MayLive, At, Survives
<1>4. \A p \in alive' : p[1] = c => MayLive(c, p)
  BY <1>1, <1>3 DEF IInv, ProcInv
<1>5. /\ alive' \subseteq Calls \X (1 .. 2) \X {"child", "grandchild"}
      /\ \A p \in alive' : p[1] # c => p \in alive
  BY <1>1
<1> QED
  BY <1>4, <1>5, ProgramsStep DEF Forks

LEMMA ExitsStep ==
  ASSUME IInv, NEW p \in alive, Exits(p)
  PROVE  IInv'
<1>1. alive \subseteq Calls \X (1 .. 2) \X {"child", "grandchild"} /\ alive' \subseteq alive
  BY DEF IInv, OuterType, Exits
<1>2. PICK c \in Calls : p[1] = c
  BY <1>1
<1>3. \A q \in alive' : q[1] = c => MayLive(c, q)
  BY <1>1 DEF IInv, ProcInv
<1> QED
  BY <1>1, <1>3, ProgramsStep DEF Exits

\* The program has ended, and so have those that share its pipes.
LEMMA CommunicatedStep ==
  ASSUME IInv, NEW c \in Calls, Communicated(c)
  PROVE  IInv'
<1>1. call[c].pc = "communicating" /\ Task(c).kind = "process"
  BY DEF Communicated, At, IInv, Placed, PlacesOf
<1>2. Core(c)
  BY <1>1, EndsCore DEF Communicated, Outside
<1>3. ~ \E p \in alive : p[1] = c
  <2> SUFFICES ASSUME NEW p \in alive, p[1] = c PROVE FALSE
    OBVIOUS
  <2>1. p \in Calls \X (1 .. 2) \X {"child", "grandchild"} /\ p[2] = call[c].round
    BY <1>1 DEF IInv, OuterType, ProcInv, MayLive
  <2>2. p \in Family(c)
    BY <2>1 DEF Family, Proc
  <2> QED
    BY <2>2 DEF Communicated
<1>4. ProcInv(c)'
  BY <1>3 DEF ProcInv, Communicated
<1>5. Out(c)
  BY <1>1, <1>4, QuietOut DEF Communicated, Untouched
<1> QED
  BY <1>2, <1>5, Combined DEF Communicated

\* The kill reaches the child alone.
LEMMA RunTimesOutStep ==
  ASSUME IInv, NEW c \in Calls, RunTimesOut(c)
  PROVE  IInv'
<1> DEFINE r == [call[c] EXCEPT !.pc = "reaping"]
<1>1. /\ call \in [Calls -> CallType] /\ call[c] \in CallType
      /\ call[c].pc = "communicating" /\ Task(c).kind = "process"
  BY DEF RunTimesOut, At, IInv, CoreType, Placed, PlacesOf
<1>2. r \in CallType /\ r.pc = "reaping" /\ r.round = call[c].round /\ r.result = call[c].result /\ r.outcome = call[c].outcome
  BY <1>1 DEF CallType, Places
<1>3. call' = [call EXCEPT ![c] = r]
  BY DEF RunTimesOut
<1> HIDE DEF r
<1>4. call'[c] = r
  BY <1>1, <1>3
<1>5. Core(c)
  <2>1. Memoized(c) => Inside(c) /\ HoldsLock(c) /\ ~ Cached(Key(c))
    BY <1>1 DEF IInv, SharedInv, LockInv, Inside, Computing, Outside
  <2>2. call[c].round = 1 /\ "reaping" \in PlacesOf(Task(c).kind)
    BY <1>1 DEF IInv, Placed, PlacesOf
  <2> QED
    BY <1>1, <1>2, <1>3, <2>1, <2>2, MovesOn DEF RunTimesOut, Outside
<1>6. ProcInv(c)'
  <2> SUFFICES ASSUME NEW p \in alive', p[1] = c PROVE MayLive(c, p)'
    BY DEF ProcInv
  <2>1. p \in alive /\ p \notin Killed(c)
    BY DEF RunTimesOut
  <2>2. p \in Calls \X (1 .. 2) \X {"child", "grandchild"} /\ p[2] = call[c].round
    BY <1>1, <2>1 DEF IInv, OuterType, ProcInv, MayLive
  <2>3. p[3] = "grandchild"
    BY <2>1, <2>2 DEF Killed, Proc
  <2> QED
    BY <1>1, <1>2, <1>4, <2>2, <2>3 DEF MayLive, At, Task, RunTimesOut
<1>7. Out(c)
  <2>1. alive' \subseteq alive /\ alive \subseteq Calls \X (1 .. 2) \X {"child", "grandchild"}
    BY DEF RunTimesOut, IInv, OuterType
  <2> QED
    BY <1>1, <1>6, <2>1, ProcessOut DEF RunTimesOut, Untouched
<1> QED
  BY <1>5, <1>7, Combined DEF RunTimesOut

LEMMA ReapStep ==
  ASSUME IInv, NEW c \in Calls, Reap(c)
  PROVE  IInv'
<1>1. call[c].pc = "reaping" /\ Task(c).kind = "process"
  BY DEF Reap, At, IInv, Placed, PlacesOf
<1>2. /\ Core(c) /\ call'[c].pc = "done" /\ call'[c].round = call[c].round
      /\ call'[c].outcome # "returned"
  BY <1>1, LeavesCore DEF Reap, NodeRaises
<1>3. ProcInv(c)'
  <2> SUFFICES ASSUME NEW p \in alive, p[1] = c PROVE MayLive(c, p)'
    BY DEF ProcInv, Reap
  <2>1. p[2] = call[c].round /\ p[3] = "grandchild"
    BY <1>1 DEF IInv, ProcInv, MayLive, At
  <2> QED
    BY <1>1, <1>2, <2>1 DEF MayLive, At, Task, Reap, Survives
<1>4. Out(c)
  BY <1>1, <1>3, QuietOut DEF Reap, Untouched
<1> QED
  BY <1>2, <1>4, Combined DEF Reap

\* The call closes its server.
LEMMA ClosingStep ==
  ASSUME IInv, NEW c \in Calls, call[c].pc = "asking",
         NEW pending \in {"ok", "raised", "cancelled"}, Closing(c, pending), UNCHANGED alive
  PROVE  IInv'
<1> DEFINE r == [call[c] EXCEPT !.pc = "closing", !.pending = pending]
<1>1. call \in [Calls -> CallType] /\ call[c] \in CallType /\ Task(c).kind = "mcp"
  BY DEF IInv, CoreType, Placed, PlacesOf
<1>2. r \in CallType /\ r.pc = "closing" /\ r.round = call[c].round /\ r.result = call[c].result /\ r.outcome = call[c].outcome
  BY <1>1 DEF CallType, Places
<1>3. call' = [call EXCEPT ![c] = r]
  BY <1>1 DEF Closing
<1> HIDE DEF r
<1>4. call'[c] = r
  BY <1>1, <1>3
<1>5. Core(c)
  <2>1. ~ Memoized(c)
    BY <1>1, SetupsAssumption DEF IInv, Memoized, Task
  <2>2. "closing" \in PlacesOf(Task(c).kind)
    BY <1>1 DEF PlacesOf
  <2> QED
    BY <1>1, <1>2, <1>3, <2>1, <2>2, MovesOn DEF Closing
<1>6. ProcInv(c)'
  <2> SUFFICES ASSUME NEW p \in alive, p[1] = c PROVE MayLive(c, p)'
    BY DEF ProcInv
  <2>1. MayLive(c, p)
    BY DEF IInv, ProcInv
  <2> QED
    BY <1>1, <1>2, <1>4, <2>1 DEF MayLive, Task, Closing
<1>7. Out(c)
  BY <1>6, QuietOut DEF Closing, Untouched
<1> QED
  BY <1>5, <1>7, Combined DEF Closing

LEMMA ServerAnswersStep ==
  ASSUME IInv, NEW c \in Calls, ServerAnswers(c)
  PROVE  IInv'
<1> QED
  BY ClosingStep DEF ServerAnswers, At

LEMMA ServerGoneStep ==
  ASSUME IInv, NEW c \in Calls, ServerGone(c)
  PROVE  IInv'
<1> QED
  BY ClosingStep DEF ServerGone, At

\* A server that is closed is gone; what it has started may stay.
LEMMA TerminatedStep ==
  ASSUME IInv, NEW c \in Calls, Terminated(c)
  PROVE  IInv'
<1>1. /\ call \in [Calls -> CallType] /\ call[c] \in CallType
      /\ call[c].pc \in {"closing", "killing"} /\ Task(c).kind = "mcp"
  BY DEF Terminated, IInv, CoreType, Placed, PlacesOf
<1>2. ~ \E p \in alive : p[1] = c /\ p[3] = "child"
  <2> SUFFICES ASSUME NEW p \in alive, p[1] = c, p[3] = "child" PROVE FALSE
    OBVIOUS
  <2>1. p \in Calls \X (1 .. 2) \X {"child", "grandchild"} /\ p[2] = call[c].round
    BY <1>1 DEF IInv, OuterType, ProcInv, MayLive
  <2>2. p = Proc(c, "child")
    BY <2>1 DEF Proc
  <2> QED
    BY <2>2 DEF Terminated, Reaped, Lives
<1>3. ProcInv(c)'
  BY <1>1, <1>2 DEF ProcInv, MayLive, Task, Terminated
<1>4. Out(c)
  BY <1>1, <1>3, QuietOut DEF Terminated, Untouched
<1>5. CASE call[c].pending # "ok"
  <2>1. Leaves(c, call[c].pending) /\ UNCHANGED <<values, evicted>>
    BY <1>5 DEF Terminated, ServerClosed
  <2>2. call[c].pending \in {"returned", "raised", "cancelled"}
    BY <1>1, <1>5 DEF CallType
  <2>3. Core(c)
    BY <2>1, <2>2, LeavesCore DEF Terminated
  <2> QED
    BY <1>4, <2>3, Combined DEF Terminated
<1>6. CASE call[c].pending = "ok" /\ call[c].round = 1
  <2> DEFINE r == [call[c] EXCEPT !.pc = "spawning", !.round = 2]
  <2>1. r \in CallType /\ r.pc = "spawning" /\ r.result = call[c].result /\ r.outcome = call[c].outcome
    <3>1. "spawning" \in Places /\ 2 \in 1 .. 2
      BY DEF Places
    <3> QED
      BY <1>1, <3>1 DEF CallType
  <2>2. call' = [call EXCEPT ![c] = r] /\ UNCHANGED <<lock, values, held, evicted>>
    BY <1>1, <1>6 DEF Terminated, ServerClosed
  <2> HIDE DEF r
  <2>3. ~ Memoized(c)
    BY <1>1, SetupsAssumption DEF IInv, Memoized, Task
  <2>4. "spawning" \in PlacesOf(Task(c).kind)
    BY <1>1 DEF PlacesOf
  <2>5. Core(c)
    BY <1>1, <2>1, <2>2, <2>3, <2>4, MovesOn DEF Terminated
  <2> QED
    BY <1>4, <2>5, Combined DEF Terminated
<1>7. CASE call[c].pending = "ok" /\ call[c].round # 1
  <2>1. NodeReturns(c)
    BY <1>7 DEF Terminated, ServerClosed
  <2>2. Core(c)
    BY <1>1, <2>1, ReturnsCore DEF Terminated, Outside
  <2> QED
    BY <1>4, <2>2, Combined DEF Terminated
<1> QED
  BY <1>5, <1>6, <1>7

LEMMA TerminateStep ==
  ASSUME IInv, NEW c \in Calls, Terminate(c)
  PROVE  IInv'
<1> DEFINE r == [call[c] EXCEPT !.pc = "killing"]
<1>1. /\ call \in [Calls -> CallType] /\ call[c] \in CallType
      /\ call[c].pc = "closing" /\ Task(c).kind = "mcp"
  BY DEF Terminate, At, IInv, CoreType, Placed, PlacesOf
<1>2. r \in CallType /\ r.pc = "killing" /\ r.round = call[c].round /\ r.result = call[c].result /\ r.outcome = call[c].outcome
  BY <1>1 DEF CallType, Places
<1>3. call' = [call EXCEPT ![c] = r]
  BY DEF Terminate
<1> HIDE DEF r
<1>4. Core(c)
  <2>1. ~ Memoized(c)
    BY <1>1, SetupsAssumption DEF IInv, Memoized, Task
  <2>2. "killing" \in PlacesOf(Task(c).kind)
    BY <1>1 DEF PlacesOf
  <2> QED
    BY <1>1, <1>2, <1>3, <2>1, <2>2, MovesOn DEF Terminate
<1>5. ProcInv(c)'
  <2> SUFFICES ASSUME NEW p \in alive', p[1] = c, p[3] = "child" PROVE FALSE
    BY <1>1 DEF ProcInv, MayLive, Task, Terminate
  <2>1. p \in alive /\ p # Proc(c, "child")
    BY DEF Terminate
  <2>2. p \in Calls \X (1 .. 2) \X {"child", "grandchild"} /\ p[2] = call[c].round
    BY <1>1, <2>1 DEF IInv, OuterType, ProcInv, MayLive
  <2> QED
    BY <2>1, <2>2 DEF Proc
<1>6. Out(c)
  <2>1. alive' \subseteq alive /\ alive \subseteq Calls \X (1 .. 2) \X {"child", "grandchild"}
    BY DEF Terminate, IInv, OuterType
  <2> QED
    BY <1>1, <1>5, <2>1, ProcessOut DEF Terminate, Untouched
<1> QED
  BY <1>4, <1>6, Combined DEF Terminate

LEMMA GivesUpStep ==
  ASSUME IInv, NEW c \in Calls, GivesUp(c)
  PROVE  IInv'
<1> QED
  BY QuietLeaves DEF GivesUp, NodeRaises, At

-----------------------------------------------------------------------------
(* Containers *)

\* The thread or the container of c goes on, and no call with it.
LEMMA ThreadStep ==
  ASSUME IInv, NEW c \in Calls, UNCHANGED <<setup, call, lock, values, alive, held, evicted>>,
         NEW r \in DockerType, docker' = [docker EXCEPT ![c] = r],
         r.container = "running" => r.thread = "waiting", Untouched(c) => r = NoDocker,
         r.thread \in {"preparing", "waiting"} => c \in Busy \/ Cardinality(Busy) < Threads
  PROVE  IInv'
<1>1. \A d \in Calls : Steady(d)
  BY DEF Steady, Ended
<1>2. Core(c)
  BY <1>1, SteadyCore DEF IInv, CoreType
<1>3. Out(c)
  BY <1>1, SteadyProcesses, DockerOut DEF Untouched
<1> QED
  BY <1>2, <1>3, Combined

\* The call goes on, or ends, as its thread does.
LEMMA ThreadEnds ==
  ASSUME IInv, NEW c \in Calls, UNCHANGED <<setup, alive>>, Core(c),
         call[c].pc \in {"preparing", "containing"},
         NEW r \in DockerType, docker' = [docker EXCEPT ![c] = r],
         r.container # "running", r.thread \notin {"preparing", "waiting"},
         Untouched(c)' => r = NoDocker
  PROVE  IInv'
<1>1. Out(c)
  BY QuietProcesses, DockerOut
<1> QED
  BY <1>1, Combined

\* A call whose thread has something to do has not returned, nor has one that
\* waits for its thread.
LEMMA Touched ==
  ASSUME IInv, NEW c \in Calls,
         docker[c].thread # "none" \/ call[c].pc \in {"preparing", "containing"}
  PROVE  ~ Untouched(c)
<1>1. NoDocker.thread = "none"
  BY DEF NoDocker
<1> QED
  BY <1>1 DEF IInv, DockerInv, Untouched, Placed, At

LEMMA SubmitStep ==
  ASSUME IInv, NEW c \in Calls, Submit(c)
  PROVE  IInv'
<1> DEFINE r == [container |-> "none", thread |-> "to_prepare", client |-> FALSE]
<1>1. r \in DockerType /\ r.container # "running" /\ r.thread \notin {"preparing", "waiting"}
  BY DEF DockerType
<1>2. docker' = [docker EXCEPT ![c] = r]
  BY DEF Submit, Docker
<1>3. ~ Untouched(c)
  BY Touched DEF Submit, At
<1> HIDE DEF r
<1> QED
  BY <1>1, <1>2, <1>3, ThreadStep DEF Submit

LEMMA ThreadStartsStep ==
  ASSUME IInv, NEW c \in Calls, ThreadStarts(c)
  PROVE  IInv'
<1> DEFINE r == [container |-> "none",
                 thread |-> IF docker[c].thread = "to_prepare" THEN "preparing" ELSE "waiting",
                 client |-> docker[c].client]
<1>1. r \in DockerType /\ r.container # "running"
  BY DEF DockerType, IInv, OuterType
<1>2. docker' = [docker EXCEPT ![c] = r] /\ Cardinality(Busy) < Threads
  BY DEF ThreadStarts, Docker
<1>3. ~ Untouched(c)
  BY Touched DEF ThreadStarts
<1> HIDE DEF r
<1> QED
  BY <1>1, <1>2, <1>3, ThreadStep DEF ThreadStarts

LEMMA PreparedStep ==
  ASSUME IInv, NEW c \in Calls, Prepared(c)
  PROVE  IInv'
<1>1. CASE At(c, "preparing")
  <2> DEFINE s == [call[c] EXCEPT !.pc = "containing"]
  <2> DEFINE r == [container |-> "none", thread |-> "to_wait", client |-> TRUE]
  <2>1. /\ call \in [Calls -> CallType] /\ call[c] \in CallType
        /\ call[c].pc = "preparing" /\ Task(c).kind = "container" /\ call[c].outcome # "returned"
    BY <1>1 DEF At, IInv, CoreType, Placed, PlacesOf
  <2>2. /\ s \in CallType /\ s.pc = "containing" /\ s.result = call[c].result
        /\ s.outcome = call[c].outcome
    BY <2>1 DEF CallType, Places
  <2>3. r \in DockerType /\ r.container # "running" /\ r.thread \notin {"preparing", "waiting"}
    BY DEF DockerType
  <2>4. call' = [call EXCEPT ![c] = s] /\ docker' = [docker EXCEPT ![c] = r]
    BY <1>1 DEF Prepared, Docker
  <2> HIDE DEF r, s
  <2>5. ~ Memoized(c) /\ "containing" \in PlacesOf(Task(c).kind)
    BY <2>1, SetupsAssumption DEF IInv, Memoized, Task, PlacesOf
  <2>6. Core(c)
    BY <2>1, <2>2, <2>4, <2>5, MovesOn DEF Prepared
  <2>7. ~ Untouched(c)'
    BY <2>1, <2>2, <2>4 DEF Untouched
  <2> QED
    BY <2>1, <2>3, <2>4, <2>6, <2>7, ThreadEnds DEF Prepared
<1>2. CASE ~ At(c, "preparing")
  <2> DEFINE r == [container |-> "none", thread |-> "none", client |-> TRUE]
  <2>1. r \in DockerType /\ r.container # "running" /\ r.thread \notin {"preparing", "waiting"}
    BY DEF DockerType
  <2>2. call' = call /\ docker' = [docker EXCEPT ![c] = r]
    BY <1>2 DEF Prepared, Docker
  <2>3. ~ Untouched(c)
    BY Touched DEF Prepared
  <2> HIDE DEF r
  <2> QED
    BY <2>1, <2>2, <2>3, ThreadStep DEF Prepared
<1> QED
  BY <1>1, <1>2

\* The thread raises, and so does the call that waits for it.
LEMMA ThreadRaisesStep ==
  ASSUME IInv, NEW c \in Calls, UNCHANGED <<setup, alive>>, ThreadRaises(c),
         docker[c].thread # "none",
         NEW r \in DockerType, docker' = [docker EXCEPT ![c] = r],
         r.container # "running", r.thread = "none"
  PROVE  IInv'
<1>1. CASE call[c].pc \in {"preparing", "containing"}
  <2>1. Core(c) /\ call'[c].pc = "done" /\ call'[c].outcome # "returned"
    BY <1>1, LeavesCore DEF ThreadRaises, NodeRaises
  <2>2. ~ Untouched(c)'
    BY <2>1 DEF Untouched
  <2> QED
    BY <1>1, <2>1, <2>2, ThreadEnds
<1>2. CASE call[c].pc \notin {"preparing", "containing"}
  BY <1>2, Touched, ThreadStep DEF ThreadRaises
<1> QED
  BY <1>1, <1>2

LEMMA PrepareRaisesStep ==
  ASSUME IInv, NEW c \in Calls, PrepareRaises(c)
  PROVE  IInv'
<1>1. PICK client \in BOOLEAN : Docker(c, "none", "none", client)
  BY DEF PrepareRaises
<1> DEFINE r == [container |-> "none", thread |-> "none", client |-> client]
<1>2. r \in DockerType /\ r.container # "running" /\ r.thread = "none"
  BY DEF DockerType
<1>3. docker' = [docker EXCEPT ![c] = r]
  BY <1>1 DEF Docker
<1> HIDE DEF r
<1> QED
  BY <1>2, <1>3, ThreadRaisesStep DEF PrepareRaises

LEMMA ContainerRunsStep ==
  ASSUME IInv, NEW c \in Calls, ContainerRuns(c)
  PROVE  IInv'
<1> DEFINE r == [container |-> "running", thread |-> "waiting", client |-> docker[c].client]
<1>1. r \in DockerType /\ r.thread = "waiting"
  BY DEF DockerType, IInv, OuterType
<1>2. docker' = [docker EXCEPT ![c] = r] /\ c \in Busy
  BY DEF ContainerRuns, Docker, Busy
<1>3. ~ Untouched(c)
  BY Touched DEF ContainerRuns
<1> HIDE DEF r
<1> QED
  BY <1>1, <1>2, <1>3, ThreadStep DEF ContainerRuns

LEMMA ContainerRaisesStep ==
  ASSUME IInv, NEW c \in Calls, ContainerRaises(c)
  PROVE  IInv'
<1>1. PICK container \in {"none", "created"} : Docker(c, container, "none", docker[c].client)
  BY DEF ContainerRaises
<1> DEFINE r == [container |-> container, thread |-> "none", client |-> docker[c].client]
<1>2. r \in DockerType /\ r.container # "running" /\ r.thread = "none"
  BY DEF DockerType, IInv, OuterType
<1>3. docker' = [docker EXCEPT ![c] = r]
  BY <1>1 DEF Docker
<1> HIDE DEF r
<1> QED
  BY <1>2, <1>3, ThreadRaisesStep DEF ContainerRaises

\* The container is removed and the client closed.
LEMMA ContainerEndsStep ==
  ASSUME IInv, NEW c \in Calls, ContainerEnds(c)
  PROVE  IInv'
<1> DEFINE r == NoDocker
<1>1. r \in DockerType /\ r.container # "running" /\ r.thread = "none"
  BY DEF DockerType, NoDocker
<1>2. docker' = [docker EXCEPT ![c] = r]
  BY DEF ContainerEnds, Docker, NoDocker
<1> HIDE DEF r
<1>3. CASE At(c, "containing")
  <2>1. Core(c)
    BY <1>3, EndsCore DEF ContainerEnds, At, Outside
  <2> QED
    BY <1>1, <1>2, <1>3, <2>1, ThreadEnds DEF ContainerEnds, At, r
<1>4. CASE ~ At(c, "containing")
  BY <1>1, <1>2, <1>4, ThreadStep DEF ContainerEnds, r
<1> QED
  BY <1>3, <1>4

LEMMA RemoveRaisesStep ==
  ASSUME IInv, NEW c \in Calls, RemoveRaises(c)
  PROVE  IInv'
<1> DEFINE r == [container |-> "left", thread |-> "none", client |-> docker[c].client]
<1>1. r \in DockerType /\ r.container # "running" /\ r.thread = "none"
  BY DEF DockerType, IInv, OuterType
<1>2. docker' = [docker EXCEPT ![c] = r]
  BY DEF RemoveRaises, Docker
<1> HIDE DEF r
<1> QED
  BY <1>1, <1>2, ThreadRaisesStep DEF RemoveRaises

-----------------------------------------------------------------------------
(* HTTP and gRPC *)

LEMMA ReadRaisesStep ==
  ASSUME IInv, NEW c \in Calls, ReadRaises(c)
  PROVE  IInv'
<1> QED
  BY QuietLeaves DEF ReadRaises, NodeRaises, At

LEMMA RequestRaisesStep ==
  ASSUME IInv, NEW c \in Calls, RequestRaises(c)
  PROVE  IInv'
<1> QED
  BY QuietLeaves DEF RequestRaises, NodeRaises

LEMMA GrpcEndsStep ==
  ASSUME IInv, NEW c \in Calls, GrpcEnds(c)
  PROVE  IInv'
<1> QED
  BY QuietEnds DEF GrpcEnds, At, Outside

LEMMA ReadDocumentStep ==
  ASSUME IInv, NEW c \in Calls, ReadDocument(c)
  PROVE  IInv'
<1> DEFINE r == [call[c] EXCEPT !.pc = "connecting"]
<1>1. call \in [Calls -> CallType] /\ call[c] \in CallType /\ call[c].pc = "reading"
  BY DEF ReadDocument, At, IInv, CoreType
<1>2. r \in CallType /\ r.pc = "connecting" /\ r.result = call[c].result /\ r.outcome = call[c].outcome
  BY <1>1 DEF CallType, Places
<1>3. call' = [call EXCEPT ![c] = r]
  BY DEF ReadDocument
<1> HIDE DEF r
<1>4. ~ Memoized(c) /\ Task(c).kind = "http" /\ "connecting" \in PlacesOf(Task(c).kind)
  BY SetupsAssumption DEF ReadDocument, IInv, Memoized, Task, PlacesOf
<1>5. Core(c)
  BY <1>1, <1>2, <1>3, <1>4, MovesOn DEF ReadDocument
<1> QED
  BY <1>1, <1>5, QuietMove DEF ReadDocument

\* A call that sets up what it needs, and may hold it there.
LEMMA SetsUpStep ==
  ASSUME IInv, NEW c \in Calls, UNCHANGED <<setup, lock, values, alive, docker, evicted>>,
         NEW p \in {"requesting", "calling"}, p \in PlacesOf(Task(c).kind), ~ Memoized(c),
         Task(c).kind # "process", call[c].pc \in {"reading", "connecting"},
         call' = [call EXCEPT ![c].pc = p],
         NEW h \in SUBSET Resources, held' = [held EXCEPT ![c] = h]
  PROVE  IInv'
<1> DEFINE r == [call[c] EXCEPT !.pc = p]
<1>1. call \in [Calls -> CallType] /\ call[c] \in CallType
  BY DEF IInv, CoreType
<1>2. r \in CallType /\ r.pc = p /\ r.result = call[c].result /\ r.outcome = call[c].outcome
  BY <1>1 DEF CallType, Places
<1>3. call' = [call EXCEPT ![c] = r]
  OBVIOUS
<1> HIDE DEF r
<1>4. call' \in [Calls -> CallType] /\ call'[c] = r /\ \A d \in Calls \ {c} : call'[d] = call[d]
  BY <1>1, <1>2, <1>3
<1>5. \A d \in Calls \ {c} : Steady(d)
  BY <1>4 DEF Steady, Ended
<1>6. Placed(c)' /\ HeldInv(c)'
  <2>1. Task(c)' = Task(c) /\ call[c].outcome # "returned"
    BY DEF Task, IInv, Placed, At
  <2> QED
    BY <1>2, <1>4, <2>1 DEF Placed, HeldInv, At
<1>7. held' \in [Calls -> SUBSET Resources] /\ \A d \in Calls \ {c} : held'[d] = held[d]
  BY DEF IInv, CoreType
<1>8. Core(c)
  BY <1>2, <1>4, <1>5, <1>6, <1>7, MovesCore
<1> QED
  BY <1>8, QuietMove

LEMMA ConnectStep ==
  ASSUME IInv, NEW c \in Calls, Connect(c)
  PROVE  IInv'
<1>1. Task(c).kind = "http" /\ call[c].pc = "connecting"
  BY DEF Connect, At, IInv, Placed, PlacesOf
<1>2. ~ Memoized(c) /\ "requesting" \in PlacesOf(Task(c).kind)
  BY <1>1, SetupsAssumption DEF IInv, Memoized, Task, PlacesOf
<1>3. {"client"} \in SUBSET Resources
  BY DEF Resources
<1> QED
  BY <1>1, <1>2, <1>3, SetsUpStep DEF Connect

LEMMA CompileStep ==
  ASSUME IInv, NEW c \in Calls, Compile(c)
  PROVE  IInv'
<1>1. Task(c).kind = "grpc" /\ call[c].pc = "reading"
  BY DEF Compile, At
<1>2. ~ Memoized(c) /\ "calling" \in PlacesOf(Task(c).kind)
  BY <1>1, SetupsAssumption DEF IInv, Memoized, Task, PlacesOf
<1>3. {"directory", "path", "channel"} \in SUBSET Resources
  BY DEF Resources
<1> QED
  BY <1>1, <1>2, <1>3, SetsUpStep DEF Compile

LEMMA AnswersStep ==
  ASSUME IInv, NEW c \in Calls, Answers(c)
  PROVE  IInv'
<1>1. /\ call \in [Calls -> CallType] /\ call[c] \in CallType
      /\ call[c].pc = "requesting" /\ Task(c).kind = "http"
  BY DEF Answers, At, IInv, CoreType, Placed, PlacesOf
<1>2. CASE Task(c).rounds > call[c].round
  <2> DEFINE r == [call[c] EXCEPT !.round = 2]
  <2>1. r \in CallType /\ r.pc = "requesting" /\ r.result = call[c].result /\ r.outcome = call[c].outcome
    BY <1>1 DEF CallType
  <2>2. call' = [call EXCEPT ![c] = r] /\ UNCHANGED <<lock, values, held, evicted>>
    BY <1>2 DEF Answers
  <2> HIDE DEF r
  <2>3. ~ Memoized(c) /\ "requesting" \in PlacesOf(Task(c).kind)
    BY <1>1, SetupsAssumption DEF IInv, Memoized, Task, PlacesOf
  <2>4. Core(c)
    BY <1>1, <2>1, <2>2, <2>3, MovesOn DEF Answers
  <2> QED
    BY <1>1, <2>4, QuietMove DEF Answers
<1>3. CASE ~ (Task(c).rounds > call[c].round)
  BY <1>1, <1>3, QuietEnds DEF Answers, NodeEnds, Outside
<1> QED
  BY <1>2, <1>3

-----------------------------------------------------------------------------
(* Cancellation *)

\* A cancellation on its way into a call changes timers first.
Timers(m) ==
  /\ m \in [Calls -> CallType]
  /\ \A d \in Calls : /\ m[d].pc = call[d].pc /\ m[d].round = call[d].round
                      /\ m[d].result = call[d].result /\ m[d].hit = call[d].hit
                      /\ m[d].outcome = call[d].outcome

LEMMA PassedTimers ==
  ASSUME IInv, NEW c \in Calls
  PROVE  /\ Timers(Passed(c))
         /\ \A t \in {"off", "fired"} : Timers([Passed(c) EXCEPT ![c].timer = t])
<1> DEFINE timer(d) == CASE call[d].timer = "running" -> "passed"
                         [] call[d].timer = "fired" /\ setup.python # "3.11" -> "off"
                         [] OTHER -> call[d].timer
<1> DEFINE r(d) == [call[d] EXCEPT !.timer = timer(d)]
<1>1. \A d \in Calls : call[d] \in CallType
  BY DEF IInv, CoreType
<1>2. \A d \in Calls : timer(d) \in {"off", "running", "fired", "passed"}
  BY <1>1 DEF CallType
<1>3. Passed(c) = [d \in Calls |-> IF d \notin Nest(c) THEN call[d] ELSE r(d)]
  BY <1>1 DEF Passed, CallType
<1> HIDE DEF timer
<1>4. \A d \in Calls : /\ r(d) \in CallType /\ r(d).pc = call[d].pc /\ r(d).round = call[d].round
                       /\ r(d).result = call[d].result /\ r(d).hit = call[d].hit
                       /\ r(d).outcome = call[d].outcome
  BY <1>1, <1>2 DEF CallType
<1> HIDE DEF r
<1>5. Timers(Passed(c))
  BY <1>1, <1>3, <1>4 DEF Timers
<1>6. ASSUME NEW t \in {"off", "fired"}
      PROVE  Timers([Passed(c) EXCEPT ![c].timer = t])
  <2> DEFINE q == [Passed(c)[c] EXCEPT !.timer = t]
  <2> DEFINE m == [Passed(c) EXCEPT ![c] = q]
  <2>1. Passed(c) \in [Calls -> CallType]
    BY <1>5 DEF Timers
  <2>2. /\ q \in CallType /\ q.pc = Passed(c)[c].pc /\ q.round = Passed(c)[c].round
        /\ q.result = Passed(c)[c].result /\ q.hit = Passed(c)[c].hit
        /\ q.outcome = Passed(c)[c].outcome
    BY <2>1 DEF CallType
  <2>3. [Passed(c) EXCEPT ![c].timer = t] = m
    OBVIOUS
  <2> HIDE DEF q
  <2>4. m \in [Calls -> CallType] /\ m[c] = q /\ \A d \in Calls \ {c} : m[d] = Passed(c)[d]
    BY <2>1, <2>2
  <2> HIDE DEF m
  <2>5. Timers(m)
    BY <1>5, <2>2, <2>4 DEF Timers
  <2> QED
    BY <2>3, <2>5
<1> QED
  BY <1>5, <1>6

\* Where the cancellation arrives.
LEMMA InnermostFacts ==
  ASSUME IInv, NEW c \in Calls, Working(c)
  PROVE  Innermost(c) \in Calls /\ call[Innermost(c)].pc # "done"
<1>1. CASE At(c, "nested") /\ ~ Ended(Child(c))
  <2>1. Child(c) \in Calls
    BY <1>1, SetupsAssumption DEF IInv, Placed, Child, Task
  <2> QED
    BY <1>1, <2>1 DEF Innermost, IInv, Placed, At
<1>2. CASE ~ (At(c, "nested") /\ ~ Ended(Child(c)))
  BY <1>2 DEF Innermost, Working
<1> QED
  BY <1>1, <1>2

\* The wait_for of Python 3.11 leaves behind what it waits for: the call has
\* its outcome and goes on.
LEMMA LeftBehind ==
  ASSUME IInv, NEW d \in Calls, NEW m, Timers(m),
         call' = [m EXCEPT ![d].outcome = IF Ended(d) THEN @ ELSE "cancelled"],
         UNCHANGED <<setup, lock, values, alive, docker, held, evicted>>
  PROVE  IInv'
<1> DEFINE out == IF Ended(d) THEN m[d].outcome ELSE "cancelled"
<1> DEFINE r == [m[d] EXCEPT !.outcome = out]
<1>1. m \in [Calls -> CallType] /\ m[d] \in CallType
  BY DEF Timers
<1>2. out \in {"none", "returned", "raised", "cancelled"} /\ (Ended(d) => out = call[d].outcome)
      /\ out # "none" /\ (out = "returned" => call[d].outcome = "returned")
  BY <1>1 DEF Timers, CallType, Ended
<1>3. call' = [m EXCEPT ![d] = r]
  BY <1>1
<1> HIDE DEF out
<1>4. /\ r \in CallType /\ r.outcome = out /\ r.pc = m[d].pc /\ r.round = m[d].round
      /\ r.result = m[d].result /\ r.hit = m[d].hit
  BY <1>1, <1>2 DEF CallType
<1> HIDE DEF r
<1>5. call' \in [Calls -> CallType] /\ call'[d] = r /\ \A e \in Calls \ {d} : call'[e] = m[e]
  BY <1>1, <1>3, <1>4
<1>6. \A e \in Calls : Steady(e)
  BY <1>2, <1>4, <1>5 DEF Steady, Timers, Ended
<1>7. Core(d)
  BY <1>5, <1>6, SteadyCore
<1>8. Out(d)
  BY <1>6, SteadyProcesses, QuietOut DEF Steady, Untouched
<1> QED
  BY <1>7, <1>8, Combined

\* The call that asks a server closes it first.
LEMMA CancelledAsking ==
  ASSUME IInv, NEW d \in Calls, NEW m, Timers(m), call[d].pc = "asking", Cancelled(d, m),
         UNCHANGED <<setup, values, alive, evicted>>
  PROVE  IInv'
<1> DEFINE r == [m[d] EXCEPT !.pc = "closing", !.pending = "cancelled", !.hit = "asking"]
<1>1. m \in [Calls -> CallType] /\ m[d] \in CallType
  BY DEF Timers
<1>2. /\ r \in CallType /\ r.pc = "closing" /\ r.round = m[d].round
      /\ r.result = m[d].result /\ r.outcome = m[d].outcome
  <2>1. "closing" \in Places /\ "asking" \in Places
    BY DEF Places
  <2> QED
    BY <1>1, <2>1 DEF CallType
<1>3. call' = [m EXCEPT ![d] = r] /\ UNCHANGED <<lock, held, docker>>
  BY <1>1 DEF Cancelled, At
<1> HIDE DEF r
<1>4. call' \in [Calls -> CallType] /\ call'[d] = r /\ \A e \in Calls \ {d} : call'[e] = m[e]
  BY <1>1, <1>2, <1>3
<1>5. \A e \in Calls \ {d} : Steady(e)
  BY <1>4 DEF Steady, Timers, Ended
<1>6. Task(d).kind = "mcp" /\ Task(d)' = Task(d)
  BY DEF IInv, Placed, PlacesOf, Task
<1>7. Core(d)
  <2>1. ~ Memoized(d)
    BY <1>6, SetupsAssumption DEF IInv, Memoized, Task
  <2>2. Placed(d)'
    <3>1. "closing" \in PlacesOf(Task(d).kind)
      BY <1>6 DEF PlacesOf
    <3> QED
      BY <1>2, <1>4, <1>6, <3>1 DEF IInv, Placed, At, Timers
  <2>3. HeldInv(d)'
    BY <1>3 DEF IInv, HeldInv
  <2>4. call'[d].result = call[d].result
    BY <1>2, <1>4 DEF Timers
  <2>5. held' \in [Calls -> SUBSET Resources]
    BY <1>3 DEF IInv, CoreType
  <2> QED
    BY <1>3, <1>4, <1>5, <2>1, <2>2, <2>3, <2>4, <2>5, MovesCore
<1>8. ProcInv(d)'
  <2> SUFFICES ASSUME NEW p \in alive, p[1] = d PROVE MayLive(d, p)'
    BY DEF ProcInv
  <2>1. MayLive(d, p)
    BY DEF IInv, ProcInv
  <2>2. call'[d].pc = "closing" /\ call'[d].round = call[d].round
    BY <1>2, <1>4 DEF Timers
  <2> QED
    BY <1>6, <2>1, <2>2 DEF MayLive
<1>9. Out(d)
  BY <1>3, <1>8, QuietOut DEF Untouched
<1> QED
  BY <1>7, <1>9, Combined

\* Every other call ends where the cancellation hits it.
LEMMA CancelledElsewhere ==
  ASSUME IInv, NEW d \in Calls, NEW m, Timers(m), call[d].pc \notin {"asking", "done"},
         Cancelled(d, m), UNCHANGED <<setup, values, alive, evicted>>
  PROVE  IInv'
<1> DEFINE out == IF Ended(d) THEN m[d].outcome
                  ELSE IF m[d].timer = "fired" THEN "raised" ELSE "cancelled"
<1> DEFINE r == [m[d] EXCEPT !.pc = "done", !.hit = call[d].pc, !.outcome = out]
<1>1. /\ m \in [Calls -> CallType] /\ m[d] \in CallType
      /\ call[d] \in CallType
  BY DEF Timers, IInv, CoreType
<1>2. out \in {"raised", "cancelled"}
  <2>1. call[d].outcome # "returned"
    BY DEF IInv, Placed, At
  <2> QED
    BY <1>1, <2>1 DEF Timers, CallType, Ended
<1>3. /\ call' = [m EXCEPT ![d] = r]
      /\ lock' = LockWithout(d) /\ held' = [held EXCEPT ![d] = {}] /\ docker' = Withdrawn(d)
  BY <1>1 DEF Cancelled, At, CallType
<1> HIDE DEF out
<1>4. /\ r \in CallType /\ r.pc = "done" /\ r.hit = call[d].pc /\ r.outcome = out
      /\ r.round = m[d].round /\ r.result = m[d].result
  <2>1. "done" \in Places /\ call[d].pc \in Places
    BY <1>1 DEF Places, CallType
  <2>2. r \in CallType
    BY <1>1, <1>2, <2>1 DEF CallType
  <2> QED
    BY <1>1, <2>2 DEF CallType
<1> HIDE DEF r
<1>5. call' \in [Calls -> CallType] /\ call'[d] = r /\ \A e \in Calls \ {d} : call'[e] = m[e]
  BY <1>1, <1>3, <1>4
<1>6. \A e \in Calls \ {d} : Steady(e)
  BY <1>5 DEF Steady, Timers, Ended
<1>7. Task(d)' = Task(d) /\ Memoized(d)' = Memoized(d) /\ Key(d)' = Key(d)
  BY DEF Task, Memoized, Key
<1>8. /\ call'[d].pc = "done" /\ call'[d].hit = call[d].pc /\ call'[d].outcome \in {"raised", "cancelled"}
      /\ call'[d].round = call[d].round /\ call'[d].result = call[d].result
  BY <1>2, <1>4, <1>5 DEF Timers
<1>9. SharedInv' /\ lock' \in Seq(Calls) /\ IsInjective(lock')
  <2>1. ResultInv(d)'
    BY <1>7, <1>8 DEF IInv, SharedInv, ResultInv
  <2> QED
    BY <1>3, <1>6, <1>8, <2>1, LeavesShared DEF IInv, Outside
<1>10. held' \in [Calls -> SUBSET Resources] /\ held'[d] = {} /\ \A e \in Calls \ {d} : held'[e] = held[e]
  BY <1>3 DEF IInv, CoreType
<1>11. Core(d)
  <2>1. CoreType'
    BY <1>5, <1>9, <1>10 DEF IInv, CoreType, Entries, Key, Task
  <2>2. Placed(d)' /\ HeldInv(d)'
    BY <1>7, <1>8, <1>10 DEF IInv, Placed, HeldInv, At, Ended, PlacesOf
  <2> QED
    BY <1>6, <1>9, <1>10, <2>1, <2>2 DEF Core
<1>12. ProcInv(d)'
  <2> SUFFICES ASSUME NEW p \in alive, p[1] = d PROVE MayLive(d, p)'
    BY DEF ProcInv
  <2>1. MayLive(d, p)
    BY DEF IInv, ProcInv
  <2>2. CASE Task(d).kind = "process"
    <3>1. /\ p[2] = call[d].round
          /\ \/ call[d].pc = "communicating"
             \/ p[3] = "grandchild"
      BY <2>1, <2>2 DEF MayLive, At
    <3>2. Survives(d, p[3])'
      BY <1>7, <1>8, <2>2, <3>1 DEF Survives
    <3> QED
      BY <1>7, <1>8, <2>2, <3>1, <3>2 DEF MayLive, At
  <2>3. CASE Task(d).kind = "mcp"
    BY <1>7, <1>8, <2>1, <2>3 DEF MayLive, At
  <2> QED
    BY <2>1, <2>2, <2>3 DEF MayLive
<1>13. Out(d)
  <2>1. CASE docker[d].thread \in {"to_prepare", "to_wait"}
    <3> DEFINE q == [docker[d] EXCEPT !.thread = "none"]
    <3>1. docker[d] \in DockerType
      BY DEF IInv, OuterType
    <3>2. docker[d].container # "running"
      BY <2>1 DEF IInv, DockerInv
    <3>3. q \in DockerType /\ q.container # "running" /\ q.thread = "none"
      BY <3>1, <3>2 DEF DockerType
    <3>4. docker' = [docker EXCEPT ![d] = q]
      BY <1>3, <2>1 DEF Withdrawn
    <3> HIDE DEF q
    <3> QED
      BY <1>8, <1>12, <3>3, <3>4, DockerOut DEF Untouched
  <2>2. CASE docker[d].thread \notin {"to_prepare", "to_wait"}
    <3>1. docker' = docker
      BY <1>3, <2>2 DEF Withdrawn
    <3> QED
      BY <1>8, <1>12, <3>1, QuietOut DEF Untouched
  <2> QED
    BY <2>1, <2>2
<1> QED
  BY <1>11, <1>13, Combined

LEMMA DeliverStep ==
  ASSUME IInv, NEW c \in Calls, Working(c), NEW m, Timers(m), Deliver(c, m),
         UNCHANGED <<setup, values, alive, evicted>>
  PROVE  IInv'
<1> DEFINE unwinding == {d \in Nest(c) : Working(d) /\ call[d].timer \in {"fired", "passed"}}
<1>1. CASE unwinding # {} /\ setup.python = "3.11"
  <2> DEFINE d == IF c \in unwinding THEN c ELSE Child(c)
  <2>1. d \in Calls
    <3>1. At(c, "nested") => Child(c) \in Calls
      BY SetupsAssumption DEF IInv, Placed, Child, Task
    <3> QED
      BY <1>1, <3>1 DEF Nest
  <2>2. /\ call' = [m EXCEPT ![d].outcome = IF Ended(d) THEN @ ELSE "cancelled"]
        /\ UNCHANGED <<lock, held, docker>>
    BY <1>1 DEF Deliver
  <2> HIDE DEF d, unwinding
  <2> QED
    BY <2>1, <2>2, LeftBehind
<1>2. CASE ~ (unwinding # {} /\ setup.python = "3.11")
  <2>1. Cancelled(Innermost(c), m)
    BY <1>2 DEF Deliver
  <2>2. Innermost(c) \in Calls /\ call[Innermost(c)].pc # "done"
    BY InnermostFacts
  <2>3. CASE call[Innermost(c)].pc = "asking"
    BY <2>1, <2>2, <2>3, CancelledAsking
  <2>4. CASE call[Innermost(c)].pc # "asking"
    BY <2>1, <2>2, <2>4, CancelledElsewhere
  <2> QED
    BY <2>3, <2>4
<1> QED
  BY <1>1, <1>2

LEMMA TimerFiresStep ==
  ASSUME IInv, NEW c \in Calls, TimerFires(c)
  PROVE  IInv'
<1> DEFINE t == IF call[c].timer = "running" THEN "fired" ELSE "off"
<1> DEFINE m == [Passed(c) EXCEPT ![c].timer = t]
<1>1. Timers(m)
  BY PassedTimers
<1>2. Deliver(c, m) /\ Working(c)
  BY DEF TimerFires
<1> HIDE DEF m
<1> QED
  BY <1>1, <1>2, DeliverStep DEF TimerFires

LEMMA CancelStep ==
  ASSUME IInv, NEW c \in Calls, Cancel(c)
  PROVE  IInv'
<1> QED
  BY PassedTimers, DeliverStep DEF Cancel

-----------------------------------------------------------------------------
(* The theorems *)

LEMMA StutterStep ==
  ASSUME IInv, UNCHANGED vars
  PROVE  IInv'
<1> QED
  BY DEF vars, IInv, CoreType, OuterType, Busy, SharedInv, CacheInv, LockInv, ResultInv, Memoized,
         Inside, Computing, HoldsLock, Cached, Key, Task, Placed, HeldInv, ProcInv, DockerInv, Untouched,
         At, Ended, Child, MayLive, Survives, Entries

LEMMA Initially ==
  ASSUME Init
  PROVE  IInv
<1>1. Idle \in CallType
  <2>1. "idle" \in Places /\ 1 \in 1 .. 2
    BY DEF Places
  <2> QED
    BY <2>1 DEF Idle, CallType
<1>2. call \in [Calls -> CallType] /\ \A c \in Calls : call[c] = Idle
  BY <1>1 DEF Init
<1>3. docker \in [Calls -> DockerType] /\ \A c \in Calls : docker[c] = NoDocker
  BY DEF Init, NoDocker, DockerType
<1>4. CoreType
  <2>1. lock \in Seq(Calls) /\ IsInjective(lock)
    BY DEF Init, IsInjective
  <2>2. values \in Seq(Entries) /\ Len(values) <= MaxEntries
    BY ExternalTasksAssumption DEF Init
  <2> QED
    BY <1>2, <2>1, <2>2 DEF Init, CoreType
<1>5. OuterType
  <2>1. Busy = {}
    BY <1>3 DEF Busy, NoDocker
  <2>2. IsFiniteSet(Busy) /\ Cardinality(Busy) <= Threads
    BY <2>1, FS_EmptySet, ExternalTasksAssumption
  <2> QED
    BY <1>3, <2>2 DEF OuterType, Init
<1>6. SharedInv
  <2>1. CacheInv
    BY DEF CacheInv, Init
  <2>2. \A c \in Calls : LockInv(c) /\ ResultInv(c)
    BY <1>2 DEF LockInv, ResultInv, Inside, Computing, Outside, Idle, ToSet, Init
  <2> QED
    BY <2>1, <2>2 DEF SharedInv
<1>7. \A c \in Calls : Placed(c) /\ HeldInv(c) /\ ProcInv(c) /\ DockerInv(c)
  <2>1. \A kind : "idle" \in PlacesOf(kind)
    BY DEF PlacesOf
  <2> QED
    BY <1>2, <1>3, <2>1 DEF Placed, HeldInv, ProcInv, DockerInv, At, Idle, NoDocker, Init
<1> QED
  BY <1>4, <1>5, <1>6, <1>7 DEF IInv, Init

LEMMA CallStep ==
  ASSUME IInv, NEW c \in Calls,
         \/ CodeStep(c) \/ ServerStep(c) \/ Forks(c)
         \/ ContainerEnds(c) \/ RemoveRaises(c) \/ Cancel(c)
  PROVE  IInv'
<1>1. CASE CodeStep(c)
  BY <1>1, BeginStep, BeforeTasksStep, AfterTasksStep, HitStep, ComputeStep, FunctionEndsStep,
     NestedEndsStep, SpawnStep, SpawnRaisesStep, CommunicatedStep, RunTimesOutStep, ReapStep,
     ServerGoneStep, TerminatedStep, TerminateStep, GivesUpStep, SubmitStep, ThreadStartsStep,
     PreparedStep, PrepareRaisesStep, ContainerRunsStep, ContainerRaisesStep, ConnectStep,
     GrpcEndsStep, TimerFiresStep
     DEF CodeStep
<1>2. CASE ServerStep(c)
  BY <1>2, ServerAnswersStep, ReadDocumentStep, CompileStep, ReadRaisesStep, AnswersStep,
     RequestRaisesStep
     DEF ServerStep
<1> QED
  BY <1>1, <1>2, ForksStep, ContainerEndsStep, RemoveRaisesStep, CancelStep

\* The inductive invariant holds of every behaviour.
THEOREM Invariant == Spec => []IInv
<1>1. Init => IInv
  BY Initially
<1>2. IInv /\ [Next]_vars => IInv'
  <2> SUFFICES ASSUME IInv, [Next]_vars PROVE IInv'
    OBVIOUS
  <2>1. CASE UNCHANGED vars
    BY <2>1, StutterStep
  <2>2. CASE Next
    BY <2>2, CallStep, ExitsStep DEF Next
  <2> QED
    BY <2>1, <2>2
<1> QED
  BY <1>1, <1>2, PTL DEF Spec

\* TypeOK for every set of calls: the cache keeps its bound and so does the
\* pool of threads, whatever is cancelled while its jobs go on.
THEOREM Types == Spec => []TypeOK
<1>1. IInv => TypeOK
  <2> SUFFICES ASSUME IInv PROVE TypeOK
    OBVIOUS
  <2>1. ToSet(lock) \subseteq Calls
    BY DEF IInv, CoreType, ToSet
  <2>2. ToSet(values) \subseteq Entries
    BY DEF IInv, CoreType, ToSet
  <2>3. call \in [Calls -> CallType] /\ docker \in [Calls -> DockerType]
    BY DEF IInv, CoreType, OuterType
  <2> QED
    BY <2>1, <2>2, <2>3 DEF IInv, CoreType, OuterType, TypeOK, CallType, DockerType
<1> QED
  BY <1>1, Invariant, PTL

\* EndedCallsLeaveNothing for every set of calls and both families of Python:
\* only the processes that it names outlive a call, and a call that returned
\* has neither a container nor a docker client left.
THEOREM Leftovers == Spec => []EndedCallsLeaveNothing
<1>1. IInv => EndedCallsLeaveNothing
  <2> SUFFICES ASSUME IInv, NEW c \in Calls, At(c, "done")
               PROVE  /\ held[c] = {}
                      /\ \A p \in alive : p[1] = c => Survives(c, p[3])
                      /\ docker[c].container = "running" => docker[c].thread = "waiting"
                      /\ call[c].outcome = "returned" => docker[c] = NoDocker
    BY DEF EndedCallsLeaveNothing
  <2>1. held[c] = {}
    BY DEF IInv, HeldInv, At
  <2>2. ASSUME NEW p \in alive, p[1] = c
        PROVE  Survives(c, p[3])
    <3>1. MayLive(c, p) /\ p[3] \in {"child", "grandchild"}
      BY <2>2 DEF IInv, ProcInv, OuterType
    <3> QED
      BY <3>1 DEF MayLive, Survives, At
  <2>3. /\ docker[c].container = "running" => docker[c].thread = "waiting"
        /\ call[c].outcome = "returned" => docker[c] = NoDocker
    BY DEF IInv, DockerInv, Untouched
  <2> QED
    BY <2>1, <2>2, <2>3
<1> QED
  BY <1>1, Invariant, PTL

\* SameKeySameResult for every set of calls and every bound of the cache: the
\* result of each call is what the cache holds under its key, and the lock
\* keeps two from computing it.
THEOREM SameResult == Spec => []SameKeySameResult
<1>1. IInv => SameKeySameResult
  <2> SUFFICES ASSUME IInv, NEW c \in Calls, NEW d \in Calls,
                      Memoized(c), Key(c) = Key(d),
                      call[c].result # Nobody, call[d].result # Nobody,
                      Key(c) \notin evicted
               PROVE  call[c].result = call[d].result
    BY DEF SameKeySameResult
  <2>1. PICK i \in DOMAIN values : values[i].key = Key(c) /\ values[i].by = call[c].result
    BY DEF IInv, SharedInv, ResultInv
  <2>2. PICK j \in DOMAIN values : values[j].key = Key(c) /\ values[j].by = call[d].result
    BY DEF IInv, SharedInv, ResultInv, Memoized, Key
  <2> QED
    BY <2>1, <2>2 DEF IInv, SharedInv, CacheInv
<1> QED
  BY <1>1, Invariant, PTL
=============================================================================
