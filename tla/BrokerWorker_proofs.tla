------------------------- MODULE BrokerWorker_proofs -------------------------
(***************************************************************************)
(* BrokerWorker for any workers, loops, jobs and limits: no semaphore      *)
(* gains or loses a unit, and no wake-up is lost.                          *)
(***************************************************************************)
EXTENDS BrokerWorker, FiniteSetTheorems, TLAPS

(***************************************************************************)
(* Lemmas on data                                                          *)
(***************************************************************************)

Unit(p) == IF p THEN 1 ELSE 0

\* Two sets that agree on everything but x differ in size by x.
LEMMA SizeChange ==
  ASSUME NEW S, IsFiniteSet(S), NEW T, NEW x, S \ {x} = T \ {x}
  PROVE  /\ Cardinality(S) \in Nat
         /\ Cardinality(T) \in Nat
         /\ Cardinality(T) - Unit(x \in T) = Cardinality(S) - Unit(x \in S)
<1> DEFINE U == S \ {x}
<1>1. IsFiniteSet(U) /\ x \notin U /\ Cardinality(U) \in Nat
  BY FS_Difference, FS_CardinalityType
<1>2. IsFiniteSet(U \union {x}) /\ Cardinality(U \union {x}) = Cardinality(U) + 1
  BY <1>1, FS_AddElement
<1>3. S = IF x \in S THEN U \union {x} ELSE U
  OBVIOUS
<1>4. T = IF x \in T THEN U \union {x} ELSE U
  OBVIOUS
<1> HIDE DEF U
<1>5. Cardinality(S) = Cardinality(U) + Unit(x \in S)
  BY <1>1, <1>2, <1>3 DEF Unit
<1>6. Cardinality(T) = Cardinality(U) + Unit(x \in T)
  <2>1. CASE x \in T
    <3>1. T = U \union {x}
      BY <1>4, <2>1
    <3>2. Cardinality(T) = Cardinality(U) + 1
      BY <1>2, <3>1
    <3> QED BY <2>1, <3>2 DEF Unit
  <2>2. CASE x \notin T
    <3>1. T = U
      BY <1>4, <2>2
    <3> QED BY <1>1, <2>2, <3>1 DEF Unit
  <2> QED BY <2>1, <2>2
<1>7. Unit(x \in S) \in Nat /\ Unit(x \in T) \in Nat
  BY DEF Unit
<1> QED BY <1>1, <1>5, <1>6, <1>7

-----------------------------------------------------------------------------
(***************************************************************************)
(* What a loop holds, by its own state                                     *)
(***************************************************************************)

HoldsPermit(v, e) ==
  v.pc \in {"slot", "running", "listening"} /\ EndpointOf[v.job] = e
HoldsSlot(l, v, w) == v.pc \in {"running", "listening"} /\ WorkerOf[l] = w

LEMMA HoldersByLoop ==
  /\ \A e : Holders(e) = {l \in Loops : HoldsPermit(loop[l], e)}
  /\ \A w : Runners(w) = {l \in Loops : HoldsSlot(l, loop[l], w)}
BY DEF Holders, Runners, Working, EndpointAt, HoldsPermit, HoldsSlot

\* A step of one loop changes the holders by that loop alone.
LEMMA HoldersChange ==
  ASSUME NEW l \in Loops, NEW v,
         loop \in [Loops -> Loop],
         loop' = [loop EXCEPT ![l] = v]
  PROVE  /\ \A e \in Endpoints :
              /\ Cardinality(Holders(e)) \in Nat
              /\ Cardinality(Holders(e)') \in Nat
              /\ Cardinality(Holders(e)') - Unit(HoldsPermit(v, e))
                   = Cardinality(Holders(e)) - Unit(HoldsPermit(loop[l], e))
         /\ \A w \in Workers :
              /\ Cardinality(Runners(w)) \in Nat
              /\ Cardinality(Runners(w)') \in Nat
              /\ Cardinality(Runners(w)') - Unit(HoldsSlot(l, v, w))
                   = Cardinality(Runners(w)) - Unit(HoldsSlot(l, loop[l], w))
<1>0. /\ loop'[l] = v
      /\ \A m \in Loops : m # l => loop'[m] = loop[m]
  OBVIOUS
<1>1. ASSUME NEW e \in Endpoints
      PROVE  /\ Cardinality(Holders(e)) \in Nat
             /\ Cardinality(Holders(e)') \in Nat
             /\ Cardinality(Holders(e)') - Unit(HoldsPermit(v, e))
                  = Cardinality(Holders(e)) - Unit(HoldsPermit(loop[l], e))
  <2> DEFINE S == {m \in Loops : HoldsPermit(loop[m], e)}
             T == {m \in Loops : HoldsPermit(loop'[m], e)}
  <2>1. Holders(e) = S /\ Holders(e)' = T
    BY DEF Holders, Working, EndpointAt, HoldsPermit
  <2>2. S \ {l} = T \ {l}
    BY <1>0
  <2>3. IsFiniteSet(S)
    BY FS_Subset, ConstantsAssumption
  <2>4. (l \in S <=> HoldsPermit(loop[l], e)) /\ (l \in T <=> HoldsPermit(v, e))
    BY <1>0
  <2> HIDE DEF S, T
  <2> QED BY <2>1, <2>2, <2>3, <2>4, SizeChange DEF Unit
<1>2. ASSUME NEW w \in Workers
      PROVE  /\ Cardinality(Runners(w)) \in Nat
             /\ Cardinality(Runners(w)') \in Nat
             /\ Cardinality(Runners(w)') - Unit(HoldsSlot(l, v, w))
                  = Cardinality(Runners(w)) - Unit(HoldsSlot(l, loop[l], w))
  <2> DEFINE S == {m \in Loops : HoldsSlot(m, loop[m], w)}
             T == {m \in Loops : HoldsSlot(m, loop'[m], w)}
  <2>1. Runners(w) = S /\ Runners(w)' = T
    BY DEF Runners, Working, HoldsSlot
  <2>2. S \ {l} = T \ {l}
    BY <1>0
  <2>3. IsFiniteSet(S)
    BY FS_Subset, ConstantsAssumption
  <2>4. (l \in S <=> HoldsSlot(l, loop[l], w)) /\ (l \in T <=> HoldsSlot(l, v, w))
    BY <1>0
  <2> HIDE DEF S, T
  <2> QED BY <2>1, <2>2, <2>3, <2>4, SizeChange DEF Unit
<1> QED BY <1>1, <1>2

-----------------------------------------------------------------------------
(***************************************************************************)
(* The inductive invariant                                                 *)
(***************************************************************************)

\* Permits and slots stay below their limits because what is held or lost is
\* accounted for, so types and conservation go together.
IInv == TypeOK /\ SemaphoresConserved /\ NoLostWakeup

Busy(v) == v.pc \notin {"consuming", "resting", "stopped"}

\* A new state of a loop that fits the type.
LoopFits(v) == v \in Loop /\ (v.job = NoEvent <=> ~ Busy(v))

LEMMA BusyLoops ==
  ASSUME TypeOK, NEW l \in Loops
  PROVE  /\ loop[l] \in Loop
         /\ LoopFits(loop[l])
         /\ WorkerOf[l] \in Workers
         /\ Busy(loop[l]) => loop[l].job \in Jobs /\ EndpointAt(l) \in Endpoints
<1>1. loop[l] \in Loop /\ LoopFits(loop[l])
  BY DEF TypeOK, LoopFits, Busy
<1>2. Busy(loop[l]) => loop[l].job \in Jobs
  BY <1>1 DEF LoopFits, Loop
<1> QED BY <1>1, <1>2, ConstantsAssumption DEF EndpointAt

\* What one loop takes from the semaphores, gives back or leaks is what the
\* semaphores lose or gain.
Balanced(l, v) ==
  /\ \A e \in Endpoints :
       permits'[e] + leaked'[e] + Unit(HoldsPermit(v, e))
         = permits[e] + leaked[e] + Unit(HoldsPermit(loop[l], e))
  /\ \A w \in Workers :
       slots'[w] + Unit(HoldsSlot(l, v, w)) = slots[w] + Unit(HoldsSlot(l, loop[l], w))

LEMMA LoopStep ==
  ASSUME IInv, NEW l \in Loops, NEW v, LoopFits(v),
         loop' = [loop EXCEPT ![l] = v],
         v.pc = "parked" => EndpointOf[v.job] \in paused,
         UNCHANGED <<paused, notifying>>,
         permits' \in [Endpoints -> Nat],
         leaked' \in [Endpoints -> Nat],
         slots' \in [Workers -> Nat],
         Balanced(l, v)
  PROVE  /\ SemaphoresConserved'
         /\ NoLostWakeup'
         /\ loop' \in [Loops -> Loop]
         /\ \A m \in Loops :
              loop'[m].job = NoEvent <=> loop'[m].pc \in {"consuming", "resting", "stopped"}
         /\ permits' \in [Endpoints -> 0..MaxInflight]
         /\ slots' \in [Workers -> 0..MaxConcurrency]
<1>1. /\ loop \in [Loops -> Loop]
      /\ permits \in [Endpoints -> Nat]
      /\ leaked \in [Endpoints -> Nat]
      /\ slots \in [Workers -> Nat]
  BY DEF IInv, TypeOK
<1>2. ASSUME NEW e \in Endpoints
      PROVE  /\ permits'[e] + Cardinality(Holders(e)') + leaked'[e] = MaxInflight
             /\ permits'[e] \in 0..MaxInflight
  <2>1. /\ Cardinality(Holders(e)) \in Nat
        /\ Cardinality(Holders(e)') \in Nat
        /\ Cardinality(Holders(e)') - Unit(HoldsPermit(v, e))
             = Cardinality(Holders(e)) - Unit(HoldsPermit(loop[l], e))
    BY <1>1, HoldersChange
  <2>2. permits[e] + Cardinality(Holders(e)) + leaked[e] = MaxInflight
    BY DEF IInv, SemaphoresConserved
  <2>3. permits'[e] + leaked'[e] + Unit(HoldsPermit(v, e))
          = permits[e] + leaked[e] + Unit(HoldsPermit(loop[l], e))
    BY DEF Balanced
  <2>4. Unit(HoldsPermit(v, e)) \in Nat /\ Unit(HoldsPermit(loop[l], e)) \in Nat
    BY DEF Unit
  <2>5. /\ permits[e] \in Nat /\ permits'[e] \in Nat
        /\ leaked[e] \in Nat /\ leaked'[e] \in Nat
        /\ MaxInflight \in Nat
    BY <1>1, ConstantsAssumption
  <2> HIDE DEF Holders, HoldsPermit
  <2> QED BY <2>1, <2>2, <2>3, <2>4, <2>5
<1>3. ASSUME NEW w \in Workers
      PROVE  /\ slots'[w] + Cardinality(Runners(w)') = MaxConcurrency
             /\ slots'[w] \in 0..MaxConcurrency
  <2>1. /\ Cardinality(Runners(w)) \in Nat
        /\ Cardinality(Runners(w)') \in Nat
        /\ Cardinality(Runners(w)') - Unit(HoldsSlot(l, v, w))
             = Cardinality(Runners(w)) - Unit(HoldsSlot(l, loop[l], w))
    BY <1>1, HoldersChange
  <2>2. slots[w] + Cardinality(Runners(w)) = MaxConcurrency
    BY DEF IInv, SemaphoresConserved
  <2>3. slots'[w] + Unit(HoldsSlot(l, v, w)) = slots[w] + Unit(HoldsSlot(l, loop[l], w))
    BY DEF Balanced
  <2>4. Unit(HoldsSlot(l, v, w)) \in Nat /\ Unit(HoldsSlot(l, loop[l], w)) \in Nat
    BY DEF Unit
  <2>5. slots[w] \in Nat /\ slots'[w] \in Nat /\ MaxConcurrency \in Nat
    BY <1>1, ConstantsAssumption
  <2> QED BY <2>1, <2>2, <2>3, <2>4, <2>5
<1>4. SemaphoresConserved'
  BY <1>2, <1>3 DEF SemaphoresConserved
<1>5. /\ loop'[l] = v
      /\ \A m \in Loops : m # l => loop'[m] = loop[m]
  BY <1>1
<1>6. loop' \in [Loops -> Loop]
  BY <1>1 DEF LoopFits
<1>7. \A m \in Loops :
        loop'[m].job = NoEvent <=> loop'[m].pc \in {"consuming", "resting", "stopped"}
  BY <1>5 DEF LoopFits, Busy, IInv, TypeOK
<1>8. NoLostWakeup'
  BY <1>5 DEF IInv, NoLostWakeup, EndpointAt
<1>9. permits' \in [Endpoints -> 0..MaxInflight]
  BY <1>2
<1>10. slots' \in [Workers -> 0..MaxConcurrency]
  BY <1>3
<1> QED BY <1>4, <1>6, <1>7, <1>8, <1>9, <1>10

\* The variables that steps of loops leave to the steps themselves.
OtherTypes ==
  /\ kind \in {"queue", "stream"}
  /\ topic \in Seq(Events)
  /\ position \in [Workers \union {Shared} -> Nat]
  /\ paused \subseteq Endpoints
  /\ notifying \subseteq Endpoints
  /\ started \in [Jobs -> [Workers -> 0..2]]
  /\ leaked \in [Endpoints -> Nat]
  /\ reports \in 0..MaxReports
  /\ stops \in 0..MaxStops

\* A step of one loop that neither takes nor gives back anything.
LEMMA IdleStep ==
  ASSUME IInv, NEW l \in Loops, NEW v, LoopFits(v),
         loop' = [loop EXCEPT ![l] = v],
         v.pc = "parked" => EndpointOf[v.job] \in paused,
         UNCHANGED <<paused, notifying, permits, slots, leaked>>,
         v.pc \in {"slot", "running", "listening"} <=>
           loop[l].pc \in {"slot", "running", "listening"},
         v.pc \in {"running", "listening"} <=> loop[l].pc \in {"running", "listening"},
         v.pc \in {"slot", "running", "listening"} => v.job = loop[l].job,
         OtherTypes'
  PROVE  IInv'
<1>1. Balanced(l, v)
  BY DEF Balanced, HoldsPermit, HoldsSlot
<1>2. /\ permits' \in [Endpoints -> Nat]
      /\ leaked' \in [Endpoints -> Nat]
      /\ slots' \in [Workers -> Nat]
  BY DEF IInv, TypeOK
<1>3. /\ SemaphoresConserved'
      /\ NoLostWakeup'
      /\ loop' \in [Loops -> Loop]
      /\ \A m \in Loops :
           loop'[m].job = NoEvent <=> loop'[m].pc \in {"consuming", "resting", "stopped"}
      /\ permits' \in [Endpoints -> 0..MaxInflight]
      /\ slots' \in [Workers -> 0..MaxConcurrency]
  BY <1>1, <1>2, LoopStep
<1> QED BY <1>3 DEF IInv, TypeOK, OtherTypes

LEMMA HoldingStep ==
  ASSUME IInv, NEW l \in Loops, NEW v, LoopFits(v), v.pc # "parked",
         loop' = [loop EXCEPT ![l] = v],
         UNCHANGED <<paused, notifying>>,
         permits' \in [Endpoints -> Nat],
         slots' \in [Workers -> Nat],
         Balanced(l, v),
         OtherTypes'
  PROVE  IInv'
<1>1. /\ SemaphoresConserved'
      /\ NoLostWakeup'
      /\ loop' \in [Loops -> Loop]
      /\ \A m \in Loops :
           loop'[m].job = NoEvent <=> loop'[m].pc \in {"consuming", "resting", "stopped"}
      /\ permits' \in [Endpoints -> 0..MaxInflight]
      /\ slots' \in [Workers -> 0..MaxConcurrency]
  BY LoopStep DEF OtherTypes
<1> QED BY <1>1 DEF IInv, TypeOK, OtherTypes

\* What a broker hands over is an event, and positions stay numbers.
LEMMA ReceivedTypes ==
  ASSUME TypeOK, NEW l \in Loops, NEW event \in Events, Receives(l, event)
  PROVE  /\ UNCHANGED <<kind, topic>>
         /\ position' \in [Workers \union {Shared} -> Nat]
<1>1. NextPosition(l) \in Nat
  BY DEF Receives, TypeOK
<1>2. position' = [position EXCEPT ![BrokerOf(l)] = NextPosition(l)]
  BY DEF Receives
<1> HIDE DEF NextPosition
<1> QED BY <1>1, <1>2 DEF Receives, TypeOK

\* The new state that SetLoop gives a loop.
NewLoop(pc, job) == [pc |-> pc, job |-> job, asked |-> NotAsked]

LEMMA NewLoopFits ==
  ASSUME NEW pc \in Phases, NEW job \in Jobs \union {NoEvent},
         job = NoEvent <=> pc \in {"consuming", "resting", "stopped"}
  PROVE  /\ LoopFits(NewLoop(pc, job))
         /\ NewLoop(pc, job).pc = pc
         /\ NewLoop(pc, job).job = job
BY DEF LoopFits, NewLoop, Busy, Loop, NotAsked

LEMMA InitIInv == Init => IInv
<1> SUFFICES ASSUME Init PROVE IInv
  OBVIOUS
<1>1. TypeOK
  <2>1. /\ loop \in [Loops -> Loop]
        /\ \A l \in Loops : loop[l].job = NoEvent /\ loop[l].pc = "consuming"
    BY DEF Init, Loop, Phases, NotAsked
  <2>2. topic \in Seq(Events)
    BY DEF Init
  <2>3. permits \in [Endpoints -> 0..MaxInflight] /\ slots \in [Workers -> 0..MaxConcurrency]
    BY ConstantsAssumption DEF Init
  <2>4. leaked \in [Endpoints -> Nat] /\ position \in [Workers \union {Shared} -> Nat]
    BY DEF Init
  <2>5. started \in [Jobs -> [Workers -> 0..2]]
    BY DEF Init
  <2>6. /\ reports \in 0..MaxReports
        /\ stops \in 0..MaxStops
        /\ kind \in {"queue", "stream"}
        /\ paused \subseteq Endpoints
        /\ notifying \subseteq Endpoints
    BY ConstantsAssumption DEF Init
  <2> QED BY <2>1, <2>2, <2>3, <2>4, <2>5, <2>6 DEF TypeOK
<1>2. ASSUME NEW e \in Endpoints PROVE Holders(e) = {}
  BY DEF Init, Holders, Working
<1>3. ASSUME NEW w \in Workers PROVE Runners(w) = {}
  BY DEF Init, Runners, Working
<1>4. SemaphoresConserved
  <2>1. Cardinality({}) = 0
    BY FS_EmptySet
  <2>2. \A e \in Endpoints : permits[e] = MaxInflight /\ leaked[e] = 0
    BY DEF Init
  <2>3. \A w \in Workers : slots[w] = MaxConcurrency
    BY DEF Init
  <2>4. MaxInflight \in Nat /\ MaxConcurrency \in Nat
    BY ConstantsAssumption
  <2>5. ASSUME NEW e \in Endpoints
        PROVE  permits[e] + Cardinality(Holders(e)) + leaked[e] = MaxInflight
    <3>1. Cardinality(Holders(e)) = 0
      BY <1>2, <2>1
    <3> QED BY <2>2, <2>4, <3>1
  <2>6. ASSUME NEW w \in Workers
        PROVE  slots[w] + Cardinality(Runners(w)) = MaxConcurrency
    <3>1. Cardinality(Runners(w)) = 0
      BY <1>3, <2>1
    <3> QED BY <2>3, <2>4, <3>1
  <2> QED BY <2>5, <2>6 DEF SemaphoresConserved
<1>5. NoLostWakeup
  BY DEF Init, NoLostWakeup
<1> QED BY <1>1, <1>4, <1>5 DEF IInv

-----------------------------------------------------------------------------
(***************************************************************************)
(* One lemma per group of steps                                            *)
(***************************************************************************)

LEMMA RoundStep ==
  ASSUME IInv, NEW l \in Loops,
         Ask(l) \/ Take(l) \/ Hear(l) \/ PassGate(l) \/ NextRound(l) \/ Stop(l)
  PROVE  IInv'
<1>0. TypeOK /\ OtherTypes
  BY DEF IInv, TypeOK, OtherTypes
<1>1. /\ LoopFits(loop[l])
      /\ loop[l] \in Loop
      /\ Busy(loop[l]) => loop[l].job \in Jobs /\ EndpointAt(l) \in Endpoints
  BY <1>0, BusyLoops
<1>2. CASE Ask(l)
  <2> DEFINE v == [loop[l] EXCEPT !.asked = position[WorkerOf[l]]]
  <2>1. position[WorkerOf[l]] \in Nat
    BY <1>0, ConstantsAssumption DEF TypeOK
  <2>2. LoopFits(v) /\ v.pc = loop[l].pc /\ v.job = loop[l].job
    BY <1>1, <2>1 DEF LoopFits, Loop, Busy
  <2>3. loop' = [loop EXCEPT ![l] = v]
    BY <1>2, <1>0 DEF Ask, TypeOK
  <2>4. v.pc # "parked"
    BY <1>2, <2>2 DEF Ask
  <2>5. /\ UNCHANGED <<paused, notifying, permits, slots, leaked>>
        /\ OtherTypes'
    BY <1>2, <1>0 DEF Ask, OtherTypes, brokerVars, pressureVars
  <2> HIDE DEF v
  <2> QED BY <2>2, <2>3, <2>4, <2>5, IdleStep
<1>3. CASE Take(l)
  <2>1. PICK event \in Events :
          /\ Receives(l, event)
          /\ \/ event \in Signals /\ GoTo(l, "consuming")
             \/ event \in Jobs /\ GoTo(l, "resting")
             \/ event \in Jobs /\ SetLoop(l, GateOf(EndpointOf[event]), event)
    BY <1>3 DEF Take
  <2>2. /\ loop[l].pc = "consuming"
        /\ UNCHANGED <<paused, notifying, permits, slots, leaked>>
        /\ OtherTypes'
    BY <1>0, <1>3, <2>1, ReceivedTypes DEF Take, OtherTypes, pressureVars
  <2>3. loop[l].job = NoEvent
    BY <1>1, <2>2 DEF LoopFits, Busy
  <2>4. ASSUME NEW pc \in {"consuming", "resting"}, GoTo(l, pc)
        PROVE  IInv'
    <3>1. loop' = [loop EXCEPT ![l] = NewLoop(pc, NoEvent)]
      BY <2>3, <2>4 DEF GoTo, SetLoop, NewLoop
    <3>2. /\ LoopFits(NewLoop(pc, NoEvent))
          /\ NewLoop(pc, NoEvent).pc = pc
      BY NewLoopFits DEF Phases
    <3> QED BY <2>2, <3>1, <3>2, IdleStep
  <2>5. ASSUME event \in Jobs, SetLoop(l, GateOf(EndpointOf[event]), event)
        PROVE  IInv'
    <3> DEFINE pc == GateOf(EndpointOf[event])
    <3>1. pc \in {"parked", "permit"} /\ (pc = "parked" => EndpointOf[event] \in paused)
      BY DEF GateOf
    <3>2. loop' = [loop EXCEPT ![l] = NewLoop(pc, event)]
      BY <2>5 DEF SetLoop, NewLoop
    <3>3. event # NoEvent
      BY <2>5, ConstantsAssumption
    <3> HIDE DEF pc
    <3>4. /\ LoopFits(NewLoop(pc, event))
          /\ NewLoop(pc, event).pc = pc
          /\ NewLoop(pc, event).job = event
      BY <2>5, <3>1, <3>3, NewLoopFits DEF Phases
    <3> QED BY <2>2, <3>1, <3>2, <3>4, IdleStep
  <2> QED BY <2>1, <2>4, <2>5
<1>4. CASE Hear(l)
  <2>1. PICK event \in Events, pc \in {"running", "listening"} :
          Receives(l, event) /\ GoTo(l, pc)
    BY <1>4 DEF Hear
  <2>2. /\ loop[l].pc = "listening"
        /\ UNCHANGED <<paused, notifying, permits, slots, leaked>>
        /\ OtherTypes'
    BY <1>0, <1>4, <2>1, ReceivedTypes DEF Hear, OtherTypes, pressureVars
  <2>3. loop[l].job \in Jobs /\ loop[l].job # NoEvent
    BY <1>1, <2>2, ConstantsAssumption DEF Busy
  <2>4. loop' = [loop EXCEPT ![l] = NewLoop(pc, loop[l].job)]
    BY <2>1 DEF GoTo, SetLoop, NewLoop
  <2>5. /\ LoopFits(NewLoop(pc, loop[l].job))
        /\ NewLoop(pc, loop[l].job).pc = pc
        /\ NewLoop(pc, loop[l].job).job = loop[l].job
    BY <2>3, NewLoopFits DEF Phases
  <2> QED BY <2>2, <2>4, <2>5, IdleStep
<1>5. CASE PassGate(l)
  <2> DEFINE pc == GateOf(EndpointAt(l))
  <2>1. /\ loop[l].pc = "gate"
        /\ UNCHANGED <<paused, notifying, permits, slots, leaked>>
        /\ OtherTypes'
    BY <1>0, <1>5 DEF PassGate, OtherTypes, brokerVars, pressureVars
  <2>2. loop[l].job \in Jobs /\ loop[l].job # NoEvent
    BY <1>1, <2>1, ConstantsAssumption DEF Busy
  <2>3. pc \in {"parked", "permit"} /\ (pc = "parked" => EndpointOf[loop[l].job] \in paused)
    BY DEF GateOf, EndpointAt
  <2>4. loop' = [loop EXCEPT ![l] = NewLoop(pc, loop[l].job)]
    BY <1>5 DEF PassGate, GoTo, SetLoop, NewLoop
  <2> HIDE DEF pc
  <2>5. /\ LoopFits(NewLoop(pc, loop[l].job))
        /\ NewLoop(pc, loop[l].job).pc = pc
        /\ NewLoop(pc, loop[l].job).job = loop[l].job
    BY <2>2, <2>3, NewLoopFits DEF Phases
  <2> QED BY <2>1, <2>3, <2>4, <2>5, IdleStep
<1>6. CASE NextRound(l) \/ Stop(l)
  <2>1. PICK pc \in {"consuming", "stopped"} : SetLoop(l, pc, NoEvent)
    BY <1>6 DEF NextRound, Stop
  <2>2. /\ loop[l].pc = "resting"
        /\ UNCHANGED <<paused, notifying, permits, slots, leaked>>
        /\ OtherTypes'
    <3>1. CASE NextRound(l)
      BY <1>0, <3>1 DEF NextRound, OtherTypes, brokerVars, pressureVars
    <3>2. CASE Stop(l)
      BY <1>0, <3>2, ConstantsAssumption DEF Stop, OtherTypes, brokerVars, pressureVars
    <3> QED BY <1>6, <3>1, <3>2
  <2>3. loop' = [loop EXCEPT ![l] = NewLoop(pc, NoEvent)]
    BY <2>1 DEF SetLoop, NewLoop
  <2>4. LoopFits(NewLoop(pc, NoEvent)) /\ NewLoop(pc, NoEvent).pc = pc
    BY NewLoopFits DEF Phases
  <2> QED BY <2>2, <2>3, <2>4, IdleStep
<1> QED BY <1>2, <1>3, <1>4, <1>5, <1>6

\* The types of the semaphores without their limits.
LEMMA SemaphoreTypes ==
  ASSUME TypeOK
  PROVE  /\ permits \in [Endpoints -> Nat]
         /\ slots \in [Workers -> Nat]
         /\ leaked \in [Endpoints -> Nat]
BY DEF TypeOK

LEMMA AdmissionStep ==
  ASSUME IInv, NEW l \in Loops, TakePermit(l) \/ TakeSlot(l)
  PROVE  IInv'
<1>0. TypeOK /\ OtherTypes
  BY DEF IInv, TypeOK, OtherTypes
<1>1. LoopFits(loop[l]) /\ (Busy(loop[l]) => loop[l].job \in Jobs) /\ WorkerOf[l] \in Workers
  BY <1>0, BusyLoops
<1>2. /\ permits \in [Endpoints -> Nat]
      /\ slots \in [Workers -> Nat]
      /\ leaked \in [Endpoints -> Nat]
  BY <1>0, SemaphoreTypes
<1> DEFINE job == loop[l].job
           e0 == EndpointOf[job]
           w0 == WorkerOf[l]
<1>3. CASE TakePermit(l)
  <2> DEFINE v == NewLoop("slot", job)
  <2>1. job \in Jobs /\ job # NoEvent /\ e0 \in Endpoints
    BY <1>1, <1>3, ConstantsAssumption DEF TakePermit, Busy
  <2>2. loop' = [loop EXCEPT ![l] = v]
    BY <1>3 DEF TakePermit, GoTo, SetLoop, NewLoop
  <2>3. LoopFits(v) /\ v.pc = "slot" /\ v.job = job
    BY <2>1, NewLoopFits DEF Phases
  <2>4. /\ permits[e0] > 0
        /\ permits' = [permits EXCEPT ![e0] = @ - 1]
        /\ UNCHANGED <<slots, leaked, paused, notifying>>
        /\ loop[l].pc = "permit"
    BY <1>3 DEF TakePermit, EndpointAt, pressureVars
  <2>5. OtherTypes'
    BY <1>0, <1>3 DEF TakePermit, OtherTypes, brokerVars, pressureVars
  <2>6. permits' \in [Endpoints -> Nat]
    BY <1>2, <2>1, <2>4
  <2> HIDE DEF v
  <2>7. Balanced(l, v)
    <3>1. ASSUME NEW e \in Endpoints
          PROVE  permits'[e] + leaked'[e] + Unit(HoldsPermit(v, e))
                   = permits[e] + leaked[e] + Unit(HoldsPermit(loop[l], e))
      <4>1. Unit(HoldsPermit(loop[l], e)) = 0
        BY <2>4 DEF HoldsPermit, Unit
      <4>2. Unit(HoldsPermit(v, e)) = IF e = e0 THEN 1 ELSE 0
        BY <2>3 DEF HoldsPermit, Unit
      <4>3. permits'[e] = IF e = e0 THEN permits[e] - 1 ELSE permits[e]
        BY <1>2, <2>4
      <4>4. permits[e] \in Nat /\ leaked[e] \in Nat /\ leaked'[e] = leaked[e]
        BY <1>2, <2>4
      <4> HIDE DEF e0
      <4> QED BY <4>1, <4>2, <4>3, <4>4
    <3>2. ASSUME NEW w \in Workers
          PROVE  slots'[w] + Unit(HoldsSlot(l, v, w))
                   = slots[w] + Unit(HoldsSlot(l, loop[l], w))
      BY <2>3, <2>4 DEF HoldsSlot, Unit
    <3> QED BY <3>1, <3>2 DEF Balanced
  <2> QED BY <1>2, <2>2, <2>3, <2>4, <2>5, <2>6, <2>7, HoldingStep
<1>4. CASE TakeSlot(l)
  <2>1. job \in Jobs /\ job # NoEvent
    BY <1>1, <1>4, ConstantsAssumption DEF TakeSlot, Busy
  <2>2. PICK pc \in {"running", "listening"} : GoTo(l, pc)
    BY <1>4 DEF TakeSlot
  <2> DEFINE v == NewLoop(pc, job)
  <2>3. loop' = [loop EXCEPT ![l] = v]
    BY <2>2 DEF GoTo, SetLoop, NewLoop
  <2>4. LoopFits(v) /\ v.pc = pc /\ v.job = job
    BY <2>1, NewLoopFits DEF Phases
  <2>5. /\ slots[w0] > 0
        /\ slots' = [slots EXCEPT ![w0] = @ - 1]
        /\ UNCHANGED <<permits, leaked, paused, notifying>>
        /\ loop[l].pc = "slot"
    BY <1>4 DEF TakeSlot, pressureVars
  <2>6. OtherTypes'
    <3>1. started' = [started EXCEPT ![job][w0] = IF @ < 2 THEN @ + 1 ELSE @]
      BY <1>4 DEF TakeSlot
    <3>2. started \in [Jobs -> [Workers -> 0..2]]
      BY <1>0 DEF OtherTypes
    <3>3. started[job] \in [Workers -> 0..2] /\ started[job][w0] \in 0..2
      BY <1>1, <2>1, <3>2
    <3> DEFINE n == IF started[job][w0] < 2 THEN started[job][w0] + 1 ELSE started[job][w0]
               g == [started[job] EXCEPT ![w0] = n]
    <3>4. started' = [started EXCEPT ![job] = g]
      BY <3>1
    <3>5. started' \in [Jobs -> [Workers -> 0..2]]
      <4>1. n \in 0..2
        BY <3>3
      <4> HIDE DEF n
      <4>2. g \in [Workers -> 0..2]
        BY <3>3, <4>1
      <4> HIDE DEF g
      <4> QED BY <3>2, <3>4, <4>2
    <3> QED BY <1>0, <1>4, <3>5 DEF TakeSlot, OtherTypes, brokerVars, pressureVars
  <2>7. slots' \in [Workers -> Nat]
    BY <1>1, <1>2, <2>5
  <2> HIDE DEF v
  <2>8. Balanced(l, v)
    <3>1. ASSUME NEW e \in Endpoints
          PROVE  permits'[e] + leaked'[e] + Unit(HoldsPermit(v, e))
                   = permits[e] + leaked[e] + Unit(HoldsPermit(loop[l], e))
      <4>1. HoldsPermit(v, e) <=> HoldsPermit(loop[l], e)
        BY <2>2, <2>4, <2>5 DEF HoldsPermit
      <4>2. permits'[e] = permits[e] /\ leaked'[e] = leaked[e]
        BY <2>5
      <4> QED BY <4>1, <4>2 DEF Unit
    <3>2. ASSUME NEW w \in Workers
          PROVE  slots'[w] + Unit(HoldsSlot(l, v, w))
                   = slots[w] + Unit(HoldsSlot(l, loop[l], w))
      <4>1. Unit(HoldsSlot(l, loop[l], w)) = 0
        BY <2>5 DEF HoldsSlot, Unit
      <4>2. Unit(HoldsSlot(l, v, w)) = IF w = w0 THEN 1 ELSE 0
        BY <2>4 DEF HoldsSlot, Unit
      <4>3. slots'[w] = IF w = w0 THEN slots[w] - 1 ELSE slots[w]
        BY <1>2, <2>5
      <4>4. slots[w] \in Nat
        BY <1>2
      <4> HIDE DEF w0
      <4> QED BY <4>1, <4>2, <4>3, <4>4
    <3> QED BY <3>1, <3>2 DEF Balanced
  <2> QED BY <1>2, <2>3, <2>4, <2>5, <2>6, <2>7, <2>8, HoldingStep
<1> QED BY <1>3, <1>4

\* A loop that leaves a run gives back its permit and its slot.
LEMMA Releases ==
  ASSUME IInv, NEW l \in Loops, NEW pc \in {"resting", "stopped"},
         loop[l].pc \in {"running", "listening"},
         SetLoop(l, pc, NoEvent),
         permits' = [permits EXCEPT ![EndpointAt(l)] = @ + 1],
         slots' = SlotsAfter(l),
         UNCHANGED <<leaked, paused, notifying>>,
         OtherTypes'
  PROVE  IInv'
<1>0. TypeOK
  BY DEF IInv
<1> DEFINE job == loop[l].job
           e0 == EndpointOf[job]
           w0 == WorkerOf[l]
           v == NewLoop(pc, NoEvent)
<1>1. /\ permits \in [Endpoints -> Nat]
      /\ slots \in [Workers -> Nat]
      /\ leaked \in [Endpoints -> Nat]
  BY <1>0, SemaphoreTypes
<1>2. e0 \in Endpoints /\ w0 \in Workers
  BY <1>0, BusyLoops DEF Busy, EndpointAt
<1>3. loop' = [loop EXCEPT ![l] = v]
  BY DEF SetLoop, NewLoop
<1>4. LoopFits(v) /\ v.pc = pc
  BY NewLoopFits DEF Phases
<1>5. /\ permits' = [permits EXCEPT ![e0] = @ + 1]
      /\ slots' = [slots EXCEPT ![w0] = @ + 1]
  BY DEF SlotsAfter, EndpointAt
<1>6. permits' \in [Endpoints -> Nat] /\ slots' \in [Workers -> Nat]
  BY <1>1, <1>2, <1>5
<1> HIDE DEF v
<1>7. Balanced(l, v)
  <2>1. ASSUME NEW e \in Endpoints
        PROVE  permits'[e] + leaked'[e] + Unit(HoldsPermit(v, e))
                 = permits[e] + leaked[e] + Unit(HoldsPermit(loop[l], e))
    <3>1. Unit(HoldsPermit(v, e)) = 0
      BY <1>4 DEF HoldsPermit, Unit
    <3>2. Unit(HoldsPermit(loop[l], e)) = IF e = e0 THEN 1 ELSE 0
      BY DEF HoldsPermit, Unit
    <3>3. permits'[e] = IF e = e0 THEN permits[e] + 1 ELSE permits[e]
      BY <1>1, <1>5
    <3>4. permits[e] \in Nat /\ leaked[e] \in Nat /\ leaked'[e] = leaked[e]
      BY <1>1
    <3> HIDE DEF e0
    <3> QED BY <3>1, <3>2, <3>3, <3>4
  <2>2. ASSUME NEW w \in Workers
        PROVE  slots'[w] + Unit(HoldsSlot(l, v, w))
                 = slots[w] + Unit(HoldsSlot(l, loop[l], w))
    <3>1. Unit(HoldsSlot(l, v, w)) = 0
      BY <1>4 DEF HoldsSlot, Unit
    <3>2. Unit(HoldsSlot(l, loop[l], w)) = IF w = w0 THEN 1 ELSE 0
      BY DEF HoldsSlot, Unit
    <3>3. slots'[w] = IF w = w0 THEN slots[w] + 1 ELSE slots[w]
      BY <1>1, <1>5
    <3>4. slots[w] \in Nat
      BY <1>1
    <3> HIDE DEF w0
    <3> QED BY <3>1, <3>2, <3>3, <3>4
  <2> QED BY <2>1, <2>2 DEF Balanced
<1> QED BY <1>3, <1>4, <1>6, <1>7, HoldingStep

LEMMA DepartureStep ==
  ASSUME IInv, NEW l \in Loops, EndRun(l) \/ Cancel(l)
  PROVE  IInv'
<1>0. TypeOK /\ OtherTypes
  BY DEF IInv, TypeOK, OtherTypes
<1>1. CASE EndRun(l)
  <2>1. permits' = [permits EXCEPT ![EndpointAt(l)] = @ + 1]
    BY <1>1 DEF EndRun, PermitsAfter
  <2>2. OtherTypes'
    BY <1>0, <1>1 DEF EndRun, OtherTypes, brokerVars, pressureVars
  <2>3. /\ loop[l].pc \in {"running", "listening"}
        /\ SetLoop(l, "resting", NoEvent)
        /\ slots' = SlotsAfter(l)
        /\ UNCHANGED <<leaked, paused, notifying>>
    BY <1>1 DEF EndRun, pressureVars
  <2> QED BY <2>1, <2>2, <2>3, Releases
<1>2. CASE Cancel(l) /\ loop[l].pc \in Working
  <2>1. /\ permits' = [permits EXCEPT ![EndpointAt(l)] = @ + 1]
        /\ slots' = SlotsAfter(l)
        /\ SetLoop(l, "stopped", NoEvent)
        /\ loop[l].pc \in {"running", "listening"}
        /\ UNCHANGED <<leaked, paused, notifying>>
    BY <1>2 DEF Cancel, PermitsAfter, Working, pressureVars
  <2>2. OtherTypes'
    BY <1>0, <1>2, <2>1, ConstantsAssumption DEF Cancel, OtherTypes, brokerVars, pressureVars
  <2> QED BY <2>1, <2>2, Releases
<1>3. CASE Cancel(l) /\ loop[l].pc \notin Working
  <2> DEFINE v == NewLoop("stopped", NoEvent)
  <2>1. LoopFits(v) /\ v.pc = "stopped"
    BY NewLoopFits DEF Phases
  <2>2. loop' = [loop EXCEPT ![l] = v]
    BY <1>3 DEF Cancel, SetLoop, NewLoop
  <2>3. UNCHANGED <<permits, slots, paused, notifying>>
    BY <1>3 DEF Cancel, pressureVars
  <2>4. loop[l].pc \notin {"running", "listening"}
    BY <1>3 DEF Working
  <2>5. stops' \in 0..MaxStops
    BY <1>0, <1>3, ConstantsAssumption DEF Cancel, OtherTypes
  <2> HIDE DEF v
  <2>6. CASE loop[l].pc # "slot"
    <3>1. UNCHANGED leaked
      BY <1>3, <2>6 DEF Cancel
    <3>2. OtherTypes'
      BY <1>0, <1>3, <2>5, <3>1 DEF Cancel, OtherTypes, brokerVars, pressureVars
    <3> QED BY <2>1, <2>2, <2>3, <2>4, <2>6, <3>1, <3>2, IdleStep
  <2>7. CASE loop[l].pc = "slot"
    <3> DEFINE e0 == EndpointOf[loop[l].job]
    <3>1. e0 \in Endpoints
      BY <1>0, <2>7, BusyLoops DEF Busy, EndpointAt
    <3>2. /\ permits \in [Endpoints -> Nat]
          /\ slots \in [Workers -> Nat]
          /\ leaked \in [Endpoints -> Nat]
      BY <1>0, SemaphoreTypes
    <3>3. leaked' = [leaked EXCEPT ![e0] = @ + 1]
      BY <1>3, <2>7 DEF Cancel, EndpointAt
    <3>4. leaked' \in [Endpoints -> Nat]
      BY <3>1, <3>2, <3>3
    <3>5. OtherTypes'
      BY <1>0, <1>3, <2>5, <3>4 DEF Cancel, OtherTypes, brokerVars, pressureVars
    <3>6. Balanced(l, v)
      <4>1. ASSUME NEW e \in Endpoints
            PROVE  permits'[e] + leaked'[e] + Unit(HoldsPermit(v, e))
                     = permits[e] + leaked[e] + Unit(HoldsPermit(loop[l], e))
        <5>1. Unit(HoldsPermit(v, e)) = 0
          BY <2>1 DEF HoldsPermit, Unit
        <5>2. Unit(HoldsPermit(loop[l], e)) = IF e = e0 THEN 1 ELSE 0
          BY <2>7 DEF HoldsPermit, Unit
        <5>3. leaked'[e] = IF e = e0 THEN leaked[e] + 1 ELSE leaked[e]
          BY <3>2, <3>3
        <5>4. permits[e] \in Nat /\ leaked[e] \in Nat /\ permits'[e] = permits[e]
          BY <2>3, <3>2
        <5> HIDE DEF e0
        <5> QED BY <5>1, <5>2, <5>3, <5>4
      <4>2. ASSUME NEW w \in Workers
            PROVE  slots'[w] + Unit(HoldsSlot(l, v, w))
                     = slots[w] + Unit(HoldsSlot(l, loop[l], w))
        BY <2>1, <2>3, <2>4 DEF HoldsSlot, Unit
      <4> QED BY <4>1, <4>2 DEF Balanced
    <3>7. permits' \in [Endpoints -> Nat] /\ slots' \in [Workers -> Nat]
      BY <2>3, <3>2
    <3> QED BY <2>1, <2>2, <2>3, <3>5, <3>6, <3>7, HoldingStep
  <2> QED BY <2>6, <2>7
<1> QED BY <1>1, <1>2, <1>3

\* Steps that change no semaphore and no holder.
LEMMA HoldersKept ==
  ASSUME SemaphoresConserved,
         UNCHANGED <<permits, slots, leaked>>,
         \A e \in Endpoints : Holders(e)' = Holders(e),
         \A w \in Workers : Runners(w)' = Runners(w)
  PROVE  SemaphoresConserved'
BY DEF SemaphoresConserved

LEMMA PublishStep ==
  ASSUME IInv, NEW event \in Events, Publish(event)
  PROVE  IInv'
<1>1. topic' \in Seq(Events)
  BY DEF IInv, TypeOK, Publish
<1>2. /\ \A e \in Endpoints : Holders(e)' = Holders(e)
      /\ \A w \in Workers : Runners(w)' = Runners(w)
  BY DEF Publish, Holders, Runners, Working, EndpointAt
<1>3. SemaphoresConserved'
  BY <1>2, HoldersKept DEF Publish, IInv
<1>4. TypeOK'
  BY <1>1 DEF IInv, TypeOK, Publish, pressureVars
<1>5. NoLostWakeup'
  BY DEF IInv, NoLostWakeup, Publish, pressureVars, EndpointAt
<1> QED BY <1>3, <1>4, <1>5 DEF IInv

LEMMA ReportStep ==
  ASSUME IInv, NEW e \in Endpoints, NEW d \in Depths, UpdateDepth(e, d)
  PROVE  IInv'
<1>0. d \in Nat /\ High \in Nat /\ Low \in Nat /\ Low < High
  BY ConstantsAssumption
<1>1. /\ paused' \subseteq Endpoints
      /\ notifying' \subseteq Endpoints
      /\ paused \union notifying \subseteq paused' \union notifying'
  <2>1. paused' = PausedAt(e, d) /\ notifying' = WokenAt(e, d)
    BY DEF UpdateDepth
  <2>2. paused \subseteq Endpoints /\ notifying \subseteq Endpoints
    BY DEF IInv, TypeOK
  <2>3. CASE d >= High
    <3>1. paused' = paused \union {e} /\ notifying' = notifying
      BY <1>0, <2>1, <2>3 DEF PausedAt, WokenAt
    <3> QED BY <2>2, <3>1
  <2>4. CASE d <= Low
    <3>1. paused' = paused \ {e} /\ notifying' = notifying \union {e}
      BY <1>0, <2>1, <2>4 DEF PausedAt, WokenAt
    <3> QED BY <2>2, <3>1
  <2>5. CASE ~ (d >= High) /\ ~ (d <= Low)
    <3>1. paused' = paused /\ notifying' = notifying
      BY <1>0, <2>1, <2>5 DEF PausedAt, WokenAt
    <3> QED BY <2>2, <3>1
  <2> QED BY <2>3, <2>4, <2>5
<1>2. /\ \A f \in Endpoints : Holders(f)' = Holders(f)
      /\ \A w \in Workers : Runners(w)' = Runners(w)
  BY DEF UpdateDepth, Holders, Runners, Working, EndpointAt
<1>3. SemaphoresConserved'
  BY <1>2, HoldersKept DEF UpdateDepth, IInv
<1>4. reports' \in 0..MaxReports
  BY ConstantsAssumption DEF IInv, TypeOK, UpdateDepth
<1>5. TypeOK'
  BY <1>1, <1>4 DEF IInv, TypeOK, UpdateDepth, brokerVars
<1>6. NoLostWakeup'
  BY <1>1 DEF IInv, NoLostWakeup, UpdateDepth, EndpointAt
<1> QED BY <1>3, <1>5, <1>6 DEF IInv

LEMMA NotifyStep ==
  ASSUME IInv, NEW e \in Endpoints, Notify(e)
  PROVE  IInv'
<1>0. loop \in [Loops -> Loop]
  BY DEF IInv, TypeOK
<1>1. \A l \in Loops :
        loop'[l] = IF loop[l].pc = "parked" /\ EndpointAt(l) = e
                   THEN [loop[l] EXCEPT !.pc = "gate"] ELSE loop[l]
  BY DEF Notify
<1>2. \A l \in Loops :
        /\ loop'[l] \in Loop
        /\ loop'[l].job = loop[l].job
        /\ loop'[l].pc = IF loop[l].pc = "parked" /\ EndpointAt(l) = e
                         THEN "gate" ELSE loop[l].pc
  <2> TAKE l \in Loops
  <2>1. loop[l] \in Loop
    BY <1>0
  <2> QED BY <1>1, <2>1 DEF Loop, Phases
<1>3. loop' \in [Loops -> Loop]
  <2>1. loop' = [l \in Loops |-> loop'[l]]
    BY DEF Notify
  <2> QED BY <1>2, <2>1
<1>4. /\ \A f \in Endpoints : Holders(f)' = Holders(f)
      /\ \A w \in Workers : Runners(w)' = Runners(w)
  BY <1>2 DEF Holders, Runners, Working, EndpointAt
<1>5. SemaphoresConserved'
  BY <1>4, HoldersKept DEF Notify, IInv
<1>6. \A l \in Loops :
        loop'[l].job = NoEvent <=> loop'[l].pc \in {"consuming", "resting", "stopped"}
  BY <1>2 DEF IInv, TypeOK
<1>7. TypeOK'
  BY <1>3, <1>6 DEF IInv, TypeOK, Notify, brokerVars
<1>8. NoLostWakeup'
  BY <1>2 DEF IInv, NoLostWakeup, Notify, EndpointAt
<1> QED BY <1>5, <1>7, <1>8 DEF IInv

LEMMA NextIInv == IInv /\ [Next]_vars => IInv'
<1> SUFFICES ASSUME IInv, [Next]_vars PROVE IInv'
  OBVIOUS
<1>1. ASSUME NEW event \in Events, Publish(event) PROVE IInv'
  BY <1>1, PublishStep
<1>2. ASSUME NEW l \in Loops,
             Ask(l) \/ Take(l) \/ Hear(l) \/ PassGate(l) \/ NextRound(l) \/ Stop(l)
      PROVE  IInv'
  BY <1>2, RoundStep
<1>3. ASSUME NEW l \in Loops, TakePermit(l) \/ TakeSlot(l) PROVE IInv'
  BY <1>3, AdmissionStep
<1>4. ASSUME NEW l \in Loops, EndRun(l) \/ Cancel(l) PROVE IInv'
  BY <1>4, DepartureStep
<1>5. ASSUME NEW e \in Endpoints, Notify(e) PROVE IInv'
  BY <1>5, NotifyStep
<1>6. ASSUME NEW e \in Endpoints, NEW d \in Depths, UpdateDepth(e, d) PROVE IInv'
  BY <1>6, ReportStep
<1>7. CASE UNCHANGED vars
  <2>1. /\ \A f \in Endpoints : Holders(f)' = Holders(f)
        /\ \A w \in Workers : Runners(w)' = Runners(w)
    BY <1>7 DEF vars, Holders, Runners, Working, EndpointAt
  <2>2. SemaphoresConserved'
    BY <1>7, <2>1, HoldersKept DEF vars, IInv
  <2>3. TypeOK' /\ NoLostWakeup'
    BY <1>7 DEF vars, IInv, TypeOK, NoLostWakeup, EndpointAt
  <2> QED BY <2>2, <2>3 DEF IInv
<1> QED BY <1>1, <1>2, <1>3, <1>4, <1>5, <1>6, <1>7 DEF Next

-----------------------------------------------------------------------------
(***************************************************************************)
(* Theorems                                                                *)
(***************************************************************************)

\* Whatever loops, jobs, brokers and limits there are: types, conservation
\* and wake-ups hold together in every reachable state.
THEOREM InductiveInvariant == Spec => []IInv
<1>1. Init => IInv
  BY InitIInv
<1>2. IInv /\ [Next]_vars => IInv'
  BY NextIInv
<1> QED BY <1>1, <1>2, PTL DEF Spec

\* Every variable keeps its type; no semaphore exceeds its limit.
THEOREM TypeCorrect == Spec => []TypeOK
<1>1. IInv => TypeOK
  BY DEF IInv
<1> QED BY <1>1, InductiveInvariant, PTL

\* Permits and slots are neither lost nor made up, whatever a run raises and
\* whenever a loop is cancelled: worker.py:56-70 and backpressure.py:40-47.
THEOREM Conservation == Spec => []SemaphoresConserved
<1>1. IInv => SemaphoresConserved
  BY DEF IInv
<1> QED BY <1>1, InductiveInvariant, PTL

\* A job that sleeps at the gate of its endpoint has a reason, a pause, or
\* its wake-up is under way: backpressure.py:25-43.
THEOREM Wakeups == Spec => []NoLostWakeup
<1>1. IInv => NoLostWakeup
  BY DEF IInv
<1> QED BY <1>1, InductiveInvariant, PTL

-----------------------------------------------------------------------------
(***************************************************************************)
(* Executions of a job.  Where readers of a source advance it one event at *)
(* a time, an event that it has passed is in the hands of one loop or has  *)
(* been started once.                                                      *)
(***************************************************************************)

\* The broker object that worker w reads.
SourceIn(k, w) == IF k = "queue" THEN Shared ELSE w
Source(w) == SourceIn(kind, w)

\* No two reads of w's source can start from the same position.
AloneIn(k, w) ==
  k = "queue" \/ \A l, m \in Loops : WorkerOf[l] = w /\ WorkerOf[m] = w => l = m
Alone(w) == AloneIn(kind, w)

\* Broker object b has passed event j.
PassedIn(p, t, b, j) == \E k \in DOMAIN t : k <= p[b] /\ t[k] = j
Passed(b, j) == PassedIn(position, topic, b, j)

Waits(v) == v.pc \in {"parked", "gate", "permit", "slot"}

PublishedOnce == \A i, k \in DOMAIN topic : topic[i] = topic[k] => i = k
HeldIsPassed ==
  \A l \in Loops : Alone(WorkerOf[l]) /\ loop[l].job # NoEvent =>
    Passed(Source(WorkerOf[l]), loop[l].job)
StartedIsPassed ==
  \A w \in Workers, j \in Jobs : Alone(w) /\ started[j][w] > 0 => Passed(Source(w), j)
AskedIsCurrent ==
  \A l \in Loops : kind = "stream" /\ Alone(WorkerOf[l]) =>
    loop[l].asked \in {NotAsked, position[WorkerOf[l]]}
HeldByOne ==
  \A l, m \in Loops :
    /\ Alone(WorkerOf[l])
    /\ Source(WorkerOf[l]) = Source(WorkerOf[m])
    /\ loop[l].job = loop[m].job
    /\ loop[l].job # NoEvent
    => l = m
WaitingNotStarted ==
  \A l \in Loops, w \in Workers :
    Alone(w) /\ Source(w) = Source(WorkerOf[l]) /\ Waits(loop[l])
      => started[loop[l].job][w] = 0
StartedOnce == \A w \in Workers, j \in Jobs : Alone(w) => started[j][w] <= 1
StartedByOne ==
  \A v, w \in Workers, j \in Jobs :
    Alone(v) /\ Source(v) = Source(w) /\ started[j][v] > 0 /\ started[j][w] > 0 => v = w

OnceInv ==
  /\ PublishedOnce /\ HeldIsPassed /\ StartedIsPassed /\ AskedIsCurrent
  /\ HeldByOne /\ WaitingNotStarted /\ StartedOnce /\ StartedByOne

LEMMA OnceInit == Init => OnceInv
<1> SUFFICES ASSUME Init PROVE OnceInv
  OBVIOUS
<1>1. PublishedOnce
  BY DEF Init, PublishedOnce
<1>2. \A l \in Loops : /\ loop[l].job = NoEvent
                       /\ loop[l].asked = NotAsked
                       /\ ~ Waits(loop[l])
  BY DEF Init, Waits
<1>3. \A w \in Workers, j \in Jobs : started[j][w] = 0
  BY DEF Init
<1>4. HeldIsPassed /\ AskedIsCurrent /\ HeldByOne /\ WaitingNotStarted
  BY <1>2 DEF HeldIsPassed, AskedIsCurrent, HeldByOne, WaitingNotStarted
<1>5. StartedIsPassed /\ StartedOnce /\ StartedByOne
  BY <1>3 DEF StartedIsPassed, StartedOnce, StartedByOne
<1> QED BY <1>1, <1>4, <1>5 DEF OnceInv

LEMMA OnceImplies == TypeOK /\ OnceInv => RunsAtMostOnce
<1> SUFFICES ASSUME TypeOK, OnceInv, NEW j \in Jobs, NEW v \in Workers, NEW w \in Workers
             PROVE  /\ started[j][v] > 0 /\ started[j][w] > 0 => kind = "stream" \/ v = w
                    /\ started[j][w] > 1 =>
                         kind = "stream" /\ \E l, m \in Loops :
                           l # m /\ WorkerOf[l] = w /\ WorkerOf[m] = w
  BY DEF RunsAtMostOnce
<1>0. kind \in {"queue", "stream"} /\ started[j][w] \in 0..2
  BY DEF TypeOK
<1>1. ASSUME started[j][v] > 0, started[j][w] > 0, kind # "stream"
      PROVE  v = w
  <2>1. Alone(v) /\ Source(v) = Source(w)
    BY <1>0, <1>1 DEF Alone, AloneIn, Source, SourceIn
  <2> QED BY <1>1, <2>1 DEF OnceInv, StartedByOne
<1>2. ASSUME started[j][w] > 1 PROVE ~ Alone(w)
  BY <1>0, <1>2 DEF OnceInv, StartedOnce
<1> QED BY <1>0, <1>1, <1>2 DEF Alone, AloneIn

\* A step that starts nothing and gives no loop a job.
LEMMA OnceKept ==
  ASSUME OnceInv, UNCHANGED <<brokerVars, started>>,
         \A l \in Loops :
           /\ loop'[l].job \in {loop[l].job, NoEvent}
           /\ Waits(loop'[l]) => Waits(loop[l]) /\ loop'[l].job = loop[l].job
           /\ loop'[l].asked \in {NotAsked, loop[l].asked, position[WorkerOf[l]]}
  PROVE  OnceInv'
<1>0. kind' = kind /\ topic' = topic /\ position' = position /\ started' = started
  BY DEF brokerVars
<1>1. /\ \A w : Alone(w)' <=> Alone(w)
      /\ \A w : Source(w)' = Source(w)
      /\ \A b, j : Passed(b, j)' <=> Passed(b, j)
  BY <1>0 DEF Alone, AloneIn, Source, SourceIn, Passed, PassedIn
<1>2. PublishedOnce' /\ StartedOnce' /\ StartedIsPassed' /\ StartedByOne'
  BY <1>0, <1>1 DEF OnceInv, PublishedOnce, StartedOnce, StartedIsPassed, StartedByOne
<1>3. HeldIsPassed'
  BY <1>0, <1>1 DEF OnceInv, HeldIsPassed
<1>4. AskedIsCurrent'
  BY <1>0, <1>1 DEF OnceInv, AskedIsCurrent
<1>5. HeldByOne'
  BY <1>0, <1>1 DEF OnceInv, HeldByOne
<1>6. WaitingNotStarted'
  BY <1>0, <1>1 DEF OnceInv, WaitingNotStarted
<1> QED BY <1>2, <1>3, <1>4, <1>5, <1>6 DEF OnceInv

\* A source that is read one event at a time moves past the event received,
\* and past nothing else.
LEMMA Received ==
  ASSUME TypeOK, OnceInv, NEW l \in Loops, NEW event \in Events, Receives(l, event)
  PROVE  /\ kind' = kind /\ topic' = topic
         /\ \A w : Alone(w)' <=> Alone(w)
         /\ \A w : Source(w)' = Source(w)
         /\ \A w \in Workers : \A j : Alone(w) /\ Passed(Source(w), j) => Passed(Source(w), j)'
         /\ Alone(WorkerOf[l]) =>
              /\ ~ Passed(Source(WorkerOf[l]), event)
              /\ Passed(Source(WorkerOf[l]), event)'
         /\ \A w \in Workers : kind = "stream" /\ w # WorkerOf[l] => position'[w] = position[w]
<1> DEFINE own == WorkerOf[l]
           b == Source(own)
           n == NextPosition(l)
<1>1. /\ kind' = kind /\ topic' = topic
      /\ n \in DOMAIN topic /\ topic[n] = event
      /\ position' = [position EXCEPT ![b] = n]
      /\ kind = "stream" => loop[l].asked # NotAsked
  BY DEF Receives, BrokerOf, Source, SourceIn
<1>2. /\ kind \in {"queue", "stream"}
      /\ DOMAIN topic \subseteq Nat
      /\ position \in [Workers \union {Shared} -> Nat]
      /\ own \in Workers
  BY ConstantsAssumption DEF TypeOK
<1>3. /\ \A w : Alone(w)' <=> Alone(w)
      /\ \A w : Source(w)' = Source(w)
  BY <1>1 DEF Alone, AloneIn, Source, SourceIn
<1>4. b \in Workers \union {Shared}
  BY <1>2 DEF Source, SourceIn
<1>5. ASSUME Alone(own) PROVE n = position[b] + 1
  <2>1. CASE kind = "queue"
    BY <2>1 DEF NextPosition, Source, SourceIn
  <2>2. CASE kind = "stream"
    <3>1. loop[l].asked = position[own]
      BY <1>1, <1>5, <2>2 DEF OnceInv, AskedIsCurrent
    <3> QED BY <2>2, <3>1 DEF NextPosition, Source, SourceIn
  <2> QED BY <1>2, <2>1, <2>2
<1> HIDE DEF n, b
<1>6. /\ position'[b] = n
      /\ \A c \in Workers \union {Shared} : c # b => position'[c] = position[c]
  BY <1>1, <1>2, <1>4
<1>7. ASSUME NEW w \in Workers, NEW j, Alone(w), Passed(Source(w), j)
      PROVE  Passed(Source(w), j)'
  <2>1. Source(w) \in Workers \union {Shared}
    BY DEF Source, SourceIn
  <2>2. PICK k \in DOMAIN topic : k <= position[Source(w)] /\ topic[k] = j
    BY <1>7 DEF Passed, PassedIn
  <2>3. CASE Source(w) # b
    BY <1>1, <1>3, <1>6, <2>1, <2>2, <2>3 DEF Passed, PassedIn
  <2>4. CASE Source(w) = b
    <3>1. Alone(own)
      BY <1>2, <1>7, <2>4 DEF Alone, AloneIn, Source, SourceIn, b
    <3>2. k <= position'[b]
      <4>1. k \in Nat /\ position[b] \in Nat
        BY <1>2, <1>4
      <4> QED BY <1>5, <1>6, <2>2, <2>4, <3>1, <4>1
    <3> QED BY <1>1, <1>3, <2>2, <2>4, <3>2 DEF Passed, PassedIn
  <2> QED BY <2>3, <2>4
<1>8. ASSUME Alone(own)
      PROVE  ~ Passed(b, event) /\ Passed(b, event)'
  <2>1. ASSUME Passed(b, event) PROVE FALSE
    <3>1. PICK k \in DOMAIN topic : k <= position[b] /\ topic[k] = event
      BY <2>1 DEF Passed, PassedIn
    <3>2. k = n
      BY <1>1, <3>1 DEF OnceInv, PublishedOnce
    <3>3. k \in Nat /\ position[b] \in Nat
      BY <1>2, <1>4
    <3> QED BY <1>5, <1>8, <3>1, <3>2, <3>3
  <2>2. b' = b
    BY <1>3 DEF b
  <2>3. n <= n
    BY <1>1, <1>2
  <2>4. Passed(b, event)'
    BY <1>1, <1>6, <2>2, <2>3 DEF Passed, PassedIn
  <2> QED BY <2>1, <2>4
<1>9. ASSUME NEW w \in Workers, kind = "stream", w # own
      PROVE  position'[w] = position[w]
  BY <1>6, <1>9 DEF b, Source, SourceIn
<1> QED BY <1>1, <1>3, <1>7, <1>8, <1>9 DEF b

\* Workers that share a source are alone on it together.
LEMMA SharedSource ==
  ASSUME kind \in {"queue", "stream"}, NEW v \in Workers, NEW w \in Workers,
         Alone(v), Source(v) = Source(w)
  PROVE  Alone(w) /\ (kind = "stream" => v = w)
BY DEF Alone, AloneIn, Source, SourceIn

\* A loop receives an event: as its next job, or to no effect on its job.
LEMMA ReceiveStep ==
  ASSUME TypeOK, OnceInv, NEW l \in Loops, NEW event \in Events, Receives(l, event),
         UNCHANGED started,
         NEW v, loop' = [loop EXCEPT ![l] = v], v.asked = NotAsked,
         \/ v.job = event /\ event \in Jobs
         \/ v.job \in {loop[l].job, NoEvent} /\ ~ Waits(v)
  PROVE  OnceInv'
<1> DEFINE own == WorkerOf[l]
<1>1. /\ loop'[l] = v
      /\ \A m \in Loops : m # l => loop'[m] = loop[m]
      /\ \A m \in Loops : WorkerOf[m] \in Workers
      /\ kind \in {"queue", "stream"}
  BY ConstantsAssumption DEF TypeOK
<1>2. /\ kind' = kind /\ topic' = topic
      /\ \A w : Alone(w)' <=> Alone(w)
      /\ \A w : Source(w)' = Source(w)
      /\ \A w \in Workers : \A j : Alone(w) /\ Passed(Source(w), j) => Passed(Source(w), j)'
      /\ Alone(own) => ~ Passed(Source(own), event) /\ Passed(Source(own), event)'
      /\ \A w \in Workers : kind = "stream" /\ w # own => position'[w] = position[w]
  BY Received
<1>3. PublishedOnce' /\ StartedOnce' /\ StartedIsPassed' /\ StartedByOne'
  <2>1. PublishedOnce'
    BY <1>2 DEF OnceInv, PublishedOnce
  <2>2. StartedOnce'
    BY <1>2 DEF OnceInv, StartedOnce
  <2>3. StartedIsPassed'
    <3> SUFFICES ASSUME NEW w \in Workers, NEW j \in Jobs, Alone(w)', started'[j][w] > 0
                 PROVE  Passed(Source(w), j)'
      BY DEF StartedIsPassed
    <3> QED BY <1>2 DEF OnceInv, StartedIsPassed
  <2>4. StartedByOne'
    BY <1>2 DEF OnceInv, StartedByOne
  <2> QED BY <2>1, <2>2, <2>3, <2>4
<1>4. HeldIsPassed'
  <2> SUFFICES ASSUME NEW m \in Loops, Alone(WorkerOf[m]), loop'[m].job # NoEvent
               PROVE  PassedIn(position', topic', Source(WorkerOf[m]), loop'[m].job)
    BY <1>2 DEF HeldIsPassed, Alone, Source, Passed
  <2>1. CASE loop'[m].job = loop[m].job
    BY <1>1, <1>2, <2>1 DEF OnceInv, HeldIsPassed, Passed, Source, Alone
  <2>2. CASE m = l /\ v.job = event
    BY <1>1, <1>2, <2>2 DEF Passed, Source, Alone
  <2> QED BY <1>1, <2>1, <2>2
<1>5. AskedIsCurrent'
  <2> SUFFICES ASSUME NEW m \in Loops, kind = "stream", Alone(WorkerOf[m]), m # l
               PROVE  loop'[m].asked \in {NotAsked, position'[WorkerOf[m]]}
    BY <1>1, <1>2 DEF AskedIsCurrent
  <2>1. WorkerOf[m] # own
    BY DEF Alone, AloneIn
  <2> QED BY <1>1, <1>2, <2>1 DEF OnceInv, AskedIsCurrent
<1>6. HeldByOne'
  <2> SUFFICES ASSUME NEW m \in Loops, NEW o \in Loops, Alone(WorkerOf[m]),
                      Source(WorkerOf[m]) = Source(WorkerOf[o]),
                      loop'[m].job = loop'[o].job, loop'[m].job # NoEvent
               PROVE  m = o
    BY <1>2 DEF HeldByOne
  <2>1. Alone(WorkerOf[o])
    BY <1>1, SharedSource
  <2>2. CASE v.job = event /\ event \in Jobs
    <3>1. ASSUME NEW k \in Loops, Alone(WorkerOf[k]), Source(WorkerOf[k]) = Source(own),
                 loop[k].job # NoEvent
          PROVE  loop[k].job # event
      <4>1. Alone(own)
        BY <1>1, <3>1, SharedSource
      <4>2. Passed(Source(own), loop[k].job)
        BY <3>1 DEF OnceInv, HeldIsPassed
      <4> QED BY <1>2, <4>1, <4>2
    <3>2. event # NoEvent
      BY ConstantsAssumption DEF Events
    <3>3. CASE m = l /\ o # l
      BY <1>1, <2>1, <2>2, <3>1, <3>2, <3>3
    <3>4. CASE o = l /\ m # l
      BY <1>1, <2>1, <2>2, <3>1, <3>2, <3>4
    <3>5. CASE m # l /\ o # l
      BY <1>1, <3>5 DEF OnceInv, HeldByOne
    <3> QED BY <3>3, <3>4, <3>5
  <2>3. CASE v.job \in {loop[l].job, NoEvent} /\ ~ Waits(v)
    BY <1>1, <2>3 DEF OnceInv, HeldByOne
  <2> QED BY <2>2, <2>3
<1>7. WaitingNotStarted'
  <2> SUFFICES ASSUME NEW m \in Loops, NEW w \in Workers, Alone(w),
                      Source(w) = Source(WorkerOf[m]), Waits(loop'[m])
               PROVE  started[loop'[m].job][w] = 0
    BY <1>2 DEF WaitingNotStarted, Waits
  <2>1. CASE m # l
    BY <1>1, <2>1 DEF OnceInv, WaitingNotStarted
  <2>2. CASE m = l
    <3>1. v.job = event /\ event \in Jobs
      BY <1>1, <2>2
    <3>2. Alone(own)
      BY <1>1, <2>2, SharedSource
    <3>3. ~ (started[event][w] > 0)
      BY <1>2, <2>2, <3>1, <3>2 DEF OnceInv, StartedIsPassed
    <3>4. started[event][w] \in 0..2
      BY <3>1 DEF TypeOK
    <3> QED BY <1>1, <2>2, <3>1, <3>3, <3>4
  <2> QED BY <2>1, <2>2
<1> QED BY <1>3, <1>4, <1>5, <1>6, <1>7 DEF OnceInv

LEMMA PublishOnce ==
  ASSUME TypeOK, OnceInv, NEW event \in Events, Publish(event)
  PROVE  OnceInv'
<1>1. /\ kind' = kind /\ position' = position /\ loop' = loop /\ started' = started
      /\ topic' = Append(topic, event)
      /\ \A k \in DOMAIN topic : topic[k] # event
      /\ topic \in Seq(Events)
  BY DEF Publish, TypeOK
<1>2. /\ DOMAIN topic' = DOMAIN topic \union {Len(topic) + 1}
      /\ \A k \in DOMAIN topic : topic'[k] = topic[k]
      /\ topic'[Len(topic) + 1] = event
  BY <1>1
<1>3. /\ \A w : Alone(w)' <=> Alone(w)
      /\ \A w : Source(w)' = Source(w)
      /\ \A b, j : Passed(b, j) => Passed(b, j)'
  BY <1>1, <1>2 DEF Alone, AloneIn, Source, SourceIn, Passed, PassedIn
<1>4. PublishedOnce'
  BY <1>1, <1>2 DEF OnceInv, PublishedOnce
<1>5. HeldIsPassed' /\ StartedIsPassed'
  BY <1>1, <1>3 DEF OnceInv, HeldIsPassed, StartedIsPassed
<1>6. AskedIsCurrent' /\ StartedOnce'
  BY <1>1, <1>3 DEF OnceInv, AskedIsCurrent, StartedOnce
<1>7. HeldByOne' /\ StartedByOne'
  BY <1>1, <1>3 DEF OnceInv, HeldByOne, StartedByOne
<1>8. WaitingNotStarted'
  BY <1>1, <1>3 DEF OnceInv, WaitingNotStarted
<1> QED BY <1>4, <1>5, <1>6, <1>7, <1>8 DEF OnceInv

\* A run starts: its loop was the only one to hold the job, and the job had
\* not been started.
LEMMA StartOnce ==
  ASSUME TypeOK, OnceInv, NEW l \in Loops, TakeSlot(l)
  PROVE  OnceInv'
<1> DEFINE own == WorkerOf[l]
           job == loop[l].job
<1>1. /\ kind' = kind /\ topic' = topic /\ position' = position
      /\ loop[l].pc = "slot" /\ Waits(loop[l])
      /\ \A m \in Loops : m # l => loop'[m] = loop[m]
      /\ loop'[l].job = job /\ ~ Waits(loop'[l]) /\ loop'[l].asked = NotAsked
  BY DEF TakeSlot, brokerVars, GoTo, SetLoop, Waits, TypeOK
<1>2. /\ \A w : Alone(w)' <=> Alone(w)
      /\ \A w : Source(w)' = Source(w)
      /\ \A b, j : Passed(b, j)' <=> Passed(b, j)
  BY <1>1 DEF Alone, Source, Passed
<1>3. /\ kind \in {"queue", "stream"}
      /\ \A m \in Loops : WorkerOf[m] \in Workers
      /\ job \in Jobs /\ job # NoEvent
      /\ \A j \in Jobs, w \in Workers : started[j][w] \in 0..2
  <2>1. job \in Jobs
    BY <1>1, BusyLoops DEF Busy
  <2> QED BY <2>1, ConstantsAssumption DEF TypeOK
<1>4. \A j \in Jobs, w \in Workers :
        started'[j][w] = IF j = job /\ w = own
                         THEN IF started[j][w] < 2 THEN started[j][w] + 1 ELSE started[j][w]
                         ELSE started[j][w]
  <2>1. started' = [started EXCEPT ![job][own] = IF @ < 2 THEN @ + 1 ELSE @]
    BY DEF TakeSlot
  <2>2. started \in [Jobs -> [Workers -> 0..2]]
    BY DEF TypeOK
  <2> QED BY <1>3, <2>1, <2>2
<1> HIDE DEF job
<1>5. \A w \in Workers : Alone(w) /\ Source(w) = Source(own) => started[job][w] = 0
  BY <1>1 DEF OnceInv, WaitingNotStarted, job
<1>6. PublishedOnce' /\ AskedIsCurrent'
  BY <1>1, <1>2 DEF OnceInv, PublishedOnce, AskedIsCurrent
<1>7. HeldIsPassed' /\ HeldByOne'
  BY <1>1, <1>2 DEF OnceInv, HeldIsPassed, HeldByOne, job
<1>8. StartedIsPassed'
  <2> SUFFICES ASSUME NEW w \in Workers, NEW j \in Jobs, Alone(w), started'[j][w] > 0
               PROVE  Passed(Source(w), j)
    BY <1>2 DEF StartedIsPassed
  <2>1. CASE j = job /\ w = own
    BY <1>1, <1>3, <2>1 DEF OnceInv, HeldIsPassed, job
  <2>2. CASE ~ (j = job /\ w = own)
    BY <1>4, <2>2 DEF OnceInv, StartedIsPassed
  <2> QED BY <2>1, <2>2
<1>9. WaitingNotStarted'
  <2> SUFFICES ASSUME NEW m \in Loops, NEW w \in Workers, Alone(w),
                      Source(w) = Source(WorkerOf[m]), Waits(loop'[m])
               PROVE  started'[loop'[m].job][w] = 0
    BY <1>2 DEF WaitingNotStarted, Waits
  <2>1. m # l /\ loop'[m] = loop[m] /\ Waits(loop[m])
    BY <1>1
  <2>2. loop[m].job \in Jobs /\ started[loop[m].job][w] = 0
    BY <2>1, BusyLoops DEF OnceInv, WaitingNotStarted, Waits, Busy
  <2>3. ~ (loop[m].job = job /\ w = own)
    BY <1>1, <1>3, <2>1 DEF OnceInv, HeldByOne, job
  <2> QED BY <1>4, <2>1, <2>2, <2>3
<1>10. StartedOnce'
  <2> SUFFICES ASSUME NEW w \in Workers, NEW j \in Jobs, Alone(w)
               PROVE  started'[j][w] <= 1
    BY <1>2 DEF StartedOnce
  <2>1. CASE j = job /\ w = own
    BY <1>3, <1>4, <1>5, <2>1
  <2>2. CASE ~ (j = job /\ w = own)
    BY <1>4, <2>2 DEF OnceInv, StartedOnce
  <2> QED BY <2>1, <2>2
<1>11. StartedByOne'
  <2> SUFFICES ASSUME NEW v \in Workers, NEW w \in Workers, NEW j \in Jobs, Alone(v),
                      Source(v) = Source(w), started'[j][v] > 0, started'[j][w] > 0
               PROVE  v = w
    BY <1>2 DEF StartedByOne
  <2>1. Alone(w)
    BY <1>3, SharedSource
  <2>2. CASE j = job /\ v = own /\ w # own
    BY <1>4, <1>5, <2>1, <2>2
  <2>3. CASE j = job /\ w = own /\ v # own
    BY <1>4, <1>5, <2>3
  <2>4. CASE ~ (j = job /\ (v = own \/ w = own))
    BY <1>4, <2>4 DEF OnceInv, StartedByOne
  <2> QED BY <2>2, <2>3, <2>4
<1> QED BY <1>6, <1>7, <1>8, <1>9, <1>10, <1>11 DEF OnceInv

LEMMA NextOnce == IInv /\ OnceInv /\ [Next]_vars => OnceInv'
<1> SUFFICES ASSUME IInv, OnceInv, [Next]_vars PROVE OnceInv'
  OBVIOUS
<1>0. TypeOK
  BY DEF IInv
<1>a. loop \in [Loops -> Loop]
  BY <1>0 DEF TypeOK
<1>1. ASSUME NEW event \in Events, Publish(event) PROVE OnceInv'
  BY <1>0, <1>1, PublishOnce
<1>2. ASSUME NEW l \in Loops, TakeSlot(l) PROVE OnceInv'
  BY <1>0, <1>2, StartOnce
<1>3. ASSUME NEW l \in Loops, Take(l) PROVE OnceInv'
  <2>1. PICK event \in Events :
          /\ Receives(l, event)
          /\ \/ event \in Signals /\ GoTo(l, "consuming")
             \/ event \in Jobs /\ GoTo(l, "resting")
             \/ event \in Jobs /\ SetLoop(l, GateOf(EndpointOf[event]), event)
    BY <1>3 DEF Take
  <2>2. UNCHANGED started
    BY <1>3 DEF Take
  <2>3. ASSUME NEW pc \in {"consuming", "resting"}, GoTo(l, pc) PROVE OnceInv'
    <3> DEFINE v == NewLoop(pc, loop[l].job)
    <3>1. loop' = [loop EXCEPT ![l] = v]
      BY <2>3 DEF GoTo, SetLoop, NewLoop
    <3>2. v.asked = NotAsked /\ v.job = loop[l].job /\ ~ Waits(v)
      BY DEF NewLoop, Waits
    <3> HIDE DEF v
    <3> QED BY <1>0, <2>1, <2>2, <3>1, <3>2, ReceiveStep
  <2>4. ASSUME event \in Jobs, SetLoop(l, GateOf(EndpointOf[event]), event) PROVE OnceInv'
    <3> DEFINE v == NewLoop(GateOf(EndpointOf[event]), event)
    <3>1. loop' = [loop EXCEPT ![l] = v]
      BY <2>4 DEF SetLoop, NewLoop
    <3>2. v.asked = NotAsked /\ v.job = event
      BY DEF NewLoop
    <3> HIDE DEF v
    <3> QED BY <1>0, <2>1, <2>2, <2>4, <3>1, <3>2, ReceiveStep
  <2> QED BY <2>1, <2>3, <2>4
<1>4. ASSUME NEW l \in Loops, Hear(l) PROVE OnceInv'
  <2>1. PICK event \in Events, pc \in {"running", "listening"} :
          Receives(l, event) /\ GoTo(l, pc)
    BY <1>4 DEF Hear
  <2> DEFINE v == NewLoop(pc, loop[l].job)
  <2>2. loop' = [loop EXCEPT ![l] = v] /\ UNCHANGED started
    BY <1>4, <2>1 DEF Hear, GoTo, SetLoop, NewLoop
  <2>3. v.asked = NotAsked /\ v.job = loop[l].job /\ ~ Waits(v)
    BY DEF NewLoop, Waits
  <2> HIDE DEF v
  <2> QED BY <1>0, <2>1, <2>2, <2>3, ReceiveStep
<1>5. ASSUME NEW l \in Loops,
             \/ Ask(l) \/ PassGate(l) \/ TakePermit(l) \/ EndRun(l)
             \/ NextRound(l) \/ Stop(l) \/ Cancel(l)
      PROVE  OnceInv'
  <2>1. UNCHANGED <<brokerVars, started>>
    BY <1>5 DEF Ask, PassGate, TakePermit, EndRun, NextRound, Stop, Cancel
  <2>2. /\ \A m \in Loops : m # l => loop'[m] = loop[m]
        /\ loop'[l].job \in {loop[l].job, NoEvent}
        /\ Waits(loop'[l]) => Waits(loop[l]) /\ loop'[l].job = loop[l].job
        /\ loop'[l].asked \in {NotAsked, loop[l].asked, position[WorkerOf[l]]}
    <3>1. CASE Ask(l)
      BY <1>a, <3>1 DEF Ask, Loop, Waits
    <3>2. CASE PassGate(l)
      BY <1>a, <3>2 DEF PassGate, GoTo, SetLoop, Waits
    <3>3. CASE TakePermit(l)
      BY <1>a, <3>3 DEF TakePermit, GoTo, SetLoop, Waits
    <3>4. CASE EndRun(l) \/ NextRound(l) \/ Stop(l) \/ Cancel(l)
      <4>1. PICK pc \in {"resting", "consuming", "stopped"} : SetLoop(l, pc, NoEvent)
        BY <3>4 DEF EndRun, NextRound, Stop, Cancel
      <4>2. /\ loop' = [loop EXCEPT ![l] = loop'[l]]
            /\ loop'[l] = [pc |-> pc, job |-> NoEvent, asked |-> NotAsked]
        BY <1>a, <4>1 DEF SetLoop
      <4>3. \A m \in Loops : m # l => loop'[m] = loop[m]
        BY <1>a, <4>2
      <4>4. loop'[l].job = NoEvent /\ loop'[l].asked = NotAsked /\ ~ Waits(loop'[l])
        BY <4>2 DEF Waits
      <4> QED BY <4>3, <4>4
    <3> QED BY <1>5, <3>1, <3>2, <3>3, <3>4
  <2> QED BY <2>1, <2>2, OnceKept
<1>6. ASSUME NEW e \in Endpoints, Notify(e) PROVE OnceInv'
  <2>1. UNCHANGED <<brokerVars, started>>
    BY <1>6 DEF Notify
  <2>2. \A m \in Loops :
          /\ loop'[m].job = loop[m].job
          /\ Waits(loop'[m]) => Waits(loop[m])
          /\ loop'[m].asked = loop[m].asked
    <3> TAKE m \in Loops
    <3>1. loop[m] \in Loop
      BY <1>a
    <3>2. loop'[m] = IF loop[m].pc = "parked" /\ EndpointAt(m) = e
                     THEN [loop[m] EXCEPT !.pc = "gate"] ELSE loop[m]
      BY <1>6 DEF Notify
    <3> QED BY <3>1, <3>2 DEF Loop, Waits
  <2> QED BY <2>1, <2>2, OnceKept
<1>7. ASSUME NEW e \in Endpoints, NEW d \in Depths, UpdateDepth(e, d) PROVE OnceInv'
  BY <1>7, OnceKept DEF UpdateDepth
<1>8. CASE UNCHANGED vars
  BY <1>8, OnceKept DEF vars, brokerVars
<1> QED BY <1>1, <1>2, <1>3, <1>4, <1>5, <1>6, <1>7, <1>8 DEF Next

\* A job of a queue is executed at most once, and so is a job of a stream by
\* every worker that has a single loop: broker.py:70-112, 209-217, 274-278.
THEOREM Executions == Spec => []RunsAtMostOnce
<1>1. Init => OnceInv
  BY OnceInit
<1>2. IInv /\ OnceInv /\ [Next]_vars => OnceInv'
  BY NextOnce
<1>3. IInv /\ OnceInv => RunsAtMostOnce
  BY OnceImplies DEF IInv
<1> QED BY <1>1, <1>2, <1>3, InductiveInvariant, PTL DEF Spec
=============================================================================
