------------------------------ MODULE JobQueue ------------------------------
(***************************************************************************)
(* What a run queue promises its clients: a submitted job waits, is held   *)
(* by one executor at a time, goes back to waiting when its executor is    *)
(* lost, and once settled is never executed again.                         *)
(***************************************************************************)
CONSTANTS Jobs, Executors, Nobody   \* Nobody is no executor

VARIABLES
  stage,   \* how far each job has come
  holder   \* the executor of each job

vars == <<stage, holder>>

TypeOK ==
  /\ stage \in [Jobs -> {"unknown", "waiting", "held", "settled"}]
  /\ holder \in [Jobs -> Executors \union {Nobody}]

Init ==
  /\ stage = [j \in Jobs |-> "unknown"]
  /\ holder = [j \in Jobs |-> Nobody]

Submit(j) ==
  /\ stage[j] = "unknown"
  /\ stage' = [stage EXCEPT ![j] = "waiting"]
  /\ UNCHANGED holder

Take(j, e) ==
  /\ stage[j] = "waiting"
  /\ \A i \in Jobs : holder[i] # e
  /\ stage' = [stage EXCEPT ![j] = "held"]
  /\ holder' = [holder EXCEPT ![j] = e]

\* The executors of the jobs in L are lost, and the jobs wait again.
Lose(L) ==
  /\ \A j \in L : stage[j] = "held"
  /\ stage' = [j \in Jobs |-> IF j \in L THEN "waiting" ELSE stage[j]]
  /\ holder' = [j \in Jobs |-> IF j \in L THEN Nobody ELSE holder[j]]

\* The holder records how the job ended.
Settle(j) ==
  /\ stage[j] = "held"
  /\ stage' = [stage EXCEPT ![j] = "settled"]
  /\ holder' = [holder EXCEPT ![j] = Nobody]

Next ==
  \/ \E j \in Jobs : Submit(j) \/ Settle(j)
  \/ \E j \in Jobs, e \in Executors : Take(j, e)
  \/ \E L \in SUBSET Jobs : Lose(L)

Spec == Init /\ [][Next]_vars
=============================================================================
