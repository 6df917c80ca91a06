------------------------------ MODULE TaskTree ------------------------------
(***************************************************************************)
(* How the nodes that schedule other nodes behave at run time: nested task *)
(* lists, try with retry, self-heal and catch, for (tasks/control_flow.py),*)
(* the taskBase wrapper with its timeout (tasks/base_semantics.py) and the *)
(* competing fork (tasks/simple.py).                                       *)
(*                                                                         *)
(* The nodes of one top-level task form a tree.  A node runs as a          *)
(* coroutine that awaits one child at a time, a competing fork all of its  *)
(* branches.  ctx.run_node starts a child, or starts it anew; cancelling   *)
(* an asyncio task throws CancelledError into whatever it awaits.          *)
(***************************************************************************)
EXTENDS Integers, Sequences

CONSTANTS
  Nodes, Root,
  Kind,          \* "leaf", "list", "try", "for", "base" or "compete"
  Children,      \* the child nodes in order; of a try its body and its catch
  Above,         \* the proper ancestors of each node
  Errors,        \* kinds of exceptions
  Outcomes,      \* of a leaf: "ok" and the errors that it may raise
  Timed,         \* base nodes with a timeout
  Evaluating,    \* nodes with an if, while or another runtime expression
  Catches,       \* the errors that pass a try's catch.errors filter
  Catching,      \* try nodes whose catch has a task list
  Retrying,      \* try nodes with a retry policy,
  AttemptLimit,  \*   its limit.attempt.count (0: none),
  Deadlined,     \*   those with a limit.duration,
  Conditional,   \*   those with when or exceptWhen
  Healing,       \* try nodes in a translator that has a self_healer,
  HealLimit,     \*   and self_heal.max_attempts
  MaxItems       \* bound: items of a collection

NoError == "none"

Kids == [n \in Nodes |-> {Children[n][i] : i \in DOMAIN Children[n]}]
Arity == [list |-> Nat, try |-> {2}, for |-> Nat, base |-> {1},
          compete |-> Nat, leaf |-> {0}]

\* Above is the ancestor relation of a tree, and only the root competes:
\* build_workflow makes the coordinator for items of the document alone.
ASSUME TreeAssumption ==
  /\ Root \in Nodes /\ Above[Root] = {}
  /\ Kind \in [Nodes -> DOMAIN Arity]
  /\ Children \in [Nodes -> Seq(Nodes)]
  /\ Above \in [Nodes -> SUBSET Nodes]
  /\ \A n \in Nodes :
       /\ Len(Children[n]) \in Arity[Kind[n]]
       /\ n \notin Above[n]
       /\ Kind[n] = "compete" => n = Root
       /\ \A i, k \in DOMAIN Children[n] :
            Children[n][i] = Children[n][k] => i = k
       /\ \A c \in Kids[n] : Above[c] = Above[n] \union {n}
  /\ \A m \in Nodes : \A a \in Above[m] :
       /\ Above[a] \subseteq Above[m]
       /\ \E c \in Kids[a] : c = m \/ c \in Above[m]
  /\ \A n \in Nodes \ {Root} : \E p \in Nodes : n \in Kids[p]
  /\ \A n, o \in Nodes : Kids[n] \cap Kids[o] # {} => n = o

ASSUME PolicyAssumption ==
  /\ NoError \notin Errors /\ {"timeout", "other"} \subseteq Errors
  /\ Outcomes \in [Nodes -> SUBSET ({"ok"} \union Errors)] /\ "ok" \notin Errors
  /\ Catches \in [Nodes -> SUBSET Errors]
  /\ AttemptLimit \in [Nodes -> Nat]
  /\ HealLimit \in [Nodes -> Nat]
  /\ MaxItems \in Nat

VARIABLES
  node,      \* the coroutine of each node
  expired    \* the try nodes whose retry deadline has passed

vars == <<node, expired>>

Over == {"ok", "failed", "cancelled"}
Running == {"active", "looping", "sleeping", "healing", "timing", "racing",
            "gathering"}

\* at is the child that was started last, 0 if none, of a competing fork the
\* winner; retried and healed are the two budgets of a try, left the items
\* that a for has still to visit.  attempts counts the executions of a try's
\* body and is kept for properties only.
Node == [pc: {"idle", "cancelling"} \union Over \union Running, at: Nat,
         err: Errors \union {NoError}, retried: Nat, healed: Nat, left: Nat,
         attempts: Nat]
Record(pc, at, err) ==
  [pc |-> pc, at |-> at, err |-> err, retried |-> 0, healed |-> 0, left |-> 0,
   attempts |-> 0]
Fresh == Record("active", 0, NoError)

Is(n, pc) == node[n].pc = pc
Live(n) == node[n].pc \in Running \union {"cancelling"}
Ended(n) == node[n].pc \in Over
Child(n) == Children[n][node[n].at]
ChildIs(n, pc) == node[n].at > 0 /\ Is(Child(n), pc)

\* The children whose end a live node waits for.
Awaits(n) ==
  {c \in Kids[n] : IF Kind[n] = "compete" THEN Is(n, "racing") \/ node[n].at > 0
                   ELSE node[n].at > 0 /\ c = Child(n)}

-----------------------------------------------------------------------------
Init ==
  /\ node = [n \in Nodes |-> IF n = Root THEN Fresh ELSE Record("idle", 0, NoError)]
  /\ expired = {}

Becomes(n, v) == node' = [node EXCEPT ![n] = v] /\ UNCHANGED expired
Returns(n) == Becomes(n, Record("ok", 0, NoError))
Raises(n, e) == Becomes(n, Record("failed", 0, e))

\* await ctx.run_node(child i), by a node that is otherwise in state v.
Runs(n, v, i) ==
  /\ node' = [node EXCEPT ![n] = [v EXCEPT !.at = i], ![Children[n][i]] = Fresh]
  /\ UNCHANGED expired

\* task.cancel(): whatever runs below n gets CancelledError where it waits.
Cancelled(v) == IF v.pc \in Running THEN [v EXCEPT !.pc = "cancelling"] ELSE v
BecomesAndCancels(n, v) ==
  /\ node' = [m \in Nodes |-> IF m = n THEN v
                              ELSE IF n \in Above[m] THEN Cancelled(node[m])
                              ELSE node[m]]
  /\ UNCHANGED expired

-----------------------------------------------------------------------------
(* Leaves, lists and for *)

LeafEnds(n) ==
  /\ Kind[n] = "leaf" /\ Is(n, "active")
  /\ \/ "ok" \in Outcomes[n] /\ Returns(n)
     \/ \E e \in Outcomes[n] \ {"ok"} : Raises(n, e)

\* An exception of the child passes through all nodes but the body of a try.
Propagate(n) ==
  /\ Kind[n] \in {"list", "for", "base"} \/ (Kind[n] = "try" /\ node[n].at = 2)
  /\ Is(n, "active") \/ Is(n, "looping")
  /\ ChildIs(n, "failed")
  /\ Raises(n, node[Child(n)].err)

RunNested(n) ==
  /\ Kind[n] = "list" /\ Is(n, "active")
  /\ node[n].at = 0 \/ ChildIs(n, "ok")
  /\ IF node[n].at < Len(Children[n])
     THEN Runs(n, node[n], node[n].at + 1)
     ELSE Returns(n)

\* The collection is evaluated once.
ForBegins(n) ==
  /\ Kind[n] = "for" /\ Is(n, "active")
  /\ \/ n \in Evaluating /\ Raises(n, "other")
     \/ \E k \in 0..MaxItems :
          Becomes(n, [node[n] EXCEPT !.pc = "looping", !.left = k])

ForItem_Past(n) ==
  /\ Kind[n] = "for" /\ Is(n, "looping") /\ node[n].at = 0
  /\ Runs(n, node[n], 1) \/ (n \in Evaluating /\ Returns(n))

\* The while expression is evaluated before every item.
ForItem(n) ==
  /\ Kind[n] = "for" /\ Is(n, "looping") /\ node[n].at = 0
  /\ \/ node[n].left = 0 /\ Returns(n)
     \/ n \in Evaluating /\ node[n].left > 0 /\ (Returns(n) \/ Raises(n, "other"))
     \/ node[n].left > 0 /\ Children[n] # <<>> /\ Runs(n, node[n], 1)
     \/ /\ node[n].left > 0 /\ Children[n] = <<>>
        /\ Becomes(n, [node[n] EXCEPT !.left = @ - 1])

ForGoesOn(n) ==
  /\ Kind[n] = "for" /\ Is(n, "looping") /\ ChildIs(n, "ok")
  /\ IF node[n].at < Len(Children[n])
     THEN Runs(n, node[n], node[n].at + 1)
     ELSE Becomes(n, [node[n] EXCEPT !.at = 0, !.left = @ - 1])

-----------------------------------------------------------------------------
(* The taskBase wrapper *)

BaseBegins(n) ==
  /\ Kind[n] = "base" /\ Is(n, "active") /\ node[n].at = 0
  /\ \/ n \in Evaluating /\ (Returns(n) \/ Raises(n, "other"))
     \/ Runs(n, node[n], 1)

\* output.as and export.as are evaluated after the timeout's scope.
BaseReturns(n) ==
  /\ Kind[n] = "base" /\ Is(n, "active") /\ ChildIs(n, "ok")
  /\ Returns(n) \/ (n \in Evaluating /\ Raises(n, "other"))

TimeoutFires_Leaves(n) ==
  /\ n \in Timed
  /\ Kind[n] = "base" /\ Is(n, "active") /\ node[n].at = 1
  /\ Raises(n, "timeout")
TimeoutFires_Shields(n) ==
  /\ n \in Timed
  /\ Kind[n] = "base" /\ Is(n, "active") /\ node[n].at = 1
  /\ Becomes(n, [node[n] EXCEPT !.pc = "timing"])

\* wait_for cancels the child and waits for its end.  A timeout that fires
\* after the child has ended, and before the wrapper goes on, wins.
TimeoutFires(n) ==
  /\ n \in Timed
  /\ Kind[n] = "base" /\ Is(n, "active") /\ node[n].at = 1
  /\ BecomesAndCancels(n, [node[n] EXCEPT !.pc = "timing"])

TimedOut(n) ==
  /\ Is(n, "timing") /\ Ended(Child(n))
  /\ Raises(n, "timeout")

-----------------------------------------------------------------------------
(* try *)

\* An attempt begins, the first one or after the delay before a retry.
TryBegins(n) ==
  /\ Kind[n] = "try" /\ node[n].at = 0
  /\ Is(n, "active") \/ Is(n, "sleeping")
  /\ Runs(n, [node[n] EXCEPT !.pc = "active", !.attempts = @ + 1], 1)

TryReturns(n) ==
  /\ Kind[n] = "try" /\ Is(n, "active") /\ ChildIs(n, "ok")
  /\ Returns(n)

BodyFailed(n) ==
  Kind[n] = "try" /\ Is(n, "active") /\ node[n].at = 1 /\ ChildIs(n, "failed")
Caught(n) == BodyFailed(n) /\ node[Child(n)].err \in Catches[n]

NotCaught(n) ==
  /\ BodyFailed(n) /\ ~ Caught(n)
  /\ Raises(n, node[Child(n)].err)

RetryLimited_CountsRetries(n) ==
  \/ n \notin Retrying
  \/ AttemptLimit[n] > 0 /\ node[n].retried >= AttemptLimit[n]
  \/ n \in expired

\* The deadline is fixed when the document is translated, so it may pass
\* before the first attempt.
RetryLimited(n) ==
  \/ n \notin Retrying
  \/ AttemptLimit[n] > 0 /\ node[n].retried + 1 >= AttemptLimit[n]
  \/ n \in expired

Retry(n) ==
  /\ Caught(n) /\ ~ RetryLimited(n)
  /\ Becomes(n, [node[n] EXCEPT !.pc = "sleeping", !.at = 0, !.retried = @ + 1])

\* Evaluating when or exceptWhen of the policy may fail.
PolicyRaises(n) ==
  /\ Caught(n) /\ ~ RetryLimited(n) /\ n \in Conditional
  /\ Raises(n, "other")

NotRetried(n) == Caught(n) /\ (RetryLimited(n) \/ n \in Conditional)

HealBudget(n) == n \in Healing /\ node[n].healed + 1 < HealLimit[n]

Diagnose(n) ==
  /\ NotRetried(n) /\ HealBudget(n)
  /\ Becomes(n, [node[n] EXCEPT !.pc = "healing", !.healed = @ + 1])

Healed(n) ==
  /\ Is(n, "healing")
  /\ Becomes(n, [node[n] EXCEPT !.pc = "active", !.at = 0])

HealerRaises(n) == Is(n, "healing") /\ Raises(n, "other")

Catch(n) ==
  /\ Is(n, "healing") \/ (NotRetried(n) /\ ~ HealBudget(n))
  /\ IF n \in Catching
     THEN Runs(n, [node[n] EXCEPT !.pc = "active"], 2)
     ELSE Raises(n, node[Child(n)].err)

-----------------------------------------------------------------------------
(* The competing fork *)

Race(n) ==
  /\ Kind[n] = "compete" /\ Is(n, "active")
  /\ IF Kids[n] = {}
     THEN Returns(n)
     ELSE /\ node' = [m \in Nodes |->
                        IF m = n THEN [node[m] EXCEPT !.pc = "racing"]
                        ELSE IF m \in Kids[n] THEN Fresh ELSE node[m]]
          /\ UNCHANGED expired

Settle_BranchesOnly(n) ==
  /\ Is(n, "racing")
  /\ \E i \in DOMAIN Children[n] :
       /\ Ended(Children[n][i])
       /\ node' = [m \in Nodes |->
                    IF m = n THEN [node[m] EXCEPT !.pc = "gathering", !.at = i]
                    ELSE IF m \in Kids[n] THEN Cancelled(node[m]) ELSE node[m]]
       /\ UNCHANGED expired

\* The first branches that end make up a set; any of them may be the winner.
Settle(n) ==
  /\ Is(n, "racing")
  /\ \E i \in DOMAIN Children[n] :
       /\ Ended(Children[n][i])
       /\ BecomesAndCancels(n, [node[n] EXCEPT !.pc = "gathering", !.at = i])

Gathered(n) ==
  /\ Is(n, "gathering") /\ \A c \in Kids[n] : Ended(c)
  /\ \/ ChildIs(n, "ok") /\ Returns(n)
     \/ ChildIs(n, "failed") /\ Raises(n, node[Child(n)].err)

-----------------------------------------------------------------------------
(* Cancellation *)

\* The task that executes the run is cancelled.  A fork that waits for its
\* first branch leaves the branches alone: asyncio.wait does not cancel.
CancelRun ==
  /\ node[Root].pc \in Running
  /\ IF Is(Root, "racing")
     THEN Becomes(Root, Cancelled(node[Root]))
     ELSE BecomesAndCancels(Root, Cancelled(node[Root]))

\* CancelledError is no Exception: no handler of a node catches it.
Unwind(n) ==
  /\ Is(n, "cancelling") /\ \A c \in Awaits(n) : Ended(c)
  /\ Becomes(n, Record("cancelled", node[n].at, NoError))

DeadlinePasses(n) ==
  /\ n \in Deadlined \ expired
  /\ expired' = expired \union {n}
  /\ UNCHANGED node

-----------------------------------------------------------------------------
GoesOn(n) ==
  \/ Propagate(n) \/ RunNested(n)
  \/ ForBegins(n) \/ ForItem(n) \/ ForGoesOn(n)
  \/ BaseBegins(n) \/ BaseReturns(n) \/ TimedOut(n)
  \/ TryBegins(n) \/ TryReturns(n) \/ NotCaught(n) \/ Retry(n) \/ PolicyRaises(n)
  \/ Diagnose(n) \/ Healed(n) \/ HealerRaises(n) \/ Catch(n)
  \/ Race(n) \/ Settle(n) \/ Gathered(n) \/ Unwind(n)

Next ==
  \/ \E n \in Nodes : LeafEnds(n) \/ GoesOn(n) \/ TimeoutFires(n) \/ DeadlinePasses(n)
  \/ CancelRun

Spec == Init /\ [][Next]_vars

\* The event loop runs what is ready and fires timers.  Nothing is said of
\* leaves, which may wait for ever.
FairSpec ==
  /\ Spec
  /\ WF_vars(\E n \in Nodes : GoesOn(n))
  /\ WF_vars(\E n \in Nodes : TimeoutFires(n))

-----------------------------------------------------------------------------
(* Properties *)

TypeOK ==
  /\ node \in [Nodes -> Node]
  /\ expired \subseteq Nodes
  /\ \A n \in Nodes : node[n].at \in {0} \union DOMAIN Children[n]
  /\ \A n \in Nodes : Is(n, "failed") => node[n].err \in Errors

Parent == [n \in Nodes \ {Root} |-> CHOOSE p \in Nodes : n \in Kids[p]]

\* simple.py:373-386: the branches of a fork that was cancelled in its race.
Orphan(n) ==
  /\ Kind[Parent[n]] = "compete" /\ node[Parent[n]].at = 0
  /\ node[Parent[n]].pc \in {"cancelling", "cancelled"}

\* control_flow.py, base_semantics.py: whatever runs is awaited by its parent,
\* which runs as well, up to the root or to a fork that was cancelled.
Structured ==
  \A m \in Nodes : Live(m) =>
    \A n \in (Above[m] \union {m}) \ {Root} :
      Orphan(n) \/ (Live(Parent[n]) /\ n \in Awaits(Parent[n]))

\* base_semantics.py:100-106, simple.py:380-385: a node that has returned or
\* raised leaves nothing behind that still runs, whatever it had started.
EndedIsQuiet ==
  \A m, n \in Nodes : node[n].pc \in {"ok", "failed"} /\ n \in Above[m] => ~ Live(m)

\* task-coverage.md:63-66: the attempts of a try are the first one, those of
\* the retry policy and those of the healer, whose budgets are independent.
AttemptsWithinBudgets ==
  \A n \in Nodes : Kind[n] = "try" =>
    LET retries == IF n \in Retrying THEN AttemptLimit[n] ELSE 1
        heals   == IF n \in Healing /\ HealLimit[n] > 1 THEN HealLimit[n] - 1 ELSE 0
    IN retries > 0 => node[n].attempts <= retries + heals

Starts(m) == ~ Live(m) /\ Live(m)'

\* control_flow.py:159-163: once a node is cancelled, by a timeout, a lost race
\* or with the run, nothing below it starts; no try retries, heals or catches.
NothingStartsUnderCancelled ==
  [][\A m, a \in Nodes :
       /\ a \in Above[m] /\ Starts(m)
       /\ node[a].pc \in {"cancelling", "timing", "gathering"}
       => Kind[a] = "compete" /\ node[a].at = 0]_vars

\* ADR 0003: fork.compete returns the first successful branch result; only if
\* every branch fails, it surfaces a failure.
FirstSuccessWins ==
  \A n \in Nodes : Kind[n] = "compete" /\ Is(n, "failed") =>
    \A c \in Kids[n] : Is(c, "failed")

\* base_semantics.py:100-106: a task with a timeout ends, even if its body
\* waits for ever or would be retried for ever.
TimedTasksEnd == \A n \in Timed : Live(n) ~> Ended(n)
=============================================================================
