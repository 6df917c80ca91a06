-------------------------- MODULE TaskTree_proofs --------------------------
(***************************************************************************)
(* TaskTree for any tree of nodes and any policies: what runs is awaited,  *)
(* what has ended or was cancelled starts nothing, and a try keeps within  *)
(* its budgets.                                                            *)
(***************************************************************************)
EXTENDS TaskTree, TLAPS

(***************************************************************************)
(* The tree                                                                *)
(***************************************************************************)

Chain(m) == (Above[m] \union {m}) \ {Root}

LEMMA ParentOfKid ==
  ASSUME NEW n \in Nodes, NEW c \in Kids[n]
  PROVE  c \in Nodes /\ c # Root /\ c # n /\ Parent[c] = n /\ Above[c] = Above[n] \union {n}
<1>1. Children[n] \in Seq(Nodes)
  BY TreeAssumption
<1>2. c \in Nodes
  BY <1>1 DEF Kids
<1>3. Above[c] = Above[n] \union {n} /\ c \notin Above[c]
  BY <1>2, TreeAssumption
<1>4. c # Root /\ c # n
  BY <1>3, TreeAssumption
<1>5. \A p \in Nodes : c \in Kids[p] => p = n
  BY TreeAssumption
<1>6. Parent[c] = CHOOSE p \in Nodes : c \in Kids[p]
  BY <1>2, <1>4 DEF Parent
<1>7. Parent[c] = n
  BY <1>5, <1>6
<1> QED BY <1>2, <1>3, <1>4, <1>7

LEMMA KidOfParent ==
  ASSUME NEW c \in Nodes, c # Root
  PROVE  Parent[c] \in Nodes /\ c \in Kids[Parent[c]]
<1>1. PICK p \in Nodes : c \in Kids[p]
  BY TreeAssumption
<1> QED BY <1>1, ParentOfKid

LEMMA ChainInNodes ==
  ASSUME NEW m \in Nodes, NEW c \in Chain(m)
  PROVE  /\ c \in Nodes /\ c # Root
         /\ Parent[c] \in Nodes /\ c \in Kids[Parent[c]] /\ Parent[c] \in Above[m]
<1>1. c \in Nodes /\ c # Root
  BY TreeAssumption DEF Chain
<1>2. Parent[c] \in Nodes /\ c \in Kids[Parent[c]]
  BY <1>1, KidOfParent
<1>3. Parent[c] \in Above[c]
  BY <1>1, <1>2, ParentOfKid
<1>4. Above[c] \subseteq Above[m]
  BY TreeAssumption DEF Chain
<1> QED BY <1>1, <1>2, <1>3, <1>4

(***************************************************************************)
(* Structure, as a property of the function node.                          *)
(***************************************************************************)

Lives(v) == v.pc \in Running \union {"cancelling"}
AwaitsIn(p, v) ==
  {c \in Kids[p] : IF Kind[p] = "compete" THEN v.pc = "racing" \/ v.at > 0
                   ELSE v.at > 0 /\ c = Children[p][v.at]}

\* In state v, p is the fork that made c an orphan, or it waits for c.
Abandons(p, v) == Kind[p] = "compete" /\ v.at = 0 /\ v.pc \in {"cancelling", "cancelled"}
Holds(p, v, c) == Abandons(p, v) \/ (Lives(v) /\ c \in AwaitsIn(p, v))
StructuredIn(f) ==
  \A m \in Nodes : Lives(f[m]) => \A c \in Chain(m) : Holds(Parent[c], f[Parent[c]], c)

LEMMA StructuredForms ==
  /\ Structured <=> StructuredIn(node)
  /\ Structured' <=> StructuredIn(node')
<1>1. Structured <=> StructuredIn(node)
  BY DEF Structured, StructuredIn, Chain, Holds, Abandons, Orphan, Live, Lives,
         Awaits, AwaitsIn, Is, Child
<1>2. Structured' <=> StructuredIn(node')
  BY DEF Structured, StructuredIn, Chain, Holds, Abandons, Orphan, Live, Lives,
         Awaits, AwaitsIn, Is, Child
<1> QED BY <1>1, <1>2

\* Between a live node and the root all nodes are live, up to a fork that has
\* abandoned its branches.
LEMMA ChainIsLive ==
  ASSUME NEW f, StructuredIn(f), NEW m \in Nodes, Lives(f[m]), NEW c \in Above[m]
  PROVE  c \in Nodes /\ (Lives(f[c]) \/ Abandons(c, f[c]))
<1>1. c \in Nodes
  BY TreeAssumption
<1>2. PICK d \in Kids[c] : d = m \/ d \in Above[m]
  BY TreeAssumption
<1>3. d \in Chain(m) /\ Parent[d] = c
  BY <1>1, <1>2, ParentOfKid DEF Chain
<1>4. Holds(c, f[c], d)
  BY <1>3 DEF StructuredIn
<1> QED BY <1>1, <1>4 DEF Holds

LEMMA OnlyRootCompetes ==
  ASSUME NEW n \in Nodes, n # Root, NEW v
  PROVE  Kind[n] # "compete" /\ ~ Abandons(n, v)
BY TreeAssumption DEF Abandons

\* A child of n that lives is one that n waits for, or that n has abandoned.
LEMMA LiveKid ==
  ASSUME NEW f, StructuredIn(f), NEW n \in Nodes, NEW c \in Kids[n], Lives(f[c])
  PROVE  Holds(n, f[n], c)
<1>1. c \in Nodes /\ c \in Chain(c) /\ Parent[c] = n
  BY ParentOfKid DEF Chain
<1> QED BY <1>1 DEF StructuredIn

\* A step of n alone, which goes on waiting for the children that live.
LEMMA StepStructured ==
  ASSUME NEW f \in [Nodes -> Node], StructuredIn(f), NEW n \in Nodes, NEW v,
         Lives(v) => Lives(f[n]),
         \A c \in Kids[n] : Lives(f[c]) => Holds(n, v, c)
  PROVE  StructuredIn([f EXCEPT ![n] = v])
<1> DEFINE g == [f EXCEPT ![n] = v]
<1> SUFFICES ASSUME NEW m \in Nodes, Lives(g[m]), NEW c \in Chain(m)
             PROVE  Holds(Parent[c], g[Parent[c]], c)
  BY DEF StructuredIn
<1>1. Lives(f[m])
  BY DEF Lives
<1>2. c \in Nodes /\ c # Root /\ Parent[c] \in Nodes /\ c \in Kids[Parent[c]]
  BY ChainInNodes
<1>3. Holds(Parent[c], f[Parent[c]], c)
  BY <1>1 DEF StructuredIn
<1>4. CASE Parent[c] # n
  BY <1>2, <1>3, <1>4
<1>5. CASE Parent[c] = n
  <2>1. c = m \/ Lives(f[c])
    <3>1. CASE c \in Above[m]
      BY <1>1, <1>2, <3>1, ChainIsLive, OnlyRootCompetes
    <3>2. CASE c = m
      BY <3>2
    <3> QED BY <3>1, <3>2 DEF Chain
  <2>2. Lives(f[c])
    BY <1>1, <2>1
  <2> QED BY <1>2, <1>5, <2>2
<1> QED BY <1>4, <1>5

\* Cancelling all that runs below n.
CancelBelow(f, n) == [m \in Nodes |-> IF n \in Above[m] THEN Cancelled(f[m]) ELSE f[m]]

LEMMA CancelledLives ==
  ASSUME NEW v \in Node
  PROVE  /\ Cancelled(v) \in Node /\ Cancelled(v).at = v.at
         /\ Lives(Cancelled(v)) <=> Lives(v)
         /\ Cancelled(v).pc \notin Running
         /\ Cancelled(v).pc # v.pc => Cancelled(v).pc = "cancelling"
BY DEF Cancelled, Lives, Node, Running, Over

LEMMA CancelStructured ==
  ASSUME NEW f \in [Nodes -> Node], StructuredIn(f), NEW n \in Nodes
  PROVE  StructuredIn(CancelBelow(f, n))
<1> DEFINE g == CancelBelow(f, n)
<1> SUFFICES ASSUME NEW m \in Nodes, Lives(g[m]), NEW c \in Chain(m)
             PROVE  Holds(Parent[c], g[Parent[c]], c)
  BY DEF StructuredIn
<1>1. Lives(f[m])
  BY CancelledLives DEF CancelBelow
<1>2. c \in Nodes /\ Parent[c] \in Nodes
  BY ChainInNodes
<1> DEFINE p == Parent[c]
<1>3. Holds(p, f[p], c)
  BY <1>1 DEF StructuredIn
<1>4. CASE n \notin Above[p]
  BY <1>2, <1>3, <1>4 DEF CancelBelow
<1>5. CASE n \in Above[p]
  <2>1. p # Root
    BY <1>5, TreeAssumption
  <2>2. Kind[p] # "compete" /\ ~ Abandons(p, f[p])
    BY <1>2, <2>1, OnlyRootCompetes
  <2>3. Lives(f[p]) /\ c \in AwaitsIn(p, f[p])
    BY <1>3, <2>2 DEF Holds
  <2>4. g[p] = Cancelled(f[p])
    BY <1>2, <1>5 DEF CancelBelow
  <2>5. Lives(g[p]) /\ g[p].at = f[p].at
    BY <1>2, <2>3, <2>4, CancelledLives
  <2>6. c \in AwaitsIn(p, g[p])
    BY <2>2, <2>3, <2>5 DEF AwaitsIn
  <2> QED BY <2>5, <2>6 DEF Holds
<1> QED BY <1>4, <1>5

\* n starts child c, when no child of n lives.
LEMMA StartStructured ==
  ASSUME NEW f \in [Nodes -> Node], StructuredIn(f), NEW n \in Nodes, NEW c \in Kids[n],
         NEW v, Lives(f[n]), Holds(n, v, c),
         \A d \in Kids[n] : ~ Lives(f[d])
  PROVE  StructuredIn([f EXCEPT ![n] = v, ![c] = Fresh])
<1> DEFINE g == [f EXCEPT ![n] = v, ![c] = Fresh]
<1> SUFFICES ASSUME NEW m \in Nodes, Lives(g[m]), NEW d \in Chain(m)
             PROVE  Holds(Parent[d], g[Parent[d]], d)
  BY DEF StructuredIn
<1>0. c \in Nodes /\ c # n /\ c # Root /\ Parent[c] = n /\ Above[c] = Above[n] \union {n}
  BY ParentOfKid
<1>1. d \in Nodes /\ d # Root /\ Parent[d] \in Nodes /\ d \in Kids[Parent[d]]
      /\ Parent[d] \in Above[m]
  BY ChainInNodes
<1>2. g[n] = v
  BY <1>0
<1>3. \A x \in Nodes : x # n /\ x # c => g[x] = f[x]
  BY <1>0
<1>4. CASE d = c
  BY <1>0, <1>2, <1>4
<1>5. CASE d # c /\ m = c
  <2>1. d \in Chain(n)
    BY <1>0, <1>5 DEF Chain
  <2>2. Parent[d] \in Above[n]
    BY <2>1, ChainInNodes
  <2>3. Parent[d] # n /\ Parent[d] # c
    <3>1. Parent[d] # n
      BY <2>2, TreeAssumption
    <3>2. Parent[d] # c
      BY <1>0, <2>2, TreeAssumption
    <3> QED BY <3>1, <3>2
  <2>4. Holds(Parent[d], f[Parent[d]], d)
    BY <2>1 DEF StructuredIn
  <2> QED BY <1>1, <1>3, <2>3, <2>4
<1>6. CASE d # c /\ m # c
  <2>1. Lives(f[m])
    BY <1>3, <1>6
  <2>2. Holds(Parent[d], f[Parent[d]], d)
    BY <2>1 DEF StructuredIn
  <2>3. Parent[d] # c
    <3> SUFFICES ASSUME Parent[d] = c PROVE FALSE
      OBVIOUS
    <3>1. Lives(f[c])
      BY <1>0, <1>1, <2>1, ChainIsLive, OnlyRootCompetes
    <3> QED BY <3>1
  <2>4. Parent[d] # n
    <3> SUFFICES ASSUME Parent[d] = n PROVE FALSE
      OBVIOUS
    <3>1. d = m \/ d \in Above[m]
      BY DEF Chain
    <3>2. Lives(f[d])
      BY <1>1, <2>1, <3>1, ChainIsLive, OnlyRootCompetes
    <3> QED BY <1>1, <3>2
  <2> QED BY <1>1, <1>3, <2>2, <2>3, <2>4
<1> QED BY <1>4, <1>5, <1>6

\* The fork starts all its branches, when none of them lives.
Forked(f, n, v) ==
  [m \in Nodes |-> IF m = n THEN v ELSE IF m \in Kids[n] THEN Fresh ELSE f[m]]

LEMMA ForkStructured ==
  ASSUME NEW f \in [Nodes -> Node], StructuredIn(f), NEW v,
         Lives(f[Root]), \A c \in Kids[Root] : ~ Lives(f[c]) /\ Holds(Root, v, c)
  PROVE  StructuredIn(Forked(f, Root, v))
<1> DEFINE g == Forked(f, Root, v)
<1>0. Root \in Nodes /\ Above[Root] = {}
  BY TreeAssumption
<1> SUFFICES ASSUME NEW m \in Nodes, Lives(g[m]), NEW d \in Chain(m)
             PROVE  Holds(Parent[d], g[Parent[d]], d)
  BY DEF StructuredIn
<1>1. d \in Nodes /\ d # Root /\ Parent[d] \in Nodes /\ d \in Kids[Parent[d]]
      /\ Parent[d] \in Above[m]
  BY ChainInNodes
<1>2. CASE Parent[d] = Root
  BY <1>0, <1>1, <1>2 DEF Forked
<1>3. CASE Parent[d] # Root
  <2>1. m \notin Kids[Root] /\ m # Root
    <3>1. m # Root
      BY <1>0, <1>1
    <3>2. m \in Kids[Root] => Above[m] = {Root}
      BY <1>0, ParentOfKid
    <3> QED BY <1>1, <1>3, <3>1, <3>2
  <2>2. Lives(f[m])
    BY <2>1 DEF Forked
  <2>3. Holds(Parent[d], f[Parent[d]], d)
    BY <2>2 DEF StructuredIn
  <2>4. Lives(f[Parent[d]])
    BY <1>1, <1>3, <2>2, ChainIsLive, OnlyRootCompetes
  <2>5. g[Parent[d]] = f[Parent[d]]
    BY <1>1, <1>3, <2>4 DEF Forked
  <2> QED BY <2>3, <2>5
<1> QED BY <1>2, <1>3

(***************************************************************************)
(* The inductive invariant: what holds of the record of one node, who may  *)
(* live, how far a cancellation reaches, and what a healer looks at.       *)
(***************************************************************************)

BudgetOK(n, v) ==
  /\ n \notin Retrying => v.retried = 0
  /\ n \in Retrying /\ AttemptLimit[n] > 0 => v.retried < AttemptLimit[n]
  /\ IF n \in Healing /\ HealLimit[n] > 1 THEN v.healed < HealLimit[n] ELSE v.healed = 0
  /\ v.attempts <= v.retried + v.healed + 1
  /\ v.pc \in {"sleeping", "healing"} \/ (v.pc = "active" /\ v.at = 0) =>
       v.attempts <= v.retried + v.healed

PhaseOK(n, v) ==
  /\ v.pc = "failed" => v.err \in Errors
  /\ v.pc = "looping" /\ v.at > 0 => v.left > 0
  /\ v.pc \in {"racing", "gathering"} => Kind[n] = "compete"
  /\ v.pc \in {"looping", "sleeping", "healing", "timing"} => Kind[n] # "compete"
  /\ v.pc = "racing" \/ (v.pc = "active" /\ Kind[n] \in {"compete", "for"}) => v.at = 0
  /\ v.pc \in {"gathering", "timing"} => v.at > 0
  /\ v.pc = "sleeping" => v.at = 0
  /\ v.pc = "healing" => v.at = 1 /\ Kind[n] = "try"

NodeOK(n, v) ==
  /\ v \in Node /\ v.at \in {0} \union DOMAIN Children[n]
  /\ PhaseOK(n, v) /\ BudgetOK(n, v)

Stopping == {"cancelling", "timing", "gathering"}
CancelReachesIn(f) ==
  \A m \in Nodes : \A a \in Above[m] :
    f[a].pc \in Stopping /\ Lives(f[m]) =>
      f[m].pc = "cancelling" \/ (Kind[a] = "compete" /\ f[a].at = 0)

HealsFailureIn(f) ==
  \A n \in Nodes : f[n].pc = "healing" => f[Children[n][1]].pc = "failed"

InvIn(f) ==
  /\ f \in [Nodes -> Node]
  /\ \A n \in Nodes : NodeOK(n, f[n])
  /\ StructuredIn(f) /\ CancelReachesIn(f) /\ HealsFailureIn(f)

IInv == InvIn(node) /\ expired \subseteq Nodes

LEMMA RecordOK ==
  ASSUME NEW n \in Nodes, NEW pc \in {"idle", "active"} \union Over,
         NEW at \in {0} \union DOMAIN Children[n], NEW err \in Errors \union {NoError},
         pc = "failed" => err \in Errors,
         pc = "active" => at = 0
  PROVE  NodeOK(n, Record(pc, at, err))
<1>1. Children[n] \in Seq(Nodes) /\ at \in Nat
  BY TreeAssumption
<1>2. Record(pc, at, err) \in Node
  BY <1>1 DEF Record, Node, Running
<1>3. BudgetOK(n, Record(pc, at, err))
  BY PolicyAssumption DEF BudgetOK, Record, Over
<1>4. PhaseOK(n, Record(pc, at, err))
  BY DEF PhaseOK, Record, Over
<1>5. Record(pc, at, err).at = at
  BY DEF Record
<1> QED BY <1>2, <1>3, <1>4, <1>5 DEF NodeOK

LEMMA CancelledOK ==
  ASSUME NEW n \in Nodes, NEW v, NodeOK(n, v)
  PROVE  NodeOK(n, Cancelled(v))
<1>1. CASE v.pc \notin Running
  BY <1>1 DEF Cancelled
<1>2. CASE v.pc \in Running
  BY <1>2, PolicyAssumption
     DEF NodeOK, PhaseOK, BudgetOK, Cancelled, Node, Running, Over
<1> QED BY <1>1, <1>2

LEMMA HealedChild ==
  ASSUME NEW f, InvIn(f), NEW n \in Nodes, f[n].pc = "healing"
  PROVE  Children[n][1] \in Kids[n] /\ Children[n][1] \in Nodes
<1>1. 1 \in DOMAIN Children[n]
  BY DEF InvIn, NodeOK, PhaseOK
<1>2. Children[n][1] \in Kids[n]
  BY <1>1 DEF Kids
<1> QED BY <1>2, ParentOfKid

\* The step of a live node leaves alone the node that a healer looks at.
LEMMA HealsFailureKept ==
  ASSUME NEW f, InvIn(f), NEW g,
         \A m \in Nodes : g[m].pc = "healing" => f[m].pc = "healing",
         \A m \in Nodes : f[m].pc = "failed" => g[m].pc = "failed"
  PROVE  HealsFailureIn(g)
<1> SUFFICES ASSUME NEW m \in Nodes, g[m].pc = "healing"
             PROVE  g[Children[m][1]].pc = "failed"
  BY DEF HealsFailureIn
<1>1. f[m].pc = "healing"
  OBVIOUS
<1>2. f[Children[m][1]].pc = "failed" /\ Children[m][1] \in Nodes
  BY <1>1, HealedChild DEF InvIn, HealsFailureIn
<1> QED BY <1>2

\* n alone takes a step.
LEMMA LocalInv ==
  ASSUME NEW f, InvIn(f), NEW n \in Nodes, NEW v, NodeOK(n, v), Lives(f[n]),
         \A c \in Kids[n] : Lives(f[c]) => Holds(n, v, c),
         Lives(v) /\ f[n].pc = "cancelling" => v.pc = "cancelling",
         v.pc \in Stopping => Kind[n] = "compete" /\ v.at = 0,
         v.pc = "healing" => f[Children[n][1]].pc = "failed"
  PROVE  InvIn([f EXCEPT ![n] = v])
<1> DEFINE g == [f EXCEPT ![n] = v]
<1>1. f \in [Nodes -> Node] /\ v \in Node
  BY DEF InvIn, NodeOK
<1>2. g \in [Nodes -> Node] /\ g[n] = v /\ \A m \in Nodes : m # n => g[m] = f[m]
  BY <1>1
<1>3. \A m \in Nodes : NodeOK(m, g[m])
  BY <1>2 DEF InvIn
<1>4. StructuredIn(g)
  BY <1>1, StepStructured DEF InvIn
<1>5. CancelReachesIn(g)
  <2> SUFFICES ASSUME NEW m \in Nodes, NEW a \in Above[m], g[a].pc \in Stopping, Lives(g[m])
               PROVE  g[m].pc = "cancelling" \/ (Kind[a] = "compete" /\ g[a].at = 0)
    BY DEF CancelReachesIn
  <2>1. a \in Nodes
    BY TreeAssumption
  <2>2. CASE a = n
    BY <1>2, <2>2
  <2>3. CASE a # n
    <3>1. g[a] = f[a] /\ Lives(f[m])
      BY <1>2, <2>1, <2>3
    <3>2. f[m].pc = "cancelling" \/ (Kind[a] = "compete" /\ f[a].at = 0)
      BY <3>1 DEF InvIn, CancelReachesIn
    <3> QED BY <1>2, <3>1, <3>2
  <2> QED BY <2>2, <2>3
<1>6. HealsFailureIn(g)
  <2> SUFFICES ASSUME NEW m \in Nodes, g[m].pc = "healing"
               PROVE  g[Children[m][1]].pc = "failed"
    BY DEF HealsFailureIn
  <2>1. Children[m][1] \in Kids[m] /\ Children[m][1] \in Nodes
    <3>1. 1 \in DOMAIN Children[m]
      BY <1>3 DEF NodeOK, PhaseOK
    <3>2. Children[m][1] \in Kids[m]
      BY <3>1 DEF Kids
    <3> QED BY <3>2, ParentOfKid
  <2>2. f[Children[m][1]].pc = "failed"
    BY <1>2 DEF InvIn, HealsFailureIn
  <2>3. Children[m][1] # n
    BY <2>2 DEF Lives, Running
  <2> QED BY <1>2, <2>1, <2>2, <2>3
<1> QED BY <1>2, <1>3, <1>4, <1>5, <1>6 DEF InvIn

\* n takes a step and cancels whatever runs below it.
LEMMA CancelInv ==
  ASSUME NEW f, InvIn(f), NEW n \in Nodes, NEW v, NodeOK(n, v), f[n].pc \in Running,
         \A c \in Kids[n] : Lives(f[c]) => Holds(n, v, c),
         v.pc \in Stopping
  PROVE  InvIn([m \in Nodes |-> IF m = n THEN v
                                ELSE IF n \in Above[m] THEN Cancelled(f[m]) ELSE f[m]])
<1> DEFINE h == [f EXCEPT ![n] = v]
           g == [m \in Nodes |-> IF m = n THEN v
                                 ELSE IF n \in Above[m] THEN Cancelled(f[m]) ELSE f[m]]
<1>1. f \in [Nodes -> Node] /\ v \in Node /\ n \notin Above[n]
  BY TreeAssumption DEF InvIn, NodeOK
<1>2. g = CancelBelow(h, n)
  BY <1>1 DEF CancelBelow
<1>3. h \in [Nodes -> Node] /\ StructuredIn(h)
  BY <1>1, StepStructured DEF InvIn, Lives
<1>4. StructuredIn(g)
  BY <1>2, <1>3, CancelStructured
<1>5. \A m \in Nodes : NodeOK(m, g[m]) /\ g[m] \in Node
  <2>1. \A m \in Nodes : NodeOK(m, f[m]) /\ NodeOK(m, Cancelled(f[m]))
    BY CancelledOK DEF InvIn
  <2>2. \A m \in Nodes : NodeOK(m, g[m])
    BY <2>1
  <2> QED BY <2>2 DEF NodeOK
<1>6. CancelReachesIn(g)
  <2> SUFFICES ASSUME NEW m \in Nodes, NEW a \in Above[m], g[a].pc \in Stopping, Lives(g[m])
               PROVE  g[m].pc = "cancelling" \/ (Kind[a] = "compete" /\ g[a].at = 0)
    BY DEF CancelReachesIn
  <2>1. a \in Nodes /\ Above[a] \subseteq Above[m]
    BY TreeAssumption
  <2>2. CASE m # n /\ n \in Above[m]
    <3>1. g[m] = Cancelled(f[m]) /\ f[m] \in Node
      BY <1>1, <2>2
    <3> HIDE DEF g
    <3> QED BY <3>1, CancelledLives DEF Lives
  <2>3. CASE m = n
    <3>1. a # n /\ n \notin Above[a] /\ g[a] = f[a]
      BY <1>1, <2>1, <2>3
    <3>2. f[n].pc = "cancelling" \/ (Kind[a] = "compete" /\ f[a].at = 0)
      BY <2>3, <3>1 DEF InvIn, CancelReachesIn, Lives
    <3> QED BY <3>1, <3>2 DEF Running
  <2>4. CASE m # n /\ n \notin Above[m]
    <3>1. a # n /\ n \notin Above[a] /\ g[a] = f[a] /\ g[m] = f[m]
      BY <2>1, <2>4
    <3> QED BY <3>1 DEF InvIn, CancelReachesIn
  <2> QED BY <2>2, <2>3, <2>4
<1>7. HealsFailureIn(g)
  <2>1. \A m \in Nodes : g[m].pc = "healing" => f[m].pc = "healing"
    BY <1>1 DEF Cancelled, Stopping, Node
  <2>2. \A m \in Nodes : f[m].pc = "failed" => g[m].pc = "failed"
    BY <1>1 DEF Cancelled, Running
  <2> HIDE DEF g
  <2> QED BY <2>1, <2>2, HealsFailureKept
<1> QED BY <1>4, <1>5, <1>6, <1>7 DEF InvIn

\* n starts child c, when no child of n lives.
LEMMA StartInv ==
  ASSUME NEW f, InvIn(f), NEW n \in Nodes, NEW c \in Kids[n], NEW v, NodeOK(n, v),
         f[n].pc \in Running, Kind[n] # "compete",
         v.pc \in {"active", "looping"}, v.at > 0, c = Children[n][v.at],
         \A d \in Kids[n] : ~ Lives(f[d])
  PROVE  InvIn([f EXCEPT ![n] = v, ![c] = Fresh])
<1> DEFINE g == [f EXCEPT ![n] = v, ![c] = Fresh]
<1>1. c \in Nodes /\ c # n /\ Above[c] = Above[n] \union {n}
  BY ParentOfKid
<1>2. f \in [Nodes -> Node] /\ v \in Node
  BY DEF InvIn, NodeOK
<1>3. NodeOK(c, Fresh) /\ Fresh \in Node
  BY <1>1, RecordOK DEF Fresh, NodeOK
<1>4. /\ g \in [Nodes -> Node] /\ g[n] = v /\ g[c] = Fresh
      /\ \A m \in Nodes : m # n /\ m # c => g[m] = f[m]
  BY <1>1, <1>2, <1>3
<1>5. \A m \in Nodes : NodeOK(m, g[m])
  BY <1>3, <1>4 DEF InvIn
<1>6. StructuredIn(g)
  <2>1. Lives(f[n]) /\ Holds(n, v, c)
    BY DEF Lives, Holds, AwaitsIn, Running
  <2> QED BY <1>2, <2>1, StartStructured DEF InvIn
<1>7. CancelReachesIn(g)
  <2> SUFFICES ASSUME NEW m \in Nodes, NEW a \in Above[m], g[a].pc \in Stopping, Lives(g[m])
               PROVE  g[m].pc = "cancelling" \/ (Kind[a] = "compete" /\ g[a].at = 0)
    BY DEF CancelReachesIn
  <2>1. a \in Nodes
    BY TreeAssumption
  <2>2. a # n /\ a # c
    BY <1>1, <1>4 DEF Stopping, Fresh, Record
  <2>3. g[a] = f[a]
    BY <1>4, <2>1, <2>2
  <2>4. CASE m \in {n, c}
    <3>1. a \in Above[n]
      BY <1>1, <2>2, <2>4
    <3>2. f[n].pc = "cancelling" \/ (Kind[a] = "compete" /\ f[a].at = 0)
      BY <2>3, <3>1 DEF InvIn, CancelReachesIn, Lives
    <3> QED BY <2>3, <3>2 DEF Running
  <2>5. CASE m \notin {n, c}
    BY <1>4, <2>3, <2>5 DEF InvIn, CancelReachesIn
  <2> QED BY <2>4, <2>5
<1>8. HealsFailureIn(g)
  <2> SUFFICES ASSUME NEW m \in Nodes, g[m].pc = "healing"
               PROVE  g[Children[m][1]].pc = "failed"
    BY DEF HealsFailureIn
  <2>1. m # n /\ m # c /\ f[m].pc = "healing"
    BY <1>4 DEF Fresh, Record
  <2>2. f[Children[m][1]].pc = "failed" /\ Children[m][1] \in Nodes /\ Children[m][1] \in Kids[m]
    BY <2>1, HealedChild DEF InvIn, HealsFailureIn
  <2>3. Children[m][1] # n
    BY <2>2 DEF Running
  <2>4. Children[m][1] # c
    BY <2>1, <2>2, TreeAssumption
  <2> QED BY <1>4, <2>2, <2>3, <2>4
<1> QED BY <1>4, <1>5, <1>6, <1>7, <1>8 DEF InvIn

\* The fork starts its branches.
LEMMA ForkInv ==
  ASSUME NEW f, InvIn(f), NEW v, NodeOK(Root, v), f[Root].pc = "active",
         v.pc = "racing", \A d \in Kids[Root] : ~ Lives(f[d])
  PROVE  InvIn(Forked(f, Root, v))
<1> DEFINE g == Forked(f, Root, v)
<1>0. Root \in Nodes /\ Above[Root] = {} /\ Root \notin Kids[Root]
  BY TreeAssumption, ParentOfKid
<1>1. f \in [Nodes -> Node] /\ v \in Node /\ Kind[Root] = "compete"
  BY DEF InvIn, NodeOK, PhaseOK
<1>2. \A m \in Nodes : NodeOK(m, Fresh)
  BY RecordOK DEF Fresh
<1>3. \A m \in Nodes : NodeOK(m, g[m]) /\ g[m] \in Node
  BY <1>2 DEF InvIn, Forked, NodeOK
<1>4. StructuredIn(g)
  <2>1. Lives(f[Root]) /\ \A c \in Kids[Root] : Holds(Root, v, c)
    BY <1>1 DEF Lives, Holds, AwaitsIn, Running
  <2> QED BY <1>1, <2>1, ForkStructured DEF InvIn
<1>5. CancelReachesIn(g)
  <2> SUFFICES ASSUME NEW m \in Nodes, NEW a \in Above[m], g[a].pc \in Stopping, Lives(g[m])
               PROVE  g[m].pc = "cancelling" \/ (Kind[a] = "compete" /\ g[a].at = 0)
    BY DEF CancelReachesIn
  <2>1. a \in Nodes
    BY TreeAssumption
  <2>2. a # Root /\ a \notin Kids[Root]
    BY <1>0, <2>1 DEF Forked, Stopping, Fresh, Record
  <2>3. m # Root /\ m \notin Kids[Root]
    <3>1. m \in Kids[Root] => Above[m] = {Root}
      BY <1>0, ParentOfKid
    <3> QED BY <1>0, <2>2, <3>1
  <2>4. g[a] = f[a] /\ g[m] = f[m]
    BY <2>1, <2>2, <2>3 DEF Forked
  <2> QED BY <2>4 DEF InvIn, CancelReachesIn
<1>6. HealsFailureIn(g)
  <2> SUFFICES ASSUME NEW m \in Nodes, g[m].pc = "healing"
               PROVE  g[Children[m][1]].pc = "failed"
    BY DEF HealsFailureIn
  <2>1. m # Root /\ m \notin Kids[Root] /\ f[m].pc = "healing"
    BY DEF Forked, Fresh, Record
  <2>2. f[Children[m][1]].pc = "failed" /\ Children[m][1] \in Nodes /\ Children[m][1] \in Kids[m]
    BY <2>1, HealedChild DEF InvIn, HealsFailureIn
  <2>3. Children[m][1] # Root
    BY <2>2
  <2>4. Children[m][1] \notin Kids[Root]
    BY <1>0, <2>1, <2>2, TreeAssumption
  <2> QED BY <2>2, <2>3, <2>4 DEF Forked
<1> QED BY <1>3, <1>4, <1>5, <1>6 DEF InvIn, Forked

(***************************************************************************)
(* The steps                                                               *)
(***************************************************************************)

LEMMA InvForms ==
  ASSUME InvIn(node'), expired' \subseteq Nodes
  PROVE  IInv'
<1>1. StructuredIn(node)'
  BY DEF InvIn, StructuredIn, Lives, Chain, Holds, Abandons, AwaitsIn
<1>2. (\A n \in Nodes : NodeOK(n, node[n]))'
  BY DEF InvIn, NodeOK, PhaseOK, BudgetOK
<1>3. CancelReachesIn(node)' /\ HealsFailureIn(node)'
  BY DEF InvIn, CancelReachesIn, HealsFailureIn, Lives
<1> QED BY <1>1, <1>2, <1>3 DEF IInv, InvIn

\* No child of a running node lives before it starts one or after the end of
\* the one it waited for.
LEMMA QuietKids ==
  ASSUME NEW f, InvIn(f), NEW n \in Nodes, f[n].pc \in Running,
         IF f[n].at = 0 THEN f[n].pc # "racing"
         ELSE Kind[n] # "compete" /\ ~ Lives(f[Children[n][f[n].at]])
  PROVE  \A c \in Kids[n] : ~ Lives(f[c])
<1> SUFFICES ASSUME NEW c \in Kids[n], Lives(f[c]) PROVE FALSE
  OBVIOUS
<1>1. Holds(n, f[n], c)
  BY LiveKid DEF InvIn
<1>2. ~ Abandons(n, f[n])
  BY DEF Abandons, Running
<1>3. c \in AwaitsIn(n, f[n]) /\ f[n].at \in Nat
  BY <1>1, <1>2 DEF Holds, InvIn, NodeOK, Node
<1> QED BY <1>3 DEF AwaitsIn

\* A running node without live children takes a step of its own.
LEMMA QuietStep ==
  ASSUME IInv, NEW n \in Nodes, NEW v, NodeOK(n, v), node[n].pc \in Running,
         \A c \in Kids[n] : ~ Lives(node[c]),
         v.pc \notin Stopping,
         v.pc = "healing" => node[Children[n][1]].pc = "failed",
         Becomes(n, v)
  PROVE  IInv'
<1>1. Lives(node[n]) /\ node[n].pc # "cancelling"
  BY DEF Lives, Running
<1>2. InvIn([node EXCEPT ![n] = v])
  BY <1>1, LocalInv DEF IInv
<1> QED BY <1>2, InvForms DEF Becomes, IInv

LEMMA ReturnsStep ==
  ASSUME IInv, NEW n \in Nodes, node[n].pc \in Running,
         \A c \in Kids[n] : ~ Lives(node[c]), Returns(n)
  PROVE  IInv'
<1>1. NodeOK(n, Record("ok", 0, NoError))
  BY RecordOK DEF Over
<1>2. Record("ok", 0, NoError).pc = "ok"
  BY DEF Record
<1> QED BY <1>1, <1>2, QuietStep DEF Returns, Stopping

LEMMA RaisesStep ==
  ASSUME IInv, NEW n \in Nodes, node[n].pc \in Running, NEW e \in Errors,
         \A c \in Kids[n] : ~ Lives(node[c]), Raises(n, e)
  PROVE  IInv'
<1>1. NodeOK(n, Record("failed", 0, e))
  BY RecordOK DEF Over
<1>2. Record("failed", 0, e).pc = "failed"
  BY DEF Record
<1> QED BY <1>1, <1>2, QuietStep DEF Raises, Stopping

\* A running node without live children starts its child i.
Launches(n, w, i) ==
  /\ node' = [node EXCEPT ![n] = w, ![Children[n][i]] = Fresh]
  /\ UNCHANGED expired

LEMMA RunsStep ==
  ASSUME IInv, NEW n \in Nodes, NEW w, NEW i \in DOMAIN Children[n],
         NodeOK(n, w), w.pc \in {"active", "looping"}, w.at = i,
         node[n].pc \in Running, Kind[n] # "compete",
         \A c \in Kids[n] : ~ Lives(node[c]), Launches(n, w, i)
  PROVE  IInv'
<1>1. Children[n][i] \in Kids[n] /\ i > 0
  <2>1. Children[n] \in Seq(Nodes)
    BY TreeAssumption
  <2> QED BY <2>1 DEF Kids
<1>2. InvIn([node EXCEPT ![n] = w, ![Children[n][i]] = Fresh])
  BY <1>1, StartInv DEF IInv
<1> QED BY <1>2, InvForms DEF Launches, IInv

\* An error of a child is one that can be raised.
LEMMA ChildError ==
  ASSUME IInv, NEW n \in Nodes, ChildIs(n, "failed")
  PROVE  node[Child(n)].err \in Errors
<1>1. node[n].at \in DOMAIN Children[n]
  BY DEF ChildIs, IInv, InvIn, NodeOK
<1>2. Child(n) \in Nodes
  <2>1. Children[n] \in Seq(Nodes)
    BY TreeAssumption
  <2> QED BY <1>1, <2>1 DEF Child
<1> QED BY <1>2 DEF ChildIs, Is, IInv, InvIn, NodeOK, PhaseOK

\* No child of a running node lives when the one that it waits for has ended.
LEMMA QuietAfterChild ==
  ASSUME IInv, NEW n \in Nodes, node[n].pc \in Running, Kind[n] # "compete",
         node[n].at > 0, Ended(Child(n))
  PROVE  \A c \in Kids[n] : ~ Lives(node[c])
<1>1. node[n].at # 0 /\ ~ Lives(node[Children[n][node[n].at]])
  BY DEF Ended, Child, Lives, Over, Running, IInv, InvIn, NodeOK, Node
<1> QED BY <1>1, QuietKids DEF IInv

LEMMA QuietBefore ==
  ASSUME IInv, NEW n \in Nodes, node[n].pc \in Running, node[n].pc # "racing", node[n].at = 0
  PROVE  \A c \in Kids[n] : ~ Lives(node[c])
BY QuietKids DEF IInv

\* Moving on to child i, with the same budgets.
LEMMA Advance ==
  ASSUME NEW n \in Nodes, NEW v, NodeOK(n, v), Kind[n] # "compete",
         NEW i \in DOMAIN Children[n],
         (v.pc = "active" /\ Kind[n] # "for") \/ (v.pc = "looping" /\ v.left > 0)
  PROVE  /\ NodeOK(n, [v EXCEPT !.at = i])
         /\ [v EXCEPT !.at = i].pc = v.pc /\ [v EXCEPT !.at = i].at = i
<1>1. v \in Node
  BY DEF NodeOK
<1>2. i \in Nat /\ i > 0
  BY TreeAssumption
<1> DEFINE w == [v EXCEPT !.at = i]
<1>3. w \in Node /\ w.at = i /\ w.pc = v.pc /\ w.err = v.err /\ w.retried = v.retried
      /\ w.healed = v.healed /\ w.left = v.left /\ w.attempts = v.attempts
  BY <1>1, <1>2 DEF Node
<1> HIDE DEF w
<1>4. PhaseOK(n, w)
  BY <1>2, <1>3 DEF NodeOK, PhaseOK
<1>5. BudgetOK(n, w)
  BY <1>2, <1>3 DEF NodeOK, BudgetOK
<1>6. NodeOK(n, w) /\ w.pc = v.pc /\ w.at = i
  BY <1>3, <1>4, <1>5 DEF NodeOK
<1> QED BY <1>6 DEF w

\* n goes on to its child i.
LEMMA AdvanceStep ==
  ASSUME IInv, NEW n \in Nodes, NEW i \in DOMAIN Children[n], Kind[n] # "compete",
         (node[n].pc = "active" /\ Kind[n] # "for") \/ (node[n].pc = "looping" /\ node[n].left > 0),
         \A c \in Kids[n] : ~ Lives(node[c]), Runs(n, node[n], i)
  PROVE  IInv'
<1> DEFINE w == [node[n] EXCEPT !.at = i]
<1>1. NodeOK(n, w) /\ w.pc = node[n].pc /\ w.at = i
  BY Advance DEF IInv, InvIn
<1>2. Launches(n, w, i)
  BY DEF Runs, Launches
<1> HIDE DEF w
<1> QED BY <1>1, <1>2, RunsStep DEF Running

(***************************************************************************)
(* Leaves, lists and for                                                   *)
(***************************************************************************)

LEMMA NextChild ==
  ASSUME IInv, NEW n \in Nodes, node[n].at < Len(Children[n])
  PROVE  node[n].at + 1 \in DOMAIN Children[n]
<1>1. Children[n] \in Seq(Nodes) /\ node[n].at \in Nat
  BY TreeAssumption DEF IInv, InvIn, NodeOK, Node
<1> QED BY <1>1

LEMMA FirstChild ==
  ASSUME NEW n \in Nodes, Kind[n] = "base" \/ Kind[n] = "try" \/ Children[n] # <<>>
  PROVE  1 \in DOMAIN Children[n]
<1>1. Children[n] \in Seq(Nodes) /\ Len(Children[n]) \in Arity[Kind[n]]
  BY TreeAssumption
<1>2. Len(Children[n]) > 0
  BY <1>1 DEF Arity
<1> QED BY <1>1, <1>2

LEMMA NoKids ==
  ASSUME NEW n \in Nodes, Kind[n] = "leaf" \/ Children[n] = <<>>
  PROVE  Kids[n] = {}
<1>1. Children[n] \in Seq(Nodes) /\ Len(Children[n]) \in Arity[Kind[n]]
  BY TreeAssumption
<1>2. Len(Children[n]) = 0
  BY <1>1 DEF Arity
<1> QED BY <1>1, <1>2 DEF Kids

LEMMA LeafStep ==
  ASSUME IInv, NEW n \in Nodes, LeafEnds(n)
  PROVE  IInv'
<1>1. node[n].pc \in Running /\ \A c \in Kids[n] : ~ Lives(node[c])
  BY NoKids DEF LeafEnds, Is, Running
<1>2. Outcomes[n] \ {"ok"} \subseteq Errors
  BY PolicyAssumption
<1> QED BY <1>1, <1>2, ReturnsStep, RaisesStep DEF LeafEnds

LEMMA PropagateStep ==
  ASSUME IInv, NEW n \in Nodes, Propagate(n)
  PROVE  IInv'
<1>1. node[n].pc \in Running /\ Kind[n] # "compete" /\ node[n].at > 0 /\ Ended(Child(n))
  BY DEF Propagate, Is, ChildIs, Running, Ended, Over
<1>2. node[Child(n)].err \in Errors
  BY ChildError DEF Propagate
<1> QED BY <1>1, <1>2, QuietAfterChild, RaisesStep DEF Propagate

LEMMA RunNestedStep ==
  ASSUME IInv, NEW n \in Nodes, RunNested(n)
  PROVE  IInv'
<1>1. node[n].pc \in Running /\ Kind[n] = "list" /\ node[n].pc = "active"
  BY DEF RunNested, Is, Running
<1>2. \A c \in Kids[n] : ~ Lives(node[c])
  <2>1. CASE node[n].at = 0
    BY <1>1, <2>1, QuietBefore
  <2>2. CASE ChildIs(n, "ok")
    BY <1>1, <2>2, QuietAfterChild DEF ChildIs, Is, Ended, Over
  <2> QED BY <2>1, <2>2 DEF RunNested
<1>3. CASE node[n].at < Len(Children[n])
  BY <1>1, <1>2, <1>3, NextChild, AdvanceStep DEF RunNested
<1>4. CASE ~ (node[n].at < Len(Children[n]))
  BY <1>1, <1>2, <1>4, ReturnsStep DEF RunNested
<1> QED BY <1>3, <1>4

\* The budgets of a node are as they were.
SameBudget(w, v) ==
  w.retried = v.retried /\ w.healed = v.healed /\ w.attempts = v.attempts

\* A node of kind for turns to its next item.
LEMMA ForOwnStep ==
  ASSUME IInv, NEW n \in Nodes, node[n].pc \in {"active", "looping"}, Kind[n] # "compete",
         \A c \in Kids[n] : ~ Lives(node[c]),
         NEW w \in Node, w.pc = "looping", w.at = 0, SameBudget(w, node[n]),
         Becomes(n, w)
  PROVE  IInv'
<1>1. NodeOK(n, node[n])
  BY DEF IInv, InvIn
<1>2. PhaseOK(n, w) /\ BudgetOK(n, w)
  BY <1>1 DEF NodeOK, PhaseOK, BudgetOK, SameBudget
<1>3. NodeOK(n, w)
  BY <1>2 DEF NodeOK
<1> QED BY <1>3, QuietStep DEF Stopping, Running

LEMMA ForBeginsStep ==
  ASSUME IInv, NEW n \in Nodes, ForBegins(n)
  PROVE  IInv'
<1>1. node[n].pc = "active" /\ node[n] \in Node /\ Kind[n] # "compete" /\ node[n].at = 0
  BY DEF ForBegins, Is, IInv, InvIn, NodeOK, PhaseOK
<1>2. \A c \in Kids[n] : ~ Lives(node[c])
  BY <1>1, QuietBefore DEF Running
<1>3. CASE Raises(n, "other")
  BY <1>1, <1>2, <1>3, RaisesStep, PolicyAssumption DEF Running
<1>4. ASSUME NEW k \in 0..MaxItems, Becomes(n, [node[n] EXCEPT !.pc = "looping", !.left = k])
      PROVE  IInv'
  <2> DEFINE w == [node[n] EXCEPT !.pc = "looping", !.left = k]
  <2>1. k \in Nat
    BY PolicyAssumption
  <2>2. w \in Node /\ w.pc = "looping" /\ w.at = 0 /\ SameBudget(w, node[n])
    BY <1>1, <2>1 DEF Node, Running, SameBudget
  <2>3. Becomes(n, w)
    BY <1>4
  <2> HIDE DEF w
  <2> QED BY <1>1, <1>2, <2>2, <2>3, ForOwnStep
<1> QED BY <1>3, <1>4 DEF ForBegins

LEMMA ForItemStep ==
  ASSUME IInv, NEW n \in Nodes, ForItem(n)
  PROVE  IInv'
<1>1. node[n].pc = "looping" /\ node[n] \in Node /\ Kind[n] # "compete" /\ node[n].at = 0
  BY DEF ForItem, Is, IInv, InvIn
<1>2. node[n].pc \in Running /\ \A c \in Kids[n] : ~ Lives(node[c])
  BY <1>1, QuietBefore DEF Running
<1>3. CASE Returns(n) \/ Raises(n, "other")
  BY <1>2, <1>3, ReturnsStep, RaisesStep, PolicyAssumption
<1>4. CASE node[n].left > 0 /\ Children[n] # <<>> /\ Runs(n, node[n], 1)
  BY <1>1, <1>2, <1>4, FirstChild, AdvanceStep
<1>5. CASE node[n].left > 0 /\ Becomes(n, [node[n] EXCEPT !.left = @ - 1])
  <2> DEFINE w == [node[n] EXCEPT !.left = @ - 1]
  <2>1. node[n].left \in Nat /\ node[n].left - 1 \in Nat
    BY <1>1, <1>5 DEF Node
  <2>2. w \in Node /\ w.pc = "looping" /\ w.at = 0 /\ SameBudget(w, node[n])
    BY <1>1, <2>1 DEF Node, SameBudget
  <2>3. Becomes(n, w)
    BY <1>5
  <2> HIDE DEF w
  <2> QED BY <1>1, <1>2, <2>2, <2>3, ForOwnStep
<1> QED BY <1>3, <1>4, <1>5 DEF ForItem

LEMMA ForGoesOnStep ==
  ASSUME IInv, NEW n \in Nodes, ForGoesOn(n)
  PROVE  IInv'
<1>1. node[n].pc = "looping" /\ node[n] \in Node /\ Kind[n] # "compete" /\ node[n].at > 0
  BY DEF ForGoesOn, Is, ChildIs, IInv, InvIn
<1>2. node[n].pc \in Running /\ \A c \in Kids[n] : ~ Lives(node[c])
  BY <1>1, QuietAfterChild DEF ForGoesOn, ChildIs, Is, Ended, Over, Running
<1>3. node[n].left > 0 /\ node[n].left \in Nat
  BY <1>1 DEF IInv, InvIn, NodeOK, PhaseOK, Node
<1>4. CASE node[n].at < Len(Children[n])
  BY <1>1, <1>2, <1>3, <1>4, NextChild, AdvanceStep DEF ForGoesOn
<1>5. CASE ~ (node[n].at < Len(Children[n]))
  <2> DEFINE w == [node[n] EXCEPT !.at = 0, !.left = @ - 1]
  <2>1. node[n].left - 1 \in Nat
    BY <1>3
  <2>2. w \in Node /\ w.pc = "looping" /\ w.at = 0 /\ SameBudget(w, node[n])
    BY <1>1, <2>1 DEF Node, SameBudget
  <2>3. Becomes(n, w)
    BY <1>5 DEF ForGoesOn
  <2> HIDE DEF w
  <2> QED BY <1>1, <1>2, <2>2, <2>3, ForOwnStep
<1> QED BY <1>4, <1>5

(***************************************************************************)
(* The taskBase wrapper                                                    *)
(***************************************************************************)

LEMMA BaseBeginsStep ==
  ASSUME IInv, NEW n \in Nodes, BaseBegins(n)
  PROVE  IInv'
<1>1. node[n].pc = "active" /\ Kind[n] = "base" /\ node[n].at = 0
  BY DEF BaseBegins, Is
<1>2. node[n].pc \in Running /\ \A c \in Kids[n] : ~ Lives(node[c])
  BY <1>1, QuietBefore DEF Running
<1>3. CASE Returns(n) \/ Raises(n, "other")
  BY <1>2, <1>3, ReturnsStep, RaisesStep, PolicyAssumption
<1>4. CASE Runs(n, node[n], 1)
  BY <1>1, <1>2, <1>4, FirstChild, AdvanceStep
<1> QED BY <1>3, <1>4 DEF BaseBegins

LEMMA BaseReturnsStep ==
  ASSUME IInv, NEW n \in Nodes, BaseReturns(n)
  PROVE  IInv'
<1>1. node[n].pc \in Running /\ Kind[n] # "compete" /\ node[n].at > 0 /\ Ended(Child(n))
  BY DEF BaseReturns, Is, ChildIs, Running, Ended, Over
<1>2. \A c \in Kids[n] : ~ Lives(node[c])
  BY <1>1, QuietAfterChild
<1> QED BY <1>1, <1>2, ReturnsStep, RaisesStep, PolicyAssumption DEF BaseReturns

LEMMA TimedOutStep ==
  ASSUME IInv, NEW n \in Nodes, TimedOut(n)
  PROVE  IInv'
<1>1. node[n].pc \in Running /\ Kind[n] # "compete" /\ Ended(Child(n)) /\ node[n].at > 0
  BY DEF TimedOut, Is, Running, IInv, InvIn, NodeOK, PhaseOK
<1>2. \A c \in Kids[n] : ~ Lives(node[c])
  BY <1>1, QuietAfterChild
<1> QED BY <1>1, <1>2, RaisesStep, PolicyAssumption DEF TimedOut

\* n goes on to state w and cancels what runs below it.
LEMMA CancelStep ==
  ASSUME IInv, NEW n \in Nodes, NEW w, NodeOK(n, w), node[n].pc \in Running,
         \A c \in Kids[n] : Lives(node[c]) => Holds(n, w, c),
         w.pc \in Stopping, BecomesAndCancels(n, w)
  PROVE  IInv'
<1> DEFINE g == [m \in Nodes |-> IF m = n THEN w
                                 ELSE IF n \in Above[m] THEN Cancelled(node[m]) ELSE node[m]]
<1>1. InvIn(g)
  BY CancelInv DEF IInv
<1>2. node' = g /\ expired' = expired
  BY DEF BecomesAndCancels
<1> HIDE DEF g
<1> QED BY <1>1, <1>2, InvForms DEF IInv

\* A live child of a running node is one that it awaits.
LEMMA AwaitedKids ==
  ASSUME IInv, NEW n \in Nodes, node[n].pc \in Running
  PROVE  \A c \in Kids[n] : Lives(node[c]) => c \in AwaitsIn(n, node[n])
<1> SUFFICES ASSUME NEW c \in Kids[n], Lives(node[c]) PROVE c \in AwaitsIn(n, node[n])
  OBVIOUS
<1>1. Holds(n, node[n], c)
  BY LiveKid DEF IInv, InvIn
<1> QED BY <1>1 DEF Holds, Abandons, Running

LEMMA TimeoutStep ==
  ASSUME IInv, NEW n \in Nodes, TimeoutFires(n)
  PROVE  IInv'
<1>1. node[n].pc = "active" /\ Kind[n] = "base" /\ node[n].at = 1
  BY DEF TimeoutFires, Is
<1>2. node[n] \in Node /\ NodeOK(n, node[n])
  BY DEF IInv, InvIn
<1> DEFINE w == [node[n] EXCEPT !.pc = "timing"]
<1>3. w \in Node /\ w.pc = "timing" /\ w.at = 1 /\ SameBudget(w, node[n])
  BY <1>1, <1>2 DEF Node, Running, SameBudget
<1>4. BecomesAndCancels(n, w)
  BY DEF TimeoutFires
<1> HIDE DEF w
<1>5. PhaseOK(n, w) /\ BudgetOK(n, w)
  BY <1>1, <1>2, <1>3 DEF NodeOK, PhaseOK, BudgetOK, SameBudget
<1>6. NodeOK(n, w)
  BY <1>1, <1>2, <1>3, <1>5 DEF NodeOK
<1>7. \A c \in Kids[n] : Lives(node[c]) => Holds(n, w, c)
  BY <1>1, <1>3, AwaitedKids DEF Holds, AwaitsIn, Lives, Running
<1> QED BY <1>1, <1>3, <1>4, <1>6, <1>7, CancelStep DEF Stopping, Running

(***************************************************************************)
(* try                                                                     *)
(***************************************************************************)

\* What is known of a try whose body has failed.
LEMMA BodyFacts ==
  ASSUME IInv, NEW n \in Nodes, BodyFailed(n)
  PROVE  /\ Kind[n] = "try" /\ node[n].pc = "active" /\ node[n].at = 1
         /\ node[n].pc \in Running /\ node[n] \in Node /\ NodeOK(n, node[n])
         /\ node[Children[n][1]].pc = "failed"
         /\ node[Child(n)].err \in Errors
         /\ \A c \in Kids[n] : ~ Lives(node[c])
<1>1. /\ Kind[n] = "try" /\ node[n].pc = "active" /\ node[n].at = 1
      /\ node[n].pc \in Running /\ ChildIs(n, "failed")
  BY DEF BodyFailed, Is, Running
<1>2. node[n] \in Node /\ NodeOK(n, node[n]) /\ node[Children[n][1]].pc = "failed"
  BY <1>1 DEF IInv, InvIn, ChildIs, Child, Is
<1>3. Ended(Child(n))
  BY <1>1 DEF ChildIs, Is, Ended, Over
<1> QED BY <1>1, <1>2, <1>3, ChildError, QuietAfterChild

\* What is known of a try whose healer diagnoses the failure of its body.
LEMMA HealingFacts ==
  ASSUME IInv, NEW n \in Nodes, node[n].pc = "healing"
  PROVE  /\ Kind[n] = "try" /\ node[n].at = 1
         /\ node[n].pc \in Running /\ node[n] \in Node /\ NodeOK(n, node[n])
         /\ node[Child(n)].err \in Errors
         /\ \A c \in Kids[n] : ~ Lives(node[c])
<1>1. /\ Kind[n] = "try" /\ node[n].at = 1 /\ node[n].pc \in Running
      /\ node[n] \in Node /\ NodeOK(n, node[n])
  BY DEF IInv, InvIn, NodeOK, PhaseOK, Running
<1>2. ChildIs(n, "failed")
  BY <1>1 DEF ChildIs, Child, Is, IInv, InvIn, HealsFailureIn
<1>3. Ended(Child(n))
  BY <1>2 DEF ChildIs, Is, Ended, Over
<1> QED BY <1>1, <1>2, <1>3, ChildError, QuietAfterChild

LEMMA TryBeginsStep ==
  ASSUME IInv, NEW n \in Nodes, TryBegins(n)
  PROVE  IInv'
<1> DEFINE v == node[n]
           w == [[v EXCEPT !.pc = "active", !.attempts = @ + 1] EXCEPT !.at = 1]
<1>1. Kind[n] = "try" /\ v.pc \in {"active", "sleeping"} /\ v.at = 0
  BY DEF TryBegins, Is
<1>2. v \in Node /\ NodeOK(n, v) /\ v.attempts + 1 \in Nat
  BY DEF IInv, InvIn, Node
<1>3. v.pc \in Running /\ \A c \in Kids[n] : ~ Lives(node[c])
  BY <1>1, QuietBefore DEF Running
<1>4. w \in Node /\ w.pc = "active" /\ w.at = 1 /\ w.retried = v.retried
      /\ w.healed = v.healed /\ w.attempts = v.attempts + 1
  <2> DEFINE u == [v EXCEPT !.pc = "active", !.attempts = @ + 1]
  <2>1. u \in Node /\ u.pc = "active" /\ u.retried = v.retried /\ u.healed = v.healed
        /\ u.attempts = v.attempts + 1
    BY <1>2 DEF Node, Running
  <2>2. w = [u EXCEPT !.at = 1]
    OBVIOUS
  <2> HIDE DEF u, w
  <2> QED BY <2>1, <2>2 DEF Node
<1>5. Launches(n, w, 1)
  BY DEF TryBegins, Runs, Launches
<1> HIDE DEF w
<1>6. PhaseOK(n, w)
  BY <1>1, <1>4 DEF PhaseOK
<1>7. BudgetOK(n, w)
  BY <1>1, <1>2, <1>4 DEF NodeOK, BudgetOK, Node
<1>8. NodeOK(n, w) /\ 1 \in DOMAIN Children[n]
  BY <1>1, <1>4, <1>6, <1>7, FirstChild DEF NodeOK
<1> QED BY <1>1, <1>3, <1>4, <1>5, <1>8, RunsStep

LEMMA TryReturnsStep ==
  ASSUME IInv, NEW n \in Nodes, TryReturns(n)
  PROVE  IInv'
<1>1. node[n].pc \in Running /\ Kind[n] # "compete" /\ node[n].at > 0 /\ Ended(Child(n))
  BY DEF TryReturns, Is, ChildIs, Running, Ended, Over
<1> QED BY <1>1, QuietAfterChild, ReturnsStep DEF TryReturns

LEMMA NotCaughtStep ==
  ASSUME IInv, NEW n \in Nodes, NotCaught(n)
  PROVE  IInv'
<1>1. BodyFailed(n)
  BY DEF NotCaught
<1> QED BY <1>1, BodyFacts, RaisesStep DEF NotCaught

LEMMA RetryStep ==
  ASSUME IInv, NEW n \in Nodes, Retry(n)
  PROVE  IInv'
<1> DEFINE v == node[n]
           w == [v EXCEPT !.pc = "sleeping", !.at = 0, !.retried = @ + 1]
<1>1. BodyFailed(n) /\ ~ RetryLimited(n)
  BY DEF Retry, Caught
<1>2. /\ Kind[n] = "try" /\ v.pc = "active" /\ v.at = 1 /\ v.pc \in Running
      /\ v \in Node /\ NodeOK(n, v) /\ \A c \in Kids[n] : ~ Lives(node[c])
  BY <1>1, BodyFacts
<1>3. n \in Retrying /\ (AttemptLimit[n] > 0 => v.retried + 1 < AttemptLimit[n])
      /\ AttemptLimit[n] \in Nat
  BY <1>1, <1>2, PolicyAssumption DEF RetryLimited, Node
<1>0. v.retried + 1 \in Nat
  BY <1>2 DEF Node
<1>4. w \in Node /\ w.pc = "sleeping" /\ w.at = 0 /\ w.retried = v.retried + 1
      /\ w.healed = v.healed /\ w.attempts = v.attempts
  BY <1>0, <1>2 DEF Node, Running
<1>5. Becomes(n, w)
  BY DEF Retry
<1> HIDE DEF w
<1>6. PhaseOK(n, w)
  BY <1>2, <1>4 DEF PhaseOK
<1>7. BudgetOK(n, w)
  BY <1>2, <1>3, <1>4 DEF NodeOK, BudgetOK, Node
<1>8. NodeOK(n, w)
  BY <1>4, <1>6, <1>7 DEF NodeOK
<1> QED BY <1>2, <1>4, <1>5, <1>8, QuietStep DEF Stopping

LEMMA PolicyRaisesStep ==
  ASSUME IInv, NEW n \in Nodes, PolicyRaises(n)
  PROVE  IInv'
<1>1. BodyFailed(n)
  BY DEF PolicyRaises, Caught
<1> QED BY <1>1, BodyFacts, RaisesStep, PolicyAssumption DEF PolicyRaises

LEMMA DiagnoseStep ==
  ASSUME IInv, NEW n \in Nodes, Diagnose(n)
  PROVE  IInv'
<1> DEFINE v == node[n]
           w == [v EXCEPT !.pc = "healing", !.healed = @ + 1]
<1>1. BodyFailed(n) /\ HealBudget(n)
  BY DEF Diagnose, NotRetried, Caught
<1>2. /\ Kind[n] = "try" /\ v.pc = "active" /\ v.at = 1 /\ v.pc \in Running
      /\ v \in Node /\ NodeOK(n, v) /\ \A c \in Kids[n] : ~ Lives(node[c])
      /\ node[Children[n][1]].pc = "failed"
  BY <1>1, BodyFacts
<1>3. n \in Healing /\ HealLimit[n] > v.healed + 1 /\ HealLimit[n] > 1 /\ HealLimit[n] \in Nat
  BY <1>1, <1>2, PolicyAssumption DEF HealBudget, Node
<1>0. v.healed + 1 \in Nat
  BY <1>2 DEF Node
<1>4. w \in Node /\ w.pc = "healing" /\ w.at = 1 /\ w.retried = v.retried
      /\ w.healed = v.healed + 1 /\ w.attempts = v.attempts
  BY <1>0, <1>2 DEF Node, Running
<1>5. Becomes(n, w)
  BY DEF Diagnose
<1> HIDE DEF w
<1>6. PhaseOK(n, w)
  BY <1>2, <1>4 DEF PhaseOK
<1>7. BudgetOK(n, w)
  BY <1>2, <1>3, <1>4 DEF NodeOK, BudgetOK, Node
<1>8. NodeOK(n, w)
  BY <1>2, <1>4, <1>6, <1>7 DEF NodeOK
<1> QED BY <1>2, <1>4, <1>5, <1>8, QuietStep DEF Stopping

LEMMA HealedStep ==
  ASSUME IInv, NEW n \in Nodes, Healed(n)
  PROVE  IInv'
<1> DEFINE v == node[n]
           w == [v EXCEPT !.pc = "active", !.at = 0]
<1>1. v.pc = "healing"
  BY DEF Healed, Is
<1>2. /\ Kind[n] = "try" /\ v.pc \in Running
      /\ v \in Node /\ NodeOK(n, v) /\ \A c \in Kids[n] : ~ Lives(node[c])
  BY <1>1, HealingFacts
<1>3. w \in Node /\ w.pc = "active" /\ w.at = 0 /\ SameBudget(w, v)
  BY <1>2 DEF Node, Running, SameBudget
<1>4. Becomes(n, w)
  BY DEF Healed
<1> HIDE DEF w
<1>5. PhaseOK(n, w) /\ BudgetOK(n, w)
  BY <1>1, <1>2, <1>3 DEF NodeOK, PhaseOK, BudgetOK, SameBudget
<1>6. NodeOK(n, w)
  BY <1>3, <1>5 DEF NodeOK
<1> QED BY <1>2, <1>3, <1>4, <1>6, QuietStep DEF Stopping

LEMMA HealerRaisesStep ==
  ASSUME IInv, NEW n \in Nodes, HealerRaises(n)
  PROVE  IInv'
BY HealingFacts, RaisesStep, PolicyAssumption DEF HealerRaises, Is

LEMMA CatchStep ==
  ASSUME IInv, NEW n \in Nodes, Catch(n)
  PROVE  IInv'
<1> DEFINE v == node[n]
           w == [[v EXCEPT !.pc = "active"] EXCEPT !.at = 2]
<1>1. /\ Kind[n] = "try" /\ v.at = 1 /\ v.pc \in Running
      /\ v \in Node /\ NodeOK(n, v) /\ node[Child(n)].err \in Errors
      /\ \A c \in Kids[n] : ~ Lives(node[c])
  <2>1. CASE Is(n, "healing")
    BY <2>1, HealingFacts DEF Is
  <2>2. CASE BodyFailed(n)
    BY <2>2, BodyFacts
  <2> QED BY <2>1, <2>2 DEF Catch, NotRetried, Caught
<1>2. CASE n \notin Catching
  BY <1>1, <1>2, RaisesStep DEF Catch
<1>3. CASE n \in Catching
  <2>1. w \in Node /\ w.pc = "active" /\ w.at = 2 /\ SameBudget(w, v)
    BY <1>1 DEF Node, Running, SameBudget
  <2>2. Launches(n, w, 2)
    BY <1>3 DEF Catch, Runs, Launches
  <2> HIDE DEF w
  <2>3. PhaseOK(n, w) /\ BudgetOK(n, w)
    BY <1>1, <2>1 DEF NodeOK, PhaseOK, BudgetOK, SameBudget
  <2>4. 2 \in DOMAIN Children[n]
    <3>1. Children[n] \in Seq(Nodes) /\ Len(Children[n]) \in Arity["try"]
      BY <1>1, TreeAssumption
    <3>2. Arity["try"] = {2}
      BY DEF Arity
    <3> QED BY <3>1, <3>2
  <2>5. NodeOK(n, w)
    BY <2>1, <2>3, <2>4 DEF NodeOK
  <2> QED BY <1>1, <2>1, <2>2, <2>4, <2>5, RunsStep
<1> QED BY <1>2, <1>3

(***************************************************************************)
(* The competing fork and cancellation                                     *)
(***************************************************************************)

LEMMA RaceStep ==
  ASSUME IInv, NEW n \in Nodes, Race(n)
  PROVE  IInv'
<1> DEFINE w == [node[n] EXCEPT !.pc = "racing"]
<1>1. Kind[n] = "compete" /\ node[n].pc = "active" /\ n = Root
  BY TreeAssumption DEF Race, Is
<1>2. node[n] \in Node /\ NodeOK(n, node[n]) /\ node[n].at = 0
  BY <1>1 DEF IInv, InvIn, NodeOK, PhaseOK
<1>3. \A c \in Kids[n] : ~ Lives(node[c])
  BY <1>1, <1>2, QuietBefore DEF Running
<1>4. CASE Kids[n] = {}
  BY <1>1, <1>3, <1>4, ReturnsStep DEF Race, Running
<1>5. CASE Kids[n] # {}
  <2>1. w \in Node /\ w.pc = "racing" /\ w.at = 0 /\ SameBudget(w, node[n])
    BY <1>2 DEF Node, Running, SameBudget
  <2>2. node' = Forked(node, Root, w) /\ expired' = expired
    BY <1>1, <1>5 DEF Race, Forked
  <2> HIDE DEF w
  <2>3. PhaseOK(n, w) /\ BudgetOK(n, w)
    BY <1>1, <1>2, <2>1 DEF NodeOK, PhaseOK, BudgetOK, SameBudget
  <2>4. NodeOK(Root, w)
    BY <1>1, <2>1, <2>3 DEF NodeOK
  <2>5. InvIn(node')
    BY <1>1, <1>3, <2>1, <2>2, <2>4, ForkInv DEF IInv
  <2> QED BY <2>2, <2>5, InvForms DEF IInv
<1> QED BY <1>4, <1>5

LEMMA SettleStep ==
  ASSUME IInv, NEW n \in Nodes, Settle(n)
  PROVE  IInv'
<1>1. PICK i \in DOMAIN Children[n] :
        BecomesAndCancels(n, [node[n] EXCEPT !.pc = "gathering", !.at = i])
  BY DEF Settle
<1> DEFINE w == [node[n] EXCEPT !.pc = "gathering", !.at = i]
<1>2. node[n].pc = "racing" /\ node[n] \in Node /\ NodeOK(n, node[n]) /\ Kind[n] = "compete"
  BY DEF Settle, Is, IInv, InvIn, NodeOK, PhaseOK
<1>3. i \in Nat /\ i > 0
  BY TreeAssumption
<1>4. w \in Node /\ w.pc = "gathering" /\ w.at = i /\ SameBudget(w, node[n])
  BY <1>2, <1>3 DEF Node, Running, SameBudget
<1>5. BecomesAndCancels(n, w)
  BY <1>1
<1> HIDE DEF w
<1>6. PhaseOK(n, w) /\ BudgetOK(n, w)
  BY <1>2, <1>3, <1>4 DEF NodeOK, PhaseOK, BudgetOK, SameBudget
<1>7. NodeOK(n, w)
  BY <1>4, <1>6 DEF NodeOK
<1>8. \A c \in Kids[n] : Holds(n, w, c)
  BY <1>2, <1>3, <1>4 DEF Holds, AwaitsIn, Lives, Running
<1> QED BY <1>2, <1>4, <1>5, <1>7, <1>8, CancelStep DEF Stopping, Running

LEMMA GatheredStep ==
  ASSUME IInv, NEW n \in Nodes, Gathered(n)
  PROVE  IInv'
<1>1. node[n].pc \in Running /\ \A c \in Kids[n] : ~ Lives(node[c])
  BY DEF Gathered, Is, Ended, Over, Lives, Running
<1>2. CASE Returns(n)
  BY <1>1, <1>2, ReturnsStep
<1>3. CASE ChildIs(n, "failed") /\ Raises(n, node[Child(n)].err)
  BY <1>1, <1>3, ChildError, RaisesStep
<1> QED BY <1>2, <1>3 DEF Gathered

LEMMA UnwindStep ==
  ASSUME IInv, NEW n \in Nodes, Unwind(n)
  PROVE  IInv'
<1> DEFINE w == Record("cancelled", node[n].at, NoError)
<1>1. node[n].pc = "cancelling" /\ node[n].at \in {0} \union DOMAIN Children[n]
  BY DEF Unwind, Is, IInv, InvIn, NodeOK
<1>2. w.pc = "cancelled" /\ w.at = node[n].at
  BY DEF Record
<1>3. NodeOK(n, w)
  BY <1>1, RecordOK DEF Over
<1>4. Becomes(n, w)
  BY DEF Unwind
<1> HIDE DEF w
<1>5. ASSUME NEW c \in Kids[n], Lives(node[c])
      PROVE  Holds(n, w, c)
  <2>1. Holds(n, node[n], c)
    BY <1>5, LiveKid DEF IInv, InvIn
  <2>2. ~ Ended(c)
    BY <1>5 DEF Ended, Lives, Over, Running
  <2>3. c \notin AwaitsIn(n, node[n])
    BY <2>2 DEF Unwind, Awaits, AwaitsIn, Is, Child
  <2> QED BY <1>2, <2>1, <2>3 DEF Holds, Abandons
<1>6. Lives(node[n]) /\ ~ Lives(w)
  BY <1>1, <1>2 DEF Lives, Running
<1>7. InvIn([node EXCEPT ![n] = w])
  BY <1>2, <1>3, <1>5, <1>6, LocalInv DEF IInv, Stopping
<1> QED BY <1>4, <1>7, InvForms DEF Becomes, IInv

LEMMA CancelRunStep ==
  ASSUME IInv, CancelRun
  PROVE  IInv'
<1> DEFINE v == node[Root]
           w == Cancelled(node[Root])
<1>1. Root \in Nodes /\ v \in Node /\ NodeOK(Root, v) /\ v.pc \in Running
  BY TreeAssumption DEF CancelRun, IInv, InvIn
<1>2. w.pc = "cancelling" /\ w.at = v.at /\ NodeOK(Root, w)
  BY <1>1, CancelledOK DEF Cancelled, Node
<1>3. Is(Root, "racing") => Becomes(Root, w)
  BY DEF CancelRun
<1>4. ~ Is(Root, "racing") => BecomesAndCancels(Root, w)
  BY DEF CancelRun
<1> HIDE DEF w
<1>5. CASE Is(Root, "racing")
  <2>1. Kind[Root] = "compete" /\ v.at = 0
    BY <1>1, <1>5 DEF Is, NodeOK, PhaseOK
  <2>2. \A c \in Kids[Root] : Holds(Root, w, c)
    BY <1>2, <2>1 DEF Holds, Abandons
  <2>3. Lives(v) /\ v.pc # "cancelling" /\ w.pc # "healing"
    BY <1>1, <1>2 DEF Lives, Running
  <2>4. InvIn([node EXCEPT ![Root] = w])
    BY <1>1, <1>2, <2>1, <2>2, <2>3, LocalInv DEF IInv
  <2> QED BY <1>3, <1>5, <2>4, InvForms DEF Becomes, IInv
<1>6. CASE ~ Is(Root, "racing")
  <2>1. \A c \in Kids[Root] : Lives(node[c]) => c \in AwaitsIn(Root, v)
    BY <1>1, AwaitedKids
  <2>2. \A c \in Kids[Root] : Lives(node[c]) => Holds(Root, w, c)
    BY <1>2, <1>6, <2>1 DEF Holds, AwaitsIn, Is, Lives
  <2> QED BY <1>1, <1>2, <1>4, <1>6, <2>2, CancelStep DEF Stopping
<1> QED BY <1>5, <1>6

(***************************************************************************)
(* The theorems                                                            *)
(***************************************************************************)

LEMMA InitIInv == Init => IInv
<1> SUFFICES ASSUME Init PROVE IInv
  OBVIOUS
<1>1. Root \in Nodes /\ Above[Root] = {}
  BY TreeAssumption
<1>2. \A n \in Nodes : NodeOK(n, Fresh) /\ NodeOK(n, Record("idle", 0, NoError))
  BY RecordOK DEF Fresh
<1>3. \A n \in Nodes : NodeOK(n, node[n]) /\ node[n] \in Node
  BY <1>2 DEF Init, NodeOK
<1>4. node \in [Nodes -> Node]
  BY <1>3 DEF Init
<1>5. \A n \in Nodes : node[n].pc \in {"idle", "active"} /\ (Lives(node[n]) => n = Root)
  BY DEF Init, Lives, Running, Fresh, Record
<1>6. StructuredIn(node)
  BY <1>1, <1>5 DEF StructuredIn, Chain
<1>7. CancelReachesIn(node)
  BY <1>1, <1>5 DEF CancelReachesIn
<1>8. HealsFailureIn(node)
  BY <1>5 DEF HealsFailureIn
<1> QED BY <1>3, <1>4, <1>6, <1>7, <1>8 DEF Init, IInv, InvIn

LEMMA DeadlineStep ==
  ASSUME IInv, NEW n \in Nodes, DeadlinePasses(n)
  PROVE  IInv'
BY InvForms DEF DeadlinePasses, IInv

LEMMA NextIInv == IInv /\ [Next]_vars => IInv'
<1> SUFFICES ASSUME IInv, [Next]_vars PROVE IInv'
  OBVIOUS
<1>1. CASE CancelRun
  BY <1>1, CancelRunStep
<1>2. ASSUME NEW n \in Nodes, LeafEnds(n) \/ TimeoutFires(n) \/ DeadlinePasses(n)
      PROVE  IInv'
  BY <1>2, LeafStep, TimeoutStep, DeadlineStep
<1>3. ASSUME NEW n \in Nodes, GoesOn(n)
      PROVE  IInv'
  BY <1>3, PropagateStep, RunNestedStep, ForBeginsStep, ForItemStep, ForGoesOnStep,
     BaseBeginsStep, BaseReturnsStep, TimedOutStep, TryBeginsStep, TryReturnsStep,
     NotCaughtStep, RetryStep, PolicyRaisesStep, DiagnoseStep, HealedStep, HealerRaisesStep, CatchStep,
     RaceStep, SettleStep, GatheredStep, UnwindStep DEF GoesOn
<1>4. CASE UNCHANGED vars
  BY <1>4, InvForms DEF vars, IInv
<1> QED BY <1>1, <1>2, <1>3, <1>4 DEF Next

\* The invariant that everything else follows from.
THEOREM InductiveInvariant == Spec => []IInv
<1> QED BY InitIInv, NextIInv, PTL DEF Spec

\* Every node is in a state of its own kind, within its children and items.
THEOREM TypeCorrect == Spec => []TypeOK
<1>1. IInv => TypeOK
  BY DEF IInv, InvIn, NodeOK, PhaseOK, TypeOK, Is
<1> QED BY <1>1, InductiveInvariant, PTL

\* control_flow.py:114-125, simple.py:373-386: whatever runs is awaited, up to
\* the root or to a fork that was cancelled in its race.
THEOREM Structure == Spec => []Structured
<1>1. IInv => Structured
  BY StructuredForms DEF IInv, InvIn
<1> QED BY <1>1, InductiveInvariant, PTL

\* A node that has returned or raised leaves nothing behind that still runs.
THEOREM Quiet == Spec => []EndedIsQuiet
<1>1. ASSUME IInv, NEW m \in Nodes, NEW n \in Nodes, node[n].pc \in {"ok", "failed"},
             n \in Above[m], Live(m)
      PROVE  FALSE
  <2>1. Lives(node[n]) \/ Abandons(n, node[n])
    BY <1>1, ChainIsLive DEF IInv, InvIn, Live, Lives
  <2> QED BY <1>1, <2>1 DEF Lives, Abandons, Running
<1>2. IInv => EndedIsQuiet
  BY <1>1 DEF EndedIsQuiet
<1> QED BY <1>2, InductiveInvariant, PTL

\* The attempts of a try stay within the budgets of its policy and its healer.
THEOREM Budgets == Spec => []AttemptsWithinBudgets
<1>1. ASSUME IInv, NEW n \in Nodes,
             NEW retries, retries = IF n \in Retrying THEN AttemptLimit[n] ELSE 1,
             NEW heals, heals = IF n \in Healing /\ HealLimit[n] > 1 THEN HealLimit[n] - 1 ELSE 0,
             retries > 0
      PROVE  node[n].attempts <= retries + heals
  <2>1. /\ node[n].attempts \in Nat /\ node[n].retried \in Nat /\ node[n].healed \in Nat
        /\ BudgetOK(n, node[n])
    BY <1>1 DEF IInv, InvIn, NodeOK, Node
  <2>2. AttemptLimit[n] \in Nat /\ HealLimit[n] \in Nat
    BY PolicyAssumption
  <2> QED BY <1>1, <2>1, <2>2 DEF BudgetOK
<1>2. IInv => AttemptsWithinBudgets
  BY <1>1 DEF AttemptsWithinBudgets
<1> QED BY <1>2, InductiveInvariant, PTL

(***************************************************************************)
(* Who starts a node                                                       *)
(***************************************************************************)

\* A node starts only in a step of its parent, which was not stopping.
Starting == {"active", "looping", "sleeping", "healing"}
StartedByParent ==
  \A m \in Nodes : Starts(m) => \E p \in Nodes : m \in Kids[p] /\ node[p].pc \in Starting

LEMMA BecomesStartsNone ==
  ASSUME NEW n \in Nodes, NEW v, node \in [Nodes -> Node], node[n].pc \in Running \union {"cancelling"},
         Becomes(n, v) \/ BecomesAndCancels(n, v)
  PROVE  StartedByParent
<1> SUFFICES ASSUME NEW m \in Nodes, Starts(m) PROVE FALSE
  BY DEF StartedByParent
<1>1. m # n
  BY DEF Starts, Live
<1>2. node'[m] = node[m] \/ node'[m] = Cancelled(node[m])
  BY <1>1 DEF Becomes, BecomesAndCancels
<1>3. Lives(node'[m]) => Lives(node[m])
  BY <1>2, CancelledLives
<1> QED BY <1>3 DEF Starts, Live, Lives

LEMMA RunsStartsChild ==
  ASSUME NEW n \in Nodes, NEW v, NEW i \in DOMAIN Children[n], node \in [Nodes -> Node],
         node[n].pc \in Starting, Runs(n, v, i)
  PROVE  StartedByParent
<1> SUFFICES ASSUME NEW m \in Nodes, Starts(m)
             PROVE  \E p \in Nodes : m \in Kids[p] /\ node[p].pc \in Starting
  BY DEF StartedByParent
<1>1. Children[n][i] \in Kids[n]
  BY DEF Kids
<1>2. m # n
  BY DEF Starts, Live, Starting, Running
<1>3. m = Children[n][i]
  <2> SUFFICES ASSUME m # Children[n][i] PROVE FALSE
    OBVIOUS
  <2>1. node'[m] = node[m]
    BY <1>2 DEF Runs
  <2> QED BY <2>1 DEF Starts, Live
<1> QED BY <1>1, <1>3

LEMMA RaceStartsBranches ==
  ASSUME NEW n \in Nodes, node \in [Nodes -> Node], Race(n)
  PROVE  StartedByParent
<1>1. node[n].pc = "active"
  BY DEF Race, Is
<1>2. CASE Returns(n)
  BY <1>1, <1>2, BecomesStartsNone DEF Returns, Running
<1>3. CASE ~ Returns(n)
  <2> SUFFICES ASSUME NEW m \in Nodes, Starts(m)
               PROVE  \E p \in Nodes : m \in Kids[p] /\ node[p].pc \in Starting
    BY DEF StartedByParent
  <2>1. m # n
    BY <1>1 DEF Starts, Live, Running
  <2>2. m \in Kids[n]
    <3> SUFFICES ASSUME m \notin Kids[n] PROVE FALSE
      OBVIOUS
    <3>1. node'[m] = node[m]
      BY <1>3, <2>1 DEF Race
    <3> QED BY <3>1 DEF Starts, Live
  <2> QED BY <1>1, <2>2 DEF Starting
<1> QED BY <1>2, <1>3

LEMMA StillStartsNone ==
  ASSUME UNCHANGED node
  PROVE  StartedByParent
BY DEF StartedByParent, Starts, Live

LEMMA GoesOnStarts ==
  ASSUME IInv, NEW n \in Nodes, GoesOn(n)
  PROVE  StartedByParent
<1>0. node \in [Nodes -> Node]
  BY DEF IInv, InvIn
<1>1. CASE Propagate(n) \/ BaseReturns(n) \/ TimedOut(n) \/ TryReturns(n) \/ NotCaught(n)
           \/ Gathered(n) \/ Unwind(n)
  <2>1. node[n].pc \in Running \union {"cancelling"}
    BY <1>1 DEF Propagate, BaseReturns, TimedOut, TryReturns, NotCaught, BodyFailed,
       Gathered, Unwind, Is, Running
  <2>2. \E v : Becomes(n, v)
    BY <1>1 DEF Propagate, BaseReturns, TimedOut, TryReturns, NotCaught, Gathered, Unwind,
       Returns, Raises
  <2> QED BY <1>0, <2>1, <2>2, BecomesStartsNone
<1>2. CASE ForBegins(n) \/ Retry(n) \/ Diagnose(n) \/ Healed(n) \/ HealerRaises(n)
           \/ PolicyRaises(n)
  <2>1. node[n].pc \in Running
    BY <1>2 DEF ForBegins, Retry, PolicyRaises, Diagnose, NotRetried, Caught, BodyFailed, Healed, HealerRaises,
       Is, Running
  <2>2. \E v : Becomes(n, v)
    BY <1>2 DEF ForBegins, Retry, PolicyRaises, Diagnose, Healed, HealerRaises, Raises
  <2> QED BY <1>0, <2>1, <2>2, BecomesStartsNone
<1>3. CASE Settle(n)
  <2>1. PICK i \in DOMAIN Children[n] :
          BecomesAndCancels(n, [node[n] EXCEPT !.pc = "gathering", !.at = i])
    BY <1>3 DEF Settle
  <2>2. node[n].pc \in Running
    BY <1>3 DEF Settle, Is, Running
  <2> QED BY <1>0, <2>1, <2>2, BecomesStartsNone
<1>4. CASE Race(n)
  BY <1>0, <1>4, RaceStartsBranches
<1>5. ASSUME NEW v, Becomes(n, v), node[n].pc \in Running
      PROVE  StartedByParent
  BY <1>0, <1>5, BecomesStartsNone
<1>6. CASE RunNested(n)
  <2>1. node[n].pc = "active"
    BY <1>6 DEF RunNested, Is
  <2>2. CASE node[n].at < Len(Children[n])
    BY <1>0, <1>6, <2>1, <2>2, NextChild, RunsStartsChild DEF RunNested, Starting
  <2>3. CASE ~ (node[n].at < Len(Children[n]))
    BY <1>5, <1>6, <2>1, <2>3 DEF RunNested, Returns, Running
  <2> QED BY <2>2, <2>3
<1>7. CASE ForItem(n)
  <2>1. node[n].pc = "looping"
    BY <1>7 DEF ForItem, Is
  <2>2. CASE Children[n] # <<>> /\ Runs(n, node[n], 1)
    BY <1>0, <2>1, <2>2, FirstChild, RunsStartsChild DEF Starting
  <2>3. CASE \E v : Becomes(n, v)
    BY <1>5, <2>1, <2>3 DEF Running
  <2> QED BY <1>7, <2>2, <2>3 DEF ForItem, Returns, Raises
<1>8. CASE ForGoesOn(n)
  <2>1. node[n].pc = "looping"
    BY <1>8 DEF ForGoesOn, Is
  <2>2. CASE node[n].at < Len(Children[n])
    BY <1>0, <1>8, <2>1, <2>2, NextChild, RunsStartsChild DEF ForGoesOn, Starting
  <2>3. CASE ~ (node[n].at < Len(Children[n]))
    BY <1>5, <1>8, <2>1, <2>3 DEF ForGoesOn, Running
  <2> QED BY <2>2, <2>3
<1>9. CASE BaseBegins(n)
  <2>1. node[n].pc = "active" /\ Kind[n] = "base"
    BY <1>9 DEF BaseBegins, Is
  <2>2. CASE Runs(n, node[n], 1)
    BY <1>0, <2>1, <2>2, FirstChild, RunsStartsChild DEF Starting
  <2>3. CASE \E v : Becomes(n, v)
    BY <1>5, <2>1, <2>3 DEF Running
  <2> QED BY <1>9, <2>2, <2>3 DEF BaseBegins, Returns, Raises
<1>10. CASE TryBegins(n)
  <2>1. node[n].pc \in Starting /\ 1 \in DOMAIN Children[n]
    BY <1>10, FirstChild DEF TryBegins, Is, Starting
  <2>2. \E v : Runs(n, v, 1)
    BY <1>10 DEF TryBegins
  <2> QED BY <1>0, <2>1, <2>2, RunsStartsChild
<1>11. CASE Catch(n)
  <2>1. node[n].pc \in {"active", "healing"} /\ Kind[n] = "try"
    BY <1>11, HealingFacts DEF Catch, NotRetried, Caught, BodyFailed, Is
  <2>2. CASE n \in Catching
    <3>1. Children[n] \in Seq(Nodes) /\ Len(Children[n]) \in Arity["try"] /\ Arity["try"] = {2}
      BY <2>1, TreeAssumption DEF Arity
    <3>2. 2 \in DOMAIN Children[n]
      BY <3>1
    <3>3. \E v : Runs(n, v, 2)
      BY <1>11, <2>2 DEF Catch
    <3> QED BY <1>0, <2>1, <3>2, <3>3, RunsStartsChild DEF Starting
  <2>3. CASE n \notin Catching
    BY <1>5, <1>11, <2>1, <2>3 DEF Catch, Raises, Running
  <2> QED BY <2>2, <2>3
<1> QED BY <1>1, <1>2, <1>3, <1>4, <1>6, <1>7, <1>8, <1>9, <1>10, <1>11 DEF GoesOn

LEMMA NextStarts == IInv /\ [Next]_vars => StartedByParent
<1> SUFFICES ASSUME IInv, [Next]_vars PROVE StartedByParent
  OBVIOUS
<1>0. node \in [Nodes -> Node]
  BY DEF IInv, InvIn
<1>1. CASE CancelRun
  <2>1. Root \in Nodes /\ node[Root].pc \in Running
    BY <1>1, TreeAssumption DEF CancelRun
  <2>2. \E v : Becomes(Root, v) \/ BecomesAndCancels(Root, v)
    BY <1>1 DEF CancelRun
  <2> QED BY <1>0, <2>1, <2>2, BecomesStartsNone
<1>2. ASSUME NEW n \in Nodes, LeafEnds(n) \/ TimeoutFires(n)
      PROVE  StartedByParent
  <2>1. node[n].pc \in Running
    BY <1>2 DEF LeafEnds, TimeoutFires, Is, Running
  <2>2. \E v : Becomes(n, v) \/ BecomesAndCancels(n, v)
    BY <1>2 DEF LeafEnds, TimeoutFires, Returns, Raises
  <2> QED BY <1>0, <2>1, <2>2, BecomesStartsNone
<1>3. CASE UNCHANGED node
  BY <1>3, StillStartsNone
<1> QED BY <1>1, <1>2, <1>3, GoesOnStarts DEF Next, DeadlinePasses, vars

\* control_flow.py:159-163: once a node is cancelled nothing below it starts,
\* save for the branches of a fork that abandoned them.
THEOREM NoStartUnderCancelled == Spec => NothingStartsUnderCancelled
<1> DEFINE A == \A m, a \in Nodes :
                  /\ a \in Above[m] /\ Starts(m)
                  /\ node[a].pc \in {"cancelling", "timing", "gathering"}
                  => Kind[a] = "compete" /\ node[a].at = 0
<1>1. IInv /\ [Next]_vars => A
  <2> SUFFICES ASSUME IInv, [Next]_vars, NEW m \in Nodes, NEW a \in Nodes,
                      a \in Above[m], Starts(m), node[a].pc \in Stopping
               PROVE  Kind[a] = "compete" /\ node[a].at = 0
    BY DEF Stopping
  <2>1. PICK p \in Nodes : m \in Kids[p] /\ node[p].pc \in Starting
    BY NextStarts DEF StartedByParent
  <2>2. a \in Above[p]
    BY <2>1, ParentOfKid DEF Starting, Stopping
  <2>3. Lives(node[p]) /\ node[p].pc # "cancelling"
    BY <2>1 DEF Lives, Running, Starting
  <2> QED BY <2>2, <2>3 DEF IInv, InvIn, CancelReachesIn
<1>2. NothingStartsUnderCancelled <=> [][A]_vars
  BY DEF NothingStartsUnderCancelled
<1> HIDE DEF A
<1> QED BY <1>1, <1>2, InductiveInvariant, PTL DEF Spec
=============================================================================
