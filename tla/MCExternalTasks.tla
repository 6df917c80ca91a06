-------------------------- MODULE MCExternalTasks --------------------------
(* Small groups of calls, each group for one question, with the wait_for of
   both families of Python. *)
EXTENDS ExternalTasks, TLC

CONSTANTS a, b, c, k1, k2

Plain == [kind |-> "absent", key |-> NoKey, timeout |-> "none", child |-> Nobody,
          extended |-> FALSE, forks |-> FALSE, reads |-> FALSE, rounds |-> 1, asks |-> {}]
Process == [Plain EXCEPT !.kind = "process", !.forks = TRUE]
Function == [Plain EXCEPT !.kind = "function"]
Mcp == [Plain EXCEPT !.kind = "mcp", !.forks = TRUE]
Container == [Plain EXCEPT !.kind = "container"]
Grpc == [Plain EXCEPT !.kind = "grpc"]
Http == [Plain EXCEPT !.kind = "http"]
By(task, key) == [task EXCEPT !.key = key]
In(task, timeout) == [task EXCEPT !.timeout = timeout]
Of(task, child) == [task EXCEPT !.child = child]

Tasks ==
  {\* three callers of a small cache, one of them with a process
   (a :> By([Process EXCEPT !.forks = FALSE], k1)) @@ (b :> By(Function, k1)) @@ (c :> By(Function, k2)),
   (a :> By(Function, k1)) @@ (b :> By(Function, k1)) @@ (c :> By(In(Function, "after"), k2)),
   \* a memoized function whose task is memoized again, or an MCP call
   (a :> Of(By(In(Function, "after"), k1), b)) @@ (b :> By(Function, k2)) @@ (c :> By(Function, k2)),
   (a :> Of(By(Function, k1), b)) @@ (b :> By(Function, k2)) @@ (c :> By(In(Function, "after"), k2)),
   (a :> Of(By(Function, k1), b)) @@ (b :> Mcp) @@ (c :> By(Function, k1)),
   (a :> Of(By(Function, k1), b)) @@ (b :> [Http EXCEPT !.rounds = 2]) @@ (c :> By(In(Function, "after"), k1)),
   (a :> Of(In(Function, "after"), b)) @@ (b :> [Http EXCEPT !.reads = TRUE]) @@
     (c :> [In(Http, "after") EXCEPT !.asks = {"egress"}]),
   (a :> Of(In(Function, "after"), b)) @@ (b :> In(Mcp, "after")) @@ (c :> Plain),
   \* each kind of timeout around a process
   (a :> In(Process, "after")) @@ (b :> In(Process, "units")) @@ (c :> Plain),
   (a :> In(Process, "named")) @@ (b :> [Process EXCEPT !.extended = TRUE]) @@ (c :> Plain),
   \* containers that share the pool, and gRPC
   (a :> [Container EXCEPT !.asks = {"volume"}]) @@ (b :> In(Container, "after")) @@ (c :> In(Grpc, "after"))}

MCSetups ==
  {[task |-> t, grants |-> {"volume", "command"}, python |-> p] :
     t \in Tasks, p \in {"3.11", "3.13"}}
=============================================================================
