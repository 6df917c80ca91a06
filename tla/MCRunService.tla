---------------------------- MODULE MCRunService ----------------------------
(* Two calls of every kind under one run id and under two, over each kind of
   history, with a SIGTERM and a call of shutdown. *)
EXTENDS RunService, TLC

CONSTANTS c1, c2, r1, r2, signal, caller

Shared == (c1 :> r1) @@ (c2 :> r1)

Setup(kind1, kind2, id, store) ==
  [kind |-> (c1 :> kind1) @@ (c2 :> kind2), id |-> id, store |-> store]

MCSetups ==
  {Setup("stream_run", "run_stream", Shared, "memory"),
   Setup("stream_run", "run", Shared, "sqlite"),
   Setup("execute", "execute", Shared, "postgres"),
   Setup("run_stream", "stream_run", (c1 :> r1) @@ (c2 :> r2), "postgres")}

Symmetry == Permutations(Shutdowns)
=============================================================================
