--------------------------- MODULE MCBrokerWorker ---------------------------
(* One worker with two loops, whose jobs share an endpoint. *)
EXTENDS BrokerWorker

CONSTANTS w1, l1, l2, j1, j2, sig, api

MCWorkerOf == [l \in Loops |-> w1]
MCEndpointOf == [j \in Jobs |-> api]
=============================================================================
