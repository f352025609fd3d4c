------------------------------- MODULE MCSync -------------------------------
(* A small instance of SyncClient.                                         *)
EXTENDS SyncClient, TLC

CONSTANTS a1, a2, a3, s1, s2

(* A cluster of two, a failover that leaves a slot without a node, and a   *)
(* node that has joined.                                                   *)
MCMaps ==
  { [nodes |-> {a1, a2}, table |-> (s1 :> a1 @@ s2 :> a2)],
    [nodes |-> {a2}, table |-> (s1 :> a2 @@ s2 :> NULL)],
    [nodes |-> {a2, a3}, table |-> (s1 :> a3 @@ s2 :> a2)] }

MCCalls == {<<s1>>, <<s2>>, <<s1, s2>>}
=============================================================================
