------------------------------ MODULE MCAsync ------------------------------
(* A small instance of AsyncClient.                                        *)
EXTENDS AsyncClient, TLC

CONSTANTS a1, a2, s1, s2

(* A map with a slot on each node, and one after a failover with a slot    *)
(* that no node serves.                                                    *)
MCMaps ==
  { [nodes |-> {a1, a2}, table |-> (s1 :> a1 @@ s2 :> a2)],
    [nodes |-> {a2}, table |-> (s1 :> a2 @@ s2 :> NULL)] }

Symmetry == Permutations(Cmd)
=============================================================================
