----------------------------- MODULE MCPipeline -----------------------------
(***************************************************************************)
(* Instance of Pipeline: two nodes, two slots (on different nodes, or both *)
(* on one, or one of them unserved), commands to either slot and to both.  *)
(***************************************************************************)
EXTENDS Pipeline, TLC

CONSTANTS a1, a2, s1, s2

MCAddr == {a1, a2}
MCSlot == {s1, s2}

MCMaps ==
  { [nodes |-> {a1, a2}, table |-> s1 :> a1 @@ s2 :> a2],
    [nodes |-> {a1, a2}, table |-> s1 :> a2 @@ s2 :> a2],
    [nodes |-> {a1}, table |-> s1 :> a1 @@ s2 :> NULL] }

MCCommands == {<<s1>>, <<s2>>, <<s1, s2>>}
=============================================================================
