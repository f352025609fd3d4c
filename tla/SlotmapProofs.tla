---------------------------- MODULE SlotmapProofs ---------------------------
(***************************************************************************)
(* Theorems about Slotmap, for every number of addresses, slots, nodes and *)
(* contexts and for every set of replies: the inductive invariant, that    *)
(* commands and their replies and the swap of table and dict in a slotmap  *)
(* update keep it, then the steps that release nodes and contexts, and     *)
(* what follows from the invariant.                                        *)
(***************************************************************************)
EXTENDS Slotmap, TLAPS

(* What the phases mean: nothing is left to release outside a release, the *)
(* running context is allocated, and a freed context has no nodes.         *)
PhaseInv ==
  /\ phase \in {"idle", "flushing", "freed"} => old = {}
  /\ phase \in {"idle", "freeing", "freed"} => cur = NULL
  /\ phase = "flushing" => cur # NULL
  /\ cur # NULL => cur \in open
  /\ phase \in {"freeing", "freed"} => table = NULL /\ \A a \in Addr : nodes[a] = NULL
  /\ phase = "refusing" /\ routed # {} => table # NULL

(* The inductive invariant: the ownership invariants support one another.  *)
Inv ==
  /\ TypeOK
  /\ TableWithinNodes
  /\ NodesOwned
  /\ BackPointers
  /\ NoContextLeaked
  /\ RedirectHasTable
  /\ PhaseInv

(* The address given to a fresh node is the key it is stored under.        *)
LEMMA NewAddrKey ==
  ASSUME NEW r \in Replies, NEW new \in [Addr -> NodeId \union {NULL}],
         TypeOK, FreshDict(r, new)
  PROVE  /\ NewAddr(r, new) \in [NodeId -> Addr \union {NULL}]
         /\ \A a \in r.masters : NewAddr(r, new)[new[a]] = a
         /\ \A n \in NodeId : (\A a \in r.masters : new[a] # n) =>
              NewAddr(r, new)[n] = addr[n]
  <1> DEFINE A == NewAddr(r, new)
  <1>0. r.masters \subseteq Addr
    BY SlotmapAssumption DEF IsReply
  <1>1. \A a \in r.masters : new[a] \in NodeId /\ A[new[a]] = a
    <2> SUFFICES ASSUME NEW a \in r.masters
                 PROVE  new[a] \in NodeId /\ A[new[a]] = a
      OBVIOUS
    <2>1. new[a] \in NodeId
      BY <1>0 DEF FreshDict
    <2>2. A[new[a]] = CHOOSE b \in r.masters : new[b] = new[a]
      BY <2>1 DEF NewAddr
    <2>3. PICK b \in r.masters : b = A[new[a]] /\ new[b] = new[a]
      BY <2>2
    <2> QED
      BY <2>1, <2>3 DEF FreshDict
  <1>2. \A n \in NodeId : (\A a \in r.masters : new[a] # n) => A[n] = addr[n]
    BY DEF NewAddr
  <1>3. A \in [NodeId -> Addr \union {NULL}]
    <2> SUFFICES ASSUME NEW n \in NodeId PROVE A[n] \in Addr \union {NULL}
      BY DEF NewAddr
    <2>1. CASE \E a \in r.masters : new[a] = n
      BY <2>1, <1>0, <1>1
    <2>2. CASE ~ \E a \in r.masters : new[a] = n
      BY <2>2, <1>2 DEF TypeOK
    <2> QED
      BY <2>1, <2>2
  <1> QED
    BY <1>1, <1>2, <1>3

(* Taking or opening the context of a node of the dict keeps the links.    *)
LEMMA GetContext ==
  ASSUME Inv, NEW n \in NodeId, NEW c \in Conn, MayCall,
         addr[n] # NULL \/ acon[n] = NULL,
         actx_get_by_node(n, c)
  PROVE  /\ acon' \in [NodeId -> Conn \union {NULL}]
         /\ data' \in [Conn -> NodeId \union {NULL}]
         /\ open' \subseteq Conn
         /\ open \subseteq open'
         /\ c \in open'
         /\ \A m \in NodeId : acon'[m] # NULL =>
              (addr[m] # NULL \/ m = n) /\ acon'[m] \in open' /\ data'[acon'[m]] = m
         /\ \A d \in Conn : data'[d] # NULL => acon'[data'[d]] = d
         /\ \A d \in open' : data'[d] # NULL \/ d = cur
  <1> USE SlotmapAssumption
  <1>1. CASE acon[n] = c /\ UNCHANGED <<acon, data, open>>
    BY <1>1 DEF Inv, TypeOK, BackPointers, NoContextLeaked
  <1>2. CASE /\ acon[n] = NULL
             /\ c \notin open
             /\ acon' = [acon EXCEPT ![n] = c]
             /\ data' = [data EXCEPT ![c] = n]
             /\ open' = open \union {c}
    BY <1>2 DEF Inv, TypeOK, BackPointers, NoContextLeaked
  <1> QED
    BY <1>1, <1>2 DEF actx_get_by_node

(* An empty context satisfies the invariant.                               *)
LEMMA InitInv == Init => Inv
  BY SlotmapAssumption
  DEF Init, Inv, TypeOK, TableWithinNodes, NodesOwned, BackPointers,
      NoContextLeaked, RedirectHasTable, PhaseInv, Phases, InDict, MayCall

(* redisClusterSetOptionAddNode keeps the invariant.                       *)
LEMMA AddNodeInv ==
  ASSUME Inv, NEW a \in Addr, redisClusterSetOptionAddNode(a)
  PROVE  Inv'
  <1> USE SlotmapAssumption DEF redisClusterSetOptionAddNode, Inv
  <1>1. TypeOK'
    BY DEF TypeOK, live
  <1>2. TableWithinNodes'
    BY DEF TypeOK, TableWithinNodes, live
  <1>3. NodesOwned'
    BY DEF TypeOK, NodesOwned, live, InDict, PhaseInv
  <1>4. BackPointers' /\ NoContextLeaked' /\ RedirectHasTable' /\ PhaseInv'
    BY DEF TypeOK, BackPointers, NoContextLeaked, RedirectHasTable, PhaseInv,
           live, MayCall
  <1> QED
    BY <1>1, <1>2, <1>3, <1>4

(* A command sent by slot keeps the invariant.                             *)
LEMMA SendInv ==
  ASSUME Inv, NEW s \in Slot, NEW c \in Conn,
         redisClusterAsyncFormattedCommand(s, c)
  PROVE  Inv'
  <1> USE SlotmapAssumption DEF redisClusterAsyncFormattedCommand, Inv
  <1>1. table[s] \in NodeId /\ addr[table[s]] # NULL
    BY DEF TypeOK, TableWithinNodes
  <1>2. /\ acon' \in [NodeId -> Conn \union {NULL}]
        /\ data' \in [Conn -> NodeId \union {NULL}]
        /\ open' \subseteq Conn
        /\ open \subseteq open'
        /\ c \in open'
        /\ \A m \in NodeId : acon'[m] # NULL =>
             (addr[m] # NULL \/ m = table[s]) /\ acon'[m] \in open' /\ data'[acon'[m]] = m
        /\ \A d \in Conn : data'[d] # NULL => acon'[data'[d]] = d
        /\ \A d \in open' : data'[d] # NULL \/ d = cur
    BY <1>1, GetContext
  <1>3. TypeOK'
    BY <1>2 DEF TypeOK
  <1>4. TableWithinNodes' /\ NodesOwned'
    BY DEF TableWithinNodes, NodesOwned, InDict
  <1>5. BackPointers' /\ NoContextLeaked'
    BY <1>1, <1>2 DEF BackPointers, NoContextLeaked
  <1>6. RedirectHasTable' /\ PhaseInv'
    BY <1>2 DEF RedirectHasTable, PhaseInv, MayCall
  <1> QED
    BY <1>3, <1>4, <1>5, <1>6

(* A slotmap query, with the connect it may need, keeps the invariant.     *)
LEMMA QueryInv ==
  ASSUME Inv, NEW a \in Addr, NEW c \in Conn, updateSlotMapAsync(a, c)
  PROVE  Inv'
  <1> USE SlotmapAssumption DEF updateSlotMapAsync, Inv
  <1>1. nodes[a] \in NodeId /\ addr[nodes[a]] # NULL
    BY DEF TypeOK, NodesOwned
  <1>2. /\ acon' \in [NodeId -> Conn \union {NULL}]
        /\ data' \in [Conn -> NodeId \union {NULL}]
        /\ open' \subseteq Conn
        /\ open \subseteq open'
        /\ \A m \in NodeId : acon'[m] # NULL =>
             (addr[m] # NULL \/ m = nodes[a]) /\ acon'[m] \in open' /\ data'[acon'[m]] = m
        /\ \A d \in Conn : data'[d] # NULL => acon'[data'[d]] = d
        /\ \A d \in open' : data'[d] # NULL \/ d = cur
    BY <1>1, GetContext
  <1>3. TypeOK'
    BY <1>2 DEF TypeOK
  <1>4. TableWithinNodes' /\ NodesOwned'
    BY DEF TableWithinNodes, NodesOwned, InDict
  <1>5. BackPointers' /\ NoContextLeaked'
    BY <1>1, <1>2 DEF BackPointers, NoContextLeaked
  <1>6. RedirectHasTable' /\ PhaseInv'
    BY <1>2 DEF RedirectHasTable, PhaseInv, MayCall
  <1> QED
    BY <1>3, <1>4, <1>5, <1>6

(* An ordinary reply keeps the invariant.                                  *)
LEMMA DoneInv ==
  ASSUME Inv, NEW c \in Conn, CallbackDone(c)
  PROVE  Inv'
  BY SlotmapAssumption
  DEF CallbackDone, Inv, TypeOK, TableWithinNodes, NodesOwned, BackPointers,
      NoContextLeaked, RedirectHasTable, PhaseInv, InDict, MayCall

(* The node of a redirect is in the dict afterwards, under its address;    *)
(* nothing else of the dict changes.                                       *)
LEMMA RedirectNode ==
  ASSUME Inv, phase = "idle", NEW a \in Addr, NEW n \in NodeId,
         getNodeFromRedirectReply(a, n)
  PROVE  /\ nodes' \in [Addr -> NodeId \union {NULL}]
         /\ addr' \in [NodeId -> Addr \union {NULL}]
         /\ addr[n] # NULL \/ acon[n] = NULL
         /\ nodes'[a] = n /\ addr'[n] = a
         /\ \A b \in Addr : b # a => nodes'[b] = nodes[b]
         /\ nodes[a] # NULL => nodes'[a] = nodes[a]
         /\ \A m \in NodeId : m # n => addr'[m] = addr[m]
         /\ addr[n] # NULL => addr'[n] = addr[n]
         /\ \A b \in Addr : nodes'[b] # NULL => addr'[nodes'[b]] = b
         /\ \A m \in NodeId : addr'[m] # NULL <=> \E b \in Addr : nodes'[b] = m
  <1> USE SlotmapAssumption DEF Inv
  <1>1. CASE nodes[a] # NULL
    BY <1>1 DEF getNodeFromRedirectReply, TypeOK, NodesOwned, InDict, PhaseInv
  <1>2. CASE nodes[a] = NULL
    <2>1. /\ addr[n] = NULL
          /\ nodes' = [nodes EXCEPT ![a] = n]
          /\ addr' = [addr EXCEPT ![n] = a]
      BY <1>2 DEF getNodeFromRedirectReply, live
    <2>2. acon[n] = NULL /\ \A b \in Addr : nodes[b] # n
      BY <2>1 DEF NodesOwned, BackPointers, TypeOK, InDict
    <2> QED
      BY <1>2, <2>1, <2>2 DEF TypeOK, NodesOwned, InDict, PhaseInv
  <1> QED
    BY <1>1, <1>2

(* A MOVED reply keeps the invariant: the node stored in the table is one  *)
(* of the dict, known before or just added.                                *)
LEMMA MovedInv ==
  ASSUME Inv, NEW c \in Conn, NEW s \in Slot, NEW a \in Addr, NEW k \in Conn,
         CallbackMoved(c, s, a, k)
  PROVE  Inv'
  <1> USE SlotmapAssumption DEF Inv
  <1>1. PICK n \in NodeId : /\ getNodeFromRedirectReply(a, n)
                            /\ table' = [table EXCEPT ![s] = n]
                            /\ actx_get_by_node(n, k)
    BY Zenon DEF CallbackMoved
  <1>2. /\ phase = "idle" /\ MayCall /\ c \in routed
        /\ UNCHANGED <<old, phase, cur, route_version>>
        /\ routed' \subseteq routed \union {k}
    BY DEF CallbackMoved, MayCall
  <1>3. /\ nodes' \in [Addr -> NodeId \union {NULL}]
        /\ addr' \in [NodeId -> Addr \union {NULL}]
        /\ addr[n] # NULL \/ acon[n] = NULL
        /\ nodes'[a] = n /\ addr'[n] = a
        /\ \A b \in Addr : b # a => nodes'[b] = nodes[b]
        /\ nodes[a] # NULL => nodes'[a] = nodes[a]
        /\ \A m \in NodeId : m # n => addr'[m] = addr[m]
        /\ addr[n] # NULL => addr'[n] = addr[n]
        /\ \A b \in Addr : nodes'[b] # NULL => addr'[nodes'[b]] = b
        /\ \A m \in NodeId : addr'[m] # NULL <=> \E b \in Addr : nodes'[b] = m
    BY <1>1, <1>2, RedirectNode
  <1>4. /\ acon' \in [NodeId -> Conn \union {NULL}]
        /\ data' \in [Conn -> NodeId \union {NULL}]
        /\ open' \subseteq Conn
        /\ open \subseteq open'
        /\ k \in open'
        /\ \A m \in NodeId : acon'[m] # NULL =>
             (addr[m] # NULL \/ m = n) /\ acon'[m] \in open' /\ data'[acon'[m]] = m
        /\ \A d \in Conn : data'[d] # NULL => acon'[data'[d]] = d
        /\ \A d \in open' : data'[d] # NULL \/ d = cur
    BY <1>1, <1>2, <1>3, GetContext
  <1>5. table # NULL
    BY <1>2 DEF RedirectHasTable
  <1>6. TypeOK'
    BY <1>1, <1>2, <1>3, <1>4, <1>5 DEF TypeOK
  <1>7. TableWithinNodes'
    <2> SUFFICES ASSUME NEW t \in Slot, table'[t] # NULL
                 PROVE  \E b \in Addr : nodes'[b] = table'[t] /\ addr'[table'[t]] = b
      BY DEF TableWithinNodes
    <2>1. CASE t = s
      BY <2>1, <1>1, <1>3, <1>5 DEF TypeOK
    <2>2. CASE t # s
      <3>1. table'[t] = table[t] /\ table[t] # NULL
        BY <2>2, <1>1, <1>5 DEF TypeOK
      <3>2. PICK b \in Addr : nodes[b] = table[t] /\ addr[table[t]] = b
        BY <3>1, <1>5 DEF TableWithinNodes
      <3>3. nodes'[b] = nodes[b] /\ nodes[b] \in NodeId
        BY <3>1, <3>2, <1>3 DEF TypeOK
      <3> QED
        BY <3>1, <3>2, <3>3, <1>3
    <2> QED
      BY <2>1, <2>2
  <1>8. NodesOwned'
    BY <1>2, <1>3 DEF NodesOwned, InDict, PhaseInv
  <1>9. BackPointers' /\ NoContextLeaked'
    BY <1>2, <1>3, <1>4 DEF BackPointers, NoContextLeaked
  <1>10. table' # NULL
    BY <1>1, <1>5 DEF TypeOK
  <1>11. RedirectHasTable' /\ PhaseInv'
    BY <1>2, <1>4, <1>10 DEF RedirectHasTable, PhaseInv
  <1> QED
    BY <1>6, <1>7, <1>8, <1>9, <1>11

(* An ASK reply keeps the invariant.                                       *)
LEMMA AskInv ==
  ASSUME Inv, NEW c \in Conn, NEW a \in Addr, NEW k \in Conn,
         CallbackAsk(c, a, k)
  PROVE  Inv'
  <1> USE SlotmapAssumption DEF Inv
  <1>1. PICK n \in NodeId : /\ getNodeFromRedirectReply(a, n)
                            /\ actx_get_by_node(n, k)
    BY DEF CallbackAsk
  <1>2. /\ phase = "idle" /\ MayCall /\ c \in routed
        /\ UNCHANGED <<table, old, phase, cur, route_version>>
        /\ routed' \subseteq routed \union {k}
    BY DEF CallbackAsk, MayCall
  <1>3. /\ nodes' \in [Addr -> NodeId \union {NULL}]
        /\ addr' \in [NodeId -> Addr \union {NULL}]
        /\ addr[n] # NULL \/ acon[n] = NULL
        /\ nodes'[a] = n /\ addr'[n] = a
        /\ \A b \in Addr : b # a => nodes'[b] = nodes[b]
        /\ nodes[a] # NULL => nodes'[a] = nodes[a]
        /\ \A m \in NodeId : m # n => addr'[m] = addr[m]
        /\ addr[n] # NULL => addr'[n] = addr[n]
        /\ \A b \in Addr : nodes'[b] # NULL => addr'[nodes'[b]] = b
        /\ \A m \in NodeId : addr'[m] # NULL <=> \E b \in Addr : nodes'[b] = m
    BY <1>1, <1>2, RedirectNode
  <1>4. /\ acon' \in [NodeId -> Conn \union {NULL}]
        /\ data' \in [Conn -> NodeId \union {NULL}]
        /\ open' \subseteq Conn
        /\ open \subseteq open'
        /\ k \in open'
        /\ \A m \in NodeId : acon'[m] # NULL =>
             (addr[m] # NULL \/ m = n) /\ acon'[m] \in open' /\ data'[acon'[m]] = m
        /\ \A d \in Conn : data'[d] # NULL => acon'[data'[d]] = d
        /\ \A d \in open' : data'[d] # NULL \/ d = cur
    BY <1>1, <1>2, <1>3, GetContext
  <1>5. table # NULL
    BY <1>2 DEF RedirectHasTable
  <1>6. TypeOK'
    BY <1>2, <1>3, <1>4 DEF TypeOK
  <1>7. TableWithinNodes'
    <2> SUFFICES ASSUME NEW t \in Slot, table[t] # NULL
                 PROVE  \E b \in Addr : nodes'[b] = table[t] /\ addr'[table[t]] = b
      BY <1>2 DEF TableWithinNodes
    <2>1. PICK b \in Addr : nodes[b] = table[t] /\ addr[table[t]] = b
      BY <1>5 DEF TableWithinNodes
    <2>2. nodes'[b] = nodes[b] /\ nodes[b] \in NodeId
      BY <2>1, <1>3 DEF TypeOK
    <2> QED
      BY <2>1, <2>2, <1>3
  <1>8. NodesOwned'
    BY <1>2, <1>3 DEF NodesOwned, InDict, PhaseInv
  <1>9. BackPointers' /\ NoContextLeaked'
    BY <1>2, <1>3, <1>4 DEF BackPointers, NoContextLeaked
  <1>10. RedirectHasTable' /\ PhaseInv'
    BY <1>2, <1>4, <1>5 DEF RedirectHasTable, PhaseInv
  <1> QED
    BY <1>6, <1>7, <1>8, <1>9, <1>10

-----------------------------------------------------------------------------
(* The step that replaces the table and the dict.  Its effect, with new    *)
(* the dict the parser built, is stated once and used for the invariant    *)
(* and for the action properties.                                          *)
LEMMA UpdateEffect ==
  ASSUME Inv, NEW r \in Replies, NEW c \in Conn \union {NULL},
         Install(r, c)
  PROVE  \E new \in [Addr -> NodeId \union {NULL}] :
           /\ nodes' = new
           /\ table' = NewTable(r, new)
           /\ addr' \in [NodeId -> Addr \union {NULL}]
           /\ acon' \in [NodeId -> Conn \union {NULL}]
           /\ data' \in [Conn -> NodeId \union {NULL}]
           /\ \A a \in Addr : a \in r.masters <=> new[a] # NULL
           /\ \A a \in r.masters :
                new[a] \in NodeId /\ addr[new[a]] = NULL /\ addr'[new[a]] = a
           /\ \A n \in NodeId : (\A a \in r.masters : new[a] # n) =>
                addr'[n] = addr[n]
           /\ \A a \in r.masters :
                acon'[new[a]] = IF nodes[a] # NULL THEN acon[nodes[a]] ELSE NULL
           /\ \A n \in NodeId : (\A a \in r.masters : new[a] # n) =>
                acon'[n] = IF addr[n] \in r.masters THEN NULL ELSE acon[n]
           /\ \A d \in Conn :
                data'[d] = IF data[d] # NULL /\ addr[data[d]] \in r.masters
                           THEN new[addr[data[d]]] ELSE data[d]
  <1> USE SlotmapAssumption DEF Inv
  <1>1. PICK new \in [Addr -> NodeId \union {NULL}] :
             /\ FreshDict(r, new)
             /\ table' = NewTable(r, new)
             /\ cluster_nodes_swap_ctx(r, new)
             /\ addr' = NewAddr(r, new)
             /\ nodes' = new
    BY DEF Install
  <1>2. r.masters \subseteq Addr
    BY DEF IsReply
  <1>3. /\ addr' \in [NodeId -> Addr \union {NULL}]
        /\ \A a \in r.masters : addr'[new[a]] = a
        /\ \A n \in NodeId : (\A a \in r.masters : new[a] # n) =>
             addr'[n] = addr[n]
    BY <1>1, NewAddrKey
  <1>4. \A a \in r.masters : new[a] \in NodeId /\ addr[new[a]] = NULL
    BY <1>1, <1>2 DEF FreshDict, live
  <1>5. \A a \in Addr : a \in r.masters <=> new[a] # NULL
    BY <1>1, <1>4 DEF FreshDict
  <1>6. \A a \in r.masters :
          acon'[new[a]] = IF nodes[a] # NULL THEN acon[nodes[a]] ELSE NULL
    BY <1>1, <1>3, <1>4 DEF cluster_nodes_swap_ctx
  <1>7. \A n \in NodeId : (\A a \in r.masters : new[a] # n) =>
          acon'[n] = IF addr[n] \in r.masters THEN NULL ELSE acon[n]
    <2> SUFFICES ASSUME NEW n \in NodeId, \A a \in r.masters : new[a] # n
                 PROVE  acon'[n] = IF addr[n] \in r.masters THEN NULL ELSE acon[n]
      OBVIOUS
    <2>1. acon'[n] = IF InDict(n) /\ addr[n] \in r.masters THEN NULL ELSE acon[n]
      BY <1>1 DEF cluster_nodes_swap_ctx
    <2>2. old = {}
      BY DEF PhaseInv, Install
    <2>3. addr[n] # NULL => InDict(n)
      BY <2>2 DEF NodesOwned
    <2> QED
      BY <1>2, <2>1, <2>3
  <1>8. \A d \in Conn :
          data'[d] = IF data[d] # NULL /\ addr[data[d]] \in r.masters
                     THEN new[addr[data[d]]] ELSE data[d]
    BY <1>1 DEF cluster_nodes_swap_ctx
  <1>9. data' \in [Conn -> NodeId \union {NULL}]
    <2>1. \A d \in Conn : data'[d] \in NodeId \union {NULL}
      BY <1>2, <1>8 DEF TypeOK
    <2> QED
      BY <1>1, <2>1 DEF cluster_nodes_swap_ctx
  <1>10. acon' \in [NodeId -> Conn \union {NULL}]
    <2>1. \A n \in NodeId : acon'[n] \in Conn \union {NULL}
      <3> TAKE n \in NodeId
      <3>1. CASE \A a \in r.masters : new[a] # n
        BY <3>1, <1>7 DEF TypeOK
      <3>2. CASE \E a \in r.masters : new[a] = n
        <4> PICK a \in r.masters : new[a] = n
          BY <3>2
        <4> QED
          BY <1>2, <1>6 DEF TypeOK
      <3> QED
        BY <3>1, <3>2
    <2> QED
      BY <1>1, <2>1 DEF cluster_nodes_swap_ctx
  <1> QED
    BY <1>1, <1>3, <1>4, <1>5, <1>6, <1>7, <1>8, <1>9, <1>10

(* updateNodesAndSlotmap keeps the invariant up to the point where the     *)
(* old nodes are still to be released ...                                  *)
LEMMA InstallInv ==
  ASSUME Inv, NEW r \in Replies, NEW c \in Conn \union {NULL},
         Install(r, c)
  PROVE  Inv'
  <1> USE SlotmapAssumption DEF Inv
  <1>1. PICK new \in [Addr -> NodeId \union {NULL}] :
           /\ nodes' = new
           /\ table' = NewTable(r, new)
           /\ addr' \in [NodeId -> Addr \union {NULL}]
           /\ acon' \in [NodeId -> Conn \union {NULL}]
           /\ data' \in [Conn -> NodeId \union {NULL}]
           /\ \A a \in Addr : a \in r.masters <=> new[a] # NULL
           /\ \A a \in r.masters :
                new[a] \in NodeId /\ addr[new[a]] = NULL /\ addr'[new[a]] = a
           /\ \A n \in NodeId : (\A a \in r.masters : new[a] # n) =>
                addr'[n] = addr[n]
           /\ \A a \in r.masters :
                acon'[new[a]] = IF nodes[a] # NULL THEN acon[nodes[a]] ELSE NULL
           /\ \A n \in NodeId : (\A a \in r.masters : new[a] # n) =>
                acon'[n] = IF addr[n] \in r.masters THEN NULL ELSE acon[n]
           /\ \A d \in Conn :
                data'[d] = IF data[d] # NULL /\ addr[data[d]] \in r.masters
                           THEN new[addr[data[d]]] ELSE data[d]
    BY UpdateEffect
  <1>2. /\ phase = "idle" /\ phase' = "releasing"
        /\ cur' = c /\ c \in open \union {NULL} /\ UNCHANGED <<open, routed>>
        /\ old' = {n \in NodeId : InDict(n)}
        /\ route_version' = route_version + 1
    BY DEF Install
  <1>3. old = {} /\ cur = NULL
    BY <1>2 DEF PhaseInv
  <1>4. r.masters \subseteq Addr
    BY DEF IsReply
  <1>5. /\ table' \in [Slot -> NodeId \union {NULL}]
        /\ \A s \in Slot : table'[s] # NULL =>
             \E a \in r.masters : table'[s] = new[a]
    BY <1>1, <1>4 DEF NewTable
  <1>6. TypeOK'
    BY <1>1, <1>2, <1>5 DEF TypeOK, Phases
  <1>7. TableWithinNodes'
    BY <1>1, <1>4, <1>5 DEF TableWithinNodes
  <1>8. NodesOwned'
    <2>1. \A a \in Addr : nodes'[a] # NULL => addr'[nodes'[a]] = a
      BY <1>1
    <2>2. \A n \in NodeId : InDict(n)' <=> \E a \in r.masters : new[a] = n
      BY <1>1, <1>4 DEF InDict
    <2>3. \A n \in NodeId : n \in old' <=> addr[n] # NULL
      BY <1>2, <1>3 DEF NodesOwned
    <2>4. \A n \in NodeId : addr'[n] # NULL <=> (InDict(n)' \/ n \in old')
      BY <1>1, <1>4, <2>2, <2>3
    <2>5. \A n \in old' : ~InDict(n)'
      BY <1>1, <1>2, <2>2, <2>3
    <2> QED
      BY <2>1, <2>4, <2>5 DEF NodesOwned
  <1>9. BackPointers'
    <2>1. ASSUME NEW n \in NodeId, acon'[n] # NULL
          PROVE  addr'[n] # NULL /\ acon'[n] \in open' /\ data'[acon'[n]] = n
      <3>1. CASE \E a \in r.masters : new[a] = n
        <4> PICK a \in r.masters : new[a] = n
          BY <3>1
        <4>1. /\ nodes[a] # NULL /\ acon'[n] = acon[nodes[a]]
              /\ acon[nodes[a]] # NULL /\ nodes[a] \in NodeId
          BY <1>1, <1>4, <2>1 DEF TypeOK
        <4>2. acon[nodes[a]] \in open /\ data[acon[nodes[a]]] = nodes[a]
          BY <4>1 DEF BackPointers
        <4>3. addr[nodes[a]] = a
          BY <1>4, <4>1 DEF NodesOwned
        <4>4. data'[acon'[n]] = new[a]
          BY <1>1, <4>1, <4>2, <4>3 DEF TypeOK
        <4> QED
          BY <1>1, <1>2, <1>4, <4>1, <4>2, <4>4
      <3>2. CASE \A a \in r.masters : new[a] # n
        <4>1. addr[n] \notin r.masters /\ acon'[n] = acon[n] /\ addr'[n] = addr[n]
          BY <1>1, <2>1, <3>2
        <4>2. addr[n] # NULL /\ acon[n] \in open /\ data[acon[n]] = n
          BY <2>1, <4>1 DEF BackPointers
        <4> QED
          BY <1>1, <1>2, <4>1, <4>2 DEF TypeOK
      <3> QED
        BY <3>1, <3>2
    <2>2. ASSUME NEW d \in Conn, data'[d] # NULL
          PROVE  acon'[data'[d]] = d
      <3>1. data[d] # NULL /\ data[d] \in NodeId
        BY <1>1, <2>2 DEF TypeOK
      <3>2. acon[data[d]] = d /\ addr[data[d]] # NULL
        BY <3>1 DEF BackPointers, TypeOK
      <3>3. addr[data[d]] \in Addr /\ nodes[addr[data[d]]] = data[d]
        BY <1>3, <3>1, <3>2 DEF NodesOwned, InDict, TypeOK
      <3>4. CASE addr[data[d]] \in r.masters
        <4>1. data'[d] = new[addr[data[d]]]
          BY <1>1, <3>1, <3>4
        <4> QED
          BY <1>1, <3>1, <3>2, <3>3, <3>4, <4>1
      <3>5. CASE addr[data[d]] \notin r.masters
        <4>1. data'[d] = data[d]
          BY <1>1, <3>5
        <4>2. \A a \in r.masters : new[a] # data[d]
          BY <1>1, <3>2
        <4> QED
          BY <1>1, <3>1, <3>2, <3>5, <4>1, <4>2
      <3> QED
        BY <3>4, <3>5
    <2> QED
      BY <2>1, <2>2 DEF BackPointers
  <1>10. NoContextLeaked'
    <2> SUFFICES ASSUME NEW d \in open PROVE data'[d] # NULL \/ d = cur'
      BY <1>2 DEF NoContextLeaked
    <2>1. data[d] # NULL
      BY <1>3 DEF NoContextLeaked, TypeOK
    <2> QED
      BY <1>1, <1>4, <2>1 DEF TypeOK
  <1>11. RedirectHasTable' /\ PhaseInv'
    BY <1>2, <1>5 DEF RedirectHasTable, PhaseInv
  <1> QED
    BY <1>6, <1>7, <1>8, <1>9, <1>10, <1>11

(* ... or the nodes of a refused reply are.                                *)
LEMMA RefuseInv ==
  ASSUME Inv, NEW r \in Replies, NEW c \in Conn \union {NULL},
         Refuse(r, c)
  PROVE  Inv'
  <1> USE SlotmapAssumption
  <1>t. TypeOK
    BY DEF Inv
  <1>1. PICK new \in [Addr -> NodeId \union {NULL}] :
             /\ FreshDict(r, new)
             /\ addr' = NewAddr(r, new)
             /\ old' = {n \in NodeId : \E a \in r.masters : new[a] = n}
    BY DEF Refuse
  <1>2. /\ phase = "idle" /\ phase' = "refusing"
        /\ cur' = c /\ c \in open \union {NULL}
        /\ UNCHANGED <<nodes, table, acon, data, open, routed, route_version>>
    BY DEF Refuse
  <1>3. old = {} /\ cur = NULL
    BY <1>2 DEF Inv, PhaseInv
  <1>4. /\ addr' \in [NodeId -> Addr \union {NULL}]
        /\ \A a \in r.masters : addr'[new[a]] = a
        /\ \A n \in NodeId : (\A a \in r.masters : new[a] # n) =>
             addr'[n] = addr[n]
    BY <1>t, <1>1, NewAddrKey
  <1>5. r.masters \subseteq Addr /\ NULL \notin Addr
    BY DEF IsReply
  <1>6. \A n \in old' : n \in NodeId /\ addr[n] = NULL /\ addr'[n] # NULL
    BY <1>1, <1>4, <1>5 DEF FreshDict, live
  <1>7. \A n \in NodeId : n \notin old' => addr'[n] = addr[n]
    BY <1>1, <1>4
  <1>8. TypeOK'
    <2>1. old' \subseteq NodeId
      BY <1>6
    <2> QED
      BY <1>t, <1>2, <1>4, <2>1 DEF TypeOK, Phases
  <1>9. \A n \in NodeId : addr[n] # NULL => addr'[n] = addr[n]
    BY <1>6, <1>7
  <1>10. TableWithinNodes'
    <2> SUFFICES ASSUME table # NULL, NEW s \in Slot, table[s] # NULL
                 PROVE  \E a \in Addr : nodes[a] = table[s] /\ addr'[table[s]] = a
      BY <1>2 DEF TableWithinNodes
    <2>1. PICK a \in Addr : nodes[a] = table[s] /\ addr[table[s]] = a
      BY DEF Inv, TableWithinNodes
    <2>2. table[s] \in NodeId
      BY <1>t, <2>1 DEF TypeOK
    <2> QED
      BY <1>5, <1>9, <2>1, <2>2
  <1>11. NodesOwned'
    <2>1. \A n \in NodeId : addr[n] # NULL <=> InDict(n)
      BY <1>3 DEF Inv, NodesOwned
    <2>2. \A n : InDict(n)' <=> InDict(n)
      BY <1>2 DEF InDict
    <2>3. ASSUME NEW a \in Addr, nodes[a] # NULL PROVE addr'[nodes[a]] = a
      <3>1. nodes[a] \in NodeId /\ addr[nodes[a]] = a
        BY <1>t, <2>3 DEF Inv, NodesOwned, TypeOK
      <3> QED
        BY <1>5, <1>9, <3>1
    <2>4. \A n \in NodeId : addr'[n] # NULL <=> (InDict(n)' \/ n \in old')
      BY <1>6, <1>7, <2>1, <2>2
    <2>5. \A n \in old' : ~InDict(n)'
      BY <1>6, <2>1, <2>2
    <2> QED
      BY <1>2, <2>3, <2>4, <2>5, Zenon DEF NodesOwned
  <1>12. BackPointers'
    BY <1>2, <1>9, Zenon DEF Inv, BackPointers
  <1>13. NoContextLeaked'
    BY <1>t, <1>2, <1>3 DEF Inv, NoContextLeaked, TypeOK
  <1>14. RedirectHasTable' /\ PhaseInv'
    <2>1. RedirectHasTable'
      BY <1>2 DEF RedirectHasTable, MayCall
    <2>2. routed # {} => table # NULL
      BY <1>2 DEF Inv, RedirectHasTable, MayCall
    <2> QED
      BY <1>2, <2>1, <2>2 DEF PhaseInv
  <1> QED
    BY <1>8, <1>10, <1>11, <1>12, <1>13, <1>14 DEF Inv

LEMMA UpdateInv ==
  ASSUME Inv, NEW r \in Replies, NEW c \in Conn \union {NULL},
         updateNodesAndSlotmap(r, c)
  PROVE  Inv'
  BY InstallInv, RefuseInv DEF updateNodesAndSlotmap

-----------------------------------------------------------------------------
(* freeRedisClusterNode keeps the invariant, for each node to release.     *)
LEMMA ReleaseInv ==
  ASSUME Inv, NEW n \in NodeId, freeRedisClusterNode(n)
  PROVE  Inv'
  <1> USE SlotmapAssumption
  <1>t. TypeOK
    BY DEF Inv
  <1>0. /\ UNCHANGED <<nodes, table, phase, cur, route_version>>
        /\ phase \in {"releasing", "refusing", "freeing"}
        /\ n \in old /\ old' = old \ {n}
        /\ addr' = [addr EXCEPT ![n] = NULL]
        /\ acon' = [acon EXCEPT ![n] = NULL]
    BY DEF freeRedisClusterNode
  <1>1. /\ data' \in [Conn -> NodeId \union {NULL}]
        /\ \A c \in Conn : data'[c] = IF c = acon[n] THEN NULL ELSE data[c]
    BY <1>t DEF freeRedisClusterNode, TypeOK
  <1>2. /\ open' \subseteq open /\ routed' \subseteq routed
        /\ routed' \subseteq open'
        /\ \A c \in open : c \in open' \/ c = acon[n]
        /\ acon[n] \in open' => acon[n] = cur
    BY <1>t DEF freeRedisClusterNode, TypeOK
  <1>3. \A m \in NodeId :
          /\ addr'[m] = IF m = n THEN NULL ELSE addr[m]
          /\ acon'[m] = IF m = n THEN NULL ELSE acon[m]
    BY <1>t, <1>0 DEF TypeOK
  <1>4. TypeOK'
    <2>1. addr' \in [NodeId -> Addr \union {NULL}]
      BY <1>t, <1>0 DEF TypeOK
    <2>2. acon' \in [NodeId -> Conn \union {NULL}]
      BY <1>t, <1>0 DEF TypeOK
    <2> QED
      BY <1>t, <1>0, <1>1, <1>2, <2>1, <2>2 DEF TypeOK
  <1>5. \A a \in Addr : nodes[a] # n
    BY <1>0 DEF Inv, NodesOwned, InDict
  <1>6. TableWithinNodes'
    <2> SUFFICES ASSUME table # NULL, NEW s \in Slot, table[s] # NULL
                 PROVE  \E a \in Addr : nodes[a] = table[s] /\ addr'[table[s]] = a
      BY <1>0 DEF TableWithinNodes
    <2>1. PICK a \in Addr : nodes[a] = table[s] /\ addr[table[s]] = a
      BY DEF Inv, TableWithinNodes
    <2>2. table[s] \in NodeId /\ table[s] # n
      BY <1>t, <1>5, <2>1 DEF TypeOK
    <2> QED
      BY <1>3, <2>1, <2>2
  <1>7. NodesOwned'
    <2>1. \A a \in Addr : nodes[a] # NULL => nodes[a] \in NodeId /\ nodes[a] # n
      BY <1>t, <1>5 DEF TypeOK
    <2>2. \A a \in Addr : nodes[a] # NULL => addr'[nodes[a]] = a
      BY <1>3, <2>1 DEF Inv, NodesOwned
    <2>3. \A m \in NodeId : addr'[m] # NULL <=> (InDict(m) \/ m \in old')
      BY <1>0, <1>3, <1>5 DEF Inv, NodesOwned, InDict
    <2> QED
      BY <1>0, <2>2, <2>3 DEF Inv, NodesOwned, InDict
  <1>8. BackPointers'
    <2>1. ASSUME NEW m \in NodeId, acon'[m] # NULL
          PROVE  addr'[m] # NULL /\ acon'[m] \in open' /\ data'[acon'[m]] = m
      <3>1. m # n /\ acon'[m] = acon[m] /\ addr'[m] = addr[m] /\ acon[m] \in Conn
        BY <1>t, <1>3, <2>1 DEF TypeOK
      <3>2. addr[m] # NULL /\ acon[m] \in open /\ data[acon[m]] = m
        BY <2>1, <3>1 DEF Inv, BackPointers
      <3>3. acon[m] # acon[n]
        BY <3>1, <3>2 DEF Inv, BackPointers
      <3> QED
        BY <1>1, <1>2, <3>1, <3>2, <3>3
    <2>2. ASSUME NEW d \in Conn, data'[d] # NULL
          PROVE  acon'[data'[d]] = d
      <3>1. d # acon[n] /\ data'[d] = data[d] /\ data[d] \in NodeId
        BY <1>t, <1>1, <2>2 DEF TypeOK
      <3>2. acon[data[d]] = d /\ data[d] # n
        BY <2>2, <3>1 DEF Inv, BackPointers
      <3> QED
        BY <1>3, <3>1, <3>2
    <2> QED
      BY <2>1, <2>2 DEF BackPointers
  <1>9. NoContextLeaked'
    BY <1>t, <1>0, <1>1, <1>2 DEF Inv, NoContextLeaked, TypeOK
  <1>10. RedirectHasTable' /\ PhaseInv'
    <2>1. RedirectHasTable'
      BY <1>0, <1>2 DEF Inv, RedirectHasTable, MayCall
    <2>2. cur # NULL => cur \in open'
      <3>1. cur # NULL => cur \in open
        BY DEF Inv, PhaseInv
      <3> QED
        BY <1>t, <3>1 DEF freeRedisClusterNode, TypeOK
    <2>3. routed' # {} => routed # {}
      BY <1>2, Zenon
    <2>4. PhaseInv
      BY Zenon DEF Inv
    <2>5. PhaseInv'
      BY <1>0, <2>2, <2>3, <2>4 DEF PhaseInv
    <2> QED
      BY <2>1, <2>5, Zenon
  <1> QED
    BY <1>4, <1>6, <1>7, <1>8, <1>9, <1>10 DEF Inv

(* The end of a slotmap update keeps the invariant.                        *)
LEMMA EndUpdateInv ==
  ASSUME Inv, EndUpdate
  PROVE  Inv'
  <1> USE SlotmapAssumption
  <1>0. /\ UNCHANGED <<nodes, table, addr, acon, data, old, route_version>>
        /\ phase \in {"releasing", "refusing"} /\ phase' = "idle" /\ cur' = NULL
        /\ old = {}
        /\ open' \subseteq open /\ routed' \subseteq routed
        /\ routed \subseteq open => routed' \subseteq open'
        /\ \A c \in open : c \in open' \/ (c = cur /\ data[c] = NULL)
        /\ cur \in open' => cur = NULL \/ data[cur] # NULL
    BY Zenon DEF EndUpdate
  <1>1. TypeOK'
    BY <1>0 DEF Inv, TypeOK, Phases
  <1>2. TableWithinNodes' /\ NodesOwned'
    BY <1>0 DEF Inv, TableWithinNodes, NodesOwned, InDict
  <1>3. BackPointers'
    <2>1. BackPointers
      BY DEF Inv
    <2>2. ASSUME NEW n \in NodeId, acon[n] # NULL
          PROVE  addr[n] # NULL /\ acon[n] \in open' /\ data[acon[n]] = n
      <3>1. addr[n] # NULL /\ acon[n] \in open /\ data[acon[n]] = n
        BY <2>1, <2>2 DEF BackPointers
      <3>2. data[acon[n]] # NULL
        BY <3>1
      <3> QED
        BY <1>0, <3>1, <3>2
    <2>3. \A c \in Conn : data[c] # NULL => acon[data[c]] = c
      BY <2>1 DEF BackPointers
    <2> QED
      BY <1>0, <2>2, <2>3 DEF BackPointers
  <1>4. NoContextLeaked'
    <2> SUFFICES ASSUME NEW c \in open'
                 PROVE  data[c] # NULL
      BY <1>0 DEF NoContextLeaked
    <2>1. c # NULL /\ (data[c] # NULL \/ c = cur)
      BY <1>0 DEF Inv, TypeOK, NoContextLeaked
    <2> QED
      BY <1>0, <2>1
  <1>5. RedirectHasTable' /\ PhaseInv'
    BY <1>0 DEF Inv, RedirectHasTable, PhaseInv, MayCall
  <1> QED
    BY <1>1, <1>2, <1>3, <1>4, <1>5 DEF Inv

(* The loss of a connection keeps the invariant.                           *)
LEMMA LostInv ==
  ASSUME Inv, NEW c \in Conn, ConnectionLost(c)
  PROVE  Inv'
  <1>0. /\ UNCHANGED <<nodes, table, addr, acon, data, open, routed, old,
                       route_version>>
        /\ phase = "idle" /\ phase' = "flushing" /\ cur' = c /\ c \in open
    BY DEF ConnectionLost
  <1>1. TypeOK'
    BY <1>0 DEF Inv, TypeOK, Phases
  <1>2. TableWithinNodes' /\ NodesOwned' /\ BackPointers'
    BY <1>0 DEF Inv, TableWithinNodes, NodesOwned, BackPointers, InDict
  <1>3. NoContextLeaked'
    <2>1. cur = NULL /\ \A d \in open : d # NULL /\ (data[d] # NULL \/ d = cur)
      BY <1>0, SlotmapAssumption DEF Inv, TypeOK, NoContextLeaked, PhaseInv
    <2> QED
      BY <1>0, <2>1 DEF NoContextLeaked
  <1>4. RedirectHasTable' /\ PhaseInv'
    BY <1>0, SlotmapAssumption DEF Inv, RedirectHasTable, PhaseInv, MayCall
  <1> QED
    BY <1>1, <1>2, <1>3, <1>4 DEF Inv

(* unlinkAsyncContextAndNode keeps the invariant.                          *)
LEMMA UnlinkInv ==
  ASSUME Inv, unlinkAsyncContextAndNode
  PROVE  Inv'
  <1> USE SlotmapAssumption
  <1>0. /\ UNCHANGED <<nodes, table, addr, old, route_version>>
        /\ phase = "flushing" /\ phase' = "idle" /\ cur' = NULL
        /\ open' = open \ {cur} /\ routed' = routed \ {cur}
        /\ acon' = IF data[cur] # NULL THEN [acon EXCEPT ![data[cur]] = NULL]
                                       ELSE acon
        /\ data' = [data EXCEPT ![cur] = NULL]
    BY DEF unlinkAsyncContextAndNode
  <1>1. /\ cur \in Conn /\ open \subseteq Conn
        /\ acon \in [NodeId -> Conn \union {NULL}]
        /\ data \in [Conn -> NodeId \union {NULL}]
    BY <1>0 DEF Inv, TypeOK, PhaseInv
  <1>2. TypeOK'
    BY <1>0, <1>1 DEF Inv, TypeOK, Phases
  <1>3. TableWithinNodes' /\ NodesOwned'
    BY <1>0 DEF Inv, TableWithinNodes, NodesOwned, InDict
  <1>4. BackPointers'
    <2>1. BackPointers
      BY DEF Inv
    <2>2. ASSUME NEW n \in NodeId, acon'[n] # NULL
          PROVE  addr[n] # NULL /\ acon'[n] \in open' /\ data'[acon'[n]] = n
      <3>1. acon'[n] = acon[n] /\ n # data[cur]
        BY <1>0, <1>1, <2>1, <2>2 DEF BackPointers
      <3>2. addr[n] # NULL /\ acon[n] \in open /\ data[acon[n]] = n
        BY <2>1, <2>2, <3>1 DEF BackPointers
      <3> QED
        BY <1>0, <1>1, <3>1, <3>2
    <2>3. ASSUME NEW c \in Conn, data'[c] # NULL
          PROVE  acon'[data'[c]] = c
      <3>1. c # cur /\ data'[c] = data[c] /\ acon[data[c]] = c
        BY <1>0, <1>1, <2>1, <2>3 DEF BackPointers
      <3>2. data[cur] # NULL => acon[data[cur]] = cur
        BY <1>1, <2>1 DEF BackPointers
      <3> QED
        BY <1>0, <1>1, <2>3, <3>1, <3>2
    <2> QED
      BY <1>0, <2>2, <2>3 DEF BackPointers
  <1>5. NoContextLeaked'
    <2>1. \A d \in open : data[d] # NULL \/ d = cur
      BY Zenon DEF Inv, NoContextLeaked
    <2> QED
      BY <1>0, <1>1, <2>1 DEF NoContextLeaked
  <1>6. RedirectHasTable' /\ PhaseInv'
    BY <1>0 DEF Inv, RedirectHasTable, PhaseInv, MayCall
  <1> QED
    BY <1>2, <1>3, <1>4, <1>5, <1>6 DEF Inv

(* redisClusterAsyncFree keeps the invariant.                              *)
LEMMA FreeInv ==
  ASSUME Inv, redisClusterAsyncFree
  PROVE  Inv'
  <1> USE SlotmapAssumption DEF redisClusterAsyncFree, Inv
  <1>1. TypeOK' /\ TableWithinNodes'
    BY ZenonT(30) DEF TypeOK, TableWithinNodes, Phases
  <1>2. NodesOwned'
    <2>1. \A n \in NodeId : addr[n] # NULL <=> InDict(n)
      BY DEF NodesOwned, PhaseInv
    <2>2. \A n \in NodeId : ~InDict(n)'
      BY Zenon DEF InDict
    <2> QED
      BY <2>1, <2>2, Zenon DEF NodesOwned
  <1>3. BackPointers' /\ NoContextLeaked' /\ RedirectHasTable' /\ PhaseInv'
    BY ZenonT(30) DEF BackPointers, NoContextLeaked, RedirectHasTable, PhaseInv, MayCall,
           TypeOK
  <1> QED
    BY <1>1, <1>2, <1>3

(* The end of redisClusterAsyncFree keeps the invariant.                   *)
LEMMA EndFreeInv ==
  ASSUME Inv, EndFree
  PROVE  Inv'
  BY SlotmapAssumption, ZenonT(30)
  DEF EndFree, Inv, TypeOK, TableWithinNodes, NodesOwned, BackPointers,
      NoContextLeaked, RedirectHasTable, PhaseInv, InDict, MayCall, Phases

(* The invariant is inductive.                                             *)
LEMMA NextInv == Inv /\ [Next]_vars => Inv'
  <1> SUFFICES ASSUME Inv, [Next]_vars PROVE Inv'
    OBVIOUS
  <1>1. CASE UNCHANGED vars
    BY <1>1, ZenonT(30) DEF vars, Inv, TypeOK, TableWithinNodes, NodesOwned, BackPointers,
                NoContextLeaked, RedirectHasTable, PhaseInv, InDict, MayCall
  <1>2. CASE Next
    BY <1>2, AddNodeInv, SendInv, QueryInv, DoneInv, MovedInv, AskInv,
       UpdateInv, ReleaseInv, EndUpdateInv, LostInv, UnlinkInv, FreeInv,
       EndFreeInv
    DEF Next
  <1> QED
    BY <1>1, <1>2

(* Every state of every behaviour satisfies the inductive invariant.       *)
THEOREM Invariance == Spec => []Inv
  BY InitInv, NextInv, PTL DEF Spec

(* Type correctness of the node and slot-table state.                      *)
THEOREM TypeCorrect == Spec => []TypeOK
  <1>1. Inv => TypeOK
    BY DEF Inv
  <1> QED
    BY Invariance, <1>1, PTL

(* cc->table never points outside the dict that owns the nodes, whatever   *)
(* updates, redirects and callbacks come in between.                       *)
THEOREM TableSafe == Spec => []TableWithinNodes
  <1>1. Inv => TableWithinNodes
    BY DEF Inv
  <1> QED
    BY Invariance, <1>1, PTL

(* Each node is owned exactly once, so freeRedisClusterNode frees it once. *)
THEOREM OwnedOnce == Spec => []NodesOwned
  <1>1. Inv => NodesOwned
    BY DEF Inv
  <1> QED
    BY Invariance, <1>1, PTL

(* Node and asynchronous context always point to each other.               *)
THEOREM LinksSafe == Spec => []BackPointers
  <1>1. Inv => BackPointers
    BY DEF Inv
  <1> QED
    BY Invariance, <1>1, PTL

(* No open context is lost: a node leads to it, or its callback is running *)
(* and frees it on return, also when the node was freed from there.        *)
THEOREM ContextsKept == Spec => []NoContextLeaked
  <1>1. Inv => NoContextLeaked
    BY DEF Inv
  <1> QED
    BY Invariance, <1>1, PTL

(* A MOVED reply always finds a table to record the new owner in.          *)
THEOREM RedirectSafe == Spec => []RedirectHasTable
  <1>1. Inv => RedirectHasTable
    BY SMTT(30) DEF Inv
  <1> QED
    BY Invariance, <1>1, PTL

(* Every step but an update and the free of the context leaves the entries *)
(* of the dict as they are; it may only add one.                           *)
LEMMA DictGrows ==
  ASSUME Inv, Next,
         ~ \E r \in Replies, c \in Conn \union {NULL} : Install(r, c),
         ~ redisClusterAsyncFree
  PROVE  \A a \in Addr : nodes[a] # NULL => nodes'[a] = nodes[a]
  <1> USE SlotmapAssumption DEF Inv, TypeOK
  <1>1. CASE \E a \in Addr : redisClusterSetOptionAddNode(a)
    BY <1>1, SMTT(30) DEF redisClusterSetOptionAddNode
  <1>2. CASE \E c, k \in Conn, s \in Slot, a \in Addr : CallbackMoved(c, s, a, k)
    BY <1>2, Zenon DEF CallbackMoved, getNodeFromRedirectReply
  <1>3. CASE \E c, k \in Conn, a \in Addr : CallbackAsk(c, a, k)
    BY <1>3 DEF CallbackAsk, getNodeFromRedirectReply
  <1>4. CASE UNCHANGED nodes
    BY <1>4
  <1> QED
    BY <1>1, <1>2, <1>3, <1>4, Zenon
    DEF Next, redisClusterAsyncFormattedCommand, updateSlotMapAsync,
        CallbackDone, updateNodesAndSlotmap, Refuse, freeRedisClusterNode,
        EndUpdate, ConnectionLost, unlinkAsyncContextAndNode, EndFree

(* An update never drops the connection of an address that stays.          *)
THEOREM ConnectionsKept == Spec => KeepsConnections
  <1> DEFINE Keep == \A a \in Addr :
        nodes[a] # NULL /\ nodes'[a] \notin {NULL, nodes[a]} =>
          acon'[nodes'[a]] = acon[nodes[a]]
  <1>1. Inv /\ [Next]_vars => [Keep]_vars
    <2> SUFFICES ASSUME Inv, Next, NEW a \in Addr, nodes[a] # NULL,
                        nodes'[a] \notin {NULL, nodes[a]}
                 PROVE  acon'[nodes'[a]] = acon[nodes[a]]
      BY Zenon
    <2>1. CASE redisClusterAsyncFree
      BY <2>1, Zenon DEF redisClusterAsyncFree
    <2>2. ASSUME NEW r \in Replies, NEW c \in Conn \union {NULL},
                 Install(r, c)
          PROVE  acon'[nodes'[a]] = acon[nodes[a]]
      <3> DEFINE Kept(new) ==
            /\ nodes' = new
            /\ \A b \in Addr : b \in r.masters <=> new[b] # NULL
            /\ \A b \in r.masters :
                 acon'[new[b]] = IF nodes[b] # NULL THEN acon[nodes[b]] ELSE NULL
      <3>1. \E new \in [Addr -> NodeId \union {NULL}] : Kept(new)
        BY <2>2, UpdateEffect
      <3>2. PICK new \in [Addr -> NodeId \union {NULL}] : Kept(new)
        BY <3>1
      <3>3. a \in r.masters
        BY <3>2
      <3> QED
        BY <3>2, <3>3, Zenon
    <2> QED
      BY <2>1, <2>2, DictGrows, Zenon
  <1> QED
    BY <1>1, Invariance, PTL DEF Spec, KeepsConnections

(* An entry of the dict changes only with the version that node iterators  *)
(* compare.                                                                *)
THEOREM IteratorsWarned == Spec => DictChangeIsVersioned
  <1> DEFINE Warn == (\E a \in Addr : nodes[a] # NULL /\ nodes'[a] # nodes[a]) =>
        route_version' = route_version + 1 \/ phase' = "freeing"
  <1>1. Inv /\ [Next]_vars => [Warn]_vars
    <2> SUFFICES ASSUME Inv, Next, NEW a \in Addr, nodes[a] # NULL,
                        nodes'[a] # nodes[a]
                 PROVE  route_version' = route_version + 1 \/ phase' = "freeing"
      OBVIOUS
    <2> QED
      BY DictGrows DEF Install, redisClusterAsyncFree
  <1> QED
    BY <1>1, Invariance, PTL DEF Spec, DictChangeIsVersioned
=============================================================================
