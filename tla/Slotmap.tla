------------------------------ MODULE Slotmap ------------------------------
(***************************************************************************)
(* The nodes and the slot table of a cluster context (redisClusterContext) *)
(* and who owns what in them: cc->nodes, cc->table, the redisClusterNode   *)
(* objects both point to, and the hiredis asynchronous contexts that a     *)
(* node owns (node->acon) and that point back to it (ac->data).            *)
(*                                                                         *)
(* Objects are taken from pools (NodeId, Conn) and return to them when the *)
(* code frees them, so an identifier may be used again, as an address of a *)
(* heap may.  The library is single-threaded; what makes it hard is that   *)
(* freeing or losing a connection runs the callbacks pending on it, and    *)
(* those run application code that calls the library again.  An update is  *)
(* therefore cut where callbacks run: everything up to the replacement of  *)
(* cc->nodes is one step, and then each old node is released on its own.   *)
(***************************************************************************)
EXTENDS Naturals, FiniteSets

CONSTANTS
  Addr,        \* addresses "host:port", the keys of cc->nodes
  NSlots,      \* REDIS_CLUSTER_SLOTS
  NodeId,      \* pool of redisClusterNode objects
  Conn,        \* pool of redisAsyncContext objects
  Replies,     \* outcomes of parsing a CLUSTER SLOTS / CLUSTER NODES reply
  MaxVersion,  \* bound on cc->route_version
  NULL

Slot == 0 .. NSlots - 1

(***************************************************************************)
(* A parsed reply: the addresses of the masters it lists and, for each,    *)
(* the slot ranges <<start, end>> it claims.  The parsers let ranges       *)
(* through that overlap or end past the last slot.                         *)
(***************************************************************************)
IsReply(r) ==
  /\ r.masters \subseteq Addr
  /\ \A a \in r.masters : r.ranges[a] \subseteq Nat \X Nat

ASSUME SlotmapAssumption ==
  /\ NSlots \in Nat \ {0}
  /\ MaxVersion \in Nat
  /\ NULL \notin Addr \union NodeId \union Conn
  /\ NULL \notin [Slot -> NodeId \union {NULL}]
  /\ \A r \in Replies : IsReply(r)

VARIABLES
  nodes,          \* cc->nodes: address -> node, NULL where there is no entry
  table,          \* cc->table: slot -> node, or NULL before the first map
  addr,           \* node->addr of each allocated node, NULL when not allocated
  acon,           \* node->acon
  data,           \* ac->data
  open,           \* the allocated asynchronous contexts
  routed,         \* contexts with an outstanding command routed by slot
  old,            \* nodes of a replaced dict that are still to be released
  phase,          \* what the single thread is in the middle of
  cur,            \* the context whose callbacks are being run (IN_CALLBACK)
  route_version   \* cc->route_version

vars == <<nodes, table, addr, acon, data, open, routed, old, phase, cur,
          route_version>>

Phases == {"idle", "flushing", "releasing", "refusing", "freeing", "freed"}

live == {n \in NodeId : addr[n] # NULL}

InDict(n) == \E a \in Addr : nodes[a] = n

Init ==
  /\ nodes = [a \in Addr |-> NULL]
  /\ table = NULL
  /\ addr = [n \in NodeId |-> NULL]
  /\ acon = [n \in NodeId |-> NULL]
  /\ data = [c \in Conn |-> NULL]
  /\ open = {}
  /\ routed = {}
  /\ old = {}
  /\ phase = "idle"
  /\ cur = NULL
  /\ route_version = 0

-----------------------------------------------------------------------------
(***************************************************************************)
(* Nodes and their contexts                                                *)
(***************************************************************************)

(* redisClusterSetOptionAddNode: an unknown address becomes a node without *)
(* role or slots; a known one is left alone.                               *)
redisClusterSetOptionAddNode(a) ==
  /\ phase = "idle"
  /\ nodes[a] = NULL
  /\ \E n \in NodeId \ live :
       /\ nodes' = [nodes EXCEPT ![a] = n]
       /\ addr' = [addr EXCEPT ![n] = a]
  /\ UNCHANGED <<table, acon, data, open, routed, old, phase, cur,
                 route_version>>

(* Application code runs between events and from the callbacks of a lost   *)
(* or a released context, which the nodes of a refused reply do not have;  *)
(* after redisClusterAsyncFree it is turned away by                        *)
(* HIRCLUSTER_FLAG_SHUTDOWN.                                               *)
MayCall == phase \in {"idle", "flushing", "releasing"}

(* actx_get_by_node: the context of the node when it has one without       *)
(* error, else a new one, linked both ways.  The only context with c.err   *)
(* set that is still linked is the one whose callbacks are being flushed.  *)
actx_get_by_node(n, c) ==
  \/ /\ acon[n] = c
     /\ ~(phase = "flushing" /\ c = cur)
     /\ UNCHANGED <<acon, data, open>>
  \/ /\ acon[n] = NULL
     /\ c \notin open
     /\ acon' = [acon EXCEPT ![n] = c]
     /\ data' = [data EXCEPT ![c] = n]
     /\ open' = open \union {c}

(* redisClusterAsyncFormattedCommand: the node of the slot, its context,   *)
(* and the command is outstanding on it.                                   *)
redisClusterAsyncFormattedCommand(s, c) ==
  /\ MayCall
  /\ table # NULL
  /\ table[s] # NULL
  /\ actx_get_by_node(table[s], c)
  /\ routed' = routed \union {c}
  /\ UNCHANGED <<nodes, table, addr, old, phase, cur, route_version>>

(* updateSlotMapAsync, and commands sent to a node of the dict: a context  *)
(* for any known node, connecting if needed.                               *)
updateSlotMapAsync(a, c) ==
  /\ MayCall
  /\ nodes[a] # NULL
  /\ acon[nodes[a]] = NULL
  /\ actx_get_by_node(nodes[a], c)
  /\ UNCHANGED <<nodes, table, addr, routed, old, phase, cur, route_version>>

-----------------------------------------------------------------------------
(***************************************************************************)
(* Redirects                                                               *)
(***************************************************************************)

(* Mutant: the new node is not added to cc->nodes.                         *)
getNodeFromRedirectReply_NotAdded(a, n) ==
  IF nodes[a] # NULL
  THEN n = nodes[a] /\ UNCHANGED <<nodes, addr>>
  ELSE /\ n \notin live
       /\ addr' = [addr EXCEPT ![n] = a]
       /\ UNCHANGED nodes

(* getNodeFromRedirectReply: the node at the address of the redirect; an   *)
(* unknown one is added to cc->nodes, without a new route_version.         *)
getNodeFromRedirectReply(a, n) ==
  IF nodes[a] # NULL
  THEN /\ n = nodes[a]
       /\ UNCHANGED <<nodes, addr>>
  ELSE /\ n \notin live
       /\ nodes' = [nodes EXCEPT ![a] = n]
       /\ addr' = [addr EXCEPT ![n] = a]

(* redisClusterAsyncCallback on any other reply to the last routed command *)
(* outstanding on c.                                                       *)
CallbackDone(c) ==
  /\ phase = "idle"
  /\ c \in routed
  /\ routed' = routed \ {c}
  /\ UNCHANGED <<nodes, table, addr, acon, data, open, old, phase, cur,
                 route_version>>

(* redisClusterAsyncCallback on -MOVED s a: the table entry of s is set to *)
(* the node of a, and the command goes out again on its context k.         *)
CallbackMoved(c, s, a, k) ==
  /\ phase = "idle"
  /\ c \in routed
  /\ \E n \in NodeId :
       /\ getNodeFromRedirectReply(a, n)
       /\ table' = [table EXCEPT ![s] = n]
       /\ actx_get_by_node(n, k)
  /\ \E more \in BOOLEAN :    \* are other commands outstanding on c?
       routed' = (IF more THEN routed ELSE routed \ {c}) \union {k}
  /\ UNCHANGED <<old, phase, cur, route_version>>

(* The same on -ASK: the table is left alone.                              *)
CallbackAsk(c, a, k) ==
  /\ phase = "idle"
  /\ c \in routed
  /\ \E n \in NodeId :
       /\ getNodeFromRedirectReply(a, n)
       /\ actx_get_by_node(n, k)
  /\ \E more \in BOOLEAN :
       routed' = (IF more THEN routed ELSE routed \ {c}) \union {k}
  /\ UNCHANGED <<table, old, phase, cur, route_version>>

-----------------------------------------------------------------------------
(***************************************************************************)
(* updateNodesAndSlotmap                                                   *)
(***************************************************************************)

Covers(g, s) == g[1] <= s /\ s <= g[2]

(* Every range is in order and within the slots, and no slot is claimed    *)
(* twice, be it by two nodes or by two ranges of one.                      *)
SlotRegionsValid(r) ==
  /\ \A a \in r.masters : \A g \in r.ranges[a] : g[1] <= g[2] /\ g[2] < NSlots
  /\ \A s \in Slot : \A a, b \in r.masters :
       \A g \in r.ranges[a], h \in r.ranges[b] :
         Covers(g, s) /\ Covers(h, s) => a = b /\ g = h

(* The owner a reply gives to a slot.                                      *)
Claims(r, a, s) == \E g \in r.ranges[a] : Covers(g, s)

(* Mutant: no table when the reply assigns no slot.                        *)
NewTable_Empty(r, new) ==
  IF \A a \in r.masters : r.ranges[a] = {} THEN NULL
  ELSE [s \in Slot |->
          IF \E a \in r.masters : Claims(r, a, s)
          THEN new[CHOOSE a \in r.masters : Claims(r, a, s)]
          ELSE NULL]

(* The table built for the dict new of reply r.                            *)
NewTable(r, new) ==
  [s \in Slot |->
     IF \E a \in r.masters : Claims(r, a, s)
     THEN new[CHOOSE a \in r.masters : Claims(r, a, s)]
     ELSE NULL]

(* The parser has built a dict of fresh nodes, one for each master.        *)
FreshDict(r, new) ==
  /\ \A a \in Addr : IF a \in r.masters THEN new[a] \in NodeId \ live
                                        ELSE new[a] = NULL
  /\ \A a, b \in r.masters : new[a] = new[b] => a = b

NewAddr(r, new) ==
  [n \in NodeId |->
     IF \E a \in r.masters : new[a] = n
     THEN CHOOSE a \in r.masters : new[a] = n
     ELSE addr[n]]

(* Mutant: node_f->acon->data is not set to the new node.                  *)
cluster_nodes_swap_ctx_OldData(r, new) ==
  LET naddr == NewAddr(r, new) IN
  /\ acon' = [n \in NodeId |->
                IF \E a \in r.masters : new[a] = n
                THEN IF nodes[naddr[n]] # NULL THEN acon[nodes[naddr[n]]]
                                               ELSE NULL
                ELSE IF InDict(n) /\ addr[n] \in r.masters THEN NULL
                ELSE acon[n]]
  /\ UNCHANGED data

(* Mutant: only the blocking connections move to the new nodes.            *)
cluster_nodes_swap_ctx_NotMoved(r, new) == UNCHANGED <<acon, data>>

(* cluster_nodes_swap_ctx: a node of the new dict takes over the context   *)
(* of the old node with its address, and the context now points to it.     *)
cluster_nodes_swap_ctx(r, new) ==
  LET naddr == NewAddr(r, new) IN
  /\ acon' = [n \in NodeId |->
                IF \E a \in r.masters : new[a] = n
                THEN IF nodes[naddr[n]] # NULL THEN acon[nodes[naddr[n]]]
                                               ELSE NULL
                ELSE IF InDict(n) /\ addr[n] \in r.masters THEN NULL
                ELSE acon[n]]
  /\ data' = [c \in Conn |->
                IF data[c] # NULL /\ addr[data[c]] \in r.masters
                THEN new[addr[data[c]]]
                ELSE data[c]]

(* Mutant: cc->route_version is not increased.                             *)
Install_NoVersion(r, c) ==
  /\ phase = "idle"
  /\ route_version < MaxVersion
  /\ c \in open \union {NULL}
  /\ SlotRegionsValid(r)
  /\ \E new \in [Addr -> NodeId \union {NULL}] :
       /\ FreshDict(r, new)
       /\ table' = NewTable(r, new)
       /\ cluster_nodes_swap_ctx(r, new)
       /\ addr' = NewAddr(r, new)
       /\ nodes' = new
  /\ old' = {n \in NodeId : InDict(n)}
  /\ phase' = "releasing"
  /\ cur' = c
  /\ UNCHANGED <<open, routed, route_version>>

(* A reply with valid regions replaces the table and then the dict; the    *)
(* nodes of the old dict are still to be released.                         *)
Install(r, c) ==
  /\ phase = "idle"
  /\ route_version < MaxVersion
  /\ c \in open \union {NULL}
  /\ SlotRegionsValid(r)
  /\ \E new \in [Addr -> NodeId \union {NULL}] :
       /\ FreshDict(r, new)
       /\ table' = NewTable(r, new)
       /\ cluster_nodes_swap_ctx(r, new)
       /\ addr' = NewAddr(r, new)
       /\ nodes' = new
  /\ old' = {n \in NodeId : InDict(n)}
  /\ route_version' = route_version + 1
  /\ phase' = "releasing"
  /\ cur' = c
  /\ UNCHANGED <<open, routed>>

(* Mutant: the regions are entered in cc->table itself.                    *)
Refuse_InPlace(r, c) ==
  /\ phase = "idle"
  /\ c \in open \union {NULL}
  /\ ~SlotRegionsValid(r)
  /\ \E new \in [Addr -> NodeId \union {NULL}] :
       /\ FreshDict(r, new)
       /\ table' = NewTable(r, new)
       /\ addr' = NewAddr(r, new)
       /\ old' = {n \in NodeId : \E a \in r.masters : new[a] = n}
  /\ phase' = "refusing"
  /\ cur' = c
  /\ UNCHANGED <<nodes, acon, data, open, routed, route_version>>

(* Any other reply is refused when the invalid region is met: the table is *)
(* freed, and the nodes of the dict that the parser built are released.    *)
Refuse(r, c) ==
  /\ phase = "idle"
  /\ c \in open \union {NULL}
  /\ ~SlotRegionsValid(r)
  /\ \E new \in [Addr -> NodeId \union {NULL}] :
       /\ FreshDict(r, new)
       /\ addr' = NewAddr(r, new)
       /\ old' = {n \in NodeId : \E a \in r.masters : new[a] = n}
  /\ phase' = "refusing"
  /\ cur' = c
  /\ UNCHANGED <<nodes, table, acon, data, open, routed, route_version>>

(* A slotmap reply r arrives on context c (c = NULL: on the connection of  *)
(* the blocking redisClusterUpdateSlotmap).                                *)
updateNodesAndSlotmap(r, c) == Install(r, c) \/ Refuse(r, c)

(* Mutant: the context is detached but not freed.                          *)
freeRedisClusterNode_Detached(n) ==
  /\ phase \in {"releasing", "refusing", "freeing"}
  /\ n \in old
  /\ old' = old \ {n}
  /\ addr' = [addr EXCEPT ![n] = NULL]
  /\ acon' = [acon EXCEPT ![n] = NULL]
  /\ data' = IF acon[n] # NULL THEN [data EXCEPT ![acon[n]] = NULL] ELSE data
  /\ UNCHANGED <<nodes, table, open, routed, phase, cur, route_version>>

(* Mutant: the context is freed, and its callbacks are not run.            *)
freeRedisClusterNode_Silent(n) ==
  /\ phase \in {"releasing", "refusing", "freeing"}
  /\ n \in old
  /\ old' = old \ {n}
  /\ addr' = [addr EXCEPT ![n] = NULL]
  /\ acon' = [acon EXCEPT ![n] = NULL]
  /\ data' = IF acon[n] # NULL THEN [data EXCEPT ![acon[n]] = NULL] ELSE data
  /\ open' = IF acon[n] # cur THEN open \ {acon[n]} ELSE open
  /\ UNCHANGED <<nodes, table, routed, phase, cur, route_version>>

(* freeRedisClusterNode, called by dictRelease for each old node: the      *)
(* context of the node is detached and freed; redisAsyncFree puts the free *)
(* off when the context is the one whose callback is running.              *)
freeRedisClusterNode(n) ==
  /\ phase \in {"releasing", "refusing", "freeing"}
  /\ n \in old
  /\ old' = old \ {n}
  /\ addr' = [addr EXCEPT ![n] = NULL]
  /\ acon' = [acon EXCEPT ![n] = NULL]
  /\ data' = IF acon[n] # NULL THEN [data EXCEPT ![acon[n]] = NULL] ELSE data
  /\ open' = IF acon[n] # cur THEN open \ {acon[n]} ELSE open
  /\ routed' = IF acon[n] # cur THEN routed \ {acon[n]} ELSE routed
  /\ UNCHANGED <<nodes, table, phase, cur, route_version>>

(* The release is over and the slotmap callback returns to hiredis, which  *)
(* frees the context if it was detached meanwhile.                         *)
EndUpdate ==
  /\ phase \in {"releasing", "refusing"}
  /\ old = {}
  /\ phase' = "idle"
  /\ cur' = NULL
  /\ IF cur # NULL /\ data[cur] = NULL
     THEN open' = open \ {cur} /\ routed' = routed \ {cur}
     ELSE UNCHANGED <<open, routed>>
  /\ UNCHANGED <<nodes, table, addr, acon, data, old, route_version>>

-----------------------------------------------------------------------------
(***************************************************************************)
(* Loss of a connection, and the end of the context                        *)
(***************************************************************************)

(* hiredis meets an error on c: it runs the pending callbacks ...          *)
ConnectionLost(c) ==
  /\ phase = "idle"
  /\ c \in open
  /\ phase' = "flushing"
  /\ cur' = c
  /\ UNCHANGED <<nodes, table, addr, acon, data, open, routed, old,
                 route_version>>

(* ... and then dataCleanup, which clears node->acon, and frees c.         *)
unlinkAsyncContextAndNode ==
  /\ phase = "flushing"
  /\ acon' = IF data[cur] # NULL THEN [acon EXCEPT ![data[cur]] = NULL]
                                 ELSE acon
  /\ data' = [data EXCEPT ![cur] = NULL]
  /\ open' = open \ {cur}
  /\ routed' = routed \ {cur}
  /\ phase' = "idle"
  /\ cur' = NULL
  /\ UNCHANGED <<nodes, table, addr, old, route_version>>

(* redisClusterAsyncFree and redisClusterFree: the table is freed and      *)
(* cc->nodes cleared before the nodes are released one by one.             *)
redisClusterAsyncFree ==
  /\ phase = "idle"
  /\ phase' = "freeing"
  /\ table' = NULL
  /\ old' = {n \in NodeId : InDict(n)}
  /\ nodes' = [a \in Addr |-> NULL]
  /\ UNCHANGED <<addr, acon, data, open, routed, cur, route_version>>

EndFree ==
  /\ phase = "freeing"
  /\ old = {}
  /\ phase' = "freed"
  /\ UNCHANGED <<nodes, table, addr, acon, data, open, routed, old, cur,
                 route_version>>

Next ==
  \/ \E a \in Addr : redisClusterSetOptionAddNode(a)
  \/ \E s \in Slot, c \in Conn : redisClusterAsyncFormattedCommand(s, c)
  \/ \E a \in Addr, c \in Conn : updateSlotMapAsync(a, c)
  \/ \E c \in Conn : CallbackDone(c)
  \/ \E c, k \in Conn, s \in Slot, a \in Addr : CallbackMoved(c, s, a, k)
  \/ \E c, k \in Conn, a \in Addr : CallbackAsk(c, a, k)
  \/ \E r \in Replies, c \in Conn \union {NULL} : updateNodesAndSlotmap(r, c)
  \/ \E n \in NodeId : freeRedisClusterNode(n)
  \/ EndUpdate
  \/ \E c \in Conn : ConnectionLost(c)
  \/ unlinkAsyncContextAndNode
  \/ redisClusterAsyncFree
  \/ EndFree

Spec == Init /\ [][Next]_vars

-----------------------------------------------------------------------------
(***************************************************************************)
(* Properties                                                              *)
(***************************************************************************)

(* The state has its type, and a command is outstanding only on a context  *)
(* that is open.                                                           *)
TypeOK ==
  /\ nodes \in [Addr -> NodeId \union {NULL}]
  /\ table \in [Slot -> NodeId \union {NULL}] \union {NULL}
  /\ addr \in [NodeId -> Addr \union {NULL}]
  /\ acon \in [NodeId -> Conn \union {NULL}]
  /\ data \in [Conn -> NodeId \union {NULL}]
  /\ open \subseteq Conn
  /\ routed \subseteq open
  /\ old \subseteq NodeId
  /\ phase \in Phases
  /\ cur \in Conn \union {NULL}
  /\ route_version \in Nat

(* cc->table never points outside cc->nodes: every slot entry is a node    *)
(* that the current dict owns, also while callbacks run in the middle of   *)
(* an update or of a redirect (hircluster.c 1405-1411, 2330, 4063), and    *)
(* when a reply is refused half-way through its regions (1389-1399).       *)
TableWithinNodes ==
  table # NULL =>
    \A s \in Slot : table[s] # NULL =>
      \E a \in Addr : nodes[a] = table[s] /\ addr[table[s]] = a

(* The dict has ownership of the node memory (clusterNodesDictType): an    *)
(* entry is an allocated node with the address of its key, and a node is   *)
(* owned once, by the dict or by the one being released, be that the old   *)
(* one (1422) or that of a refused reply (1440).                           *)
NodesOwned ==
  /\ \A a \in Addr : nodes[a] # NULL => addr[nodes[a]] = a
  /\ \A n \in NodeId : addr[n] # NULL <=> (InDict(n) \/ n \in old)
  /\ \A n \in old : ~InDict(n)

(* A node and its asynchronous context point to each other, so that        *)
(* neither unlinkAsyncContextAndNode nor freeRedisClusterNode reaches      *)
(* through a pointer to something freed.                                   *)
BackPointers ==
  /\ \A n \in NodeId : acon[n] # NULL =>
       addr[n] # NULL /\ acon[n] \in open /\ data[acon[n]] = n
  /\ \A c \in Conn : data[c] # NULL => acon[data[c]] = c

(* No context is lost: an allocated one belongs to a node, or it is the    *)
(* one whose callback is running and hiredis frees it on return.           *)
NoContextLeaked == \A c \in open : data[c] # NULL \/ c = cur

(* A redirect is handled only when there is a table to store it in: as     *)
(* long as a routed command is outstanding, cc->table is set (4063).       *)
RedirectHasTable == routed # {} /\ MayCall => table # NULL

(* An update hands every open context to the node that replaces its owner: *)
(* a connection is never dropped for an address the new map still lists.   *)
KeepsConnections ==
  [][\A a \in Addr :
       nodes[a] # NULL /\ nodes'[a] \notin {NULL, nodes[a]} =>
         acon'[nodes'[a]] = acon[nodes[a]]]_vars

(* An entry leaves cc->nodes, or is replaced, only together with a new     *)
(* route_version: what redisClusterNodeNext takes as the sign that its     *)
(* dict iterator is void (4520).                                           *)
DictChangeIsVersioned ==
  [][(\E a \in Addr : nodes[a] # NULL /\ nodes'[a] # nodes[a]) =>
       route_version' = route_version + 1 \/ phase' = "freeing"]_vars

=============================================================================
