---------------------------- MODULE NodeIterator ----------------------------
(***************************************************************************)
(* The dict of known nodes, cc->nodes, and the application's iterator over *)
(* it (redisClusterNodeIterator), at the level of buckets.  Between two    *)
(* calls of redisClusterNodeNext the application issues commands, and      *)
(* these change the dict in two ways: a redirect adds a node to it, and an *)
(* update of the slot map replaces it.  Only the second one is announced   *)
(* to the iterator, by a new route version.                                *)
(***************************************************************************)
EXTENDS Dict, FiniteSets

CONSTANTS
  Configured, \* the addresses the application adds
  Maps,       \* the nodes of a new map, in the order the parser adds them
  MaxVersion  \* bound on cc->route_version

ASSUME NodeIteratorAssumption ==
  /\ Configured \subseteq Key
  /\ Maps \subseteq Seq(Key) \ {<<>>}
  /\ MaxVersion \in Nat

VARIABLES
  nodes,          \* the dict that cc->nodes points to
  object,         \* which dict object that is (counts the dicts created;
                  \* cc->nodes is NULL as long as it is 0)
  route_version,  \* cc->route_version
  iter,           \* the application's iterator, or NULL
  start,          \* nodes in the dict when the iterator was (re)started
  seen,           \* how often each node was returned since then
  last,           \* what the last redisClusterNodeNext returned
  ended,          \* it has returned NULL
  restarted,      \* the iterator has been restarted
  grown           \* the table was expanded since the (re)start

vars == <<nodes, object, route_version, iter, start, seen, last, ended,
          restarted, grown>>

history == <<start, seen, last, ended, restarted>>

Init ==
  /\ nodes = dictReset
  /\ object = 0
  /\ route_version = 0
  /\ iter = NULL
  /\ start = {}
  /\ seen = [k \in Key |-> 0]
  /\ last = NULL
  /\ ended = FALSE
  /\ restarted = FALSE
  /\ grown = FALSE

(* The dict of a new map: what the parser's additions leave.               *)
NewDict(m) ==
  LET ht[i \in 0 .. Len(m)] ==
        IF i = 0 THEN dictReset ELSE dictAdd(ht[i - 1], m[i], "none").ht
  IN ht[Len(m)]

(* cc->nodes becomes ht, the same object with other contents.              *)
SetNodes(ht) ==
  /\ nodes' = ht
  /\ grown' = (grown \/ ht.size # nodes.size)

(***************************************************************************)
(* An address is parsed after the dict has been created: a bad one leaves  *)
(* an empty dict behind.                                                   *)
(***************************************************************************)
redisClusterSetOptionAddNode(k, wellFormed, oom) ==
  /\ route_version = 0 \* options are set before the client connects
  /\ SetNodes(IF wellFormed /\ ~dictFind(nodes, k) THEN dictAdd(nodes, k, oom).ht
              ELSE nodes)
  /\ object' = IF object = 0 THEN 1 ELSE object
  /\ UNCHANGED <<route_version, iter, history>>

(* A redirect to a node that is not known.                                 *)
getNodeFromRedirectReply(k, oom) ==
  /\ object > 0
  /\ route_version > 0
  /\ ~dictFind(nodes, k)
  /\ SetNodes(dictAdd(nodes, k, oom).ht)
  /\ UNCHANGED <<object, route_version, iter, history>>

(* Mutant: the dict is replaced without a new route version.               *)
updateNodesAndSlotmap_NoVersion(m) ==
  /\ object > 0
  /\ dictSize(nodes) > 0
  /\ object < MaxVersion
  /\ nodes' = NewDict(m)
  /\ object' = object + 1
  /\ UNCHANGED <<route_version, iter, grown, history>>

(* The old dict and its nodes are freed.                                   *)
updateNodesAndSlotmap(m) ==
  /\ object > 0
  /\ dictSize(nodes) > 0 \* a node answered
  /\ route_version < MaxVersion
  /\ nodes' = NewDict(m)
  /\ object' = object + 1
  /\ route_version' = route_version + 1
  /\ UNCHANGED <<iter, grown, history>>

redisClusterInitNodeIterator ==
  /\ object > 0
  /\ iter' = [ht |-> object, di |-> dictInitIterator,
              route_version |-> route_version, retries_left |-> 1]
  /\ start' = DictKeys(nodes)
  /\ seen' = [k \in Key |-> 0]
  /\ last' = NULL
  /\ ended' = FALSE
  /\ restarted' = FALSE
  /\ grown' = FALSE
  /\ UNCHANGED <<nodes, object, route_version>>

Changed == iter.route_version # route_version

(* The iterator as the call finds it: started again after an update.       *)
Current ==
  IF Changed
  THEN [ht |-> object, di |-> dictInitIterator,
        route_version |-> route_version,
        retries_left |-> iter.retries_left - 1]
  ELSE iter

(* The application iterates until it gets NULL.                            *)
Iterating == iter # NULL /\ ~ended

redisClusterNodeNext ==
  /\ Iterating
  /\ UNCHANGED <<nodes, object, route_version>>
  /\ IF iter.retries_left <= 0
     THEN /\ ended' = TRUE
          /\ last' = NULL
          /\ UNCHANGED <<iter, start, seen, restarted, grown>>
     ELSE LET di == dictNext(Current.di, nodes)
          IN /\ iter' = [Current EXCEPT !.di = di]
             /\ ended' = (di.entry = NULL)
             /\ last' = IF di.entry = NULL THEN NULL
                        ELSE [object |-> Current.ht, key |-> di.entry]
             /\ restarted' = (restarted \/ Changed)
             /\ grown' = (grown /\ ~Changed)
             /\ start' = IF Changed THEN DictKeys(nodes) ELSE start
             /\ seen' = [k \in Key |->
                           (IF Changed THEN 0 ELSE seen[k])
                           + (IF k = di.entry THEN 1 ELSE 0)]

(***************************************************************************)
(* The node that is asked for a new map: the nodes in the order of an      *)
(* iteration, a random index, and for each node whether it is connected,   *)
(* may be connected to ("idle") or was tried too recently ("throttled").   *)
(***************************************************************************)
Status == {"connected", "idle", "throttled"}

(* Mutant: an idle node takes the place of a connected one.                *)
selectNode_AnyIdle(ht, status, checkIndex) ==
  LET order == InOrder(ht)
      Keep(selected, i) ==
        IF \/ status[order[i]] = "connected"
           \/ /\ status[order[i]] = "idle"
              /\ selected = NULL \/ i - 1 < checkIndex
        THEN order[i] ELSE selected
      Step(a, i) ==
        IF a.found THEN a
        ELSE LET selected == Keep(a.selected, i)
             IN [selected |-> selected,
                 found |-> /\ i - 1 >= checkIndex
                           /\ selected # NULL
                           /\ status[selected] = "connected"]
      acc[i \in 0 .. Len(order)] ==
        IF i = 0 THEN [selected |-> NULL, found |-> FALSE] ELSE Step(acc[i - 1], i)
  IN acc[Len(order)].selected

selectNode(ht, status, checkIndex) ==
  LET order == InOrder(ht)
      Connected(n) == n # NULL /\ status[n] = "connected"
      Keep(selected, i) ==
        IF \/ Connected(order[i])
           \/ /\ status[order[i]] = "idle"
              /\ \/ selected = NULL
                 \/ i - 1 < checkIndex /\ ~Connected(selected)
        THEN order[i] ELSE selected
      Step(a, i) ==
        IF a.found THEN a
        ELSE LET selected == Keep(a.selected, i)
             IN [selected |-> selected,
                 found |-> i - 1 >= checkIndex /\ Connected(selected)]
      acc[i \in 0 .. Len(order)] ==
        IF i = 0 THEN [selected |-> NULL, found |-> FALSE] ELSE Step(acc[i - 1], i)
  IN acc[Len(order)].selected

Next ==
  \/ \E k \in Configured, wellFormed \in BOOLEAN, oom \in OOM :
       redisClusterSetOptionAddNode(k, wellFormed, oom)
  \/ \E k \in Key, oom \in OOM : getNodeFromRedirectReply(k, oom)
  \/ \E m \in Maps : updateNodesAndSlotmap(m)
  \/ redisClusterInitNodeIterator
  \/ redisClusterNodeNext

Spec == Init /\ [][Next]_vars
-----------------------------------------------------------------------------
(* The table has a size that doubling the first one gives, and is never    *)
(* filled above it (dict.c:244-265); the iterator refers to a dict that    *)
(* was made.                                                               *)
TypeOK ==
  /\ nodes.size \in {0} \union {Doubled(nodes.size)[k] : k \in 0 .. nodes.size}
  /\ nodes.table \in [Buckets(nodes) -> Seq(Key)]
  /\ nodes.used \in 0 .. nodes.size
  /\ object \in Nat
  /\ route_version \in 0 .. MaxVersion
  /\ iter = NULL \/
       /\ iter.ht \in 0 .. object
       /\ iter.retries_left \in {0, 1}
       /\ iter.di.entry \in Key \union {NULL}
       /\ iter.di.nextEntry \in Key \union {NULL}
  /\ start \subseteq Key
  /\ seen \in [Key -> Nat]

(***************************************************************************)
(* The hash table is a set of nodes, through every expansion and failed    *)
(* addition: each entry is in the bucket in which dictFind looks for it,   *)
(* no address is held twice, and used counts the entries (dict.c:95-161).  *)
(***************************************************************************)
DictIsSet ==
  /\ TypeOK
  /\ \A k \in DictKeys(nodes) : dictFind(nodes, k)
  /\ \A i \in Buckets(nodes) : IsInjective(nodes.table[i])
  /\ nodes.used = Cardinality(DictKeys(nodes))

(***************************************************************************)
(* What an addition does to the set of nodes: it adds the node it is       *)
(* called for or, when it fails, none, and it loses no node, whatever the  *)
(* table does; only an update takes nodes away (dict.c:141-161).           *)
(***************************************************************************)
AdditionsKeepNodes ==
  [][object' = object =>
       /\ DictKeys(nodes) \subseteq DictKeys(nodes')
       /\ Cardinality(DictKeys(nodes')) <= Cardinality(DictKeys(nodes)) + 1]_vars

(***************************************************************************)
(* A node that redisClusterNodeNext returns is a node of the dict that     *)
(* cc->nodes is at that time, never one of a dict that an update freed     *)
(* (hircluster.c:4520-4533).                                               *)
(***************************************************************************)
ReturnsLiveNodes ==
  [][redisClusterNodeNext /\ last' # NULL =>
       /\ last'.object = object
       /\ last'.key \in DictKeys(nodes)]_vars

(***************************************************************************)
(* An iteration that is neither restarted nor overtaken by an expansion    *)
(* of the table returns every node that was known when it began, each one  *)
(* once, and no node twice, although redirects add nodes to the chains it  *)
(* walks (dict.c:213-231, hircluster.c:2216-2219).                         *)
(***************************************************************************)
EachNodeOnce ==
  ~restarted /\ ~grown =>
    /\ \A k \in Key : seen[k] <= 1
    /\ ended => \A k \in start : seen[k] = 1

(***************************************************************************)
(* Whatever the order of the table and the random index, selectNode finds  *)
(* a connected node if there is one, else one that may be connected to if  *)
(* there is one; and every connected node is found for some index, so that *)
(* none of them is asked every time (hircluster.c:3889-3929).  The         *)
(* application's iterator has no part in it.  Of a dict without nodes this *)
(* says nothing: see AsyncClient, OnlyKnownCrashes.                        *)
(***************************************************************************)
SelectsUsableNode ==
  iter = NULL =>
    \A status \in [DictKeys(nodes) -> Status] :
      LET With(st) == {k \in DictKeys(nodes) : status[k] = st}
          picked == {selectNode(nodes, status, i) : i \in 0 .. nodes.used - 1}
      IN CASE With("connected") # {} -> picked = With("connected")
           [] With("connected") = {} /\ With("idle") # {} ->
                picked \subseteq With("idle")
           [] OTHER -> picked \subseteq {NULL}

(***************************************************************************)
(* "The iterator will restart if the routing table is updated before all   *)
(* nodes have been iterated" (hircluster.c:4514-4515): a restarted         *)
(* iteration, too, covers the nodes of the map it was restarted on, when   *)
(* no further update comes.  The code refutes this (retries_left is used   *)
(* up by the restart); see the README.                                     *)
(***************************************************************************)
RestartCoversNewNodes ==
  restarted /\ ~grown /\ ended /\ ~Changed =>
    \A k \in start : seen[k] >= 1
=============================================================================
