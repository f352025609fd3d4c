------------------------------ MODULE Topology ------------------------------
(***************************************************************************)
(* The two parsers that turn a reply into a dict of nodes:                 *)
(* parse_cluster_slots reads the regions of CLUSTER SLOTS,                 *)
(* parse_cluster_nodes the lines of CLUSTER NODES.  A parser is cut at     *)
(* every point where it hands an object over or may fail, and any call     *)
(* that allocates may fail there.                                          *)
(*                                                                         *)
(* What is hard to get right is who frees what.  The dict being built owns *)
(* the masters, a master its slots and replicas; nodes_name, in which      *)
(* CLUSTER NODES looks up the master of a replica, owns nothing; and a     *)
(* replica listed before its master stands in for it until it comes.       *)
(*                                                                         *)
(* Strings are abstract: a line is what its fields say.  A node is named   *)
(* by the element of the reply it was made for, <<line, 1>> or             *)
(* <<region, position>>, and a slot object likewise.                       *)
(***************************************************************************)
EXTENDS Integers, Sequences, FiniteSets, Functions

CONSTANTS
  Lines,      \* what a line of CLUSTER NODES may say
  Regions,    \* what an element of CLUSTER SLOTS may say
  Addr,       \* addresses
  Name,       \* node identifiers
  NSlots,     \* REDIS_CLUSTER_SLOTS
  UInt32,     \* the number of values of a uint32_t, 2^32
  MaxItems,   \* bound on the number of lines
  MaxRegions, \* bound on the number of regions
  NULL

(***************************************************************************)
(* A line: "short" has fewer than 8 fields, "noaddr" an address that       *)
(* starts with ":0", "other" a role that is neither master nor slave; addr *)
(* is NULL when the address or its port is not valid.  A field after the   *)
(* eighth is a range or an open slot; what is neither reads as -1.         *)
(* A region: "short" is no array of at least 3, "notint" has a start or    *)
(* end that is no integer; an address that is not valid is NULL.           *)
(***************************************************************************)
ASSUME TopologyAssumption ==
  /\ \A l \in Lines :
       /\ l.role \in {"short", "noaddr", "other", "master", "slave"}
       /\ l.addr \in Addr \union {NULL}
       /\ l.name \in Name /\ l.of \in Name
       /\ l.fields \in Seq([kind : {"range", "migrating", "importing"},
                            range : Int \X Int])
  /\ \A r \in Regions :
       /\ r.shape \in {"short", "notint", "ok"}
       /\ r.range \in Int \X Int
       /\ r.nodes \in Seq(Addr \union {NULL})
       /\ r.shape = "ok" => r.nodes # <<>>
  /\ NSlots \in Nat \ {0}
  /\ UInt32 \in Nat /\ UInt32 >= NSlots
  /\ MaxItems \in Nat /\ MaxRegions \in Nat
  /\ NULL \notin (Nat \X Nat)
  /\ NULL \notin [range : Int \X Int, of : Nat \X Nat]

VARIABLES
  parser,      \* which parser runs: "slots" or "nodes"
  add_slave,   \* HIRCLUSTER_FLAG_ADD_SLAVE
  add_open,    \* HIRCLUSTER_FLAG_ADD_OPENSLOT
  input,       \* the elements of the reply read so far
  pc,          \* where the parser is
  pos,         \* the field of the line, or node of the region, that is next
  nodes,       \* the dict being built: address -> node
  nodes_name,  \* name -> node, without ownership
  node,        \* the node objects made so far
  master,      \* the local variable of that name
  slot,        \* the slot of a region that is not in a node's list yet
  found,       \* slot_ranges_found
  frees,       \* how often each node object has been freed
  failed       \* why the parser gave up

vars == <<parser, add_slave, add_open, input, pc, pos, nodes, nodes_name,
          node, master, slot, found, frees, failed>>

config == <<parser, add_slave, add_open>>

Init ==
  /\ parser \in {"slots", "nodes"}
  /\ add_slave \in BOOLEAN
  /\ add_open \in (IF parser = "nodes" THEN BOOLEAN ELSE {FALSE})
  /\ input = <<>>
  /\ pc = "next"
  /\ pos = 1
  /\ nodes = [a \in Addr |-> NULL]
  /\ nodes_name = [n \in Name |-> NULL]
  /\ node = <<>>
  /\ master = NULL
  /\ slot = NULL
  /\ found = 0
  /\ frees = <<>>
  /\ failed = "no"

Item == input[Len(input)]

Made == DOMAIN node

(* A node and its lists.                                                   *)
NewNode(role, addr) ==
  [role |-> role, addr |-> addr, slots |-> <<>>, slaves |-> <<>>,
   migrating |-> <<>>, importing |-> <<>>]

With(n, rec) == [m \in Made \union {n} |-> IF m = n THEN rec ELSE node[m]]

Unfreed(n) == [m \in DOMAIN frees \union {n} |-> IF m = n THEN 0 ELSE frees[m]]

(* The nodes that go with a node: the replicas in its list.                *)
Owned(h, n) == {n} \union Range(h[n].slaves)

(* frees after freeRedisClusterNode of each node of ns, on the heap h.     *)
freeRedisClusterNode(fr, h, ns) ==
  [m \in DOMAIN fr |-> fr[m] + Cardinality({n \in ns : m \in Owned(h, n)})]

GiveUp(why) ==
  /\ pc' = "error"
  /\ failed' = why

Masters == {nodes[a] : a \in Addr} \ {NULL}
-----------------------------------------------------------------------------
(* CLUSTER NODES *)

(* What the next line makes the parser do.                                 *)
NextLine(l) ==
  /\ parser = "nodes"
  /\ pc = "next"
  /\ Len(input) < MaxItems
  /\ input' = Append(input, l)
  /\ pos' = 1
  /\ CASE l.role = "short" -> GiveUp("reply")
       [] l.role = "master" -> pc' = "master" /\ UNCHANGED failed
       [] l.role = "slave" /\ add_slave -> pc' = "slave" /\ UNCHANGED failed
       [] OTHER -> UNCHANGED <<pc, failed>>
  /\ UNCHANGED <<config, nodes, nodes_name, node, master, slot, found, frees>>

(* No node can be made: the address is not valid, or no memory.            *)
node_get_fails(why) ==
  /\ GiveUp(why)
  /\ UNCHANGED <<config, input, pos, nodes, nodes_name, node, master, slot,
                 found, frees>>

(* A node of the line is made and added to the dict.  dictAdd fails when   *)
(* the address is there already.                                           *)
AddMaster ==
  LET n == <<Len(input), 1>>
      a == Item.addr
  IN /\ pc = "master"
     /\ \/ a = NULL /\ node_get_fails("reply")
        \/ a # NULL /\ node_get_fails("memory")
        \/ /\ a # NULL
           /\ node' = With(n, NewNode("master", a))
           /\ \/ /\ nodes[a] = NULL
                 /\ nodes' = [nodes EXCEPT ![a] = n]
                 /\ master' = n
                 /\ frees' = Unfreed(n)
                 /\ pc' = IF add_slave THEN "map" ELSE "fields"
                 /\ UNCHANGED failed
              \/ /\ GiveUp(IF nodes[a] = NULL THEN "memory" ELSE "reply")
                 /\ frees' = freeRedisClusterNode(Unfreed(n), node', {n})
                 /\ UNCHANGED <<nodes, master>>
           /\ UNCHANGED <<config, input, pos, nodes_name, slot, found>>

(* The first k elements of a list, each pushed to the head of another.     *)
Pushed(list, k) == [i \in 1 .. k |-> list[k + 1 - i]]

(* Mutant: a replica that is moved also stays in the stand-in's list.      *)
TakeOver_Copies(m, old, k) ==
  [node EXCEPT ![m].slaves = Pushed(node[old].slaves, k)]

(* The first k replicas of the stand-in's list have moved, each to the     *)
(* head of the master's.                                                   *)
TakeOver(m, old, k) ==
  LET list == node[old].slaves
  IN [node EXCEPT ![m].slaves = Pushed(list, k),
                  ![old].slaves = SubSeq(list, k + 1, Len(list))]

(***************************************************************************)
(* cluster_master_slave_mapping_with_name for a master: it is entered      *)
(* under its name, or takes over from the replica that stands in for it,   *)
(* with the replicas that one has collected.  Memory may run out after any *)
(* number of these have moved.                                             *)
(***************************************************************************)
MapMaster ==
  LET name == Item.name
      old == nodes_name[name]
  IN /\ pc = "map"
     /\ \/ /\ old = NULL
           /\ nodes_name' = [nodes_name EXCEPT ![name] = master]
           /\ pc' = "fields"
           /\ UNCHANGED <<node, frees, failed>>
        \/ /\ old # NULL
           /\ node[old].role = "slave"
           /\ nodes_name' = [nodes_name EXCEPT ![name] = master]
           /\ node' = [TakeOver(master, old, Len(node[old].slaves)) EXCEPT
                         ![master].slaves = <<old>> \o @]
           /\ pc' = "fields"
           /\ UNCHANGED <<frees, failed>>
        \/ /\ old # NULL
           /\ node[old].role = "slave"
           /\ \E k \in 0 .. Len(node[old].slaves) :
                node' = TakeOver(master, old, k)
           /\ GiveUp("map_memory")
           /\ frees' = freeRedisClusterNode(frees, node', {master})
           /\ UNCHANGED nodes_name
        \/ /\ old # NULL => node[old].role = "master"
           /\ GiveUp(IF old = NULL THEN "map_memory" ELSE "map_reply")
           /\ frees' = freeRedisClusterNode(frees, node, {master})
           /\ UNCHANGED <<nodes_name, node>>
     /\ UNCHANGED <<config, input, pos, nodes, master, slot, found>>

(* Mutant: a range may end behind the last slot.                           *)
IsRange_Late(f) ==
  /\ f.kind = "range"
  /\ 0 <= f.range[1] /\ f.range[1] <= f.range[2] /\ f.range[2] <= NSlots

(* A range that is not one is passed over.                                 *)
IsRange(f) ==
  /\ f.kind = "range"
  /\ 0 <= f.range[1] /\ f.range[1] <= f.range[2] /\ f.range[2] < NSlots

(* The heap after slot s was made for, and added to, master m.             *)
cluster_slot_create(h, m, s) == [h EXCEPT ![m].slots = Append(@, s)]

(* The same for the open slot that field j of the line names.              *)
cluster_open_slot_create(h, m, kind, j) ==
  IF kind = "migrating" THEN [h EXCEPT ![m].migrating = Append(@, j)]
  ELSE [h EXCEPT ![m].importing = Append(@, j)]

(* The next field of a master's line.  An open slot is only kept with      *)
(* HIRCLUSTER_FLAG_ADD_OPENSLOT.                                           *)
ReadField ==
  LET f == Item.fields[pos]
      s == [range |-> f.range, of |-> <<Len(input), pos>>]
      Done ==
        /\ pos' = pos + 1
        /\ UNCHANGED <<pc, failed>>
  IN /\ pc = "fields"
     /\ pos <= Len(Item.fields)
     /\ \/ /\ f.kind # "range" /\ add_open
           /\ node' = cluster_open_slot_create(node, master, f.kind, pos)
           /\ Done
           /\ UNCHANGED found
        \/ /\ IsRange(f)
           /\ found' = found + 1
           /\ node' = cluster_slot_create(node, master, s)
           /\ Done
        \/ /\ ~IsRange(f)
           /\ f.kind = "range" \/ ~add_open
           /\ Done
           /\ UNCHANGED <<node, found>>
        \/ /\ GiveUp("memory")
           /\ UNCHANGED <<pos, node, found>>
     /\ UNCHANGED <<config, input, nodes, nodes_name, master, slot, frees>>

EndOfLine ==
  /\ pc = "fields"
  /\ pos > Len(Item.fields)
  /\ pc' = "next"
  /\ UNCHANGED <<config, input, pos, nodes, nodes_name, node, master, slot,
                 found, frees, failed>>

(***************************************************************************)
(* A replica is made and entered under the name of its master: it stands   *)
(* in for it, or joins the list of the node that is there, be that the     *)
(* master or the stand-in.                                                 *)
(***************************************************************************)
AddSlave ==
  LET n == <<Len(input), 1>>
      old == nodes_name[Item.of]
      made == With(n, NewNode("slave", Item.addr))
  IN /\ pc = "slave"
     /\ \/ Item.addr = NULL /\ node_get_fails("reply")
        \/ Item.addr # NULL /\ node_get_fails("memory")
        \/ /\ Item.addr # NULL
           /\ \/ /\ old = NULL
                 /\ nodes_name' = [nodes_name EXCEPT ![Item.of] = n]
                 /\ node' = made
                 /\ frees' = Unfreed(n)
                 /\ pc' = "next"
                 /\ UNCHANGED failed
              \/ /\ old # NULL
                 /\ node' = [made EXCEPT ![old].slaves = Append(@, n)]
                 /\ frees' = Unfreed(n)
                 /\ pc' = "next"
                 /\ UNCHANGED <<nodes_name, failed>>
              \/ /\ GiveUp("memory")
                 /\ node' = made
                 /\ frees' = freeRedisClusterNode(Unfreed(n), made, {n})
                 /\ UNCHANGED nodes_name
           /\ UNCHANGED <<config, input, pos, nodes, master, slot, found>>
-----------------------------------------------------------------------------
(* CLUSTER SLOTS *)

(***************************************************************************)
(* The range of a region as slot->start and slot->end hold it: the long    *)
(* long of the reply goes through an int into a uint32_t.                  *)
(***************************************************************************)
Narrowed(r) == <<r.range[1] % UInt32, r.range[2] % UInt32>>

(* The next region, up to its range, which is judged as it is stored.  The *)
(* slot object is made first.                                              *)
NextRegion(r) ==
  LET s == [range |-> Narrowed(r), of |-> <<Len(input) + 1, 1>>]
  IN /\ parser = "slots"
     /\ pc = "next"
     /\ Len(input) < MaxRegions
     /\ input' = Append(input, r)
     /\ pos' = 1
     /\ \/ r.shape = "short" /\ GiveUp("reply") /\ UNCHANGED slot
        \/ r.shape # "short" /\ GiveUp("memory") /\ UNCHANGED slot
        \/ /\ r.shape # "short"
           /\ slot' = s
           /\ IF r.shape = "notint" \/ Narrowed(r)[1] > Narrowed(r)[2]
              THEN GiveUp("reply")
              ELSE pc' = "region" /\ UNCHANGED failed
     /\ UNCHANGED <<config, nodes, nodes_name, node, master, found, frees>>

(* cluster_slot_ref_node: the slot goes to the master's list.              *)
cluster_slot_ref_node(h, m) == [h EXCEPT ![m].slots = Append(@, slot)]

(***************************************************************************)
(* The first node of a region is its master.  When it is known already,    *)
(* the rest of the region is passed over, replicas included.               *)
(***************************************************************************)
RegionMaster ==
  LET a == Item.nodes[1]
      n == <<Len(input), 1>>
      made == With(n, NewNode("master", a))
  IN /\ pc = "region"
     /\ pos = 1
     /\ \/ a = NULL /\ node_get_fails("reply")
        \/ a # NULL /\ node_get_fails("memory")
        \/ /\ a # NULL /\ nodes[a] # NULL
           /\ node' = cluster_slot_ref_node(node, nodes[a])
           /\ master' = nodes[a]
           /\ slot' = NULL
           /\ pc' = "next"
           /\ UNCHANGED <<config, input, pos, nodes, nodes_name, found, frees,
                          failed>>
        \/ /\ a # NULL /\ nodes[a] = NULL
           /\ \/ /\ nodes' = [nodes EXCEPT ![a] = n]
                 /\ node' = cluster_slot_ref_node(made, n)
                 /\ frees' = Unfreed(n)
                 /\ slot' = NULL
                 /\ pos' = 2
                 /\ UNCHANGED <<pc, failed>>
              \/ \* no memory for the entry of the dict
                 /\ node' = made
                 /\ frees' = freeRedisClusterNode(Unfreed(n), made, {n})
                 /\ GiveUp("memory")
                 /\ UNCHANGED <<nodes, slot, pos>>
              \/ \* no memory for the entry of the list
                 /\ nodes' = [nodes EXCEPT ![a] = n]
                 /\ node' = made
                 /\ frees' = Unfreed(n)
                 /\ GiveUp("memory")
                 /\ UNCHANGED <<slot, pos>>
           /\ master' = n
           /\ UNCHANGED <<config, input, nodes_name, found>>

RegionSlave ==
  LET a == Item.nodes[pos]
      n == <<Len(input), pos>>
      made == With(n, NewNode("slave", a))
  IN /\ pc = "region"
     /\ pos \in 2 .. Len(Item.nodes)
     /\ \/ a = NULL /\ node_get_fails("reply")
        \/ a # NULL /\ add_slave /\ node_get_fails("memory")
        \/ /\ a # NULL
           /\ \/ /\ ~add_slave
                 /\ pos' = pos + 1
                 /\ UNCHANGED <<node, frees, pc, failed>>
              \/ /\ add_slave
                 /\ node' = [made EXCEPT ![master].slaves = Append(@, n)]
                 /\ frees' = Unfreed(n)
                 /\ pos' = pos + 1
                 /\ UNCHANGED <<pc, failed>>
              \/ /\ add_slave
                 /\ node' = made
                 /\ frees' = freeRedisClusterNode(Unfreed(n), made, {n})
                 /\ GiveUp("memory")
                 /\ UNCHANGED pos
           /\ UNCHANGED <<config, input, nodes, nodes_name, master, slot,
                          found>>

EndOfRegion ==
  /\ pc = "region"
  /\ pos > Len(Item.nodes)
  /\ pc' = "next"
  /\ UNCHANGED <<config, input, pos, nodes, nodes_name, node, master, slot,
                 found, frees, failed>>
-----------------------------------------------------------------------------
(* Mutant: the slot ranges found are not counted.                          *)
EndOfReply_Unchecked ==
  /\ pc = "next"
  /\ pc' = "accepted"
  /\ UNCHANGED <<config, input, pos, nodes, nodes_name, node, master, slot,
                 found, frees, failed>>

(* A reply without any region, or without any slot range, is refused.      *)
EndOfReply ==
  /\ pc = "next"
  /\ IF parser = "slots" THEN input # <<>> ELSE found > 0
  /\ pc' = "accepted"
  /\ UNCHANGED <<config, input, pos, nodes, nodes_name, node, master, slot,
                 found, frees, failed>>

EmptyReply ==
  /\ pc = "next"
  /\ IF parser = "slots" THEN input = <<>> ELSE found = 0
  /\ GiveUp("reply")
  /\ UNCHANGED <<config, input, pos, nodes, nodes_name, node, master, slot,
                 found, frees>>

(* Mutant: nodes_name, too, frees the nodes in it.                         *)
ReleaseAll_NamesOwn ==
  /\ pc = "error"
  /\ pc' = "refused"
  /\ frees' = freeRedisClusterNode(
                freeRedisClusterNode(frees, node, Masters), node,
                {nodes_name[k] : k \in Name} \ {NULL})
  /\ slot' = NULL
  /\ UNCHANGED <<config, input, pos, nodes, nodes_name, node, master, found,
                 failed>>

(* The dict is released, with what it owns, and the slot on its way.       *)
ReleaseAll ==
  /\ pc = "error"
  /\ pc' = "refused"
  /\ frees' = freeRedisClusterNode(frees, node, Masters)
  /\ slot' = NULL
  /\ UNCHANGED <<config, input, pos, nodes, nodes_name, node, master, found,
                 failed>>

Next ==
  \/ \E l \in Lines : NextLine(l)
  \/ AddMaster
  \/ MapMaster
  \/ ReadField
  \/ EndOfLine
  \/ AddSlave
  \/ \E r \in Regions : NextRegion(r)
  \/ RegionMaster
  \/ RegionSlave
  \/ EndOfRegion
  \/ EndOfReply
  \/ EmptyReply
  \/ ReleaseAll

Spec == Init /\ [][Next]_vars
-----------------------------------------------------------------------------
Node == (Nat \ {0}) \X (Nat \ {0})

(* The dicts and lists refer to nodes that were made, each with the role   *)
(* it was made for, and only masters have slots (the assertion of          *)
(* hircluster.c:311 and the check of 336).                                 *)
TypeOK ==
  /\ pc \in {"next", "master", "map", "fields", "slave", "region", "error",
             "accepted", "refused"}
  /\ nodes \in [Addr -> Made \union {NULL}]
  /\ nodes_name \in [Name -> Made \union {NULL}]
  /\ Made \subseteq Node
  /\ \A n \in Made :
       /\ node[n].role \in {"master", "slave"}
       /\ Range(node[n].slaves) \subseteq Made
       /\ node[n].role = "slave" => node[n].slots = <<>>
  /\ DOMAIN frees = Made
  /\ found \in Nat

(***************************************************************************)
(* While a reply is parsed no node and no slot object is held twice, by    *)
(* the dict, the list of a node or the local variable, although replicas   *)
(* change hands when their master is listed after them                     *)
(* (hircluster.c:657-702, 849-882).                                        *)
(***************************************************************************)
HeldOnce ==
  /\ TypeOK
  /\ \A a, b \in Addr : nodes[a] # NULL /\ nodes[a] = nodes[b] => a = b
  /\ \A m \in Made :
       /\ IsInjective(node[m].slaves) /\ Range(node[m].slaves) \cap Masters = {}
       /\ IsInjective(node[m].slots)
       /\ slot # NULL => slot \notin Range(node[m].slots)
  /\ \A m, n \in Made :
       m # n => /\ Range(node[m].slaves) \cap Range(node[n].slaves) = {}
                /\ Range(node[m].slots) \cap Range(node[n].slots) = {}

(* The replicas that stand in for a master that has not been listed.       *)
Waiting ==
  {n \in Made : \E k \in Name :
     /\ nodes_name[k] # NULL
     /\ node[nodes_name[k]].role = "slave"
     /\ n \in Owned(node, nodes_name[k])}

(***************************************************************************)
(* No node is lost and none is freed twice: when a parser returns, each    *)
(* node is in the dict that it returns or, wherever the parser failed, has *)
(* been freed, once.  The code makes two exceptions.  A replica whose      *)
(* master was not listed is lost: nodes_name has no ownership, and nothing *)
(* else holds it (hircluster.c:1152-1157, 1175-1193).  And when the        *)
(* mapping of a master fails, the master that the dict already owns is     *)
(* freed on its own, with its replicas, and then again with the dict       *)
(* (hircluster.c:1016-1021, 1188-1190).                                    *)
(***************************************************************************)
FreedOnce ==
  /\ \A n \in Made :
       frees[n] > 1 => /\ failed \in {"map_memory", "map_reply"}
                       /\ n \in Owned(node, master)
  /\ pc \in {"accepted", "refused"} =>
       \A n \in Made \ Waiting :
         IF pc = "refused" THEN frees[n] > 0
         ELSE frees[n] = 0 /\ \E m \in Masters : n \in Owned(node, m)

(* A field that names slots of the cluster.                                *)
NamesSlots(f) ==
  f.kind = "range" /\ \E i, j \in 0 .. NSlots - 1 : i <= j /\ f.range = <<i, j>>

Items(P(_)) == {i \in DOMAIN input : P(input[i])}

MasterLines == Items(LAMBDA l : l.role = "master")

SlaveLines(name) == Items(LAMBDA l : l.role = "slave" /\ l.of = name)

RegionsOf(a) == Items(LAMBDA r : r.nodes # <<>> /\ r.nodes[1] = a)

IsFirst(i) == \A j \in RegionsOf(input[i].nodes[1]) : i <= j

Slots(n) == Range(node[n].slots)

(* The list has the elements of S, each once.                              *)
IsListOf(list, S) == Range(list) = S /\ IsInjective(list)

(* The master lines of CLUSTER NODES, each under its address, with its     *)
(* valid ranges, its open slots and the replicas that name it.             *)
LinesKept ==
  /\ Masters = {<<i, 1>> : i \in MasterLines}
  /\ \A i \in MasterLines :
       LET l == input[i]
           n == <<i, 1>>
           At(k) == {j \in DOMAIN l.fields : l.fields[j].kind = k}
       IN /\ nodes[l.addr] = n
          /\ Slots(n) = {[range |-> l.fields[j].range, of |-> <<i, j>>] :
                           j \in {k \in DOMAIN l.fields :
                                    NamesSlots(l.fields[k])}}
          /\ Range(node[n].slaves) =
               IF add_slave THEN {<<j, 1>> : j \in SlaveLines(l.name)} ELSE {}
          /\ add_open =>
               /\ IsListOf(node[n].migrating, At("migrating"))
               /\ IsListOf(node[n].importing, At("importing"))

(* The first node of every region of CLUSTER SLOTS, once, with the ranges  *)
(* of all its regions, as stored, and the replicas of the first of them.   *)
RegionsKept ==
  /\ Masters = {<<i, 1>> : i \in {j \in DOMAIN input : IsFirst(j)}}
  /\ \A i \in DOMAIN input :
       LET a == input[i].nodes[1]
           n == <<i, 1>>
       IN IsFirst(i) =>
            /\ nodes[a] = n
            /\ Slots(n) = {[range |-> Narrowed(input[j]), of |-> <<j, 1>>] :
                             j \in RegionsOf(a)}
            /\ Range(node[n].slaves) =
                 IF add_slave THEN {<<i, k>> : k \in 2 .. Len(input[i].nodes)}
                 ELSE {}

(***************************************************************************)
(* The dict of an accepted reply has each master it lists, once, with all  *)
(* its slots, in whatever order they come, and nothing else.  Of CLUSTER   *)
(* NODES it has, if they are asked for, the open slots and every replica   *)
(* of a master; of CLUSTER SLOTS only the replicas of the first region of  *)
(* a master (the break of 855), and the ranges as a uint32_t holds them    *)
(* (hircluster.c:748-907, 954-1168).                                       *)
(***************************************************************************)
ReplyKept ==
  pc = "accepted" => IF parser = "nodes" THEN LinesKept ELSE RegionsKept

BadLines ==
  \/ Items(LAMBDA l : l.role = "short") # {}
  \/ Items(LAMBDA l : /\ l.addr = NULL
                      /\ \/ l.role = "master"
                         \/ l.role = "slave" /\ add_slave)
       # {}
  \/ \E i, j \in MasterLines :
       /\ i # j
       /\ \/ input[i].addr = input[j].addr
          \/ add_slave /\ input[i].name = input[j].name
  \/ \A i \in MasterLines :
       \A j \in DOMAIN input[i].fields : ~NamesSlots(input[i].fields[j])

BadRegions ==
  \/ input = <<>>
  \/ \E i \in DOMAIN input :
       LET r == input[i]
       IN \/ r.shape # "ok"
          \/ Narrowed(r)[1] > Narrowed(r)[2]
          \/ r.nodes[1] = NULL
          \/ IsFirst(i) /\ \E k \in DOMAIN r.nodes : r.nodes[k] = NULL

(***************************************************************************)
(* A parser refuses a reply only when memory runs out or the reply is bad: *)
(* an element cannot be read, a master is listed twice (CLUSTER NODES) or  *)
(* no slot is named.  What it accepts is none of these, so a map that is   *)
(* installed has a master with slots, and selectNode a node to choose from *)
(* it (3905).  Ranges that overlap, and ranges of CLUSTER SLOTS that end   *)
(* behind the last slot, are not bad here: 1389-1399 refuse them later     *)
(* (Slotmap, Refuse).                                                      *)
(***************************************************************************)
RefusesBadReplies ==
  LET bad == IF parser = "nodes" THEN BadLines ELSE BadRegions
  IN /\ pc = "refused" /\ failed \in {"reply", "map_reply"} => bad
     /\ pc = "accepted" =>
          /\ ~bad
          /\ \E m \in Masters : node[m].slots # <<>>

(***************************************************************************)
(* The dict of nodes "Has ownership of redisClusterNode memory"            *)
(* (hircluster.c:136): what it owns is freed with it and only then.  This  *)
(* is refuted by the second exception of FreedOnce; see the README.        *)
(***************************************************************************)
NeverFreedTwice == \A n \in Made : frees[n] <= 1
=============================================================================
