------------------------ MODULE TopologyReplyProofs ------------------------
(***************************************************************************)
(* What a parser makes of a reply.  SlotsInv says of parse_cluster_slots   *)
(* what LinesInv says of parse_cluster_nodes: in every state of it the     *)
(* dict has exactly what has been read so far.  Each lemma XRead says that *)
(* action X keeps it.                                                      *)
(***************************************************************************)
EXTENDS TopologyNodesProofs

(* What the dict has of CLUSTER SLOTS                                      *)

(* The regions that have been handed to a node, the nodes that were read.  *)
Handed == {i \in DOMAIN input : i < Len(input) \/ pc # "region" \/ pos > 1}

Passed(i, k) == i < Len(input) \/ pc # "region" \/ k < pos

Of(a) == {i \in Handed : input[i].nodes[1] = a}

(* Region i is the first of the master with address a.                     *)
RegionRead(a, i) ==
  /\ nodes[a] = <<i, 1>>
  /\ i \in Of(a) /\ \A j \in Of(a) : i <= j
  /\ Slots(<<i, 1>>) = {[range |-> Narrowed(input[j]), of |-> <<j, 1>>] : j \in Of(a)}
  /\ Slaves(<<i, 1>>) = IF add_slave
                        THEN {<<i, k>> : k \in {h \in 2 .. Len(input[i].nodes) : Passed(i, h)}}
                        ELSE {}
  /\ \A k \in DOMAIN input[i].nodes : Passed(i, k) => input[i].nodes[k] # NULL

RegionsRead ==
  /\ \A i \in DOMAIN input : input[i].shape = "ok" /\ Narrowed(input[i])[1] <= Narrowed(input[i])[2]
  /\ \A i \in Handed : input[i].nodes[1] \in Addr /\ nodes[input[i].nodes[1]] # NULL
  /\ \A a \in Addr : nodes[a] # NULL => \E i \in Handed : RegionRead(a, i)
  /\ pc = "accepted" => input # <<>>

SlotsInv ==
  parser = "slots" =>
    /\ failed # "map_reply"
    /\ Stopped /\ failed = "reply" => BadRegions
    /\ ~Stopped => RegionsRead

-----------------------------------------------------------------------------
(* The steps of parse_cluster_slots                                        *)

(* A step that stops the parser for want of memory.                        *)
LEMMA SlotsNoMemory ==
  ASSUME SlotsInv, UNCHANGED <<input, parser>>, pc' = "error",
         failed' \in {"memory", "map_memory"}
  PROVE  SlotsInv'
  BY ZenonT(30) DEF SlotsInv, Stopped

(* What holds of a region keeps holding while its node is left alone.      *)
LEMMA RegionStays ==
  ASSUME NEW a, NEW i, RegionRead(a, i),
         nodes'[a] = nodes[a], Of(a)' = Of(a), add_slave' = add_slave,
         \A j \in Of(a) : input'[j] = input[j],
         Slots(<<i, 1>>)' = Slots(<<i, 1>>), Slaves(<<i, 1>>)' = Slaves(<<i, 1>>),
         \A k \in 1 .. Len(input[i].nodes) : Passed(i, k)' <=> Passed(i, k),
         DOMAIN input[i].nodes = 1 .. Len(input[i].nodes)
  PROVE  RegionRead(a, i)'
  <1>1. i \in Of(a) /\ input'[i] = input[i]
    BY Zenon DEF RegionRead
  <1>2. {[range |-> Narrowed(input'[j]), of |-> <<j, 1>>] : j \in Of(a)} =
        {[range |-> Narrowed(input[j]), of |-> <<j, 1>>] : j \in Of(a)}
    BY Zenon
  <1>3. \A k : k \in 2 .. Len(input[i].nodes) => k \in 1 .. Len(input[i].nodes)
    BY SMT
  <1>4. {k \in 2 .. Len(input[i].nodes) : Passed(i, k)'} =
        {k \in 2 .. Len(input[i].nodes) : Passed(i, k)}
    BY <1>3, Zenon
  <1>5. Slots(<<i, 1>>)' = {[range |-> Narrowed(input'[j]), of |-> <<j, 1>>] : j \in Of(a)'}
    BY <1>2, ZenonT(30) DEF RegionRead
  <1>6. Slaves(<<i, 1>>)' =
          IF add_slave'
          THEN {<<i, k>> : k \in {h \in 2 .. Len(input'[i].nodes) : Passed(i, h)'}}
          ELSE {}
    BY <1>1, <1>4, Zenon DEF RegionRead
  <1>7. \A k \in DOMAIN input'[i].nodes : Passed(i, k)' => input'[i].nodes[k] # NULL
    BY <1>1, Zenon DEF RegionRead
  <1>8. nodes'[a] = <<i, 1>> /\ i \in Of(a)' /\ \A j \in Of(a)' : i <= j
    BY Zenon DEF RegionRead
  <1> QED
    BY <1>5, <1>6, <1>7, <1>8, ZenonT(30) DEF RegionRead

LEMMA RegionsAre ==
  ASSUME Control, parser = "slots"
  PROVE  /\ Len(input) \in Nat /\ DOMAIN input = 1 .. Len(input)
         /\ \A i \in DOMAIN input : /\ input[i] \in Regions
                                    /\ input[i].nodes \in Seq(Addr \union {NULL})
                                    /\ DOMAIN input[i].nodes = 1 .. Len(input[i].nodes)
                                    /\ Len(input[i].nodes) \in Nat
                                    /\ Narrowed(input[i]) \in Nat \X Nat
  <1>1. input \in Seq(Regions)
    BY Zenon DEF Control
  <1>2. \A i \in DOMAIN input : input[i] \in Regions
    BY <1>1
  <1>3. \A r \in Regions : /\ r.nodes \in Seq(Addr \union {NULL}) /\ Len(r.nodes) \in Nat
                           /\ DOMAIN r.nodes = 1 .. Len(r.nodes)
                           /\ Narrowed(r) \in Nat \X Nat
    BY TopologyAssumption, NarrowedIs
  <1> QED
    BY <1>1, <1>2, <1>3

LEMMA NextRegionRead ==
  ASSUME AllInv, SlotsInv, NEW r \in Regions, NextRegion(r), Control'
  PROVE  SlotsInv'
  <1>1. /\ parser = "slots" /\ parser' = "slots" /\ pc = "next" /\ RegionsRead
        /\ pos' = 1 /\ failed # "map_reply" /\ Control
        /\ UNCHANGED <<nodes, node, add_slave>>
    BY Zenon DEF NextRegion, SlotsInv, Stopped, AllInv, Inv, config
  <1>2. input \in Seq(Regions)
    BY <1>1, ZenonT(30) DEF Control
  <1>3. /\ Len(input) \in Nat /\ Len(input') = Len(input) + 1
        /\ DOMAIN input = 1 .. Len(input) /\ DOMAIN input' = 1 .. Len(input) + 1
        /\ input'[Len(input) + 1] = r
        /\ \A i \in DOMAIN input : input'[i] = input[i] /\ i <= Len(input) /\ i \in DOMAIN input'
    <2>1. input' \in Seq(Regions) /\ Len(input) \in Nat /\ Len(input') = Len(input) + 1
          /\ Item' = r /\ \A i \in 1 .. Len(input) : input'[i] = input[i]
      BY <1>2, InputAppended, ZenonT(30) DEF NextRegion
    <2>2. DOMAIN input = 1 .. Len(input) /\ DOMAIN input' = 1 .. Len(input) + 1
      BY <1>2, <2>1
    <2>3. \A i \in 1 .. Len(input) : i <= Len(input) /\ i \in 1 .. Len(input) + 1
      BY <2>1
    <2> QED
      BY <2>1, <2>2, <2>3, Zenon DEF Item
  <1>4. Narrowed(r)[1] \in Nat /\ Narrowed(r)[2] \in Nat /\ r.shape \in {"short", "notint", "ok"}
    BY TopologyAssumption, NarrowedIs, Zenon
  <1>5. CASE pc' = "error"
    <2>1. failed' = "reply" => r.shape # "ok" \/ Narrowed(r)[1] > Narrowed(r)[2]
      BY <1>1, <1>5, <1>4, ZenonT(30) DEF NextRegion, GiveUp
    <2>2. failed' = "reply" => BadRegions'
      <3>1. Len(input) + 1 \in DOMAIN input'
        BY <1>3
      <3> QED
        BY <1>3, <2>1, <3>1, ZenonT(30) DEF BadRegions
    <2>3. failed' \in {"reply", "memory"}
      BY <1>1, <1>5, Zenon DEF NextRegion, GiveUp
    <2> QED
      BY <1>5, <2>2, <2>3 DEF SlotsInv, Stopped
  <1>6. CASE pc' = "region"
    <2>1. r.shape = "ok" /\ Narrowed(r)[1] <= Narrowed(r)[2] /\ failed' = failed
      BY <1>6, <1>4 DEF NextRegion, GiveUp
    <2>2. Handed' = Handed /\ Handed = DOMAIN input
      <3>1. Handed = DOMAIN input
        BY <1>1, Zenon DEF Handed
      <3>2. ASSUME NEW i, i \in Handed' PROVE i \in DOMAIN input
        <4>1. i \in DOMAIN input' /\ i < Len(input')
          <5>1. ~(pos' > 1)
            BY <1>1
          <5> QED
            BY <1>6, <3>2, <5>1, Zenon DEF Handed
        <4> QED
          BY <1>3, <4>1
      <3>3. ASSUME NEW i \in DOMAIN input PROVE i \in Handed'
        BY <1>3, <3>3 DEF Handed
      <3> QED
        BY <3>1, <3>2, <3>3, Zenon
    <2>3. \A i \in DOMAIN input' : input'[i].shape = "ok" /\ Narrowed(input'[i])[1] <= Narrowed(input'[i])[2]
      <3>1. \A i \in DOMAIN input' : i \in DOMAIN input \/ i = Len(input) + 1
        BY <1>3
      <3> QED
        BY <1>1, <1>3, <2>1, <3>1, ZenonT(30) DEF RegionsRead
    <2>4. \A i \in Handed' : input'[i].nodes[1] \in Addr /\ nodes'[input'[i].nodes[1]] # NULL
      BY <1>1, <1>3, <2>2, ZenonT(30) DEF RegionsRead
    <2>5. ASSUME NEW a \in Addr, NEW i \in Handed, RegionRead(a, i)
          PROVE  RegionRead(a, i)'
      <3>1. Of(a)' = Of(a)
        BY <1>3, <2>2, ZenonT(30) DEF Of
      <3>2. \A j \in Of(a) : input'[j] = input[j]
        BY <1>3, <2>2, Zenon DEF Of
      <3>3. Slots(<<i, 1>>)' = Slots(<<i, 1>>) /\ Slaves(<<i, 1>>)' = Slaves(<<i, 1>>)
        BY <1>1, ZenonT(30) DEF Slots, Slaves
      <3>4. \A k : Passed(i, k)' /\ Passed(i, k)
        <4>1. i < Len(input')
          BY <1>3, <2>2
        <4> QED
          BY <1>1, <4>1, Zenon DEF Passed
      <3>5. DOMAIN input[i].nodes = 1 .. Len(input[i].nodes)
        BY <1>1, <2>2, RegionsAre, Zenon
      <3> QED
        BY <1>1, <2>5, <3>1, <3>2, <3>3, <3>4, <3>5, RegionStays
    <2>6. \A a \in Addr : nodes'[a] # NULL => \E i \in Handed' : RegionRead(a, i)'
      BY <1>1, <2>2, <2>5, Zenon DEF RegionsRead
    <2>7. RegionsRead'
      BY <1>6, <2>3, <2>4, <2>6, ZenonT(30) DEF RegionsRead
    <2> QED
      BY <1>1, <1>6, <2>1, <2>7, ZenonT(30) DEF SlotsInv, Stopped
  <1>7. pc' \in {"error", "region"}
    BY Zenon DEF NextRegion, GiveUp
  <1> QED
    BY <1>5, <1>6, <1>7, ZenonT(30)

LEMMA RegionMasterRead ==
  ASSUME AllInv, SlotsInv, RegionMaster
  PROVE  SlotsInv'
  <1>a. PICK n, a, s, L : n = <<L, 1>> /\ a = Item.nodes[1] /\ s = slot /\ L = Len(input)
    BY Zenon
  <1>1. /\ pc = "region" /\ pos = 1 /\ parser = "slots" /\ input # <<>> /\ Control
        /\ RegionsRead /\ failed # "map_reply" /\ HeapInv
    BY ZenonT(30) DEF RegionMaster, AllInv, Inv, Control, SlotsInv, Stopped
  <1>2. /\ L \in Nat \ {0} /\ DOMAIN input = 1 .. L /\ L \in DOMAIN input /\ Item = input[L]
        /\ Item.nodes # <<>>
    <2>1. Item \in Regions /\ Item.shape = "ok" /\ Len(input) \in Nat \ {0}
          /\ DOMAIN input = 1 .. Len(input)
      BY <1>1, ItemIs, ZenonT(30) DEF Control
    <2>2. Item.nodes # <<>>
      BY <2>1, TopologyAssumption, Zenon
    <2>3. Len(input) \in 1 .. Len(input)
      BY <2>1
    <2> QED
      BY <1>a, <2>1, <2>2, <2>3, ZenonT(30) DEF Item
  <1>3. a \in Addr \union {NULL} /\ input[L].nodes \in Seq(Addr \union {NULL})
    <2>1. input[L].nodes \in Seq(Addr \union {NULL})
      BY <1>1, <1>2, RegionsAre, ZenonT(30)
    <2>2. a = input[L].nodes[1] /\ input[L].nodes # <<>>
      BY <1>a, <1>2, Zenon
    <2> QED
      BY <2>1, <2>2
  <1>4. Handed = DOMAIN input \ {L} /\ \A i \in Handed : i < L /\ i # L
    <2>1. \A i \in 1 .. L : i < L <=> i # L
      BY <1>2
    <2>2. Handed = {i \in DOMAIN input : i < L}
      <3>1. ~(pos > 1)
        BY <1>1
      <3> QED
        BY <1>1, <1>a, <3>1, Zenon DEF Handed
    <2> QED
      BY <1>2, <2>1, <2>2, ZenonT(30)
  <1>5. /\ s \in SlotObject /\ s.of = <<L, 1>> /\ s.range = Narrowed(input[L])
        /\ s = [range |-> Narrowed(input[L]), of |-> <<L, 1>>]
    <2>1. s \in SlotObject /\ s.of = <<L, 1>> /\ s.range = Narrowed(input[L])
      BY <1>1, <1>2, <1>a, Zenon DEF AllInv, Inv, NewNames
    <2> QED
      BY <2>1, Zenon DEF SlotObject
  <1>6. ASSUME UNCHANGED <<input, parser>>, pc' = "error", failed' = "memory" PROVE SlotsInv'
    BY <1>6, ZenonT(30) DEF SlotsInv, Stopped
  <1>7. ASSUME a = NULL, node_get_fails("reply") PROVE SlotsInv'
    <2>1. BadRegions
      BY <1>7, <1>2, <1>a, ZenonT(30) DEF BadRegions
    <2>2. BadRegions' /\ pc' = "error" /\ failed' = "reply"
      BY <1>7, <2>1, Zenon DEF BadRegions, node_get_fails, GiveUp, IsFirst, RegionsOf, Items
    <2> QED
      BY <2>2, Zenon DEF SlotsInv, Stopped
  <1>8. ASSUME a # NULL,
               \/ nodes[a] # NULL /\ nodes' = nodes
               \/ nodes[a] = NULL /\ nodes' = [nodes EXCEPT ![a] = n],
               pc' = "next" \/ (pc' = "region" /\ pos' = 2), failed' = failed,
               UNCHANGED <<input, parser, add_slave>>,
               \A b \in Addr : b # a /\ nodes[b] # NULL => node'[nodes[b]] = node[nodes[b]],
               \E i \in DOMAIN input : RegionRead(a, i)'
        PROVE  SlotsInv'
    <2>0. a \in Addr /\ n # NULL
      <3>1. n \in Node
        BY <1>a, <1>2 DEF Node
      <3> QED
        BY <1>3, <1>8, <3>1, NullIsNoNode, Zenon
    <2>1. Handed' = DOMAIN input
      BY <1>8, <1>2 DEF Handed
    <2>2. \A i \in Handed : i \in Handed' /\ \A k : Passed(i, k) /\ Passed(i, k)'
      BY <1>a, <1>4, <1>8, <2>1, Zenon DEF Passed
    <2>3. \A b \in Addr : b # a => nodes'[b] = nodes[b] /\ Of(b)' = Of(b)
      <3>1. \A b \in Addr : b # a => nodes'[b] = nodes[b]
        BY <1>1, <1>8, Zenon DEF HeapInv, HeapType
      <3>2. ASSUME NEW b \in Addr, b # a PROVE Of(b)' = Of(b)
        BY <1>a, <1>2, <1>4, <1>8, <2>1, <3>2 DEF Of
      <3> QED
        BY <3>1, <3>2, ZenonT(30)
    <2>4. nodes'[a] # NULL
      <3>1. nodes \in [Addr -> Made \union {NULL}]
        BY <1>1 DEF HeapInv, HeapType
      <3> QED
        BY <1>8, <2>0, <3>1, Zenon
    <2>5. ASSUME NEW b \in Addr, b # a, nodes[b] # NULL, NEW i \in Handed, RegionRead(b, i)
          PROVE  RegionRead(b, i)'
      <3>1. \A j \in Of(b) : input'[j] = input[j]
        BY <1>8, ZenonT(30)
      <3>2. nodes[b] = <<i, 1>>
        BY <2>5, Zenon DEF RegionRead
      <3>3. Slots(<<i, 1>>)' = Slots(<<i, 1>>) /\ Slaves(<<i, 1>>)' = Slaves(<<i, 1>>)
        BY <1>8, <2>5, <3>2 DEF Slots, Slaves
      <3>4. DOMAIN input[i].nodes = 1 .. Len(input[i].nodes)
        BY <1>1, <1>4, RegionsAre, ZenonT(30)
      <3> QED
        BY <1>8, <2>2, <2>3, <2>5, <3>1, <3>3, <3>4, RegionStays, ZenonT(30)
    <2>6. ASSUME NEW b \in Addr, nodes'[b] # NULL PROVE \E i \in Handed' : RegionRead(b, i)'
      <3>1. CASE b = a
        BY <1>8, <2>1, <3>1, ZenonT(30)
      <3>2. CASE b # a
        <4>1. nodes[b] # NULL
          BY <2>3, <2>6, <3>2, Zenon
        <4>2. PICK i \in Handed : RegionRead(b, i)
          BY <1>1, <4>1 DEF RegionsRead
        <4> QED
          BY <2>2, <2>5, <3>2, <4>1, <4>2
      <3> QED
        BY <3>1, <3>2
    <2>7. \A i \in Handed' : input'[i].nodes[1] \in Addr /\ nodes'[input'[i].nodes[1]] # NULL
      <3>1. ASSUME NEW i \in Handed
            PROVE  input[i].nodes[1] \in Addr /\ nodes'[input[i].nodes[1]] # NULL
        <4>1. input[i].nodes[1] \in Addr /\ nodes[input[i].nodes[1]] # NULL
          BY <1>1, Zenon DEF RegionsRead
        <4> QED
          BY <2>3, <2>4, <4>1, ZenonT(30)
      <3> QED
        BY <1>a, <1>2, <1>4, <1>8, <2>0, <2>1, <2>4, <3>1, ZenonT(30)
    <2>8. RegionsRead'
      BY <1>1, <1>8, <2>6, <2>7 DEF RegionsRead
    <2> QED
      BY <1>1, <1>8, <2>8 DEF SlotsInv, Stopped
  <1>9. ASSUME a # NULL, nodes[a] # NULL, node' = cluster_slot_ref_node(node, nodes[a]),
               pc' = "next", UNCHANGED <<config, input, nodes, failed>>
        PROVE  SlotsInv'
    <2>a. PICK m : m = nodes[a]
      BY ZenonT(30)
    <2>0. a \in Addr
      BY <1>3, <1>9, Zenon
    <2>1. m \in Made /\ node \in [Made -> NodeObject] /\ node[m] \in NodeObject
      <3>1. nodes[a] \in Made \union {NULL}
        BY <1>1, <2>0, Zenon DEF HeapInv, HeapType
      <3> QED
        BY <1>1, <1>9, <2>a, <3>1 DEF HeapInv, HeapType
    <2>2. /\ node'[m].slots = Append(node[m].slots, s) /\ node'[m].slaves = node[m].slaves
          /\ \A x \in Made : x # m => node'[x] = node[x]
      BY <1>9, <1>a, <2>a, <2>1, Zenon DEF cluster_slot_ref_node, NodeObject
    <2>3. Slots(m)' = Slots(m) \union {s} /\ Slaves(m)' = Slaves(m)
      <3>1. node[m].slots \in Seq(SlotObject)
        BY <2>1 DEF NodeObject
      <3>2. Range(Append(node[m].slots, s)) = Range(node[m].slots) \union {s}
        BY <1>5, <3>1, AppendElements
      <3> QED
        BY <2>2, <3>2, Zenon DEF Slots, Slaves
    <2>4. ASSUME NEW b \in Addr, b # a, nodes[b] # NULL PROVE node'[nodes[b]] = node[nodes[b]]
      <3>1. nodes[b] \in Made /\ nodes[b] # m
        BY <1>1, <2>0, <2>4, <2>a, EntriesDiffer, Zenon DEF HeapInv, HeapType
      <3> QED
        BY <2>2, <3>1, Zenon
    <2>5. PICK i \in Handed : RegionRead(a, i)
      BY <1>1, <1>9, <2>0 DEF RegionsRead
    <2>6. m = <<i, 1>> /\ i < L /\ i \in DOMAIN input
      BY <1>4, <2>5, <2>a, ZenonT(30) DEF RegionRead
    <2>7. Of(a)' = Of(a) \union {L}
      <3>1. Handed' = DOMAIN input
        BY <1>9, Zenon DEF Handed
      <3> QED
        BY <1>a, <1>2, <1>4, <1>9, <3>1 DEF Of
    <2>8. RegionRead(a, i)'
      <3>1. nodes'[a] = <<i, 1>> /\ i \in Of(a)'
        BY <1>9, <2>5, <2>7, Zenon DEF RegionRead
      <3>2. \A j \in Of(a)' : i <= j
        BY <1>2, <2>5, <2>6, <2>7 DEF RegionRead
      <3>3. Slots(<<i, 1>>)' = {[range |-> Narrowed(input'[j]), of |-> <<j, 1>>] : j \in Of(a)'}
        <4>1. Slots(m) = {[range |-> Narrowed(input[j]), of |-> <<j, 1>>] : j \in Of(a)}
          BY <2>5, <2>6, Zenon DEF RegionRead
        <4>2. {[range |-> Narrowed(input[j]), of |-> <<j, 1>>] : j \in Of(a) \union {L}} =
              {[range |-> Narrowed(input[j]), of |-> <<j, 1>>] : j \in Of(a)} \union {s}
          BY <1>5, Zenon
        <4>3. Slots(<<i, 1>>)' = Slots(m)'
          BY <2>6, Zenon DEF Slots
        <4> QED
          BY <1>9, <2>3, <2>7, <4>1, <4>2, <4>3
      <3>4. \A k : Passed(i, k) /\ Passed(i, k)'
        BY <1>9, <1>a, <2>6, ZenonT(30) DEF Passed
      <3>5. Slaves(<<i, 1>>)' = Slaves(<<i, 1>>)
        BY <2>2, <2>6, Zenon DEF Slaves
      <3>6. Slaves(<<i, 1>>)' =
              IF add_slave'
              THEN {<<i, k>> : k \in {h \in 2 .. Len(input'[i].nodes) : Passed(i, h)'}}
              ELSE {}
        BY <1>9, <2>5, <3>4, <3>5, Zenon DEF RegionRead, config
      <3>7. \A k \in DOMAIN input'[i].nodes : Passed(i, k)' => input'[i].nodes[k] # NULL
        BY <1>9, <2>5, <3>4, Zenon DEF RegionRead
      <3> QED
        BY <3>1, <3>2, <3>3, <3>6, <3>7 DEF RegionRead
    <2>9. UNCHANGED <<input, parser, add_slave>> /\ nodes' = nodes /\ failed' = failed
      BY <1>9, ZenonT(30) DEF config
    <2>10. /\ \A b \in Addr : b # a /\ nodes[b] # NULL => node'[nodes[b]] = node[nodes[b]]
           /\ \E j \in DOMAIN input : RegionRead(a, j)'
      BY <2>4, <2>6, <2>8, Zenon
    <2> QED
      BY <1>8, <1>9, <2>9, <2>10, Zenon
  <1>10. ASSUME a # NULL, nodes[a] = NULL, nodes' = [nodes EXCEPT ![a] = n],
                node' = cluster_slot_ref_node(With(n, NewNode("master", a)), n),
                pos' = 2, UNCHANGED <<config, input, pc, failed>>
         PROVE  SlotsInv'
    <2>0. a \in Addr /\ n \in Node
      BY <1>a, <1>2, <1>3, <1>10 DEF Node
    <2>1. n \notin Made
      <3>1. \A x \in Made : Earlier(x)
        BY <1>1, Zenon DEF AllInv, Inv, NewNames
      <3>2. n[1] = L /\ n[2] = 1
        BY <1>a, ZenonT(30)
      <3> QED
        <4>1. ~Earlier(n)
          <5>1. ~(n[1] < Len(input)) /\ ~(n[2] < pos)
            BY <1>a, <1>1, <1>2, <3>2
          <5> QED
            BY <5>1, ZenonT(30) DEF Earlier, Before
        <4> QED
          BY <3>1, <4>1, Zenon
    <2>2. /\ node'[n].slots = <<s>> /\ node'[n].slaves = <<>>
          /\ \A x \in Made : node'[x] = node[x]
      <3> DEFINE h == With(n, NewNode("master", a))
      <3>1. /\ n \in DOMAIN h /\ h[n] = NewNode("master", a)
            /\ \A x \in Made : x \in DOMAIN h /\ h[x] = node[x] /\ x # n
        BY <2>1, Zenon DEF With
      <3>2. node' = [h EXCEPT ![n].slots = Append(@, s)]
        BY <1>10, <1>a, Zenon DEF cluster_slot_ref_node
      <3> HIDE DEF h
      <3>3. \A x \in Made : node'[x] = node[x]
        BY <3>1, <3>2, Zenon
      <3>4. node'[n] = [h[n] EXCEPT !.slots = Append(h[n].slots, s)]
        BY <3>1, <3>2
      <3> QED
        BY <3>1, <3>3, <3>4 DEF NewNode
    <2>3. Slots(n)' = {s} /\ Slaves(n)' = {}
      BY <2>2, SingleList, EmptyList, ZenonT(30) DEF Slots, Slaves
    <2>4. ASSUME NEW b \in Addr, b # a, nodes[b] # NULL PROVE node'[nodes[b]] = node[nodes[b]]
      BY <1>1, <2>2, <2>4 DEF HeapInv, HeapType
    <2>5. Of(a)' = {L}
      <3>1. Handed' = DOMAIN input
        <4>1. pos' > 1
          BY <1>10
        <4> QED
          BY <1>10, <4>1, Zenon DEF Handed
      <3>2. \A i \in Handed : input[i].nodes[1] # a
        BY <1>1, <1>10, Zenon DEF RegionsRead
      <3> QED
        BY <1>a, <1>2, <1>4, <1>10, <3>1, <3>2, Zenon DEF Of
    <2>6. \A k : Passed(L, k)' <=> k < 2
      <3>1. ~(L < Len(input')) /\ pc' = "region" /\ pos' = 2
        <4>1. ~(L < L)
          BY <1>2
        <4> QED
          BY <1>1, <1>10, <1>a, <4>1, ZenonT(30)
      <3> QED
        BY <3>1, ZenonT(30) DEF Passed
    <2>7. RegionRead(a, L)'
      <3>1. nodes'[a] = <<L, 1>>
        BY <1>1, <1>10, <1>a, <2>0, ZenonT(30) DEF HeapInv, HeapType
      <3>2. L \in Of(a)' /\ \A j \in Of(a)' : L <= j
        BY <1>2, <2>5
      <3>3. Slots(<<L, 1>>)' = {[range |-> Narrowed(input'[j]), of |-> <<j, 1>>] : j \in Of(a)'}
        <4>1. {[range |-> Narrowed(input[j]), of |-> <<j, 1>>] : j \in {L}} = {s}
          BY <1>5, Zenon
        <4>2. Slots(<<L, 1>>)' = {s}
          BY <1>a, <2>3, ZenonT(30) DEF Slots
        <4> QED
          BY <1>10, <2>5, <4>1, <4>2, ZenonT(30)
      <3>4. {h \in 2 .. Len(input'[L].nodes) : Passed(L, h)'} = {}
        BY <2>6
      <3>5. Slaves(<<L, 1>>)' = {}
        BY <1>a, <2>3, Zenon DEF Slaves
      <3>6. \A k \in DOMAIN input'[L].nodes : Passed(L, k)' => input'[L].nodes[k] # NULL
        <4>1. DOMAIN input[L].nodes = 1 .. Len(input[L].nodes) /\ Len(input[L].nodes) \in Nat
          BY <1>1, <1>2, RegionsAre, Zenon
        <4>2. \A k \in DOMAIN input[L].nodes : k < 2 => k = 1
          BY <4>1
        <4> QED
          BY <1>10, <1>a, <1>2, <2>6, <4>2
      <3> QED
        BY <3>1, <3>2, <3>3, <3>4, <3>5, <3>6, Zenon DEF RegionRead
    <2> QED
      BY <1>1, <1>2, <1>8, <1>10, <2>4, <2>7 DEF config
  <1>11. CASE node_get_fails("memory")
    BY <1>6, <1>11, ZenonT(30) DEF node_get_fails, GiveUp, config
  <1>12. CASE GiveUp("memory") /\ UNCHANGED <<config, input>>
    BY <1>6, <1>12, ZenonT(30) DEF GiveUp, config
  <1> QED
    BY <1>a, <1>7, <1>9, <1>10, <1>11, <1>12 DEF RegionMaster

(* The region that is read is the first of its master.                     *)
LEMMA AtFirst ==
  ASSUME AllInv, SlotsInv, pc = "region", pos > 1
  PROVE  \E a \in Addr : /\ master = <<Len(input), 1>> /\ nodes[a] = master
                         /\ RegionRead(a, Len(input)) /\ Handed = DOMAIN input
                         /\ Len(input) \in DOMAIN input
                         /\ IsFirst(Len(input))
  <1>1. /\ parser = "slots" /\ Control /\ RegionsRead /\ Len(input) \in DOMAIN input
        /\ master = <<Len(input), 1>> /\ master \in Masters
    <2>1. parser = "slots" /\ Control /\ input # <<>>
      BY ZenonT(30) DEF AllInv, Inv, Control
    <2>2. Len(input) \in Nat \ {0} /\ DOMAIN input = 1 .. Len(input)
      BY <2>1, ItemIs, Zenon
    <2>3. Len(input) \in DOMAIN input
      BY <2>2
    <2>4. RegionsRead
      BY <2>1, Zenon DEF SlotsInv, Stopped
    <2> QED
      BY <2>1, <2>3, <2>4, Zenon DEF AllInv, Inv, AtMaster
  <1>2. PICK a \in Addr : nodes[a] = master /\ nodes[a] # NULL
    BY <1>1, Zenon DEF Masters
  <1>3. PICK i \in Handed : RegionRead(a, i)
    BY <1>1, <1>2, ZenonT(30) DEF RegionsRead
  <1>4. i = Len(input)
    BY <1>1, <1>2, <1>3 DEF RegionRead
  <1>5. Handed = DOMAIN input
    BY Zenon DEF Handed
  <1>6. input[i].nodes[1] = a /\ \A j \in Of(a) : i <= j
    BY <1>3, Zenon DEF RegionRead, Of
  <1>7. RegionsOf(a) \subseteq Of(a)
    BY <1>5, Zenon DEF RegionsOf, Items, Of
  <1>8. IsFirst(i)
    BY <1>6, <1>7, Zenon DEF IsFirst
  <1> QED
    BY <1>1, <1>2, <1>3, <1>4, <1>5, <1>8

LEMMA RegionSlaveRead ==
  ASSUME AllInv, SlotsInv, RegionSlave
  PROVE  SlotsInv'
  <1>0. pos \in 2 .. Len(Item.nodes) /\ pc = "region"
    BY Zenon DEF RegionSlave
  <1>1. /\ parser = "slots" /\ Control /\ RegionsRead /\ failed # "map_reply" /\ HeapInv
        /\ Len(input) \in Nat /\ DOMAIN input = 1 .. Len(input)
    BY <1>0, RegionsAre DEF AllInv, Inv, Control, SlotsInv, Stopped
  <1>2. pos > 1 /\ pos \in Nat
    BY <1>0, <1>1 DEF Control
  <1>a. PICK n, c, m, L : n = <<L, pos>> /\ c = Item.nodes[pos] /\ m = master /\ L = Len(input)
    BY Zenon
  <1>3. PICK a \in Addr : /\ m = <<L, 1>> /\ nodes[a] = m /\ RegionRead(a, L)
                          /\ Handed = DOMAIN input /\ L \in DOMAIN input /\ IsFirst(L)
    BY <1>0, <1>2, <1>a, AtFirst, Zenon
  <1>4. /\ pos \in DOMAIN input[L].nodes /\ input[L].nodes[pos] = c
        /\ DOMAIN input[L].nodes = 1 .. Len(input[L].nodes) /\ Len(input[L].nodes) \in Nat
    <2>1. Item = input[L]
      BY <1>a, ZenonT(30) DEF Item
    <2>2. DOMAIN input[L].nodes = 1 .. Len(input[L].nodes) /\ Len(input[L].nodes) \in Nat
      BY <1>1, <1>3, RegionsAre, Zenon
    <2>3. pos \in 1 .. Len(input[L].nodes)
      BY <1>0, <2>1, <2>2
    <2> QED
      BY <1>a, <2>1, <2>2, <2>3, Zenon
  <1>5. ASSUME c = NULL, node_get_fails("reply") PROVE SlotsInv'
    <2>1. BadRegions
      BY <1>3, <1>4, <1>5, Zenon DEF BadRegions
    <2>2. BadRegions' /\ pc' = "error" /\ failed' = "reply"
      BY <1>5, <2>1, BadStays DEF node_get_fails, GiveUp, config
    <2> QED
      BY <2>2, Zenon DEF SlotsInv, Stopped
  <1>6. ASSUME c # NULL, pos' = pos + 1,
               UNCHANGED <<pc, failed, config, input, nodes>>,
               \A x \in Made : Slots(x)' = Slots(x),
               \A x \in Made : x # m => Slaves(x)' = Slaves(x),
               Slaves(m)' = IF add_slave THEN Slaves(m) \union {n} ELSE Slaves(m)
        PROVE  SlotsInv'
    <2>0. UNCHANGED <<parser, add_slave>> /\ Len(input') = L
      BY <1>6, <1>a, ZenonT(30) DEF config
    <2>1. pos' > 1
      BY <1>2, <1>6
    <2>2. Handed' = Handed
      BY <1>3, <1>6, <2>1, Zenon DEF Handed
    <2>3. \A b \in Addr : Of(b)' = Of(b)
      BY <1>6, <2>2 DEF Of
    <2>4. ASSUME NEW b \in Addr, b # a, nodes[b] # NULL, NEW i \in Handed, RegionRead(b, i)
          PROVE  RegionRead(b, i)'
      <3>1. nodes[b] = <<i, 1>> /\ nodes[b] # m /\ nodes[b] \in Made
        BY <1>1, <1>3, <2>4, EntriesDiffer, ZenonT(30) DEF RegionRead, HeapInv, HeapType
      <3>2. i # L /\ i \in DOMAIN input
        BY <1>3, <3>1, Zenon
      <3>3. i < L
        BY <1>1, <1>a, <3>2
      <3>4. \A k : Passed(i, k)' /\ Passed(i, k)
        BY <1>a, <2>0, <3>3, Zenon DEF Passed
      <3>5. Slots(<<i, 1>>)' = Slots(<<i, 1>>) /\ Slaves(<<i, 1>>)' = Slaves(<<i, 1>>)
        BY <1>6, <3>1, Zenon
      <3>6. DOMAIN input[i].nodes = 1 .. Len(input[i].nodes)
        BY <1>1, <3>2, RegionsAre
      <3> QED
        BY <1>6, <2>0, <2>3, <2>4, <3>4, <3>5, <3>6, RegionStays, ZenonT(30)
    <2>5. RegionRead(a, L)'
      <3>a. PICK D : D = Len(input[L].nodes) /\ D \in Nat
        BY <1>4, ZenonT(30)
      <3>b. m \in Made
        <4>1. nodes[a] # NULL
          BY <1>1, <1>3, NullIsNoNode DEF Node
        <4> QED
          BY <1>1, <1>3, <4>1, ZenonT(30) DEF HeapInv, HeapType
      <3>1. \A k : (Passed(L, k)' <=> k < pos + 1) /\ (Passed(L, k) <=> k < pos)
        <4>1. ~(L < L)
          BY <1>1, <1>a
        <4>2. \A k : Passed(L, k)' <=> k < pos + 1
          BY <1>0, <1>6, <2>0, <4>1, ZenonT(30) DEF Passed
        <4>3. \A k : Passed(L, k) <=> k < pos
          BY <1>0, <1>a, <4>1 DEF Passed
        <4> QED
          BY <4>2, <4>3, Zenon
      <3>2. {h \in 2 .. D : h < pos + 1} = {h \in 2 .. D : h < pos} \union {pos}
        BY <1>0, <1>2, <1>4, <3>a
      <3>3. {h \in 2 .. Len(input'[L].nodes) : Passed(L, h)'} = {h \in 2 .. D : h < pos + 1}
        BY <1>6, <3>a, <3>1, Zenon
      <3>4. {h \in 2 .. Len(input[L].nodes) : Passed(L, h)} = {h \in 2 .. D : h < pos}
        BY <3>a, <3>1, Zenon
      <3>5. {<<L, k>> : k \in {h \in 2 .. D : h < pos} \union {pos}} =
            {<<L, k>> : k \in {h \in 2 .. D : h < pos}} \union {n}
        BY <1>a, Zenon
      <3>6. Slaves(m) = IF add_slave THEN {<<L, k>> : k \in {h \in 2 .. D : h < pos}} ELSE {}
        BY <1>3, <3>4, ZenonT(30) DEF RegionRead
      <3>7. Slaves(m)' = IF add_slave THEN {<<L, k>> : k \in {h \in 2 .. D : h < pos + 1}} ELSE {}
        BY <1>6, <3>2, <3>5, <3>6, ZenonT(30)
      <3>8. Slaves(<<L, 1>>)' = Slaves(m)' /\ Slots(<<L, 1>>)' = Slots(<<L, 1>>)
        BY <1>3, <1>6, <3>b DEF Slaves
      <3>9. \A k \in DOMAIN input'[L].nodes : Passed(L, k)' => input'[L].nodes[k] # NULL
        <4>1. \A k \in DOMAIN input[L].nodes : k < pos => input[L].nodes[k] # NULL
          BY <1>3, <3>1, ZenonT(30) DEF RegionRead
        <4>2. \A k \in DOMAIN input[L].nodes : k < pos + 1 => k < pos \/ k = pos
          BY <1>2, <1>4
        <4> QED
          BY <1>4, <1>6, <3>1, <4>1, <4>2, ZenonT(30)
      <3>10. /\ nodes'[a] = <<L, 1>> /\ L \in Of(a)' /\ \A j \in Of(a)' : L <= j
             /\ Slots(<<L, 1>>)' = {[range |-> Narrowed(input'[j]), of |-> <<j, 1>>] : j \in Of(a)'}
        BY <1>3, <1>6, <2>3, <3>8 DEF RegionRead
      <3> QED
        BY <2>0, <3>3, <3>7, <3>8, <3>9, <3>10, Zenon DEF RegionRead
    <2>6. \A b \in Addr : nodes'[b] # NULL => \E i \in Handed' : RegionRead(b, i)'
      BY <1>1, <1>3, <1>6, <2>2, <2>4, <2>5, Zenon DEF RegionsRead
    <2>7. RegionsRead'
      BY <1>0, <1>1, <1>6, <2>2, <2>6, Zenon DEF RegionsRead
    <2> QED
      BY <1>0, <1>1, <1>6, <2>0, <2>7, ZenonT(30) DEF SlotsInv, Stopped
  <1>b. m \in Made
    <2>1. nodes[a] # NULL
      BY <1>1, <1>3, NullIsNoNode DEF Node
    <2> QED
      BY <1>1, <1>3, <2>1, Zenon DEF HeapInv, HeapType
  <1>7. ASSUME c # NULL, add_slave, pos' = pos + 1,
               node' = [With(n, NewNode("slave", c)) EXCEPT ![master].slaves = Append(@, n)],
               UNCHANGED <<pc, failed, config, input, nodes>>
        PROVE  SlotsInv'
    <2>1. n \notin Made /\ n # m
      <3>1. \A x \in Made : Earlier(x)
        BY <1>0, Zenon DEF AllInv, Inv, NewNames
      <3>2. n[1] = L /\ n[2] = pos
        BY <1>a, Zenon
      <3>3. ~(n[1] < Len(input)) /\ ~(n[2] < pos)
        BY <1>a, <1>1, <1>2, <3>2
      <3>4. ~Earlier(n)
        BY <3>3, Zenon DEF Earlier, Before
      <3> QED
        BY <1>b, <3>1, <3>4, Zenon
    <2> DEFINE h == With(n, NewNode("slave", c))
    <2>2. /\ m \in DOMAIN h /\ h[m] = node[m]
          /\ \A x \in Made : x \in DOMAIN h /\ h[x] = node[x]
      BY <1>b, <2>1, Zenon DEF With
    <2>3. node' = [h EXCEPT ![m].slaves = Append(@, n)]
      BY <1>7, <1>a, ZenonT(30)
    <2> HIDE DEF h
    <2>4. \A x \in Made : x # m => node'[x] = node[x]
      BY <2>2, <2>3, Zenon
    <2>5. node[m] \in NodeObject
      BY <1>1, <1>b, ZenonT(30) DEF HeapInv, HeapType
    <2>6. node'[m] = [node[m] EXCEPT !.slaves = Append(node[m].slaves, n)]
      BY <2>2, <2>3, Zenon
    <2>7. node'[m].slaves = Append(node[m].slaves, n) /\ node'[m].slots = node[m].slots
      BY <2>5, <2>6, ZenonT(30) DEF NodeObject
    <2>8. n \in Node
      BY <1>a, <1>1, <1>2, <1>3 DEF Node
    <2>9. Slaves(m)' = Slaves(m) \union {n}
      <3>1. node[m].slaves \in Seq(Node)
        BY <2>5, ZenonT(30) DEF NodeObject
      <3>2. Range(Append(node[m].slaves, n)) = Range(node[m].slaves) \union {n}
        BY <2>8, <3>1, AppendElements
      <3> QED
        BY <2>7, <3>2, Zenon DEF Slaves
    <2>10. \A x \in Made : Slots(x)' = Slots(x)
      BY <2>4, <2>7, Zenon DEF Slots
    <2>11. \A x \in Made : x # m => Slaves(x)' = Slaves(x)
      BY <2>4, Zenon DEF Slaves
    <2> QED
      BY <1>6, <1>7, <2>9, <2>10, <2>11, ZenonT(30)
  <1>8. ASSUME c # NULL, ~add_slave, pos' = pos + 1,
               UNCHANGED <<node, pc, failed, config, input, nodes>>
        PROVE  SlotsInv'
    <2>1. /\ \A x \in Made : Slots(x)' = Slots(x) /\ Slaves(x)' = Slaves(x)
          /\ Slaves(m)' = Slaves(m)
      BY <1>8, Zenon DEF Slots, Slaves
    <2> QED
      BY <1>6, <1>8, <2>1, Zenon
  <1>9. CASE node_get_fails("memory")
    BY <1>9, SlotsNoMemory, ZenonT(30) DEF node_get_fails, GiveUp, config
  <1>10. CASE GiveUp("memory") /\ UNCHANGED <<config, input>>
    BY <1>10, SlotsNoMemory, Zenon DEF GiveUp, config
  <1> QED
    BY <1>a, <1>5, <1>7, <1>8, <1>9, <1>10, Zenon DEF RegionSlave

LEMMA EndOfRegionRead ==
  ASSUME AllInv, SlotsInv, EndOfRegion
  PROVE  SlotsInv'
  <1>1. /\ pc = "region" /\ parser = "slots" /\ Control /\ RegionsRead /\ failed # "map_reply"
        /\ pos > Len(Item.nodes) /\ pc' = "next"
        /\ UNCHANGED <<parser, add_slave, input, nodes, node, failed>>
    BY Zenon DEF EndOfRegion, AllInv, Inv, Control, SlotsInv, Stopped, config
  <1>2. input # <<>> /\ Item \in Regions /\ Item.shape = "ok" /\ pos \in Nat
    BY <1>1, ItemIs, ZenonT(30) DEF Control
  <1>3. Item.nodes # <<>> /\ Len(Item.nodes) \in Nat
    BY <1>2, TopologyAssumption
  <1>4. pos > 1
    BY <1>1, <1>2, <1>3
  <1>5. Handed' = Handed /\ Handed = DOMAIN input
    BY <1>1, <1>4, Zenon DEF Handed
  <1>6. ASSUME NEW a \in Addr, NEW i \in Handed, RegionRead(a, i) PROVE RegionRead(a, i)'
    <2>1. DOMAIN input[i].nodes = 1 .. Len(input[i].nodes) /\ Len(input[i].nodes) \in Nat
          /\ Len(input) \in Nat /\ DOMAIN input = 1 .. Len(input)
      BY <1>1, <1>5, RegionsAre, ZenonT(30)
    <2>2. \A k \in 1 .. Len(input[i].nodes) : Passed(i, k)' /\ Passed(i, k)
      <3>1. CASE i < Len(input)
        BY <1>1, <3>1, ZenonT(30) DEF Passed
      <3>2. CASE i = Len(input)
        <4>1. \A k \in 1 .. Len(input[i].nodes) : k < pos
          BY <1>1, <1>2, <2>1, <3>2 DEF Item
        <4> QED
          BY <1>1, <4>1, Zenon DEF Passed
      <3>3. i < Len(input) \/ i = Len(input)
        BY <1>5, <2>1
      <3> QED
        BY <3>1, <3>2, <3>3, Zenon
    <2>3. Of(a)' = Of(a)
      BY <1>1, <1>5, Zenon DEF Of
    <2>4. Slots(<<i, 1>>)' = Slots(<<i, 1>>) /\ Slaves(<<i, 1>>)' = Slaves(<<i, 1>>)
      BY <1>1, Zenon DEF Slots, Slaves
    <2> QED
      BY <1>1, <1>6, <2>1, <2>2, <2>3, <2>4, RegionStays, Zenon
  <1>7. \A a \in Addr : nodes'[a] # NULL => \E i \in Handed' : RegionRead(a, i)'
    BY <1>1, <1>5, <1>6, ZenonT(30) DEF RegionsRead
  <1>8. RegionsRead'
    BY <1>1, <1>5, <1>7, Zenon DEF RegionsRead
  <1> QED
    BY <1>1, <1>8, ZenonT(30) DEF SlotsInv, Stopped

LEMMA EndOfReplyRead ==
  ASSUME AllInv, SlotsInv, EndOfReply \/ EmptyReply \/ ReleaseAll
  PROVE  SlotsInv'
  <1>1. UNCHANGED <<parser, add_slave, input, nodes, node>>
    BY Zenon DEF EndOfReply, EmptyReply, ReleaseAll, config
  <1>2. ASSUME parser = "slots", ReleaseAll PROVE SlotsInv'
    BY <1>1, <1>2, BadStays, ZenonT(30) DEF ReleaseAll, SlotsInv, Stopped
  <1>3. ASSUME parser = "slots", EmptyReply PROVE SlotsInv'
    <2>1. input' = <<>>
      BY <1>1, <1>3, Zenon DEF EmptyReply
    <2>2. BadRegions'
      BY <2>1, Zenon DEF BadRegions
    <2> QED
      BY <1>3, <2>2, Zenon DEF EmptyReply, GiveUp, SlotsInv, Stopped
  <1>4. ASSUME parser = "slots", EndOfReply PROVE SlotsInv'
    <2>1. /\ pc = "next" /\ pc' = "accepted" /\ failed' = failed /\ input # <<>>
          /\ RegionsRead /\ failed # "map_reply" /\ Control
      BY <1>4, Zenon DEF EndOfReply, SlotsInv, Stopped, AllInv, Inv
    <2>2. Handed' = Handed /\ Handed = DOMAIN input /\ \A i, k : Passed(i, k) /\ Passed(i, k)'
      BY <1>1, <2>1, ZenonT(30) DEF Handed, Passed
    <2>3. ASSUME NEW a \in Addr, NEW i \in Handed, RegionRead(a, i) PROVE RegionRead(a, i)'
      <3>1. DOMAIN input[i].nodes = 1 .. Len(input[i].nodes)
        BY <1>4, <2>1, <2>2, RegionsAre, ZenonT(30)
      <3>2. Of(a)' = Of(a)
        BY <1>1, <2>2, Zenon DEF Of
      <3>3. Slots(<<i, 1>>)' = Slots(<<i, 1>>) /\ Slaves(<<i, 1>>)' = Slaves(<<i, 1>>)
        BY <1>1, ZenonT(30) DEF Slots, Slaves
      <3> QED
        BY <1>1, <2>2, <2>3, <3>1, <3>2, <3>3, RegionStays, ZenonT(30)
    <2>4. \A a \in Addr : nodes'[a] # NULL => \E i \in Handed' : RegionRead(a, i)'
      BY <1>1, <2>1, <2>2, <2>3, Zenon DEF RegionsRead
    <2>5. RegionsRead'
      BY <1>1, <2>1, <2>2, <2>4, ZenonT(30) DEF RegionsRead
    <2> QED
      BY <2>1, <2>5, ZenonT(30) DEF SlotsInv, Stopped
  <1>5. CASE parser # "slots"
    BY <1>1, <1>5, Zenon DEF SlotsInv
  <1> QED
    BY <1>2, <1>3, <1>4, <1>5, ZenonT(30)

(* An accepted reply.                                                      *)
LEMMA SlotsKept ==
  ASSUME AllInv, SlotsInv, parser = "slots", pc = "accepted"
  PROVE  RegionsKept /\ ~BadRegions /\ \E m \in Masters : node[m].slots # <<>>
  <1>1. RegionsRead /\ Control /\ input # <<>>
    BY Zenon DEF SlotsInv, Stopped, RegionsRead, AllInv, Inv
  <1>2. /\ Len(input) \in Nat /\ DOMAIN input = 1 .. Len(input)
        /\ \A i \in DOMAIN input : /\ input[i] \in Regions
                                   /\ input[i].nodes # <<>>
                                   /\ DOMAIN input[i].nodes = 1 .. Len(input[i].nodes)
                                   /\ Len(input[i].nodes) \in Nat
                                   /\ Narrowed(input[i]) \in Nat \X Nat
                                   /\ input[i].shape = "ok"
    BY <1>1, RegionsAre, TopologyAssumption, ZenonT(30) DEF RegionsRead
  <1>3. Handed = DOMAIN input /\ \A i, k : Passed(i, k)
    BY Zenon DEF Handed, Passed
  <1>4. \A a : Of(a) = RegionsOf(a)
    BY <1>2, <1>3, ZenonT(30) DEF Of, RegionsOf, Items
  <1>5. ASSUME NEW i \in DOMAIN input, IsFirst(i)
        PROVE  input[i].nodes[1] \in Addr /\ RegionRead(input[i].nodes[1], i)
    <2>1. PICK a : a = input[i].nodes[1]
      OBVIOUS
    <2>2. a \in Addr /\ nodes[a] # NULL
      BY <1>1, <1>3, <2>1, ZenonT(30) DEF RegionsRead
    <2>3. PICK j \in Handed : RegionRead(a, j)
      BY <1>1, <2>2 DEF RegionsRead
    <2>4. i \in Of(a)
      BY <1>3, <2>1, Zenon DEF Of
    <2>5. j <= i /\ i <= j
      BY <1>4, <1>5, <2>1, <2>3, <2>4 DEF RegionRead, IsFirst
    <2>6. i = j
      BY <1>2, <1>3, <2>5
    <2> QED
      BY <2>1, <2>2, <2>3, <2>6, Zenon
  <1>6. ASSUME NEW a \in Addr, NEW i \in DOMAIN input, RegionRead(a, i) PROVE IsFirst(i)
    <2>1. input[i].nodes[1] = a
      BY <1>6, ZenonT(30) DEF RegionRead, Of
    <2> QED
      BY <1>4, <1>6, <2>1, Zenon DEF RegionRead, IsFirst
  <1>7. \A i \in DOMAIN input : nodes[input[i].nodes[1]] = <<i, 1>> => <<i, 1>> # NULL
    BY <1>2, NullIsNoNode DEF Node
  <1>8. Masters = {<<i, 1>> : i \in {j \in DOMAIN input : IsFirst(j)}}
    <2>1. ASSUME NEW m \in Masters PROVE \E i \in {j \in DOMAIN input : IsFirst(j)} : m = <<i, 1>>
      <3>1. PICK a \in Addr : m = nodes[a] /\ nodes[a] # NULL
        BY Zenon DEF Masters
      <3>2. PICK i \in DOMAIN input : RegionRead(a, i)
        BY <1>1, <1>3, <3>1 DEF RegionsRead
      <3>3. IsFirst(i)
        BY <1>6, <3>2, Zenon
      <3>4. m = <<i, 1>>
        BY <3>1, <3>2, ZenonT(30) DEF RegionRead
      <3> QED
        BY <3>2, <3>3, <3>4, ZenonT(30)
    <2>2. ASSUME NEW i \in DOMAIN input, IsFirst(i) PROVE <<i, 1>> \in Masters
      <3>1. input[i].nodes[1] \in Addr /\ nodes[input[i].nodes[1]] = <<i, 1>>
        BY <1>5, <2>2, ZenonT(30) DEF RegionRead
      <3>2. <<i, 1>> # NULL
        BY <1>7, <3>1, Zenon
      <3> QED
        BY <3>1, <3>2, Zenon DEF Masters
    <2> QED
      BY <2>1, <2>2, ZenonT(30)
  <1>9. ASSUME NEW i \in DOMAIN input, IsFirst(i), NEW a, a = input[i].nodes[1]
        PROVE  /\ nodes[a] = <<i, 1>>
               /\ Slots(<<i, 1>>) =
                    {[range |-> Narrowed(input[j]), of |-> <<j, 1>>] : j \in RegionsOf(a)}
               /\ Slaves(<<i, 1>>) =
                    IF add_slave THEN {<<i, k>> : k \in 2 .. Len(input[i].nodes)} ELSE {}
               /\ \A k \in DOMAIN input[i].nodes : input[i].nodes[k] # NULL
    <2>1. RegionRead(a, i)
      BY <1>5, <1>9, Zenon
    <2>2. {h \in 2 .. Len(input[i].nodes) : Passed(i, h)} = 2 .. Len(input[i].nodes)
      BY <1>3, ZenonT(30)
    <2>3. Slaves(<<i, 1>>) =
            IF add_slave
            THEN {<<i, k>> : k \in {h \in 2 .. Len(input[i].nodes) : Passed(i, h)}}
            ELSE {}
      BY <2>1, Zenon DEF RegionRead
    <2>4. Slots(<<i, 1>>) = {[range |-> Narrowed(input[j]), of |-> <<j, 1>>] : j \in RegionsOf(a)}
      BY <1>4, <2>1, ZenonT(30) DEF RegionRead
    <2>5. nodes[a] = <<i, 1>> /\ \A k \in DOMAIN input[i].nodes : input[i].nodes[k] # NULL
      BY <1>3, <2>1, Zenon DEF RegionRead
    <2> QED
      BY <2>2, <2>3, <2>4, <2>5, Zenon
  <1>10. RegionsKept
    BY <1>8, <1>9, Zenon DEF RegionsKept, Slaves
  <1>11. ~BadRegions
    <2>1. ASSUME NEW i \in DOMAIN input
          PROVE  /\ input[i].shape = "ok" /\ ~(Narrowed(input[i])[1] > Narrowed(input[i])[2])
                 /\ input[i].nodes[1] # NULL
                 /\ ~(IsFirst(i) /\ \E k \in DOMAIN input[i].nodes : input[i].nodes[k] = NULL)
      <3>1. input[i].shape = "ok" /\ Narrowed(input[i])[1] <= Narrowed(input[i])[2]
            /\ Narrowed(input[i])[1] \in Nat /\ Narrowed(input[i])[2] \in Nat
        BY <1>1, <1>2, Zenon DEF RegionsRead
      <3>2. ~(Narrowed(input[i])[1] > Narrowed(input[i])[2])
        BY <3>1
      <3>3. PICK a \in Addr : a = input[i].nodes[1] /\ nodes[a] # NULL
        BY <1>1, <1>3, Zenon DEF RegionsRead
      <3>4. PICK j \in DOMAIN input : RegionRead(a, j)
        BY <1>1, <1>3, <3>3, Zenon DEF RegionsRead
      <3>5. input[j].nodes[1] = a /\ 1 \in DOMAIN input[j].nodes
        <4>1. 1 \in DOMAIN input[j].nodes
          <5>1. input[j].nodes \in Seq(Addr \union {NULL}) /\ input[j].nodes # <<>>
            BY <1>2, TopologyAssumption, Zenon
          <5> QED
            BY <5>1
        <4> QED
          BY <3>4, <4>1, ZenonT(30) DEF RegionRead, Of
      <3>6. a # NULL
        BY <1>3, <3>4, <3>5, ZenonT(30) DEF RegionRead
      <3> QED
        BY <1>9, <3>1, <3>2, <3>3, <3>6, Zenon
    <2> QED
      BY <1>1, <2>1, Zenon DEF BadRegions
  <1>12. \E m \in Masters : node[m].slots # <<>>
    <2>1. 1 \in DOMAIN input
      <3>1. input \in Seq(Regions)
        BY <1>1, Zenon DEF Control
      <3> QED
        BY <1>1, <3>1
    <2>2. PICK a \in Addr : a = input[1].nodes[1] /\ nodes[a] # NULL
      BY <1>1, <1>3, <2>1, Zenon DEF RegionsRead
    <2>3. PICK i \in DOMAIN input : RegionRead(a, i)
      BY <1>1, <1>3, <2>2, ZenonT(30) DEF RegionsRead
    <2>4. nodes[a] \in Masters /\ i \in Of(a) /\ nodes[a] = <<i, 1>>
      BY <2>2, <2>3, Zenon DEF Masters, RegionRead
    <2>5. [range |-> Narrowed(input[i]), of |-> <<i, 1>>] \in Slots(nodes[a])
      BY <2>3, <2>4, ZenonT(30) DEF RegionRead
    <2>6. node[nodes[a]].slots # <<>>
      BY <2>5, EmptyList, Zenon DEF Slots
    <2> QED
      BY <2>4, <2>6, Zenon
  <1> QED
    BY <1>10, <1>11, <1>12, ZenonT(30)

-----------------------------------------------------------------------------
(* What parse_cluster_slots has read, in every state                       *)

LEMMA SlotsInit == Init => SlotsInv
  <1> SUFFICES ASSUME Init PROVE SlotsInv
    BY Zenon
  <1>1. input = <<>> /\ pc = "next" /\ failed = "no" /\ \A a \in Addr : nodes[a] = NULL
    BY Zenon DEF Init
  <1> QED
    BY <1>1 DEF SlotsInv, Stopped, RegionsRead, Handed

LEMMA SlotsStutter ==
  ASSUME SlotsInv, UNCHANGED vars
  PROVE  SlotsInv'
  <1>1. UNCHANGED <<parser, add_slave, input, pc, pos, nodes, node, failed>>
    BY Zenon DEF vars
  <1>2. /\ Stopped' = Stopped /\ Handed' = Handed
        /\ \A i, k : Passed(i, k)' = Passed(i, k)
        /\ \A a : Of(a)' = Of(a)
        /\ \A n : Slots(n)' = Slots(n) /\ Slaves(n)' = Slaves(n)
    BY <1>1, ZenonT(30) DEF Stopped, Handed, Passed, Of, Slots, Slaves
  <1>3. \A a, i : RegionRead(a, i)' <=> RegionRead(a, i)
    BY <1>1, <1>2, ZenonT(30) DEF RegionRead
  <1>4. RegionsRead' <=> RegionsRead
    BY <1>1, <1>2, <1>3, Zenon DEF RegionsRead
  <1>5. BadRegions' <=> BadRegions
    BY <1>1, BadStays, Zenon
  <1> QED
    BY <1>1, <1>2, <1>4, <1>5, ZenonT(30) DEF SlotsInv

(* Every step keeps what has been read of the regions.                     *)
LEMMA SlotsStep ==
  ASSUME AllInv, AllInv', SlotsInv, [Next]_vars
  PROVE  SlotsInv'
  <1>1. Control' /\ parser \in {"slots", "nodes"}
    BY Zenon DEF AllInv, Inv, Control
  <1>2. ASSUME parser' # "slots" PROVE SlotsInv'
    BY <1>2, ZenonT(30) DEF SlotsInv
  <1>3. pc \in {"master", "map", "fields", "slave"} => parser = "nodes"
    BY Zenon DEF AllInv, Inv, Control
  <1>4. CASE UNCHANGED vars
    BY <1>4, SlotsStutter, ZenonT(30)
  <1>5. ASSUME NEW l \in Lines, NextLine(l) PROVE SlotsInv'
    <2>1. parser' = "nodes"
      BY <1>5, ZenonT(30) DEF NextLine, config
    <2> QED
      BY <1>2, <2>1, Zenon
  <1>6. CASE AddMaster
    <2>1. parser' = "nodes"
      BY <1>3, <1>6, Zenon DEF AddMaster, node_get_fails, config
    <2> QED
      BY <1>2, <2>1, Zenon
  <1>7. CASE MapMaster
    <2>1. parser' = "nodes"
      BY <1>3, <1>7, Zenon DEF MapMaster, config
    <2> QED
      BY <1>2, <2>1, Zenon
  <1>8. CASE ReadField
    <2>1. parser' = "nodes"
      BY <1>3, <1>8, Zenon DEF ReadField, config
    <2> QED
      BY <1>2, <2>1, Zenon
  <1>9. CASE EndOfLine
    <2>1. parser' = "nodes"
      BY <1>3, <1>9, Zenon DEF EndOfLine, config
    <2> QED
      BY <1>2, <2>1, Zenon
  <1>10. CASE AddSlave
    <2>1. parser' = "nodes"
      BY <1>3, <1>10, Zenon DEF AddSlave, node_get_fails, config
    <2> QED
      BY <1>2, <2>1, Zenon
  <1>11. ASSUME NEW r \in Regions, NextRegion(r) PROVE SlotsInv'
    BY <1>1, <1>11, NextRegionRead, Zenon
  <1>12. CASE RegionMaster
    BY <1>12, RegionMasterRead, ZenonT(30)
  <1>13. CASE RegionSlave
    BY <1>13, RegionSlaveRead, Zenon
  <1>14. CASE EndOfRegion
    BY <1>14, EndOfRegionRead, ZenonT(30)
  <1>15. CASE EndOfReply \/ EmptyReply \/ ReleaseAll
    BY <1>15, EndOfReplyRead, Zenon
  <1> QED
    BY <1>4, <1>5, <1>6, <1>7, <1>8, <1>9, <1>10, <1>11, <1>12, <1>13, <1>14, <1>15,
       ZenonT(30) DEF Next

-----------------------------------------------------------------------------
(* What a parser makes of a reply                                          *)

ReplyInv == AllInv /\ SlotsInv /\ LinesInv

(* Every step of a parser keeps what has been read of the reply.           *)
LEMMA StepReply == ReplyInv /\ [Next]_vars => ReplyInv'
  <1> SUFFICES ASSUME ReplyInv, [Next]_vars PROVE ReplyInv'
    BY Zenon
  <1>1. AllInv /\ SlotsInv /\ LinesInv
    BY Zenon DEF ReplyInv
  <1>2. AllInv'
    BY <1>1, StepInv, Zenon
  <1>3. SlotsInv' /\ LinesInv'
    BY <1>1, <1>2, SlotsStep, LinesStep, ZenonT(30)
  <1> QED
    BY <1>2, <1>3, Zenon DEF ReplyInv

LEMMA InitReply == Init => ReplyInv
  BY InitInv, SlotsInit, LinesInit, Zenon DEF ReplyInv

(* In every reachable state the dict has exactly what has been read of the *)
(* reply: the regions of CLUSTER SLOTS and their nodes, or the lines of    *)
(* CLUSTER NODES with their slots, open slots and replicas, those whose    *)
(* master is not listed yet under the name of it.                          *)
THEOREM Followed == Spec => []ReplyInv
  BY InitReply, StepReply, PTL DEF Spec

LEMMA ReplyByInv == ReplyInv => ReplyKept /\ RefusesBadReplies
  <1> SUFFICES ASSUME ReplyInv PROVE ReplyKept /\ RefusesBadReplies
    BY Zenon
  <1>1. AllInv /\ SlotsInv /\ LinesInv /\ parser \in {"slots", "nodes"}
    BY Zenon DEF ReplyInv, AllInv, Inv, Control
  <1>2. CASE parser = "slots"
    <2>1. pc = "refused" /\ failed \in {"reply", "map_reply"} => BadRegions
      BY <1>1, <1>2, Zenon DEF SlotsInv, Stopped
    <2>2. pc = "accepted" => /\ RegionsKept /\ ~BadRegions
                             /\ \E m \in Masters : node[m].slots # <<>>
      BY <1>1, <1>2, SlotsKept, ZenonT(30)
    <2> QED
      BY <1>2, <2>1, <2>2, ZenonT(30) DEF ReplyKept, RefusesBadReplies
  <1>3. CASE parser = "nodes"
    <2>1. pc = "refused" /\ failed \in {"reply", "map_reply"} => BadLines
      BY <1>1, <1>3, ZenonT(30) DEF LinesInv, Stopped
    <2>2. pc = "accepted" => /\ LinesKept /\ ~BadLines
                             /\ \E m \in Masters : node[m].slots # <<>>
      BY <1>1, <1>3, LinesKeptHolds, Zenon
    <2> QED
      BY <1>3, <2>1, <2>2, Zenon DEF ReplyKept, RefusesBadReplies
  <1> QED
    BY <1>1, <1>2, <1>3, Zenon

(* The dict of an accepted reply holds exactly what the reply says, for    *)
(* replies of any length, in any order, of both commands (hircluster.c:    *)
(* 748-907, 954-1168).                                                     *)
THEOREM ReplyKeptHolds == Spec => []ReplyKept
  BY Followed, ReplyByInv, PTL

(* A parser refuses a reply only when it is malformed, contradicts itself  *)
(* or memory runs out; what it accepts is none of these, and has a master  *)
(* with slots.                                                             *)
THEOREM RefusesBadRepliesHolds == Spec => []RefusesBadReplies
  BY Followed, ReplyByInv, PTL

=============================================================================

