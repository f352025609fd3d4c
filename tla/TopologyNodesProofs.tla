------------------------ MODULE TopologyNodesProofs ------------------------
(***************************************************************************)
(* What parse_cluster_nodes makes of a reply: in every state of it the     *)
(* dict has exactly the lines that have been read so far, which LinesInv   *)
(* says.  Each lemma XRead says that action X keeps it.                    *)
(***************************************************************************)
EXTENDS TopologyProofs

(* What the dict has of CLUSTER NODES                                      *)

Stopped == pc \in {"error", "refused"}

IsMaster(i) == i \in DOMAIN input /\ input[i].role = "master"

IsSlave(i) == i \in DOMAIN input /\ input[i].role = "slave"

(* The masters in the dict, the fields that were read, and the masters and *)
(* the replicas that have been entered under the name of the master.       *)
InDict(i) == IsMaster(i) /\ (i < Len(input) \/ pc # "master")

FieldRead(i, j) ==
  j \in DOMAIN input[i].fields /\ (i < Len(input) \/ pc \notin {"map", "fields"} \/ j < pos)

MasterNamed(k, i) ==
  IsMaster(i) /\ input[i].name = k /\ (i < Len(input) \/ pc \notin {"master", "map"})

SlaveListed(k) ==
  {i \in DOMAIN input : /\ IsSlave(i) /\ input[i].of = k
                        /\ i < Len(input) \/ pc # "slave"}

SlaveNodes(k) == {<<i, 1>> : i \in SlaveListed(k)}

LinesGood ==
  /\ \A i \in DOMAIN input : input[i].role # "short"
  /\ \A i \in DOMAIN input :
       add_slave /\ IsSlave(i) /\ (i < Len(input) \/ pc # "slave") => input[i].addr # NULL

DictRead ==
  /\ \A i \in DOMAIN input :
       InDict(i) => input[i].addr \in Addr /\ nodes[input[i].addr] = <<i, 1>>
  /\ \A i \in DOMAIN input : InDict(i) => input[i].addr # NULL
  /\ \A a \in Addr : nodes[a] # NULL => \E i \in DOMAIN input : InDict(i) /\ nodes[a] = <<i, 1>>

SlotsRead ==
  /\ \A i \in DOMAIN input : InDict(i) =>
       Slots(<<i, 1>>) = {[range |-> input[i].fields[j].range, of |-> <<i, j>>] :
                            j \in {k \in DOMAIN input[i].fields :
                                     FieldRead(i, k) /\ IsRange(input[i].fields[k])}}
  /\ found > 0 <=> \E i \in DOMAIN input : \E j \in DOMAIN input[i].fields :
                     InDict(i) /\ FieldRead(i, j) /\ IsRange(input[i].fields[j])

OpenOnes(i, kind) ==
  {j \in DOMAIN input[i].fields : FieldRead(i, j) /\ input[i].fields[j].kind = kind}

OpensRead ==
  add_open => \A i \in DOMAIN input : InDict(i) =>
    /\ IsListOf(node[<<i, 1>>].migrating, OpenOnes(i, "migrating"))
    /\ IsListOf(node[<<i, 1>>].importing, OpenOnes(i, "importing"))

NameRead(k) ==
  \/ /\ nodes_name[k] = NULL
     /\ SlaveListed(k) = {} /\ \A i \in DOMAIN input : ~MasterNamed(k, i)
  \/ /\ nodes_name[k] # NULL /\ node[nodes_name[k]].role = "slave"
     /\ Owned(node, nodes_name[k]) = SlaveNodes(k)
     /\ \A i \in DOMAIN input : ~MasterNamed(k, i)
  \/ /\ nodes_name[k] # NULL /\ node[nodes_name[k]].role = "master"
     /\ Slaves(nodes_name[k]) = SlaveNodes(k)
     /\ \E i \in DOMAIN input : MasterNamed(k, i) /\ nodes_name[k] = <<i, 1>>
     /\ \A i \in DOMAIN input : MasterNamed(k, i) => nodes_name[k] = <<i, 1>>

NamesRead ==
  IF add_slave THEN \A k \in Name : NameRead(k)
  ELSE \A m \in Made : node[m].slaves = <<>>

LinesRead == LinesGood /\ DictRead /\ SlotsRead /\ OpensRead /\ NamesRead

LinesInv ==
  parser = "nodes" =>
    /\ Stopped /\ failed \in {"reply", "map_reply"} => BadLines
    /\ ~Stopped => LinesRead
    /\ pc = "accepted" => found > 0

-----------------------------------------------------------------------------
(* The steps of parse_cluster_nodes                                        *)

(* A reply that is refused stays a bad one.                                *)
LEMMA BadStays ==
  ASSUME UNCHANGED <<input, add_slave>>
  PROVE  (BadRegions <=> BadRegions') /\ (BadLines <=> BadLines')
  <1>1. BadRegions <=> BadRegions'
    BY ZenonT(30) DEF BadRegions, IsFirst, RegionsOf, Items
  <1>2. BadLines <=> BadLines'
    BY DEF BadLines, MasterLines, Items, NamesSlots
  <1> QED
    BY <1>1, <1>2, Zenon

(* A step that stops the parser for want of memory.                        *)
LEMMA LinesNoMemory ==
  ASSUME LinesInv, UNCHANGED <<input, parser>>, pc' = "error",
         failed' \in {"memory", "map_memory"}
  PROVE  LinesInv'
  BY Zenon DEF LinesInv, Stopped

(* Two entries of the dict are two nodes.                                  *)
LEMMA EntriesDiffer ==
  ASSUME HeapInv
  PROVE  \A a, b \in Addr : nodes[a] # NULL /\ nodes[a] = nodes[b] => a = b
  BY Zenon DEF HeapInv, DictHeld

(* A master of the dict is a node, with its role.                          *)
LEMMA MasterIs ==
  ASSUME HeapInv, NEW m, m \in Masters
  PROVE  m \in Made /\ m # NULL /\ node[m].role = "master"
  <1>1. PICK a \in Addr : m = nodes[a] /\ nodes[a] # NULL
    BY Zenon DEF Masters
  <1>2. nodes[a] \in Made \union {NULL} /\ node[nodes[a]].role = "master"
    BY <1>1, Zenon DEF HeapInv, HeapType, DictHeld
  <1> QED
    BY <1>1, <1>2, Zenon

(* The lines that were there are there, with what has been read of them.   *)
LinesLike ==
  /\ DOMAIN input \subseteq DOMAIN input'
  /\ \A i \in DOMAIN input : input'[i] = input[i]

DictLike ==
  /\ LinesLike
  /\ \A i \in DOMAIN input' : InDict(i)' <=> (i \in DOMAIN input /\ InDict(i))

FieldsLike ==
  \A i \in DOMAIN input : InDict(i) => \A j : FieldRead(i, j)' <=> FieldRead(i, j)

NameLike(k) ==
  /\ SlaveListed(k)' = SlaveListed(k)
  /\ LinesLike
  /\ \A i \in DOMAIN input' : MasterNamed(k, i)' <=> (i \in DOMAIN input /\ MasterNamed(k, i))

LEMMA LinesAre ==
  ASSUME Control, parser = "nodes"
  PROVE  /\ Len(input) \in Nat /\ DOMAIN input = 1 .. Len(input)
         /\ \A i \in DOMAIN input :
              /\ input[i] \in Lines
              /\ input[i].addr \in Addr \union {NULL}
              /\ input[i].name \in Name /\ input[i].of \in Name
              /\ input[i].fields \in
                   Seq([kind : {"range", "migrating", "importing"}, range : Int \X Int])
              /\ DOMAIN input[i].fields = 1 .. Len(input[i].fields)
              /\ Len(input[i].fields) \in Nat
  <1>1. input \in Seq(Lines)
    BY Zenon DEF Control
  <1>2. \A i \in DOMAIN input : input[i] \in Lines
    BY <1>1
  <1>3. \A l \in Lines :
          /\ l.addr \in Addr \union {NULL} /\ l.name \in Name /\ l.of \in Name
          /\ l.fields \in Seq([kind : {"range", "migrating", "importing"}, range : Int \X Int])
    BY TopologyAssumption, Zenon
  <1>4. \A l \in Lines : Len(l.fields) \in Nat /\ DOMAIN l.fields = 1 .. Len(l.fields)
    BY <1>3
  <1> QED
    BY <1>1, <1>2, <1>3, <1>4

LEMMA InDictIs ==
  ASSUME AllInv, DictRead, parser = "nodes"
  PROVE  \A i \in DOMAIN input :
           InDict(i) => <<i, 1>> \in Masters /\ <<i, 1>> \in Made /\ <<i, 1>> # NULL
  <1>1. ASSUME NEW i \in DOMAIN input, InDict(i)
        PROVE  <<i, 1>> \in Masters /\ <<i, 1>> \in Made /\ <<i, 1>> # NULL
    <2>1. input[i].addr \in Addr /\ nodes[input[i].addr] = <<i, 1>>
      BY <1>1, Zenon DEF DictRead
    <2>2. DOMAIN input = 1 .. Len(input) /\ Len(input) \in Nat
      BY LinesAre, Zenon DEF AllInv, Inv
    <2>3. <<i, 1>> # NULL
      BY <2>2, NullIsNoNode DEF Node
    <2>4. <<i, 1>> \in Masters
      BY <2>1, <2>3, Zenon DEF Masters
    <2> QED
      BY <2>3, <2>4, Zenon DEF Masters, AllInv, Inv, HeapInv, HeapType
  <1> QED
    BY <1>1, Zenon

LEMMA DictStays ==
  ASSUME DictRead, DictLike, UNCHANGED nodes
  PROVE  DictRead'
  <1>1. \A i \in DOMAIN input' : InDict(i)' => input'[i].addr \in Addr /\ nodes'[input'[i].addr] = <<i, 1>>
    BY Zenon DEF DictRead, DictLike, LinesLike
  <1>2. \A a \in Addr : nodes'[a] # NULL =>
          \E i \in DOMAIN input' : InDict(i)' /\ nodes'[a] = <<i, 1>>
    <2> SUFFICES ASSUME NEW a \in Addr, nodes[a] # NULL
                 PROVE  \E i \in DOMAIN input' : InDict(i)' /\ nodes[a] = <<i, 1>>
      BY Zenon
    <2>1. PICK i \in DOMAIN input : InDict(i) /\ nodes[a] = <<i, 1>>
      BY Zenon DEF DictRead
    <2>2. i \in DOMAIN input' /\ InDict(i)'
      BY <2>1, Zenon DEF DictLike, LinesLike
    <2> QED
      BY <2>1, <2>2, Zenon
  <1>3. \A i \in DOMAIN input' : InDict(i)' => input'[i].addr # NULL
    BY Zenon DEF DictRead, DictLike, LinesLike
  <1> QED
    BY <1>1, <1>2, <1>3, Zenon DEF DictRead

(* What the ranges of line i that were read are.                           *)
RangesRead(i) == {k \in DOMAIN input[i].fields : FieldRead(i, k) /\ IsRange(input[i].fields[k])}

LEMMA SlotsStays ==
  ASSUME SlotsRead, DictLike, FieldsLike, UNCHANGED found,
         \A i \in DOMAIN input : InDict(i) => Slots(<<i, 1>>)' = Slots(<<i, 1>>)
  PROVE  SlotsRead'
  <1>1. ASSUME NEW i \in DOMAIN input', InDict(i)'
        PROVE  /\ i \in DOMAIN input /\ InDict(i) /\ input'[i] = input[i]
               /\ RangesRead(i)' = RangesRead(i)
    <2>1. i \in DOMAIN input /\ InDict(i) /\ input'[i] = input[i]
      BY <1>1, Zenon DEF DictLike, LinesLike
    <2>2. RangesRead(i)' = RangesRead(i)
      BY <2>1, Zenon DEF RangesRead, FieldsLike
    <2> QED
      BY <2>1, <2>2, Zenon
  <1>2. ASSUME NEW i \in DOMAIN input', InDict(i)'
        PROVE  Slots(<<i, 1>>)' = {[range |-> input'[i].fields[j].range, of |-> <<i, j>>] :
                                     j \in RangesRead(i)'}
    <2>1. Slots(<<i, 1>>) = {[range |-> input[i].fields[j].range, of |-> <<i, j>>] :
                               j \in RangesRead(i)}
      BY <1>1, <1>2, Zenon DEF SlotsRead, RangesRead
    <2> QED
      BY <1>1, <1>2, <2>1, ZenonT(30)
  <1>3. (\E i \in DOMAIN input' : InDict(i)' /\ RangesRead(i)' # {})
          <=> \E i \in DOMAIN input : InDict(i) /\ RangesRead(i) # {}
    <2>1. \A i \in DOMAIN input : InDict(i) => i \in DOMAIN input' /\ InDict(i)'
      BY Zenon DEF DictLike, LinesLike
    <2> QED
      BY <1>1, <2>1, Zenon
  <1>4. found > 0 <=> \E i \in DOMAIN input : InDict(i) /\ RangesRead(i) # {}
    BY Zenon DEF SlotsRead, RangesRead
  <1>5. found' > 0 <=> \E i \in DOMAIN input' : InDict(i)' /\ RangesRead(i)' # {}
    BY <1>3, <1>4, Zenon
  <1>6. found' > 0 <=> \E i \in DOMAIN input' : \E j \in DOMAIN input'[i].fields :
                         InDict(i)' /\ FieldRead(i, j)' /\ IsRange(input'[i].fields[j])
    BY <1>5, Zenon DEF RangesRead
  <1> QED
    BY <1>2, <1>6, Zenon DEF SlotsRead, RangesRead

LEMMA OpensStays ==
  ASSUME OpensRead, DictLike, FieldsLike, UNCHANGED add_open,
         \A i \in DOMAIN input : InDict(i) =>
           /\ node'[<<i, 1>>].migrating = node[<<i, 1>>].migrating
           /\ node'[<<i, 1>>].importing = node[<<i, 1>>].importing
  PROVE  OpensRead'
  <1>1. ASSUME NEW i \in DOMAIN input', InDict(i)'
        PROVE  /\ i \in DOMAIN input /\ InDict(i)
               /\ \A kind : OpenOnes(i, kind)' = OpenOnes(i, kind)
    <2>1. i \in DOMAIN input /\ InDict(i) /\ input'[i] = input[i]
      BY <1>1, Zenon DEF DictLike, LinesLike
    <2>2. \A kind : OpenOnes(i, kind)' = OpenOnes(i, kind)
      BY <2>1, Zenon DEF OpenOnes, FieldsLike
    <2> QED
      BY <2>1, <2>2, Zenon
  <1> QED
    BY <1>1, Zenon DEF OpensRead

LEMMA NameStays ==
  ASSUME NEW k \in Name, NameRead(k), NameLike(k), nodes_name'[k] = nodes_name[k],
         nodes_name[k] # NULL => /\ node'[nodes_name[k]].role = node[nodes_name[k]].role
                                 /\ Range(node'[nodes_name[k]].slaves) = Slaves(nodes_name[k])
  PROVE  NameRead(k)'
  <1>a. PICK o : o = nodes_name[k]
    BY Zenon
  <1>1. SlaveNodes(k)' = SlaveNodes(k) /\ SlaveListed(k)' = SlaveListed(k)
    BY Zenon DEF SlaveNodes, NameLike
  <1>2. \A i \in DOMAIN input' : MasterNamed(k, i)' <=> (i \in DOMAIN input /\ MasterNamed(k, i))
    BY Zenon DEF NameLike
  <1>3. \A i \in DOMAIN input : i \in DOMAIN input'
    BY Zenon DEF NameLike, LinesLike
  <1>4. CASE /\ o = NULL /\ SlaveListed(k) = {}
             /\ \A i \in DOMAIN input : ~MasterNamed(k, i)
    BY <1>a, <1>1, <1>2, <1>4, ZenonT(30) DEF NameRead
  <1>5. CASE /\ o # NULL /\ node[o].role = "slave" /\ Owned(node, o) = SlaveNodes(k)
             /\ \A i \in DOMAIN input : ~MasterNamed(k, i)
    <2>1. Owned(node', o) = SlaveNodes(k)' /\ node'[o].role = "slave"
      BY <1>a, <1>1, <1>5, ZenonT(30) DEF Owned, Slaves
    <2>2. \A i \in DOMAIN input' : ~MasterNamed(k, i)'
      BY <1>2, <1>5, Zenon
    <2> QED
      BY <1>a, <1>5, <2>1, <2>2, ZenonT(30) DEF NameRead
  <1>6. CASE /\ o # NULL /\ node[o].role = "master" /\ Slaves(o) = SlaveNodes(k)
             /\ \E i \in DOMAIN input : MasterNamed(k, i) /\ o = <<i, 1>>
             /\ \A i \in DOMAIN input : MasterNamed(k, i) => o = <<i, 1>>
    <2>1. Range(node'[o].slaves) = SlaveNodes(k)' /\ node'[o].role = "master"
      BY <1>a, <1>1, <1>6, ZenonT(30)
    <2>2. \E i \in DOMAIN input' : MasterNamed(k, i)' /\ o = <<i, 1>>
      BY <1>2, <1>3, <1>6, ZenonT(30)
    <2>3. \A i \in DOMAIN input' : MasterNamed(k, i)' => o = <<i, 1>>
      BY <1>2, <1>6, Zenon
    <2>4. Slaves(nodes_name[k])' = Range(node'[o].slaves)
      BY <1>a, Zenon DEF Slaves
    <2> QED
      BY <1>a, <1>6, <2>1, <2>2, <2>3, <2>4, ZenonT(30) DEF NameRead
  <1> QED
    BY <1>a, <1>4, <1>5, <1>6, ZenonT(30) DEF NameRead

LEMMA NamesStays ==
  ASSUME HeapInv, NamesRead, UNCHANGED <<add_slave, nodes_name, node>>,
         add_slave => \A k \in Name : NameLike(k)
  PROVE  NamesRead'
  <1>1. ASSUME add_slave, NEW k \in Name PROVE NameRead(k)'
    <2>1. NameRead(k)
      BY <1>1, Zenon DEF NamesRead
    <2> QED
      BY <1>1, <2>1, NameStays, ZenonT(30) DEF Slaves
  <1> QED
    BY <1>1, Zenon DEF NamesRead, Made

(* The steps that leave the nodes alone.                                   *)
LEMMA LinesStay ==
  ASSUME AllInv, LinesRead, parser = "nodes", DictLike, FieldsLike,
         add_slave => \A k \in Name : NameLike(k),
         UNCHANGED <<add_slave, add_open, nodes, nodes_name, node, found>>
  PROVE  DictRead' /\ SlotsRead' /\ OpensRead' /\ NamesRead'
  <1>1. DictRead'
    BY DictStays, Zenon DEF LinesRead
  <1>2. SlotsRead'
    <2>1. \A i : Slots(<<i, 1>>)' = Slots(<<i, 1>>)
      BY Zenon DEF Slots
    <2> QED
      BY <2>1, SlotsStays, Zenon DEF LinesRead
  <1>3. OpensRead'
    BY OpensStays, Zenon DEF LinesRead
  <1>4. NamesRead'
    BY NamesStays, Zenon DEF LinesRead, AllInv, Inv
  <1> QED
    BY <1>1, <1>2, <1>3, <1>4, ZenonT(30)

LEMMA NextLineRead ==
  ASSUME AllInv, LinesInv, NEW l \in Lines, NextLine(l)
  PROVE  LinesInv'
  <1>a. PICK L : L = Len(input)
    BY Zenon
  <1>1. /\ parser = "nodes" /\ parser' = "nodes" /\ pc = "next" /\ LinesRead /\ Control
        /\ UNCHANGED <<add_slave, add_open, nodes, nodes_name, node, found>>
        /\ input' = Append(input, l)
    BY Zenon DEF NextLine, LinesInv, Stopped, AllInv, Inv, config
  <1>2. input \in Seq(Lines)
    BY <1>1, Zenon DEF Control
  <1>3. /\ L \in Nat /\ Len(input') = L + 1
        /\ DOMAIN input = 1 .. L /\ DOMAIN input' = 1 .. L + 1
        /\ input'[L + 1] = l /\ L + 1 \in DOMAIN input'
        /\ \A i \in DOMAIN input : input'[i] = input[i] /\ i < L + 1 /\ i \in DOMAIN input'
        /\ \A i \in DOMAIN input' : i \in DOMAIN input \/ i = L + 1
        /\ ~(L + 1 < L + 1)
    <2>1. input' \in Seq(Lines) /\ Len(input) \in Nat /\ Len(input') = Len(input) + 1
          /\ Item' = l /\ \A i \in 1 .. Len(input) : input'[i] = input[i]
      BY <1>1, <1>2, InputAppended, Zenon
    <2>2. DOMAIN input = 1 .. L /\ DOMAIN input' = 1 .. L + 1
      BY <1>2, <1>a, <2>1
    <2>3. /\ \A i \in 1 .. L : i < L + 1 /\ i \in 1 .. L + 1
          /\ \A i \in 1 .. L + 1 : i \in 1 .. L \/ i = L + 1
          /\ ~(L + 1 < L + 1) /\ L + 1 \in 1 .. L + 1
      BY <1>a, <2>1
    <2> QED
      BY <1>a, <2>1, <2>2, <2>3, ZenonT(30) DEF Item
  <1>4. CASE l.role = "short"
    <2>1. BadLines'
      <3>1. L + 1 \in {i \in DOMAIN input' : input'[i].role = "short"}
        BY <1>3, <1>4, Zenon
      <3> QED
        BY <3>1, Zenon DEF BadLines, Items
    <2>2. pc' = "error"
      BY <1>4, Zenon DEF NextLine, GiveUp
    <2> QED
      BY <2>1, <2>2, Zenon DEF LinesInv, Stopped
  <1>5. CASE l.role # "short"
    <2>1. /\ pc' \in {"next", "master", "slave"}
          /\ l.role = "master" => pc' = "master"
          /\ l.role = "slave" /\ add_slave => pc' = "slave"
      <3>1. CASE l.role = "master"
        BY <3>1, ZenonT(30) DEF NextLine
      <3>2. CASE l.role = "slave" /\ add_slave
        BY <3>2, Zenon DEF NextLine
      <3>3. CASE l.role # "master" /\ ~(l.role = "slave" /\ add_slave)
        BY <1>1, <1>5, <3>3, ZenonT(30) DEF NextLine
      <3> QED
        BY <3>1, <3>2, <3>3, Zenon
    <2>2. LinesLike
      BY <1>3, Zenon DEF LinesLike
    <2>3. \A i \in DOMAIN input : (IsMaster(i)' <=> IsMaster(i)) /\ (IsSlave(i)' <=> IsSlave(i))
      BY <1>3, Zenon DEF IsMaster, IsSlave
    <2>4. /\ IsMaster(L + 1)' <=> l.role = "master"
          /\ IsSlave(L + 1)' <=> l.role = "slave"
      BY <1>3, Zenon DEF IsMaster, IsSlave
    <2>5. DictLike
      <3>1. \A i \in DOMAIN input : InDict(i)' <=> InDict(i)
        BY <1>1, <1>3, <2>3, Zenon DEF InDict
      <3>2. ~InDict(L + 1)'
        BY <1>3, <2>1, <2>4, ZenonT(30) DEF InDict
      <3>3. L + 1 \notin DOMAIN input
        BY <1>3, Zenon
      <3> QED
        BY <1>3, <2>2, <3>1, <3>2, <3>3 DEF DictLike
    <2>6. FieldsLike
      <3>1. \A i \in DOMAIN input : \A j : FieldRead(i, j)' <=> j \in DOMAIN input[i].fields
        BY <1>3, Zenon DEF FieldRead
      <3>2. \A i \in DOMAIN input : \A j : FieldRead(i, j) <=> j \in DOMAIN input[i].fields
        BY <1>1, ZenonT(30) DEF FieldRead
      <3> QED
        BY <3>1, <3>2, ZenonT(30) DEF FieldsLike
    <2>7. ASSUME add_slave, NEW k \in Name PROVE NameLike(k)
      <3>1. \A i \in DOMAIN input : MasterNamed(k, i)' <=> MasterNamed(k, i)
        BY <1>1, <1>3, <2>3, ZenonT(30) DEF MasterNamed
      <3>2. ~MasterNamed(k, L + 1)' /\ L + 1 \notin DOMAIN input
        BY <1>3, <2>1, <2>4, Zenon DEF MasterNamed
      <3>3. \A i \in DOMAIN input : i \in SlaveListed(k)' <=> i \in SlaveListed(k)
        BY <1>1, <1>3, <2>3, ZenonT(30) DEF SlaveListed
      <3>4. L + 1 \notin SlaveListed(k)'
        BY <1>3, <2>1, <2>4, <2>7, Zenon DEF SlaveListed
      <3>5. SlaveListed(k)' \subseteq DOMAIN input' /\ SlaveListed(k) \subseteq DOMAIN input
        BY ZenonT(30) DEF SlaveListed
      <3>6. SlaveListed(k)' = SlaveListed(k)
        BY <1>3, <3>3, <3>4, <3>5, Zenon
      <3> QED
        BY <1>3, <2>2, <3>1, <3>2, <3>6, ZenonT(30) DEF NameLike
    <2>8. DictRead' /\ SlotsRead' /\ OpensRead' /\ NamesRead'
      BY <1>1, <2>5, <2>6, <2>7, LinesStay
    <2>9. LinesGood'
      <3>1. \A i \in DOMAIN input' : input'[i].role # "short"
        BY <1>1, <1>3, <1>5, ZenonT(30) DEF LinesRead, LinesGood
      <3>2. \A i \in DOMAIN input : add_slave /\ IsSlave(i) => input[i].addr # NULL
        BY <1>1, Zenon DEF LinesRead, LinesGood
      <3>3. add_slave /\ IsSlave(L + 1)' => pc' = "slave"
        BY <2>1, <2>4, ZenonT(30)
      <3>4. ASSUME NEW i \in DOMAIN input', add_slave, IsSlave(i)', i < Len(input') \/ pc' # "slave"
            PROVE  input'[i].addr # NULL
        <4>1. i \in DOMAIN input
          BY <1>3, <3>3, <3>4, ZenonT(30)
        <4> QED
          BY <1>3, <2>3, <3>2, <3>4, <4>1, ZenonT(30)
      <3> QED
        BY <1>1, <3>1, <3>4, Zenon DEF LinesGood
    <2>10. LinesRead'
      BY <2>8, <2>9, Zenon DEF LinesRead
    <2> QED
      BY <2>1, <2>10, ZenonT(30) DEF LinesInv, Stopped
  <1> QED
    BY <1>4, <1>5, Zenon

(* Two master lines of one address, or of one name.                        *)
LEMMA BadPair ==
  ASSUME NEW i, NEW j, IsMaster(i), IsMaster(j), i # j,
         \/ input[i].addr = input[j].addr
         \/ add_slave /\ input[i].name = input[j].name
  PROVE  BadLines
  <1>1. i \in MasterLines /\ j \in MasterLines
    BY Zenon DEF IsMaster, MasterLines, Items
  <1> QED
    BY <1>1, ZenonT(30) DEF BadLines

LEMMA BadAddress ==
  ASSUME NEW i, i \in DOMAIN input, input[i].addr = NULL,
         IsMaster(i) \/ (IsSlave(i) /\ add_slave)
  PROVE  BadLines
  BY ZenonT(30) DEF BadLines, Items, IsMaster, IsSlave

(* Where the parser is in a master's line.                                 *)
LEMMA AtLine ==
  ASSUME AllInv, LinesInv, pc \in {"master", "map", "fields", "slave"}
  PROVE  /\ parser = "nodes" /\ LinesRead /\ Control /\ HeapInv
         /\ Len(input) \in Nat \ {0} /\ DOMAIN input = 1 .. Len(input)
         /\ Len(input) \in DOMAIN input /\ Item = input[Len(input)]
         /\ ~(Len(input) < Len(input))
         /\ \A i \in DOMAIN input : i # Len(input) => i < Len(input)
         /\ pc # "slave" => IsMaster(Len(input)) /\ ~IsSlave(Len(input))
         /\ pc = "slave" => IsSlave(Len(input)) /\ ~IsMaster(Len(input)) /\ add_slave
  <1>1. parser = "nodes" /\ Control /\ input # <<>> /\ HeapInv
    BY ZenonT(30) DEF AllInv, Inv, Control
  <1>2. Len(input) \in Nat \ {0} /\ DOMAIN input = 1 .. Len(input)
    BY <1>1, ItemIs, Zenon
  <1>3. Len(input) \in DOMAIN input /\ Item = input[Len(input)]
        /\ ~(Len(input) < Len(input)) /\ \A i \in DOMAIN input : i # Len(input) => i < Len(input)
    BY <1>2 DEF Item
  <1>4. LinesRead
    BY <1>1, Zenon DEF LinesInv, Stopped
  <1>5. /\ pc # "slave" => Item.role = "master"
        /\ pc = "slave" => Item.role = "slave" /\ add_slave
    BY Zenon DEF AllInv, Inv, Control
  <1> QED
    BY <1>1, <1>2, <1>3, <1>4, <1>5, ZenonT(30) DEF IsMaster, IsSlave

LEMMA AddMasterRead ==
  ASSUME AllInv, LinesInv, AddMaster
  PROVE  LinesInv'
  <1>a. PICK n, a, L : n = <<L, 1>> /\ a = Item.addr /\ L = Len(input)
    BY Zenon
  <1>1. /\ pc = "master" /\ parser = "nodes" /\ LinesRead /\ Control /\ HeapInv /\ pos = 1
        /\ L \in Nat \ {0} /\ DOMAIN input = 1 .. L /\ L \in DOMAIN input /\ Item = input[L]
        /\ ~(L < L) /\ IsMaster(L) /\ ~IsSlave(L) /\ \A i \in DOMAIN input : i # L => i < L
    BY <1>a, AtLine, Zenon DEF AddMaster, AllInv, Inv, Control
  <1>2. ASSUME UNCHANGED <<config, input>>, pc' = "error", BadLines PROVE LinesInv'
    <2>1. BadLines'
      BY <1>2, BadStays, ZenonT(30) DEF config
    <2> QED
      BY <1>2, <2>1, Zenon DEF LinesInv, Stopped
  <1>3. ASSUME a = NULL, node_get_fails("reply") PROVE LinesInv'
    <2>1. BadLines
      BY <1>1, <1>3, <1>a, BadAddress, ZenonT(30)
    <2> QED
      BY <1>2, <1>3, <2>1, Zenon DEF node_get_fails, GiveUp
  <1>4. ASSUME a # NULL, nodes[a] # NULL, GiveUp("reply"), UNCHANGED <<config, input>>
        PROVE  LinesInv'
    <2>1. a \in Addr
      BY <1>a, <1>1, <1>4, LinesAre, ZenonT(30)
    <2>2. PICK i \in DOMAIN input : InDict(i) /\ nodes[a] = <<i, 1>>
      BY <1>1, <1>4, <2>1, Zenon DEF LinesRead, DictRead
    <2>3. i # L /\ IsMaster(i)
      BY <1>1, <1>a, <2>2, ZenonT(30) DEF InDict
    <2>4. input[i].addr \in Addr /\ nodes[input[i].addr] = <<i, 1>>
      BY <1>1, <2>2, Zenon DEF LinesRead, DictRead
    <2>5. input[i].addr = a
      BY <1>1, <1>4, <2>1, <2>2, <2>4, EntriesDiffer, Zenon
    <2>6. BadLines
      BY <1>1, <1>a, <2>3, <2>5, BadPair, Zenon
    <2> QED
      BY <1>2, <1>4, <2>6, Zenon DEF GiveUp
  <1>5. ASSUME a # NULL, nodes[a] = NULL, nodes' = [nodes EXCEPT ![a] = n],
               node' = With(n, NewNode("master", a)),
               pc' = IF add_slave THEN "map" ELSE "fields",
               UNCHANGED <<config, input, pos, nodes_name, found, failed>>
        PROVE  LinesInv'
    <2>0. /\ UNCHANGED <<parser, add_slave, add_open>> /\ pc' \in {"map", "fields"}
          /\ Len(input') = L /\ (add_slave => pc' = "map")
      BY <1>5, <1>a, Zenon DEF config
    <2>1. a \in Addr /\ n \notin Made /\ n \in Node
      <3>1. a \in Addr
        BY <1>a, <1>1, <1>5, LinesAre, Zenon
      <3>2. \A x \in Made : x[1] < Len(input)
        BY <1>1, Zenon DEF AllInv, Inv, NewNames, Before
      <3>3. n[1] = L
        BY <1>a, Zenon
      <3>4. n \in Node
        BY <1>a, <1>1 DEF Node
      <3> QED
        BY <1>a, <1>1, <3>1, <3>2, <3>3, <3>4, ZenonT(30)
    <2>2. /\ Made' = Made \union {n}
          /\ \A x \in Made : node'[x] = node[x]
          /\ node'[n] = NewNode("master", a)
      BY <1>5, <2>1, Zenon DEF With, Made
    <2>3. /\ node'[n].slots = <<>> /\ node'[n].slaves = <<>>
          /\ node'[n].migrating = <<>> /\ node'[n].importing = <<>>
      BY <2>2 DEF NewNode
    <2>4. /\ nodes'[a] = n /\ \A b \in Addr : b # a => nodes'[b] = nodes[b]
      BY <1>1, <1>5, <2>1, Zenon DEF HeapInv, HeapType
    <2>5. /\ \A i : IsMaster(i)' <=> IsMaster(i)
          /\ \A i : IsSlave(i)' <=> IsSlave(i)
      BY <1>5, Zenon DEF IsMaster, IsSlave
    <2>6. \A i \in DOMAIN input : /\ InDict(i)' <=> (InDict(i) \/ i = L)
                                  /\ InDict(i) => i < L /\ i # L
      BY <1>1, <1>a, <2>0, <2>5, Zenon DEF InDict
    <2>7. \A i \in DOMAIN input : i < L => \A j : FieldRead(i, j)' <=> FieldRead(i, j)
      BY <1>5, <1>a, <2>0, ZenonT(30) DEF FieldRead
    <2>8. \A j : ~FieldRead(L, j)'
      <3>1. \A j \in DOMAIN input[L].fields : ~(j < pos)
        <4>1. DOMAIN input[L].fields = 1 .. Len(input[L].fields) /\ Len(input[L].fields) \in Nat
          BY <1>1, LinesAre, Zenon
        <4> QED
          BY <1>1, <4>1
      <3> QED
        BY <1>1, <1>5, <2>0, <3>1, Zenon DEF FieldRead
    <2>9. \A i \in DOMAIN input : InDict(i) => <<i, 1>> \in Made
      BY <1>1, InDictIs, Zenon DEF LinesRead
    <2>10. DictRead'
      <3>1. \A i \in DOMAIN input : InDict(i)' => input[i].addr \in Addr /\ nodes'[input[i].addr] = <<i, 1>>
        <4>1. ASSUME NEW i \in DOMAIN input, InDict(i)
              PROVE  input[i].addr \in Addr /\ nodes'[input[i].addr] = <<i, 1>>
          <5>1. input[i].addr \in Addr /\ nodes[input[i].addr] = <<i, 1>> /\ <<i, 1>> # NULL
            BY <1>1, <4>1, InDictIs, Zenon DEF LinesRead, DictRead
          <5> QED
            BY <1>5, <2>4, <5>1, ZenonT(30)
        <4> QED
          BY <1>a, <1>1, <2>1, <2>4, <2>6, <4>1, ZenonT(30)
      <3>3. \A i \in DOMAIN input : InDict(i)' => input[i].addr # NULL
        BY <1>a, <1>1, <1>5, <2>6 DEF LinesRead, DictRead
      <3>2. ASSUME NEW b \in Addr, nodes'[b] # NULL
            PROVE  \E i \in DOMAIN input : InDict(i)' /\ nodes'[b] = <<i, 1>>
        <4>1. CASE b = a
          BY <1>a, <1>1, <2>4, <2>6, <4>1
        <4>2. CASE b # a
          <5>1. PICK i \in DOMAIN input : InDict(i) /\ nodes[b] = <<i, 1>>
            BY <1>1, <2>4, <3>2, <4>2, ZenonT(30) DEF LinesRead, DictRead
          <5> QED
            BY <2>4, <2>6, <4>2, <5>1, Zenon
        <4> QED
          BY <4>1, <4>2, Zenon
      <3> QED
        BY <1>5, <3>1, <3>2, <3>3 DEF DictRead
    <2>11. SlotsRead'
      <3>1. ASSUME NEW i \in DOMAIN input, InDict(i)
            PROVE  RangesRead(i)' = RangesRead(i)
        BY <1>5, <2>6, <2>7, <3>1, ZenonT(30) DEF RangesRead
      <3>2. RangesRead(L)' = {}
        BY <2>8, Zenon DEF RangesRead
      <3>3. ASSUME NEW i \in DOMAIN input, InDict(i)'
            PROVE  Slots(<<i, 1>>)' = {[range |-> input[i].fields[j].range, of |-> <<i, j>>] :
                                         j \in RangesRead(i)'}
        <4>1. CASE InDict(i)
          <5>1. Slots(<<i, 1>>) = {[range |-> input[i].fields[j].range, of |-> <<i, j>>] :
                                     j \in RangesRead(i)}
            BY <1>1, <4>1, ZenonT(30) DEF LinesRead, SlotsRead, RangesRead
          <5>2. Slots(<<i, 1>>)' = Slots(<<i, 1>>)
            BY <2>2, <2>9, <4>1, Zenon DEF Slots
          <5> QED
            BY <3>1, <4>1, <5>1, <5>2, Zenon
        <4>2. CASE i = L
          <5>1. Slots(<<L, 1>>)' = {}
            BY <1>a, <2>3, EmptyList, Zenon DEF Slots
          <5> QED
            BY <3>2, <4>2, <5>1, ZenonT(30)
        <4> QED
          BY <2>6, <3>3, <4>1, <4>2
      <3>4. found > 0 <=> \E i \in DOMAIN input : InDict(i) /\ RangesRead(i) # {}
        BY <1>1, ZenonT(30) DEF LinesRead, SlotsRead, RangesRead
      <3>5. found > 0 <=> \E i \in DOMAIN input : InDict(i)' /\ RangesRead(i)' # {}
        BY <2>6, <3>1, <3>2, <3>4, ZenonT(30)
      <3>6. found' > 0 <=> \E i \in DOMAIN input : \E j \in DOMAIN input[i].fields :
                             InDict(i)' /\ FieldRead(i, j)' /\ IsRange(input[i].fields[j])
        BY <1>5, <3>5, ZenonT(30) DEF RangesRead
      <3>7. input' = input
        BY <1>5, Zenon
      <3> QED
        BY <3>3, <3>6, <3>7, Zenon DEF SlotsRead, RangesRead
    <2>12. OpensRead'
      <3>1. ASSUME add_open, NEW i \in DOMAIN input, InDict(i)'
            PROVE  /\ IsListOf(node'[<<i, 1>>].migrating, OpenOnes(i, "migrating")')
                   /\ IsListOf(node'[<<i, 1>>].importing, OpenOnes(i, "importing")')
        <4>1. CASE InDict(i)
          <5>1. \A kind : OpenOnes(i, kind)' = OpenOnes(i, kind)
            BY <1>5, <2>6, <2>7, <4>1, Zenon DEF OpenOnes
          <5> QED
            BY <1>1, <2>2, <2>9, <3>1, <4>1, <5>1 DEF LinesRead, OpensRead
        <4>2. CASE i = L
          <5>1. \A kind : OpenOnes(L, kind)' = {}
            BY <2>8, Zenon DEF OpenOnes
          <5>2. IsListOf(<<>>, {})
            BY EmptyList, ZenonT(30) DEF IsListOf
          <5> QED
            BY <1>a, <2>3, <4>2, <5>1, <5>2, ZenonT(30)
        <4> QED
          BY <2>6, <3>1, <4>1, <4>2, Zenon
      <3> QED
        BY <1>5, <2>0, <3>1 DEF OpensRead
    <2>13. NamesRead'
      <3>1. ASSUME add_slave, NEW k \in Name PROVE NameRead(k)'
        <4>1. SlaveListed(k)' = SlaveListed(k)
          BY <1>1, <1>5, <2>0, <2>5, Zenon DEF SlaveListed
        <4>2. \A i \in DOMAIN input : MasterNamed(k, i)' <=> MasterNamed(k, i)
          BY <1>1, <1>5, <2>0, <2>5, <3>1 DEF MasterNamed
        <4>3. NameLike(k)
          BY <1>5, <4>1, <4>2, Zenon DEF NameLike, LinesLike
        <4>4. nodes_name[k] # NULL => nodes_name[k] \in Made
          BY <1>1, ZenonT(30) DEF HeapInv, HeapType
        <4>5. NameRead(k)
          BY <1>1, <3>1, ZenonT(30) DEF LinesRead, NamesRead
        <4> QED
          BY <1>5, <2>2, <4>3, <4>4, <4>5, NameStays DEF Slaves
      <3>2. ASSUME ~add_slave PROVE \A x \in Made' : node'[x].slaves = <<>>
        BY <1>1, <2>2, <2>3, <3>2 DEF LinesRead, NamesRead
      <3> QED
        BY <2>0, <3>1, <3>2, ZenonT(30) DEF NamesRead
    <2>14. LinesGood'
      BY <1>1, <1>5, <2>0, <2>5, Zenon DEF LinesRead, LinesGood
    <2>15. LinesRead'
      BY <2>10, <2>11, <2>12, <2>13, <2>14, ZenonT(30) DEF LinesRead
    <2> QED
      BY <2>0, <2>15, ZenonT(30) DEF LinesInv, Stopped
  <1>6. ASSUME pc' = "error", failed' = "memory", UNCHANGED <<config, input>> PROVE LinesInv'
    BY <1>6, LinesNoMemory, Zenon DEF config
  <1> QED
    BY <1>a, <1>3, <1>4, <1>5, <1>6, Zenon DEF AddMaster, node_get_fails, GiveUp

LEMMA MapMasterRead ==
  ASSUME AllInv, LinesInv, MapMaster
  PROVE  LinesInv'
  <1>a. PICK k, m, L, old : k = Item.name /\ m = master /\ L = Len(input) /\ old = nodes_name[k]
    BY ZenonT(30)
  <1>1. /\ pc = "map" /\ parser = "nodes" /\ LinesRead /\ Control /\ HeapInv
        /\ L \in Nat \ {0} /\ DOMAIN input = 1 .. L /\ L \in DOMAIN input /\ Item = input[L]
        /\ ~(L < L) /\ IsMaster(L) /\ ~IsSlave(L) /\ \A i \in DOMAIN input : i # L => i < L
    BY <1>a, AtLine, Zenon DEF MapMaster
  <1>2. /\ m \in Masters /\ m = <<L, 1>> /\ IsUnnamed(m) /\ add_slave
        /\ k \in Name /\ input[L].name = k
    BY <1>a, <1>1, LinesAre, Zenon DEF AllInv, Inv, AtMaster
  <1>3. m \in Made /\ m # NULL /\ node[m].role = "master" /\ Slaves(m) = {}
    <2>1. Slaves(m) = Range(<<>>)
      BY <1>2, Zenon DEF IsUnnamed, Slaves
    <2> QED
      BY <1>1, <1>2, <2>1, EmptyList, MasterIs, Zenon
  <1>4. UNCHANGED <<parser, add_slave, add_open, input, pos, nodes, found>>
    BY Zenon DEF MapMaster, config
  <1>5. NameRead(k) /\ \A j \in Name : NameRead(j)
    BY <1>1, <1>2, Zenon DEF LinesRead, NamesRead
  \* The mapping succeeds: the master is known by its name.
  <1>6. ASSUME pc' = "fields", SameButLists, Made' = Made,
               nodes_name' = [nodes_name EXCEPT ![k] = m],
               \A x \in Made : x # m /\ x # old => Slaves(x)' = Slaves(x),
               Slaves(m)' = SlaveNodes(k),
               \A i \in DOMAIN input : ~MasterNamed(k, i)
        PROVE  LinesInv'
    <2>1. Len(input') = L /\ (\A i : IsMaster(i)' <=> IsMaster(i)) /\ \A i : IsSlave(i)' <=> IsSlave(i)
      BY <1>a, <1>4, Zenon DEF IsMaster, IsSlave
    <2>2. DictLike
      BY <1>1, <1>4, <1>6, <2>1, ZenonT(30) DEF DictLike, LinesLike, InDict
    <2>3. FieldsLike
      BY <1>1, <1>4, <1>6, Zenon DEF FieldsLike, FieldRead
    <2>4. \A i \in DOMAIN input : InDict(i) => <<i, 1>> \in Made
      BY <1>1, InDictIs, ZenonT(30) DEF LinesRead
    <2>5. DictRead'
      BY <1>1, <1>4, <2>2, DictStays, Zenon DEF LinesRead
    <2>6. SlotsRead'
      BY <1>1, <1>4, <1>6, <2>2, <2>3, <2>4, SlotsStays, ZenonT(30) DEF LinesRead, SameButLists
    <2>7. OpensRead'
      BY <1>1, <1>4, <1>6, <2>2, <2>3, <2>4, OpensStays, ZenonT(30) DEF LinesRead, SameButLists
    <2>8. \A j \in Name : SlaveListed(j)' = SlaveListed(j)
      BY <1>1, <1>4, <1>6, <2>1, ZenonT(30) DEF SlaveListed
    <2>9. /\ nodes_name'[k] = m
          /\ \A j \in Name : j # k => nodes_name'[j] = nodes_name[j]
      BY <1>1, <1>2, <1>6, Zenon DEF HeapInv, HeapType
    <2>10. \A j : \A i \in DOMAIN input :
             MasterNamed(j, i)' <=> (MasterNamed(j, i) \/ (i = L /\ j = k))
      <3>1. \A j : \A i \in DOMAIN input : MasterNamed(j, i)' <=> (IsMaster(i) /\ input[i].name = j)
        BY <1>4, <1>6, <2>1, Zenon DEF MasterNamed
      <3>2. \A j : \A i \in DOMAIN input :
              MasterNamed(j, i) <=> (IsMaster(i) /\ input[i].name = j /\ i # L)
        BY <1>a, <1>1, Zenon DEF MasterNamed
      <3> QED
        BY <1>1, <1>2, <3>1, <3>2
    <2>11. ASSUME NEW j \in Name, j # k PROVE NameRead(j)'
      <3>1. NameLike(j)
        BY <1>4, <2>8, <2>10, <2>11 DEF NameLike, LinesLike
      <3>2. nodes_name[j] # NULL => /\ nodes_name[j] \in Made /\ nodes_name[j] # m
                                    /\ nodes_name[j] # old
        BY <1>a, <1>1, <1>2, <2>11, ZenonT(30) DEF HeapInv, HeapType, NamesHeld, IsUnnamed
      <3>a. PICK o : o = nodes_name[j]
        BY ZenonT(30)
      <3>3. o # NULL => /\ node'[o].role = node[o].role
                        /\ Range(node'[o].slaves) = Slaves(o)
        BY <1>6, <3>2, <3>a, ZenonT(30) DEF SameButLists, Slaves
      <3> QED
        BY <1>5, <2>9, <2>11, <3>1, <3>3, <3>a, NameStays, ZenonT(30)
    <2>12. NameRead(k)'
      <3>1. node'[m].role = "master"
        BY <1>3, <1>6, Zenon DEF SameButLists
      <3>2. SlaveNodes(k)' = SlaveNodes(k)
        BY <1>2, <2>8, Zenon DEF SlaveNodes
      <3>3. Slaves(nodes_name[k])' = Slaves(m)'
        BY <2>9, Zenon DEF Slaves
      <3>4. \A i \in DOMAIN input' : MasterNamed(k, i)' <=> i = L
        BY <1>1, <1>4, <1>6, <2>10, ZenonT(30)
      <3>5. \E i \in DOMAIN input' : MasterNamed(k, i)' /\ m = <<i, 1>>
        BY <1>1, <1>2, <1>4, <3>4, Zenon
      <3>6. \A i \in DOMAIN input' : MasterNamed(k, i)' => m = <<i, 1>>
        BY <1>2, <3>4, ZenonT(30)
      <3> QED
        BY <1>3, <1>6, <2>9, <3>1, <3>2, <3>3, <3>5, <3>6, ZenonT(30) DEF NameRead
    <2>13. NamesRead'
      BY <1>2, <1>4, <2>11, <2>12, Zenon DEF NamesRead
    <2>14. LinesGood'
      BY <1>1, <1>4, <1>6, <2>1, Zenon DEF LinesRead, LinesGood
    <2>15. LinesRead'
      BY <2>5, <2>6, <2>7, <2>13, <2>14, Zenon DEF LinesRead
    <2> QED
      BY <1>6, <2>15, Zenon DEF LinesInv, Stopped
  <1>7. ASSUME old = NULL, nodes_name' = [nodes_name EXCEPT ![k] = master],
               pc' = "fields", UNCHANGED node
        PROVE  LinesInv'
    <2>1. SlaveListed(k) = {} /\ \A i \in DOMAIN input : ~MasterNamed(k, i)
      BY <1>a, <1>5, <1>7, ZenonT(30) DEF NameRead
    <2>2. SlaveNodes(k) = {}
      BY <2>1, ZenonT(30) DEF SlaveNodes
    <2>3. SameButLists /\ Made' = Made /\ \A x : Slaves(x)' = Slaves(x)
      BY <1>7, ZenonT(30) DEF SameButLists, Made, Slots, Slaves
    <2> QED
      BY <1>3, <1>6, <1>7, <1>a, <2>1, <2>2, <2>3, ZenonT(30)
  <1>8. ASSUME old # NULL, node[old].role = "slave",
               nodes_name' = [nodes_name EXCEPT ![k] = master],
               node' = [TakeOver(master, old, Len(node[old].slaves)) EXCEPT
                         ![master].slaves = <<old>> \o @],
               pc' = "fields"
        PROVE  LinesInv'
    <2>1. TakesAll(m, k)
      BY <1>a, <1>2, <1>4, <1>8, ZenonT(30) DEF TakesAll
    <2>2. /\ Made' = Made /\ SameButLists /\ Slaves(m)' = {old} \union Slaves(old)
          /\ \A x \in Made : x # m /\ x # old => Slaves(x)' = Slaves(x)
      BY <1>a, <1>1, <2>1, TakesAllSafe
    <2>3. Owned(node, old) = SlaveNodes(k) /\ \A i \in DOMAIN input : ~MasterNamed(k, i)
      BY <1>a, <1>5, <1>8, ZenonT(30) DEF NameRead
    <2>4. Slaves(m)' = SlaveNodes(k)
      BY <2>2, <2>3, Zenon DEF Owned, Slaves
    <2> QED
      BY <1>6, <1>8, <1>a, <2>2, <2>3, <2>4, ZenonT(30)
  <1>9. ASSUME old # NULL, node[old].role = "master", GiveUp("map_reply") PROVE LinesInv'
    <2>1. PICK i \in DOMAIN input : MasterNamed(k, i)
      BY <1>a, <1>5, <1>9, ZenonT(30) DEF NameRead
    <2>2. IsMaster(i) /\ input[i].name = k /\ i # L
      BY <1>a, <1>1, <2>1, Zenon DEF MasterNamed
    <2>3. BadLines
      BY <1>1, <1>2, <2>2, BadPair, ZenonT(30)
    <2>4. BadLines'
      BY <1>4, <2>3, BadStays, Zenon
    <2> QED
      BY <1>9, <2>4, Zenon DEF LinesInv, Stopped, GiveUp
  <1>10. ASSUME GiveUp("map_memory") PROVE LinesInv'
    BY <1>4, <1>10, LinesNoMemory, ZenonT(30) DEF GiveUp
  <1> QED
    BY <1>a, <1>7, <1>8, <1>9, <1>10, ZenonT(30) DEF MapMaster, GiveUp

LEMMA EndOfLineRead ==
  ASSUME AllInv, LinesInv, EndOfLine
  PROVE  LinesInv'
  <1>a. PICK L : L = Len(input)
    BY Zenon
  <1>1. /\ pc = "fields" /\ parser = "nodes" /\ LinesRead /\ Control /\ HeapInv
        /\ L \in Nat \ {0} /\ DOMAIN input = 1 .. L /\ L \in DOMAIN input /\ Item = input[L]
        /\ ~(L < L) /\ IsMaster(L) /\ ~IsSlave(L) /\ \A i \in DOMAIN input : i # L => i < L
    BY <1>a, AtLine, Zenon DEF EndOfLine
  <1>2. /\ UNCHANGED <<parser, add_slave, add_open, input, nodes, nodes_name, node, found, failed>>
        /\ pc' = "next" /\ pos > Len(Item.fields) /\ pos \in Nat
    BY <1>1, ZenonT(30) DEF EndOfLine, config, Control
  <1>3. Len(input') = L /\ (\A i : IsMaster(i)' <=> IsMaster(i)) /\ \A i : IsSlave(i)' <=> IsSlave(i)
    BY <1>a, <1>2, Zenon DEF IsMaster, IsSlave
  <1>4. DictLike
    BY <1>1, <1>2, <1>3, ZenonT(30) DEF DictLike, LinesLike, InDict
  <1>5. FieldsLike
    <2>1. \A j \in DOMAIN input[L].fields : j < pos
      <3>1. DOMAIN input[L].fields = 1 .. Len(input[L].fields) /\ Len(input[L].fields) \in Nat
        BY <1>1, LinesAre, Zenon
      <3> QED
        BY <1>1, <1>2, <3>1
    <2>2. \A i \in DOMAIN input : \A j : FieldRead(i, j)' <=> j \in DOMAIN input[i].fields
      BY <1>2, Zenon DEF FieldRead
    <2>3. \A i \in DOMAIN input : \A j : FieldRead(i, j) <=> j \in DOMAIN input[i].fields
      BY <1>1, <1>a, <2>1, ZenonT(30) DEF FieldRead
    <2> QED
      BY <2>2, <2>3, Zenon DEF FieldsLike
  <1>6. ASSUME NEW k \in Name PROVE NameLike(k)
    <2>1. SlaveListed(k)' = SlaveListed(k)
      BY <1>1, <1>2, <1>3, ZenonT(30) DEF SlaveListed
    <2>2. \A i : MasterNamed(k, i)' <=> MasterNamed(k, i)
      BY <1>1, <1>2, <1>3, Zenon DEF MasterNamed
    <2> QED
      BY <1>2, <2>1, <2>2, Zenon DEF NameLike, LinesLike
  <1>7. DictRead' /\ SlotsRead' /\ OpensRead' /\ NamesRead'
    BY <1>1, <1>2, <1>4, <1>5, <1>6, LinesStay
  <1>8. LinesGood'
    BY <1>1, <1>2, <1>3, Zenon DEF LinesRead, LinesGood
  <1>9. LinesRead'
    BY <1>7, <1>8 DEF LinesRead
  <1> QED
    BY <1>2, <1>9, Zenon DEF LinesInv, Stopped

(* One more field of the last line has been read.                          *)
LEMMA FieldsRead ==
  ASSUME AllInv, LinesInv, pc = "fields", pos \in Nat, pos <= Len(Item.fields),
         pc' = pc, pos' = pos + 1, UNCHANGED input
  PROVE  /\ pos \in DOMAIN Item.fields
         /\ \A i \in DOMAIN input : i # Len(input) =>
              \A j : FieldRead(i, j)' <=> FieldRead(i, j)
         /\ \A j : FieldRead(Len(input), j)' <=> (FieldRead(Len(input), j) \/ j = pos)
         /\ ~FieldRead(Len(input), pos)
  <1>a. PICK L : L = Len(input)
    BY Zenon
  <1>1. /\ parser = "nodes" /\ Control /\ L \in DOMAIN input /\ Item = input[L] /\ ~(L < L)
        /\ \A i \in DOMAIN input : i # L => i < L
    BY <1>a, AtLine, Zenon
  <1>2. pos > 0
    BY DEF AllInv, Inv, Control
  <1>3. DOMAIN input[L].fields = 1 .. Len(input[L].fields) /\ Len(input[L].fields) \in Nat
    BY <1>1, LinesAre, Zenon
  <1>4. pos \in DOMAIN input[L].fields
    BY <1>1, <1>2, <1>3
  <1>5. \A j : FieldRead(L, j) <=> j \in DOMAIN input[L].fields /\ j < pos
    BY <1>1, <1>a, Zenon DEF FieldRead
  <1>6. \A j : FieldRead(L, j)' <=> j \in DOMAIN input[L].fields /\ j < pos + 1
    BY <1>1, <1>a, Zenon DEF FieldRead
  <1>7. \A j \in DOMAIN input[L].fields : j < pos + 1 <=> (j < pos \/ j = pos)
    BY <1>3
  <1>8. \A i \in DOMAIN input : i # L => \A j : FieldRead(i, j)' <=> FieldRead(i, j)
    BY <1>1, <1>a, Zenon DEF FieldRead
  <1>9. ~(pos < pos)
    OBVIOUS
  <1> QED
    BY <1>a, <1>1, <1>4, <1>5, <1>6, <1>7, <1>8, <1>9, ZenonT(30)

LEMMA ReadFieldRead ==
  ASSUME AllInv, AllInv', LinesInv, ReadField
  PROVE  LinesInv'
  <1>a. PICK L, m, f, s : /\ L = Len(input) /\ m = master /\ f = Item.fields[pos]
                          /\ s = [range |-> f.range, of |-> <<L, pos>>]
    BY ZenonT(30)
  <1>1. /\ pc = "fields" /\ parser = "nodes" /\ LinesRead /\ Control /\ HeapInv
        /\ L \in Nat \ {0} /\ DOMAIN input = 1 .. L /\ L \in DOMAIN input /\ Item = input[L]
        /\ ~(L < L) /\ IsMaster(L) /\ ~IsSlave(L) /\ \A i \in DOMAIN input : i # L => i < L
    BY <1>a, AtLine, Zenon DEF ReadField
  <1>2. /\ UNCHANGED <<parser, add_slave, add_open, input, nodes, nodes_name, master, slot>>
        /\ pos \in Nat /\ pos <= Len(Item.fields) /\ slot = NULL
    BY <1>1, ZenonT(30) DEF ReadField, config, Control, AllInv, Inv, NewNames
  <1>3. m \in Masters /\ m = <<L, 1>> /\ m \in Made /\ node[m].role = "master"
    <2>1. m \in Masters /\ m = <<L, 1>>
      BY <1>a, <1>1, Zenon DEF AllInv, Inv, AtMaster
    <2> QED
      BY <1>1, <2>1, MasterIs, Zenon
  <1>4. DOMAIN input[L].fields = 1 .. Len(input[L].fields) /\ Len(input[L].fields) \in Nat
        /\ input[L].fields \in Seq([kind : {"range", "migrating", "importing"}, range : Int \X Int])
    BY <1>1, LinesAre, Zenon
  <1>5. f = input[L].fields[pos] /\ found \in Nat /\ InDict(L)
    BY <1>a, <1>1, ZenonT(30) DEF Control, AllInv, Inv, InDict
  \* The field is passed, and what it says is in the master.
  <1>6. ASSUME pc' = pc, pos' = pos + 1, Made' = Made,
               \A x \in Made : node'[x].slaves = node[x].slaves /\ (x # m => node'[x] = node[x]),
               Slots(m)' = Slots(m) \union (IF IsRange(f) THEN {s} ELSE {}),
               found' = found + (IF IsRange(f) THEN 1 ELSE 0),
               add_open =>
                 /\ node'[m].migrating = IF f.kind = "migrating" THEN Append(node[m].migrating, pos)
                                         ELSE node[m].migrating
                 /\ node'[m].importing = IF f.kind = "importing" THEN Append(node[m].importing, pos)
                                         ELSE node[m].importing
        PROVE  LinesInv'
    <2>1. Len(input') = L /\ (\A i : IsMaster(i)' <=> IsMaster(i)) /\ \A i : IsSlave(i)' <=> IsSlave(i)
      BY <1>a, <1>2, Zenon DEF IsMaster, IsSlave
    <2>2. DictLike
      BY <1>1, <1>2, <1>6, <2>1, ZenonT(30) DEF DictLike, LinesLike, InDict
    <2>3. /\ pos \in DOMAIN input[L].fields
          /\ \A i \in DOMAIN input : i # L => \A j : FieldRead(i, j)' <=> FieldRead(i, j)
          /\ \A j : FieldRead(L, j)' <=> (FieldRead(L, j) \/ j = pos)
          /\ ~FieldRead(L, pos)
      BY <1>a, <1>1, <1>2, <1>6, FieldsRead, ZenonT(30)
    <2>4. \A i \in DOMAIN input : InDict(i) => <<i, 1>> \in Made
      BY <1>1, InDictIs, ZenonT(30) DEF LinesRead
    <2>5. \A i : (InDict(i)' <=> InDict(i)) /\ (i # L => <<i, 1>> # m)
      BY <1>1, <1>2, <1>3, <1>6, <2>1, Zenon DEF InDict
    <2>6. DictRead'
      BY <1>1, <1>2, <2>2, DictStays, ZenonT(30) DEF LinesRead
    <2>7. SlotsRead'
      <3>1. \A i \in DOMAIN input : i # L => RangesRead(i)' = RangesRead(i)
        BY <1>2, <2>3, ZenonT(30) DEF RangesRead
      <3>2. RangesRead(L)' = RangesRead(L) \union (IF IsRange(f) THEN {pos} ELSE {})
        BY <1>2, <1>5, <2>3, Zenon DEF RangesRead
      <3>3. ASSUME NEW i \in DOMAIN input, InDict(i)
            PROVE  Slots(<<i, 1>>)' = {[range |-> input[i].fields[j].range, of |-> <<i, j>>] :
                                         j \in RangesRead(i)'}
        <4>1. Slots(<<i, 1>>) = {[range |-> input[i].fields[j].range, of |-> <<i, j>>] :
                                   j \in RangesRead(i)}
          BY <1>1, <3>3, Zenon DEF LinesRead, SlotsRead, RangesRead
        <4>2. CASE i # L
          <5>1. Slots(<<i, 1>>)' = Slots(<<i, 1>>)
            BY <1>6, <2>4, <2>5, <3>3, <4>2 DEF Slots
          <5> QED
            BY <3>1, <4>1, <4>2, <5>1
        <4>3. CASE i = L /\ IsRange(f)
          <5>1. RangesRead(i)' = RangesRead(i) \union {pos}
            BY <3>2, <4>3, Zenon
          <5>2. Slots(<<i, 1>>)' = Slots(<<i, 1>>) \union {s}
            BY <1>3, <1>6, <4>3, ZenonT(30) DEF Slots
          <5>3. s = [range |-> input[i].fields[pos].range, of |-> <<i, pos>>]
            BY <1>a, <1>5, <4>3, Zenon
          <5> QED
            BY <4>1, <5>1, <5>2, <5>3, Zenon
        <4>4. CASE i = L /\ ~IsRange(f)
          <5>1. RangesRead(i)' = RangesRead(i)
            BY <3>2, <4>4, Zenon
          <5>2. Slots(<<i, 1>>)' = Slots(<<i, 1>>)
            BY <1>3, <1>6, <4>4, Zenon DEF Slots
          <5> QED
            BY <4>1, <5>1, <5>2, ZenonT(30)
        <4> QED
          BY <4>2, <4>3, <4>4, ZenonT(30)
      <3>4. found > 0 <=> \E i \in DOMAIN input : InDict(i) /\ RangesRead(i) # {}
        BY <1>1, Zenon DEF LinesRead, SlotsRead, RangesRead
      <3>5. found' > 0 <=> \E i \in DOMAIN input : InDict(i) /\ RangesRead(i)' # {}
        <4>1. CASE IsRange(f)
          <5>1. found' > 0
            BY <1>5, <1>6, <4>1
          <5>2. RangesRead(L)' # {}
            BY <3>2, <4>1, Zenon
          <5> QED
            BY <1>1, <1>5, <5>1, <5>2, Zenon
        <4>2. CASE ~IsRange(f)
          <5>1. found' = found
            BY <1>5, <1>6, <4>2
          <5>2. \A i \in DOMAIN input : RangesRead(i)' = RangesRead(i)
            BY <3>1, <3>2, <4>2, Zenon
          <5> QED
            BY <3>4, <5>1, <5>2, Zenon
        <4> QED
          BY <4>1, <4>2, ZenonT(30)
      <3>6. found' > 0 <=> \E i \in DOMAIN input' : \E j \in DOMAIN input'[i].fields :
                             InDict(i)' /\ FieldRead(i, j)' /\ IsRange(input'[i].fields[j])
        BY <1>2, <2>5, <3>5, ZenonT(30) DEF RangesRead
      <3>7. \A i \in DOMAIN input' : InDict(i)' =>
              Slots(<<i, 1>>)' = {[range |-> input'[i].fields[j].range, of |-> <<i, j>>] :
                                    j \in RangesRead(i)'}
        BY <1>2, <2>5, <3>3, ZenonT(30)
      <3> QED
        BY <3>6, <3>7, ZenonT(30) DEF SlotsRead, RangesRead
    <2>8. OpensRead'
      <3>1. ASSUME NEW kind
            PROVE  /\ \A i \in DOMAIN input : i # L => OpenOnes(i, kind)' = OpenOnes(i, kind)
                   /\ OpenOnes(L, kind)' =
                        OpenOnes(L, kind) \union (IF f.kind = kind THEN {pos} ELSE {})
                   /\ pos \notin OpenOnes(L, kind)
        BY <1>2, <1>5, <2>3, Zenon DEF OpenOnes
      <3>2. ASSUME NEW kind, NEW l \in Seq(Nat), IsListOf(l, OpenOnes(L, kind))
            PROVE  IsListOf(IF f.kind = kind THEN Append(l, pos) ELSE l, OpenOnes(L, kind)')
        <4>1. CASE f.kind = kind
          <5>1. OpenOnes(L, kind)' = OpenOnes(L, kind) \union {pos} /\ pos \notin Range(l)
            BY <3>1, <3>2, <4>1, Zenon DEF IsListOf
          <5>2. Range(Append(l, pos)) = Range(l) \union {pos} /\ IsInjective(Append(l, pos))
            BY <1>2, <3>2, <5>1, AppendElements, AppendInjective DEF IsListOf
          <5> QED
            BY <3>2, <4>1, <5>1, <5>2, ZenonT(30) DEF IsListOf
        <4>2. CASE f.kind # kind
          <5>1. OpenOnes(L, kind)' = OpenOnes(L, kind)
            BY <3>1, <4>2, ZenonT(30)
          <5> QED
            BY <3>2, <4>2, <5>1, Zenon
        <4> QED
          BY <4>1, <4>2, Zenon
      <3>3. ASSUME add_open, NEW i \in DOMAIN input, InDict(i)
            PROVE  /\ IsListOf(node'[<<i, 1>>].migrating, OpenOnes(i, "migrating")')
                   /\ IsListOf(node'[<<i, 1>>].importing, OpenOnes(i, "importing")')
        <4>1. /\ IsListOf(node[<<i, 1>>].migrating, OpenOnes(i, "migrating"))
              /\ IsListOf(node[<<i, 1>>].importing, OpenOnes(i, "importing"))
          BY <1>1, <3>3, Zenon DEF LinesRead, OpensRead
        <4>2. CASE i # L
          <5>1. <<i, 1>> \in Made /\ <<i, 1>> # m
            BY <2>4, <2>5, <3>3, <4>2, Zenon
          <5>2. node'[<<i, 1>>] = node[<<i, 1>>]
            BY <1>6, <5>1, Zenon
          <5>3. \A kind : OpenOnes(i, kind)' = OpenOnes(i, kind)
            BY <3>1, <4>2, ZenonT(30)
          <5> QED
            BY <4>1, <5>2, <5>3, ZenonT(30)
        <4>3. CASE i = L
          <5>1. node[m].migrating \in Seq(Nat) /\ node[m].importing \in Seq(Nat)
            BY <1>1, <1>3, Zenon DEF HeapInv, HeapType, NodeObject
          <5>2. /\ IsListOf(node[m].migrating, OpenOnes(L, "migrating"))
                /\ IsListOf(node[m].importing, OpenOnes(L, "importing"))
            BY <1>3, <4>1, <4>3, ZenonT(30)
          <5>3. IsListOf(node'[m].migrating, OpenOnes(L, "migrating")')
            BY <1>6, <3>2, <3>3, <5>1, <5>2, Zenon
          <5>4. IsListOf(node'[m].importing, OpenOnes(L, "importing")')
            BY <1>6, <3>2, <3>3, <5>1, <5>2, ZenonT(30)
          <5> QED
            BY <1>3, <4>3, <5>3, <5>4, ZenonT(30)
        <4> QED
          BY <4>2, <4>3, Zenon
      <3> QED
        BY <1>2, <2>5, <3>3, ZenonT(30) DEF OpensRead
    <2>9. NamesRead'
      <3>1. ASSUME NEW k \in Name PROVE NameLike(k)
        <4>1. SlaveListed(k)' = SlaveListed(k)
          BY <1>1, <1>2, <1>6, <2>1, ZenonT(30) DEF SlaveListed
        <4>2. \A i : MasterNamed(k, i)' <=> MasterNamed(k, i)
          BY <1>1, <1>2, <1>6, <2>1, Zenon DEF MasterNamed
        <4> QED
          BY <1>2, <4>1, <4>2, ZenonT(30) DEF NameLike, LinesLike
      <3>2. node'[m].role = "master"
        <4>1. DictHeld' /\ UNCHANGED nodes
          BY <1>2, ZenonT(30) DEF AllInv, Inv, HeapInv
        <4>2. PICK a \in Addr : nodes[a] = m /\ m # NULL
          BY <1>3, Zenon DEF Masters
        <4> QED
          BY <4>1, <4>2, Zenon DEF DictHeld
      <3>3. \A x \in Made : node'[x].role = node[x].role
        BY <1>3, <1>6, <3>2, ZenonT(30)
      <3>4. ASSUME add_slave, NEW k \in Name PROVE NameRead(k)'
        <4>a. PICK o : o = nodes_name[k]
          BY Zenon
        <4>1. NameRead(k)
          BY <1>1, <3>4, Zenon DEF LinesRead, NamesRead
        <4>2. o # NULL => o \in Made
          BY <1>1, <4>a, ZenonT(30) DEF HeapInv, HeapType
        <4>3. o # NULL => /\ node'[o].role = node[o].role
                          /\ Range(node'[o].slaves) = Slaves(o)
          BY <1>6, <3>3, <4>2, Zenon DEF Slaves
        <4> QED
          BY <1>2, <3>1, <4>1, <4>3, <4>a, NameStays, ZenonT(30)
      <3> QED
        BY <1>1, <1>2, <1>6, <3>4, Zenon DEF LinesRead, NamesRead
    <2>10. LinesGood'
      BY <1>1, <1>2, <1>6, <2>1 DEF LinesRead, LinesGood
    <2>11. LinesRead'
      BY <2>6, <2>7, <2>8, <2>9, <2>10, ZenonT(30) DEF LinesRead
    <2> QED
      BY <1>1, <1>6, <2>11, ZenonT(30) DEF LinesInv, Stopped
  <1>7. f \in [kind : {"range", "migrating", "importing"}, range : Int \X Int]
        /\ f.kind \in {"range", "migrating", "importing"} /\ f.range \in Int \X Int
    <2>1. pos \in 1 .. Len(Item.fields)
      <3>1. pos > 0
        BY <1>1 DEF AllInv, Inv, Control
      <3> QED
        BY <1>1, <1>2, <1>4, <3>1
    <2>2. f \in [kind : {"range", "migrating", "importing"}, range : Int \X Int]
      BY <1>a, <1>1, <1>4, <2>1, ElementType, Zenon
    <2> QED
      BY <2>2, ZenonT(30)
  <1>9. ASSUME f.kind # "range", node' = cluster_open_slot_create(node, master, f.kind, pos),
               pc' = pc, pos' = pos + 1, UNCHANGED found
        PROVE  LinesInv'
    <2>1. AddsOpen(m, f.kind, pos)
      BY <1>a, <1>2, <1>3, <1>9, ZenonT(30) DEF AddsOpen
    <2>a. /\ Made' = Made
          /\ \A x \in Made : /\ node'[x].slaves = node[x].slaves
                             /\ node'[x].slots = node[x].slots
                             /\ x # m => node'[x] = node[x]
          /\ OpensGrow(m, f.kind, pos)
      BY <1>1, <2>1, AddsOpenSafe, ZenonT(30)
    <2>2. /\ Made' = Made
          /\ \A x \in Made : /\ node'[x].slaves = node[x].slaves
                             /\ node'[x].slots = node[x].slots
                             /\ x # m => node'[x] = node[x]
          /\ node'[m].migrating = IF f.kind = "migrating" THEN Append(node[m].migrating, pos)
                                  ELSE node[m].migrating
          /\ node'[m].importing = IF f.kind = "migrating" THEN node[m].importing
                                  ELSE Append(node[m].importing, pos)
      BY <2>a, Zenon DEF OpensGrow
    <2>3. ~IsRange(f) /\ (f.kind = "migrating" <=> f.kind # "importing")
      BY <1>7, <1>9, Zenon DEF IsRange
    <2>4. Slots(m)' = Slots(m) \union {}
      BY <1>3, <2>2, Zenon DEF Slots
    <2>5. found' = found + 0
      BY <1>5, <1>9
    <2> QED
      BY <1>6, <1>9, <2>2, <2>3, <2>4, <2>5, ZenonT(30)
  <1>10. ASSUME IsRange(f), node' = cluster_slot_create(node, master, s),
                pc' = pc, pos' = pos + 1, found' = found + 1
         PROVE  LinesInv'
    <2>1. s \in SlotObject /\ s.of[1] = L /\ s.of[2] = pos
      <3>1. pos \in Nat \ {0}
        BY <1>1, Zenon DEF AllInv, Inv, Control
      <3> QED
        BY <1>a, <1>1, <1>7, <3>1, ZenonT(30) DEF SlotObject, Node
    <2>2. \A x \in Made : s \notin Slots(x)
      <3>1. \A x \in SlotObjects : x.of[1] \in Nat /\ x.of[2] \in Nat /\ Earlier(x.of)
        BY <1>1, NumbersOf, ZenonT(30) DEF AllInv, Inv, NewNames
      <3>2. s \notin SlotObjects
        <4>1. ~Earlier(s.of)
          BY <1>a, <1>1, <1>2, <2>1 DEF Earlier, Before
        <4> QED
          BY <3>1, <4>1, Zenon
      <3> QED
        BY <3>2, Zenon DEF SlotObjects
    <2>3. AddsSlot(m, s)
      BY <1>a, <1>2, <1>3, <1>10, <2>1, <2>2, ZenonT(30) DEF AddsSlot
    <2>4. /\ Made' = Made /\ Slots(m)' = Slots(m) \union {s}
          /\ \A x \in Made : /\ node'[x].slaves = node[x].slaves
                             /\ node'[x].migrating = node[x].migrating
                             /\ node'[x].importing = node[x].importing
                             /\ x # m => node'[x] = node[x]
      BY <1>1, <2>3, AddsSlotSafe, ZenonT(30)
    <2>5. f.kind # "migrating" /\ f.kind # "importing"
      BY <1>10, Zenon DEF IsRange
    <2> QED
      BY <1>3, <1>6, <1>10, <2>4, <2>5, ZenonT(30)
  <1>11. ASSUME ~IsRange(f), f.kind = "range" \/ ~add_open, pc' = pc, pos' = pos + 1,
                UNCHANGED <<node, found>>
         PROVE  LinesInv'
    <2>1. Made' = Made /\ Slots(m)' = Slots(m) \union {}
      BY <1>11, Zenon DEF Made, Slots
    <2>2. found = found + 0
      BY <1>5
    <2>3. add_open => f.kind # "migrating" /\ f.kind # "importing"
      BY <1>11, Zenon
    <2> QED
      BY <1>6, <1>11, <2>1, <2>2, <2>3, Zenon
  <1>12. ASSUME GiveUp("memory") PROVE LinesInv'
    BY <1>2, <1>12, LinesNoMemory DEF GiveUp
  <1> QED
    BY <1>a, <1>9, <1>10, <1>11, <1>12, Zenon DEF ReadField

LEMMA AddSlaveRead ==
  ASSUME AllInv, LinesInv, AddSlave
  PROVE  LinesInv'
  <1>a. PICK L, n, a, k, old : /\ L = Len(input) /\ n = <<L, 1>> /\ a = Item.addr
                               /\ k = Item.of /\ old = nodes_name[k]
    BY ZenonT(30)
  <1>1. /\ pc = "slave" /\ parser = "nodes" /\ LinesRead /\ Control /\ HeapInv
        /\ L \in Nat \ {0} /\ DOMAIN input = 1 .. L /\ L \in DOMAIN input /\ Item = input[L]
        /\ ~(L < L) /\ IsSlave(L) /\ ~IsMaster(L) /\ add_slave
        /\ \A i \in DOMAIN input : i # L => i < L
    BY <1>a, AtLine, Zenon DEF AddSlave
  <1>2. /\ a \in Addr \union {NULL} /\ k \in Name /\ input[L].of = k /\ input[L].addr = a
        /\ n \in Node /\ n \notin Made
    <2>1. a \in Addr \union {NULL} /\ k \in Name /\ input[L].of = k /\ input[L].addr = a
      BY <1>a, <1>1, LinesAre, Zenon
    <2>2. \A m \in Made : Before(m)
      BY <1>1, Zenon DEF AllInv, Inv, NewNames
    <2>3. n \in Node /\ ~Before(n)
      BY <1>a, <1>1 DEF Before, Node
    <2> QED
      BY <2>1, <2>2, <2>3, Zenon
  <1>3. UNCHANGED <<parser, add_slave, add_open, input, nodes, found>>
    BY Zenon DEF AddSlave, node_get_fails, config
  <1>4. NameRead(k) /\ \A j \in Name : NameRead(j)
    BY <1>1, <1>2, Zenon DEF LinesRead, NamesRead
  <1>5. Len(input') = L /\ (\A i : IsMaster(i)' <=> IsMaster(i)) /\ \A i : IsSlave(i)' <=> IsSlave(i)
    BY <1>a, <1>3, Zenon DEF IsMaster, IsSlave
  \* The replica is made, and the reply is read on.
  <1>6. ASSUME pc' = "next"
        PROVE  /\ DictLike /\ FieldsLike
               /\ \A j \in Name : j # k => NameLike(j)
               /\ SlaveListed(k)' = SlaveListed(k) \union {L}
               /\ \A i : MasterNamed(k, i)' <=> MasterNamed(k, i)
    <2>1. DictLike
      BY <1>1, <1>3, <1>5, <1>6, Zenon DEF DictLike, LinesLike, InDict
    <2>2. FieldsLike
      BY <1>1, <1>3, <1>6, ZenonT(30) DEF FieldsLike, FieldRead
    <2>3. \A j : \A i : MasterNamed(j, i)' <=> MasterNamed(j, i)
      BY <1>1, <1>3, <1>5, <1>6, ZenonT(30) DEF MasterNamed
    <2>4. \A j : SlaveListed(j)' = {i \in DOMAIN input : IsSlave(i) /\ input[i].of = j}
      BY <1>3, <1>5, <1>6, ZenonT(30) DEF SlaveListed
    <2>5. \A j : SlaveListed(j) = {i \in DOMAIN input : IsSlave(i) /\ input[i].of = j /\ i # L}
      BY <1>a, <1>1, Zenon DEF SlaveListed
    <2>6. SlaveListed(k)' = SlaveListed(k) \union {L}
      BY <1>1, <1>2, <2>4, <2>5, ZenonT(30)
    <2>7. \A j : j # k => SlaveListed(j)' = SlaveListed(j)
      BY <1>2, <2>4, <2>5, ZenonT(30)
    <2> QED
      BY <1>3, <2>1, <2>2, <2>3, <2>6, <2>7, ZenonT(30) DEF NameLike, LinesLike
  <1>7. ASSUME pc' = "next", a # NULL, SameButLists, NameRead(k)',
               \A j \in Name : j # k => nodes_name'[j] = nodes_name[j],
               \A x \in Made : x # old => Slaves(x)' = Slaves(x)
        PROVE  LinesInv'
    <2>1. \A i \in DOMAIN input : InDict(i) => <<i, 1>> \in Made
      BY <1>1, InDictIs, Zenon DEF LinesRead
    <2>2. DictRead'
      BY <1>1, <1>3, <1>6, <1>7, DictStays, ZenonT(30) DEF LinesRead
    <2>3. SlotsRead'
      BY <1>1, <1>3, <1>6, <1>7, <2>1, SlotsStays, ZenonT(30) DEF LinesRead, SameButLists
    <2>4. OpensRead'
      BY <1>1, <1>3, <1>6, <1>7, <2>1, OpensStays, ZenonT(30) DEF LinesRead, SameButLists
    <2>5. ASSUME NEW j \in Name, j # k PROVE NameRead(j)'
      <3>a. PICK o : o = nodes_name[j]
        BY Zenon
      <3>1. NameLike(j)
        BY <1>6, <1>7, <2>5, ZenonT(30)
      <3>2. o # NULL => o \in Made /\ o # old
        BY <1>a, <1>1, <1>2, <2>5, <3>a, ZenonT(30) DEF HeapInv, HeapType, NamesHeld
      <3>3. o # NULL => /\ node'[o].role = node[o].role
                        /\ Range(node'[o].slaves) = Slaves(o)
        BY <1>7, <3>2, ZenonT(30) DEF SameButLists, Slaves
      <3> QED
        BY <1>4, <1>7, <2>5, <3>1, <3>3, <3>a, NameStays, ZenonT(30)
    <2>6. NamesRead'
      BY <1>1, <1>3, <1>7, <2>5, ZenonT(30) DEF NamesRead
    <2>7. LinesGood'
      <3>1. \A i \in DOMAIN input : input[i].role # "short"
        BY <1>1, Zenon DEF LinesRead, LinesGood
      <3>2. \A i \in DOMAIN input : IsSlave(i) => input[i].addr # NULL
        BY <1>1, <1>2, <1>7, <1>a, ZenonT(30) DEF LinesRead, LinesGood
      <3> QED
        BY <1>3, <1>5, <3>1, <3>2, ZenonT(30) DEF LinesGood
    <2>8. LinesRead'
      BY <2>2, <2>3, <2>4, <2>6, <2>7, Zenon DEF LinesRead
    <2> QED
      BY <1>7, <2>8, ZenonT(30) DEF LinesInv, Stopped
  <1>8. pc' = "next" => SlaveNodes(k)' = SlaveNodes(k) \union {n}
    <2>1. ASSUME pc' = "next" PROVE SlaveNodes(k)' = SlaveNodes(k) \union {n}
      <3>1. SlaveListed(k)' = SlaveListed(k) \union {L}
        BY <1>6, <2>1, Zenon
      <3>2. {<<i, 1>> : i \in SlaveListed(k) \union {L}} = {<<i, 1>> : i \in SlaveListed(k)} \union {n}
        BY <1>a, ZenonT(30)
      <3> QED
        BY <3>1, <3>2, Zenon DEF SlaveNodes
    <2> QED
      BY <2>1, Zenon
  <1>9. ASSUME a # NULL, old = NULL, nodes_name' = [nodes_name EXCEPT ![k] = n],
               node' = With(n, NewNode("slave", a)), pc' = "next"
        PROVE  LinesInv'
    <2>1. node'[n] = NewNode("slave", a) /\ \A x \in Made : node'[x] = node[x]
      BY <1>2, <1>9, ZenonT(30) DEF With
    <2>a. n # NULL
      BY <1>2, NullIsNoNode, ZenonT(30)
    <2>2. node'[n].role = "slave" /\ node'[n].slaves = <<>> /\ n # NULL
      BY <2>1, <2>a DEF NewNode
    <2>3. SameButLists /\ \A x \in Made : Slaves(x)' = Slaves(x)
      BY <2>1, Zenon DEF SameButLists, Slots, Slaves
    <2>4. nodes_name'[k] = n /\ \A j \in Name : j # k => nodes_name'[j] = nodes_name[j]
      BY <1>1, <1>2, <1>9, ZenonT(30) DEF HeapInv, HeapType
    <2>5. SlaveListed(k) = {} /\ \A i \in DOMAIN input : ~MasterNamed(k, i)
      BY <1>a, <1>4, <1>9, ZenonT(30) DEF NameRead
    <2>6. SlaveNodes(k)' = {n}
      BY <1>8, <1>9, <2>5, ZenonT(30) DEF SlaveNodes
    <2>7. Owned(node', n) = {n}
      BY <2>2, EmptyList, ZenonT(30) DEF Owned
    <2>8. \A i \in DOMAIN input' : ~MasterNamed(k, i)'
      BY <1>3, <1>6, <1>9, <2>5, Zenon
    <2>9. NameRead(k)'
      BY <2>2, <2>4, <2>6, <2>7, <2>8, ZenonT(30) DEF NameRead
    <2> QED
      BY <1>7, <1>9, <2>3, <2>4, <2>9, Zenon
  <1>10. ASSUME a # NULL, old # NULL, UNCHANGED nodes_name, pc' = "next",
                node' = [With(n, NewNode("slave", a)) EXCEPT ![old].slaves = Append(@, n)]
         PROVE  LinesInv'
    <2>1. old \in Made
      BY <1>a, <1>1, <1>2, <1>10, ZenonT(30) DEF HeapInv, HeapType
    <2>2. MakesListed(n, a, old)
      BY <1>a, <1>2, <1>3, <1>10, <2>1, NewWithNone, ZenonT(30) DEF MakesListed, IsNew
    <2>3. /\ SameButLists /\ Slaves(old)' = Slaves(old) \union {n}
          /\ \A x \in Made : x # old => Slaves(x)' = Slaves(x)
      BY <1>1, <2>2, MakesListedSafe
    <2>4. node'[old].role = node[old].role /\ Range(node'[old].slaves) = Slaves(old) \union {n}
      BY <2>1, <2>3, Zenon DEF SameButLists, Slaves
    <2>5. SlaveNodes(k)' = SlaveNodes(k) \union {n}
      BY <1>8, <1>10, Zenon
    <2>6. \A i : MasterNamed(k, i)' <=> MasterNamed(k, i)
      BY <1>6, <1>10, Zenon
    <2>7. NameRead(k)'
      <3>1. CASE /\ node[old].role = "slave" /\ Owned(node, old) = SlaveNodes(k)
                 /\ \A i \in DOMAIN input : ~MasterNamed(k, i)
        <4>1. Owned(node', old) = Owned(node, old) \union {n}
          BY <2>4, Zenon DEF Owned, Slaves
        <4> QED
          BY <1>a, <1>3, <1>10, <2>4, <2>5, <2>6, <3>1, <4>1, ZenonT(30) DEF NameRead
      <3>2. CASE /\ node[old].role = "master" /\ Slaves(old) = SlaveNodes(k)
                 /\ \E i \in DOMAIN input : MasterNamed(k, i) /\ old = <<i, 1>>
                 /\ \A i \in DOMAIN input : MasterNamed(k, i) => old = <<i, 1>>
        <4>1. Slaves(nodes_name[k])' = Range(node'[old].slaves)
          BY <1>a, <1>10, Zenon DEF Slaves
        <4> QED
          BY <1>a, <1>3, <1>10, <2>4, <2>5, <2>6, <3>2, <4>1, ZenonT(30) DEF NameRead
      <3> QED
        BY <1>a, <1>4, <1>10, <3>1, <3>2, ZenonT(30) DEF NameRead
    <2> QED
      BY <1>7, <1>10, <2>3, <2>7, Zenon
  <1>11. ASSUME a = NULL, GiveUp("reply") PROVE LinesInv'
    <2>1. BadLines
      BY <1>1, <1>2, <1>11, BadAddress, Zenon
    <2>2. BadLines'
      BY <1>3, <2>1, BadStays, ZenonT(30)
    <2> QED
      BY <1>11, <2>2, ZenonT(30) DEF LinesInv, Stopped, GiveUp
  <1>12. ASSUME GiveUp("memory") PROVE LinesInv'
    BY <1>3, <1>12, LinesNoMemory, Zenon DEF GiveUp
  <1> QED
    BY <1>a, <1>9, <1>10, <1>11, <1>12, Zenon DEF AddSlave, node_get_fails

(* A field is a range exactly when it names slots of the cluster.          *)
LEMMA RangeNamesSlots ==
  ASSUME NEW f \in [kind : {"range", "migrating", "importing"}, range : Int \X Int]
  PROVE  IsRange(f) <=> NamesSlots(f)
  <1>1. f.range \in Int \X Int /\ f.range = <<f.range[1], f.range[2]>>
        /\ f.range[1] \in Int /\ f.range[2] \in Int
    OBVIOUS
  <1>2. NSlots \in Nat
    BY TopologyAssumption, Zenon
  <1>3. ASSUME IsRange(f) PROVE NamesSlots(f)
    <2>1. /\ f.range[1] \in 0 .. NSlots - 1 /\ f.range[2] \in 0 .. NSlots - 1
          /\ f.range[1] <= f.range[2]
      BY <1>1, <1>2, <1>3 DEF IsRange
    <2> QED
      BY <1>1, <1>3, <2>1, Zenon DEF IsRange, NamesSlots
  <1>4. ASSUME NamesSlots(f) PROVE IsRange(f)
    <2>1. PICK i, j \in 0 .. NSlots - 1 : i <= j /\ f.range = <<i, j>>
      BY <1>4, Zenon DEF NamesSlots
    <2>2. f.range[1] = i /\ f.range[2] = j
      BY <2>1
    <2> QED
      BY <1>2, <1>4, <2>1, <2>2 DEF IsRange, NamesSlots
  <1> QED
    BY <1>3, <1>4, Zenon

LEMMA LinesEndRead ==
  ASSUME AllInv, LinesInv, EndOfReply \/ EmptyReply \/ ReleaseAll
  PROVE  LinesInv'
  <1>1. UNCHANGED <<parser, add_slave, add_open, input, nodes, nodes_name, node, found>>
    BY Zenon DEF EndOfReply, EmptyReply, ReleaseAll, config
  <1>2. ASSUME parser = "nodes", ReleaseAll PROVE LinesInv'
    BY <1>1, <1>2, BadStays, Zenon DEF ReleaseAll, LinesInv, Stopped
  <1>3. ASSUME parser = "nodes", pc = "next"
        PROVE  /\ LinesRead /\ Control
               /\ \A i \in DOMAIN input : InDict(i) <=> IsMaster(i)
               /\ \A i \in DOMAIN input : \A j : FieldRead(i, j) <=> j \in DOMAIN input[i].fields
    BY <1>3, Zenon DEF LinesInv, Stopped, AllInv, Inv, InDict, FieldRead
  <1>4. ASSUME parser = "nodes", EmptyReply PROVE LinesInv'
    <2>1. pc = "next" /\ ~(found > 0)
      BY <1>4 DEF EmptyReply
    <2>2. \A i \in DOMAIN input : \A j \in DOMAIN input[i].fields :
            IsMaster(i) => ~IsRange(input[i].fields[j])
      BY <1>3, <1>4, <2>1, Zenon DEF LinesRead, SlotsRead
    <2>3. \A i \in DOMAIN input : \A j \in DOMAIN input[i].fields :
            input[i].fields[j] \in [kind : {"range", "migrating", "importing"}, range : Int \X Int]
      <3>1. ASSUME NEW i \in DOMAIN input, NEW j \in DOMAIN input[i].fields
            PROVE  input[i].fields[j] \in
                     [kind : {"range", "migrating", "importing"}, range : Int \X Int]
        <4>1. /\ input[i].fields \in
                   Seq([kind : {"range", "migrating", "importing"}, range : Int \X Int])
              /\ j \in 1 .. Len(input[i].fields)
          BY <1>3, <1>4, <2>1, <3>1, LinesAre, ZenonT(30)
        <4> QED
          BY <4>1, ElementType, Zenon
      <3> QED
        BY <3>1, Zenon
    <2>4. \A i \in DOMAIN input : \A j \in DOMAIN input[i].fields :
            IsMaster(i) => ~NamesSlots(input[i].fields[j])
      BY <2>2, <2>3, RangeNamesSlots, Zenon
    <2>5. BadLines
      BY <2>4, Zenon DEF BadLines, MasterLines, Items, IsMaster
    <2>6. BadLines'
      BY <1>1, <2>5, BadStays, Zenon
    <2> QED
      BY <1>4, <2>6, Zenon DEF EmptyReply, GiveUp, LinesInv, Stopped
  <1>5. ASSUME parser = "nodes", EndOfReply PROVE LinesInv'
    <2>1. pc = "next" /\ pc' = "accepted" /\ found > 0
      BY <1>5, Zenon DEF EndOfReply
    <2>2. LinesRead
      BY <1>3, <1>5, <2>1, Zenon
    <2>3. (\A i : IsMaster(i)' <=> IsMaster(i)) /\ \A i : IsSlave(i)' <=> IsSlave(i)
      BY <1>1, Zenon DEF IsMaster, IsSlave
    <2>4. DictLike
      BY <1>1, <2>1, <2>3, ZenonT(30) DEF DictLike, LinesLike, InDict
    <2>5. FieldsLike
      BY <1>1, <2>1, Zenon DEF FieldsLike, FieldRead
    <2>6. ASSUME NEW k \in Name PROVE NameLike(k)
      <3>1. SlaveListed(k)' = SlaveListed(k)
        BY <1>1, <2>1, <2>3, Zenon DEF SlaveListed
      <3>2. \A i : MasterNamed(k, i)' <=> MasterNamed(k, i)
        BY <1>1, <2>1, <2>3 DEF MasterNamed
      <3> QED
        BY <1>1, <3>1, <3>2, ZenonT(30) DEF NameLike, LinesLike
    <2>7. DictRead' /\ SlotsRead' /\ OpensRead' /\ NamesRead'
      BY <1>1, <1>5, <2>2, <2>4, <2>5, <2>6, LinesStay, ZenonT(30)
    <2>8. LinesGood'
      BY <1>1, <2>1, <2>2, <2>3, ZenonT(30) DEF LinesRead, LinesGood
    <2> QED
      BY <1>1, <2>1, <2>7, <2>8, ZenonT(30) DEF LinesInv, LinesRead, Stopped
  <1>6. CASE parser # "nodes"
    BY <1>1, <1>6, Zenon DEF LinesInv
  <1> QED
    BY <1>2, <1>4, <1>5, <1>6, Zenon

(* An accepted reply.                                                      *)
LEMMA LinesKeptHolds ==
  ASSUME AllInv, LinesInv, parser = "nodes", pc = "accepted"
  PROVE  LinesKept /\ ~BadLines /\ \E m \in Masters : node[m].slots # <<>>
  <1>1. LinesRead /\ Control /\ found > 0
    BY Zenon DEF LinesInv, Stopped, AllInv, Inv
  <1>2. /\ \A i : i \in MasterLines <=> (i \in DOMAIN input /\ InDict(i))
        /\ \A i : i \in MasterLines <=> IsMaster(i)
        /\ \A i \in DOMAIN input : \A j : FieldRead(i, j) <=> j \in DOMAIN input[i].fields
        /\ \A k : \A i : MasterNamed(k, i) <=> (i \in MasterLines /\ input[i].name = k)
    BY Zenon DEF MasterLines, Items, IsMaster, InDict, FieldRead, MasterNamed
  <1>3. \A k : SlaveListed(k) = SlaveLines(k)
    BY Zenon DEF SlaveListed, SlaveLines, Items, IsSlave
  <1>4. ASSUME NEW i \in MasterLines
        PROVE  /\ i \in DOMAIN input /\ InDict(i)
               /\ <<i, 1>> \in Masters /\ <<i, 1>> \in Made
               /\ input[i].addr \in Addr /\ input[i].addr # NULL
               /\ nodes[input[i].addr] = <<i, 1>>
               /\ input[i].name \in Name
               /\ \A j \in DOMAIN input[i].fields :
                    IsRange(input[i].fields[j]) <=> NamesSlots(input[i].fields[j])
    <2>1. i \in DOMAIN input /\ InDict(i)
      BY <1>2, Zenon
    <2>2. <<i, 1>> \in Masters /\ <<i, 1>> \in Made
      BY <1>1, <2>1, InDictIs, Zenon DEF LinesRead
    <2>3. input[i].addr \in Addr /\ input[i].addr # NULL /\ nodes[input[i].addr] = <<i, 1>>
      BY <1>1, <2>1, Zenon DEF LinesRead, DictRead
    <2>4. /\ input[i].name \in Name /\ DOMAIN input[i].fields = 1 .. Len(input[i].fields)
          /\ input[i].fields \in
               Seq([kind : {"range", "migrating", "importing"}, range : Int \X Int])
      BY <1>1, <2>1, LinesAre, Zenon
    <2>5. \A j \in DOMAIN input[i].fields : input[i].fields[j] \in
             [kind : {"range", "migrating", "importing"}, range : Int \X Int]
      BY <2>4, ElementType, Zenon
    <2>6. \A j \in DOMAIN input[i].fields :
            IsRange(input[i].fields[j]) <=> NamesSlots(input[i].fields[j])
      BY <2>5, RangeNamesSlots, Zenon
    <2> QED
      BY <2>1, <2>2, <2>3, <2>4, <2>6, ZenonT(30)
  <1>5. Masters = {<<i, 1>> : i \in MasterLines}
    <2>1. ASSUME NEW m \in Masters PROVE \E i \in MasterLines : m = <<i, 1>>
      <3>1. PICK a \in Addr : m = nodes[a] /\ nodes[a] # NULL
        BY Zenon DEF Masters
      <3> QED
        BY <1>1, <1>2, <3>1, ZenonT(30) DEF LinesRead, DictRead
    <2> QED
      BY <1>4, <2>1, ZenonT(30)
  <1>6. ASSUME NEW i \in MasterLines
        PROVE  Slots(<<i, 1>>) = {[range |-> input[i].fields[j].range, of |-> <<i, j>>] :
                                    j \in {k \in DOMAIN input[i].fields :
                                             NamesSlots(input[i].fields[k])}}
    <2>1. Slots(<<i, 1>>) = {[range |-> input[i].fields[j].range, of |-> <<i, j>>] :
                               j \in RangesRead(i)}
      BY <1>1, <1>4, ZenonT(30) DEF LinesRead, SlotsRead, RangesRead
    <2>2. RangesRead(i) = {k \in DOMAIN input[i].fields : NamesSlots(input[i].fields[k])}
      BY <1>2, <1>4, ZenonT(30) DEF RangesRead
    <2> QED
      BY <2>1, <2>2, ZenonT(30)
  <1>7. ASSUME NEW i \in MasterLines
        PROVE  Slaves(<<i, 1>>) =
                 IF add_slave THEN {<<j, 1>> : j \in SlaveLines(input[i].name)} ELSE {}
    <2>1. CASE add_slave
      <3>1. NameRead(input[i].name)
        BY <1>1, <1>4, <2>1, ZenonT(30) DEF LinesRead, NamesRead
      <3>2. MasterNamed(input[i].name, i) /\ i \in DOMAIN input
        BY <1>2, Zenon
      <3>3. /\ nodes_name[input[i].name] = <<i, 1>>
            /\ Slaves(nodes_name[input[i].name]) = SlaveNodes(input[i].name)
        BY <3>1, <3>2, ZenonT(30) DEF NameRead
      <3> QED
        BY <1>3, <2>1, <3>3, Zenon DEF SlaveNodes
    <2>2. CASE ~add_slave
      <3>1. node[<<i, 1>>].slaves = <<>>
        BY <1>1, <1>4, <2>2, ZenonT(30) DEF LinesRead, NamesRead
      <3> QED
        BY <2>2, <3>1, EmptyList, ZenonT(30) DEF Slaves
    <2> QED
      BY <2>1, <2>2, ZenonT(30)
  <1>8. ASSUME NEW i \in MasterLines, add_open
        PROVE  /\ IsListOf(node[<<i, 1>>].migrating,
                           {j \in DOMAIN input[i].fields : input[i].fields[j].kind = "migrating"})
               /\ IsListOf(node[<<i, 1>>].importing,
                           {j \in DOMAIN input[i].fields : input[i].fields[j].kind = "importing"})
    <2>1. \A kind : OpenOnes(i, kind) = {j \in DOMAIN input[i].fields : input[i].fields[j].kind = kind}
      BY <1>2, <1>4, Zenon DEF OpenOnes
    <2> QED
      BY <1>1, <1>4, <1>8, <2>1, ZenonT(30) DEF LinesRead, OpensRead
  <1>9. LinesKept
    <2>1. ASSUME NEW i \in MasterLines
          PROVE  Range(node[<<i, 1>>].slaves) =
                   IF add_slave THEN {<<j, 1>> : j \in SlaveLines(input[i].name)} ELSE {}
      BY <1>7, ZenonT(30) DEF Slaves
    <2> QED
      BY <1>4, <1>5, <1>6, <1>8, <2>1, Zenon DEF LinesKept
  \* Some field names slots, and its master has them.
  <1>10. PICK i \in MasterLines :
           \E j \in DOMAIN input[i].fields : NamesSlots(input[i].fields[j])
    <2>1. PICK i \in DOMAIN input : \E j \in DOMAIN input[i].fields :
            InDict(i) /\ IsRange(input[i].fields[j])
      BY <1>1, ZenonT(30) DEF LinesRead, SlotsRead
    <2>2. i \in MasterLines
      BY <1>2, <2>1, Zenon
    <2> QED
      BY <1>4, <2>1, <2>2, ZenonT(30)
  <1>11. ~BadLines
    <2>1. Items(LAMBDA l : l.role = "short") = {}
      BY <1>1, Zenon DEF LinesRead, LinesGood, Items
    <2>2. ASSUME NEW h \in DOMAIN input,
                 input[h].role = "master" \/ (input[h].role = "slave" /\ add_slave)
          PROVE  input[h].addr # NULL
      <3>1. CASE input[h].role = "master"
        BY <1>4, <3>1, ZenonT(30) DEF MasterLines, Items
      <3>2. CASE input[h].role = "slave" /\ add_slave
        BY <1>1, <3>2, Zenon DEF LinesRead, LinesGood, IsSlave
      <3> QED
        BY <2>2, <3>1, <3>2, ZenonT(30)
    <2>3. Items(LAMBDA l : /\ l.addr = NULL
                           /\ \/ l.role = "master"
                              \/ l.role = "slave" /\ add_slave) = {}
      BY <2>2, Zenon DEF Items
    <2>4. ASSUME NEW g \in MasterLines, NEW h \in MasterLines, input[g].addr = input[h].addr
          PROVE  g = h
      <3>1. <<g, 1>> = <<h, 1>>
        BY <1>4, <2>4, ZenonT(30)
      <3> QED
        BY <3>1, Zenon
    <2>5. ASSUME NEW g \in MasterLines, NEW h \in MasterLines, add_slave,
                 input[g].name = input[h].name
          PROVE  g = h
      <3>1. NameRead(input[g].name)
        BY <1>1, <1>4, <2>5, Zenon DEF LinesRead, NamesRead
      <3>2. /\ MasterNamed(input[g].name, g) /\ g \in DOMAIN input
            /\ MasterNamed(input[g].name, h) /\ h \in DOMAIN input
        BY <1>2, <2>5, Zenon
      <3>3. <<g, 1>> = <<h, 1>>
        BY <3>1, <3>2, Zenon DEF NameRead
      <3> QED
        BY <3>3, Zenon
    <2>6. ~\A g \in MasterLines :
             \A j \in DOMAIN input[g].fields : ~NamesSlots(input[g].fields[j])
      BY <1>10, Zenon
    <2> QED
      BY <2>1, <2>3, <2>4, <2>5, <2>6, ZenonT(30) DEF BadLines
  <1>12. \E m \in Masters : node[m].slots # <<>>
    <2>1. PICK j \in DOMAIN input[i].fields : NamesSlots(input[i].fields[j])
      BY <1>10, Zenon
    <2>2. [range |-> input[i].fields[j].range, of |-> <<i, j>>] \in Slots(<<i, 1>>)
      BY <1>6, <2>1, Zenon
    <2>3. node[<<i, 1>>].slots # <<>>
      BY <2>2, EmptyList, ZenonT(30) DEF Slots
    <2> QED
      BY <1>4, <2>3, Zenon
  <1> QED
    BY <1>9, <1>11, <1>12, Zenon

-----------------------------------------------------------------------------
(* What parse_cluster_nodes has read, in every state                       *)

LEMMA LinesInit == Init => LinesInv
  <1> SUFFICES ASSUME Init PROVE LinesInv
    BY Zenon
  <1>1. /\ input = <<>> /\ pc = "next" /\ failed = "no" /\ found = 0 /\ node = <<>>
        /\ (\A a \in Addr : nodes[a] = NULL) /\ \A k \in Name : nodes_name[k] = NULL
    BY Zenon DEF Init
  <1>2. DOMAIN input = {} /\ Made = {}
    BY <1>1 DEF Made
  <1>3. LinesGood /\ DictRead
    BY <1>1, <1>2, Zenon DEF LinesGood, DictRead
  <1>4. SlotsRead
    BY <1>1, <1>2 DEF SlotsRead
  <1>5. OpensRead
    BY <1>2, Zenon DEF OpensRead
  <1>6. NamesRead
    BY <1>1, <1>2, ZenonT(30) DEF NamesRead, NameRead, SlaveListed
  <1> QED
    BY <1>1, <1>3, <1>4, <1>5, <1>6, Zenon DEF LinesInv, LinesRead, Stopped

LEMMA LinesStutter ==
  ASSUME AllInv, LinesInv, UNCHANGED vars
  PROVE  LinesInv'
  <1>1. UNCHANGED <<parser, add_slave, add_open, input, pc, pos, nodes, nodes_name, node,
                    found, failed>>
    BY Zenon DEF vars
  <1>2. /\ Stopped' <=> Stopped
        /\ \A i : (IsMaster(i)' <=> IsMaster(i)) /\ (IsSlave(i)' <=> IsSlave(i))
        /\ \A i : (InDict(i)' <=> InDict(i)) /\ \A j : FieldRead(i, j)' <=> FieldRead(i, j)
        /\ \A k, i : MasterNamed(k, i)' <=> MasterNamed(k, i)
        /\ \A k : SlaveListed(k)' = SlaveListed(k)
    BY <1>1, Zenon DEF Stopped, IsMaster, IsSlave, InDict, FieldRead, MasterNamed, SlaveListed
  <1>3. DictLike /\ FieldsLike /\ \A k : NameLike(k)
    BY <1>1, <1>2, Zenon DEF DictLike, FieldsLike, NameLike, LinesLike
  <1>4. BadLines' <=> BadLines
    BY <1>1, BadStays, Zenon
  <1>5. ASSUME parser = "nodes", ~Stopped PROVE LinesRead'
    <2>1. LinesRead
      BY <1>5, Zenon DEF LinesInv
    <2>2. DictRead' /\ SlotsRead' /\ OpensRead' /\ NamesRead'
      BY <1>1, <1>3, <1>5, <2>1, LinesStay, ZenonT(30)
    <2>3. LinesGood'
      BY <1>1, <1>2, <2>1, ZenonT(30) DEF LinesRead, LinesGood
    <2> QED
      BY <2>2, <2>3, Zenon DEF LinesRead
  <1> QED
    BY <1>1, <1>2, <1>4, <1>5, Zenon DEF LinesInv

(* Every step keeps what has been read of the lines.                       *)
LEMMA LinesStep ==
  ASSUME AllInv, AllInv', LinesInv, [Next]_vars
  PROVE  LinesInv'
  <1>1. Control' /\ parser \in {"slots", "nodes"}
    BY Zenon DEF AllInv, Inv, Control
  <1>2. ASSUME parser' # "nodes" PROVE LinesInv'
    BY <1>2, Zenon DEF LinesInv
  <1>3. pc = "region" => parser = "slots"
    BY Zenon DEF AllInv, Inv, Control
  <1>4. CASE UNCHANGED vars
    BY <1>4, LinesStutter, ZenonT(30)
  <1>5. ASSUME NEW l \in Lines, NextLine(l) PROVE LinesInv'
    BY <1>5, NextLineRead, Zenon
  <1>6. CASE AddMaster
    BY <1>6, AddMasterRead, ZenonT(30)
  <1>7. CASE MapMaster
    BY <1>7, MapMasterRead, Zenon
  <1>8. CASE ReadField
    BY <1>8, ReadFieldRead
  <1>9. CASE EndOfLine
    BY <1>9, EndOfLineRead, Zenon
  <1>10. CASE AddSlave
    BY <1>10, AddSlaveRead, Zenon
  <1>11. ASSUME NEW r \in Regions, NextRegion(r) PROVE LinesInv'
    <2>1. parser' = "slots"
      BY <1>11, Zenon DEF NextRegion, config
    <2> QED
      BY <1>2, <2>1, Zenon
  <1>12. CASE RegionMaster
    <2>1. parser' = "slots"
      BY <1>3, <1>12, Zenon DEF RegionMaster, node_get_fails, config
    <2> QED
      BY <1>2, <2>1, Zenon
  <1>13. CASE RegionSlave
    <2>1. parser' = "slots"
      BY <1>3, <1>13, Zenon DEF RegionSlave, node_get_fails, config
    <2> QED
      BY <1>2, <2>1, Zenon
  <1>14. CASE EndOfRegion
    <2>1. parser' = "slots"
      BY <1>3, <1>14, Zenon DEF EndOfRegion, config
    <2> QED
      BY <1>2, <2>1, Zenon
  <1>15. CASE EndOfReply \/ EmptyReply \/ ReleaseAll
    BY <1>15, LinesEndRead, Zenon
  <1> QED
    BY <1>4, <1>5, <1>6, <1>7, <1>8, <1>9, <1>10, <1>11, <1>12, <1>13, <1>14, <1>15,
       ZenonT(30) DEF Next
=============================================================================
