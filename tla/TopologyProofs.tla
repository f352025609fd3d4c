--------------------------- MODULE TopologyProofs ---------------------------
(***************************************************************************)
(* The accounting of Topology, for every reply, all addresses, names and   *)
(* slots, and wherever memory runs out.                                    *)
(*                                                                         *)
(* HeapInv says who holds what.  Both parsers do the same nine things to   *)
(* the nodes, from MakesMaster to AddsOpen below, and it is an invariant   *)
(* of each, wherever the parser is.  Control says where it is, NewNames    *)
(* that the objects it makes next are new, AtMaster what it knows of the   *)
(* master it is at, and Freed what has been freed.                         *)
(***************************************************************************)
EXTENDS Topology, TLAPS

SlotObject == [range : Int \X Int, of : Node]

NodeObject ==
  [role : {"master", "slave"}, addr : Addr, slots : Seq(SlotObject),
   slaves : Seq(Node), migrating : Seq(Nat), importing : Seq(Nat)]

Slaves(m) == Range(node[m].slaves)

HeapType ==
  /\ Made \subseteq Node
  /\ node \in [Made -> NodeObject]
  /\ \A m \in Made : Slaves(m) \subseteq Made
  /\ \A m \in Made : node[m].role = "slave" => node[m].slots = <<>>
  /\ nodes \in [Addr -> Made \union {NULL}]
  /\ nodes_name \in [Name -> Made \union {NULL}]

(* The dict has masters, each under its address; no replica is in two      *)
(* lists, or in one and a stand-in.                                        *)
DictHeld ==
  \A a \in Addr :
    nodes[a] # NULL => node[nodes[a]].role = "master" /\ node[nodes[a]].addr = a

ListsHeld ==
  /\ \A m \in Made : IsInjective(node[m].slaves)
  /\ \A m \in Made : \A x \in Slaves(m) : node[x].role = "slave"
  /\ \A m, n \in Made : \A x \in Slaves(m) : x \in Slaves(n) => m = n

NamesHeld ==
  \A k \in Name : nodes_name[k] # NULL =>
    /\ \A m \in Made : nodes_name[k] \notin Slaves(m)
    /\ \A j \in Name : nodes_name[j] = nodes_name[k] => j = k
    /\ node[nodes_name[k]].role = "master" => nodes_name[k] \in Masters

SlotsHeld ==
  /\ \A m \in Made : IsInjective(node[m].slots)
  /\ \A m, n \in Made : \A x \in Slots(m) : x \in Slots(n) => m = n

SlotObjects == UNION {Slots(m) : m \in Made}

HeapInv == HeapType /\ DictHeld /\ ListsHeld /\ NamesHeld /\ SlotsHeld

(* A node that the dict or a stand-in accounts for.                        *)
Kept(n) == n \in Waiting \/ \E m \in Masters : n \in Owned(node, m)

-----------------------------------------------------------------------------
(* What the parsers do to the nodes.                                       *)

Rests == UNCHANGED <<node, nodes, nodes_name>>

IsNew(n, role, a, ss) ==
  /\ n \in Node /\ n \notin Made
  /\ role \in {"master", "slave"} /\ a \in Addr
  /\ \/ ss = <<>>
     \/ \E s \in SlotObject : /\ role = "master" /\ ss = <<s>>
                              /\ \A m \in Made : s \notin Slots(m)

NewWith(role, a, ss) == [NewNode(role, a) EXCEPT !.slots = ss]

(* A new node goes into the dict, or nowhere, or stands in for a master,   *)
(* or is put into the list of a node that is known.                        *)
MakesMaster(n, a, ss) ==
  /\ IsNew(n, "master", a, ss)
  /\ nodes[a] = NULL
  /\ node' = With(n, NewWith("master", a, ss))
  /\ nodes' = [nodes EXCEPT ![a] = n]
  /\ UNCHANGED nodes_name

MakesLoose(n, role, a) ==
  /\ IsNew(n, role, a, <<>>)
  /\ node' = With(n, NewWith(role, a, <<>>))
  /\ UNCHANGED <<nodes, nodes_name>>

MakesStandIn(n, a, k) ==
  /\ IsNew(n, "slave", a, <<>>)
  /\ k \in Name /\ nodes_name[k] = NULL
  /\ node' = With(n, NewWith("slave", a, <<>>))
  /\ nodes_name' = [nodes_name EXCEPT ![k] = n]
  /\ UNCHANGED nodes

MakesListed(n, a, m) ==
  /\ IsNew(n, "slave", a, <<>>)
  /\ m \in Made
  /\ m \in Masters \/ \E k \in Name : nodes_name[k] = m
  /\ node' = [With(n, NewWith("slave", a, <<>>)) EXCEPT ![m].slaves = Append(@, n)]
  /\ UNCHANGED <<nodes, nodes_name>>

(* A master that has no replicas yet and is not entered under its name.    *)
IsUnnamed(m) ==
  /\ m \in Masters
  /\ node[m].slaves = <<>>
  /\ \A k \in Name : nodes_name[k] # m

NamesMaster(m, k) ==
  /\ IsUnnamed(m)
  /\ k \in Name /\ nodes_name[k] = NULL
  /\ nodes_name' = [nodes_name EXCEPT ![k] = m]
  /\ UNCHANGED <<node, nodes>>

TakesAll(m, k) ==
  LET old == nodes_name[k]
  IN /\ IsUnnamed(m)
     /\ k \in Name /\ old # NULL /\ node[old].role = "slave"
     /\ nodes_name' = [nodes_name EXCEPT ![k] = m]
     /\ node' = [TakeOver(m, old, Len(node[old].slaves)) EXCEPT
                   ![m].slaves = <<old>> \o @]
     /\ UNCHANGED nodes

TakesSome(m, k, i) ==
  LET old == nodes_name[k]
  IN /\ IsUnnamed(m)
     /\ k \in Name /\ old # NULL /\ node[old].role = "slave"
     /\ i \in 0 .. Len(node[old].slaves)
     /\ node' = TakeOver(m, old, i)
     /\ UNCHANGED <<nodes, nodes_name>>

AddsSlot(m, s) ==
  /\ m \in Masters
  /\ s \in SlotObject /\ \A n \in Made : s \notin Slots(n)
  /\ node' = cluster_slot_create(node, m, s)
  /\ UNCHANGED <<nodes, nodes_name>>

AddsOpen(m, kind, j) ==
  /\ m \in Masters /\ j \in Nat
  /\ node' = cluster_open_slot_create(node, m, kind, j)
  /\ UNCHANGED <<nodes, nodes_name>>

(* The open slots of a master of which one was made.                       *)
OpensGrow(m, kind, j) ==
  /\ node'[m].migrating = IF kind = "migrating" THEN Append(node[m].migrating, j)
                          ELSE node[m].migrating
  /\ node'[m].importing = IF kind = "migrating" THEN node[m].importing
                          ELSE Append(node[m].importing, j)

-----------------------------------------------------------------------------
(* Where the parser is.                                                    *)
Control ==
  /\ parser \in {"slots", "nodes"}
  /\ add_slave \in BOOLEAN
  /\ input \in Seq(IF parser = "nodes" THEN Lines ELSE Regions)
  /\ pc \in {"next", "master", "map", "fields", "slave", "region", "error",
             "accepted", "refused"}
  /\ pos \in Nat \ {0}
  /\ found \in Nat
  /\ pc \in {"master", "map", "fields"} =>
       parser = "nodes" /\ input # <<>> /\ Item.role = "master"
  /\ pc = "slave" =>
       parser = "nodes" /\ input # <<>> /\ Item.role = "slave" /\ add_slave
  /\ pc = "region" =>
       /\ parser = "slots" /\ input # <<>> /\ Item.shape = "ok"
       /\ Narrowed(Item)[1] <= Narrowed(Item)[2] /\ pos <= Len(Item.nodes) + 1
  /\ pc \in {"master", "map", "slave"} => pos = 1

(* Whether an object was named before the parser got to where it is.       *)
Before(x) == x[1] < Len(input)

Earlier(x) == Before(x) \/ (x[1] = Len(input) /\ x[2] < pos)

(* The nodes and the slots that are made next have new names.              *)
NewNames ==
  /\ \A m \in Made : m[1] <= Len(input)
  /\ pc \in {"master", "slave"} => \A m \in Made : Before(m)
  /\ pc = "region" => \A m \in Made : Earlier(m)
  /\ \A x \in SlotObjects : x.of[1] <= Len(input)
  /\ pc \in {"master", "map"} \/ slot # NULL => \A x \in SlotObjects : Before(x.of)
  /\ pc = "fields" => \A x \in SlotObjects : Earlier(x.of)
  /\ slot # NULL =>
       /\ slot \in SlotObject /\ slot.of = <<Len(input), 1>>
       /\ parser = "slots" /\ pc \in {"region", "error"}
  /\ pc = "region" => (pos = 1 <=> slot # NULL)
  /\ pc = "region" /\ pos = 1 => slot.range = Narrowed(Item)

(* The local variable master.                                              *)
AtMaster ==
  /\ pc \in {"map", "fields"} \/ (pc = "region" /\ pos > 1) =>
       master = <<Len(input), 1>> /\ master \in Masters
  /\ pc = "map" => add_slave /\ IsUnnamed(master)

Inv == HeapInv /\ Control /\ NewNames /\ AtMaster

MapFailed == failed \in {"map_memory", "map_reply"}

(* What has been freed, and that nothing is lost.                          *)
Freed ==
  /\ DOMAIN frees = Made
  /\ \A n \in Made : frees[n] \in Nat
  /\ pc \notin {"error", "refused"} => \A n \in Made : frees[n] = 0 /\ Kept(n)
  /\ pc = "error" /\ ~MapFailed =>
       \A n \in Made : \/ frees[n] = 0 /\ Kept(n)
                       \/ frees[n] = 1 /\ \A m \in Masters : n \notin Owned(node, m)
  /\ MapFailed => pc \in {"error", "refused"} /\ master \in Masters
  /\ pc = "error" /\ MapFailed =>
       \A n \in Made : /\ Kept(n)
                       /\ frees[n] = IF n \in Owned(node, master) THEN 1 ELSE 0
  /\ pc = "refused" =>
       \A n \in Made : /\ frees[n] = 0 => n \in Waiting
                       /\ frees[n] > 1 => MapFailed /\ n \in Owned(node, master)

-----------------------------------------------------------------------------
(* Sets and lists                                                          *)

(* The cardinality of the sets that have no element or one, by the         *)
(* definition of Cardinality.                                              *)
LEMMA CardinalityOfNone == Cardinality({}) = 0
  <1> DEFINE F(g) == [T \in SUBSET {} |->
                        IF T = {} THEN 0 ELSE 1 + g[T \ {CHOOSE y : y \in T}]]
  <1>1. \E g : g = F(g)
    <2>1. F([T \in SUBSET {} |-> 0]) = [T \in SUBSET {} |-> 0]
      BY Zenon
    <2> QED
      BY <2>1, Zenon
  <1>2. (CHOOSE g : g = F(g)) = F(CHOOSE g : g = F(g))
    BY <1>1, Zenon
  <1>3. Cardinality({}) = (CHOOSE g : g = F(g))[{}]
    BY Zenon DEF Cardinality
  <1> QED
    BY <1>2, <1>3, Zenon

LEMMA CardinalityOfOne ==
  ASSUME NEW x
  PROVE  Cardinality({x}) = 1
  <1> DEFINE F(g) == [T \in SUBSET {x} |->
                        IF T = {} THEN 0 ELSE 1 + g[T \ {CHOOSE y : y \in T}]]
             h == [T \in SUBSET {x} |-> IF T = {} THEN 0 ELSE 1]
  <1>1. {x} \ {CHOOSE y : y \in {x}} = {}
    <2>1. (CHOOSE y : y \in {x}) = x
      BY Zenon
    <2> QED
      BY <2>1, Zenon
  <1>2. \A T \in SUBSET {x} : T = {} \/ T = {x}
    BY Zenon
  <1>3. \E g : g = F(g)
    <2>1. h[{}] = 0
      BY Zenon
    <2>2. 1 + h[{x} \ {CHOOSE y : y \in {x}}] = 1
      BY <1>1, <2>1
    <2>3. \A T \in SUBSET {x} : T # {} => 1 + h[T \ {CHOOSE y : y \in T}] = 1
      BY <1>2, <2>2
    <2>4. h = F(h)
      BY <2>3, Zenon
    <2> QED
      BY <2>4, Zenon
  <1>4. (CHOOSE g : g = F(g)) = F(CHOOSE g : g = F(g))
    BY <1>3, Zenon
  <1>5. Cardinality({x}) = (CHOOSE g : g = F(g))[{x}]
    BY Zenon DEF Cardinality
  <1>6. PICK g : g = F(g) /\ Cardinality({x}) = g[{x}]
    BY <1>4, <1>5, Zenon
  <1>7. g[{}] = 0
    BY <1>6, Zenon
  <1>8. g[{x}] = 1 + g[{x} \ {CHOOSE y : y \in {x}}]
    BY <1>6, Zenon
  <1> QED
    BY <1>1, <1>6, <1>7, <1>8

LEMMA NullIsNoNode == NULL \notin Node
  BY TopologyAssumption, Zenon DEF Node

LEMMA AppendElements ==
  ASSUME NEW S, NEW s \in Seq(S), NEW x \in S
  PROVE  /\ Append(s, x) \in Seq(S)
         /\ Range(Append(s, x)) = Range(s) \union {x}
  <1> DEFINE t == Append(s, x)
  <1>1. t \in Seq(S) /\ Len(t) = Len(s) + 1 /\ t[Len(s) + 1] = x
        /\ \A i \in 1 .. Len(s) : t[i] = s[i]
    OBVIOUS
  <1> HIDE DEF t
  <1>2. DOMAIN t = 1 .. Len(s) + 1 /\ DOMAIN s = 1 .. Len(s) /\ Len(s) \in Nat
    BY <1>1
  <1>3. \A i \in DOMAIN t : i \in DOMAIN s \/ i = Len(s) + 1
    BY <1>2
  <1>4. Range(t) = Range(s) \union {x}
    BY <1>1, <1>2, <1>3 DEF Range
  <1> QED
    BY <1>1, <1>4, Zenon DEF t

LEMMA AppendInjective ==
  ASSUME NEW S, NEW s \in Seq(S), NEW x \in S, IsInjective(s), x \notin Range(s)
  PROVE  IsInjective(Append(s, x))
  <1> DEFINE t == Append(s, x)
  <1>1. t \in Seq(S) /\ Len(t) = Len(s) + 1 /\ t[Len(s) + 1] = x
        /\ \A i \in 1 .. Len(s) : t[i] = s[i]
    OBVIOUS
  <1> HIDE DEF t
  <1>2. DOMAIN t = 1 .. Len(s) + 1 /\ DOMAIN s = 1 .. Len(s) /\ Len(s) \in Nat
    BY <1>1
  <1>3. \A i \in DOMAIN t : i \in DOMAIN s \/ i = Len(s) + 1
    BY <1>2
  <1>4. \A i \in DOMAIN s : t[i] = s[i] /\ t[i] # x
    BY <1>1, <1>2, Zenon DEF Range
  <1>5. IsInjective(t)
    BY <1>1, <1>3, <1>4, Zenon DEF IsInjective
  <1> QED
    BY <1>5, Zenon DEF t

LEMMA SingleList ==
  ASSUME NEW x
  PROVE  Range(<<x>>) = {x} /\ IsInjective(<<x>>)
  <1>1. DOMAIN <<x>> = {1} /\ <<x>>[1] = x
    OBVIOUS
  <1> QED
    BY <1>1, Zenon DEF Range, IsInjective

LEMMA EmptyList == Range(<<>>) = {} /\ IsInjective(<<>>)
  BY DEF Range, IsInjective

(* An element put before a list.                                           *)
LEMMA PutFirst ==
  ASSUME NEW S, NEW u \in Seq(S), NEW k \in S
  PROVE  /\ Range(<<k>> \o u) = {k} \union Range(u)
         /\ IsInjective(u) /\ k \notin Range(u) => IsInjective(<<k>> \o u)
  <1> DEFINE w == <<k>> \o u
  <1>1. w \in Seq(S) /\ Len(w) = Len(u) + 1 /\ w[1] = k
        /\ \A p \in 1 .. Len(u) : w[p + 1] = u[p]
    OBVIOUS
  <1> HIDE DEF w
  <1>2. ASSUME NEW q \in DOMAIN w, q # 1 PROVE q - 1 \in DOMAIN u /\ w[q] = u[q - 1]
    <2>1. q - 1 \in 1 .. Len(u) /\ w[(q - 1) + 1] = u[q - 1]
      BY <1>1, <1>2
    <2> QED
      BY <2>1
  <1>3. ASSUME NEW p \in DOMAIN u PROVE p + 1 \in DOMAIN w /\ w[p + 1] = u[p]
    BY <1>1
  <1>4. ASSUME NEW x PROVE x \in Range(w) <=> x = k \/ x \in Range(u)
    <2>1. ASSUME x \in Range(w), x # k PROVE x \in Range(u)
      BY <1>1, <1>2, <2>1 DEF Range
    <2>2. 1 \in DOMAIN w
      BY <1>1
    <2>3. ASSUME x \in Range(u) PROVE x \in Range(w)
      BY <1>3, <2>3, Zenon DEF Range
    <2> QED
      BY <1>1, <2>1, <2>2, <2>3, Zenon DEF Range
  <1>5. ASSUME IsInjective(u), k \notin Range(u) PROVE IsInjective(w)
    <2>1. \A q \in DOMAIN w : q # 1 => w[q] # k
      BY <1>2, <1>5, Zenon DEF Range
    <2>2. ASSUME NEW p \in DOMAIN w, NEW q \in DOMAIN w, w[p] = w[q], p # 1, q # 1
          PROVE  p = q
      <3>1. p - 1 = q - 1
        BY <1>2, <1>5, <2>2, Zenon DEF IsInjective
      <3> QED
        BY <1>1, <2>2, <3>1
    <2> QED
      BY <1>1, <2>1, <2>2, Zenon DEF IsInjective
  <1> QED
    BY <1>4, <1>5, Zenon DEF w

LEMMA ElementType ==
  ASSUME NEW S, NEW s \in Seq(S), NEW i \in 1 .. Len(s)
  PROVE  s[i] \in S
  OBVIOUS

(* What is left of a list without its first k elements.                    *)
LEMMA Dropped ==
  ASSUME NEW S, NEW s \in Seq(S), NEW k \in 0 .. Len(s)
  PROVE  /\ SubSeq(s, k + 1, Len(s)) \in Seq(S)
         /\ Len(SubSeq(s, k + 1, Len(s))) = Len(s) - k
         /\ \A i \in 1 .. Len(s) - k : SubSeq(s, k + 1, Len(s))[i] = s[i + k]
  <1>1. SubSeq(s, k + 1, Len(s)) \in Seq(S)
    OBVIOUS
  <1>2. Len(SubSeq(s, k + 1, Len(s))) = Len(s) - k
    OBVIOUS
  <1>3. \A i \in 1 .. Len(s) - k : SubSeq(s, k + 1, Len(s))[i] = s[i + k]
    OBVIOUS
  <1> QED
    BY <1>1, <1>2, <1>3, Zenon

(* A list of which the first k elements were pushed to another.            *)
LEMMA PushedElements ==
  ASSUME NEW S, NEW s \in Seq(S), NEW k \in 0 .. Len(s), IsInjective(s)
  PROVE  LET p == Pushed(s, k)
             r == SubSeq(s, k + 1, Len(s))
         IN /\ p \in Seq(S) /\ r \in Seq(S)
            /\ IsInjective(p) /\ IsInjective(r)
            /\ Range(p) \cap Range(r) = {}
            /\ Range(p) \union Range(r) = Range(s)
            /\ k = Len(s) => r = <<>>
  <1> DEFINE p == Pushed(s, k)
             r == SubSeq(s, k + 1, Len(s))
  <1>1. /\ Len(s) \in Nat /\ k \in Nat /\ k <= Len(s)
        /\ DOMAIN s = 1 .. Len(s)
        /\ \A i \in 1 .. Len(s) : s[i] \in S
    OBVIOUS
  <1>2. \A i \in 1 .. k : k + 1 - i \in 1 .. k /\ k + 1 - i \in 1 .. Len(s)
                          /\ k + 1 - (k + 1 - i) = i
    BY <1>1
  <1>3. DOMAIN p = 1 .. k /\ \A i \in 1 .. k : p[i] = s[k + 1 - i]
    BY Zenon DEF Pushed
  <1>4. p \in [1 .. k -> S]
    BY <1>1, <1>2, Zenon DEF Pushed
  <1> HIDE DEF p
  <1>5. p \in Seq(S)
    BY <1>1, <1>4
  <1>6. r \in Seq(S) /\ Len(r) = Len(s) - k
        /\ \A i \in 1 .. Len(s) - k : r[i] = s[i + k]
    BY Dropped, Zenon
  <1>7. k = Len(s) => r = <<>>
    BY <1>1, <1>6
  <1> HIDE DEF r
  <1>8. DOMAIN r = 1 .. Len(s) - k /\ Len(s) - k \in Nat
    BY <1>1, <1>6
  <1>9. \A x : x \in Range(p) <=> \E i \in 1 .. k : x = s[i]
    <2>1. ASSUME NEW i \in 1 .. k PROVE p[k + 1 - i] = s[i] /\ k + 1 - i \in DOMAIN p
      BY <1>2, <1>3, Zenon
    <2>2. ASSUME NEW i \in DOMAIN p PROVE \E j \in 1 .. k : p[i] = s[j]
      BY <1>2, <1>3, Zenon
    <2> QED
      BY <2>1, <2>2, ZenonT(30) DEF Range
  <1>10. \A i \in 1 .. Len(s) - k : i + k \in (k + 1) .. Len(s)
    BY <1>1
  <1>11. \A i \in (k + 1) .. Len(s) : i - k \in 1 .. Len(s) - k /\ i - k + k = i
    BY <1>1
  <1>12. \A x : x \in Range(r) <=> \E i \in (k + 1) .. Len(s) : x = s[i]
    <2>1. ASSUME NEW i \in (k + 1) .. Len(s) PROVE r[i - k] = s[i] /\ i - k \in DOMAIN r
      BY <1>6, <1>8, <1>11, Zenon
    <2>2. ASSUME NEW i \in DOMAIN r PROVE \E j \in (k + 1) .. Len(s) : r[i] = s[j]
      BY <1>6, <1>8, <1>10, Zenon
    <2> QED
      BY <2>1, <2>2, ZenonT(30) DEF Range
  <1>13. \A x : x \in Range(s) <=> \E i \in 1 .. Len(s) : x = s[i]
    BY <1>1, Zenon DEF Range
  <1>14. \A i \in 1 .. Len(s) : i \in 1 .. k \/ i \in (k + 1) .. Len(s)
    BY <1>1
  <1>15. \A i \in 1 .. k : i \in 1 .. Len(s)
    BY <1>1
  <1>16. \A i \in (k + 1) .. Len(s) : i \in 1 .. Len(s) /\ i \notin 1 .. k
    BY <1>1
  <1>17. \A i, j \in 1 .. Len(s) : s[i] = s[j] => i = j
    BY <1>1, Zenon DEF IsInjective
  <1>18. Range(p) \cap Range(r) = {}
    BY <1>9, <1>12, <1>15, <1>16, <1>17
  <1>19. Range(p) \union Range(r) = Range(s)
    BY <1>9, <1>12, <1>13, <1>14, <1>15, <1>16, ZenonT(30)
  <1>20. IsInjective(p)
    BY <1>2, <1>3, <1>17 DEF IsInjective
  <1>21. IsInjective(r)
    <2>1. \A i, j \in 1 .. Len(s) - k : i + k = j + k => i = j
      BY <1>1
    <2> QED
      BY <2>1, <1>6, <1>8, <1>10, <1>16, <1>17 DEF IsInjective
  <1> QED
    BY <1>5, <1>6, <1>7, <1>18, <1>19, <1>20, <1>21, Zenon DEF p, r

-----------------------------------------------------------------------------
(* What the steps do to the nodes, attribute by attribute.                 *)

LEMMA NewWithIs ==
  ASSUME NEW n, NEW role, NEW a, NEW ss, IsNew(n, role, a, ss)
  PROVE  LET r == NewWith(role, a, ss)
         IN /\ r \in NodeObject
            /\ r.role = role /\ r.addr = a /\ r.slots = ss /\ r.slaves = <<>>
  <1>1. ss \in Seq(SlotObject)
    <2>1. CASE ss = <<>>
      BY <2>1
    <2>2. ASSUME NEW s \in SlotObject, ss = <<s>> PROVE ss \in Seq(SlotObject)
      BY <2>2
    <2> QED
      BY <2>1, <2>2, Zenon DEF IsNew
  <1>2. role \in {"master", "slave"} /\ a \in Addr
    BY Zenon DEF IsNew
  <1>3. NewWith(role, a, ss) =
          [role |-> role, addr |-> a, slots |-> ss, slaves |-> <<>>,
           migrating |-> <<>>, importing |-> <<>>]
    BY DEF NewWith, NewNode
  <1>4. <<>> \in Seq(Node) /\ <<>> \in Seq(Nat)
    OBVIOUS
  <1> QED
    BY <1>1, <1>2, <1>3, <1>4 DEF NodeObject

(* The nodes that were there have the role and the address they had.       *)
Keeps ==
  /\ Made \subseteq Made'
  /\ \A m \in Made : node'[m].role = node[m].role /\ node'[m].addr = node[m].addr

KeepsSlots == \A m \in Made : node'[m].slots = node[m].slots

KeepsSlaves == \A m \in Made : node'[m].slaves = node[m].slaves

Grows(n, role, a, ss) ==
  /\ Made' = Made \union {n} /\ n \notin Made /\ n \in Node
  /\ role \in {"master", "slave"} /\ a \in Addr
  /\ node'[n].role = role /\ node'[n].addr = a
  /\ node'[n].slots = ss /\ node'[n].slaves = <<>>
  /\ node' \in [Made' -> NodeObject]

LEMMA WithEffect ==
  ASSUME HeapType, NEW n, NEW role, NEW a, NEW ss, IsNew(n, role, a, ss),
         node' = With(n, NewWith(role, a, ss))
  PROVE  Grows(n, role, a, ss) /\ Keeps /\ KeepsSlots /\ KeepsSlaves
  <1> DEFINE r == NewWith(role, a, ss)
  <1>1. r \in NodeObject /\ r.role = role /\ r.addr = a /\ r.slots = ss /\ r.slaves = <<>>
    BY NewWithIs
  <1>2. n \notin Made
    BY Zenon DEF IsNew
  <1>a. node' = With(n, r)
    BY Zenon DEF r
  <1> HIDE DEF r
  <1>3. /\ DOMAIN node' = Made \union {n} /\ node'[n] = r
        /\ \A m \in Made : node'[m] = node[m]
    BY <1>2, <1>a, Zenon DEF With
  <1>4. Made' = Made \union {n}
    BY <1>3, Zenon DEF Made
  <1>5. node' = [m \in Made \union {n} |-> node'[m]]
    BY Zenon DEF With
  <1>6. \A m \in Made : node[m] \in NodeObject
    BY Zenon DEF HeapType
  <1>7. node' \in [Made' -> NodeObject]
    BY <1>1, <1>3, <1>4, <1>5, <1>6, Zenon
  <1>8. Grows(n, role, a, ss)
    BY <1>1, <1>2, <1>3, <1>4, <1>7, Zenon DEF Grows, IsNew
  <1> QED
    BY <1>3, <1>4, <1>8, Zenon DEF Keeps, KeepsSlots, KeepsSlaves

(* A new node is in no list, and its slots are in no other.                *)
HeapNodes ==
  /\ Made \subseteq Node
  /\ node \in [Made -> NodeObject]
  /\ \A m \in Made : Slaves(m) \subseteq Made
  /\ \A m \in Made : node[m].role = "slave" => node[m].slots = <<>>

LEMMA GrowsNodes ==
  ASSUME HeapType, NEW n, NEW role, NEW a, NEW ss, IsNew(n, role, a, ss),
         Grows(n, role, a, ss), Keeps, KeepsSlots, KeepsSlaves
  PROVE  HeapNodes'
  <1>1. Made' \subseteq Node
    BY Zenon DEF Grows, HeapType
  <1>2. ASSUME NEW m \in Made' PROVE (Slaves(m) \subseteq Made)'
    <2>1. CASE m = n
      BY <2>1, EmptyList, Zenon DEF Grows, Slaves
    <2>2. CASE m \in Made
      <3>1. Slaves(m)' = Slaves(m)
        BY <2>2, Zenon DEF KeepsSlaves, Slaves
      <3> QED
        BY <2>2, <3>1, Zenon DEF Grows, HeapType
    <2> QED
      BY <2>1, <2>2, Zenon DEF Grows
  <1>3. ASSUME NEW m \in Made' PROVE node'[m].role = "slave" => node'[m].slots = <<>>
    <2>1. CASE m = n
      BY <2>1, Zenon DEF Grows, IsNew
    <2>2. CASE m \in Made
      BY <2>2, Zenon DEF Keeps, KeepsSlots, HeapType
    <2> QED
      BY <2>1, <2>2, Zenon DEF Grows
  <1>4. node' \in [Made' -> NodeObject]
    BY Zenon DEF Grows
  <1> QED
    BY <1>1, <1>2, <1>3, <1>4, Zenon DEF HeapNodes

LEMMA GrowsLists ==
  ASSUME HeapInv, NEW n, NEW role, NEW a, NEW ss,
         Grows(n, role, a, ss), Keeps, KeepsSlaves
  PROVE  ListsHeld'
  <1>1. Slaves(n)' = {} /\ IsInjective(node'[n].slaves)
    BY EmptyList, Zenon DEF Grows, Slaves
  <1>2. \A m \in Made : Slaves(m)' = Slaves(m) /\ IsInjective(node'[m].slaves)
    BY Zenon DEF KeepsSlaves, Slaves, HeapInv, ListsHeld
  <1>3. \A m \in Made : \A x \in Slaves(m) : node'[x].role = "slave"
    BY Zenon DEF Keeps, HeapInv, HeapType, ListsHeld
  <1>4. \A m, k \in Made : \A x \in Slaves(m) : x \in Slaves(k) => m = k
    BY Zenon DEF HeapInv, ListsHeld
  <1>5. Made' = Made \union {n}
    BY Zenon DEF Grows
  <1> QED
    BY <1>1, <1>2, <1>3, <1>4, <1>5 DEF ListsHeld

LEMMA GrowsSlots ==
  ASSUME HeapInv, NEW n, NEW role, NEW a, NEW ss, IsNew(n, role, a, ss),
         Grows(n, role, a, ss), KeepsSlots
  PROVE  SlotsHeld'
  <1>1. IsInjective(ss) /\ \A m \in Made : Range(ss) \cap Slots(m) = {}
    <2>1. CASE ss = <<>>
      BY <2>1, EmptyList, Zenon
    <2>2. ASSUME NEW s, ss = <<s>>, \A m \in Made : s \notin Slots(m)
          PROVE  IsInjective(ss) /\ \A m \in Made : Range(ss) \cap Slots(m) = {}
      BY <2>2, SingleList
    <2> QED
      BY <2>1, <2>2, Zenon DEF IsNew
  <1>2. Slots(n)' = Range(ss) /\ IsInjective(node'[n].slots)
    BY <1>1, Zenon DEF Grows, Slots
  <1>3. \A m \in Made : Slots(m)' = Slots(m) /\ IsInjective(node'[m].slots)
    BY Zenon DEF KeepsSlots, Slots, HeapInv, SlotsHeld
  <1>4. \A m, k \in Made : \A x \in Slots(m) : x \in Slots(k) => m = k
    BY Zenon DEF HeapInv, SlotsHeld
  <1>5. Made' = Made \union {n}
    BY Zenon DEF Grows
  <1> QED
    BY <1>1, <1>2, <1>3, <1>4, <1>5 DEF SlotsHeld

(* What is kept stays kept when no list loses a node, no node leaves the   *)
(* dict and no stand-in its name.                                          *)
LEMMA KeptStays ==
  ASSUME HeapInv, Made \subseteq Made', Masters \subseteq Masters',
         \A m \in Made : Slaves(m) \subseteq Slaves(m)',
         \A m \in Made : node'[m].role = node[m].role,
         \A k \in Name : nodes_name[k] # NULL => nodes_name'[k] = nodes_name[k]
  PROVE  \A x \in Made : Kept(x) => Kept(x)'
  <1> SUFFICES ASSUME NEW x \in Made, Kept(x) PROVE Kept(x)'
    BY Zenon
  <1>1. \A m \in Made : x \in Owned(node, m) => x \in Owned(node', m)
    BY Zenon DEF Owned, Slaves
  <1>2. Masters \subseteq Made
    BY DEF Masters, HeapInv, HeapType
  <1>3. CASE x \in Waiting
    <2>1. PICK k \in Name : /\ nodes_name[k] # NULL
                            /\ node[nodes_name[k]].role = "slave"
                            /\ x \in Owned(node, nodes_name[k])
      BY <1>3, Zenon DEF Waiting
    <2>2. nodes_name[k] \in Made /\ nodes_name'[k] = nodes_name[k]
      BY <2>1, Zenon DEF HeapInv, HeapType
    <2>3. x \in Owned(node', nodes_name'[k]) /\ node'[nodes_name'[k]].role = "slave"
      BY <1>1, <2>1, <2>2, Zenon
    <2>4. x \in Made'
      BY Zenon
    <2>5. x \in Waiting'
      BY <2>1, <2>2, <2>3, <2>4, Zenon DEF Waiting
    <2> QED
      BY <2>5, Zenon DEF Kept
  <1>4. CASE \E m \in Masters : x \in Owned(node, m)
    BY <1>1, <1>2, <1>4, Zenon DEF Kept
  <1> QED
    BY <1>3, <1>4, Zenon DEF Kept

LEMMA SlotObjectsSame ==
  ASSUME Made' = Made, \A x \in Made : Slots(x)' = Slots(x)
  PROVE  SlotObjects' = SlotObjects
  BY Zenon DEF SlotObjects

LEMMA SlotObjectsGrow ==
  ASSUME NEW n, NEW T, Made' = Made \union {n}, \A x \in Made : Slots(x)' = Slots(x),
         Slots(n)' = T
  PROVE  SlotObjects' = SlotObjects \union T
  <1>1. ASSUME NEW s, s \in SlotObjects' PROVE s \in SlotObjects \union T
    BY <1>1, Zenon DEF SlotObjects
  <1>2. ASSUME NEW s, s \in SlotObjects \union T PROVE s \in SlotObjects'
    BY <1>2, Zenon DEF SlotObjects
  <1> QED
    BY <1>1, <1>2, Zenon

-----------------------------------------------------------------------------
(* HeapInv is kept by each kind of step, and what was kept is.             *)
Safe == HeapInv' /\ \A x \in Made : Kept(x) => Kept(x)'

LEMMA RestsSafe ==
  ASSUME HeapInv, Rests
  PROVE  Safe
  BY DEF Rests, Safe, HeapInv, HeapType, DictHeld, ListsHeld, NamesHeld, SlotsHeld,
         Slaves, Slots, Made, Masters, Kept, Waiting, Owned

LEMMA MakesMasterSafe ==
  ASSUME HeapInv, NEW n, NEW a, NEW ss, MakesMaster(n, a, ss)
  PROVE  /\ Safe /\ Kept(n)' /\ Masters' = Masters \union {n} /\ IsUnnamed(n)'
         /\ Made' = Made \union {n} /\ SlotObjects' = SlotObjects \union Range(ss)
  <1>1. IsNew(n, "master", a, ss) /\ a \in Addr /\ HeapType
    BY Zenon DEF MakesMaster, IsNew, HeapInv
  <1>2. Grows(n, "master", a, ss) /\ Keeps /\ KeepsSlots /\ KeepsSlaves
    BY <1>1, WithEffect, Zenon DEF MakesMaster
  <1>3. HeapNodes' /\ ListsHeld' /\ SlotsHeld'
    BY <1>1, <1>2, GrowsNodes, GrowsLists, GrowsSlots, Zenon
  <1>4. Made' = Made \union {n} /\ n \notin Made /\ n # NULL
    BY <1>2, NullIsNoNode, Zenon DEF Grows
  <1>5. /\ nodes' \in [Addr -> Made' \union {NULL}] /\ nodes'[a] = n
        /\ \A b \in Addr : b # a => nodes'[b] = nodes[b]
        /\ nodes[a] = NULL
        /\ nodes_name' = nodes_name
    BY <1>1, <1>4, Zenon DEF MakesMaster, HeapType
  <1>6. nodes_name' \in [Name -> Made' \union {NULL}]
    BY <1>1, <1>4, <1>5, Zenon DEF HeapType
  <1>7. Masters' = Masters \union {n}
    BY <1>1, <1>4, <1>5, ZenonT(30) DEF Masters
  <1>8. DictHeld'
    <2>1. ASSUME NEW b \in Addr, nodes'[b] # NULL
          PROVE  node'[nodes'[b]].role = "master" /\ node'[nodes'[b]].addr = b
      <3>1. CASE b = a
        BY <1>2, <1>5, <3>1, Zenon DEF Grows
      <3>2. CASE b # a
        <4>1. nodes'[b] = nodes[b] /\ nodes[b] \in Made
          BY <1>1, <1>5, <2>1, <3>2, Zenon DEF HeapType
        <4> QED
          BY <1>2, <2>1, <4>1, Zenon DEF HeapInv, DictHeld, Keeps
      <3> QED
        BY <3>1, <3>2, Zenon
    <2> QED
      BY <2>1, Zenon DEF DictHeld
  <1>9. Slaves(n)' = {} /\ \A m \in Made : Slaves(m)' = Slaves(m)
    BY <1>2, EmptyList, Zenon DEF Grows, KeepsSlaves, Slaves
  <1>10. NamesHeld'
    <2>1. \A k \in Name : nodes_name[k] # NULL => nodes_name[k] \in Made
      BY <1>1, Zenon DEF HeapType
    <2>2. \A m \in Made : node'[m].role = node[m].role
      BY <1>2, Zenon DEF Keeps
    <2> QED
      BY <1>4, <1>5, <1>7, <1>9, <2>1, <2>2 DEF HeapInv, NamesHeld
  <1>11. \A x \in Made : Kept(x) => Kept(x)'
    BY <1>2, <1>4, <1>5, <1>7, <1>9, KeptStays, Zenon DEF Keeps
  <1>12. n \in Owned(node', n)
    BY Zenon DEF Owned
  <1>13. Kept(n)'
    BY <1>7, <1>12, Zenon DEF Kept
  <1>14. SlotObjects' = SlotObjects \union Range(ss)
    BY <1>2, <1>4, SlotObjectsGrow, Zenon DEF Grows, KeepsSlots, Slots
  <1>15. IsUnnamed(n)'
    BY <1>1, <1>2, <1>4, <1>5, <1>7, Zenon DEF IsUnnamed, Grows, HeapType
  <1> QED
    BY <1>4, <1>14, <1>15, <1>3, <1>5, <1>6, <1>7, <1>8, <1>10, <1>11, <1>13, Zenon
       DEF Safe, HeapInv, HeapType, HeapNodes

LEMMA MakesLooseSafe ==
  ASSUME HeapInv, NEW n, NEW role, NEW a, MakesLoose(n, role, a)
  PROVE  /\ Safe /\ Made' = Made \union {n} /\ n \notin Made /\ SlotObjects' = SlotObjects
         /\ \A m \in Masters' : m \in Made /\ n \notin Owned(node', m)
  <1>1. IsNew(n, role, a, <<>>) /\ a \in Addr /\ HeapType
    BY Zenon DEF MakesLoose, IsNew, HeapInv
  <1>2. Grows(n, role, a, <<>>) /\ Keeps /\ KeepsSlots /\ KeepsSlaves
    BY <1>1, WithEffect, Zenon DEF MakesLoose
  <1>3. HeapNodes' /\ ListsHeld' /\ SlotsHeld'
    BY <1>1, <1>2, GrowsNodes, GrowsLists, GrowsSlots, Zenon
  <1>4. Made' = Made \union {n} /\ n \notin Made
    BY <1>2, Zenon DEF Grows
  <1>5. nodes' = nodes /\ nodes_name' = nodes_name /\ Masters' = Masters
    BY Zenon DEF MakesLoose, Masters
  <1>6. /\ nodes' \in [Addr -> Made' \union {NULL}]
        /\ nodes_name' \in [Name -> Made' \union {NULL}]
    BY <1>1, <1>4, <1>5, Zenon DEF HeapType
  <1>7. DictHeld'
    <2>1. \A b \in Addr : nodes[b] # NULL => nodes[b] \in Made
      BY <1>1, Zenon DEF HeapType
    <2> QED
      BY <1>2, <1>5, <2>1, Zenon DEF HeapInv, DictHeld, Keeps
  <1>8. Slaves(n)' = {} /\ \A m \in Made : Slaves(m)' = Slaves(m)
    BY <1>2, EmptyList, Zenon DEF Grows, KeepsSlaves, Slaves
  <1>9. NamesHeld'
    <2>1. \A k \in Name : nodes_name[k] # NULL => nodes_name[k] \in Made
      BY <1>1, Zenon DEF HeapType
    <2>2. \A m \in Made : node'[m].role = node[m].role
      BY <1>2, Zenon DEF Keeps
    <2> QED
      BY <1>4, <1>5, <1>8, <2>1, <2>2, Zenon DEF HeapInv, NamesHeld
  <1>10. \A x \in Made : Kept(x) => Kept(x)'
    BY <1>2, <1>4, <1>5, <1>8, KeptStays, Zenon DEF Keeps
  <1>11. \A m \in Masters : m \in Made
    BY <1>1, Zenon DEF Masters, HeapType
  <1>12. \A m \in Masters' : m \in Made /\ n \notin Owned(node', m)
    BY <1>1, <1>4, <1>5, <1>8, <1>11, Zenon DEF Owned, Slaves, HeapType
  <1>13. SlotObjects' = SlotObjects \union {}
    BY <1>2, <1>4, EmptyList, SlotObjectsGrow, Zenon DEF Grows, KeepsSlots, Slots
  <1> QED
    BY <1>13, <1>3, <1>4, <1>6, <1>7, <1>9, <1>10, <1>12, Zenon DEF Safe, HeapInv, HeapType, HeapNodes

LEMMA MakesStandInSafe ==
  ASSUME HeapInv, NEW n, NEW a, NEW k, MakesStandIn(n, a, k)
  PROVE  Safe /\ Kept(n)' /\ Made' = Made \union {n} /\ SlotObjects' = SlotObjects
  <1>1. IsNew(n, "slave", a, <<>>) /\ a \in Addr /\ HeapType
    BY Zenon DEF MakesStandIn, IsNew, HeapInv
  <1>2. Grows(n, "slave", a, <<>>) /\ Keeps /\ KeepsSlots /\ KeepsSlaves
    BY <1>1, WithEffect, Zenon DEF MakesStandIn
  <1>3. HeapNodes' /\ ListsHeld' /\ SlotsHeld'
    BY <1>1, <1>2, GrowsNodes, GrowsLists, GrowsSlots, Zenon
  <1>4. Made' = Made \union {n} /\ n \notin Made /\ n # NULL /\ node'[n].role = "slave"
    BY <1>2, NullIsNoNode, Zenon DEF Grows
  <1>5. nodes' = nodes /\ Masters' = Masters
    BY Zenon DEF MakesStandIn, Masters
  <1>6. /\ nodes_name' \in [Name -> Made' \union {NULL}]
        /\ k \in Name /\ nodes_name[k] = NULL /\ nodes_name'[k] = n
        /\ \A j \in Name : j # k => nodes_name'[j] = nodes_name[j]
    BY <1>1, <1>4, Zenon DEF MakesStandIn, HeapType
  <1>7. nodes' \in [Addr -> Made' \union {NULL}]
    BY <1>1, <1>4, <1>5, Zenon DEF HeapType
  <1>8. DictHeld'
    <2>1. \A b \in Addr : nodes[b] # NULL => nodes[b] \in Made
      BY <1>1, Zenon DEF HeapType
    <2> QED
      BY <1>2, <1>5, <2>1, Zenon DEF HeapInv, DictHeld, Keeps
  <1>9. Slaves(n)' = {} /\ \A m \in Made : Slaves(m)' = Slaves(m) /\ Slaves(m) \subseteq Made
    BY <1>1, <1>2, EmptyList, Zenon DEF Grows, KeepsSlaves, Slaves, HeapType
  <1>10. NamesHeld'
    <2>1. \A j \in Name : nodes_name[j] # NULL => nodes_name[j] \in Made
      BY <1>1, Zenon DEF HeapType
    <2>2. \A m \in Made : node'[m].role = node[m].role
      BY <1>2, Zenon DEF Keeps
    <2> QED
      BY <1>4, <1>5, <1>6, <1>9, <2>1, <2>2 DEF HeapInv, NamesHeld
  <1>11. \A x \in Made : Kept(x) => Kept(x)'
    BY <1>2, <1>4, <1>5, <1>6, <1>9, KeptStays, Zenon DEF Keeps
  <1>12. n \in Waiting'
    BY <1>4, <1>6, Zenon DEF Waiting, Owned
  <1>13. SlotObjects' = SlotObjects \union {}
    BY <1>2, <1>4, EmptyList, SlotObjectsGrow, Zenon DEF Grows, KeepsSlots, Slots
  <1> QED
    BY <1>13, <1>3, <1>4, <1>6, <1>7, <1>8, <1>10, <1>11, <1>12, Zenon
       DEF Safe, HeapInv, HeapType, HeapNodes, Kept

(* The replicas of a node change, and nothing else does.                   *)
SameButLists ==
  \A x \in Made : /\ node'[x].role = node[x].role /\ Slots(x)' = Slots(x)
                  /\ node'[x].migrating = node[x].migrating
                  /\ node'[x].importing = node[x].importing

(* A heap after the list of one node was set.                              *)
ListSet(h, g, m, l) ==
  /\ DOMAIN g = DOMAIN h
  /\ g \in [DOMAIN h -> NodeObject]
  /\ \A x \in DOMAIN h : /\ g[x].role = h[x].role /\ g[x].addr = h[x].addr
                         /\ g[x].slots = h[x].slots
                         /\ g[x].migrating = h[x].migrating
                         /\ g[x].importing = h[x].importing
                         /\ x # m => g[x] = h[x]
  /\ g[m].slaves = l

LEMMA ListIsSet ==
  ASSUME NEW D, NEW h \in [D -> NodeObject], NEW m \in D, NEW l \in Seq(Node)
  PROVE  ListSet(h, [h EXCEPT ![m].slaves = l], m, l)
  <1> DEFINE g == [h EXCEPT ![m].slaves = l]
             r == [h[m] EXCEPT !.slaves = l]
  <1>1. h[m] \in NodeObject
    BY Zenon
  <1>2. /\ r \in NodeObject /\ r.slaves = l
        /\ r.role = h[m].role /\ r.addr = h[m].addr /\ r.slots = h[m].slots
        /\ r.migrating = h[m].migrating /\ r.importing = h[m].importing
    BY <1>1, Zenon DEF NodeObject
  <1>3. g = [h EXCEPT ![m] = r]
    BY Zenon
  <1> HIDE DEF r
  <1>4. g \in [D -> NodeObject] /\ g[m] = r /\ \A x \in D : x # m => g[x] = h[x]
    BY <1>2, <1>3, Zenon
  <1> HIDE DEF g
  <1>5. ListSet(h, g, m, l)
    BY <1>2, <1>4, Zenon DEF ListSet
  <1> QED
    BY <1>5, Zenon DEF g

LEMMA MakesListedSafe ==
  ASSUME HeapInv, NEW n, NEW a, NEW m, MakesListed(n, a, m)
  PROVE  /\ Safe /\ Kept(n)' /\ Made' = Made \union {n} /\ Masters' = Masters
         /\ SlotObjects' = SlotObjects /\ SameButLists
         /\ Slaves(m)' = Slaves(m) \union {n} /\ Slaves(n)' = {}
         /\ \A x \in Made : x # m => Slaves(x)' = Slaves(x)
  <1> DEFINE h == With(n, NewWith("slave", a, <<>>))
             l == Append(node[m].slaves, n)
  <1>1. IsNew(n, "slave", a, <<>>) /\ a \in Addr /\ HeapType /\ m \in Made
    BY Zenon DEF MakesListed, IsNew, HeapInv
  <1>2. /\ NewWith("slave", a, <<>>) \in NodeObject
        /\ NewWith("slave", a, <<>>).role = "slave"
        /\ NewWith("slave", a, <<>>).slots = <<>>
        /\ NewWith("slave", a, <<>>).slaves = <<>>
    BY <1>1, NewWithIs
  <1>3. n \notin Made /\ n \in Node /\ n # NULL /\ Made \subseteq Node
    BY <1>1, NullIsNoNode, Zenon DEF IsNew, HeapType
  <1>4. \A x \in Made : node[x] \in NodeObject
    BY <1>1, Zenon DEF HeapType
  <1>5. /\ h \in [Made \union {n} -> NodeObject]
        /\ h[n] = NewWith("slave", a, <<>>)
        /\ \A x \in Made : h[x] = node[x]
    BY <1>2, <1>3, <1>4, Zenon DEF With
  <1>6. node' = [h EXCEPT ![m].slaves = l]
    BY <1>1, <1>3, <1>5, Zenon DEF MakesListed
  <1>7. node[m].slaves \in Seq(Node) /\ IsInjective(node[m].slaves)
    BY <1>1, <1>4, Zenon DEF NodeObject, HeapInv, ListsHeld
  <1>8. Slaves(m) \subseteq Made
    BY <1>1, Zenon DEF HeapType
  <1>9. l \in Seq(Node) /\ Range(l) = Slaves(m) \union {n} /\ IsInjective(l)
    <2>1. n \notin Range(node[m].slaves)
      BY <1>3, <1>8, Zenon DEF Slaves
    <2> QED
      BY <1>3, <1>7, <2>1, AppendElements, AppendInjective DEF Slaves
  <1> HIDE DEF h, l
  <1>10. ListSet(h, node', m, l)
    BY <1>1, <1>5, <1>6, <1>9, ListIsSet, Zenon
  <1>11. DOMAIN h = Made \union {n}
    BY <1>5, Zenon
  <1>12. Made' = Made \union {n} /\ node' \in [Made' -> NodeObject]
    BY <1>10, <1>11, Zenon DEF ListSet, Made
  <1>13. /\ \A x \in Made : /\ node'[x].role = node[x].role /\ node'[x].addr = node[x].addr
                            /\ node'[x].slots = node[x].slots
                            /\ node'[x].migrating = node[x].migrating
                            /\ node'[x].importing = node[x].importing
                            /\ x # m => node'[x] = node[x]
         /\ node'[n].role = "slave" /\ node'[n].slots = <<>> /\ node'[n].slaves = <<>>
    BY <1>1, <1>2, <1>3, <1>5, <1>10, <1>11 DEF ListSet
  <1>14. /\ Slaves(n)' = {} /\ Slaves(m)' = Slaves(m) \union {n}
         /\ \A x \in Made : x # m => Slaves(x)' = Slaves(x)
    BY <1>9, <1>10, <1>13, EmptyList, Zenon DEF ListSet, Slaves
  <1>15. \A x \in Made : Slots(x)' = Slots(x)
    BY <1>13, Zenon DEF Slots
  <1>16. nodes' = nodes /\ nodes_name' = nodes_name /\ Masters' = Masters
    BY Zenon DEF MakesListed, Masters
  <1>17. HeapType'
    <2>1. \A x \in Made' : Slaves(x)' \subseteq Made'
      BY <1>1, <1>12, <1>14 DEF HeapType
    <2>2. \A x \in Made' : node'[x].role = "slave" => node'[x].slots = <<>>
      BY <1>1, <1>12, <1>13 DEF HeapType
    <2>3. nodes' \in [Addr -> Made' \union {NULL}] /\ nodes_name' \in [Name -> Made' \union {NULL}]
      BY <1>1, <1>12, <1>16, Zenon DEF HeapType
    <2>4. Made' \subseteq Node
      BY <1>3, <1>12, Zenon
    <2> QED
      BY <1>12, <2>1, <2>2, <2>3, <2>4, Zenon DEF HeapType
  <1>18. DictHeld'
    <2>1. \A b \in Addr : nodes[b] # NULL => nodes[b] \in Made
      BY <1>1, Zenon DEF HeapType
    <2> QED
      BY <1>13, <1>16, <2>1, ZenonT(30) DEF HeapInv, DictHeld
  <1>19. ListsHeld'
    <2>1. \A x \in Made' : IsInjective(node'[x].slaves)
      <3>1. ASSUME NEW x \in Made' PROVE IsInjective(node'[x].slaves)
        <4>1. CASE x = n
          BY <1>13, <4>1, EmptyList, Zenon
        <4>2. CASE x = m
          BY <1>9, <1>10, <4>2, Zenon DEF ListSet
        <4>3. CASE x \in Made /\ x # m
          BY <1>13, <4>3, Zenon DEF HeapInv, ListsHeld
        <4> QED
          BY <1>12, <4>1, <4>2, <4>3, Zenon
      <3> QED
        BY <3>1, Zenon
    <2>2. \A x \in Made : \A y \in Slaves(x) : y \in Made /\ node'[y].role = "slave"
      BY <1>1, <1>13, Zenon DEF HeapType, HeapInv, ListsHeld
    <2>3. \A x, z \in Made : \A y \in Slaves(x) : y \in Slaves(z) => x = z
      BY Zenon DEF HeapInv, ListsHeld
    <2>4. \A x \in Made' : \A y \in Slaves(x)' : node'[y].role = "slave"
      BY <1>12, <1>13, <1>14, <2>2
    <2>5. \A x, z \in Made' : \A y \in Slaves(x)' : y \in Slaves(z)' => x = z
      BY <1>3, <1>12, <1>14, <2>2, <2>3
    <2> QED
      BY <2>1, <2>4, <2>5, Zenon DEF ListsHeld
  <1>20. SlotsHeld'
    <2>1. Slots(n)' = {} /\ IsInjective(node'[n].slots)
      BY <1>13, EmptyList, Zenon DEF Slots
    <2>2. \A x \in Made : IsInjective(node'[x].slots)
      BY <1>13, Zenon DEF HeapInv, SlotsHeld
    <2>3. \A x, z \in Made : \A y \in Slots(x) : y \in Slots(z) => x = z
      BY Zenon DEF HeapInv, SlotsHeld
    <2> QED
      BY <1>12, <1>15, <2>1, <2>2, <2>3 DEF SlotsHeld
  <1>21. NamesHeld'
    <2>1. \A k \in Name : nodes_name[k] # NULL => nodes_name[k] \in Made
      BY <1>1, Zenon DEF HeapType
    <2> QED
      BY <1>3, <1>12, <1>13, <1>14, <1>16, <2>1 DEF HeapInv, NamesHeld
  <1>22. \A x \in Made : Kept(x) => Kept(x)'
    <2>1. \A x \in Made : Slaves(x) \subseteq Slaves(x)'
      BY <1>14, Zenon
    <2> QED
      BY <1>12, <1>13, <1>16, <2>1, KeptStays, Zenon
  <1>23. Kept(n)'
    <2>1. n \in Owned(node', m)
      BY <1>14, Zenon DEF Owned, Slaves
    <2>2. CASE m \in Masters
      BY <1>16, <2>1, <2>2, Zenon DEF Kept
    <2>3. ASSUME NEW k \in Name, nodes_name[k] = m, m \notin Masters PROVE Kept(n)'
      <3>1. m # NULL
        BY <1>1, NullIsNoNode, Zenon DEF HeapType
      <3>2. node[m].role = "slave"
        BY <1>1, <1>4, <2>3, <3>1, Zenon DEF HeapInv, NamesHeld, NodeObject
      <3>3. n \in Waiting'
        BY <1>1, <1>12, <1>13, <1>16, <2>1, <2>3, <3>1, <3>2, Zenon DEF Waiting
      <3> QED
        BY <3>3, Zenon DEF Kept
    <2> QED
      BY <2>2, <2>3, Zenon DEF MakesListed
  <1>24. SlotObjects' = SlotObjects \union {}
    <2>1. Slots(n)' = {}
      BY <1>13, EmptyList, Zenon DEF Slots
    <2> QED
      BY <1>12, <1>15, <2>1, SlotObjectsGrow, Zenon
  <1>25. SameButLists
    BY <1>13, <1>15, Zenon DEF SameButLists
  <1> QED
    BY <1>24, <1>12, <1>14, <1>16, <1>17, <1>18, <1>19, <1>20, <1>21, <1>22, <1>23, <1>25, Zenon
       DEF Safe, HeapInv

LEMMA NamesMasterSafe ==
  ASSUME HeapInv, NEW m, NEW k, NamesMaster(m, k)
  PROVE  Safe /\ Masters' = Masters /\ Made' = Made /\ SlotObjects' = SlotObjects
  <1>1. m \in Masters /\ m \in Made /\ m # NULL /\ node[m].role = "master"
    BY DEF NamesMaster, IsUnnamed, Masters, HeapInv, HeapType, DictHeld
  <1>2. node' = node /\ nodes' = nodes /\ Made' = Made /\ Masters' = Masters
    BY Zenon DEF NamesMaster, Made, Masters
  <1>3. /\ nodes_name' \in [Name -> Made' \union {NULL}]
        /\ k \in Name /\ nodes_name[k] = NULL /\ nodes_name'[k] = m
        /\ \A j \in Name : nodes_name[j] # m
        /\ \A j \in Name : j # k => nodes_name'[j] = nodes_name[j]
    BY <1>1, <1>2, Zenon DEF NamesMaster, IsUnnamed, HeapInv, HeapType
  <1>4. \A x : Slaves(x)' = Slaves(x) /\ Slots(x)' = Slots(x)
    BY <1>2, Zenon DEF Slaves, Slots
  <1>5. HeapType' /\ DictHeld' /\ ListsHeld' /\ SlotsHeld'
    BY <1>2, <1>3, <1>4 DEF HeapInv, HeapType, DictHeld, ListsHeld, SlotsHeld
  <1>6. \A x \in Made : m \notin Slaves(x)
    BY <1>1, Zenon DEF HeapInv, ListsHeld
  <1>7. NamesHeld'
    BY <1>1, <1>2, <1>3, <1>4, <1>6 DEF HeapInv, NamesHeld
  <1>8. \A x \in Made : Kept(x) => Kept(x)'
    <2>1. \A j \in Name : nodes_name[j] # NULL => nodes_name'[j] = nodes_name[j]
      BY <1>3, Zenon
    <2>2. \A x \in Made : Slaves(x) \subseteq Slaves(x)' /\ node'[x].role = node[x].role
      BY <1>2, <1>4, Zenon
    <2> QED
      BY <1>2, <2>1, <2>2, KeptStays, Zenon
  <1>20. SlotObjects' = SlotObjects
    BY <1>2, <1>4, SlotObjectsSame, Zenon
  <1> QED
    BY <1>20, <1>2, <1>5, <1>7, <1>8, Zenon DEF Safe, HeapInv

(* The replicas that have moved, and those that have not.                  *)
TookOver(g, p, r, m, old) ==
  /\ m \in Made /\ m # old /\ node[m].role = "master"
  /\ DOMAIN g = Made /\ g \in [Made -> NodeObject]
  /\ g[m].slaves = p /\ g[old].slaves = r
  /\ \A x \in Made : /\ g[x].role = node[x].role /\ g[x].addr = node[x].addr
                     /\ g[x].slots = node[x].slots
                     /\ g[x].migrating = node[x].migrating
                     /\ g[x].importing = node[x].importing
                     /\ x # m /\ x # old => g[x] = node[x]
  /\ p \in Seq(Node) /\ r \in Seq(Node) /\ IsInjective(p) /\ IsInjective(r)
  /\ Range(p) \cap Range(r) = {}
  /\ Range(p) \union Range(r) = Slaves(old)

LEMMA TakeOverIs ==
  ASSUME HeapInv, NEW m, NEW old \in Made, m \in Masters, node[old].role = "slave",
         NEW i \in 0 .. Len(node[old].slaves)
  PROVE  /\ TookOver(TakeOver(m, old, i), Pushed(node[old].slaves, i),
                     SubSeq(node[old].slaves, i + 1, Len(node[old].slaves)), m, old)
         /\ i = Len(node[old].slaves) =>
              SubSeq(node[old].slaves, i + 1, Len(node[old].slaves)) = <<>>
  <1> DEFINE p == Pushed(node[old].slaves, i)
             r == SubSeq(node[old].slaves, i + 1, Len(node[old].slaves))
             f == [node EXCEPT ![m].slaves = p]
             g == [f EXCEPT ![old].slaves = r]
  <1>1. m \in Made /\ node[m].role = "master" /\ m # old
    BY DEF Masters, HeapInv, HeapType, DictHeld
  <1>2. node \in [Made -> NodeObject] /\ node[old].slaves \in Seq(Node)
        /\ IsInjective(node[old].slaves)
    BY Zenon DEF HeapInv, HeapType, ListsHeld, NodeObject
  <1>3. /\ p \in Seq(Node) /\ r \in Seq(Node)
        /\ IsInjective(p) /\ IsInjective(r)
        /\ Range(p) \cap Range(r) = {}
        /\ Range(p) \union Range(r) = Slaves(old)
        /\ i = Len(node[old].slaves) => r = <<>>
    BY <1>2, PushedElements, Zenon DEF Slaves
  <1>4. TakeOver(m, old, i) = g
    BY <1>1, <1>2, Zenon DEF TakeOver
  <1> HIDE DEF p, r
  <1>5. ListSet(node, f, m, p)
    BY <1>1, <1>2, <1>3, ListIsSet, Zenon
  <1> HIDE DEF f
  <1>6. f \in [Made -> NodeObject]
    BY <1>5, Zenon DEF ListSet, Made
  <1>7. ListSet(f, g, old, r)
    BY <1>3, <1>6, ListIsSet, Zenon
  <1> HIDE DEF g
  <1>8. DOMAIN f = Made /\ DOMAIN node = Made
    BY <1>5, Zenon DEF ListSet, Made
  <1>9. /\ DOMAIN g = Made /\ g \in [Made -> NodeObject]
        /\ g[m].slaves = p /\ g[old].slaves = r
        /\ \A x \in Made : /\ g[x].role = node[x].role /\ g[x].addr = node[x].addr
                           /\ g[x].slots = node[x].slots
                           /\ g[x].migrating = node[x].migrating
                           /\ g[x].importing = node[x].importing
                           /\ x # m /\ x # old => g[x] = node[x]
    BY <1>1, <1>5, <1>7, <1>8 DEF ListSet
  <1>10. TookOver(g, p, r, m, old)
    BY <1>1, <1>3, <1>9, Zenon DEF TookOver
  <1> QED
    BY <1>3, <1>4, <1>10, Zenon DEF p, r

LEMMA TakesSomeSafe ==
  ASSUME HeapInv, NEW m, NEW k, NEW i, TakesSome(m, k, i)
  PROVE  Safe /\ Masters' = Masters /\ Made' = Made /\ SlotObjects' = SlotObjects
  <1>a. nodes_name[k] \in Made
    BY Zenon DEF TakesSome, HeapInv, HeapType
  <1>b. PICK old \in Made : old = nodes_name[k]
    BY <1>a, Zenon
  <1>1. /\ m \in Masters /\ k \in Name /\ old # NULL
        /\ node[old].role = "slave" /\ i \in 0 .. Len(node[old].slaves)
        /\ node[m].slaves = <<>> /\ \A j \in Name : nodes_name[j] # m
        /\ node' = TakeOver(m, old, i)
    BY <1>b, Zenon DEF TakesSome, IsUnnamed
  <1>c. PICK p, r : p = Pushed(node[old].slaves, i)
                    /\ r = SubSeq(node[old].slaves, i + 1, Len(node[old].slaves))
    BY Zenon
  <1>d. TookOver(node', p, r, m, old)
    BY <1>1, <1>c, TakeOverIs, Zenon
  <1>2. /\ m \in Made /\ m # old /\ node[m].role = "master"
        /\ DOMAIN node' = Made /\ node' \in [Made -> NodeObject]
        /\ node'[m].slaves = p /\ node'[old].slaves = r
        /\ \A x \in Made : /\ node'[x].role = node[x].role /\ node'[x].addr = node[x].addr
                           /\ node'[x].slots = node[x].slots
                           /\ x # m /\ x # old => node'[x] = node[x]
        /\ p \in Seq(Node) /\ r \in Seq(Node) /\ IsInjective(p) /\ IsInjective(r)
        /\ Range(p) \cap Range(r) = {}
        /\ Range(p) \union Range(r) = Slaves(old)
    BY <1>d, Zenon DEF TookOver
  <1>3. Made' = Made /\ nodes' = nodes /\ nodes_name' = nodes_name /\ Masters' = Masters
    BY <1>2 DEF TakesSome, Made, Masters
  <1>4. /\ Slaves(m) = {} /\ Slaves(m)' = Range(p) /\ Slaves(old)' = Range(r)
        /\ \A x \in Made : x # m /\ x # old => Slaves(x)' = Slaves(x)
    BY <1>1, <1>2, EmptyList, Zenon DEF Slaves
  <1>5. \A x \in Made : Slots(x)' = Slots(x)
    BY <1>2, Zenon DEF Slots
  <1>6. \A x \in Made : Slaves(x) \subseteq Made
    BY Zenon DEF HeapInv, HeapType
  <1>7. HeapType'
    <2>1. \A x \in Made : Slaves(x)' \subseteq Made
      BY <1>1, <1>2, <1>4, <1>6
    <2>2. \A x \in Made : node'[x].role = "slave" => node'[x].slots = <<>>
      BY <1>2, ZenonT(30) DEF HeapInv, HeapType
    <2> QED
      BY <1>2, <1>3, <2>1, <2>2, Zenon DEF HeapInv, HeapType
  <1>8. DictHeld'
    <2>1. \A b \in Addr : nodes[b] # NULL => nodes[b] \in Made
      BY Zenon DEF HeapInv, HeapType
    <2> QED
      BY <1>2, <1>3, <2>1 DEF HeapInv, DictHeld
  <1>9. ListsHeld'
    <2>1. \A x \in Made : IsInjective(node'[x].slaves)
      <3>1. \A x \in Made : x # m /\ x # old => IsInjective(node'[x].slaves)
        BY <1>2, ZenonT(30) DEF HeapInv, ListsHeld
      <3> QED
        BY <1>2, <3>1, Zenon
    <2>2. \A x \in Made : \A y \in Slaves(x) : y \in Made /\ node'[y].role = "slave"
      BY <1>2, <1>6 DEF HeapInv, ListsHeld
    <2>3. \A x, z \in Made : \A y \in Slaves(x) : y \in Slaves(z) => x = z
      BY Zenon DEF HeapInv, ListsHeld
    <2>4. \A x \in Made : \A y \in Slaves(x)' : node'[y].role = "slave"
      BY <1>1, <1>2, <1>4, <2>2
    <2>5. \A x, z \in Made : \A y \in Slaves(x)' : y \in Slaves(z)' => x = z
      BY <1>1, <1>2, <1>4, <2>3
    <2> QED
      BY <1>3, <2>1, <2>4, <2>5, Zenon DEF ListsHeld
  <1>10. SlotsHeld'
    BY <1>2, <1>3, <1>5 DEF HeapInv, SlotsHeld
  <1>11. NamesHeld'
    <2>1. \A j \in Name : nodes_name[j] # NULL => nodes_name[j] \in Made
      BY Zenon DEF HeapInv, HeapType
    <2>2. \A j \in Name : nodes_name[j] # NULL => \A x \in Made : nodes_name[j] \notin Slaves(x)'
      <3>1. ASSUME NEW j \in Name, nodes_name[j] # NULL, NEW x \in Made
            PROVE  nodes_name[j] \notin Slaves(x)'
        <4>1. nodes_name[j] \notin Slaves(x) /\ nodes_name[j] \notin Slaves(old)
          BY <1>1, <1>b, <3>1, Zenon DEF HeapInv, NamesHeld
        <4> QED
          BY <1>2, <1>4, <4>1
      <3> QED
        BY <3>1, Zenon
    <2> QED
      BY <1>2, <1>3, <2>1, <2>2, ZenonT(30) DEF HeapInv, NamesHeld
  <1>12. \A x \in Made : Kept(x) => Kept(x)'
    <2> SUFFICES ASSUME NEW x \in Made, Kept(x) PROVE Kept(x)'
      BY Zenon
    <2>1. CASE \E z \in Masters : x \in Owned(node, z)
      <3>1. PICK z \in Masters : x \in Owned(node, z)
        BY <2>1, Zenon
      <3>2. z \in Made /\ z # old
        BY <1>1 DEF Masters, HeapInv, HeapType, DictHeld
      <3>3. x \in Owned(node', z)
        BY <1>4, <3>1, <3>2, Zenon DEF Owned, Slaves
      <3> QED
        BY <1>3, <3>3, Zenon DEF Kept
    <2>2. CASE x \in Waiting
      <3>1. PICK j \in Name : /\ nodes_name[j] # NULL
                              /\ node[nodes_name[j]].role = "slave"
                              /\ x \in Owned(node, nodes_name[j])
        BY <2>2, Zenon DEF Waiting
      <3>a. PICK z : z = nodes_name[j]
        BY Zenon
      <3>2. z \in Made /\ z # m
        BY <1>1, <3>1, <3>a, Zenon DEF HeapInv, HeapType
      <3>3. CASE x \in Owned(node', z)
        <4>1. x \in Waiting'
          BY <1>2, <1>3, <3>1, <3>a, <3>2, <3>3, Zenon DEF Waiting
        <4> QED
          BY <4>1, Zenon DEF Kept
      <3>4. CASE x \notin Owned(node', z)
        <4>1. z = old /\ x \in Slaves(old) /\ x \notin Slaves(old)'
          BY <1>4, <3>1, <3>a, <3>2, <3>4, Zenon DEF Owned, Slaves
        <4>2. x \in Slaves(m)'
          BY <1>2, <1>4, <4>1, Zenon
        <4>3. x \in Owned(node', m)
          BY <4>2, Zenon DEF Owned, Slaves
        <4> QED
          BY <1>1, <1>3, <4>3, Zenon DEF Kept
      <3> QED
        BY <3>3, <3>4, Zenon
    <2> QED
      BY <2>1, <2>2, Zenon DEF Kept
  <1>20. SlotObjects' = SlotObjects
    BY <1>3, <1>5, SlotObjectsSame, Zenon
  <1> QED
    BY <1>20, <1>3, <1>7, <1>8, <1>9, <1>10, <1>11, <1>12, Zenon DEF Safe, HeapInv

LEMMA TakesAllSafe ==
  ASSUME HeapInv, NEW m, NEW k, TakesAll(m, k)
  PROVE  /\ Safe /\ Masters' = Masters /\ Made' = Made /\ SlotObjects' = SlotObjects
         /\ SameButLists
         /\ \A old : old = nodes_name[k] =>
              /\ Slaves(m)' = {old} \union Slaves(old)
              /\ \A x \in Made : x # m /\ x # old => Slaves(x)' = Slaves(x)
  <1>a. nodes_name[k] \in Made
    BY Zenon DEF TakesAll, HeapInv, HeapType
  <1>b. PICK old \in Made : old = nodes_name[k]
    BY <1>a, Zenon
  <1>c. PICK i \in 0 .. Len(node[old].slaves) : i = Len(node[old].slaves)
    <2>1. node[old].slaves \in Seq(Node)
      BY Zenon DEF HeapInv, HeapType, NodeObject
    <2> QED
      BY <2>1
  <1>d. PICK g, p, r : /\ g = TakeOver(m, old, i) /\ p = Pushed(node[old].slaves, i)
                       /\ r = SubSeq(node[old].slaves, i + 1, Len(node[old].slaves))
    BY Zenon
  <1>1. /\ m \in Masters /\ k \in Name /\ old # NULL
        /\ node[old].role = "slave"
        /\ node[m].slaves = <<>> /\ \A j \in Name : nodes_name[j] # m
        /\ node' = [g EXCEPT ![m].slaves = <<old>> \o @]
        /\ nodes' = nodes /\ nodes_name' = [nodes_name EXCEPT ![k] = m]
    BY <1>b, <1>c, <1>d, Zenon DEF TakesAll, IsUnnamed
  <1>2. TookOver(g, p, r, m, old) /\ r = <<>>
    BY <1>1, <1>c, <1>d, TakeOverIs, Zenon
  <1>3. old \in Node /\ old \notin Slaves(old) /\ \A x \in Made : old \notin Slaves(x)
    BY <1>1, <1>b, Zenon DEF HeapInv, HeapType, NamesHeld
  <1>e. PICK l : l = <<old>> \o p
    BY Zenon
  <1>4. l \in Seq(Node) /\ IsInjective(l) /\ Range(l) = {old} \union Slaves(old)
    <2>1. p \in Seq(Node) /\ IsInjective(p) /\ Range(p) = Slaves(old)
      BY <1>2, EmptyList, Zenon DEF TookOver
    <2>2. IsInjective(l)
      BY <1>3, <1>e, <2>1, PutFirst, Zenon
    <2>3. \A x : x \in Range(l) <=> x = old \/ x \in Range(p)
      BY <1>3, <1>e, <2>1, PutFirst
    <2>4. l \in Seq(Node)
      BY <1>3, <1>e, <2>1
    <2> QED
      BY <2>1, <2>2, <2>3, <2>4, Zenon
  <1>5. node' = [g EXCEPT ![m].slaves = l] /\ m \in Made /\ g \in [Made -> NodeObject]
    BY <1>1, <1>2, <1>e, Zenon DEF TookOver
  <1>6. ListSet(g, node', m, l)
    BY <1>4, <1>5, ListIsSet, Zenon
  <1>7. /\ m # old /\ node[m].role = "master"
        /\ DOMAIN node' = Made /\ node' \in [Made -> NodeObject]
        /\ node'[m].slaves = l /\ node'[old].slaves = <<>>
        /\ \A x \in Made : /\ node'[x].role = node[x].role /\ node'[x].addr = node[x].addr
                           /\ node'[x].slots = node[x].slots
                           /\ node'[x].migrating = node[x].migrating
                           /\ node'[x].importing = node[x].importing
                           /\ x # m /\ x # old => node'[x] = node[x]
    BY <1>2, <1>6 DEF ListSet, TookOver
  <1>8. Made' = Made /\ Masters' = Masters
    BY <1>1, <1>7 DEF Made, Masters
  <1>9. /\ nodes_name' \in [Name -> Made \union {NULL}] /\ nodes_name'[k] = m
        /\ \A j \in Name : j # k => nodes_name'[j] = nodes_name[j]
    BY <1>1, <1>5, Zenon DEF HeapInv, HeapType
  <1>10. /\ Slaves(m) = {} /\ Slaves(m)' = {old} \union Slaves(old) /\ Slaves(old)' = {}
         /\ \A x \in Made : x # m /\ x # old => Slaves(x)' = Slaves(x)
    BY <1>1, <1>4, <1>7, EmptyList, Zenon DEF Slaves
  <1>11. \A x \in Made : Slots(x)' = Slots(x)
    BY <1>7, Zenon DEF Slots
  <1>12. \A x \in Made : Slaves(x) \subseteq Made
    BY Zenon DEF HeapInv, HeapType
  <1>13. HeapType'
    <2>1. \A x \in Made : Slaves(x)' \subseteq Made
      BY <1>5, <1>10, <1>12, Zenon
    <2>2. \A x \in Made : node'[x].role = "slave" => node'[x].slots = <<>>
      BY <1>7 DEF HeapInv, HeapType
    <2> QED
      BY <1>1, <1>7, <1>8, <1>9, <2>1, <2>2, ZenonT(30) DEF HeapInv, HeapType
  <1>14. DictHeld'
    <2>1. \A b \in Addr : nodes[b] # NULL => nodes[b] \in Made
      BY Zenon DEF HeapInv, HeapType
    <2>2. \A b \in Addr : nodes[b] # NULL => /\ node'[nodes[b]].role = node[nodes[b]].role
                                            /\ node'[nodes[b]].addr = node[nodes[b]].addr
      BY <1>7, <2>1, Zenon
    <2> QED
      BY <1>1, <2>2, ZenonT(30) DEF HeapInv, DictHeld
  <1>15. ListsHeld'
    <2>1. \A x \in Made : IsInjective(node'[x].slaves)
      <3>1. \A x \in Made : x # m /\ x # old => IsInjective(node'[x].slaves)
        BY <1>7, Zenon DEF HeapInv, ListsHeld
      <3> QED
        BY <1>4, <1>7, <3>1, EmptyList, Zenon
    <2>2. \A x \in Made : \A y \in Slaves(x) : y \in Made /\ node'[y].role = "slave"
      BY <1>7, <1>12 DEF HeapInv, ListsHeld
    <2>3. \A x, z \in Made : \A y \in Slaves(x) : y \in Slaves(z) => x = z
      BY Zenon DEF HeapInv, ListsHeld
    <2>4. \A x \in Made : \A y \in Slaves(x)' : node'[y].role = "slave"
      BY <1>1, <1>7, <1>10, <2>2
    <2>5. \A x, z \in Made : \A y \in Slaves(x)' : y \in Slaves(z)' => x = z
      BY <1>3, <1>10, <2>3
    <2> QED
      BY <1>8, <2>1, <2>4, <2>5, Zenon DEF ListsHeld
  <1>16. SlotsHeld'
    BY <1>7, <1>8, <1>11 DEF HeapInv, SlotsHeld
  <1>17. m # NULL
    BY <1>1, Zenon DEF Masters
  <1>18. NamesHeld'
    <2>1. \A x \in Made : \A y \in Slaves(x) : node[y].role = "slave"
      BY Zenon DEF HeapInv, ListsHeld
    <2>2. \A x \in Made : m \notin Slaves(x)'
      BY <1>7, <1>10, <2>1
    <2>3. ASSUME NEW j \in Name, j # k, nodes_name[j] # NULL
          PROVE  /\ \A x \in Made : nodes_name[j] \notin Slaves(x)'
                 /\ nodes_name[j] \in Made /\ nodes_name[j] # m
      <3>1. nodes_name[j] # old /\ nodes_name[j] # m /\ nodes_name[j] \in Made
        BY <1>1, <1>b, <2>3, Zenon DEF HeapInv, HeapType, NamesHeld
      <3>2. \A x \in Made : nodes_name[j] \notin Slaves(x)
        BY <2>3, Zenon DEF HeapInv, NamesHeld
      <3> QED
        BY <1>10, <3>1, <3>2, Zenon
    <2>4. ASSUME NEW j \in Name, nodes_name'[j] # NULL
          PROVE  /\ \A x \in Made : nodes_name'[j] \notin Slaves(x)'
                 /\ \A q \in Name : nodes_name'[q] = nodes_name'[j] => q = j
                 /\ node'[nodes_name'[j]].role = "master" => nodes_name'[j] \in Masters
      <3>1. CASE j = k
        BY <1>1, <1>9, <1>17, <2>2, <2>3, <3>1, ZenonT(30)
      <3>2. CASE j # k
        <4>1. nodes_name'[j] = nodes_name[j] /\ nodes_name[j] # NULL
          BY <1>9, <2>4, <3>2, Zenon
        <4>2. node[nodes_name[j]].role = "master" => nodes_name[j] \in Masters
          BY <4>1, Zenon DEF HeapInv, NamesHeld
        <4>3. \A q \in Name : nodes_name[q] = nodes_name[j] => q = j
          BY <4>1, Zenon DEF HeapInv, NamesHeld
        <4> QED
          BY <1>7, <1>9, <2>3, <3>2, <4>1, <4>2, <4>3
      <3> QED
        BY <3>1, <3>2, Zenon
    <2> QED
      BY <1>8, <2>4, Zenon DEF NamesHeld
  <1>19. \A x \in Made : Kept(x) => Kept(x)'
    <2> SUFFICES ASSUME NEW x \in Made, Kept(x) PROVE Kept(x)'
      BY Zenon
    <2>1. CASE \E z \in Masters : x \in Owned(node, z)
      <3>1. PICK z \in Masters : x \in Owned(node, z)
        BY <2>1, Zenon
      <3>2. z \in Made /\ z # old
        BY <1>1 DEF Masters, HeapInv, HeapType, DictHeld
      <3>3. x \in Owned(node', z)
        BY <1>10, <3>1, <3>2, Zenon DEF Owned, Slaves
      <3> QED
        BY <1>8, <3>3, Zenon DEF Kept
    <2>2. CASE x \in Waiting
      <3>1. PICK j \in Name : /\ nodes_name[j] # NULL
                              /\ node[nodes_name[j]].role = "slave"
                              /\ x \in Owned(node, nodes_name[j])
        BY <2>2, Zenon DEF Waiting
      <3>a. PICK z : z = nodes_name[j]
        BY Zenon
      <3>2. z \in Made /\ z # m
        BY <1>1, <3>1, <3>a, Zenon DEF HeapInv, HeapType
      <3>3. CASE z # old
        <4>1. x \in Owned(node', z) /\ j # k
          BY <1>10, <1>b, <3>1, <3>a, <3>2, <3>3, Zenon DEF Owned, Slaves
        <4>2. x \in Waiting'
          BY <1>7, <1>8, <1>9, <3>1, <3>a, <3>2, <4>1 DEF Waiting
        <4> QED
          BY <4>2, Zenon DEF Kept
      <3>4. CASE z = old
        <4>1. x \in Slaves(m)'
          BY <1>10, <3>1, <3>a, <3>4, Zenon DEF Owned, Slaves
        <4>2. x \in Owned(node', m)
          BY <4>1, Zenon DEF Owned, Slaves
        <4> QED
          BY <1>1, <1>8, <4>2, Zenon DEF Kept
      <3> QED
        BY <3>3, <3>4, Zenon
    <2> QED
      BY <2>1, <2>2, Zenon DEF Kept
  <1>20. SlotObjects' = SlotObjects
    BY <1>8, <1>11, SlotObjectsSame, Zenon
  <1>21. SameButLists
    BY <1>7, <1>11, Zenon DEF SameButLists
  <1> QED
    BY <1>b, <1>10, <1>20, <1>21, <1>8, <1>13, <1>14, <1>15, <1>16, <1>18, <1>19, Zenon
       DEF Safe, HeapInv

(* Only the slots of m change.                                             *)
LEMMA SlotsOnlySafe ==
  ASSUME HeapInv, NEW m, m \in Masters,
         UNCHANGED <<nodes, nodes_name>>, Made' = Made,
         node' \in [Made -> NodeObject],
         \A x \in Made : /\ node'[x].role = node[x].role /\ node'[x].addr = node[x].addr
                         /\ node'[x].slaves = node[x].slaves
                         /\ x # m => node'[x] = node[x],
         SlotsHeld'
  PROVE  Safe /\ Masters' = Masters
  <1>1. node[m].role = "master" /\ m \in Made
    BY DEF Masters, HeapInv, HeapType, DictHeld
  <1>2. Masters' = Masters /\ \A x \in Made : Slaves(x)' = Slaves(x)
    BY ZenonT(30) DEF Masters, Slaves
  <1>3. HeapType'
    BY <1>1, <1>2 DEF HeapInv, HeapType
  <1>4. DictHeld'
    <2>1. \A b \in Addr : nodes[b] # NULL => nodes[b] \in Made
      BY Zenon DEF HeapInv, HeapType
    <2> QED
      BY <2>1 DEF HeapInv, DictHeld
  <1>5. ListsHeld'
    <2>1. \A x \in Made : \A y \in Slaves(x) : y \in Made
      BY Zenon DEF HeapInv, HeapType
    <2> QED
      BY <1>2, <2>1 DEF HeapInv, ListsHeld
  <1>6. NamesHeld'
    <2>1. \A k \in Name : nodes_name[k] # NULL => nodes_name[k] \in Made
      BY Zenon DEF HeapInv, HeapType
    <2> QED
      BY <1>2, <2>1, ZenonT(30) DEF HeapInv, NamesHeld
  <1>7. \A x \in Made : Kept(x) => Kept(x)'
    BY <1>2, KeptStays, Zenon
  <1> QED
    BY <1>2, <1>3, <1>4, <1>5, <1>6, <1>7, Zenon DEF Safe, HeapInv

LEMMA AddsSlotSafe ==
  ASSUME HeapInv, NEW m, NEW s, AddsSlot(m, s)
  PROVE  /\ Safe /\ Masters' = Masters /\ Made' = Made
         /\ Slots(m)' = Slots(m) \union {s} /\ SlotObjects' = SlotObjects \union {s}
         /\ \A x \in Made : /\ node'[x].slaves = node[x].slaves
                            /\ node'[x].migrating = node[x].migrating
                            /\ node'[x].importing = node[x].importing
                            /\ x # m => node'[x] = node[x]
  <1> DEFINE l == Append(node[m].slots, s)
             r == [node[m] EXCEPT !.slots = l]
  <1>1. m \in Made /\ m \in Masters
    BY Zenon DEF AddsSlot, Masters, HeapInv, HeapType
  <1>2. node \in [Made -> NodeObject] /\ node[m] \in NodeObject
    BY <1>1, Zenon DEF HeapInv, HeapType
  <1>3. node[m].slots \in Seq(SlotObject) /\ IsInjective(node[m].slots)
    BY <1>1, <1>2, Zenon DEF NodeObject, HeapInv, SlotsHeld
  <1>4. l \in Seq(SlotObject) /\ Range(l) = Slots(m) \union {s} /\ IsInjective(l)
    BY <1>1, <1>3, AppendElements, AppendInjective DEF AddsSlot, Slots
  <1>5. node' = [node EXCEPT ![m] = r]
    BY <1>1, <1>2, Zenon DEF AddsSlot, cluster_slot_create
  <1> HIDE DEF l
  <1>6. /\ r \in NodeObject /\ r.slots = l
        /\ r.role = node[m].role /\ r.addr = node[m].addr /\ r.slaves = node[m].slaves
        /\ r.migrating = node[m].migrating /\ r.importing = node[m].importing
    BY <1>2, <1>4, Zenon DEF NodeObject
  <1> HIDE DEF r
  <1>7. /\ node' \in [Made -> NodeObject] /\ DOMAIN node' = Made /\ node'[m] = r
        /\ \A x \in Made : x # m => node'[x] = node[x]
    BY <1>1, <1>2, <1>5, <1>6, Zenon
  <1>8. \A x \in Made : /\ node'[x].role = node[x].role /\ node'[x].addr = node[x].addr
                        /\ node'[x].slaves = node[x].slaves
                        /\ node'[x].migrating = node[x].migrating
                        /\ node'[x].importing = node[x].importing
    BY <1>6, <1>7, Zenon
  <1>9. Made' = Made
    BY <1>7, Zenon DEF Made
  <1>10. Slots(m)' = Slots(m) \union {s} /\ \A x \in Made : x # m => Slots(x)' = Slots(x)
    BY <1>4, <1>6, <1>7, Zenon DEF Slots
  <1>11. \A x \in Made : IsInjective(node'[x].slots)
    BY <1>4, <1>6, <1>7, Zenon DEF HeapInv, SlotsHeld
  <1>12. SlotsHeld'
    <2>1. \A x, z \in Made : \A y \in Slots(x) : y \in Slots(z) => x = z
      BY Zenon DEF HeapInv, SlotsHeld
    <2>2. \A x \in Made : s \notin Slots(x)
      BY Zenon DEF AddsSlot
    <2> QED
      BY <1>9, <1>10, <1>11, <2>1, <2>2 DEF SlotsHeld
  <1>13. UNCHANGED <<nodes, nodes_name>>
    BY Zenon DEF AddsSlot
  <1>14. SlotObjects' = SlotObjects \union {s}
    <2>1. ASSUME NEW y, y \in SlotObjects' PROVE y \in SlotObjects \union {s}
      BY <1>9, <1>10, <2>1, Zenon DEF SlotObjects
    <2>2. ASSUME NEW y, y \in SlotObjects \union {s} PROVE y \in SlotObjects'
      BY <1>1, <1>9, <1>10, <2>2, Zenon DEF SlotObjects
    <2> QED
      BY <2>1, <2>2, Zenon
  <1> QED
    BY <1>14, <1>1, <1>7, <1>8, <1>9, <1>10, <1>12, <1>13, SlotsOnlySafe, ZenonT(30)

LEMMA AddsOpenSafe ==
  ASSUME HeapInv, NEW m, NEW kind, NEW j, AddsOpen(m, kind, j)
  PROVE  /\ Safe /\ Masters' = Masters /\ Made' = Made /\ SlotObjects' = SlotObjects
         /\ \A x \in Made : /\ node'[x].slaves = node[x].slaves
                            /\ node'[x].slots = node[x].slots
                            /\ x # m => node'[x] = node[x]
         /\ OpensGrow(m, kind, j)
  <1> DEFINE r == IF kind = "migrating"
                  THEN [node[m] EXCEPT !.migrating = Append(@, j)]
                  ELSE [node[m] EXCEPT !.importing = Append(@, j)]
  <1>1. m \in Made /\ m \in Masters
    BY Zenon DEF AddsOpen, Masters, HeapInv, HeapType
  <1>2. node \in [Made -> NodeObject] /\ node[m] \in NodeObject
    BY <1>1, Zenon DEF HeapInv, HeapType
  <1>3. node' = [node EXCEPT ![m] = r]
    BY <1>1, <1>2, Zenon DEF AddsOpen, cluster_open_slot_create
  <1>4. /\ r \in NodeObject /\ r.slots = node[m].slots
        /\ r.role = node[m].role /\ r.addr = node[m].addr /\ r.slaves = node[m].slaves
        /\ r.migrating = IF kind = "migrating" THEN Append(node[m].migrating, j)
                         ELSE node[m].migrating
        /\ r.importing = IF kind = "migrating" THEN node[m].importing
                         ELSE Append(node[m].importing, j)
    <2>1. j \in Nat /\ node[m].migrating \in Seq(Nat) /\ node[m].importing \in Seq(Nat)
      BY <1>2, Zenon DEF NodeObject, AddsOpen
    <2>2. CASE kind = "migrating"
      <3>0. Append(node[m].migrating, j) \in Seq(Nat)
        BY <2>1, AppendElements, Zenon
      <3>a. PICK v \in Seq(Nat) : v = Append(node[m].migrating, j)
        BY <3>0, Zenon
      <3>1. r = [node[m] EXCEPT !.migrating = v]
        BY <1>2, <2>2, <3>a, Zenon DEF NodeObject
      <3>2. r \in NodeObject
        BY <1>2, <3>1, Zenon DEF NodeObject
      <3> QED
        BY <1>2, <2>1, <2>2, <3>a, <3>1, <3>2, Zenon DEF NodeObject
    <2>3. CASE kind # "migrating"
      <3>0. Append(node[m].importing, j) \in Seq(Nat)
        BY <2>1, AppendElements, Zenon
      <3>a. PICK v \in Seq(Nat) : v = Append(node[m].importing, j)
        BY <3>0, Zenon
      <3>1. r = [node[m] EXCEPT !.importing = v]
        BY <1>2, <2>3, <3>a, Zenon DEF NodeObject
      <3>2. r \in NodeObject
        BY <1>2, <3>1, Zenon DEF NodeObject
      <3> QED
        BY <1>2, <2>1, <2>3, <3>a, <3>1, <3>2, Zenon DEF NodeObject
    <2> QED
      BY <2>2, <2>3, Zenon
  <1> HIDE DEF r
  <1>5. /\ node' \in [Made -> NodeObject] /\ DOMAIN node' = Made /\ node'[m] = r
        /\ \A x \in Made : x # m => node'[x] = node[x]
    BY <1>1, <1>2, <1>3, <1>4, Zenon
  <1>6. \A x \in Made : /\ node'[x].role = node[x].role /\ node'[x].addr = node[x].addr
                        /\ node'[x].slaves = node[x].slaves
                        /\ node'[x].slots = node[x].slots
    BY <1>4, <1>5, Zenon
  <1>7. Made' = Made
    BY <1>5, Zenon DEF Made
  <1>8. \A x \in Made : Slots(x)' = Slots(x)
    BY <1>6, Zenon DEF Slots
  <1>9. SlotsHeld'
    BY <1>6, <1>7, <1>8 DEF HeapInv, SlotsHeld
  <1>10. UNCHANGED <<nodes, nodes_name>>
    BY Zenon DEF AddsOpen
  <1>11. SlotObjects' = SlotObjects
    BY <1>7, <1>8, SlotObjectsSame, Zenon
  <1>12. OpensGrow(m, kind, j)
    BY <1>4, <1>5, Zenon DEF OpensGrow
  <1> QED
    BY <1>11, <1>12, <1>1, <1>5, <1>6, <1>7, <1>9, <1>10, SlotsOnlySafe, ZenonT(30)

-----------------------------------------------------------------------------
(* Where the parser goes.                                                  *)

LEMMA ItemIs ==
  ASSUME Control, input # <<>>
  PROVE  /\ Len(input) \in Nat \ {0} /\ DOMAIN input = 1 .. Len(input)
         /\ parser = "nodes" => Item \in Lines
         /\ parser = "slots" => Item \in Regions
  <1>1. input \in Seq(IF parser = "nodes" THEN Lines ELSE Regions)
    BY Zenon DEF Control
  <1>2. parser = "nodes" => Item \in Lines
    BY <1>1 DEF Item
  <1>3. parser = "slots" => Item \in Regions
    BY <1>1 DEF Item
  <1> QED
    BY <1>1, <1>2, <1>3

LEMMA InputAppended ==
  ASSUME NEW S, input \in Seq(S), NEW l \in S, input' = Append(input, l)
  PROVE  /\ input' \in Seq(S) /\ input' # <<>> /\ Item' = l
         /\ Len(input) \in Nat /\ Len(input') = Len(input) + 1
         /\ \A i \in 1 .. Len(input) : input'[i] = input[i]
  BY DEF Item

LEMMA ItemSame ==
  ASSUME UNCHANGED input
  PROVE  Item' = Item
  BY Zenon DEF Item

LEMMA NextLineControl ==
  ASSUME Control, NEW l \in Lines, NextLine(l)
  PROVE  Control'
  <1>1. input \in Seq(Lines) /\ input' = Append(input, l) /\ parser = "nodes"
    BY Zenon DEF Control, NextLine
  <1>2. input' \in Seq(Lines) /\ input' # <<>> /\ Item' = l
    BY <1>1, InputAppended, Zenon
  <1>3. parser' = parser /\ add_slave' = add_slave /\ pos' = 1 /\ found' = found
    BY Zenon DEF NextLine, config
  <1>4. \/ pc' = "error"
        \/ pc' = "master" /\ l.role = "master"
        \/ pc' = "slave" /\ l.role = "slave" /\ add_slave
        \/ pc' = "next"
    <2>1. pc = "next"
      BY Zenon DEF NextLine
    <2>2. CASE l.role = "short"
      BY <2>2, Zenon DEF NextLine, GiveUp
    <2>3. CASE l.role = "master"
      BY <2>3, Zenon DEF NextLine, GiveUp
    <2>4. CASE l.role = "slave" /\ add_slave
      BY <2>4, Zenon DEF NextLine, GiveUp
    <2>5. CASE l.role # "short" /\ l.role # "master" /\ ~(l.role = "slave" /\ add_slave)
      BY <2>1, <2>5, Zenon DEF NextLine
    <2> QED
      BY <2>2, <2>3, <2>4, <2>5, Zenon
  <1> QED
    BY <1>1, <1>2, <1>3, <1>4 DEF Control

(* A stored range has no negative bounds.                                  *)
LEMMA NarrowedIs ==
  ASSUME NEW r \in Regions
  PROVE  Narrowed(r) \in Nat \X Nat
  <1>1. r.range \in Int \X Int /\ UInt32 \in Nat \ {0}
    BY TopologyAssumption
  <1>2. r.range[1] \in Int /\ r.range[2] \in Int
    BY <1>1
  <1>3. r.range[1] % UInt32 \in Nat /\ r.range[2] % UInt32 \in Nat
    BY <1>1, <1>2
  <1> QED
    BY <1>3 DEF Narrowed

LEMMA NextRegionControl ==
  ASSUME Control, NEW r \in Regions, NextRegion(r)
  PROVE  Control'
  <1>1. input \in Seq(Regions) /\ input' = Append(input, r) /\ parser = "slots"
    BY Zenon DEF Control, NextRegion
  <1>2. input' \in Seq(Regions) /\ input' # <<>> /\ Item' = r
    BY <1>1, InputAppended, Zenon
  <1>3. parser' = parser /\ add_slave' = add_slave /\ pos' = 1 /\ found' = found
    BY Zenon DEF NextRegion, config
  <1>4. \/ pc' = "error"
        \/ pc' = "region" /\ r.shape # "short" /\ r.shape # "notint" /\ ~(Narrowed(r)[1] > Narrowed(r)[2])
    BY Zenon DEF NextRegion, GiveUp
  <1>5. /\ r.shape \in {"short", "notint", "ok"} /\ Narrowed(r) \in Nat \X Nat
        /\ r.nodes \in Seq(Addr \union {NULL})
    BY TopologyAssumption, NarrowedIs, Zenon
  <1>6. Narrowed(r)[1] \in Nat /\ Narrowed(r)[2] \in Nat /\ Len(r.nodes) \in Nat
    BY <1>5
  <1>7. pc' = "region" => r.shape = "ok" /\ Narrowed(r)[1] <= Narrowed(r)[2] /\ 1 <= Len(r.nodes) + 1
    BY <1>4, <1>5, <1>6
  <1> QED
    BY <1>1, <1>2, <1>3, <1>4, <1>7 DEF Control

(* The steps that leave the reply alone.                                   *)
LEMMA StepControl ==
  ASSUME Control, UNCHANGED <<parser, add_slave, input>>, pos' \in Nat \ {0}, found' \in Nat,
         \/ pc' \in {"next", "error", "accepted", "refused"}
         \/ pc = "master" /\ pc' = "map" /\ pos' = pos
         \/ pc \in {"master", "map", "fields"} /\ pc' = "fields"
         \/ pc = "region" /\ pc' = "region" /\ pos' <= Len(Item.nodes) + 1
  PROVE  Control'
  <1>1. Item' = Item
    BY ItemSame, Zenon
  <1> QED
    BY <1>1, Zenon DEF Control

LEMMA ControlKept ==
  ASSUME Control, Next
  PROVE  Control'
  <1> USE DEF config, GiveUp, node_get_fails
  <1>1. pos \in Nat \ {0} /\ found \in Nat /\ pos + 1 \in Nat \ {0} /\ found + 1 \in Nat
    BY DEF Control
  <1>2. ASSUME NEW l \in Lines, NextLine(l) PROVE Control'
    BY <1>2, NextLineControl, Zenon
  <1>3. CASE AddMaster
    BY <1>1, <1>3, StepControl, Zenon DEF AddMaster
  <1>4. CASE MapMaster
    BY <1>1, <1>4, StepControl, ZenonT(30) DEF MapMaster
  <1>5. CASE ReadField
    BY <1>1, <1>5, StepControl, Zenon DEF ReadField
  <1>6. CASE EndOfLine
    BY <1>1, <1>6, StepControl, Zenon DEF EndOfLine
  <1>7. CASE AddSlave
    BY <1>1, <1>7, StepControl, Zenon DEF AddSlave
  <1>8. ASSUME NEW r \in Regions, NextRegion(r) PROVE Control'
    BY <1>8, NextRegionControl, Zenon
  <1>9. CASE RegionMaster
    <2>1. pc = "region" /\ Item.nodes # <<>> /\ Item.nodes \in Seq(Addr \union {NULL})
      <3>1. pc = "region" /\ parser = "slots" /\ input # <<>> /\ Item.shape = "ok"
        BY <1>9, Zenon DEF RegionMaster, Control
      <3>2. Item \in Regions
        BY <3>1, ItemIs, Zenon
      <3> QED
        BY <3>1, <3>2, TopologyAssumption, Zenon
    <2>2. 2 <= Len(Item.nodes) + 1
      BY <2>1
    <2>3. pc' \in {"next", "error"} \/ (pc' = "region" /\ pos' = 2)
      BY <2>1, <1>9, ZenonT(30) DEF RegionMaster
    <2>4. pos' \in {pos, 2} /\ found' = found /\ UNCHANGED <<parser, add_slave, input>>
      BY <1>9, ZenonT(30) DEF RegionMaster
    <2>5. pos' \in Nat \ {0} /\ found' \in Nat
      BY <1>1, <2>4
    <2> QED
      BY <2>1, <2>2, <2>3, <2>4, <2>5, StepControl, Zenon
  <1>10. CASE RegionSlave
    <2>1. pc = "region" /\ Item.nodes \in Seq(Addr \union {NULL})
      <3>1. pc = "region" /\ parser = "slots" /\ input # <<>>
        BY <1>10, Zenon DEF RegionSlave, Control
      <3>2. Item \in Regions
        BY <3>1, ItemIs, Zenon
      <3> QED
        BY <3>1, <3>2, TopologyAssumption, Zenon
    <2>a. pos \in 2 .. Len(Item.nodes)
      BY <1>10, Zenon DEF RegionSlave
    <2>2. pos \in 2 .. Len(Item.nodes) /\ Len(Item.nodes) \in Nat
      BY <2>1, <2>a
    <2>3. pc' = "error" \/ (pc' = "region" /\ pos' = pos + 1)
      BY <2>1, <1>10, ZenonT(30) DEF RegionSlave
    <2>4. pos' \in Nat \ {0} /\ found' = found /\ UNCHANGED <<parser, add_slave, input>>
      BY <1>1, <1>10, Zenon DEF RegionSlave
    <2> QED
      BY <1>1, <2>1, <2>2, <2>3, <2>4, StepControl
  <1>11. CASE EndOfRegion
    BY <1>1, <1>11, StepControl, Zenon DEF EndOfRegion
  <1>12. CASE EndOfReply
    BY <1>1, <1>12, StepControl, Zenon DEF EndOfReply
  <1>13. CASE EmptyReply
    BY <1>1, <1>13, StepControl, Zenon DEF EmptyReply
  <1>14. CASE ReleaseAll
    BY <1>1, <1>14, StepControl, Zenon DEF ReleaseAll
  <1> QED
    BY <1>2, <1>3, <1>4, <1>5, <1>6, <1>7, <1>8, <1>9, <1>10, <1>11, <1>12, <1>13, <1>14, Zenon
       DEF Next

-----------------------------------------------------------------------------
(* What has been freed after the steps of the parser.                      *)

FreesNone == Safe /\ Made' = Made /\ UNCHANGED frees /\ ~MapFailed' /\ pc' # "refused"

FreesNew(n) ==
  /\ Safe /\ Made' = Made \union {n} /\ frees' = Unfreed(n)
  /\ Kept(n)' /\ ~MapFailed' /\ pc' # "refused"

FreesLoose(n) ==
  /\ Safe /\ Made' = Made \union {n} /\ n \notin Made
  /\ node'[n].slaves = <<>>
  /\ \A m \in Masters' : n \notin Owned(node', m)
  /\ frees' = freeRedisClusterNode(Unfreed(n), node', {n})
  /\ pc' = "error" /\ ~MapFailed'

FreesMaster ==
  /\ Safe /\ Made' = Made
  /\ master \in Masters /\ master' = master /\ Masters' = Masters
  /\ frees' = freeRedisClusterNode(frees, node', {master})
  /\ pc' = "error" /\ MapFailed'

LEMMA CountIn ==
  ASSUME NEW S, NEW x, S \subseteq {x}
  PROVE  Cardinality(S) = IF x \in S THEN 1 ELSE 0
  <1>1. CASE x \in S
    <2>1. S = {x}
      BY <1>1, Zenon
    <2> QED
      BY <1>1, <2>1, CardinalityOfOne, Zenon
  <1>2. CASE x \notin S
    <2>1. S = {}
      BY <1>2, Zenon
    <2> QED
      BY <1>2, <2>1, CardinalityOfNone, Zenon
  <1> QED
    BY <1>1, <1>2, Zenon

LEMMA FreesOne ==
  ASSUME NEW fr, NEW h, NEW m, NEW x \in DOMAIN fr, fr[x] \in Nat
  PROVE  freeRedisClusterNode(fr, h, {m})[x] = fr[x] + IF x \in Owned(h, m) THEN 1 ELSE 0
  <1> DEFINE S == {n \in {m} : x \in Owned(h, n)}
  <1>1. Cardinality(S) = IF m \in S THEN 1 ELSE 0
    BY CountIn, Zenon
  <1>2. m \in S <=> x \in Owned(h, m)
    BY Zenon
  <1>3. freeRedisClusterNode(fr, h, {m})[x] = fr[x] + Cardinality(S)
    BY Zenon DEF freeRedisClusterNode
  <1> HIDE DEF S
  <1> QED
    BY <1>1, <1>2, <1>3, Zenon

LEMMA UnfreedIs ==
  ASSUME NEW n, DOMAIN frees = Made
  PROVE  /\ DOMAIN Unfreed(n) = Made \union {n} /\ Unfreed(n)[n] = 0
         /\ \A x \in Made : x # n => Unfreed(n)[x] = frees[x]
  BY Zenon DEF Unfreed

LEMMA FreesNoneKept ==
  ASSUME Freed, FreesNone, pc \notin {"error", "refused"}
  PROVE  Freed'
  <1>1. \A x \in Made : Kept(x)' /\ frees'[x] = 0
    BY Zenon DEF Freed, FreesNone, Safe
  <1> QED
    BY <1>1, Zenon DEF Freed, FreesNone

LEMMA FreesNewKept ==
  ASSUME Freed, NEW n, FreesNew(n), pc \notin {"error", "refused"}
  PROVE  Freed'
  <1>1. \A x \in Made : Kept(x)' /\ frees[x] = 0
    BY Zenon DEF Freed, FreesNew, Safe
  <1>2. DOMAIN frees = Made
    BY Zenon DEF Freed
  <1>3. DOMAIN frees' = Made' /\ \A x \in Made' : Kept(x)' /\ frees'[x] = 0
    BY <1>1, <1>2, UnfreedIs, ZenonT(30) DEF FreesNew
  <1>4. ~MapFailed' /\ pc' # "refused"
    BY Zenon DEF FreesNew
  <1>5. \A x \in Made' : frees'[x] \in Nat
    BY <1>3
  <1> QED
    BY <1>3, <1>4, <1>5, ZenonT(30) DEF Freed

LEMMA FreesLooseKept ==
  ASSUME Freed, NEW n, FreesLoose(n), pc \notin {"error", "refused"}
  PROVE  Freed'
  <1>1. \A x \in Made : Kept(x)' /\ frees[x] = 0
    BY Zenon DEF Freed, FreesLoose, Safe
  <1>2. DOMAIN frees = Made
    BY Zenon DEF Freed
  <1>a. PICK fr : fr = Unfreed(n)
    BY Zenon
  <1>3. DOMAIN fr = Made' /\ \A x \in Made' : fr[x] = 0
    BY <1>1, <1>2, <1>a, UnfreedIs, ZenonT(30) DEF FreesLoose
  <1>4. Owned(node', n) = {n}
    BY EmptyList, Zenon DEF Owned, FreesLoose
  <1>5. frees' = freeRedisClusterNode(fr, node', {n})
    BY <1>a, Zenon DEF FreesLoose
  <1>6. DOMAIN frees' = Made'
    BY <1>3, <1>5, Zenon DEF freeRedisClusterNode
  <1>7. ASSUME NEW x \in Made' PROVE frees'[x] = IF x = n THEN 1 ELSE 0
    <2>1. freeRedisClusterNode(fr, node', {n})[x] = fr[x] + IF x \in Owned(node', n) THEN 1 ELSE 0
      BY <1>3, FreesOne
    <2> QED
      BY <1>3, <1>4, <1>5, <2>1
  <1>8. ASSUME NEW x \in Made'
        PROVE  /\ frees'[x] \in Nat
               /\ \/ frees'[x] = 0 /\ Kept(x)'
                  \/ frees'[x] = 1 /\ \A m \in Masters' : x \notin Owned(node', m)
    <2>1. CASE x = n
      <3>1. frees'[x] = 1
        BY <1>7, <2>1, Zenon
      <3>2. \A m \in Masters' : x \notin Owned(node', m)
        BY <2>1, Zenon DEF FreesLoose
      <3> QED
        BY <3>1, <3>2
    <2>2. CASE x # n
      <3>1. x \in Made
        BY <2>2, Zenon DEF FreesLoose
      <3> QED
        BY <1>1, <1>7, <2>2, <3>1
    <2> QED
      BY <2>1, <2>2, Zenon
  <1> QED
    BY <1>6, <1>8, Zenon DEF Freed, FreesLoose

LEMMA FreesMasterKept ==
  ASSUME Freed, FreesMaster, pc \notin {"error", "refused"}
  PROVE  Freed'
  <1>1. \A x \in Made : Kept(x)' /\ frees[x] = 0
    BY Zenon DEF Freed, FreesMaster, Safe
  <1>2. DOMAIN frees = Made
    BY Zenon DEF Freed
  <1>3. DOMAIN frees' = Made'
    BY <1>2, Zenon DEF FreesMaster, freeRedisClusterNode
  <1>4. ASSUME NEW x \in Made' PROVE frees'[x] = IF x \in Owned(node', master') THEN 1 ELSE 0
    <2>a. PICK fr, h, m : fr = frees /\ h = node' /\ m = master
      BY Zenon
    <2>b. x \in DOMAIN fr /\ fr[x] = 0
      BY <1>1, <1>2, <2>a, Zenon DEF FreesMaster
    <2>1. freeRedisClusterNode(fr, h, {m})[x] = fr[x] + IF x \in Owned(h, m) THEN 1 ELSE 0
      BY <2>b, FreesOne
    <2> QED
      BY <2>a, <2>b, <2>1 DEF FreesMaster
  <1>5. \A x \in Made' : /\ frees'[x] \in Nat /\ Kept(x)'
                         /\ frees'[x] = IF x \in Owned(node', master') THEN 1 ELSE 0
    BY <1>1, <1>4 DEF FreesMaster
  <1> QED
    BY <1>3, <1>5, Zenon DEF Freed, FreesMaster

LEMMA ReleaseAllKept ==
  ASSUME HeapInv, Freed, ReleaseAll
  PROVE  Freed'
  <1>1. /\ pc = "error" /\ pc' = "refused" /\ Made' = Made /\ Masters' = Masters
        /\ node' = node /\ master' = master /\ (MapFailed' <=> MapFailed) /\ Waiting' = Waiting
        /\ frees' = freeRedisClusterNode(frees, node, Masters)
    BY Zenon DEF ReleaseAll, Made, Masters, MapFailed, Waiting
  <1>2. DOMAIN frees = Made /\ \A x \in Made : frees[x] \in Nat
    BY Zenon DEF Freed
  <1>3. DOMAIN frees' = Made'
    BY <1>1, <1>2, Zenon DEF freeRedisClusterNode
  <1>4. ASSUME NEW x \in Made
        PROVE  \/ frees'[x] = frees[x] /\ \A m \in Masters : x \notin Owned(node, m)
               \/ frees'[x] = frees[x] + 1 /\ \E m \in Masters : x \in Owned(node, m)
    <2> DEFINE S == {m \in Masters : x \in Owned(node, m)}
    <2>1. frees'[x] = frees[x] + Cardinality(S)
      BY <1>1, <1>2, Zenon DEF freeRedisClusterNode
    <2>2. CASE S = {}
      <3>1. Cardinality(S) = 0
        BY <2>2, CardinalityOfNone, Zenon
      <3> QED
        BY <1>2, <2>1, <2>2, <3>1
    <2>3. CASE S # {}
      <3>1. PICK m : m \in S
        BY <2>3, Zenon
      <3>2. \A z \in Masters : z \in Made /\ node[z].role = "master"
        BY DEF Masters, HeapInv, HeapType, DictHeld
      <3>3. ASSUME NEW z \in S PROVE z = m
        <4>1. \A y \in Made : \A w \in Slaves(y) : node[w].role = "slave"
          BY Zenon DEF HeapInv, ListsHeld
        <4>2. x = z \/ x \in Slaves(z)
          BY <3>3, Zenon DEF Owned, Slaves
        <4>3. x = m \/ x \in Slaves(m)
          BY <3>1, Zenon DEF Owned, Slaves
        <4>4. x \in Slaves(z) /\ x \in Slaves(m) => z = m
          BY <3>1, <3>2, Zenon DEF HeapInv, ListsHeld
        <4>5. m \in Made /\ z \in Made /\ node[m].role = "master" /\ node[z].role = "master"
          BY <3>1, <3>2, Zenon
        <4> QED
          BY <4>1, <4>2, <4>3, <4>4, <4>5, Zenon
      <3>4. S \subseteq {m}
        BY <3>3, Zenon
      <3>5. Cardinality(S) = 1
        BY <3>1, <3>4, CountIn, Zenon
      <3> QED
        BY <2>1, <3>1, <3>5, Zenon
    <2> QED
      BY <2>2, <2>3, Zenon
  <1>5. ASSUME NEW x \in Made
        PROVE  /\ frees'[x] \in Nat
               /\ frees'[x] = 0 => x \in Waiting
               /\ frees'[x] > 1 => MapFailed /\ x \in Owned(node, master)
    <2>1. CASE ~MapFailed
      <3>1. \/ frees[x] = 0 /\ Kept(x)
            \/ frees[x] = 1 /\ \A m \in Masters : x \notin Owned(node, m)
        BY <1>1, <2>1, Zenon DEF Freed
      <3> QED
        BY <1>4, <3>1 DEF Kept
    <2>2. CASE MapFailed
      <3>1. Kept(x) /\ frees[x] = IF x \in Owned(node, master) THEN 1 ELSE 0
        BY <1>1, <2>2, Zenon DEF Freed
      <3> QED
        BY <1>4, <2>2, <3>1 DEF Kept
    <2> QED
      BY <2>1, <2>2, Zenon
  <1>6. MapFailed => master \in Masters
    BY Zenon DEF Freed
  <1> QED
    BY <1>1, <1>3, <1>5, <1>6, ZenonT(30) DEF Freed

-----------------------------------------------------------------------------
(* The steps of the parsers, one by one.                                   *)

AllInv == Inv /\ Freed

LEMMA NewWithNone ==
  ASSUME NEW role, NEW a
  PROVE  NewNode(role, a) = NewWith(role, a, <<>>)
  BY DEF NewWith, NewNode

(* Steps that leave the nodes alone.                                       *)
LEMMA RestsFrees ==
  ASSUME AllInv, Rests, UNCHANGED frees, pc' # "refused", pc \notin {"error", "refused"},
         failed' \in {failed, "reply", "memory"}
  PROVE  Freed'
  <1>1. ~MapFailed'
    BY Zenon DEF AllInv, Freed, MapFailed
  <1>2. Safe /\ Made' = Made
    BY RestsSafe, Zenon DEF AllInv, Inv, Rests, Made
  <1> QED
    BY <1>1, <1>2, FreesNoneKept, Zenon DEF FreesNone, AllInv

LEMMA RestsIs ==
  ASSUME Rests
  PROVE  Made' = Made /\ SlotObjects' = SlotObjects /\ Masters' = Masters
  BY Zenon DEF Rests, Made, SlotObjects, Slots, Masters

LEMMA NumbersOf ==
  ASSUME HeapInv
  PROVE  /\ \A m \in Made : m[1] \in Nat /\ m[2] \in Nat
         /\ \A x \in SlotObjects : x \in SlotObject /\ x.of[1] \in Nat /\ x.of[2] \in Nat
  <1>1. \A m \in Made : m[1] \in Nat /\ m[2] \in Nat
    BY Zenon DEF HeapInv, HeapType, Node
  <1>2. ASSUME NEW x \in SlotObjects
        PROVE  x \in SlotObject /\ x.of[1] \in Nat /\ x.of[2] \in Nat
    <2>1. PICK m \in Made : x \in Slots(m)
      BY Zenon DEF SlotObjects
    <2>2. node[m].slots \in Seq(SlotObject)
      BY Zenon DEF HeapInv, HeapType, NodeObject
    <2>3. x \in SlotObject
      BY <2>1, <2>2 DEF Slots, Range
    <2>4. x.of \in Node
      BY <2>3, Zenon DEF SlotObject
    <2> QED
      BY <2>3, <2>4, Zenon DEF Node
  <1> QED
    BY <1>1, <1>2, Zenon

LEMMA NextLineInv ==
  ASSUME AllInv, NEW l \in Lines, NextLine(l)
  PROVE  AllInv'
  <1>1. Control'
    BY NextLineControl, Zenon DEF AllInv, Inv
  <1>2. Rests /\ UNCHANGED <<frees, slot, parser, master>> /\ pc = "next" /\ pos' = 1
    BY Zenon DEF NextLine, Rests, config
  <1>3. HeapInv' /\ Made' = Made /\ SlotObjects' = SlotObjects
    BY <1>2, RestsSafe, RestsIs, Zenon DEF AllInv, Inv, Safe
  <1>4. pc' \in {"next", "error", "master", "slave"} /\ failed' \in {failed, "reply"}
    <2>1. CASE l.role = "short"
      BY <2>1, Zenon DEF NextLine, GiveUp
    <2>2. CASE l.role = "master"
      BY <2>2, Zenon DEF NextLine, GiveUp
    <2>3. CASE l.role = "slave" /\ add_slave
      BY <2>3, Zenon DEF NextLine, GiveUp
    <2>4. CASE l.role # "short" /\ l.role # "master" /\ ~(l.role = "slave" /\ add_slave)
      BY <1>2, <2>4, Zenon DEF NextLine
    <2> QED
      BY <2>1, <2>2, <2>3, <2>4, Zenon
  <1>5. Freed'
    BY <1>2, <1>4, RestsFrees, Zenon
  <1>6. Len(input) \in Nat /\ Len(input') = Len(input) + 1
    <2>1. input \in Seq(Lines)
      BY Zenon DEF AllInv, Inv, Control, NextLine
    <2> QED
      BY <2>1, InputAppended, Zenon DEF NextLine
  <1>7. slot = NULL /\ slot' = NULL
    BY <1>2, Zenon DEF AllInv, Inv, NewNames
  <1>8. \A m \in Made : m[1] \in Nat /\ m[1] <= Len(input)
    BY NumbersOf, Zenon DEF AllInv, Inv, NewNames
  <1>9. \A x \in SlotObjects : x.of[1] \in Nat /\ x.of[1] <= Len(input)
    BY NumbersOf, Zenon DEF AllInv, Inv, NewNames
  <1>10. NewNames'
    BY <1>2, <1>3, <1>4, <1>6, <1>7, <1>8, <1>9 DEF NewNames, Before, Earlier
  <1>11. AtMaster'
    BY <1>4, Zenon DEF AtMaster
  <1> QED
    BY <1>1, <1>3, <1>5, <1>10, <1>11, Zenon DEF AllInv, Inv

(* The steps that only move the parser on, or stop it.                     *)
LEMMA RestsInv ==
  ASSUME AllInv, Control', Rests,
         UNCHANGED <<parser, add_slave, input, slot, frees, master>>,
         failed' \in {failed, "reply", "memory"},
         pc \notin {"error", "refused", "accepted"},
         \/ pc' = "error"
         \/ slot = NULL /\ pc' \in {"next", "accepted"}
         \/ pc \in {"fields", "region"} /\ pc' = pc /\ slot = NULL /\ pos' = pos + 1
  PROVE  AllInv'
  <1>1. HeapInv' /\ Made' = Made /\ SlotObjects' = SlotObjects /\ Masters' = Masters
    BY RestsSafe, RestsIs, Zenon DEF AllInv, Inv, Safe
  <1>2. Freed'
    BY RestsFrees, Zenon
  <1>3. Len(input) \in Nat /\ pos \in Nat \ {0}
    BY DEF AllInv, Inv, Control
  <1>4. \A m \in Made : m[1] \in Nat /\ m[2] \in Nat /\ m[1] <= Len(input)
    BY NumbersOf, Zenon DEF AllInv, Inv, NewNames
  <1>5. \A x \in SlotObjects : x.of[1] \in Nat /\ x.of[2] \in Nat /\ x.of[1] <= Len(input)
    BY NumbersOf, Zenon DEF AllInv, Inv, NewNames
  <1>6. Item' = Item
    BY ItemSame, Zenon
  <1>7. NewNames'
    <2>1. CASE pc' = "error"
      BY <1>1, <1>4, <1>5, <2>1, Zenon DEF AllInv, Inv, NewNames, Before
    <2>2. CASE slot = NULL /\ pc' \in {"next", "accepted"}
      BY <1>1, <1>4, <1>5, <2>2, Zenon DEF NewNames
    <2>3. CASE pc \in {"fields", "region"} /\ pc' = pc /\ slot = NULL /\ pos' = pos + 1
      <3>1. /\ \A m \in Made : Earlier(m) => Earlier(m)'
            /\ \A x \in SlotObjects : Earlier(x.of) => Earlier(x.of)'
            /\ pos' # 1
        BY <1>3, <1>4, <1>5, <2>3 DEF Earlier, Before
      <3> QED
        BY <1>1, <1>4, <1>5, <2>3, <3>1, Zenon DEF AllInv, Inv, NewNames
    <2> QED
      BY <2>1, <2>2, <2>3, Zenon
  <1>8. AtMaster'
    <2>1. pc = "region" /\ slot = NULL => pos > 1
      BY <1>3 DEF AllInv, Inv, NewNames
    <2> QED
      BY <1>1, <1>3, <2>1, Zenon DEF AllInv, Inv, AtMaster
  <1> QED
    BY <1>1, <1>2, <1>7, <1>8, Zenon DEF AllInv, Inv

(* No node can be made.                                                    *)
LEMMA FailsInv ==
  ASSUME AllInv, Control', pc \notin {"error", "refused", "accepted"},
         node_get_fails("reply") \/ node_get_fails("memory")
  PROVE  AllInv'
  BY RestsInv, Zenon DEF node_get_fails, GiveUp, Rests, config

(* A node was made, and is freed at once.                                  *)
LEMMA LooseInv ==
  ASSUME AllInv, Control', pc \notin {"error", "refused", "accepted"},
         NEW n \in Node, NEW role \in {"master", "slave"}, NEW a \in Addr,
         n \notin Made, n[1] = Len(input),
         node' = With(n, NewNode(role, a)),
         pc' = "error", failed' \in {"memory", "reply"},
         frees' = freeRedisClusterNode(Unfreed(n), node', {n}),
         UNCHANGED <<nodes, parser, input, nodes_name, slot>>
  PROVE  AllInv'
  <1>1. MakesLoose(n, role, a)
    BY NewWithNone, Zenon DEF MakesLoose, IsNew
  <1>2. /\ Safe /\ Made' = Made \union {n} /\ n \notin Made /\ SlotObjects' = SlotObjects
        /\ \A m \in Masters' : n \notin Owned(node', m)
    BY <1>1, MakesLooseSafe, Zenon DEF AllInv, Inv
  <1>3. node'[n].slaves = <<>>
    BY Zenon DEF With, NewNode
  <1>4. ~MapFailed'
    BY Zenon DEF MapFailed
  <1>5. FreesLoose(n)
    BY <1>2, <1>3, <1>4, Zenon DEF FreesLoose
  <1>6. Freed'
    BY <1>5, FreesLooseKept, Zenon DEF AllInv
  <1>7. Len(input) \in Nat
    BY DEF AllInv, Inv, Control
  <1>8. NewNames'
    <2>a. n[1] <= Len(input')
      BY <1>7
    <2>1. \A m \in Made' : m[1] <= Len(input')
      BY <1>2, <2>a, Zenon DEF AllInv, Inv, NewNames
    <2>2. \A x \in SlotObjects' : x.of[1] <= Len(input')
      BY <1>2, Zenon DEF AllInv, Inv, NewNames
    <2>3. slot' # NULL => /\ \A x \in SlotObjects' : Before(x.of)'
                          /\ slot' \in SlotObject /\ slot'.of = <<Len(input'), 1>>
                          /\ parser' = "slots"
      BY <1>2, Zenon DEF AllInv, Inv, NewNames, Before
    <2> QED
      BY <2>1, <2>2, <2>3, ZenonT(30) DEF NewNames
  <1>9. AtMaster'
    BY Zenon DEF AtMaster
  <1> QED
    BY <1>2, <1>6, <1>8, <1>9, Zenon DEF AllInv, Inv, Safe

LEMMA AddMasterInv ==
  ASSUME AllInv, AddMaster, Control'
  PROVE  AllInv'
  <1>a. PICK n, a : n = <<Len(input), 1>> /\ a = Item.addr
    BY Zenon
  <1>1. /\ pc = "master" /\ parser = "nodes" /\ input # <<>> /\ Control
        /\ Len(input) \in Nat \ {0} /\ Item \in Lines /\ pos = 1
    BY ItemIs, ZenonT(30) DEF AddMaster, AllInv, Inv, Control
  <1>2. a \in Addr \union {NULL} /\ n \in Node /\ n \notin Made /\ n[1] = Len(input) /\ n[2] = 1
    BY <1>a, <1>1, TopologyAssumption, NumbersOf DEF AllInv, Inv, NewNames, Before, Node
  <1>3. CASE node_get_fails("reply") \/ node_get_fails("memory")
    BY <1>1, <1>3, FailsInv, Zenon
  <1>b. \A m \in Made : m[1] \in Nat /\ m[1] < Len(input)
    BY <1>1, NumbersOf, Zenon DEF AllInv, Inv, NewNames, Before
  <1>c. \A x \in SlotObjects : x.of[1] \in Nat /\ x.of[1] < Len(input)
    BY <1>1, NumbersOf, Zenon DEF AllInv, Inv, NewNames, Before
  <1>d. slot = NULL
    BY <1>1, Zenon DEF AllInv, Inv, NewNames
  <1>4. ASSUME a # NULL, node' = With(n, NewNode("master", a)),
               nodes[a] = NULL, nodes' = [nodes EXCEPT ![a] = n], master' = n,
               frees' = Unfreed(n), pc' = (IF add_slave THEN "map" ELSE "fields"),
               UNCHANGED <<failed, config, input, pos, nodes_name, slot>>
        PROVE  AllInv'
    <2>1. MakesMaster(n, a, <<>>)
      BY <1>2, <1>4, NewWithNone, Zenon DEF MakesMaster, IsNew
    <2>a. /\ Safe /\ Kept(n)' /\ Masters' = Masters \union {n} /\ IsUnnamed(n)'
          /\ Made' = Made \union {n} /\ SlotObjects' = SlotObjects \union Range(<<>>)
      BY <2>1, MakesMasterSafe, Zenon DEF AllInv, Inv
    <2>2. /\ Safe /\ Kept(n)' /\ Masters' = Masters \union {n} /\ IsUnnamed(n)'
          /\ Made' = Made \union {n} /\ SlotObjects' = SlotObjects
      BY <2>a, EmptyList, Zenon
    <2>3. ~MapFailed' /\ pc' \in {"map", "fields"} /\ (pc' = "map" => add_slave)
      BY <1>1, <1>4, Zenon DEF AllInv, Freed, MapFailed
    <2>4. Freed'
      BY <1>1, <1>4, <2>2, <2>3, FreesNewKept, Zenon DEF FreesNew, AllInv
    <2>b. \A m \in Made' : m[1] <= Len(input)
      BY <1>1, <1>2, <1>b, <2>2
    <2>c. \A x \in SlotObjects' : /\ x.of[1] <= Len(input')
                                  /\ Before(x.of)' /\ Earlier(x.of)'
      <3>1. SlotObjects' = SlotObjects /\ Len(input') = Len(input)
        BY <1>4, <2>2, Zenon
      <3>2. ASSUME NEW x \in SlotObjects
            PROVE  x.of[1] <= Len(input) /\ x.of[1] < Len(input)
        BY <1>1, <1>c
      <3> QED
        BY <3>1, <3>2, ZenonT(30) DEF Before, Earlier
    <2>5. NewNames'
      BY <1>4, <1>d, <2>3, <2>b, <2>c, ZenonT(30) DEF NewNames
    <2>6. AtMaster'
      BY <1>a, <1>4, <2>2, <2>3, Zenon DEF AtMaster, config
    <2> QED
      BY <2>2, <2>4, <2>5, <2>6, Zenon DEF AllInv, Inv, Safe
  <1>5. ASSUME a # NULL, node' = With(n, NewNode("master", a)),
               pc' = "error", failed' \in {"memory", "reply"},
               frees' = freeRedisClusterNode(Unfreed(n), node', {n}),
               UNCHANGED <<nodes, config, input, pos, nodes_name, slot>>
        PROVE  AllInv'
    BY <1>1, <1>2, <1>5, LooseInv, ZenonT(30) DEF config
  <1> QED
    BY <1>a, <1>3, <1>4, <1>5, Zenon DEF AddMaster, GiveUp

LEMMA MapMasterInv ==
  ASSUME AllInv, MapMaster, Control'
  PROVE  AllInv'
  <1>a. PICK k, m : k = Item.name /\ m = master
    BY Zenon
  <1>1. /\ pc = "map" /\ parser = "nodes" /\ input # <<>> /\ Control
        /\ Len(input) \in Nat \ {0} /\ Item \in Lines /\ pos = 1
    BY ItemIs, Zenon DEF MapMaster, AllInv, Inv, Control
  <1>2. k \in Name /\ m \in Masters /\ m = <<Len(input), 1>> /\ IsUnnamed(m) /\ HeapInv
    BY <1>a, <1>1, TopologyAssumption, Zenon DEF AllInv, Inv, AtMaster
  <1>3. UNCHANGED <<parser, add_slave, input, pos, nodes, master, slot>> /\ slot = NULL
    BY <1>1, Zenon DEF MapMaster, config, AllInv, Inv, NewNames
  <1>b. PICK old : old = nodes_name[k]
    BY Zenon
  <1>c. /\ \A x \in Made : x[1] \in Nat /\ x[1] <= Len(input)
        /\ \A x \in SlotObjects : x.of[1] \in Nat /\ x.of[1] < Len(input)
    BY <1>1, NumbersOf, Zenon DEF AllInv, Inv, NewNames, Before
  \* The mapping succeeds.
  <1>4. ASSUME Safe, Masters' = Masters, Made' = Made, SlotObjects' = SlotObjects,
               pc' = "fields", UNCHANGED <<frees, failed>>
        PROVE  AllInv'
    <2>1. ~MapFailed'
      BY <1>1, <1>4, Zenon DEF AllInv, Freed, MapFailed
    <2>2. Freed'
      BY <1>1, <1>4, <2>1, FreesNoneKept, Zenon DEF FreesNone, AllInv
    <2>3. NewNames'
      BY <1>1, <1>3, <1>4, <1>c DEF NewNames, Before, Earlier
    <2>4. AtMaster'
      BY <1>a, <1>2, <1>3, <1>4, Zenon DEF AtMaster
    <2> QED
      BY <1>4, <2>2, <2>3, <2>4, Zenon DEF AllInv, Inv, Safe
  \* It fails, and the master is freed.
  <1>5. ASSUME Safe, Masters' = Masters, Made' = Made, SlotObjects' = SlotObjects,
               pc' = "error", failed' \in {"map_memory", "map_reply"},
               frees' = freeRedisClusterNode(frees, node', {master})
        PROVE  AllInv'
    <2>1. FreesMaster
      BY <1>a, <1>2, <1>3, <1>5, Zenon DEF FreesMaster, MapFailed
    <2>2. Freed'
      BY <1>1, <2>1, FreesMasterKept, Zenon DEF AllInv
    <2>3. NewNames'
      <3>a. \A x \in SlotObjects : x.of[1] <= Len(input)
        BY Zenon DEF AllInv, Inv, NewNames
      <3>1. \A x \in SlotObjects' : x.of[1] <= Len(input')
        BY <1>3, <1>5, <3>a, Zenon
      <3>2. \A x \in Made' : x[1] <= Len(input')
        BY <1>3, <1>5, <1>c, Zenon
      <3> QED
        BY <1>3, <1>5, <3>1, <3>2, Zenon DEF NewNames
    <2>4. AtMaster'
      BY <1>5, Zenon DEF AtMaster
    <2> QED
      BY <1>5, <2>2, <2>3, <2>4, Zenon DEF AllInv, Inv, Safe
  <1>6. ASSUME old = NULL, nodes_name' = [nodes_name EXCEPT ![k] = master],
               pc' = "fields", UNCHANGED <<node, frees, failed>>
        PROVE  AllInv'
    <2>1. NamesMaster(m, k)
      BY <1>a, <1>b, <1>2, <1>3, <1>6, ZenonT(30) DEF NamesMaster
    <2> QED
      BY <1>2, <1>4, <1>6, <2>1, NamesMasterSafe, Zenon
  <1>7. ASSUME old # NULL, node[old].role = "slave",
               nodes_name' = [nodes_name EXCEPT ![k] = master],
               node' = [TakeOver(master, old, Len(node[old].slaves)) EXCEPT
                         ![master].slaves = <<old>> \o @],
               pc' = "fields", UNCHANGED <<frees, failed>>
        PROVE  AllInv'
    <2>1. TakesAll(m, k)
      BY <1>a, <1>b, <1>2, <1>3, <1>7, ZenonT(30) DEF TakesAll
    <2> QED
      BY <1>2, <1>4, <1>7, <2>1, TakesAllSafe, Zenon
  <1>8. ASSUME old # NULL, node[old].role = "slave",
               NEW i \in 0 .. Len(node[old].slaves), node' = TakeOver(master, old, i),
               GiveUp("map_memory"),
               frees' = freeRedisClusterNode(frees, node', {master}),
               UNCHANGED nodes_name
        PROVE  AllInv'
    <2>1. TakesSome(m, k, i)
      BY <1>a, <1>b, <1>2, <1>3, <1>8, Zenon DEF TakesSome
    <2> QED
      BY <1>2, <1>5, <1>8, <2>1, TakesSomeSafe, Zenon DEF GiveUp
  <1>9. ASSUME GiveUp("map_memory") \/ GiveUp("map_reply"),
               frees' = freeRedisClusterNode(frees, node, {master}),
               UNCHANGED <<nodes_name, node>>
        PROVE  AllInv'
    <2>1. Rests
      BY <1>3, <1>9, Zenon DEF Rests
    <2>2. Safe /\ Masters' = Masters /\ Made' = Made /\ SlotObjects' = SlotObjects
      BY <1>2, <2>1, RestsSafe, RestsIs, Zenon
    <2> QED
      BY <1>5, <1>9, <2>2, Zenon DEF GiveUp
  <1> QED
    BY <1>a, <1>b, <1>6, <1>7, <1>8, <1>9, Zenon DEF MapMaster

LEMMA ReadFieldInv ==
  ASSUME AllInv, ReadField, Control'
  PROVE  AllInv'
  <1>a. PICK f, s, m : /\ f = Item.fields[pos] /\ m = master
                       /\ s = [range |-> f.range, of |-> <<Len(input), pos>>]
    BY ZenonT(30)
  <1>1. /\ pc = "fields" /\ parser = "nodes" /\ input # <<>> /\ Control
        /\ Len(input) \in Nat \ {0} /\ Item \in Lines /\ pos \in Nat \ {0}
    BY ItemIs, Zenon DEF ReadField, AllInv, Inv, Control
  <1>2. m \in Masters /\ m = <<Len(input), 1>> /\ HeapInv
    BY <1>a, <1>1, Zenon DEF AllInv, Inv, AtMaster
  <1>3. /\ UNCHANGED <<parser, add_slave, input, nodes, nodes_name, master, slot, frees>>
        /\ slot = NULL /\ pos <= Len(Item.fields)
    BY <1>1, Zenon DEF ReadField, config, AllInv, Inv, NewNames
  <1>4. Item.fields \in Seq([kind : {"range", "migrating", "importing"}, range : Int \X Int])
    BY <1>1, TopologyAssumption, Zenon
  <1>5. pos \in 1 .. Len(Item.fields)
    BY <1>1, <1>3, <1>4
  <1>c. f \in [kind : {"range", "migrating", "importing"}, range : Int \X Int]
    BY <1>a, <1>4, <1>5, ElementType, Zenon
  <1>6. f.range \in Int \X Int
    BY <1>c, Zenon
  <1>7. s \in SlotObject /\ s.of[1] = Len(input) /\ s.of[2] = pos
    BY <1>a, <1>1, <1>6, Zenon DEF SlotObject, Node
  <1>b. /\ \A x \in Made : x[1] \in Nat /\ x[1] <= Len(input)
        /\ \A x \in SlotObjects : x.of[1] \in Nat /\ x.of[2] \in Nat /\ Earlier(x.of)
    BY <1>1, NumbersOf, Zenon DEF AllInv, Inv, NewNames
  <1>8. \A x \in Made : s \notin Slots(x)
    <2>1. s \notin SlotObjects
      BY <1>1, <1>7, <1>b DEF Earlier, Before
    <2> QED
      BY <2>1, Zenon DEF SlotObjects
  \* Something is added to the master, and the next field is read.
  <1>9. ASSUME Safe, Masters' = Masters, Made' = Made,
               SlotObjects' \subseteq SlotObjects \union {s},
               pc' = pc, pos' = pos + 1, UNCHANGED failed
        PROVE  AllInv'
    <2>1. ~MapFailed'
      BY <1>1, <1>9, Zenon DEF AllInv, Freed, MapFailed
    <2>2. Freed'
      BY <1>1, <1>3, <1>9, <2>1, FreesNoneKept, Zenon DEF FreesNone, AllInv
    <2>3. \A x \in SlotObjects' : x.of[1] \in Nat /\ Earlier(x.of)' /\ x.of[1] <= Len(input)
      BY <1>1, <1>3, <1>7, <1>9, <1>b DEF Earlier, Before
    <2>4. NewNames'
      BY <1>1, <1>3, <1>9, <1>b, <2>3, Zenon DEF NewNames
    <2>5. AtMaster'
      BY <1>a, <1>1, <1>2, <1>3, <1>9, Zenon DEF AtMaster
    <2> QED
      BY <1>9, <2>2, <2>4, <2>5, Zenon DEF AllInv, Inv, Safe
  <1>10. ASSUME node' = cluster_open_slot_create(node, master, f.kind, pos),
                pc' = pc, pos' = pos + 1, UNCHANGED failed
         PROVE  AllInv'
    <2>1. AddsOpen(m, f.kind, pos)
      BY <1>a, <1>1, <1>2, <1>3, <1>10, Zenon DEF AddsOpen
    <2>2. Safe /\ Masters' = Masters /\ Made' = Made /\ SlotObjects' = SlotObjects
      BY <1>2, <2>1, AddsOpenSafe, Zenon
    <2> QED
      BY <1>9, <1>10, <2>2, Zenon
  <1>11. ASSUME node' = cluster_slot_create(node, master, s),
                pc' = pc, pos' = pos + 1, UNCHANGED failed
         PROVE  AllInv'
    <2>1. AddsSlot(m, s)
      BY <1>a, <1>2, <1>3, <1>7, <1>8, <1>11, ZenonT(30) DEF AddsSlot
    <2>2. Safe /\ Masters' = Masters /\ Made' = Made /\ SlotObjects' = SlotObjects \union {s}
      BY <1>2, <2>1, AddsSlotSafe, Zenon
    <2> QED
      BY <1>9, <1>11, <2>2, Zenon
  <1>12. ASSUME UNCHANGED node,
                \/ pc' = pc /\ pos' = pos + 1 /\ UNCHANGED failed
                \/ GiveUp("memory")
         PROVE  AllInv'
    BY <1>1, <1>3, <1>12, RestsInv, Zenon DEF Rests, GiveUp
  <1> QED
    BY <1>a, <1>10, <1>11, <1>12, Zenon DEF ReadField

LEMMA AddSlaveInv ==
  ASSUME AllInv, AddSlave, Control'
  PROVE  AllInv'
  <1>a. PICK n, a, k, old : /\ n = <<Len(input), 1>> /\ a = Item.addr
                            /\ k = Item.of /\ old = nodes_name[k]
    BY ZenonT(30)
  <1>1. /\ pc = "slave" /\ parser = "nodes" /\ input # <<>> /\ Control
        /\ Len(input) \in Nat \ {0} /\ Item \in Lines /\ pos = 1 /\ HeapInv
    BY ItemIs, Zenon DEF AddSlave, AllInv, Inv, Control
  <1>2. /\ a \in Addr \union {NULL} /\ k \in Name
        /\ n \in Node /\ n \notin Made /\ n[1] = Len(input) /\ n[2] = 1
    <2>1. a \in Addr \union {NULL} /\ k \in Name
      BY <1>a, <1>1, TopologyAssumption, Zenon
    <2>2. n \in Node /\ n[1] = Len(input) /\ n[2] = 1 /\ ~Before(n)
      BY <1>a, <1>1 DEF Before, Node
    <2>3. \A m \in Made : Before(m)
      BY <1>1, Zenon DEF AllInv, Inv, NewNames
    <2> QED
      BY <2>1, <2>2, <2>3, Zenon
  <1>b. /\ \A m \in Made : m[1] \in Nat /\ m[1] <= Len(input)
        /\ \A x \in SlotObjects : x.of[1] \in Nat /\ x.of[1] <= Len(input)
        /\ slot = NULL
    BY <1>1, NumbersOf, Zenon DEF AllInv, Inv, NewNames
  <1>3. CASE node_get_fails("reply") \/ node_get_fails("memory")
    BY <1>1, <1>3, FailsInv, Zenon
  \* The replica is made and known to somebody.
  <1>4. ASSUME Safe, Kept(n)', Made' = Made \union {n}, SlotObjects' = SlotObjects,
               frees' = Unfreed(n), pc' = "next", UNCHANGED <<failed, config, input, pos, slot>>
        PROVE  AllInv'
    <2>1. ~MapFailed'
      BY <1>1, <1>4, Zenon DEF AllInv, Freed, MapFailed
    <2>2. Freed'
      BY <1>1, <1>4, <2>1, FreesNewKept, Zenon DEF FreesNew, AllInv
    <2>a. \A m \in Made' : m[1] <= Len(input)
      BY <1>1, <1>2, <1>4, <1>b
    <2>3. NewNames'
      BY <1>4, <1>b, <2>a, ZenonT(30) DEF NewNames
    <2>4. AtMaster'
      BY <1>4, Zenon DEF AtMaster
    <2> QED
      BY <1>4, <2>2, <2>3, <2>4, Zenon DEF AllInv, Inv, Safe
  <1>5. ASSUME a # NULL, old = NULL, nodes_name' = [nodes_name EXCEPT ![k] = n],
               node' = With(n, NewNode("slave", a)), frees' = Unfreed(n), pc' = "next",
               UNCHANGED <<failed, config, input, pos, nodes, slot>>
        PROVE  AllInv'
    <2>1. MakesStandIn(n, a, k)
      BY <1>a, <1>2, <1>5, NewWithNone, Zenon DEF MakesStandIn, IsNew
    <2>2. Safe /\ Kept(n)' /\ Made' = Made \union {n} /\ SlotObjects' = SlotObjects
      BY <1>1, <2>1, MakesStandInSafe, Zenon
    <2> QED
      BY <1>4, <1>5, <2>2, Zenon
  <1>6. ASSUME a # NULL, old # NULL,
               node' = [With(n, NewNode("slave", a)) EXCEPT ![old].slaves = Append(@, n)],
               frees' = Unfreed(n), pc' = "next",
               UNCHANGED <<failed, config, input, pos, nodes, nodes_name, slot>>
        PROVE  AllInv'
    <2>1. old \in Made
      BY <1>a, <1>1, <1>2, <1>6, ZenonT(30) DEF HeapInv, HeapType
    <2>2. MakesListed(n, a, old)
      BY <1>a, <1>2, <1>6, <2>1, NewWithNone, Zenon DEF MakesListed, IsNew
    <2>3. Safe /\ Kept(n)' /\ Made' = Made \union {n} /\ SlotObjects' = SlotObjects
      BY <1>1, <2>2, MakesListedSafe, ZenonT(30)
    <2> QED
      BY <1>4, <1>6, <2>3, Zenon
  <1>7. ASSUME a # NULL, node' = With(n, NewNode("slave", a)), GiveUp("memory"),
               frees' = freeRedisClusterNode(Unfreed(n), With(n, NewNode("slave", a)), {n}),
               UNCHANGED <<nodes, config, input, pos, nodes_name, slot>>
        PROVE  AllInv'
    BY <1>1, <1>2, <1>7, LooseInv, ZenonT(30) DEF config, GiveUp
  <1> QED
    BY <1>a, <1>3, <1>5, <1>6, <1>7, Zenon DEF AddSlave

LEMMA NextRegionInv ==
  ASSUME AllInv, NEW r \in Regions, NextRegion(r)
  PROVE  AllInv'
  <1>1. Control'
    BY NextRegionControl, Zenon DEF AllInv, Inv
  <1>2. /\ Rests /\ UNCHANGED <<frees, parser, master>>
        /\ pc = "next" /\ pos' = 1 /\ parser = "slots"
    BY Zenon DEF NextRegion, Rests, config
  <1>3. HeapInv' /\ Made' = Made /\ SlotObjects' = SlotObjects
    BY <1>2, RestsSafe, RestsIs, Zenon DEF AllInv, Inv, Safe
  <1>4. pc' \in {"error", "region"} /\ failed' \in {failed, "reply", "memory"}
    BY Zenon DEF NextRegion, GiveUp
  <1>5. Freed'
    BY <1>2, <1>4, RestsFrees, Zenon
  <1>6. Len(input) \in Nat /\ Len(input') = Len(input) + 1 /\ Item' = r
    <2>1. input \in Seq(Regions)
      BY Zenon DEF AllInv, Inv, Control, NextRegion
    <2> QED
      BY <2>1, InputAppended, Zenon DEF NextRegion
  <1>7. /\ \A m \in Made : m[1] \in Nat /\ m[1] <= Len(input)
        /\ \A x \in SlotObjects : x.of[1] \in Nat /\ x.of[1] <= Len(input)
        /\ slot = NULL
    BY <1>2, NumbersOf, Zenon DEF AllInv, Inv, NewNames
  <1>8. /\ \A m \in Made' : m[1] <= Len(input') /\ Before(m)'
        /\ \A x \in SlotObjects' : x.of[1] <= Len(input') /\ Before(x.of)'
    BY <1>3, <1>6, <1>7 DEF Before
  <1>a. PICK s : s = [range |-> Narrowed(r), of |-> <<Len(input) + 1, 1>>]
    BY Zenon
  <1>9. s \in SlotObject /\ s.range = Narrowed(r) /\ s.of = <<Len(input'), 1>>
    <2>1. Narrowed(r) \in Nat \X Nat
      BY NarrowedIs, Zenon
    <2>2. Narrowed(r) \in Int \X Int
      BY <2>1
    <2>3. <<Len(input) + 1, 1>> \in Node
      BY <1>6 DEF Node
    <2> QED
      BY <1>6, <1>a, <2>2, <2>3, Zenon DEF SlotObject
  <1>10. s # NULL
    BY <1>9, TopologyAssumption, Zenon DEF SlotObject, Node
  <1>11. /\ slot' = NULL \/ slot' = s
         /\ pc' = "region" => slot' = s
    BY <1>7, <1>a, Zenon DEF NextRegion, GiveUp
  <1>12. NewNames'
    BY <1>2, <1>4, <1>6, <1>8, <1>9, <1>10, <1>11, ZenonT(30) DEF NewNames, Earlier
  <1>13. AtMaster'
    BY <1>2, <1>4 DEF AtMaster
  <1> QED
    BY <1>1, <1>3, <1>5, <1>12, <1>13, Zenon DEF AllInv, Inv

LEMMA RegionMasterInv ==
  ASSUME AllInv, RegionMaster, Control'
  PROVE  AllInv'
  <1>a. PICK n, a, s : n = <<Len(input), 1>> /\ a = Item.nodes[1] /\ s = slot
    BY Zenon
  <1>1. /\ pc = "region" /\ pos = 1 /\ parser = "slots" /\ input # <<>> /\ Control
        /\ Len(input) \in Nat \ {0} /\ Item \in Regions /\ Item.shape = "ok" /\ HeapInv
    BY ItemIs, Zenon DEF RegionMaster, AllInv, Inv, Control
  <1>2. a \in Addr \union {NULL}
    <2>1. Item.nodes \in Seq(Addr \union {NULL}) /\ Item.nodes # <<>>
      BY <1>1, TopologyAssumption, Zenon
    <2> QED
      BY <1>a, <2>1
  <1>b. /\ \A m \in Made : m[1] \in Nat /\ m[2] \in Nat \ {0} /\ Earlier(m)
        /\ \A x \in SlotObjects : x.of[1] \in Nat /\ Before(x.of)
        /\ slot # NULL /\ slot \in SlotObject /\ slot.of = <<Len(input), 1>>
    BY <1>1, NumbersOf, Zenon DEF AllInv, Inv, NewNames, HeapInv, HeapType, Node
  <1>3. n \in Node /\ n \notin Made /\ n[1] = Len(input) /\ n[2] = 1
    BY <1>a, <1>1, <1>b DEF Earlier, Before, Node
  <1>c. s \in SlotObject /\ s.of[1] = Len(input) /\ \A m \in Made : s \notin Slots(m)
    <2>1. s \notin SlotObjects
      BY <1>a, <1>1, <1>b DEF Before
    <2> QED
      BY <1>a, <1>b, <2>1 DEF SlotObjects
  <1>d. /\ \A m \in Made : m[1] <= Len(input)
        /\ \A x \in SlotObjects : x.of[1] <= Len(input)
    BY Zenon DEF AllInv, Inv, NewNames
  <1>4. CASE node_get_fails("reply") \/ node_get_fails("memory")
    BY <1>1, <1>4, FailsInv, Zenon
  <1>5. ASSUME a # NULL, nodes[a] # NULL, node' = cluster_slot_ref_node(node, nodes[a]),
               slot' = NULL, pc' = "next",
               UNCHANGED <<config, input, pos, nodes, nodes_name, frees, failed>>
        PROVE  AllInv'
    <2>a. PICK m : m = nodes[a]
      BY Zenon
    <2>1. m \in Masters
      BY <1>2, <1>5, <2>a, Zenon DEF Masters
    <2>2. AddsSlot(m, s)
      BY <1>a, <1>c, <1>5, <2>a, <2>1, Zenon
         DEF AddsSlot, cluster_slot_ref_node, cluster_slot_create
    <2>3. Safe /\ Made' = Made /\ SlotObjects' = SlotObjects \union {s}
      BY <1>1, <2>2, AddsSlotSafe, Zenon
    <2>4. ~MapFailed'
      BY <1>1, <1>5, ZenonT(30) DEF AllInv, Freed, MapFailed
    <2>5. Freed'
      BY <1>1, <1>5, <2>3, <2>4, FreesNoneKept, Zenon DEF FreesNone, AllInv
    <2>6. \A x \in SlotObjects' : x.of[1] <= Len(input)
      BY <1>1, <1>c, <1>d, <2>3
    <2>7. NewNames'
      BY <1>5, <1>d, <2>3, <2>6, ZenonT(30) DEF NewNames
    <2>8. AtMaster'
      BY <1>5, Zenon DEF AtMaster
    <2> QED
      BY <2>3, <2>5, <2>7, <2>8, Zenon DEF AllInv, Inv, Safe
  <1>6. ASSUME a # NULL, nodes[a] = NULL, nodes' = [nodes EXCEPT ![a] = n],
               node' = cluster_slot_ref_node(With(n, NewNode("master", a)), n),
               frees' = Unfreed(n), slot' = NULL, pos' = 2, pc' = pc, master' = n,
               UNCHANGED <<config, input, nodes_name, failed>>
        PROVE  AllInv'
    <2>1. node' = With(n, NewWith("master", a, <<s>>))
      <3> DEFINE h == With(n, NewNode("master", a))
      <3>1. h[n] = NewNode("master", a) /\ n \in DOMAIN h
        BY Zenon DEF With
      <3>2. node' = [h EXCEPT ![n].slots = Append(@, s)]
        BY <1>a, <1>6, Zenon DEF cluster_slot_ref_node
      <3>3. node' = [h EXCEPT ![n] = [h[n] EXCEPT !.slots = Append(h[n].slots, s)]]
        BY <3>2, Zenon
      <3>4. [NewNode("master", a) EXCEPT !.slots = Append(NewNode("master", a).slots, s)]
              = NewWith("master", a, <<s>>)
        BY DEF NewWith, NewNode
      <3>5. node' = [h EXCEPT ![n] = NewWith("master", a, <<s>>)]
        BY <3>1, <3>3, <3>4, Zenon
      <3> QED
        BY <3>5, Zenon DEF With
    <2>2. MakesMaster(n, a, <<s>>)
      BY <1>2, <1>3, <1>c, <1>6, <2>1, Zenon DEF MakesMaster, IsNew
    <2>3. /\ Safe /\ Kept(n)' /\ Masters' = Masters \union {n}
          /\ Made' = Made \union {n} /\ SlotObjects' = SlotObjects \union Range(<<s>>)
      BY <1>1, <2>2, MakesMasterSafe, Zenon
    <2>4. SlotObjects' = SlotObjects \union {s}
      BY <2>3, SingleList, Zenon
    <2>5. ~MapFailed'
      BY <1>1, <1>6, ZenonT(30) DEF AllInv, Freed, MapFailed
    <2>6. Freed'
      BY <1>1, <1>6, <2>3, <2>5, FreesNewKept, Zenon DEF FreesNew, AllInv
    <2>7. \A x \in SlotObjects' : x.of[1] <= Len(input)
      BY <1>1, <1>c, <1>d, <2>4
    <2>8. ASSUME NEW m \in Made' PROVE m[1] <= Len(input) /\ Earlier(m)'
      <3>1. CASE m \in Made
        BY <1>1, <1>6, <1>b, <1>d, <3>1 DEF Earlier, Before
      <3>2. CASE m = n
        BY <1>1, <1>3, <1>6, <3>2 DEF Earlier, Before
      <3> QED
        BY <2>3, <3>1, <3>2, Zenon
    <2>9. NewNames'
      <3>1. pc' = "region" /\ slot' = NULL /\ pos' # 1 /\ input' = input
        BY <1>1, <1>6
      <3>2. /\ pc' \notin {"master", "slave"} /\ pc' \notin {"master", "map"}
            /\ pc' # "fields"
        BY <3>1, Zenon
      <3> QED
        BY <2>7, <2>8, <3>1, <3>2, ZenonT(30) DEF NewNames
    <2>10. AtMaster'
      BY <1>a, <1>1, <1>6, <2>3, ZenonT(30) DEF AtMaster
    <2> QED
      BY <2>3, <2>6, <2>9, <2>10, Zenon DEF AllInv, Inv, Safe
  <1>7. ASSUME a # NULL, node' = With(n, NewNode("master", a)), GiveUp("memory"),
               frees' = freeRedisClusterNode(Unfreed(n), With(n, NewNode("master", a)), {n}),
               UNCHANGED <<nodes, config, input, nodes_name, slot>>
        PROVE  AllInv'
    BY <1>1, <1>2, <1>3, <1>7, LooseInv, Zenon DEF config, GiveUp
  <1>8. ASSUME a # NULL, nodes[a] = NULL, nodes' = [nodes EXCEPT ![a] = n],
               node' = With(n, NewNode("master", a)), frees' = Unfreed(n), GiveUp("memory"),
               UNCHANGED <<config, input, nodes_name, slot>>
        PROVE  AllInv'
    <2>1. MakesMaster(n, a, <<>>)
      BY <1>2, <1>3, <1>8, NewWithNone, Zenon DEF MakesMaster, IsNew
    <2>2. /\ Safe /\ Kept(n)' /\ Made' = Made \union {n}
          /\ SlotObjects' = SlotObjects \union Range(<<>>)
      BY <1>1, <2>1, MakesMasterSafe, Zenon
    <2>3. SlotObjects' = SlotObjects
      BY <2>2, EmptyList, Zenon
    <2>4. ~MapFailed' /\ pc' = "error"
      BY <1>8, Zenon DEF GiveUp, MapFailed
    <2>5. Freed'
      BY <1>1, <1>8, <2>2, <2>4, FreesNewKept, ZenonT(30) DEF FreesNew, AllInv
    <2>6. \A m \in Made' : m[1] <= Len(input)
      BY <1>1, <1>3, <1>d, <2>2
    <2>7. NewNames'
      BY <1>1, <1>8, <1>b, <1>d, <2>3, <2>4, <2>6, Zenon DEF NewNames, Before, config
    <2>8. AtMaster'
      BY <2>4, Zenon DEF AtMaster
    <2> QED
      BY <2>2, <2>5, <2>7, <2>8, ZenonT(30) DEF AllInv, Inv, Safe
  <1> QED
    BY <1>a, <1>4, <1>5, <1>6, <1>7, <1>8, Zenon DEF RegionMaster

LEMMA RegionSlaveInv ==
  ASSUME AllInv, RegionSlave, Control'
  PROVE  AllInv'
  <1>a. PICK n, a, m : n = <<Len(input), pos>> /\ a = Item.nodes[pos] /\ m = master
    BY Zenon
  <1>0. pos \in 2 .. Len(Item.nodes) /\ pc = "region"
    BY Zenon DEF RegionSlave
  <1>1. /\ parser = "slots" /\ input # <<>> /\ Control
        /\ Len(input) \in Nat \ {0} /\ Item \in Regions /\ pos \in Nat \ {0} /\ HeapInv
    BY <1>0, ItemIs, Zenon DEF AllInv, Inv, Control
  <1>2. a \in Addr \union {NULL} /\ pos > 1
    <2>1. Item.nodes \in Seq(Addr \union {NULL})
      BY <1>1, TopologyAssumption, Zenon
    <2> QED
      BY <1>0, <1>a, <2>1
  <1>b. /\ \A x \in Made : x[1] \in Nat /\ x[2] \in Nat /\ Earlier(x) /\ x[1] <= Len(input)
        /\ \A x \in SlotObjects : x.of[1] \in Nat /\ x.of[1] <= Len(input)
        /\ slot = NULL
    BY <1>0, <1>1, <1>2, NumbersOf DEF AllInv, Inv, NewNames
  <1>3. n \in Node /\ n \notin Made /\ n[1] = Len(input) /\ n[2] = pos
    BY <1>a, <1>1, <1>b DEF Earlier, Before, Node
  <1>4. m \in Masters /\ m \in Made /\ m = <<Len(input), 1>>
    BY <1>0, <1>1, <1>2, <1>a, Zenon DEF AllInv, Inv, AtMaster, Masters, HeapInv, HeapType
  <1>5. CASE node_get_fails("reply") \/ node_get_fails("memory")
    BY <1>0, <1>5, FailsInv, Zenon
  <1>6. ASSUME pos' = pos + 1,
               UNCHANGED <<node, frees, pc, failed, config, input, nodes, nodes_name, master, slot>>
        PROVE  AllInv'
    BY <1>0, <1>b, <1>6, RestsInv, Zenon DEF config, Rests
  <1>7. ASSUME a # NULL, pos' = pos + 1, frees' = Unfreed(n),
               node' = [With(n, NewNode("slave", a)) EXCEPT ![master].slaves = Append(@, n)],
               UNCHANGED <<pc, failed, config, input, nodes, nodes_name, master, slot>>
        PROVE  AllInv'
    <2>1. MakesListed(n, a, m)
      BY <1>a, <1>2, <1>3, <1>4, <1>7, NewWithNone, Zenon DEF MakesListed, IsNew
    <2>2. /\ Safe /\ Kept(n)' /\ Made' = Made \union {n} /\ Masters' = Masters
          /\ SlotObjects' = SlotObjects
      BY <1>1, <2>1, MakesListedSafe, Zenon
    <2>3. ~MapFailed'
      BY <1>0, <1>7, Zenon DEF AllInv, Freed, MapFailed
    <2>4. Freed'
      BY <1>0, <1>7, <2>2, <2>3, FreesNewKept, ZenonT(30) DEF FreesNew, AllInv
    <2>5. \A x \in Made' : x[1] <= Len(input) /\ Earlier(x)'
      BY <1>1, <1>3, <1>7, <1>b, <2>2 DEF Earlier, Before
    <2>6. pos' > 1
      BY <1>2, <1>1, <1>7
    <2>7. NewNames'
      BY <1>0, <1>7, <1>b, <2>2, <2>5, <2>6 DEF NewNames
    <2>8. AtMaster'
      BY <1>0, <1>4, <1>a, <1>7, <2>2, <2>6, Zenon DEF AtMaster
    <2> QED
      BY <2>2, <2>4, <2>7, <2>8, ZenonT(30) DEF AllInv, Inv, Safe
  <1>8. ASSUME a # NULL, node' = With(n, NewNode("slave", a)), GiveUp("memory"),
               frees' = freeRedisClusterNode(Unfreed(n), With(n, NewNode("slave", a)), {n}),
               UNCHANGED <<nodes, config, input, nodes_name, slot>>
        PROVE  AllInv'
    BY <1>0, <1>1, <1>2, <1>3, <1>8, LooseInv, ZenonT(30) DEF config, GiveUp
  <1> QED
    BY <1>a, <1>5, <1>6, <1>7, <1>8, Zenon DEF RegionSlave

LEMMA ReleaseAllInv ==
  ASSUME AllInv, ReleaseAll, Control'
  PROVE  AllInv'
  <1>1. Rests /\ UNCHANGED <<input, parser>> /\ pc' = "refused" /\ slot' = NULL
    BY Zenon DEF ReleaseAll, Rests, config
  <1>2. HeapInv' /\ Made' = Made /\ SlotObjects' = SlotObjects
    BY <1>1, RestsSafe, RestsIs, Zenon DEF AllInv, Inv, Safe
  <1>3. Freed'
    BY ReleaseAllKept, Zenon DEF AllInv, Inv
  <1>4. NewNames'
    BY <1>1, <1>2, Zenon DEF AllInv, Inv, NewNames
  <1>5. AtMaster'
    BY <1>1, Zenon DEF AtMaster
  <1> QED
    BY <1>2, <1>3, <1>4, <1>5, Zenon DEF AllInv, Inv

LEMMA InitInv == Init => AllInv
  <1> SUFFICES ASSUME Init PROVE AllInv
    BY Zenon
  <1>1. Made = {} /\ SlotObjects = {} /\ Masters = {}
    BY DEF Init, Made, SlotObjects, Masters
  <1>2. HeapInv
    <2>1. /\ (\A a \in Addr : nodes[a] = NULL) /\ (\A k \in Name : nodes_name[k] = NULL)
          /\ nodes \in [Addr -> {NULL}] /\ nodes_name \in [Name -> {NULL}]
          /\ node \in [Made -> NodeObject]
      BY <1>1 DEF Init, Made
    <2>2. HeapType
      BY <1>1, <2>1, Zenon DEF HeapType
    <2>3. DictHeld /\ ListsHeld /\ NamesHeld /\ SlotsHeld
      BY <1>1, <2>1, ZenonT(30) DEF DictHeld, ListsHeld, NamesHeld, SlotsHeld
    <2> QED
      BY <2>2, <2>3, Zenon DEF HeapInv
  <1>3. Control
    BY DEF Init, Control
  <1>4. NewNames /\ AtMaster
    BY <1>1, ZenonT(30) DEF Init, NewNames, AtMaster
  <1>5. Freed
    BY <1>1 DEF Init, Freed, MapFailed
  <1> QED
    BY <1>2, <1>3, <1>4, <1>5, Zenon DEF AllInv, Inv

LEMMA StepInv == AllInv /\ [Next]_vars => AllInv'
  <1> SUFFICES ASSUME AllInv, [Next]_vars PROVE AllInv'
    BY Zenon
  <1>1. CASE UNCHANGED vars
    <2>1. /\ Rests /\ UNCHANGED <<parser, add_slave, input, pc, pos, master, slot, found>>
          /\ UNCHANGED <<frees, failed>>
      BY <1>1, Zenon DEF vars, Rests
    <2>2. HeapInv' /\ Made' = Made /\ SlotObjects' = SlotObjects /\ Masters' = Masters
      BY <2>1, RestsSafe, RestsIs, Zenon DEF AllInv, Inv, Safe
    <2>3. Control'
      BY <2>1, Zenon DEF AllInv, Inv, Control, Item
    <2>4. NewNames'
      BY <2>1, <2>2, ZenonT(30) DEF AllInv, Inv, NewNames, Before, Earlier, Item
    <2>5. AtMaster'
      BY <2>1, <2>2, Zenon DEF AllInv, Inv, AtMaster, IsUnnamed, Rests
    <2>6. \A n : Kept(n)' <=> Kept(n)
      BY <2>1, <2>2, ZenonT(30) DEF Kept, Waiting, Owned, Rests
    <2>7. Waiting' = Waiting
      BY <2>1, <2>2, ZenonT(30) DEF Waiting, Owned, Rests
    <2>8. Freed'
      BY <2>1, <2>2, <2>6, <2>7, ZenonT(30) DEF AllInv, Freed, MapFailed, Owned, Rests
    <2> QED
      BY <2>2, <2>3, <2>4, <2>5, <2>8, Zenon DEF AllInv, Inv
  <1>2. CASE Next
    <2>1. Control'
      BY <1>2, ControlKept, Zenon DEF AllInv, Inv
    <2>2. ASSUME NEW l \in Lines, NextLine(l) PROVE AllInv'
      BY <2>2, NextLineInv, Zenon
    <2>3. CASE AddMaster
      BY <2>1, <2>3, AddMasterInv, Zenon
    <2>4. CASE MapMaster
      BY <2>1, <2>4, MapMasterInv, Zenon
    <2>5. CASE ReadField
      BY <2>1, <2>5, ReadFieldInv, Zenon
    <2>6. CASE EndOfLine
      <3>1. slot = NULL
        BY <2>6, ZenonT(30) DEF EndOfLine, AllInv, Inv, NewNames
      <3> QED
        BY <2>1, <2>6, <3>1, RestsInv, Zenon DEF EndOfLine, Rests, config
    <2>7. CASE AddSlave
      BY <2>1, <2>7, AddSlaveInv, Zenon
    <2>8. ASSUME NEW r \in Regions, NextRegion(r) PROVE AllInv'
      BY <2>8, NextRegionInv, Zenon
    <2>9. CASE RegionMaster
      BY <2>1, <2>9, RegionMasterInv, Zenon
    <2>10. CASE RegionSlave
      BY <2>1, <2>10, RegionSlaveInv, Zenon
    <2>11. CASE EndOfRegion
      <3>1. pc = "region" /\ parser = "slots" /\ input # <<>> /\ Item.shape = "ok" /\ Control
        BY <2>11, Zenon DEF EndOfRegion, AllInv, Inv, Control
      <3>2. Item.nodes # <<>> /\ Item.nodes \in Seq(Addr \union {NULL})
        BY <3>1, ItemIs, TopologyAssumption, Zenon
      <3>3. pos > 1
        BY <2>11, <3>2 DEF EndOfRegion, AllInv, Inv, Control
      <3>4. slot = NULL
        BY <3>1, <3>3 DEF AllInv, Inv, NewNames
      <3> QED
        BY <2>1, <2>11, <3>4, RestsInv, Zenon DEF EndOfRegion, Rests, config
    <2>12. CASE EndOfReply \/ EmptyReply
      <3>1. slot = NULL
        BY <2>12, Zenon DEF EndOfReply, EmptyReply, AllInv, Inv, NewNames
      <3> QED
        BY <2>1, <2>12, <3>1, RestsInv, Zenon DEF EndOfReply, EmptyReply, GiveUp, Rests, config
    <2>13. CASE ReleaseAll
      BY <2>1, <2>13, ReleaseAllInv, Zenon
    <2> QED
      BY <1>2, <2>2, <2>3, <2>4, <2>5, <2>6, <2>7, <2>8, <2>9, <2>10, <2>11, <2>12, <2>13, ZenonT(30)
         DEF Next
  <1> QED
    BY <1>1, <1>2, Zenon

(* Every reachable state of a parser satisfies AllInv: HeapInv says who    *)
(* holds what, Control and AtMaster where the parser is, NewNames that     *)
(* what it makes is new, and Freed what has been freed.                    *)
THEOREM Accounted == Spec => []AllInv
  BY InitInv, StepInv, PTL DEF Spec

LEMMA HeldByInv == AllInv => HeldOnce
  <1> SUFFICES ASSUME AllInv PROVE HeldOnce
    BY Zenon
  <1>1. TypeOK
    <2>1. \A m \in Made : node[m].role \in {"master", "slave"}
      BY Zenon DEF AllInv, Inv, HeapInv, HeapType, NodeObject
    <2> QED
      BY <2>1, Zenon DEF TypeOK, AllInv, Inv, HeapInv, HeapType, Control, Freed, Slaves
  <1>2. \A a, b \in Addr : nodes[a] # NULL /\ nodes[a] = nodes[b] => a = b
    BY Zenon DEF AllInv, Inv, HeapInv, DictHeld
  <1>3. \A m \in Masters : node[m].role = "master"
    BY DEF Masters, AllInv, Inv, HeapInv, DictHeld
  <1>4. ASSUME NEW m \in Made
        PROVE  /\ IsInjective(node[m].slaves) /\ Range(node[m].slaves) \cap Masters = {}
               /\ IsInjective(node[m].slots)
               /\ slot # NULL => slot \notin Range(node[m].slots)
    <2>1. IsInjective(node[m].slaves) /\ IsInjective(node[m].slots)
      BY Zenon DEF AllInv, Inv, HeapInv, ListsHeld, SlotsHeld
    <2>2. Range(node[m].slaves) \cap Masters = {}
      BY <1>3, Zenon DEF AllInv, Inv, HeapInv, ListsHeld, Slaves
    <2>3. ASSUME slot # NULL, slot \in Range(node[m].slots) PROVE FALSE
      <3>1. slot \in SlotObjects
        BY <2>3, Zenon DEF SlotObjects, Slots
      <3>2. Before(slot.of) /\ slot.of = <<Len(input), 1>> /\ Len(input) \in Nat
        BY <2>3, <3>1 DEF AllInv, Inv, NewNames, Control
      <3> QED
        BY <3>2 DEF Before
    <2> QED
      BY <2>1, <2>2, <2>3, Zenon
  <1>5. ASSUME NEW m \in Made, NEW n \in Made, m # n
        PROVE  /\ Range(node[m].slaves) \cap Range(node[n].slaves) = {}
               /\ Range(node[m].slots) \cap Range(node[n].slots) = {}
    BY <1>5, Zenon DEF AllInv, Inv, HeapInv, ListsHeld, SlotsHeld, Slaves, Slots
  <1> QED
    BY <1>1, <1>2, <1>4, <1>5, Zenon DEF HeldOnce

(* While a reply is parsed, no node and no slot object is held twice by    *)
(* the dict, a list or the local variable, although replicas change hands  *)
(* when their master is listed after them.                                 *)
THEOREM HeldOnceHolds == Spec => []HeldOnce
  BY Accounted, HeldByInv, PTL

LEMMA FreedByInv == AllInv => FreedOnce
  <1> SUFFICES ASSUME AllInv PROVE FreedOnce
    BY Zenon
  <1>1. Freed
    BY Zenon DEF AllInv
  <1>2. ASSUME NEW n \in Made, frees[n] > 1 PROVE MapFailed /\ n \in Owned(node, master)
    <2>1. pc = "refused"
      BY <1>1, <1>2 DEF Freed
    <2> QED
      BY <1>1, <1>2, <2>1, Zenon DEF Freed
  <1>3. ASSUME pc = "refused", NEW n \in Made \ Waiting PROVE frees[n] > 0
    BY <1>1, <1>3 DEF Freed
  <1>4. ASSUME pc = "accepted", NEW n \in Made \ Waiting
        PROVE  frees[n] = 0 /\ \E m \in Masters : n \in Owned(node, m)
    BY <1>1, <1>4, Zenon DEF Freed, Kept
  <1> QED
    BY <1>2, <1>3, <1>4, Zenon DEF FreedOnce, MapFailed

(* No node is lost and none is freed twice, but for the two exceptions     *)
(* that FreedOnce states.                                                  *)
THEOREM FreedOnceHolds == Spec => []FreedOnce
  BY Accounted, FreedByInv, PTL
=============================================================================
