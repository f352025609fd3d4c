----------------------------- MODULE SyncProofs -----------------------------
(***************************************************************************)
(* Theorems about SyncClient.  First its inductive invariant, whose parts  *)
(* say what the code relies on between two steps of                        *)
(* redis_cluster_command_execute, and the steps up to sending; then the    *)
(* reading half of that function, and what follows from the invariant.     *)
(***************************************************************************)
EXTENDS SyncClient, SequenceTheorems, TLAPS

(* What each location of a call implies.                                   *)
CallInv ==
  /\ pc # "idle" => todo # << >>
  /\ pc = "idle" => upd = NULL /\ retry = 0
  /\ pc \notin {"idle", "done"} => (err => refused) /\ result = "none" /\ retry <= MaxRetry
  /\ result # "none" => (err => refused) /\ (pc = "done" => retry <= MaxRetry)
  /\ pc \in {"connect", "open", "asking", "send", "recv"} => k \in nodes
  /\ pc \in {"connect", "open"} => k = table[slot]
  /\ pc = "send" => con[k] = "ok"

(* At most the deferred query is still to be read, and behind it the       *)
(* command just sent, or ahead of it.                                      *)
QueueInv ==
  \A a \in Addr : con[a] = "ok" =>
    Len(replies[a]) <= (IF a = upd THEN 1 ELSE 0)
                         + (IF pc = "recv" /\ a = k THEN 1 ELSE 0)

(* While a query waits to be read no path leads to an update: the slot has *)
(* a node, and that node a connection, unless it was just redirected to.   *)
DeferredInv ==
  /\ upd # NULL => upd \in nodes /\ con[upd] # "none"
  /\ upd # NULL /\ pc \in {"lookup", "connect", "asking", "send", "recv"} =>
       table[slot] # NULL /\ con[table[slot]] = "ok"
  /\ upd # NULL /\ pc \notin {"recv", "done"} => retry > 0

(* A scheduled update is sent with the first command that can be written.  *)
ScheduleInv ==
  /\ unsettled => need
  /\ pc = "asking" /\ need => upd # NULL
  /\ pc = "send" /\ need /\ k # table[slot] => upd # NULL
  /\ pc = "recv" /\ need /\ con[k] = "ok" => upd # NULL
  /\ pc = "done" /\ need /\ result # "none" => upd # NULL

(* The reply to come next is the one to the command, save on a resend.     *)
HeadInv ==
  pc = "recv" /\ con[k] = "ok" /\ replies[k] # << >> /\ Head(replies[k]) # "cmd" =>
    upd = k /\ retry > 0

(* After the use of a freed node nothing more happens.                     *)
Inv ==
  /\ TypeOK
  /\ stale => pc = "recv" /\ upd = NULL /\ result = "none"
  /\ ~stale => CallInv /\ QueueInv /\ DeferredInv /\ ScheduleInv /\ HeadInv

(* The initial states satisfy the invariant.                               *)
LEMMA InitInv == Init => Inv
  <1> SUFFICES ASSUME Init PROVE Inv
    OBVIOUS
  <1>1. PICK m \in Maps : nodes = m.nodes /\ table = m.table
    BY DEF Init
  <1>2. nodes \subseteq Addr /\ table \in [Slot -> nodes \union {NULL}]
    BY <1>1, SyncAssumption DEF IsMap
  <1>3. con \in [Addr -> {"none", "ok", "broken"}]
    BY DEF Init
  <1>4. replies \in [Addr -> Seq({"cmd", "slotmap", "asking"})]
    BY DEF Init
  <1>a. retry \in 0 .. MaxRetry + 1
    BY SyncAssumption DEF Init
  <1>b. todo \in Seq(Slot)
    BY DEF Init
  <1>5. TypeOK
    BY <1>2, <1>3, <1>4, <1>a, <1>b, Zenon DEF Init, TypeOK, Locations
  <1>6. CallInv /\ DeferredInv /\ ScheduleInv /\ HeadInv
    BY SyncAssumption DEF Init, CallInv, DeferredInv, ScheduleInv, HeadInv
  <1>7. QueueInv
    BY DEF Init, QueueInv
  <1> QED
    BY <1>5, <1>6, <1>7 DEF Init, Inv

(* A call is started, or refused, between two calls only.                  *)
LEMMA CallIsInv ==
  ASSUME Inv, ~stale, NEW c \in Calls, redisClusterFormattedCommand(c)
  PROVE  Inv'
  <1>0. /\ UNCHANGED <<nodes, table, con, replies, need, unsettled, retry, k, upd, stale>>
        /\ pc = "idle" /\ result' = "none"
        /\ refused' = FALSE
        /\ \/ err' = FALSE /\ todo' = c /\ pc' = "lookup"
           \/ err' = TRUE /\ todo' = todo /\ pc' = "idle"
    BY DEF redisClusterFormattedCommand, map
  <1>1. c \in Seq(Slot) /\ c # << >>
    BY SyncAssumption
  <1>2. TypeOK'
    BY <1>0, <1>1, Zenon DEF Inv, TypeOK, Locations
  <1>3. CallInv'
    BY <1>0, <1>1, SyncAssumption DEF Inv, CallInv
  <1>4. QueueInv'
    BY <1>0 DEF Inv, QueueInv
  <1>5. DeferredInv'
    BY <1>0 DEF Inv, CallInv, DeferredInv
  <1>6. ScheduleInv'
    BY <1>0 DEF Inv, ScheduleInv
  <1>7. HeadInv'
    BY <1>0 DEF HeadInv
  <1> QED
    BY <1>0, <1>2, <1>3, <1>4, <1>5, <1>6, <1>7 DEF Inv

(* The command goes ahead of the query; only a resend finds one waiting.   *)
LEMMA SendInv ==
  ASSUME Inv, ~stale, Send
  PROVE  Inv'
  <1>0. /\ UNCHANGED <<nodes, table, need, retry, err, k, unsettled, todo, result, stale, refused>>
        /\ pc = "send" /\ pc' = "recv"
    BY DEF Send, ret
  <1>1. k \in Addr /\ con[k] = "ok"
    BY <1>0 DEF Inv, CallInv, TypeOK
  <1>2. CASE need /\ upd = NULL /\ upd' = k /\ UNCHANGED con
             /\ replies' = [replies EXCEPT ![k] = @ \o <<"cmd", "slotmap">>]
    <2>1. TypeOK'
      BY <1>0, <1>1, <1>2 DEF Inv, TypeOK, Locations
    <2>2. replies[k] = << >>
      <3>1. Len(replies[k]) <= 0
        BY <1>0, <1>1, <1>2, SyncAssumption DEF Inv, QueueInv
      <3>2. replies[k] \in Seq({"cmd", "slotmap", "asking"})
        BY <1>1 DEF Inv, TypeOK
      <3> QED
        BY <3>1, <3>2
    <2>3. replies'[k] = <<"cmd", "slotmap">>
      BY <1>1, <1>2, <2>2 DEF Inv, TypeOK
    <2>4. \A a \in Addr : a # k => replies'[a] = replies[a]
      BY <1>2 DEF Inv, TypeOK
    <2>5. QueueInv'
      BY <1>0, <1>1, <1>2, <2>3, <2>4, SyncAssumption DEF Inv, QueueInv, TypeOK
    <2>6. CallInv'
      BY <1>0 DEF Inv, CallInv
    <2>7. DeferredInv'
      <3>1. k = table[slot]
        BY <1>0, <1>2 DEF Inv, ScheduleInv
      <3> QED
      BY <1>0, <1>1, <1>2, <3>1, SyncAssumption DEF Inv, DeferredInv, CallInv, slot
    <2>8. ScheduleInv'
      BY <1>0, <1>1, <1>2, SyncAssumption DEF Inv, ScheduleInv
    <2>9. HeadInv'
      BY <1>0, <2>3 DEF HeadInv
    <2> QED
      BY <1>0, <2>1, <2>5, <2>6, <2>7, <2>8, <2>9 DEF Inv
  <1>3. CASE need /\ upd = NULL /\ con' = [con EXCEPT ![k] = "broken"]
             /\ UNCHANGED <<replies, upd>>
    <2>1. con' \in [Addr -> {"none", "ok", "broken"}]
      BY <1>3, Zenon DEF Inv, TypeOK
    <2>2. TypeOK'
      BY <1>0, <1>3, <2>1 DEF Inv, TypeOK, Locations
    <2>3. con'[k] = "broken" /\ \A a \in Addr : a # k => con'[a] = con[a]
      BY <1>1, <1>3 DEF Inv, TypeOK
    <2>4. CallInv'
      BY <1>0 DEF Inv, CallInv
    <2>5. QueueInv'
      BY <1>0, <1>3, <2>3 DEF Inv, QueueInv
    <2>6. DeferredInv'
      BY <1>0, <1>3 DEF DeferredInv
    <2>7. ScheduleInv'
      BY <1>0, <2>3 DEF Inv, ScheduleInv
    <2>8. HeadInv'
      BY <1>0, <2>3 DEF HeadInv
    <2> QED
      BY <1>0, <2>2, <2>4, <2>5, <2>6, <2>7, <2>8 DEF Inv
  <1>4. CASE ~(need /\ upd = NULL) /\ replies' = Put(k, "cmd") /\ UNCHANGED <<con, upd>>
    <2>1. replies' = [replies EXCEPT ![k] = Append(@, "cmd")]
      BY <1>4 DEF Put
    <2>2. /\ replies' \in [Addr -> Seq({"cmd", "slotmap", "asking"})]
          /\ replies'[k] = Append(replies[k], "cmd")
          /\ \A a \in Addr : a # k => replies'[a] = replies[a]
      BY <1>1, <2>1 DEF Inv, TypeOK
    <2>3. TypeOK'
      BY <1>0, <1>4, <2>2 DEF Inv, TypeOK, Locations
    <2>4. CallInv'
      BY <1>0 DEF Inv, CallInv
    <2>5. QueueInv'
      <3> SUFFICES ASSUME NEW a \in Addr, con[a] = "ok"
                   PROVE  Len(replies'[a]) <= (IF a = upd THEN 1 ELSE 0)
                                                + (IF a = k THEN 1 ELSE 0)
        BY <1>0, <1>4 DEF QueueInv
      <3>1. Len(replies[a]) <= IF a = upd THEN 1 ELSE 0
        BY <1>0 DEF Inv, QueueInv
      <3>2. replies[a] \in Seq({"cmd", "slotmap", "asking"})
        BY DEF Inv, TypeOK
      <3>3. CASE a = k
        BY <3>1, <3>2, <3>3, <2>2
      <3>4. CASE a # k
        BY <3>1, <3>2, <3>4, <2>2
      <3> QED
        BY <3>3, <3>4
    <2>6. DeferredInv'
      BY <1>0, <1>4 DEF Inv, DeferredInv, slot
    <2>7. ScheduleInv'
      BY <1>0, <1>4 DEF Inv, ScheduleInv
    <2>8. HeadInv'
      <3> SUFFICES ASSUME Head(replies'[k]) # "cmd"
                   PROVE  upd = k /\ retry > 0
        BY <1>0, <1>4 DEF HeadInv
      <3>1. replies[k] \in Seq({"cmd", "slotmap", "asking"})
        BY <1>1 DEF Inv, TypeOK
      <3>2. replies[k] # << >>
        BY <2>2, <3>1
      <3>3. upd = k
        BY <1>0, <1>1, <3>1, <3>2 DEF Inv, QueueInv
      <3> QED
        BY <1>0, <1>1, <3>3, SyncAssumption DEF Inv, DeferredInv
    <2> QED
      BY <1>0, <2>3, <2>4, <2>5, <2>6, <2>7, <2>8 DEF Inv
  <1> QED
    BY <1>2, <1>3, <1>4 DEF Send

(* The step of a call that finds its node or its connection after an       *)
(* update: there is no deferred query whose connection it could free.      *)
LEMMA LookAgainInv ==
  ASSUME Inv, ~stale, upd = NULL, pc \in {"lookup", "connect"},
         NEW m \in Maps \union {NULL}, NEW loc \in {"connect", "open"},
         LookAgain(m, loc), UNCHANGED <<retry, upd, ret>>
  PROVE  Inv'
  <1>0. UNCHANGED <<retry, upd, todo, result, stale, refused>>
    BY DEF ret
  <1>1. result = "none" /\ retry <= MaxRetry /\ todo # << >>
    BY DEF Inv, CallInv
  <1>2. slot \in Slot /\ slot' = slot
    BY <1>0, <1>1 DEF Inv, TypeOK, slot
  <1>3. CASE m = NULL
    <2>0. /\ UNCHANGED <<con, replies, nodes, table, need, unsettled, k>>
          /\ err' \in BOOLEAN /\ pc' = "done"
      BY <1>3 DEF LookAgain, redisClusterUpdateSlotmap
    <2>1. TypeOK'
      BY <1>0, <2>0 DEF Inv, TypeOK, Locations
    <2>2. CallInv'
      BY <1>0, <1>1, <2>0 DEF Inv, CallInv
    <2>3. QueueInv'
      BY <1>0, <2>0 DEF Inv, QueueInv
    <2>4. DeferredInv' /\ HeadInv'
      BY <1>0, <2>0 DEF DeferredInv, HeadInv
    <2>5. ScheduleInv'
      BY <1>0, <1>1, <2>0 DEF Inv, ScheduleInv
    <2> QED
      BY <1>0, <2>1, <2>2, <2>3, <2>4, <2>5 DEF Inv
  <1>4. CASE m # NULL
    <2>m. m \in Maps /\ IsMap(m)
      BY <1>4, SyncAssumption
    <2>0. /\ updateNodesAndSlotmap(m, con, replies)
          /\ \/ err' = FALSE /\ k' = m.table[slot] /\ pc' = loc /\ m.table[slot] # NULL
             \/ err' = TRUE /\ k' = k /\ pc' = "done"
      BY <1>4 DEF LookAgain, redisClusterUpdateSlotmap
    <2>1. /\ nodes' = m.nodes /\ table' = m.table /\ need' = FALSE /\ unsettled' = FALSE
          /\ nodes' \subseteq Addr
          /\ table' \in [Slot -> nodes' \union {NULL}]
      BY <2>m, <2>0 DEF updateNodesAndSlotmap, IsMap
    <2>2. /\ con' \in [Addr -> {"none", "ok", "broken"}]
          /\ replies' \in [Addr -> Seq({"cmd", "slotmap", "asking"})]
          /\ \A a \in Addr : con'[a] = "ok" => con[a] = "ok" /\ replies'[a] = replies[a]
      BY <2>0 DEF updateNodesAndSlotmap, Inv, TypeOK
    <2>3. k' \in Addr \union {NULL} /\ (pc' # "done" => k' \in nodes' /\ k' = table'[slot])
      BY <1>2, <2>0, <2>1 DEF Inv, TypeOK
    <2>4. TypeOK'
      BY <1>0, <2>0, <2>1, <2>2, <2>3, Zenon DEF Inv, TypeOK, Locations
    <2>5. CallInv'
      BY <1>0, <1>1, <1>2, <2>0, <2>3 DEF CallInv
    <2>6. QueueInv'
      BY <1>0, <2>0, <2>2 DEF Inv, QueueInv
    <2>7. DeferredInv' /\ HeadInv'
      BY <1>0, <2>0 DEF DeferredInv, HeadInv
    <2>8. ScheduleInv'
      BY <2>0, <2>1 DEF ScheduleInv
    <2> QED
      BY <1>0, <2>4, <2>5, <2>6, <2>7, <2>8 DEF Inv
  <1> QED
    BY <1>3, <1>4

(* Looking up the node of the slot.                                        *)
LEMMA LookupInv ==
  ASSUME Inv, ~stale, Lookup
  PROVE  Inv'
  <1>0. pc = "lookup" /\ UNCHANGED <<retry, upd, ret>>
    BY DEF Lookup
  <1>1. CASE /\ table[slot] # NULL /\ k' = table[slot] /\ pc' = "connect"
             /\ UNCHANGED <<map, err>>
    <2>0. UNCHANGED <<nodes, table, con, replies, need, unsettled, err, retry, upd, todo, result, stale, refused>>
      BY <1>0, <1>1 DEF map, ret
    <2>1. todo # << >> /\ slot \in Slot /\ slot' = slot
      BY <1>0, <2>0 DEF Inv, CallInv, TypeOK, slot
    <2>2. k' \in nodes /\ k' \in Addr
      BY <1>1, <2>1 DEF Inv, TypeOK
    <2>3. TypeOK'
      BY <1>1, <2>0, <2>2 DEF Inv, TypeOK, Locations
    <2>4. CallInv'
      BY <1>0, <1>1, <2>0, <2>1, <2>2 DEF Inv, CallInv
    <2>5. QueueInv'
      BY <1>0, <1>1, <2>0 DEF Inv, QueueInv
    <2>6. DeferredInv' /\ HeadInv'
      BY <1>0, <1>1, <2>0, <2>1 DEF Inv, DeferredInv, HeadInv
    <2>7. ScheduleInv'
      BY <1>0, <1>1, <2>0 DEF Inv, ScheduleInv
    <2> QED
      BY <2>0, <2>3, <2>4, <2>5, <2>6, <2>7 DEF Inv
  <1>2. CASE /\ table[slot] = NULL
             /\ \E m \in Maps \union {NULL} : LookAgain(m, "connect")
    <2>1. upd = NULL
      BY <1>0, <1>2 DEF Inv, DeferredInv
    <2> QED
      BY <1>0, <1>2, <2>1, LookAgainInv
  <1> QED
    BY <1>1, <1>2 DEF Lookup

(* AUTH leaves an error only where it was refused.                         *)
LEMMA AuthFacts ==
  ASSUME Inv, err => refused, NEW a, authenticate(a)
  PROVE  err' \in BOOLEAN /\ refused' \in BOOLEAN /\ (err' => refused')
  <1>1. err \in BOOLEAN /\ refused \in BOOLEAN
    BY DEF Inv, TypeOK
  <1>2. CASE err' = err /\ refused' = refused
    BY <1>1, <1>2, Zenon
  <1>3. CASE err' = TRUE /\ refused' = TRUE
    BY <1>3, Zenon
  <1> QED
    BY <1>2, <1>3, Zenon DEF authenticate

(* A connection that is opened carries nothing yet.                        *)
LEMMA ConnectedInv ==
  ASSUME Inv, ~stale, pc \in {"connect", "open"}, ctx_get_by_node(k), pc' = "send",
         UNCHANGED <<nodes, table, need, unsettled, k, retry, upd, todo, result, stale>>
  PROVE  Inv'
  <1>1. k \in Addr /\ k \in nodes /\ k = table[slot] /\ slot' = slot
    BY DEF Inv, CallInv, TypeOK, slot
  <1>2. /\ con' \in [Addr -> {"none", "ok", "broken"}]
        /\ replies' \in [Addr -> Seq({"cmd", "slotmap", "asking"})]
        /\ con'[k] = "ok"
        /\ \A a \in Addr : con'[a] = con[a] \/ a = k
        /\ \A a \in Addr : \/ con'[a] = con[a] /\ replies'[a] = replies[a]
                           \/ a = k /\ replies'[a] = << >>
    <2>1. CASE con[k] = "ok"
      BY <1>1, <2>1 DEF ctx_get_by_node, Inv, TypeOK
    <2>2. CASE con[k] # "ok"
      <3>1. /\ con' = [con EXCEPT ![k] = "ok"]
            /\ replies' = [replies EXCEPT ![k] = << >>]
        BY <2>2 DEF ctx_get_by_node
      <3>2. con \in [Addr -> {"none", "ok", "broken"}]
        BY DEF Inv, TypeOK
      <3>3. replies \in [Addr -> Seq({"cmd", "slotmap", "asking"})]
        BY DEF Inv, TypeOK
      <3>4. << >> \in Seq({"cmd", "slotmap", "asking"})
        OBVIOUS
      <3> QED
        BY <1>1, <3>1, <3>2, <3>3, <3>4
    <2> QED
      BY <2>1, <2>2
  <1>a. err' \in BOOLEAN /\ refused' \in BOOLEAN /\ (err' => refused')
    BY AuthFacts DEF ctx_get_by_node, Inv, CallInv
  <1>3. TypeOK'
    BY <1>2, <1>a DEF Inv, TypeOK, Locations
  <1>4. CallInv'
    BY <1>1, <1>2, <1>a DEF Inv, CallInv
  <1>5. QueueInv'
    <2> SUFFICES ASSUME NEW a \in Addr, con'[a] = "ok"
                 PROVE  Len(replies'[a]) <= IF a = upd THEN 1 ELSE 0
      BY DEF QueueInv
    <2>1. CASE replies'[a] = << >>
      BY <2>1
    <2>2. CASE replies'[a] = replies[a] /\ con'[a] = con[a]
      BY <2>2 DEF Inv, QueueInv
    <2> QED
      BY <1>2, <2>1, <2>2
  <1>6. DeferredInv'
    BY <1>1, <1>2, SyncAssumption DEF Inv, DeferredInv, TypeOK
  <1>7. ScheduleInv' /\ HeadInv'
    BY <1>1 DEF Inv, ScheduleInv, HeadInv
  <1> QED
    BY <1>3, <1>4, <1>5, <1>6, <1>7 DEF Inv

(* The first attempt to connect.                                           *)
LEMMA ConnectInv ==
  ASSUME Inv, ~stale, Connect
  PROVE  Inv'
  <1>1. CASE /\ ctx_get_by_node(k) /\ pc' = "send"
             /\ UNCHANGED <<nodes, table, need, unsettled, k>>
    BY <1>1, ConnectedInv DEF Connect
  <1>2. CASE /\ MayFail(k) /\ \E m \in Maps \union {NULL} : LookAgain(m, "open")
             /\ UNCHANGED refused
    <2>1. upd = NULL
      BY <1>2 DEF Connect, MayFail, Inv, CallInv, DeferredInv
    <2> QED
      BY <1>2, <2>1, LookAgainInv DEF Connect, ret
  <1> QED
    BY <1>1, <1>2 DEF Connect

(* Every other attempt to connect.                                         *)
LEMMA OpenInv ==
  ASSUME Inv, ~stale, Open
  PROVE  Inv'
  <1>0. /\ pc = "open"
        /\ UNCHANGED <<nodes, table, need, retry, k, upd, unsettled, todo, result, stale>>
    BY DEF Open
  <1>1. CASE ctx_get_by_node(k) /\ pc' = "send"
    BY <1>0, <1>1, ConnectedInv
  <1>2. CASE pc' = "done" /\ err' = TRUE /\ UNCHANGED <<con, replies, refused>>
    <2>1. TypeOK'
      BY <1>0, <1>2 DEF Inv, TypeOK, Locations
    <2>2. CallInv'
      BY <1>0, <1>2 DEF Inv, CallInv
    <2>3. QueueInv'
      BY <1>0, <1>2 DEF Inv, QueueInv
    <2>4. DeferredInv' /\ HeadInv'
      BY <1>0, <1>2 DEF Inv, DeferredInv, HeadInv
    <2>5. ScheduleInv'
      BY <1>0, <1>2 DEF Inv, CallInv, ScheduleInv
    <2> QED
      BY <1>0, <2>1, <2>2, <2>3, <2>4, <2>5 DEF Inv
  <1> QED
    BY <1>1, <1>2, Zenon DEF Open

-----------------------------------------------------------------------------
(* Reading takes one reply off one connection.                             *)
LEMMA RestFacts ==
  ASSUME TypeOK, NEW a \in Addr, replies[a] # << >>
  PROVE  /\ Rest(a) \in [Addr -> Seq({"cmd", "slotmap", "asking"})]
         /\ Len(Rest(a)[a]) = Len(replies[a]) - 1
         /\ \A b \in Addr : b # a => Rest(a)[b] = replies[b]
  <1>1. replies \in [Addr -> Seq({"cmd", "slotmap", "asking"})]
    BY DEF TypeOK
  <1>2. replies[a] \in Seq({"cmd", "slotmap", "asking"})
    BY <1>1
  <1>3. /\ Tail(replies[a]) \in Seq({"cmd", "slotmap", "asking"})
        /\ Len(Tail(replies[a])) = Len(replies[a]) - 1
    BY <1>2
  <1> QED
    BY <1>1, <1>3 DEF Rest

(* After the reply of the command at most the deferred query is left.      *)
LEMMA ReadFacts ==
  ASSUME Inv, ~stale, pc = "recv", Read(k)
  PROVE  /\ k \in Addr /\ k \in nodes /\ con[k] = "ok"
         /\ Rest(k) \in [Addr -> Seq({"cmd", "slotmap", "asking"})]
         /\ \A a \in Addr : con[a] = "ok" => Len(Rest(k)[a]) <= IF a = upd THEN 1 ELSE 0
  <1>1. k \in Addr /\ k \in nodes /\ con[k] = "ok" /\ replies[k] # << >>
    BY DEF Inv, CallInv, TypeOK, Read
  <1>2. /\ Rest(k) \in [Addr -> Seq({"cmd", "slotmap", "asking"})]
        /\ Len(Rest(k)[k]) = Len(replies[k]) - 1
        /\ \A b \in Addr : b # k => Rest(k)[b] = replies[b]
    BY <1>1, RestFacts DEF Inv
  <1>3. ASSUME NEW a \in Addr, con[a] = "ok"
        PROVE  Len(Rest(k)[a]) <= IF a = upd THEN 1 ELSE 0
    <2>1. Len(replies[a]) <= (IF a = upd THEN 1 ELSE 0) + (IF a = k THEN 1 ELSE 0)
      BY <1>3 DEF Inv, QueueInv
    <2>2. replies[a] \in Seq({"cmd", "slotmap", "asking"})
      BY DEF Inv, TypeOK
    <2>3. Len(replies[a]) \in Nat
      BY <2>2
    <2>4. CASE a = k
      BY <1>2, <2>1, <2>3, <2>4
    <2>5. CASE a # k
      BY <1>2, <2>1, <2>3, <2>5
    <2> QED
      BY <2>4, <2>5
  <1> QED
    BY <1>1, <1>2, <1>3

(* A read that fails closes the connection and schedules an update.        *)
LEMMA RecvFailsInv ==
  ASSUME Inv, ~stale, RecvFails
  PROVE  Inv'
  <1>0. /\ pc = "recv" /\ pc' = "done" /\ err' = TRUE /\ need' = TRUE /\ unsettled' = TRUE
        /\ con' = [con EXCEPT ![k] = "broken"]
        /\ UNCHANGED <<nodes, table, replies, retry, k, upd, todo, result, stale, refused>>
    BY DEF RecvFails, ret
  <1>1. con \in [Addr -> {"none", "ok", "broken"}] /\ k \in Addr
    BY <1>0 DEF Inv, TypeOK, CallInv
  <1>2. /\ con' \in [Addr -> {"none", "ok", "broken"}]
        /\ con'[k] = "broken" /\ \A a \in Addr : a # k => con'[a] = con[a]
    BY <1>0, <1>1
  <1>3. TypeOK'
    BY <1>0, <1>2 DEF Inv, TypeOK, Locations
  <1>4. CallInv' /\ ScheduleInv' /\ HeadInv'
    BY <1>0 DEF Inv, CallInv, ScheduleInv, HeadInv
  <1>5. QueueInv'
    BY <1>0, <1>2 DEF Inv, QueueInv
  <1>6. DeferredInv'
    BY <1>0, <1>1, <1>2 DEF Inv, DeferredInv, TypeOK
  <1> QED
    BY <1>0, <1>3, <1>4, <1>5, <1>6 DEF Inv

(* A reply ends the command.                                               *)
LEMMA RecvReplyInv ==
  ASSUME Inv, ~stale, RecvReply
  PROVE  Inv'
  <1>0. /\ pc = "recv" /\ Read(k) /\ pc' = "done" /\ replies' = Rest(k)
        /\ result' \in {"reply", "error", "foreign"}
        /\ UNCHANGED <<nodes, table, con, need, retry, err, todo, k, upd, unsettled, stale, refused>>
    BY DEF RecvReply
  <1>1. con[k] = "ok" /\ (err => refused) /\ retry <= MaxRetry /\ todo # << >>
    BY <1>0, ReadFacts DEF Inv, CallInv
  <1>2. TypeOK'
    BY <1>0, ReadFacts DEF Inv, TypeOK, Locations
  <1>3. CallInv'
    BY <1>0, <1>1 DEF CallInv
  <1>4. QueueInv'
    BY <1>0, ReadFacts DEF QueueInv
  <1>5. DeferredInv' /\ ScheduleInv' /\ HeadInv'
    BY <1>0, <1>1 DEF Inv, DeferredInv, ScheduleInv, HeadInv
  <1> QED
    BY <1>0, <1>2, <1>3, <1>4, <1>5 DEF Inv

(* The last retry ends the command with an error.                          *)
LEMMA RecvGivesUpInv ==
  ASSUME Inv, ~stale, RecvGivesUp
  PROVE  Inv'
  <1>0. /\ pc = "recv" /\ Read(k) /\ pc' = "done" /\ replies' = Rest(k)
        /\ retry' = retry + 1 /\ err' = TRUE
        /\ UNCHANGED <<nodes, table, con, need, k, upd, unsettled, todo, result, stale, refused>>
    BY DEF RecvGivesUp, RecvClusterError, ret
  <1>1. result = "none" /\ retry <= MaxRetry /\ todo # << >>
    BY <1>0 DEF Inv, CallInv
  <1>a. retry' \in 0 .. MaxRetry + 1
    BY <1>0, <1>1, SyncAssumption DEF Inv, TypeOK
  <1>2. TypeOK'
    BY <1>0, <1>a, ReadFacts DEF Inv, TypeOK, Locations
  <1>3. CallInv'
    BY <1>0, <1>1 DEF CallInv
  <1>4. QueueInv'
    BY <1>0, ReadFacts DEF QueueInv
  <1>5. DeferredInv' /\ ScheduleInv' /\ HeadInv'
    BY <1>0, <1>1 DEF Inv, DeferredInv, ScheduleInv, HeadInv
  <1> QED
    BY <1>0, <1>2, <1>3, <1>4, <1>5 DEF Inv

(* What a retry leaves to the next attempt.                                *)
LEMMA RetryFacts ==
  ASSUME Inv, ~stale, RecvRetries
  PROVE  /\ pc = "recv" /\ Read(k) /\ con[k] = "ok"
         /\ (err => refused) /\ result = "none" /\ todo # << >> /\ slot \in Slot
         /\ retry' \in 0 .. MaxRetry + 1 /\ retry' <= MaxRetry /\ retry' > 0
         /\ need => upd # NULL
         /\ upd # NULL => table[slot] # NULL /\ con[table[slot]] = "ok"
  <1>1. pc = "recv" /\ Read(k) /\ retry < MaxRetry /\ retry' = retry + 1
    BY DEF RecvRetries, RecvClusterError
  <1>2. con[k] = "ok"
    BY <1>1 DEF Read
  <1>3. (err => refused) /\ result = "none" /\ todo # << >> /\ slot \in Slot
    BY <1>1 DEF Inv, CallInv, TypeOK, slot
  <1>4. retry' \in 0 .. MaxRetry + 1 /\ retry' <= MaxRetry /\ retry' > 0
    BY <1>1, SyncAssumption DEF Inv, TypeOK
  <1>5. need => upd # NULL
    BY <1>1, <1>2 DEF Inv, ScheduleInv
  <1>6. upd # NULL => table[slot] # NULL /\ con[table[slot]] = "ok"
    BY <1>1 DEF Inv, DeferredInv
  <1> QED
    BY <1>1, <1>2, <1>3, <1>4, <1>5, <1>6

(* TRYAGAIN and CLUSTERDOWN start again from the slot.                     *)
LEMMA RecvTryAgainInv ==
  ASSUME Inv, ~stale, RecvTryAgain
  PROVE  Inv'
  <1>0. /\ RecvRetries /\ replies' = Rest(k) /\ pc' = "lookup"
        /\ UNCHANGED <<nodes, table, con, need, err, k, upd, unsettled, todo, result, stale, refused>>
    BY DEF RecvTryAgain, ret
  <1>1. pc = "recv" /\ Read(k)
    BY <1>0, RetryFacts
  <1>2. TypeOK'
    BY <1>0, <1>1, RetryFacts, ReadFacts DEF Inv, TypeOK, Locations
  <1>3. CallInv'
    BY <1>0, RetryFacts DEF CallInv
  <1>4. QueueInv'
    BY <1>0, <1>1, ReadFacts DEF QueueInv
  <1>5. DeferredInv'
    BY <1>0, RetryFacts DEF Inv, DeferredInv, slot
  <1>6. ScheduleInv' /\ HeadInv'
    BY <1>0 DEF Inv, ScheduleInv, HeadInv
  <1> QED
    BY <1>0, <1>2, <1>3, <1>4, <1>5, <1>6 DEF Inv

(* ASK leads to another node and changes no slot.                          *)
LEMMA RecvAskInv ==
  ASSUME Inv, ~stale, NEW a \in Addr, RecvAsk(a)
  PROVE  Inv'
  <1>0. /\ RecvRetries /\ replies' = Rest(k) /\ pc' = "asking"
        /\ nodes' = nodes \union {a} /\ k' = a
        /\ UNCHANGED <<table, con, need, err, upd, unsettled, todo, result, stale, refused>>
    BY DEF RecvAsk, ret
  <1>1. pc = "recv" /\ Read(k)
    BY <1>0, RetryFacts
  <1>a. nodes' \subseteq Addr /\ table \in [Slot -> nodes' \union {NULL}]
    BY <1>0 DEF Inv, TypeOK
  <1>2. TypeOK'
    BY <1>0, <1>1, <1>a, RetryFacts, ReadFacts DEF Inv, TypeOK, Locations
  <1>3. CallInv'
    BY <1>0, RetryFacts DEF CallInv
  <1>4. QueueInv'
    BY <1>0, <1>1, ReadFacts DEF QueueInv
  <1>5. DeferredInv'
    BY <1>0, RetryFacts DEF Inv, DeferredInv, slot
  <1>6. ScheduleInv' /\ HeadInv'
    BY <1>0, RetryFacts DEF Inv, ScheduleInv, HeadInv
  <1> QED
    BY <1>0, <1>2, <1>3, <1>4, <1>5, <1>6 DEF Inv

(* MOVED: each of its four ends.                                           *)
LEMMA RecvMovedInv ==
  ASSUME Inv, ~stale, NEW a \in Addr, RecvMoved(a)
  PROVE  Inv'
  <1> DEFINE R == Rest(k)
  <1> DEFINE T == [table EXCEPT ![slot] = a]
  <1>0. RecvRetries /\ a # k /\ UNCHANGED <<todo, result, refused>>
    BY DEF RecvMoved
  <1>1. pc = "recv" /\ Read(k) /\ con[k] = "ok"
    BY <1>0, RetryFacts
  <1>2. /\ k \in Addr /\ k \in nodes
        /\ R \in [Addr -> Seq({"cmd", "slotmap", "asking"})]
        /\ \A b \in Addr : con[b] = "ok" => Len(R[b]) <= IF b = upd THEN 1 ELSE 0
    BY <1>1, ReadFacts
  <1>3. /\ nodes \union {a} \subseteq Addr
        /\ T \in [Slot -> nodes \union {a} \union {NULL}]
        /\ T[slot] = a
    BY <1>0, RetryFacts DEF Inv, TypeOK
  <1>4. slot' = slot /\ todo # << >> /\ result = "none" /\ (err => refused)
    BY <1>0, RetryFacts DEF slot
  <1>5. /\ retry' \in 0 .. MaxRetry + 1 /\ retry' <= MaxRetry /\ retry' > 0
        /\ need => upd # NULL
    BY <1>0, RetryFacts
  <1>6. [con EXCEPT ![k] = "broken"] \in [Addr -> {"none", "ok", "broken"}]
    BY <1>2 DEF Inv, TypeOK
  <1> HIDE DEF R, T
  <1>7. CASE /\ upd # NULL
             /\ replies' = R /\ table' = T /\ nodes' = nodes \union {a}
             /\ k' = a /\ pc' = "open"
             /\ UNCHANGED <<con, need, err, upd, unsettled, stale>>
    <2>1. TypeOK'
      BY <1>0, <1>2, <1>3, <1>5, <1>7 DEF Inv, TypeOK, Locations
    <2>2. CallInv'
      BY <1>0, <1>3, <1>4, <1>5, <1>7 DEF CallInv
    <2>3. QueueInv'
      BY <1>2, <1>7 DEF QueueInv
    <2>4. DeferredInv' /\ ScheduleInv' /\ HeadInv'
      BY <1>5, <1>7 DEF Inv, DeferredInv, ScheduleInv, HeadInv
    <2> QED
      BY <1>7, <2>1, <2>2, <2>3, <2>4 DEF Inv
  <1>8. CASE /\ upd = NULL
             /\ replies' = [R EXCEPT ![k] = Append(@, "slotmap")]
             /\ table' = T /\ nodes' = nodes \union {a}
             /\ upd' = k /\ k' = a /\ pc' = "open"
             /\ UNCHANGED <<con, need, err, unsettled, stale>>
    <2>0. /\ replies' \in [Addr -> Seq({"cmd", "slotmap", "asking"})]
          /\ replies'[k] = Append(R[k], "slotmap")
          /\ \A b \in Addr : b # k => replies'[b] = R[b]
      BY <1>2, <1>8
    <2>1. TypeOK'
      BY <1>0, <1>2, <1>3, <1>5, <1>8, <2>0 DEF Inv, TypeOK, Locations
    <2>2. CallInv'
      BY <1>0, <1>3, <1>4, <1>5, <1>8 DEF CallInv
    <2>3. QueueInv'
      <3> SUFFICES ASSUME NEW b \in Addr, con[b] = "ok"
                   PROVE  Len(replies'[b]) <= IF b = k THEN 1 ELSE 0
        BY <1>8 DEF QueueInv
      <3>1. R[b] \in Seq({"cmd", "slotmap", "asking"}) /\ Len(R[b]) <= 0
        BY <1>2, <1>8, SyncAssumption
      <3> QED
        BY <2>0, <3>1
    <2>4. DeferredInv' /\ ScheduleInv' /\ HeadInv'
      BY <1>1, <1>2, <1>5, <1>8 DEF Inv, DeferredInv, ScheduleInv, HeadInv
    <2> QED
      BY <1>8, <2>1, <2>2, <2>3, <2>4 DEF Inv
  <1>9. CASE /\ upd = NULL
             /\ \E m \in Maps : redisClusterUpdateSlotmap(m, [con EXCEPT ![k] = "broken"], R)
             /\ stale' = TRUE
             /\ UNCHANGED <<k, upd, pc>>
    <2>1. PICK m \in Maps : redisClusterUpdateSlotmap(m, [con EXCEPT ![k] = "broken"], R)
      BY <1>9
    <2>2. IsMap(m)
      BY SyncAssumption
    <2>3. /\ nodes' \subseteq Addr /\ table' \in [Slot -> nodes' \union {NULL}]
          /\ con' \in [Addr -> {"none", "ok", "broken"}]
          /\ replies' \in [Addr -> Seq({"cmd", "slotmap", "asking"})]
          /\ need' \in BOOLEAN /\ err' \in BOOLEAN /\ unsettled' \in BOOLEAN
      <3>1. CASE m = NULL
        BY <1>2, <1>6, <2>1, <3>1, Zenon DEF redisClusterUpdateSlotmap, Inv, TypeOK
      <3>2. CASE m # NULL
        <4> DEFINE C == [con EXCEPT ![k] = "broken"]
        <4>1. updateNodesAndSlotmap(m, C, R) /\ err' = FALSE
          BY <2>1, <3>2 DEF redisClusterUpdateSlotmap
        <4>2. C \in [Addr -> {"none", "ok", "broken"}]
          BY <1>6
        <4> HIDE DEF C
        <4>3. con' \in [Addr -> {"none", "ok", "broken"}]
          BY <4>1, <4>2 DEF updateNodesAndSlotmap
        <4>4. replies' \in [Addr -> Seq({"cmd", "slotmap", "asking"})]
          BY <1>2, <4>1 DEF updateNodesAndSlotmap
        <4> QED
          BY <2>2, <4>1, <4>3, <4>4, Zenon DEF updateNodesAndSlotmap, IsMap
      <3> QED
        BY <3>1, <3>2
    <2>4. TypeOK'
      BY <1>0, <1>5, <1>9, <2>3 DEF Inv, TypeOK
    <2> QED
      BY <1>0, <1>1, <1>4, <1>9, <2>4 DEF Inv
  <1>10. CASE /\ upd = NULL
              /\ con' = [con EXCEPT ![k] = "broken"]
              /\ replies' = R /\ table' = T /\ nodes' = nodes \union {a}
              /\ err' \in BOOLEAN /\ pc' = "done"
              /\ UNCHANGED <<need, k, upd, unsettled, stale>>
    <2>0. con'[k] = "broken" /\ \A b \in Addr : b # k => con'[b] = con[b]
      BY <1>2, <1>10 DEF Inv, TypeOK
    <2>1. TypeOK'
      BY <1>0, <1>2, <1>3, <1>5, <1>6, <1>10 DEF Inv, TypeOK, Locations
    <2>2. CallInv'
      BY <1>0, <1>4, <1>10 DEF CallInv
    <2>3. QueueInv'
      <3>1. \A b \in Addr : con'[b] = "ok" => con[b] = "ok" /\ replies'[b] = R[b]
        BY <1>2, <1>10, <2>0
      <3> QED
        BY <1>2, <1>10, <3>1 DEF QueueInv
    <2>4. DeferredInv' /\ ScheduleInv' /\ HeadInv'
      BY <1>0, <1>4, <1>10 DEF Inv, DeferredInv, ScheduleInv, HeadInv
    <2> QED
      BY <1>10, <2>1, <2>2, <2>3, <2>4 DEF Inv
  <1> QED
    BY <1>7, <1>8, <1>9, <1>10, Zenon DEF RecvMoved, R, T

(* ASKING takes one reply for the one it asks for.                         *)
LEMMA AskingInv ==
  ASSUME Inv, ~stale, Asking
  PROVE  Inv'
  <1>0. /\ pc = "asking"
        /\ UNCHANGED <<nodes, table, need, retry, k, upd, unsettled, todo, result, stale>>
    BY DEF Asking
  <1>1. /\ con \in [Addr -> {"none", "ok", "broken"}]
        /\ replies \in [Addr -> Seq({"cmd", "slotmap", "asking"})]
        /\ k \in Addr /\ k \in nodes /\ slot' = slot
    BY <1>0 DEF Inv, TypeOK, CallInv, slot
  <1>2. \A a \in Addr : con[a] = "ok" => Len(replies[a]) <= IF a = upd THEN 1 ELSE 0
    BY <1>0 DEF Inv, QueueInv
  <1>3. CASE /\ con' = [con EXCEPT ![k] = "ok"]
             /\ replies' = [replies EXCEPT ![k] =
                              Tail(Append(IF con[k] = "ok" THEN @ ELSE << >>, "asking"))]
             /\ pc' = "send" /\ authenticate(k)
    <2>a. err' \in BOOLEAN /\ refused' \in BOOLEAN /\ (err' => refused')
      BY <1>0, <1>3, AuthFacts DEF Inv, CallInv
    <2> DEFINE q == IF con[k] = "ok" THEN replies[k] ELSE << >>
    <2>1. q \in Seq({"cmd", "slotmap", "asking"}) /\ Len(q) <= IF k = upd THEN 1 ELSE 0
      BY <1>1, <1>2
    <2>2. replies' = [replies EXCEPT ![k] = Tail(Append(q, "asking"))]
      BY <1>3
    <2> HIDE DEF q
    <2>3. /\ Tail(Append(q, "asking")) \in Seq({"cmd", "slotmap", "asking"})
          /\ Len(Tail(Append(q, "asking"))) = Len(q)
      BY <2>1
    <2>4. /\ replies' \in [Addr -> Seq({"cmd", "slotmap", "asking"})]
          /\ Len(replies'[k]) <= IF k = upd THEN 1 ELSE 0
          /\ \A a \in Addr : a # k => replies'[a] = replies[a]
      BY <1>1, <2>1, <2>2, <2>3
    <2>5. /\ con' \in [Addr -> {"none", "ok", "broken"}]
          /\ con'[k] = "ok" /\ \A a \in Addr : a # k => con'[a] = con[a]
      BY <1>1, <1>3
    <2>6. TypeOK'
      BY <1>0, <1>3, <2>a, <2>4, <2>5 DEF Inv, TypeOK, Locations
    <2>7. CallInv'
      BY <1>0, <1>1, <1>3, <2>a, <2>5 DEF Inv, CallInv
    <2>8. QueueInv'
      <3> SUFFICES ASSUME NEW a \in Addr, con'[a] = "ok"
                   PROVE  Len(replies'[a]) <= IF a = upd THEN 1 ELSE 0
        BY <1>0, <1>3 DEF QueueInv
      <3> QED
        BY <1>2, <2>4, <2>5
    <2>9. DeferredInv'
      <3>1. upd # NULL => upd \in nodes /\ con[upd] # "none"
                            /\ table[slot] # NULL /\ con[table[slot]] = "ok" /\ retry > 0
        BY <1>0 DEF Inv, DeferredInv
      <3>2. upd \in Addr \union {NULL} /\ table[slot] \in Addr \union {NULL}
        BY <1>0 DEF Inv, TypeOK, CallInv, slot
      <3> QED
        BY <1>0, <1>1, <1>3, <2>5, <3>1, <3>2 DEF DeferredInv
    <2>10. ScheduleInv' /\ HeadInv'
      BY <1>0, <1>3 DEF Inv, ScheduleInv, HeadInv
    <2> QED
      BY <1>0, <2>6, <2>7, <2>8, <2>9, <2>10 DEF Inv
  <1>4. CASE /\ con' = [con EXCEPT ![k] = IF @ = "none" THEN "none" ELSE "broken"]
             /\ err' = TRUE /\ pc' = "done" /\ UNCHANGED <<replies, refused>>
    <2>1. /\ con' \in [Addr -> {"none", "ok", "broken"}]
          /\ con'[k] # "ok" /\ (con[k] # "none" => con'[k] # "none")
          /\ \A a \in Addr : a # k => con'[a] = con[a]
      BY <1>1, <1>4
    <2>2. TypeOK'
      BY <1>0, <1>4, <2>1 DEF Inv, TypeOK, Locations
    <2>3. CallInv' /\ ScheduleInv' /\ HeadInv'
      BY <1>0, <1>4 DEF Inv, CallInv, ScheduleInv, HeadInv
    <2>4. QueueInv'
      BY <1>0, <1>2, <1>4, <2>1 DEF QueueInv
    <2>5. DeferredInv'
      BY <1>0, <1>4, <2>1 DEF Inv, DeferredInv, TypeOK
    <2> QED
      BY <1>0, <2>2, <2>3, <2>4, <2>5 DEF Inv
  <1> QED
    BY <1>3, <1>4, Zenon DEF Asking

(* The update that ends a command: with the deferred query gone nothing is *)
(* left to read.                                                           *)
LEMMA UpdateAtEnd ==
  ASSUME Inv, ~stale, pc = "done", upd # NULL, upd' = NULL,
         UNCHANGED <<retry, pc, todo, k, stale, refused>>,
         NEW C \in [Addr -> {"none", "ok", "broken"}],
         NEW R \in [Addr -> Seq({"cmd", "slotmap", "asking"})],
         \A a \in Addr : C[a] = "ok" => Len(R[a]) <= 0,
         \/ /\ con' = C /\ replies' = R /\ err' \in BOOLEAN /\ result' = "none"
            /\ UNCHANGED <<nodes, table, need, unsettled>>
         \/ /\ \E m \in Maps : updateNodesAndSlotmap(m, C, R)
            /\ result' = result /\ err' \in {err, FALSE}
  PROVE  Inv'
  <1>0. todo # << >> /\ (result # "none" => (err => refused) /\ retry <= MaxRetry)
    BY DEF Inv, CallInv
  <1>1. CASE /\ con' = C /\ replies' = R /\ err' \in BOOLEAN /\ result' = "none"
             /\ UNCHANGED <<nodes, table, need, unsettled>>
    <2>1. TypeOK'
      BY <1>1 DEF Inv, TypeOK, Locations
    <2>2. CallInv'
      BY <1>0, <1>1 DEF CallInv
    <2>3. QueueInv'
      BY <1>1, SyncAssumption DEF QueueInv
    <2>4. DeferredInv' /\ ScheduleInv' /\ HeadInv'
      BY <1>1, Zenon DEF Inv, DeferredInv, ScheduleInv, HeadInv
    <2> QED
      BY <2>1, <2>2, <2>3, <2>4 DEF Inv
  <1>2. CASE /\ \E m \in Maps : updateNodesAndSlotmap(m, C, R)
             /\ result' = result /\ err' \in {err, FALSE}
    <2>1. PICK m \in Maps : updateNodesAndSlotmap(m, C, R)
      BY <1>2
    <2>2. nodes' \subseteq Addr /\ table' \in [Slot -> nodes' \union {NULL}]
      BY <2>1, SyncAssumption DEF updateNodesAndSlotmap, IsMap
    <2>3. /\ con' \in [Addr -> {"none", "ok", "broken"}]
          /\ replies' \in [Addr -> Seq({"cmd", "slotmap", "asking"})]
          /\ \A a \in Addr : con'[a] = "ok" => Len(replies'[a]) <= 0
      BY <2>1 DEF updateNodesAndSlotmap
    <2>4. need' = FALSE /\ unsettled' = FALSE
      BY <2>1 DEF updateNodesAndSlotmap
    <2>5. TypeOK'
      BY <1>2, <2>2, <2>3, <2>4, Zenon DEF Inv, TypeOK, Locations
    <2>a. err' = err \/ err' = FALSE
      BY <1>2, Zenon
    <2>6. CallInv'
      BY <1>0, <1>2, <2>a DEF CallInv
    <2>7. QueueInv'
      BY <2>3, SyncAssumption DEF QueueInv
    <2>8. DeferredInv' /\ ScheduleInv' /\ HeadInv'
      BY <2>4 DEF DeferredInv, ScheduleInv, HeadInv
    <2> QED
      BY <2>5, <2>6, <2>7, <2>8 DEF Inv
  <1> QED
    BY <1>1, <1>2, Zenon

(* Reading the deferred query, with its fallback to another node.          *)
LEMMA HandleDeferredUpdateInv ==
  ASSUME Inv, ~stale, HandleDeferredUpdate
  PROVE  Inv'
  <1>0. /\ pc = "done" /\ upd # NULL /\ upd' = NULL
        /\ UNCHANGED <<retry, pc, todo, k, stale, refused>>
    BY DEF HandleDeferredUpdate
  <1> DEFINE B == [con EXCEPT ![upd] = "broken"]
  <1>1. /\ con \in [Addr -> {"none", "ok", "broken"}]
        /\ replies \in [Addr -> Seq({"cmd", "slotmap", "asking"})]
        /\ upd \in Addr
    BY <1>0 DEF Inv, TypeOK
  <1>2. \A a \in Addr : con[a] = "ok" => Len(replies[a]) <= IF a = upd THEN 1 ELSE 0
    BY <1>0 DEF Inv, QueueInv
  <1>3. ASSUME Read(upd)
        PROVE  /\ Rest(upd) \in [Addr -> Seq({"cmd", "slotmap", "asking"})]
               /\ \A a \in Addr : con[a] = "ok" => Len(Rest(upd)[a]) <= 0
    <2>1. /\ Rest(upd) \in [Addr -> Seq({"cmd", "slotmap", "asking"})]
          /\ Len(Rest(upd)[upd]) = Len(replies[upd]) - 1
          /\ \A b \in Addr : b # upd => Rest(upd)[b] = replies[b]
      BY <1>1, <1>3, RestFacts DEF Inv, Read
    <2>2. con[upd] = "ok" /\ Len(replies[upd]) \in Nat
      BY <1>1, <1>3 DEF Read
    <2>3. Len(Rest(upd)[upd]) <= 0
      BY <1>1, <1>2, <2>1, <2>2
    <2> QED
      BY <1>2, <2>1, <2>3
  <1>4. /\ B \in [Addr -> {"none", "ok", "broken"}]
        /\ \A a \in Addr : B[a] = "ok" => Len(replies[a]) <= 0
    BY <1>1, <1>2
  <1> HIDE DEF B
  <1>5. CASE /\ Read(upd)
             /\ \E m \in Maps : updateNodesAndSlotmap(m, con, Rest(upd))
             /\ UNCHANGED <<err, result>>
    BY <1>0, <1>1, <1>3, <1>5, UpdateAtEnd, Zenon
  <1>6. ASSUME NEW m \in Maps \union {NULL},
               NEW C \in [Addr -> {"none", "ok", "broken"}],
               NEW R \in [Addr -> Seq({"cmd", "slotmap", "asking"})],
               \A a \in Addr : C[a] = "ok" => Len(R[a]) <= 0,
               redisClusterUpdateSlotmap(m, C, R),
               result' = IF m = NULL THEN "none" ELSE result
        PROVE  Inv'
    <2>1. CASE m = NULL
      BY <1>0, <1>6, <2>1, UpdateAtEnd, Zenon DEF redisClusterUpdateSlotmap
    <2>2. CASE m # NULL
      <3>1. m \in Maps /\ updateNodesAndSlotmap(m, C, R) /\ err' = FALSE /\ result' = result
        BY <1>6, <2>2 DEF redisClusterUpdateSlotmap
      <3> QED
        BY <1>0, <1>6, <3>1, UpdateAtEnd, Zenon
    <2> QED
      BY <2>1, <2>2
  <1>7. ASSUME NEW m \in Maps \union {NULL}, Read(upd),
               redisClusterUpdateSlotmap(m, con, Rest(upd)),
               result' = IF m = NULL THEN "none" ELSE result
        PROVE  Inv'
    BY <1>1, <1>3, <1>6, <1>7, Zenon
  <1>8. ASSUME NEW m \in Maps \union {NULL},
               redisClusterUpdateSlotmap(m, B, replies),
               result' = IF m = NULL THEN "none" ELSE result
        PROVE  Inv'
    BY <1>1, <1>4, <1>6, <1>8, Zenon
  <1> QED
    BY <1>5, <1>7, <1>8, Zenon DEF HandleDeferredUpdate, B

(* The next sub-command, or the end of the call.                           *)
LEMMA ReturnInv ==
  ASSUME Inv, ~stale, Return
  PROVE  Inv'
  <1>0. /\ pc = "done" /\ upd = NULL
        /\ UNCHANGED <<nodes, table, con, replies, need, err, upd, unsettled, stale, refused>>
    BY DEF Return
  <1>1. QueueInv'
    <2>1. pc' # "recv"
      BY DEF Return
    <2> QED
      BY <1>0, <2>1 DEF Inv, QueueInv
  <1>2. CASE /\ result \in {"reply", "foreign"} /\ Len(todo) > 1
             /\ todo' = Tail(todo) /\ result' = "none" /\ pc' = "lookup"
             /\ UNCHANGED <<retry, k>>
    <2>1. todo' \in Seq(Slot) /\ todo' # << >>
      <3>1. todo \in Seq(Slot)
        BY DEF Inv, TypeOK
      <3>2. todo # << >>
        BY <1>0 DEF Inv, CallInv
      <3>3. Tail(todo) \in Seq(Slot) /\ Len(Tail(todo)) = Len(todo) - 1
        BY <3>1, <3>2
      <3>4. Len(todo) \in Nat
        BY <3>1
      <3>5. Len(todo') > 0
        BY <1>2, <3>3, <3>4
      <3>6. Len(<< >>) = 0
        OBVIOUS
      <3>7. todo' # << >>
        BY <3>5, <3>6
      <3> QED
        BY <1>2, <3>3, <3>7
    <2>2. TypeOK'
      BY <1>0, <1>2, <2>1 DEF Inv, TypeOK, Locations
    <2>3. CallInv'
      BY <1>0, <1>2, <2>1 DEF Inv, CallInv
    <2>4. DeferredInv' /\ ScheduleInv' /\ HeadInv'
      BY <1>0, <1>2 DEF Inv, DeferredInv, ScheduleInv, HeadInv
    <2> QED
      BY <1>0, <1>1, <2>2, <2>3, <2>4 DEF Inv
  <1>3. CASE /\ todo' = << >> /\ retry' = 0 /\ k' = NULL /\ pc' = "idle"
             /\ UNCHANGED result
    <2>1. retry' \in 0 .. MaxRetry + 1 /\ todo' \in Seq(Slot)
      BY <1>3, SyncAssumption
    <2>2. TypeOK'
      BY <1>0, <1>3, <2>1 DEF Inv, TypeOK, Locations
    <2>3. CallInv'
      BY <1>0, <1>3 DEF Inv, CallInv
    <2>4. DeferredInv' /\ ScheduleInv' /\ HeadInv'
      BY <1>0, <1>3, SMTT(30) DEF Inv, DeferredInv, ScheduleInv, HeadInv
    <2> QED
      BY <1>0, <1>1, <2>2, <2>3, <2>4 DEF Inv
  <1> QED
    BY <1>2, <1>3 DEF Return

(* A command to a node reads what it sends, and gets its own reply.        *)
LEMMA ToNodeInv ==
  ASSUME Inv, ~stale, NEW a \in Addr, redisClustervCommandToNode(a)
  PROVE  Inv' /\ result' # "foreign"
  <1> DEFINE sent == IF need THEN <<"cmd", "slotmap">> ELSE <<"cmd">>
  <1> DEFINE old == IF con[a] = "ok" THEN replies[a] ELSE << >>
  <1> DEFINE R == [replies EXCEPT ![a] = old \o sent]
  <1> DEFINE C == [con EXCEPT ![a] = "ok"]
  <1> DEFINE B == [con EXCEPT ![a] = "broken"]
  <1> DEFINE R1 == [R EXCEPT ![a] = Tail(@)]
  <1> DEFINE R2 == [R EXCEPT ![a] = Tail(Tail(@))]
  <1> DEFINE Q == Seq({"cmd", "slotmap", "asking"})
  <1>0. pc = "idle" /\ refused' = FALSE /\ UNCHANGED <<retry, pc, todo, k, upd, stale>>
    BY Zenon DEF redisClustervCommandToNode
  <1>1. con \in [Addr -> {"none", "ok", "broken"}] /\ replies \in [Addr -> Q]
    BY DEF Inv, TypeOK
  <1>2. upd = NULL /\ retry = 0
    BY <1>0 DEF Inv, CallInv
  <1>3. \A b \in Addr : con[b] = "ok" => Len(replies[b]) <= 0
    BY <1>0, <1>2, SyncAssumption DEF Inv, QueueInv
  <1>4. old = << >>
    <2>1. replies[a] \in Q
      BY <1>1
    <2> QED
      BY <1>3, <2>1
  <1>5. sent \in Q /\ Head(sent) = "cmd"
    <2>1. /\ <<"cmd", "slotmap">> \in Q /\ Head(<<"cmd", "slotmap">>) = "cmd"
          /\ <<"cmd">> \in Q /\ Head(<<"cmd">>) = "cmd"
      OBVIOUS
    <2> QED
      BY <2>1, Zenon DEF sent
  <1> HIDE DEF sent, old
  <1>a. old \o sent = sent
    BY <1>4, <1>5, ConcatEmptySeq
  <1>b. R = [replies EXCEPT ![a] = sent] /\ R[a] = sent
    BY <1>1, <1>a
  <1>6. Head(R[a]) = "cmd"
    BY <1>5, <1>b, Zenon
  <1>7. B \in [Addr -> {"none", "ok", "broken"}] /\ C \in [Addr -> {"none", "ok", "broken"}]
    BY <1>1
  <1>8. R1 = [replies EXCEPT ![a] = Tail(sent)] /\ R2 = [replies EXCEPT ![a] = Tail(Tail(sent))]
    BY <1>1, <1>b, Zenon
  <1>9. need => Tail(Tail(sent)) = << >> /\ Tail(sent) = <<"slotmap">>
    BY DEF sent
  <1>10. ~need => Tail(sent) = << >>
    BY DEF sent
  <1>11. \A b \in Addr : B[b] = "ok" => b # a /\ con[b] = "ok"
    BY <1>1
  <1>12. \A b \in Addr : C[b] = "ok" => b = a \/ con[b] = "ok"
    BY <1>1
  <1> HIDE DEF R, C, B, R1, R2
  (* The end of each case: nothing is left on a usable connection.         *)
  <1>13. ASSUME TypeOK', \A b \in Addr : con'[b] = "ok" => Len(replies'[b]) <= 0,
                result' # "none" => ~err', unsettled' => need'
         PROVE  Inv'
    <2>1. CallInv'
      BY <1>0, <1>2, <1>13 DEF Inv, CallInv
    <2>2. QueueInv'
      BY <1>0, <1>2, <1>13, SyncAssumption DEF QueueInv
    <2>3. DeferredInv' /\ ScheduleInv' /\ HeadInv'
      BY <1>0, <1>2, <1>13 DEF DeferredInv, ScheduleInv, HeadInv
    <2> QED
      BY <1>0, <1>13, <2>1, <2>2, <2>3 DEF Inv
  <1>14. unsettled => need
    BY DEF Inv, ScheduleInv
  <1>15. CASE MayFail(a) /\ err' = TRUE /\ result' = "none" /\ UNCHANGED map
    <2>1. UNCHANGED <<nodes, table, con, replies, need, unsettled>>
      BY <1>15 DEF map
    <2>2. TypeOK'
      BY <1>0, <1>15, <2>1, Zenon DEF Inv, TypeOK
    <2> QED
      BY <1>3, <1>13, <1>14, <1>15, <2>1, <2>2
  <1>16. CASE /\ con' = B
              /\ err' = TRUE /\ need' = TRUE /\ unsettled' = TRUE
              /\ result' = "none"
              /\ UNCHANGED <<nodes, table, replies>>
    <2>1. TypeOK'
      BY <1>0, <1>7, <1>16, Zenon DEF Inv, TypeOK
    <2>2. \A b \in Addr : con'[b] = "ok" => Len(replies'[b]) <= 0
      BY <1>3, <1>11, <1>16
    <2> QED
      BY <1>13, <1>16, <2>1, <2>2
  <1>17. CASE /\ err' = FALSE
              /\ result' = IF Head(R[a]) = "cmd" THEN "reply" ELSE "foreign"
              /\ \/ ~need /\ con' = C /\ replies' = R1 /\ UNCHANGED <<nodes, table, need, unsettled>>
                 \/ need /\ \E m \in Maps : updateNodesAndSlotmap(m, C, R2)
                 \/ need /\ con' = C /\ replies' = R2 /\ UNCHANGED <<nodes, table, need, unsettled>>
                 \/ need /\ con' = B /\ replies' = R1 /\ UNCHANGED <<nodes, table, need, unsettled>>
    <2>0. result' = "reply"
      BY <1>6, <1>17
    <2>a. << >> \in Q /\ <<"slotmap">> \in Q /\ Len(<< >>) = 0
      OBVIOUS
    <2>b. need \in BOOLEAN
      BY DEF Inv, TypeOK
    <2>c. R1 \in [Addr -> Q] /\ (need => R2 \in [Addr -> Q])
      BY <1>1, <1>8, <1>9, <1>10, <2>a, <2>b, Zenon
    <2>d. \A b \in Addr : /\ b # a => R1[b] = replies[b] /\ R2[b] = replies[b]
                          /\ need => Len(R2[a]) = 0
                          /\ ~need => Len(R1[a]) = 0
      BY <1>1, <1>8, <1>9, <1>10, <2>a, Zenon
    <2>e. \A b \in Addr : /\ need /\ C[b] = "ok" => Len(R2[b]) <= 0
                          /\ ~need /\ C[b] = "ok" => Len(R1[b]) <= 0
                          /\ B[b] = "ok" => Len(R1[b]) <= 0
      <3> TAKE b \in Addr
      <3>1. CASE b = a
        BY <1>11, <2>d, <3>1
      <3>2. CASE b # a
        BY <1>3, <1>11, <1>12, <2>d, <3>2
      <3> QED
        BY <3>1, <3>2
    <2>1. CASE ~need /\ con' = C /\ replies' = R1 /\ UNCHANGED <<nodes, table, need, unsettled>>
      <3>1. TypeOK'
        BY <1>0, <1>7, <1>17, <2>0, <2>1, <2>c, Zenon DEF Inv, TypeOK
      <3> QED
        BY <1>13, <1>14, <1>17, <2>0, <2>1, <2>e, <3>1
    <2>2. CASE need /\ \E m \in Maps : updateNodesAndSlotmap(m, C, R2)
      <3>1. PICK m \in Maps : updateNodesAndSlotmap(m, C, R2)
        BY <2>2
      <3>2. nodes' \subseteq Addr /\ table' \in [Slot -> nodes' \union {NULL}]
        BY <3>1, SyncAssumption DEF updateNodesAndSlotmap, IsMap
      <3>3. /\ con' \in [Addr -> {"none", "ok", "broken"}]
            /\ replies' \in [Addr -> Q]
            /\ \A b \in Addr : con'[b] = "ok" => Len(replies'[b]) <= 0
        BY <1>7, <2>2, <2>c, <2>e, <3>1 DEF updateNodesAndSlotmap
      <3>4. need' = FALSE /\ unsettled' = FALSE
        BY <3>1 DEF updateNodesAndSlotmap
      <3>5. TypeOK'
        BY <1>0, <1>17, <2>0, <3>2, <3>3, <3>4, Zenon DEF Inv, TypeOK
      <3> QED
        BY <1>13, <1>17, <2>0, <3>3, <3>4, <3>5
    <2>3. CASE need /\ con' = C /\ replies' = R2 /\ UNCHANGED <<nodes, table, need, unsettled>>
      <3>1. TypeOK'
        BY <1>0, <1>7, <1>17, <2>0, <2>3, <2>c, Zenon DEF Inv, TypeOK
      <3> QED
        BY <1>13, <1>14, <1>17, <2>0, <2>3, <2>e, <3>1
    <2>4. CASE need /\ con' = B /\ replies' = R1 /\ UNCHANGED <<nodes, table, need, unsettled>>
      <3>1. TypeOK'
        BY <1>0, <1>7, <1>17, <2>0, <2>4, <2>c, Zenon DEF Inv, TypeOK
      <3> QED
        BY <1>13, <1>14, <1>17, <2>0, <2>4, <2>e, <3>1
    <2> QED
      BY <1>17, <2>1, <2>2, <2>3, <2>4
  <1> QED
    BY <1>15, <1>16, <1>17, Zenon DEF redisClustervCommandToNode, sent, old, R, C, B, R1, R2

(* Every step of a call, the server's answers included.                    *)
LEMMA StepInv ==
  ASSUME Inv, ~stale, Step
  PROVE  Inv'
  BY LookupInv, ConnectInv, OpenInv, SendInv, RecvFailsInv, RecvReplyInv, RecvGivesUpInv,
     RecvTryAgainInv, RecvMovedInv, RecvAskInv, AskingInv, HandleDeferredUpdateInv,
     ReturnInv DEF Step

(* Every step preserves the invariant.                                     *)
LEMMA NextInv ==
  ASSUME Inv, [Next]_vars
  PROVE  Inv'
  <1>1. CASE UNCHANGED vars
    <2>1. UNCHANGED <<nodes, table, con, replies, need, retry, err, pc, todo, k, upd,
                      result, unsettled, stale, refused>>
      BY <1>1 DEF vars
    <2>2. TypeOK'
      BY <2>1 DEF Inv, TypeOK
    <2>3. CASE stale
      BY <2>1, <2>2, <2>3 DEF Inv
    <2>4. CASE ~stale
      <3>1. CallInv' /\ ScheduleInv' /\ HeadInv'
        BY <2>1, <2>4 DEF Inv, CallInv, ScheduleInv, HeadInv, slot
      <3>2. QueueInv'
        BY <2>1, <2>4 DEF Inv, QueueInv
      <3>3. DeferredInv'
        BY <2>1, <2>4 DEF Inv, DeferredInv, slot
      <3> QED
        BY <2>1, <2>2, <2>4, <3>1, <3>2, <3>3 DEF Inv
    <2> QED
      BY <2>3, <2>4
  <1>2. CASE ~stale /\ \E c \in Calls : redisClusterFormattedCommand(c)
    BY <1>2, CallIsInv
  <1>3. CASE ~stale /\ \E a \in Addr : redisClustervCommandToNode(a)
    BY <1>3, ToNodeInv
  <1>4. CASE ~stale /\ Step
    BY <1>4, StepInv
  <1> QED
    BY <1>1, <1>2, <1>3, <1>4 DEF Next, Undefined

(* The invariant holds in every behaviour of the blocking client, for any  *)
(* number of nodes, slots, maps and calls, and any max_retry_count.        *)
THEOREM InvHolds == Spec => []Inv
  <1>1. Init => Inv
    BY InitInv
  <1>2. Inv /\ [Next]_vars => Inv'
    BY NextInv
  <1> QED
    BY <1>1, <1>2, PTL DEF Spec

(* When a call returns every reply on a usable connection has been read:   *)
(* redirects, retries, failures and the deferred slotmap query leave none  *)
(* to the next command (hircluster.c 2236-2440).                           *)
THEOREM NothingIsLeftToRead == Spec => []NothingLeftToRead
  <1>1. Inv => NothingLeftToRead
    <2> SUFFICES ASSUME Inv, pc = "idle", NEW a \in Addr, con[a] = "ok"
                 PROVE  replies[a] = << >>
      BY DEF NothingLeftToRead, Inv
    <2>1. Len(replies[a]) <= 0
      BY SyncAssumption DEF Inv, CallInv, QueueInv
    <2>2. replies[a] \in Seq({"cmd", "slotmap", "asking"})
      BY DEF Inv, TypeOK
    <2> QED
      BY <2>1, <2>2
  <1> QED
    BY <1>1, InvHolds, PTL

(* The connection of the deferred slotmap query survives until the query   *)
(* is read: no path updates the slotmap in between (hircluster.c 2409).    *)
THEOREM DeferredUpdateKeepsConnection == Spec => []DeferredUpdateHasConnection
  <1>1. Inv => DeferredUpdateHasConnection
    BY DEF Inv, DeferredInv, DeferredUpdateHasConnection
  <1> QED
    BY <1>1, InvHolds, PTL

(* A failed read is followed by a slotmap update before a later command    *)
(* routed by slot returns a reply (hircluster.c 2291-2305, 2409-2423).     *)
THEOREM FailuresAreFollowedUp == Spec => []FailureIsFollowedUp
  <1>1. Inv => FailureIsFollowedUp
    BY DEF Inv, ScheduleInv, FailureIsFollowedUp
  <1> QED
    BY <1>1, InvHolds, PTL

(* A call that returns a reply leaves no error on the context but that of  *)
(* an AUTH refused when it connected again (hircluster.c 1987).            *)
THEOREM RepliesComeWithoutOtherErrors == Spec => []OnlyAuthErrorWithReply
  <1>1. Inv => OnlyAuthErrorWithReply
    BY DEF Inv, CallInv, OnlyAuthErrorWithReply
  <1> QED
    BY <1>1, InvHolds, PTL

(* A reply to another request than the command is returned only when the   *)
(* command was sent again on the connection of a deferred slotmap query    *)
(* (hircluster.c 2291-2305).                                               *)
THEOREM ForeignRepliesOnlyOnResend == Spec => ForeignOnlyOnResend
  <1>1. ASSUME Inv, [Next]_vars, result' = "foreign", result # "foreign"
        PROVE  upd = k /\ retry > 0
    <2>1. CASE RecvReply /\ ~stale
      <3>1. Head(replies[k]) # "cmd" /\ pc = "recv" /\ con[k] = "ok" /\ replies[k] # << >>
        BY <1>1, <2>1 DEF RecvReply, Read
      <3> QED
        BY <1>1, <2>1, <3>1 DEF Inv, HeadInv
    <2>2. ASSUME ~stale, NEW a \in Addr, redisClustervCommandToNode(a)
          PROVE  FALSE
      BY <1>1, <2>2, ToNodeInv
    <2>3. ASSUME ~stale, Step, ~RecvReply
          PROVE  FALSE
      <3>1. result' \in {result, "none"}
        BY <2>3, Zenon DEF Step, Lookup, Connect, Open, Send, RecvFails, RecvGivesUp, RecvTryAgain,
                 RecvMoved, RecvAsk, Asking, HandleDeferredUpdate, Return, ret
      <3> QED
        BY <1>1, <3>1, SMTT(30)
    <2>4. ASSUME NEW c \in Calls, redisClusterFormattedCommand(c)
          PROVE  FALSE
      BY <1>1, <2>4 DEF redisClusterFormattedCommand
    <2>5. CASE UNCHANGED vars
      BY <1>1, <2>5 DEF vars
    <2> QED
      BY <1>1, <2>1, <2>2, <2>3, <2>4, <2>5 DEF Next, Undefined
  <1>2. Inv /\ [Next]_vars =>
          [result' = "foreign" /\ result # "foreign" => upd = k /\ retry > 0]_vars
    BY <1>1
  <1> QED
    BY <1>2, InvHolds, PTL DEF Spec, ForeignOnlyOnResend
=============================================================================
