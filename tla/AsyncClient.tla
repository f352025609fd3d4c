---------------------------- MODULE AsyncClient ----------------------------
(***************************************************************************)
(* The asynchronous client (redisClusterAsyncContext): commands routed by  *)
(* slot or sent to a node, their reply callbacks, redirects and retries,   *)
(* the throttled slotmap update, lost connections, and shutdown.           *)
(*                                                                         *)
(* A node is its address, and at most one hiredis context per address is   *)
(* open at a time (see module Slotmap for the objects behind this): the    *)
(* context of an address has a state, and a FIFO of the callbacks that     *)
(* wait for a reply.  One thread runs everything; steps are cut where the  *)
(* library calls application code, which may call the library again.       *)
(***************************************************************************)
EXTENDS Integers, Sequences, FiniteSets

CONSTANTS
  Addr,          \* addresses of cluster nodes
  Slot,          \* hash slots
  Cmd,           \* the commands the application may issue, each once
  Maps,          \* slot maps that a slotmap reply may carry
  MaxRetry,      \* cc->max_retry_count
  Unresolvable,  \* addresses for which a connect may fail at once
  NULL

NO_RETRY == -1

IsMap(m) ==
  /\ m.nodes \in (SUBSET Addr) \ {{}}
  /\ m.table \in [Slot -> m.nodes \union {NULL}]

ASSUME AsyncAssumption ==
  /\ MaxRetry \in Nat
  /\ Unresolvable \subseteq Addr
  /\ NULL \notin Addr \union Slot \union Cmd
  /\ {"slotmap", "asking"} \intersect Cmd = {}
  /\ \A m \in Maps : IsMap(m)

VARIABLES
  nodes,     \* the addresses in cc->nodes
  table,     \* cc->table: slot -> address, NULL where no node serves it
  state,     \* state of the context of an address
  queue,     \* callbacks waiting for a reply on it, in order of sending
  attempt,   \* node->lastConnectionAttempt: within the throttle time or not
  last,      \* acc->lastSlotmapUpdateAttempt
  err,       \* acc->err is set
  cmd,       \* what became of each command
  shutdown,  \* HIRCLUSTER_FLAG_SHUTDOWN
  closing,   \* contexts with REDIS_DISCONNECTING
  at,        \* the context whose reply is being handled, or NULL
  cur,       \* the context whose callbacks get a NULL reply, or NULL
  doomed,    \* detached contexts that are still to be freed
  running,   \* the command whose application callback runs, or NULL
  life       \* "alive", "freed", or "crashed": a NULL context was used, or a
             \* node picked from a dict without nodes

net    == <<state, queue, attempt, last>>
stack  == <<at, cur, doomed, running>>
vars   == <<nodes, table, state, queue, attempt, last, err, cmd, shutdown,
            closing, at, cur, doomed, running, life>>

States   == {"none", "connecting", "connected"}
Outcomes == {"reply", "error", "dropped"}
Entries  == Cmd \union {"slotmap", "asking"}

(* Replies to a command, as cluster_reply_error_type sorts them: TRYAGAIN  *)
(* and CLUSTERDOWN, redirects, and redirects that do not parse (an empty   *)
(* endpoint, say); any other reply, an error or not, is "ok".              *)
Reply ==
  [type : {"ok", "tryagain", "badmoved", "badask"}]
    \union [type : {"moved", "ask"}, node : Addr]

Init ==
  /\ \/ nodes \in SUBSET Addr /\ table = [s \in Slot |-> NULL]
     \/ \E m \in Maps : nodes = m.nodes /\ table = m.table
  /\ state = [a \in Addr |-> "none"]
  /\ queue = [a \in Addr |-> << >>]
  /\ attempt = [a \in Addr |-> "old"]
  /\ last = "old"
  /\ err = FALSE
  /\ cmd = [i \in Cmd |-> [st |-> "idle", slot |-> NULL, retry |-> 0]]
  /\ shutdown = FALSE
  /\ closing = {}
  /\ at = NULL /\ cur = NULL /\ doomed = {} /\ running = NULL
  /\ life = "alive"

Idle == at = NULL /\ cur = NULL /\ doomed = {} /\ running = NULL

(* Application code runs between events, in a command's callback (also in  *)
(* those that freeing the context runs), and in the event callback at the  *)
(* end of a slotmap update.                                                *)
MayCall == running # NULL \/ (life = "alive" /\ cur = NULL /\ doomed \subseteq {at})

Put(Q, a, x) == [Q EXCEPT ![a] = Append(@, x)]
Pop(Q, a)    == [Q EXCEPT ![a] = Tail(@)]

-----------------------------------------------------------------------------
(***************************************************************************)
(* Contexts and the slotmap update                                         *)
(***************************************************************************)

(* actx_get_by_node: an existing context unless it has an error (only the  *)
(* one being flushed has), or a new one; ok tells whether there is one.    *)
actx_get_by_node(a, ok) ==
  \/ /\ state[a] # "none"
     /\ ok = (a # cur)
     /\ UNCHANGED <<state, attempt>>
  \/ /\ state[a] = "none"
     /\ ok \/ a \in Unresolvable
     /\ state' = IF ok THEN [state EXCEPT ![a] = "connecting"] ELSE state
     /\ attempt' = [attempt EXCEPT ![a] = "recent"]

nodeIsConnected(a) == state[a] = "connected" /\ a # cur

(* selectNode: a connected node, else one without a recent attempt.  Which *)
(* of them depends on random().                                            *)
selectNode ==
  LET connected == {a \in nodes : nodeIsConnected(a)}
  IN  IF connected # {} THEN connected ELSE {a \in nodes : attempt[a] = "old"}

(* Mutant: the update counts as ongoing also when it could not be sent.    *)
updateSlotMapAsync_FlagFirst(Q, l, fail) ==
  \/ /\ l = "ongoing" \/ shutdown
     /\ ~fail
     /\ queue' = Q /\ last' = l
     /\ UNCHANGED <<state, attempt, life>>
  \/ /\ l # "ongoing" /\ ~shutdown
     /\ nodes = {}
     /\ fail
     /\ queue' = Q /\ last' = "recent"
     /\ life' \in {life, "crashed"}
     /\ UNCHANGED <<state, attempt>>
  \/ /\ l # "ongoing" /\ ~shutdown
     /\ nodes # {} /\ selectNode = {}
     /\ ~fail
     /\ queue' = Q /\ last' = "recent"
     /\ UNCHANGED <<state, attempt, life>>
  \/ /\ l # "ongoing" /\ ~shutdown
     /\ \E a \in selectNode :
          /\ actx_get_by_node(a, ~fail)
          /\ queue' = IF fail THEN Q ELSE Put(Q, a, "slotmap")
          /\ last' = "ongoing"
     /\ UNCHANGED life

(* Mutant: HIRCLUSTER_FLAG_SHUTDOWN is not looked at.                      *)
updateSlotMapAsync_InShutdown(Q, l, fail) ==
  \/ /\ l = "ongoing"
     /\ ~fail
     /\ queue' = Q /\ last' = l
     /\ UNCHANGED <<state, attempt, life>>
  \/ /\ l # "ongoing" /\ nodes = {}
     /\ fail
     /\ queue' = Q /\ last' = "recent"
     /\ life' \in {life, "crashed"}
     /\ UNCHANGED <<state, attempt>>
  \/ /\ l # "ongoing" /\ nodes # {} /\ selectNode = {}
     /\ ~fail
     /\ queue' = Q /\ last' = "recent"
     /\ UNCHANGED <<state, attempt, life>>
  \/ /\ l # "ongoing"
     /\ \E a \in selectNode :
          /\ actx_get_by_node(a, ~fail)
          /\ queue' = IF fail THEN Q ELSE Put(Q, a, "slotmap")
          /\ last' = IF fail THEN "recent" ELSE "ongoing"
     /\ UNCHANGED life

(* updateSlotMapAsync(acc, NULL), called with queues Q and last attempt l; *)
(* fail tells whether it sets acc->err.  Before a node has been added that *)
(* is an error, or else redisClusterSetOptionAddNode was called with an    *)
(* address it refused, and has left a dict without nodes: random() modulo  *)
(* its size is a division by zero.                                         *)
updateSlotMapAsync(Q, l, fail) ==
  \/ /\ l = "ongoing" \/ shutdown
     /\ ~fail
     /\ queue' = Q /\ last' = l
     /\ UNCHANGED <<state, attempt, life>>
  \/ /\ l # "ongoing" /\ ~shutdown
     /\ nodes = {}
     /\ fail
     /\ queue' = Q /\ last' = "recent"
     /\ life' \in {life, "crashed"}
     /\ UNCHANGED <<state, attempt>>
  \/ /\ l # "ongoing" /\ ~shutdown
     /\ nodes # {} /\ selectNode = {}
     /\ ~fail
     /\ queue' = Q /\ last' = "recent"
     /\ UNCHANGED <<state, attempt, life>>
  \/ /\ l # "ongoing" /\ ~shutdown
     /\ \E a \in selectNode :
          /\ actx_get_by_node(a, ~fail)
          /\ queue' = IF fail THEN Q ELSE Put(Q, a, "slotmap")
          /\ last' = IF fail THEN "recent" ELSE "ongoing"
     /\ UNCHANGED life

throttledUpdateSlotMapAsync(Q, fail) ==
  IF last = "old"
  THEN updateSlotMapAsync(Q, last, fail)
  ELSE ~fail /\ queue' = Q /\ UNCHANGED <<state, attempt, last, life>>

-----------------------------------------------------------------------------
(***************************************************************************)
(* Calls of the application                                                *)
(***************************************************************************)

redisClusterAsyncConnect2 ==
  /\ Idle /\ life = "alive"
  /\ \E fail \in BOOLEAN :
       updateSlotMapAsync(queue, last, fail) /\ err' = (err \/ fail)
  /\ UNCHANGED <<nodes, table, cmd, shutdown, closing, stack>>

Refuse(i) == cmd' = [cmd EXCEPT ![i].st = "refused"] /\ err' = TRUE

(* The command is written to the context of a node, or the call fails.     *)
Send(i, a, s, retry) ==
  \E ok \in BOOLEAN :
    /\ actx_get_by_node(a, ok)
    /\ IF ok
       THEN /\ cmd' = [cmd EXCEPT ![i] =
                         [st |-> "pending", slot |-> s, retry |-> retry]]
            /\ err' = FALSE
            /\ queue' = Put(queue, a, i)
       ELSE Refuse(i) /\ UNCHANGED queue

(* Mutant: commands are accepted during a shutdown.                        *)
redisClusterAsyncFormattedCommand_InShutdown(i, s) ==
  /\ MayCall
  /\ cmd[i].st = "idle"
  /\ \/ Refuse(i) /\ UNCHANGED <<net, life>>
     \/ /\ table[s] = NULL
        /\ \E fail \in BOOLEAN : throttledUpdateSlotMapAsync(queue, fail)
        /\ Refuse(i)
     \/ /\ table[s] # NULL
        /\ Send(i, table[s], s, 0)
        /\ UNCHANGED <<last, life>>
  /\ UNCHANGED <<nodes, table, shutdown, closing, stack>>

(* redisClusterAsyncFormattedCommand for a key of slot s: turned away      *)
(* during a shutdown, or because it cannot be parsed or has keys of        *)
(* several slots; a slot without a node starts a slotmap update.           *)
redisClusterAsyncFormattedCommand(i, s) ==
  /\ MayCall
  /\ cmd[i].st = "idle"
  /\ \/ Refuse(i) /\ UNCHANGED <<net, life>>
     \/ /\ ~shutdown /\ table[s] = NULL
        /\ \E fail \in BOOLEAN : throttledUpdateSlotMapAsync(queue, fail)
        /\ Refuse(i)
     \/ /\ ~shutdown /\ table[s] # NULL
        /\ Send(i, table[s], s, 0)
        /\ UNCHANGED <<last, life>>
  /\ UNCHANGED <<nodes, table, shutdown, closing, stack>>

(* redisClusterAsyncFormattedCommandToNode.                                *)
redisClusterAsyncFormattedCommandToNode(i, a) ==
  /\ MayCall
  /\ cmd[i].st = "idle"
  /\ a \in nodes
  /\ IF shutdown THEN Refuse(i) /\ UNCHANGED net
                 ELSE Send(i, a, NULL, NO_RETRY) /\ UNCHANGED last
  /\ UNCHANGED <<nodes, table, shutdown, closing, stack, life>>

(* A context with REDIS_DISCONNECTING is closed once no callback waits.    *)
Drained(a) == a \in closing /\ queue[a] = << >>

(* redisClusterAsyncDisconnect: every context of a node is marked, and     *)
(* closed at once when nothing is pending and none of its callbacks runs.  *)
redisClusterAsyncDisconnect ==
  /\ MayCall /\ ~shutdown
  /\ shutdown' = TRUE
  /\ LET open == {a \in nodes : state[a] # "none"}
         now  == {a \in open : queue[a] = << >> /\ a \notin {at, cur}}
     IN  /\ closing' = closing \union (open \ now)
         /\ state' = [a \in Addr |-> IF a \in now THEN "none" ELSE state[a]]
  /\ UNCHANGED <<nodes, table, queue, attempt, last, err, cmd, stack, life>>

(* Mutant: HIRCLUSTER_FLAG_SHUTDOWN is not set.                            *)
redisClusterAsyncFree_NoFlag ==
  /\ Idle /\ life = "alive"
  /\ life' = "freed"
  /\ nodes' = {}
  /\ table' = [s \in Slot |-> NULL]
  /\ doomed' = {a \in Addr : state[a] # "none"}
  /\ UNCHANGED <<shutdown, net, err, cmd, closing, at, cur, running>>

(* redisClusterAsyncFree: all nodes go, and their contexts with them.      *)
redisClusterAsyncFree ==
  /\ Idle /\ life = "alive"
  /\ life' = "freed"
  /\ shutdown' = TRUE
  /\ nodes' = {}
  /\ table' = [s \in Slot |-> NULL]
  /\ doomed' = {a \in Addr : state[a] # "none"}
  /\ UNCHANGED <<net, err, cmd, closing, at, cur, running>>

-----------------------------------------------------------------------------
(***************************************************************************)
(* Events of the connections (hiredis)                                     *)
(***************************************************************************)

Connected(a) ==
  /\ Idle
  /\ state[a] = "connecting"
  /\ state' = [state EXCEPT ![a] = "connected"]
  /\ UNCHANGED <<nodes, table, queue, attempt, last, err, cmd, shutdown,
                 closing, stack, life>>

(* An error or a timeout: the pending callbacks get a NULL reply next.     *)
Lost(a) ==
  /\ Idle
  /\ state[a] # "none"
  /\ cur' = a
  /\ UNCHANGED <<nodes, table, net, err, cmd, shutdown, closing, at, doomed,
                 running, life>>

(* A detached context is freed; the one whose reply is being handled last, *)
(* when its handler has returned.                                          *)
FreeDetached(a) ==
  /\ cur = NULL /\ running = NULL
  /\ a \in doomed
  /\ a = at => doomed = {at}
  /\ cur' = a
  /\ at' = IF a = at THEN NULL ELSE at
  /\ doomed' = doomed \ {a}
  /\ UNCHANGED <<nodes, table, net, err, cmd, shutdown, closing, running,
                 life>>

(* All its callbacks have run: the context is unlinked and gone.           *)
Gone ==
  /\ cur # NULL /\ running = NULL
  /\ queue[cur] = << >>
  /\ state' = [state EXCEPT ![cur] = "none"]
  /\ closing' = closing \ {cur}
  /\ cur' = NULL
  /\ UNCHANGED <<nodes, table, queue, attempt, last, err, cmd, shutdown, at,
                 doomed, running, life>>

TimePasses ==
  /\ \/ /\ last = "recent"
        /\ last' = "old"
        /\ UNCHANGED attempt
     \/ \E a \in Addr :
          /\ attempt[a] = "recent"
          /\ attempt' = [attempt EXCEPT ![a] = "old"]
          /\ UNCHANGED last
  /\ UNCHANGED <<nodes, table, state, queue, err, cmd, shutdown, closing,
                 stack, life>>

-----------------------------------------------------------------------------
(***************************************************************************)
(* Replies to commands: redisClusterAsyncCallback                          *)
(***************************************************************************)

(* The application callback of i starts; received: hiredis passed a reply  *)
(* that is due to the application.  It gets NULL when acc->err is set; the *)
(* command's data (slot, retry count) is not read again and then freed.    *)
Deliver(i, e, received) ==
  /\ cmd' = [cmd EXCEPT ![i] = [st |-> IF ~received THEN "error"
                                       ELSE IF e THEN "dropped" ELSE "reply",
                                slot |-> NULL, retry |-> 0]]
  /\ running' = i

(* Mutant: NO_RETRY is not looked at.                                      *)
Retried_Always(i, r) == r.type # "ok" /\ ~shutdown

Retried(i, r) == r.type # "ok" /\ cmd[i].retry # NO_RETRY /\ ~shutdown

Arrives(a, i) ==
  /\ Idle
  /\ state[a] = "connected"
  /\ queue[a] # << >>
  /\ i = Head(queue[a])

(* An ordinary reply, or one that is not to be retried.                    *)
CallbackDone(a, i, r) ==
  /\ Arrives(a, i)
  /\ ~Retried(i, r)
  /\ Deliver(i, err, TRUE)
  /\ queue' = Pop(queue, a)
  /\ at' = a
  /\ UNCHANGED <<nodes, table, state, attempt, last, err, shutdown, closing,
                 cur, doomed, life>>

Exhausted(i) == cmd[i].retry + 1 > MaxRetry

(* Too many retries, or a redirect that cannot be parsed; MOVED asks for a *)
(* slotmap update before it is parsed.                                     *)
CallbackFailed(a, i, r) ==
  /\ Arrives(a, i)
  /\ Retried(i, r)
  /\ Exhausted(i) \/ r.type \in {"badmoved", "badask"}
  /\ IF ~Exhausted(i) /\ r.type = "badmoved" /\ last = "old"
     THEN /\ queue' = Put(Pop(queue, a), a, "slotmap")
          /\ last' = "ongoing"
     ELSE queue' = Pop(queue, a) /\ UNCHANGED last
  /\ err' = TRUE
  /\ Deliver(i, TRUE, FALSE)
  /\ at' = a
  /\ UNCHANGED <<nodes, table, state, attempt, shutdown, closing, cur, doomed,
                 life>>

(* Mutant: retries are not counted.                                        *)
Retry_Uncounted(i) == UNCHANGED cmd

Retry(i) == cmd' = [cmd EXCEPT ![i].retry = @ + 1]

(* MOVED: ask the sender for the slotmap, point the slot to the new node,  *)
(* and send the command there.  A context that cannot be had is not        *)
(* noticed: the NULL pointer is passed on.                                 *)
CallbackMoved(a, i, r) ==
  /\ Arrives(a, i)
  /\ Retried(i, r) /\ ~Exhausted(i)
  /\ r.type = "moved"
  /\ nodes' = nodes \union {r.node}
  /\ table' = [table EXCEPT ![cmd[i].slot] = r.node]
  /\ last' = IF last = "old" THEN "ongoing" ELSE last
  /\ LET Q == IF last = "old" THEN Put(Pop(queue, a), a, "slotmap")
                              ELSE Pop(queue, a)
     IN  \E ok \in BOOLEAN :
           /\ actx_get_by_node(r.node, ok)
           /\ queue' = IF ok THEN Put(Q, r.node, i) ELSE Q
           /\ err' = (err \/ ~ok)
           /\ life' = IF ok THEN life ELSE "crashed"
  /\ Retry(i)
  /\ UNCHANGED <<shutdown, closing, stack>>

(* Mutant: the command is sent before ASKING.                              *)
CallbackAsk_Swapped(a, i, r) ==
  /\ Arrives(a, i)
  /\ Retried(i, r) /\ ~Exhausted(i)
  /\ r.type = "ask"
  /\ nodes' = nodes \union {r.node}
  /\ actx_get_by_node(r.node, TRUE)
  /\ queue' = Put(Put(Pop(queue, a), r.node, i), r.node, "asking")
  /\ Retry(i)
  /\ UNCHANGED <<table, last, err, shutdown, closing, stack, life>>

(* ASK: ASKING and the command go to the node named; here a missing        *)
(* context is an error of the command.                                     *)
CallbackAsk(a, i, r) ==
  /\ Arrives(a, i)
  /\ Retried(i, r) /\ ~Exhausted(i)
  /\ r.type = "ask"
  /\ nodes' = nodes \union {r.node}
  /\ \E ok \in BOOLEAN :
       /\ actx_get_by_node(r.node, ok)
       /\ err' = (err \/ ~ok)
       /\ IF ok
          THEN /\ queue' = Put(Put(Pop(queue, a), r.node, "asking"), r.node, i)
               /\ Retry(i)
               /\ UNCHANGED <<at, running>>
          ELSE /\ queue' = Pop(queue, a)
               /\ Deliver(i, TRUE, FALSE)
               /\ at' = a
  /\ UNCHANGED <<table, last, shutdown, closing, cur, doomed, life>>

(* Mutant: the command is not sent again.                                  *)
CallbackTryAgain_Dropped(a, i, r) ==
  /\ Arrives(a, i)
  /\ Retried(i, r) /\ ~Exhausted(i)
  /\ r.type = "tryagain"
  /\ queue' = Pop(queue, a)
  /\ Retry(i)
  /\ UNCHANGED <<nodes, table, state, attempt, last, err, shutdown, closing,
                 stack, life>>

(* TRYAGAIN and CLUSTERDOWN: once more on the same context.                *)
CallbackTryAgain(a, i, r) ==
  /\ Arrives(a, i)
  /\ Retried(i, r) /\ ~Exhausted(i)
  /\ r.type = "tryagain"
  /\ queue' = Put(Pop(queue, a), a, i)
  /\ Retry(i)
  /\ UNCHANGED <<nodes, table, state, attempt, last, err, shutdown, closing,
                 stack, life>>

(* A NULL reply: the error of the context is copied (a context freed with  *)
(* its node has none), and unless the node is gone from the topology a     *)
(* slotmap update is asked for.                                            *)
CallbackNull(i) ==
  /\ cur # NULL /\ running = NULL
  /\ queue[cur] # << >>
  /\ i = Head(queue[cur])
  /\ IF cur \in nodes
     THEN /\ \E fail \in BOOLEAN :
               throttledUpdateSlotMapAsync(Pop(queue, cur), fail)
          /\ err' = TRUE
     ELSE /\ queue' = Pop(queue, cur)
          /\ err' = FALSE
          /\ UNCHANGED <<state, attempt, last, life>>
  /\ Deliver(i, TRUE, FALSE)
  /\ UNCHANGED <<nodes, table, shutdown, closing, at, cur, doomed>>

(* Mutant: a drained context is not closed when its last callback returns. *)
CallbackReturns_StaysOpen ==
  /\ running # NULL
  /\ running' = NULL
  /\ err' = FALSE
  /\ at' = IF cur = NULL THEN NULL ELSE at
  /\ UNCHANGED <<nodes, table, state, closing, queue, attempt, last, cmd,
                 shutdown, cur, doomed, life>>

(* The application callback returns, acc->err is cleared, and hiredis      *)
(* closes the context if it is drained.                                    *)
CallbackReturns ==
  /\ running # NULL
  /\ running' = NULL
  /\ err' = FALSE
  /\ at' = IF cur = NULL THEN NULL ELSE at
  /\ IF cur = NULL /\ Drained(at)
     THEN /\ state' = [state EXCEPT ![at] = "none"]
          /\ closing' = closing \ {at}
     ELSE UNCHANGED <<state, closing>>
  /\ UNCHANGED <<nodes, table, queue, attempt, last, cmd, shutdown, cur,
                 doomed, life>>

(* The reply to ASKING has no callback.                                    *)
AskingReply(a) ==
  /\ Arrives(a, "asking")
  /\ queue' = Pop(queue, a)
  /\ UNCHANGED <<nodes, table, state, attempt, last, err, cmd, shutdown,
                 closing, stack, life>>

AskingNull ==
  /\ cur # NULL /\ running = NULL
  /\ queue[cur] # << >> /\ Head(queue[cur]) = "asking"
  /\ queue' = Pop(queue, cur)
  /\ UNCHANGED <<nodes, table, state, attempt, last, err, cmd, shutdown,
                 closing, stack, life>>

-----------------------------------------------------------------------------
(***************************************************************************)
(* Slotmap replies: clusterSlotsReplyCallback, clusterNodesReplyCallback   *)
(***************************************************************************)

(* Mutant: the contexts of nodes that are gone are not freed.              *)
SlotmapReply_KeepsContexts(a, m) ==
  /\ Arrives(a, "slotmap")
  /\ queue' = Pop(queue, a)
  /\ last' = "recent"
  /\ nodes' = m.nodes
  /\ table' = m.table
  /\ attempt' = [b \in Addr |-> "old"]
  /\ at' = a
  /\ UNCHANGED <<state, err, cmd, shutdown, closing, cur, doomed, running, life>>

(* A map that can be used replaces nodes and table.  Fresh node objects    *)
(* have made no connection attempt.  Contexts of nodes that are gone are   *)
(* detached and freed in the steps that follow.                            *)
SlotmapReply(a, m) ==
  /\ Arrives(a, "slotmap")
  /\ queue' = Pop(queue, a)
  /\ last' = "recent"
  /\ nodes' = m.nodes
  /\ table' = m.table
  /\ attempt' = [b \in Addr |-> "old"]
  /\ doomed' = {b \in nodes \ m.nodes : state[b] # "none"}
  /\ at' = a
  /\ UNCHANGED <<state, err, cmd, shutdown, closing, cur, running, life>>

LastWait(a) == a \in closing /\ Len(queue[a]) = 1

(* A reply without a usable map: try again, with any node, at once.        *)
SlotmapInvalid(a) ==
  /\ Arrives(a, "slotmap")
  /\ \/ /\ ~LastWait(a)
        /\ \E fail \in BOOLEAN :
             /\ updateSlotMapAsync(Pop(queue, a), "recent", fail)
             /\ err' = (err \/ fail)
        /\ UNCHANGED closing
     \/ /\ LastWait(a)
        /\ queue' = Pop(queue, a)
        /\ last' = "recent"
        /\ state' = [state EXCEPT ![a] = "none"]
        /\ closing' = closing \ {a}
        /\ UNCHANGED <<attempt, err, life>>
  /\ UNCHANGED <<nodes, table, cmd, shutdown, stack>>

(* The same when the context is lost.                                      *)
SlotmapNull ==
  /\ cur # NULL /\ running = NULL
  /\ queue[cur] # << >> /\ Head(queue[cur]) = "slotmap"
  /\ \E fail \in BOOLEAN :
       /\ updateSlotMapAsync(Pop(queue, cur), "recent", fail)
       /\ err' = (err \/ fail)
  /\ UNCHANGED <<nodes, table, cmd, shutdown, closing, stack>>

(* The handler of a slotmap reply returns to hiredis.                      *)
EndUpdate ==
  /\ at # NULL /\ cur = NULL /\ running = NULL /\ doomed = {}
  /\ at' = NULL
  /\ IF Drained(at)
     THEN /\ state' = [state EXCEPT ![at] = "none"]
          /\ closing' = closing \ {at}
     ELSE UNCHANGED <<state, closing>>
  /\ UNCHANGED <<nodes, table, queue, attempt, last, err, cmd, shutdown, cur,
                 doomed, running, life>>

Calls ==
  \/ redisClusterAsyncConnect2
  \/ \E i \in Cmd, s \in Slot : redisClusterAsyncFormattedCommand(i, s)
  \/ \E i \in Cmd, a \in Addr : redisClusterAsyncFormattedCommandToNode(i, a)
  \/ redisClusterAsyncDisconnect
  \/ redisClusterAsyncFree

Callback(a, i, r) ==
  \/ CallbackDone(a, i, r)
  \/ CallbackFailed(a, i, r)
  \/ CallbackMoved(a, i, r)
  \/ CallbackAsk(a, i, r)
  \/ CallbackTryAgain(a, i, r)

Answered(a) ==
  \/ \E i \in Cmd, r \in Reply : Callback(a, i, r)
  \/ AskingReply(a)
  \/ \E m \in Maps : SlotmapReply(a, m)
  \/ SlotmapInvalid(a)

Unwind ==
  \/ \E a \in Addr : FreeDetached(a)
  \/ \E i \in Cmd : CallbackNull(i)
  \/ AskingNull
  \/ SlotmapNull
  \/ Gone
  \/ CallbackReturns
  \/ EndUpdate

Next ==
  /\ life # "crashed"
  /\ \/ Calls
     \/ \E a \in Addr : Connected(a) \/ Lost(a) \/ Answered(a)
     \/ Unwind
     \/ TimePasses

Spec == Init /\ [][Next]_vars

(* The event loop serves every socket, and a server that is asked answers, *)
(* or the connection is lost; a stack of callbacks unwinds.                *)
Serve(a) == queue[a] # << >> /\ (Connected(a) \/ Lost(a) \/ Answered(a))

FairSpec ==
  /\ Spec
  /\ \A a \in Addr : SF_vars(life # "crashed" /\ Serve(a))
  /\ WF_vars(life # "crashed" /\ Unwind)

-----------------------------------------------------------------------------
(***************************************************************************)
(* Properties                                                              *)
(***************************************************************************)

Waiting(x) ==
  UNION {{<<a, k>> : k \in {k \in DOMAIN queue[a] : queue[a][k] = x}} : a \in Addr}

(* The state has its type; retries stay within cc->max_retry_count.        *)
TypeOK ==
  /\ nodes \subseteq Addr
  /\ table \in [Slot -> Addr \union {NULL}]
  /\ state \in [Addr -> States]
  /\ queue \in [Addr -> Seq(Entries)]
  /\ attempt \in [Addr -> {"old", "recent"}]
  /\ last \in {"old", "recent", "ongoing"}
  /\ cmd \in [Cmd -> [st : {"idle", "refused", "pending"} \union Outcomes,
                      slot : Slot \union {NULL}, retry : NO_RETRY .. MaxRetry]]
  /\ err \in BOOLEAN /\ shutdown \in BOOLEAN /\ life \in {"alive", "freed", "crashed"}
  /\ closing \subseteq Addr /\ doomed \subseteq Addr
  /\ at \in Addr \union {NULL} /\ cur \in Addr \union {NULL}
  /\ running \in Cmd \union {NULL}

(* SLOTMAP_UPDATE_ONGOING holds off every further update, and only the     *)
(* callback of the query clears it: it is set exactly while one such       *)
(* callback waits, however the query ends (3846-3884, 3965-3978).          *)
OngoingIsAwaited ==
  Cardinality(Waiting("slotmap")) = IF last = "ongoing" THEN 1 ELSE 0

(* The callback data of a command hangs in one place: a pending command    *)
(* waits once, on an open context, and one that is refused or called back  *)
(* waits nowhere, so no callback runs twice or is forgotten (4101-4135).   *)
CallbackOnce ==
  /\ life # "crashed" => \A i \in Cmd :
       Cardinality(Waiting(i)) = IF cmd[i].st = "pending" THEN 1 ELSE 0
  /\ \A a \in Addr : queue[a] # << >> => state[a] # "none"

(* ASKING holds for the one command that follows it on the connection: it  *)
(* is followed by a redirected command, whatever else is sent (4081-4125). *)
AskingPrecedesCommand ==
  \A a \in Addr : \A k \in DOMAIN queue[a] :
    queue[a][k] = "asking" =>
      /\ k + 1 \in DOMAIN queue[a]
      /\ queue[a][k + 1] \in Cmd
      /\ cmd[queue[a][k + 1]].retry > 0

(* No open context is lost sight of: it belongs to a node of the current   *)
(* topology, or it is on its way to be freed (259-299, 575-616).           *)
ContextsAccountedFor ==
  /\ TypeOK
  /\ \A a \in Addr : state[a] # "none" => a \in nodes \union doomed \union {cur}

(* The client uses a missing context, or divides by zero, in two cases     *)
(* only: a MOVED names a node to which no connection can be started        *)
(* (4065), or the application goes on after its only address was refused   *)
(* (1632, 3905).  Once a node has been added cc->nodes is never without    *)
(* nodes when one is to be selected, not in the callbacks of a freed       *)
(* client, and no other path goes on without a context (3955, 4075).       *)
OnlyKnownCrashes ==
  life = "crashed" =>
    /\ ~shutdown
    /\ \/ nodes = {} /\ \A a \in Addr : state[a] = "none"
       \/ \E a \in nodes \intersect Unresolvable, s \in Slot :
            state[a] = "none" /\ table[s] = a

(* Once the client shuts down no connection is opened: not by a command    *)
(* from a callback, not by a redirect, not by a slotmap update that a lost *)
(* connection asks for (3939, 4036, 4158, 4278).                           *)
NoConnectInShutdown ==
  [][shutdown => \A a \in Addr : state[a] = "none" => state'[a] = "none"]_vars

(* A command sent to a node is neither redirected nor retried: while it is *)
(* pending it waits where it was put, and it never moves back (4036).      *)
ToNodeStays ==
  [][\A i \in Cmd : \A p \in Waiting(i) :
       cmd[i].retry = NO_RETRY /\ cmd'[i].st = "pending" =>
         Waiting(i)' \in {{p}, {<<p[1], p[2] - 1>>}}]_vars

(* Every accepted command gets its callback called.                        *)
EveryCallbackCalled ==
  \A i \in Cmd : cmd[i].st = "pending" ~> cmd[i].st \in Outcomes

(* After redisClusterAsyncDisconnect or redisClusterAsyncFree all          *)
(* connections get closed.                                                 *)
ShutdownCloses == shutdown ~> \A a \in Addr : state[a] = "none"

(* The client keeps the contract of the asynchronous API.                  *)
Contract ==
  INSTANCE AsyncContract WITH
    st <- [i \in Cmd |-> IF cmd[i].st \in Outcomes THEN "called" ELSE cmd[i].st],
    phase <- IF life = "freed" /\ Idle THEN "freed"
             ELSE IF shutdown THEN "closing" ELSE "open"

KeepsContract == Contract!Spec

(* A reply that was received for a command reaches its callback: "a        *)
(* callback function that is called when the reply is received".           *)
ReplyReachesCallback == \A i \in Cmd : cmd[i].st # "dropped"

(* A redirect to a node that cannot be connected to ends in the callback,  *)
(* not in a use of the missing context.  Refuted for MOVED (4065); see the *)
(* README.                                                                 *)
RedirectHasContext == life = "crashed" => nodes = {}
=============================================================================
