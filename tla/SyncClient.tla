----------------------------- MODULE SyncClient -----------------------------
(***************************************************************************)
(* The blocking client: redisClusterFormattedCommand, which runs           *)
(* redis_cluster_command_execute for the command or for each of its        *)
(* sub-commands, and redisClustervCommandToNode.                           *)
(*                                                                         *)
(* A connection carries replies in the order of the requests.  What makes  *)
(* the function hard is the slotmap query that shares the connection with  *)
(* the command (c_updating_route) and is read only at the end: replies are *)
(* therefore tagged with the request they answer, and a read takes the     *)
(* oldest one, whatever the code believes it to be.                        *)
(***************************************************************************)
EXTENDS Naturals, Sequences

CONSTANTS
  Addr,      \* addresses of cluster nodes
  Slot,      \* hash slots
  Maps,      \* slot maps that a slotmap query may bring
  Calls,     \* the commands issued, as sequences of the slots they touch
  MaxRetry,  \* cc->max_retry_count
  NULL

IsMap(m) ==
  /\ m.nodes \in (SUBSET Addr) \ {{}}
  /\ m.table \in [Slot -> m.nodes \union {NULL}]

ASSUME SyncAssumption ==
  /\ MaxRetry \in Nat
  /\ NULL \notin Addr \union Slot
  /\ Calls \subseteq Seq(Slot) \ {<< >>}
  /\ \A m \in Maps : IsMap(m)

VARIABLES
  nodes,     \* the addresses in cc->nodes
  table,     \* cc->table
  con,       \* node->con of an address: "none", "ok", or "broken" (c->err)
  replies,   \* replies that are to come on it, in order
  need,      \* cc->need_update_route
  retry,     \* cc->retry_count
  err,       \* cc->err is set
  pc,        \* where the code is
  todo,      \* slots of the sub-commands from the current one on
  k,         \* the node in use, and its connection c
  upd,       \* c_updating_route
  result,    \* what the call returns, "none" for NULL
  unsettled, \* a read has failed and no update has come since
  stale,     \* a node was used that an update has freed
  refused    \* history: in this call AUTH was refused when connecting again

vars == <<nodes, table, con, replies, need, retry, err, pc, todo, k, upd,
          result, unsettled, stale, refused>>

map == <<nodes, table, con, replies, need, unsettled>>
ret == <<todo, result, stale, refused>>

Locations == {"idle", "lookup", "connect", "open", "asking", "send", "recv", "done"}

Init ==
  /\ \E m \in Maps : nodes = m.nodes /\ table = m.table
  /\ con = [a \in Addr |-> "none"]
  /\ replies = [a \in Addr |-> << >>]
  /\ need = FALSE
  /\ retry = 0
  /\ err = FALSE
  /\ pc = "idle"
  /\ todo = << >>
  /\ k = NULL
  /\ upd = NULL
  /\ result = "reply"
  /\ unsettled = FALSE
  /\ stale = FALSE
  /\ refused = FALSE

slot == Head(todo)

Put(a, x) == [replies EXCEPT ![a] = Append(@, x)]

-----------------------------------------------------------------------------
(***************************************************************************)
(* Connections and slotmap updates                                         *)
(***************************************************************************)

(* The AUTH that follows connecting.  For a new connection its failure is  *)
(* a failure to connect.  When a connection is connected again the result  *)
(* is ignored: a server that refuses leaves an error on the context, and   *)
(* the connection is used.                                                 *)
authenticate(a) ==
  \/ UNCHANGED <<err, refused>>
  \/ con[a] = "broken" /\ err' = TRUE /\ refused' = TRUE

(* ctx_get_by_node: the connection, connected again after an error, or a   *)
(* new one; what an old connection still had to deliver is forgotten.      *)
ctx_get_by_node(a) ==
  /\ authenticate(a)
  /\ IF con[a] = "ok"
     THEN UNCHANGED <<con, replies>>
     ELSE /\ con' = [con EXCEPT ![a] = "ok"]
          /\ replies' = [replies EXCEPT ![a] = << >>]

MayFail(a) == con[a] # "ok"

(* updateNodesAndSlotmap with a map m: connections move to the new nodes,  *)
(* the ones of nodes that are gone are freed.  (C, R) are the connections  *)
(* and the replies before it.                                              *)
updateNodesAndSlotmap(m, C, R) ==
  /\ nodes' = m.nodes
  /\ table' = m.table
  /\ con' = [a \in Addr |-> IF a \in m.nodes THEN C[a] ELSE "none"]
  /\ replies' = [a \in Addr |-> IF a \in m.nodes THEN R[a] ELSE << >>]
  /\ need' = FALSE
  /\ unsettled' = FALSE

(* Mutant: the error of a node asked before the one that answers is kept.  *)
redisClusterUpdateSlotmap_KeepsError(m, C, R) ==
  IF m = NULL
  THEN /\ con' = C /\ replies' = R
       /\ err' \in BOOLEAN
       /\ UNCHANGED <<nodes, table, need, unsettled>>
  ELSE updateNodesAndSlotmap(m, C, R) /\ err' \in BOOLEAN

(* redisClusterUpdateSlotmap asks the nodes one after the other, each on a *)
(* connection of its own, until one gives a map; m = NULL when none does.  *)
(* A query that cannot be written fails without setting cc->err (1211).    *)
redisClusterUpdateSlotmap(m, C, R) ==
  IF m = NULL
  THEN /\ con' = C /\ replies' = R
       /\ err' \in BOOLEAN
       /\ UNCHANGED <<nodes, table, need, unsettled>>
  ELSE updateNodesAndSlotmap(m, C, R) /\ err' = FALSE

-----------------------------------------------------------------------------
(***************************************************************************)
(* redis_cluster_command_execute                                           *)
(***************************************************************************)

(* A call with command c, which may be refused: it cannot be parsed, or    *)
(* has no key.  How the replies of sub-commands are put together is the    *)
(* subject of module Fragment.                                             *)
redisClusterFormattedCommand(c) ==
  /\ pc = "idle"
  /\ result' = "none"
  /\ \/ err' = FALSE /\ todo' = c /\ pc' = "lookup"
     \/ err' = TRUE /\ UNCHANGED <<todo, pc>>
  /\ refused' = FALSE
  /\ UNCHANGED <<map, retry, k, upd, stale>>

(* After an update on account of the slot: the node it is served by now,   *)
(* or the error that it is not.                                            *)
LookAgain(m, loc) ==
  IF m # NULL /\ m.table[slot] # NULL
  THEN /\ redisClusterUpdateSlotmap(m, con, replies)
       /\ k' = m.table[slot]
       /\ pc' = loc
  ELSE /\ pc' = "done"
       /\ UNCHANGED k
       /\ IF m = NULL THEN redisClusterUpdateSlotmap(m, con, replies)
          ELSE updateNodesAndSlotmap(m, con, replies) /\ err' = TRUE

Lookup ==
  /\ pc = "lookup"
  /\ \/ /\ table[slot] # NULL
        /\ k' = table[slot]
        /\ pc' = "connect"
        /\ UNCHANGED <<map, err>>
     \/ /\ table[slot] = NULL
        /\ \E m \in Maps \union {NULL} : LookAgain(m, "connect") /\ (m = NULL => err')
  /\ UNCHANGED <<retry, upd, ret>>

(* The first attempt to connect: a failure updates the slotmap.  Failing   *)
(* to connect anew does not set cc->err.                                   *)
Connect ==
  /\ pc = "connect"
  /\ \/ /\ ctx_get_by_node(k)
        /\ pc' = "send"
        /\ UNCHANGED <<nodes, table, need, unsettled, k>>
     \/ /\ MayFail(k)
        /\ \E m \in Maps \union {NULL} :
             LookAgain(m, "open") /\ (m = NULL /\ con[k] = "none" => err')
        /\ UNCHANGED refused
  /\ UNCHANGED <<retry, upd, todo, result, stale>>

(* Any other: a failure ends the command.                                  *)
Open ==
  /\ pc = "open"
  /\ \/ /\ ctx_get_by_node(k)
        /\ pc' = "send"
     \/ /\ MayFail(k)
        /\ pc' = "done"
        /\ err' = TRUE
        /\ UNCHANGED <<con, replies, refused>>
  /\ UNCHANGED <<nodes, table, need, retry, k, upd, unsettled, todo, result, stale>>

(* Mutant: the slotmap query is sent ahead of the command.                 *)
Send_QueryFirst ==
  /\ pc = "send"
  /\ IF need /\ upd = NULL
     THEN \/ /\ replies' = [replies EXCEPT ![k] = @ \o <<"slotmap", "cmd">>]
             /\ upd' = k
             /\ UNCHANGED con
          \/ /\ con' = [con EXCEPT ![k] = "broken"]
             /\ UNCHANGED <<replies, upd>>
     ELSE replies' = Put(k, "cmd") /\ UNCHANGED <<con, upd>>
  /\ pc' = "recv"
  /\ UNCHANGED <<nodes, table, need, retry, err, k, unsettled, ret>>

(* The command, and with it a scheduled slotmap query; writing may fail.   *)
Send ==
  /\ pc = "send"
  /\ IF need /\ upd = NULL
     THEN \/ /\ replies' = [replies EXCEPT ![k] = @ \o <<"cmd", "slotmap">>]
             /\ upd' = k
             /\ UNCHANGED con
          \/ /\ con' = [con EXCEPT ![k] = "broken"]
             /\ UNCHANGED <<replies, upd>>
     ELSE replies' = Put(k, "cmd") /\ UNCHANGED <<con, upd>>
  /\ pc' = "recv"
  /\ UNCHANGED <<nodes, table, need, retry, err, k, unsettled, ret>>

(* Mutant: no update is scheduled.                                         *)
RecvFails_NotScheduled ==
  /\ pc = "recv"
  /\ con' = [con EXCEPT ![k] = "broken"]
  /\ err' = TRUE
  /\ unsettled' = TRUE
  /\ pc' = "done"
  /\ UNCHANGED <<nodes, table, replies, need, retry, k, upd, ret>>

(* No reply: an update is scheduled for the next command.                  *)
RecvFails ==
  /\ pc = "recv"
  /\ con' = [con EXCEPT ![k] = "broken"]
  /\ err' = TRUE
  /\ need' = TRUE
  /\ unsettled' = TRUE
  /\ pc' = "done"
  /\ UNCHANGED <<nodes, table, replies, retry, k, upd, ret>>

Read(a) == con[a] = "ok" /\ replies[a] # << >>
Rest(a) == [replies EXCEPT ![a] = Tail(@)]

(* A reply that is no cluster error is the result: the command's own, or   *)
(* the reply to another request that was still to be read.                 *)
RecvReply ==
  /\ pc = "recv" /\ Read(k)
  /\ result' \in IF Head(replies[k]) = "cmd" THEN {"reply", "error"} ELSE {"foreign"}
  /\ replies' = Rest(k)
  /\ pc' = "done"
  /\ UNCHANGED <<nodes, table, con, need, retry, err, todo, k, upd, unsettled,
                 stale, refused>>

RecvClusterError == pc = "recv" /\ Read(k) /\ Head(replies[k]) = "cmd"

(* Too many retries, or a redirect that cannot be parsed.                  *)
RecvGivesUp ==
  /\ RecvClusterError
  /\ replies' = Rest(k)
  /\ retry' = retry + 1
  /\ err' = TRUE
  /\ pc' = "done"
  /\ UNCHANGED <<nodes, table, con, need, k, upd, unsettled, ret>>

(* Mutant: retries are not counted.                                        *)
RecvRetries_Uncounted == RecvClusterError /\ retry < MaxRetry /\ UNCHANGED retry

RecvRetries == RecvClusterError /\ retry < MaxRetry /\ retry' = retry + 1

(* A server redirects to another one.                                      *)
(*                                                                         *)
(* MOVED: the slot is pointed to the node a, the sender is asked for its   *)
(* slotmap, and the command goes to a.  When the query cannot be sent a    *)
(* blocking update is made, and the node just looked up is used after it.  *)
RecvMoved(a) ==
  /\ RecvRetries /\ a # k
  /\ LET R == Rest(k)
         T == [table EXCEPT ![slot] = a]
     IN  \/ /\ upd # NULL
            /\ replies' = R /\ table' = T /\ nodes' = nodes \union {a}
            /\ k' = a /\ pc' = "open"
            /\ UNCHANGED <<con, need, err, upd, unsettled, stale>>
         \/ /\ upd = NULL
            /\ replies' = [R EXCEPT ![k] = Append(@, "slotmap")]
            /\ table' = T /\ nodes' = nodes \union {a}
            /\ upd' = k /\ k' = a /\ pc' = "open"
            /\ UNCHANGED <<con, need, err, unsettled, stale>>
         \/ /\ upd = NULL
            /\ \E m \in Maps : redisClusterUpdateSlotmap(m, [con EXCEPT ![k] = "broken"], R)
            /\ stale' = TRUE
            /\ UNCHANGED <<k, upd, pc>>
         \/ /\ upd = NULL
            /\ con' = [con EXCEPT ![k] = "broken"]
            /\ replies' = R /\ table' = T /\ nodes' = nodes \union {a}
            /\ err' \in BOOLEAN /\ pc' = "done"
            /\ UNCHANGED <<need, k, upd, unsettled, stale>>
  /\ UNCHANGED <<todo, result, refused>>

RecvAsk(a) ==
  /\ RecvRetries /\ a # k
  /\ replies' = Rest(k)
  /\ nodes' = nodes \union {a}
  /\ k' = a
  /\ pc' = "asking"
  /\ UNCHANGED <<table, con, need, err, upd, unsettled, ret>>

(* redisCommand ASKING: sent, and the next reply on the connection read.   *)
Asking ==
  /\ pc = "asking"
  /\ \/ /\ con' = [con EXCEPT ![k] = "ok"]
        /\ replies' = [replies EXCEPT ![k] =
                         Tail(Append(IF con[k] = "ok" THEN @ ELSE << >>, "asking"))]
        /\ authenticate(k)
        /\ pc' = "send"
     \/ /\ con' = [con EXCEPT ![k] = IF @ = "none" THEN "none" ELSE "broken"]
        /\ err' = TRUE
        /\ pc' = "done"
        /\ UNCHANGED <<replies, refused>>
  /\ UNCHANGED <<nodes, table, need, retry, k, upd, unsettled, todo, result, stale>>

(* Mutant: the slotmap is updated before the next attempt.                 *)
RecvTryAgain_Updates ==
  /\ RecvRetries
  /\ \E m \in Maps : redisClusterUpdateSlotmap(m, con, Rest(k))
  /\ pc' = "lookup"
  /\ UNCHANGED <<k, upd, ret>>

(* TRYAGAIN, CLUSTERDOWN: from the start, on the node of the slot.         *)
RecvTryAgain ==
  /\ RecvRetries
  /\ replies' = Rest(k)
  /\ pc' = "lookup"
  /\ UNCHANGED <<nodes, table, con, need, err, k, upd, unsettled, ret>>

(* Mutant: the deferred query is forgotten when the command failed.        *)
HandleDeferredUpdate_Skipped ==
  /\ pc = "done" /\ upd # NULL
  /\ \/ /\ result = "none"
        /\ UNCHANGED <<map, err, result>>
     \/ /\ Read(upd) /\ Head(replies[upd]) = "slotmap"
        /\ \E m \in Maps : updateNodesAndSlotmap(m, con, Rest(upd))
        /\ UNCHANGED <<err, result>>
  /\ upd' = NULL
  /\ UNCHANGED <<retry, pc, todo, k, stale, refused>>

(* The deferred query is read.  Without a map an update is made with       *)
(* another node, and the reply is dropped if that fails too.               *)
HandleDeferredUpdate ==
  /\ pc = "done" /\ upd # NULL
  /\ \/ /\ Read(upd) /\ Head(replies[upd]) = "slotmap"
        /\ \E m \in Maps : updateNodesAndSlotmap(m, con, Rest(upd))
        /\ UNCHANGED <<err, result>>
     \/ \E m \in Maps \union {NULL} :
          /\ \/ /\ Read(upd)
                /\ redisClusterUpdateSlotmap(m, con, Rest(upd))
             \/ redisClusterUpdateSlotmap(m, [con EXCEPT ![upd] = "broken"], replies)
          /\ result' = IF m = NULL THEN "none" ELSE result
  /\ upd' = NULL
  /\ UNCHANGED <<retry, pc, todo, k, stale, refused>>

(* The next sub-command, unless this one has no reply or an error; else    *)
(* the call returns.  A reply to another request may be either.            *)
Return ==
  /\ pc = "done" /\ upd = NULL
  /\ \/ /\ result \in {"reply", "foreign"} /\ Len(todo) > 1
        /\ todo' = Tail(todo)
        /\ result' = "none"
        /\ pc' = "lookup"
        /\ UNCHANGED <<retry, k>>
     \/ /\ result = "reply" => Len(todo) = 1
        /\ todo' = << >>
        /\ retry' = 0
        /\ k' = NULL
        /\ pc' = "idle"
        /\ UNCHANGED result
  /\ UNCHANGED <<nodes, table, con, replies, need, err, upd, unsettled, stale,
                 refused>>

(* redisClustervCommandToNode: one attempt, and a scheduled slotmap query  *)
(* on the same connection, whose failure is ignored.  The context's error  *)
(* is cleared once there is a connection, that of a refused AUTH included. *)
redisClustervCommandToNode(a) ==
  /\ pc = "idle"
  /\ a \in nodes
  /\ LET R == [replies EXCEPT ![a] =
                 (IF con[a] = "ok" THEN @ ELSE << >>) \o
                 (IF need THEN <<"cmd", "slotmap">> ELSE <<"cmd">>)]
         C == [con EXCEPT ![a] = "ok"]
         B == [con EXCEPT ![a] = "broken"]
     IN  \/ /\ MayFail(a)
            /\ err' = TRUE
            /\ result' = "none"
            /\ UNCHANGED map
         \/ /\ con' = B
            /\ err' = TRUE /\ need' = TRUE /\ unsettled' = TRUE
            /\ result' = "none"
            /\ UNCHANGED <<nodes, table, replies>>
         \/ /\ err' = FALSE
            /\ result' = IF Head(R[a]) = "cmd" THEN "reply" ELSE "foreign"
            /\ LET R1 == [R EXCEPT ![a] = Tail(@)]
                   R2 == [R EXCEPT ![a] = Tail(Tail(@))]
               IN  \/ /\ ~need
                      /\ con' = C /\ replies' = R1
                      /\ UNCHANGED <<nodes, table, need, unsettled>>
                   \/ /\ need
                      /\ \E m \in Maps : updateNodesAndSlotmap(m, C, R2)
                   \/ /\ need
                      /\ con' = C /\ replies' = R2
                      /\ UNCHANGED <<nodes, table, need, unsettled>>
                   \/ /\ need
                      /\ con' = B /\ replies' = R1
                      /\ UNCHANGED <<nodes, table, need, unsettled>>
  /\ refused' = FALSE
  /\ UNCHANGED <<retry, pc, todo, k, upd, stale>>

(* The steps of a call, the reply of a server or its failure among them.   *)
Step ==
  \/ Lookup \/ Connect \/ Open \/ Send
  \/ RecvFails \/ RecvReply \/ RecvGivesUp \/ RecvTryAgain
  \/ \E a \in Addr : RecvMoved(a) \/ RecvAsk(a)
  \/ Asking \/ HandleDeferredUpdate \/ Return

(* After the use of a freed node nothing more is said of the program.      *)
Undefined == stale /\ UNCHANGED vars

Next ==
  \/ /\ ~stale
     /\ \/ \E c \in Calls : redisClusterFormattedCommand(c)
        \/ \E a \in Addr : redisClustervCommandToNode(a)
        \/ Step
  \/ Undefined

Spec == Init /\ [][Next]_vars

(* A blocking read ends with a reply, a timeout or an error.               *)
FairSpec == Spec /\ WF_vars(~stale /\ Step)

-----------------------------------------------------------------------------
(***************************************************************************)
(* Properties                                                              *)
(***************************************************************************)

(* The state has its type, and no call makes more than max_retry_count     *)
(* retries (2307-2326).                                                    *)
TypeOK ==
  /\ nodes \subseteq Addr
  /\ table \in [Slot -> nodes \union {NULL}]
  /\ con \in [Addr -> {"none", "ok", "broken"}]
  /\ replies \in [Addr -> Seq({"cmd", "slotmap", "asking"})]
  /\ retry \in 0 .. MaxRetry + 1
  /\ need \in BOOLEAN /\ err \in BOOLEAN
  /\ unsettled \in BOOLEAN /\ stale \in BOOLEAN /\ refused \in BOOLEAN
  /\ pc \in Locations
  /\ todo \in Seq(Slot)
  /\ k \in Addr \union {NULL} /\ upd \in Addr \union {NULL}
  /\ result \in {"none", "reply", "error", "foreign"}

(* When a call returns every request on every usable connection has had    *)
(* its reply read, on each of the paths through the redirects and errors:  *)
(* the next command is not answered with what an earlier one left over.    *)
NothingLeftToRead ==
  /\ TypeOK
  /\ pc = "idle" => \A a \in Addr : con[a] = "ok" => replies[a] = << >>

(* The connection a slotmap query waits on (c_updating_route) is still     *)
(* there when the query is read, whatever update came in between (2409).   *)
DeferredUpdateHasConnection ==
  upd # NULL => upd \in nodes /\ con[upd] # "none"

(* A read that failed is followed up: no later command routed by slot      *)
(* returns a reply before the slotmap has been updated, whichever node it  *)
(* goes to and however it is redirected (2291-2305, 2409-2423).            *)
FailureIsFollowedUp ==
  pc = "done" /\ upd = NULL /\ result # "none" => ~unsettled

(* A reply is returned together with an error on the context in one case:  *)
(* AUTH was refused when a connection of this call was connected again     *)
(* (1987).  No lookup, attempt to connect, redirect or update that failed  *)
(* on the way to the reply leaves its error behind (1471-1474, 2340-2341,  *)
(* 2415-2416), in any sub-command of the call.                             *)
OnlyAuthErrorWithReply == pc = "idle" /\ result # "none" /\ err => refused

(* Every call returns: redirects and retries cannot go on for ever.        *)
CallReturns == pc # "idle" ~> pc = "idle" \/ stale

(* The reply read for a command is its own, although the slotmap query is  *)
(* sent behind it on the same connection (2297); the one exception is a    *)
(* command that is sent again, after a redirect or TRYAGAIN, on the        *)
(* connection where that query still waits to be read.                     *)
ForeignOnlyOnResend ==
  [][result' = "foreign" /\ result # "foreign" => upd = k /\ retry > 0]_vars

(* The reply returned is the one to the command.  Refuted by the exception *)
(* of ForeignOnlyOnResend; see the README.                                 *)
ReplyIsToCommand == result # "foreign"

(* The node that a redirect named is used only while cc->nodes owns it.    *)
NodeInUseIsOwned == ~stale
=============================================================================
