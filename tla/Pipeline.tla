------------------------------ MODULE Pipeline ------------------------------
(***************************************************************************)
(* The pipelining API: redisClusterAppendCommand and its variants write    *)
(* commands and remember them in cc->requests, redisClusterGetReply reads  *)
(* the replies in the same order, redisClusterReset ends the pipeline.     *)
(*                                                                         *)
(* A multi-key command is written as one sub-command per slot, each to the *)
(* node of its slot, and its replies are read node by node.  A reply that  *)
(* is to come carries the request it answers, and a read takes the oldest  *)
(* on the connection.                                                      *)
(***************************************************************************)
EXTENDS Naturals, Sequences, FiniteSets, Flatten

CONSTANTS
  Addr,      \* addresses of cluster nodes
  Slot,      \* hash slots
  Maps,      \* slot maps that a slotmap update may bring
  Commands,  \* commands, as sequences of the slots of their sub-commands
  MaxReq,    \* bound on the commands appended
  MaxRetry,  \* cc->max_retry_count
  NULL

(* A request: its number, and the slots of its sub-commands or the address *)
(* it was sent to.                                                         *)
Request == [n : 1 .. MaxReq, to : Seq(Slot \union Addr)]

ASSUME PipelineAssumption ==
  /\ MaxReq \in Nat /\ MaxRetry \in Nat
  /\ Commands \subseteq Seq(Slot) \ {<< >>}
  /\ \A m \in Maps : m.nodes \subseteq Addr /\ m.table \in [Slot -> m.nodes \union {NULL}]
  /\ NULL \notin Addr /\ NULL \notin Seq(Request)

VARIABLES
  nodes,     \* the addresses in cc->nodes
  table,     \* cc->table
  con,       \* node->con: "none", "ok", or "broken" (c->err)
  wire,      \* for each connection the requests whose replies are to come
  requests,  \* cc->requests: NULL, or the requests in order
  count,     \* commands appended so far
  err,       \* cc->err is set
  need,      \* cc->need_update_route
  retry,     \* cc->retry_count
  sure,      \* history: how many of the oldest requests are sure of their
             \* replies: nothing has happened to them since they were written
  smooth,    \* history: all are, and nothing else is to come
  last       \* what the last call was and gave

vars == <<nodes, table, con, wire, requests, count, err, need, retry, sure, smooth,
          last>>

Init ==
  /\ \E m \in Maps : nodes = m.nodes /\ table = m.table
  /\ con = [a \in Addr |-> "none"]
  /\ wire = [a \in Addr |-> << >>]
  /\ requests = NULL
  /\ count = 0
  /\ err = FALSE /\ need = FALSE /\ retry = 0
  /\ sure = 0 /\ smooth = TRUE
  /\ last = "none"

(* ctx_get_by_node: a connection with an error is connected anew, and what *)
(* it had to deliver is gone.                                              *)
Wire(a) == IF con[a] = "ok" THEN wire[a] ELSE << >>

Outstanding == IF requests = NULL THEN << >> ELSE requests

(* The node a request is written to and read from.                         *)
Node(x) == IF x \in Slot THEN table[x] ELSE IF x \in nodes THEN x ELSE NULL

Nodes(to) == [i \in DOMAIN to |-> Node(to[i])]

Times(a, as) == Cardinality({i \in DOMAIN as : as[i] = a})

(* Request n is written to the nodes as, once for each time they occur.    *)
Write(n, as) ==
  /\ con' = [a \in Addr |-> IF Times(a, as) > 0 THEN "ok" ELSE con[a]]
  /\ wire' = [a \in Addr |-> IF Times(a, as) > 0
                             THEN Wire(a) \o [i \in 1 .. Times(a, as) |-> n]
                             ELSE wire[a]]

(* AUTH may be refused on a connection that is connected again: that is    *)
(* ignored, and leaves an error on the context.                            *)
authenticate(as) ==
  err' \in {err} \union {TRUE : i \in {i \in DOMAIN as : con[as[i]] = "broken"}}

(* The command is written and remembered.  Or a sub-command fails, for its *)
(* slot has no node or connecting fails: then nothing is remembered, and   *)
(* what has been written already stays written.                            *)
AppendTo(to) ==
  /\ count < MaxReq
  /\ count' = count + 1
  /\ LET as == Nodes(to)
     IN  \/ /\ \A i \in DOMAIN as : as[i] # NULL
            /\ Write(count', as)
            /\ requests' = Append(Outstanding, [n |-> count', to |-> to])
            /\ authenticate(as)
            /\ sure' = IF smooth THEN sure + 1 ELSE sure
            /\ last' = "appended"
            /\ UNCHANGED smooth
         \/ \E j \in DOMAIN as :
              /\ as[j] # NULL => con[as[j]] # "ok"
              /\ \A i \in 1 .. j - 1 : as[i] \notin {NULL, as[j]}
              /\ Write(count', SubSeq(as, 1, j - 1))
              /\ requests' = Outstanding
              /\ err' = TRUE
              /\ smooth' = (smooth /\ j = 1)
              /\ last' = "failed"
              /\ UNCHANGED sure
  /\ UNCHANGED <<nodes, table, need, retry>>

(* Nothing is written of a command that cannot be parsed or has no key.    *)
Reject ==
  /\ requests' = Outstanding
  /\ err' = TRUE
  /\ last' = "failed"
  /\ UNCHANGED <<nodes, table, con, wire, count, need, retry, sure, smooth>>

redisClusterAppendFormattedCommand(c) == AppendTo(c) \/ Reject

redisClustervAppendCommandToNode(a) == a \in nodes /\ AppendTo(<<a>>)

-----------------------------------------------------------------------------
(* One reply is read from each of the nodes as, in order.                  *)
Readable(as) ==
  \A i \in DOMAIN as :
    /\ as[i] # NULL
    /\ con[as[i]] = "ok"
    /\ Len(wire[as[i]]) >= Times(as[i], as)

Unread(as) ==
  [a \in Addr |-> SubSeq(wire[a], Times(a, as) + 1, Len(wire[a]))]

(* A connection that has failed counts against the slot map, unless its    *)
(* update is asked for already (n).                                        *)
Blame(n) == IF n THEN <<TRUE, retry>>
            ELSE IF retry + 1 > MaxRetry THEN <<TRUE, 0>> ELSE <<FALSE, retry + 1>>

(* __redisClusterGetReplyFromNode fails at a node: without a connection,   *)
(* with one that has failed before, or because reading fails now.  The     *)
(* replies of the sub-commands read before it leave n in need.             *)
ReadFails(a, n) ==
  \/ /\ a = NULL
     /\ err' = TRUE
     /\ need' = n
     /\ UNCHANGED <<con, retry>>
  \/ /\ a # NULL /\ con[a] = "none"
     /\ err' = FALSE
     /\ need' = n
     /\ UNCHANGED <<con, retry>>
  \/ /\ a # NULL /\ con[a] = "broken"
     /\ err' = TRUE
     /\ need' = Blame(n)[1] /\ retry' = Blame(n)[2]
     /\ UNCHANGED con
  \/ /\ a # NULL /\ con[a] = "ok"
     /\ con' = [con EXCEPT ![a] = "broken"]
     /\ err' = TRUE
     /\ need' = n
     /\ UNCHANGED retry

(* Mutant: the newest request is taken first.                              *)
redisClusterGetReply_Newest ==
  /\ Outstanding # << >>
  /\ requests' = SubSeq(requests, 1, Len(requests) - 1)
  /\ LET as == Nodes(requests[Len(requests)].to)
     IN  /\ Readable(as)
         /\ wire' = Unread(as)
         /\ last' = IF \A i \in DOMAIN as :
                         \A p \in 1 .. Times(as[i], as) :
                           wire[as[i]][p] = requests[Len(requests)].n
                    THEN "own" ELSE "foreign"
  /\ err' = FALSE
  /\ sure' = IF sure > 0 THEN sure - 1 ELSE 0
  /\ UNCHANGED <<nodes, table, con, count, need, retry, smooth>>

(* redisClusterGetReply for the oldest request: all replies are read (any  *)
(* may be a MOVED, which asks for an update), or one cannot be.  The reply *)
(* of a command with sub-commands is put together; if one of them is an    *)
(* error it is that, and it is freed with the request.                     *)
redisClusterGetReply ==
  /\ Outstanding # << >>
  /\ requests' = Tail(requests)
  /\ LET as == Nodes(Head(requests).to)
     IN  \/ /\ Readable(as)
            /\ wire' = Unread(as)
            /\ need' \in {need, TRUE}
            /\ \/ /\ last' = IF \A i \in DOMAIN as :
                                  \A p \in 1 .. Times(as[i], as) :
                                    wire[as[i]][p] = Head(requests).n
                             THEN "own" ELSE "foreign"
                  /\ err' = FALSE
               \/ /\ Len(as) > 1
                  /\ \/ last' = "freed" /\ err' = FALSE
                     \/ last' = "failed" /\ err' = TRUE
            /\ sure' = IF sure > 0 THEN sure - 1 ELSE 0
            /\ UNCHANGED <<con, retry, smooth>>
         \/ \E j \in DOMAIN as, n \in {need, TRUE} :
              /\ j = 1 => n = need
              /\ Readable(SubSeq(as, 1, j - 1))
              /\ wire' = Unread(SubSeq(as, 1, j - 1))
              /\ ReadFails(as[j], n)
              /\ sure' = 0 /\ smooth' = FALSE
              /\ last' = "failed"
  /\ UNCHANGED <<nodes, table, count>>

NoMoreReplies ==
  /\ Outstanding = << >>
  /\ err' = FALSE
  /\ last' = "empty"
  /\ UNCHANGED <<nodes, table, con, wire, requests, count, need, retry, sure,
                 smooth>>

-----------------------------------------------------------------------------
(* A slotmap update brings map m, or fails: a node that stays keeps its    *)
(* connection.  The connections are C, with W to come on them, and n is    *)
(* cc->need_update_route, e whether cc->err is set.                        *)
Update(C, W, n, e) ==
  \/ \E m \in Maps :
       LET kept == nodes \intersect m.nodes
       IN  /\ nodes' = m.nodes
           /\ table' = m.table
           /\ con' = [a \in Addr |-> IF a \in kept THEN C[a] ELSE "none"]
           /\ wire' = [a \in Addr |-> IF a \in kept THEN W[a] ELSE << >>]
           /\ need' = FALSE
           /\ err' = FALSE
  \/ /\ con' = C /\ wire' = W
     /\ need' = n
     /\ err' \in {e, TRUE}
     /\ UNCHANGED <<nodes, table>>

(* The first i requests are read from the nodes they were written to.      *)
SameNodes(i) ==
  \A h \in 1 .. i : Nodes(Outstanding[h].to)' = Nodes(Outstanding[h].to)

(* Between writing and reading, a request is sure of its replies as long   *)
(* as it and the ones before it keep their nodes.                          *)
redisClusterUpdateSlotmap ==
  /\ Update(con, wire, need, err)
  /\ UNCHANGED <<requests, count, retry>>
  /\ sure' \in 0 .. sure /\ SameNodes(sure')
  /\ sure' < sure => ~SameNodes(sure' + 1)
  /\ smooth' = (smooth /\ sure' = sure)
  /\ last' = "updated"

(* redisClusterSendAll connects and flushes node by node, until one fails. *)
SendAll ==
  {C \in [Addr -> {"none", "ok", "broken"}] :
     \A a \in Addr : C[a] # con[a] => a \in nodes /\ C[a] # "none"
                                      /\ (C[a] = "broken" => con[a] = "ok")}

(* The end of redisClusterReset: the list is released, and the slot map    *)
(* updated if n says so.                                                   *)
Release(C, W, n) ==
  /\ requests' = NULL
  /\ IF n THEN Update(C, W, n, FALSE)
     ELSE /\ con' = C /\ wire' = W
          /\ need' = FALSE
          /\ err' = FALSE
          /\ UNCHANGED <<nodes, table>>
  /\ UNCHANGED count

(* Mutant: the connections are kept.                                       *)
ResetClears_Keeps ==
  /\ err \/ requests # << >>
  /\ Release(con, wire, need)
  /\ sure' = 0 /\ smooth' = TRUE
  /\ last' = "reset"
  /\ UNCHANGED retry

(* redisClusterReset after an error, without a pipeline, or when not all   *)
(* replies can be read: redisClusterClearAll closes every connection.      *)
ResetClears ==
  /\ \E b \in {<<need, retry>>}
              \union IF ~err /\ Outstanding # << >> THEN {<<TRUE, retry>>, Blame(need)} ELSE {} :
       /\ Release([a \in Addr |-> "none"], [a \in Addr |-> << >>], b[1])
       /\ retry' = b[2]
  /\ err \/ requests # << >>
  /\ sure' = 0 /\ smooth' = TRUE
  /\ last' = "reset"

(* redisClusterReset otherwise: all replies are read and freed.            *)
ResetDrains ==
  /\ ~err
  /\ requests # NULL
  /\ \E C \in SendAll, n \in {need, Outstanding # << >> \/ need} :
       LET as == FlattenSeq([i \in DOMAIN requests |-> Nodes(requests[i].to)])
       IN  /\ Readable(as)
           /\ \A i \in DOMAIN as : C[as[i]] = "ok"
           /\ Release(C, [a \in Addr |-> IF con[a] = "ok" THEN Unread(as)[a] ELSE << >>], n)
  /\ \/ last' = "reset"
     \/ last' = "freed" /\ \E i \in DOMAIN requests : Len(requests[i].to) > 1
  /\ sure' = 0
  /\ UNCHANGED <<retry, smooth>>

redisClusterReset == ResetClears \/ ResetDrains

(* A reply that is used after it was freed: anything may follow.           *)
Undefined == last = "freed" /\ UNCHANGED vars

Next ==
  \/ /\ last # "freed"
     /\ \/ \E c \in Commands : redisClusterAppendFormattedCommand(c)
        \/ \E a \in Addr : redisClustervAppendCommandToNode(a)
        \/ redisClusterGetReply
        \/ NoMoreReplies
        \/ redisClusterUpdateSlotmap
        \/ redisClusterReset
  \/ Undefined

Spec == Init /\ [][Next]_vars

-----------------------------------------------------------------------------
(* The types of the variables; MaxRetry failures in a row, counted by      *)
(* __redisClusterGetReplyFromNode, ask for an update.                      *)
TypeOK ==
  /\ nodes \subseteq Addr
  /\ table \in [Slot -> nodes \union {NULL}]
  /\ con \in [Addr -> {"none", "ok", "broken"}]
  /\ wire \in [Addr -> Seq(1 .. MaxReq)]
  /\ requests = NULL \/ requests \in Seq(Request)
  /\ count \in 0 .. MaxReq
  /\ err \in BOOLEAN /\ need \in BOOLEAN /\ smooth \in BOOLEAN
  /\ retry \in 0 .. MaxRetry
  /\ sure \in 0 .. Len(Outstanding)
  /\ last \in {"none", "appended", "own", "foreign", "freed", "failed", "empty",
               "updated", "reset"}

(* The numbers of the requests rs that expect a reply from address a, in   *)
(* the order redisClusterGetReply will read them.                          *)
Expected(a, rs) ==
  FlattenSeq([i \in DOMAIN rs |-> [j \in 1 .. Times(a, Nodes(rs[i].to)) |-> rs[i].n]])

Sure == SubSeq(Outstanding, 1, sure)

StartsWith(w, p) == Len(p) <= Len(w) /\ SubSeq(w, 1, Len(p)) = p

(* What is to come on each connection begins with the replies to the       *)
(* oldest commands of cc->requests, in its order: a later command that is  *)
(* appended only in part (3230), or loses its node to an update between    *)
(* writing and reading (2133), does not get ahead of them.  As long as     *)
(* nothing has failed it is the replies to all commands and nothing else,  *)
(* although their sub-commands interleave on the nodes; appending,         *)
(* reading, resetting and updating the slot map keep both sides in step.   *)
(* Every variable has its type.                                            *)
Aligned ==
  /\ TypeOK
  /\ \A a \in Addr : StartsWith(Wire(a), Expected(a, Sure))
  /\ smooth => /\ sure = Len(Outstanding)
               /\ \A a \in Addr : Wire(a) = Expected(a, Outstanding)

(* redisClusterGetReply gives the reply to another command only when the   *)
(* oldest command was appended after one that was written in part, or its  *)
(* node or one before it was changed by an update, or a read has failed:   *)
(* neither the connections shared with other commands nor what is done     *)
(* after it was appended takes its reply from a command.                   *)
OwnReply == [][last' = "foreign" => sure = 0]_vars

(* "Resets cluster state after pipeline": nothing is left to be read on    *)
(* any connection by the next command.  Refuted when appending a later     *)
(* sub-command has failed (3230, 3570); see the README.                    *)
ResetLeavesNothing == last = "reset" => \A a \in Addr : Wire(a) = << >>

(* The reply of redisClusterGetReply is the caller's to use and to free.   *)
ReplyIsCallers == last # "freed"
=============================================================================
