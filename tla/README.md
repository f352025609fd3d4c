# A TLA+ verification of hiredis-cluster

hiredis-cluster is a C client library for Redis Cluster on top of hiredis.  This
directory holds TLA+ models of it, the TLC configurations that check them on
small instances, and TLAPS proofs of the invariants of the slot map, of the
blocking and the asynchronous client, of the pipeline, of the hash table and its
iterator, and of the topology parsers.  Line numbers are those of
`src/hircluster.c` unless another file is named.

## The system

### Parts, state and operations

| Part | State | Operations | Module |
|---|---|---|---|
| slot map and node table | `cc->nodes`, `cc->table`, `cc->route_version`, the `redisClusterNode` objects, `node->acon` and `ac->data` | `redisClusterSetOptionAddNode`, `getNodeFromRedirectReply`, `updateNodesAndSlotmap`, `cluster_nodes_swap_ctx`, `freeRedisClusterNode`, `actx_get_by_node`, `unlinkAsyncContextAndNode`, `redisClusterFree` | `Slotmap` |
| asynchronous client | contexts and their callback queues, `acc->err`, `acc->lastSlotmapUpdateAttempt`, `node->lastConnectionAttempt`, retry counts, the shutdown flag | `redisClusterAsyncFormattedCommand`, `...ToNode`, `redisClusterAsyncCallback`, `clusterSlotsReplyCallback`, `clusterNodesReplyCallback`, `updateSlotMapAsync`, `redisClusterAsyncConnect2`, `redisClusterAsyncDisconnect`, `redisClusterAsyncFree` | `AsyncClient`, `AsyncContract` |
| blocking client | `node->con`, `cc->err`, `cc->need_update_route`, `cc->retry_count`, the locals of `redis_cluster_command_execute` | `redisClusterFormattedCommand`, `redis_cluster_command_execute`, `redisClusterUpdateSlotmap`, `redisClustervCommandToNode` | `SyncClient` |
| multi-key commands | the sub-commands and their replies | `command_format_by_slot`, `command_pre_fragment`, `command_post_fragment` | `Fragment` on `Command` |
| pipelining | `cc->requests`, replies to come on each connection | `redisClusterAppendFormattedCommand`, `redisClustervAppendCommandToNode`, `redisClusterGetReply`, `redisClusterReset` | `Pipeline` |
| node iterator | a dict iterator and the route version it belongs to | `redisClusterInitNodeIterator`, `redisClusterNodeNext`, and `selectNode` over the same dict | `NodeIterator` on `Dict` |
| topology parsers | the dict under construction, `nodes_name`, the local `master` and `slot` | `parse_cluster_slots`, `parse_cluster_nodes`, `cluster_master_slave_mapping_with_name` and helpers | `Topology` |
| key hashing (`crc16.c`) | none | `keyHashSlot` (hash tags), `crc16` | `Command` |
| command parser (`command.c`) | none | `redis_parse_cmd`, `redis_lookup_cmd` | `Command` |
| hash table (`dict.c`) | buckets, iterator | `dictAdd`, `dictFind`, `dictNext`, `dictExpand` | `Dict` |
| lists, arrays, utilities, TLS, adapters | | containers, number conversion, glue | not modelled |

### How the parts interact

Every client looks up the node of a key's slot in `cc->table`, takes or opens the
connection of that node, and sends the command.  A reply `MOVED` or `ASK` names
another node: it is added to `cc->nodes` if unknown, `MOVED` also patches
`cc->table`, and the command is sent there.  Failures and `MOVED` lead to an
update: `CLUSTER SLOTS` or `CLUSTER NODES` is asked for, the reply is parsed into
a new dict of nodes, and `updateNodesAndSlotmap` replaces table and dict, hands
the open connections to the new nodes, and releases the old ones.

One thread runs it all.  What makes it hard is re-entrance and delay:

- releasing a node frees its asynchronous context, which runs the callbacks
  pending on it, which are application code that sends commands, in the middle of
  the update; the context may even be the one whose reply is being handled;
- the asynchronous client has many commands pending, one `acc->err`, and one flag
  for an update under way;
- the blocking client puts the slotmap query behind the command on the same
  connection and reads it last, with redirects, retries and blocking updates in
  between;
- the pipeline finds the connection to read from by slot, at the time of reading;
- a command over several slots is several commands, any of which may fail;
- a parser hands nodes from one owner to another while any allocation may fail;
- an application iterates over a dict to which redirects add and which updates
  replace.

`PROJECT.json` lists these hazards with the lines where they bite and the
properties that would catch them.

## The modules

**Slotmap** keeps the objects themselves: nodes and asynchronous contexts are
taken from pools and go back when freed, so a dangling pointer is visible as a
pointer to something not allocated, or allocated again.  The variable `phase`
says what the thread is in the middle of: an update is one step up to the
replacement of `cc->nodes` (no foreign code runs until then), and then one step
per node released, between which the application may call (`MayCall`).  `cur` is
the context hiredis is calling back from, which it frees only on return.  A
parsed reply is a set of masters with slot ranges.  A map whose ranges overlap or
are out of bounds is refused (`Refuse`): the nodes that the parser made for it are
released one by one, and dict and table stay.  hiredis' part (`ConnectionLost`) is
external.

**AsyncClient** abstracts a node to its address (Slotmap shows there is at most
one context per node of the dict and that it follows the address through updates)
and keeps, for each, the state of the context and the queue of callbacks waiting
on it.  `redisClusterAsyncCallback` is cut into the actions `CallbackDone`,
`CallbackFailed`, `CallbackMoved`, `CallbackAsk`, `CallbackTryAgain` (one for each
way through the function with a reply) and `CallbackNull`.  The application's
callback runs from one of these until `CallbackReturns`, and every API call is
possible meanwhile.  Time is abstracted to "recent" and "old", relative to
`SLOTMAP_UPDATE_THROTTLE_USEC`.  A connect may fail at once for the addresses in
`Unresolvable`.  The client starts with a map, with the nodes it was given, or with a
dict without nodes, which is what `redisClusterSetOptionAddNode` leaves when it
refuses an address (1632-1652).  `life` says whether the client is alive, freed, or
has used an object that is missing.  **AsyncContract** is what the API promises: a call is accepted or
refused, an accepted command is called back exactly once, nothing is accepted
while closing, nothing is pending when the context is gone.

**SyncClient** follows `redis_cluster_command_execute` label by label (`pc`).
Replies on a connection are tagged with the request they answer, and a read takes
the oldest: what the code believes it reads plays no part.  `upd` is
`c_updating_route`.  Servers redirect to any other node, answer `TRYAGAIN`, reply,
or do not, and may refuse `AUTH` when a connection is connected again; `refused`
remembers that for the call.

**Command** holds the pure algorithms a command meets on its way to a slot, over
real bytes: the binary search of the command table, the ways to find the keys
(fixed position, number of keys given, after a keyword), the hash tag rule and
CRC16.  The framing of the protocol is taken off.  **Fragment** runs a formatted
command through them and against a store spread over slots; the reference for a
multi-key command is the same command on one server, and for the parser the
positions that the Redis documentation gives.

**Dict** is the hash table bucket by bucket: chains, doubling when full, memory
that runs out at the table or at the entry, and the iterator with its saved
pointer to the next entry.  **NodeIterator** puts `cc->nodes` on it and lets
additions, redirects and updates come between any two calls of
`redisClusterNodeNext`.

**Topology** cuts the two parsers at every point where an object changes hands or
an allocation may fail, and counts how often each node object is freed.  The slot
numbers of `CLUSTER SLOTS` are integers of any size, cut to a `uint32_t` as the code
does (`Narrowed`).

**Pipeline** numbers the commands and keeps on each connection the numbers of the
replies to come.  Two history variables say how far these can be relied on: `sure`
is the number of the oldest requests to which nothing has happened since they were
written (no failed read, no update that changed the node of one of them or of one
before it, no partial append before them), and `smooth` says that this is all of
them, and that nothing else is to come.

**Flatten** has the concatenation of a sequence of sequences, which `Dict` and
`Pipeline` use.

The modules `*Proofs` hold the proofs (below); the `MC*` modules give the constants
their values.

## The runs

| Run | States | Properties |
|---|---|---|
| `slotmap` | 31 thousand | through updates and refused maps the table stays within the dict, nodes are owned once, nodes and contexts point at each other, no context is lost, a redirect finds a table, connections are kept over an update, an entry leaves the dict only with a new route version |
| `async` | 470 thousand | an update counts as ongoing exactly while its callback waits; a pending command waits once; `ASKING` directly precedes its command; contexts are accounted for; no connection is opened during shutdown; commands to a node stay there; the client crashes in two known cases only |
| `async_live` | 35 thousand | every accepted command is called back; a shutdown closes all connections; `AsyncContract` is implemented |
| `sync` | 432 thousand | nothing is left to read when a call returns; the connection of the deferred query exists; a failed read is followed by an update before a later command is answered; a reply comes with an error only after a refused `AUTH`; every call returns; a foreign reply is read only for a command sent again behind the query |
| `fragment` | 213 thousand | replies and effects are those of one server; a failed command has run whole sub-commands; a name is found exactly if it is in the part of the table that the instance has; a command goes to the slot of its keys; it is refused exactly when it is malformed or has no key, two documented or reported cases apart |
| `pipeline` | 109 thousand | connections and request list agree, in full while nothing has failed and else for the requests that nothing has happened to; these get their own replies |
| `iterator` | 30 thousand | the table is a set through growth and failed additions; an addition loses no node; the iterator returns live nodes only, and each node once; `selectNode` finds a connected node, else one that can be connected to |
| `topology` | 180 thousand | no node or slot is held twice; nodes are freed once, whatever fails; an accepted reply gives exactly the masters and slots it lists, and the replicas (of `CLUSTER SLOTS` those of a master's first region only); a reply is refused exactly when an element cannot be read, a master is listed twice or no slot is named |

Four more runs each show that something the documentation or a comment says does
not hold of the code; `PROJECT.json` quotes the texts:

| Run | What the counterexample shows |
|---|---|
| `async_stale_error` | a command is pending; another call is refused and sets `acc->err`; the good reply to the first is delivered as `NULL` (4103) |
| `sync_freed_node` | the node named by `MOVED` is released by the blocking update and then used (2338, 2348) |
| `pipeline_freed_reply` | the error reply of a sub-command is returned after it was freed with its request (2742, 3541) |
| `stream_keyword` | the keyword `STREAMS` is not seen at the first position where it may stand: `XREAD STREAMS key id` is refused (`command.c:312`) |

### Further deviations

Five more properties are stated in the modules, next to the ones that hold, and
belong to no run.  TLC refutes each one when it is added as an `INVARIANT` to the
configuration of the run named:

| Property | Run | What the counterexample shows |
|---|---|---|
| `AsyncClient!RedirectHasContext` | `async` | `MOVED` to a node whose connect fails at once: the missing context is used (4065, 4125); for `ASK` there is a check |
| `SyncClient!ReplyIsToCommand` | `sync` | a scheduled slotmap query shares the connection, the command is answered `TRYAGAIN` and sent again, and the slotmap reply is returned as its reply (2297); `ForeignOnlyOnResend` says that this is the only way |
| `Pipeline!ResetLeavesNothing` | `pipeline` | an append fails half-way, `redisClusterGetReply` clears the error, and `redisClusterReset` leaves the reply to the half-appended command on the connection (3230, 3570) |
| `NodeIterator!RestartCoversNewNodes` | `iterator` | the restart after an update uses up `retries_left`, and the next call then ends the iteration: one node of the new dict is returned, not all (4517, 4526) |
| `Topology!NeverFreedTwice` | `topology` | when entering a master in `nodes_name` fails (no memory, or two masters of one name) the master is freed on its own and again with the dict that holds it (1016-1021, 1188-1190) |

The passing properties name these cases where they meet them: `OnlyKnownCrashes`
lists the first one, `FreedOnce` makes an exception for the last one and
`EachNodeOnce` speaks of iterations that are not restarted.  Others are visible in the models only:

- An address that `redisClusterSetOptionAddNode` refuses leaves an empty dict
  (1632-1652).  If the application goes on with a command all the same,
  `updateSlotMapAsync` finds the dict, and `selectNode` divides by its size, zero
  (3905); the check at 3945 is for a missing dict only (the first case of
  `OnlyKnownCrashes`).
- When a connection is connected again the result of `authenticate` is ignored
  (1987): the command is sent, and its reply comes together with the error of the
  refused `AUTH` in `cc->err` (the exception in `OnlyAuthErrorWithReply`).
- A pipelined command that is appended after one that was written in part, or whose
  slot has moved by an update between writing and reading, may get the reply to
  another command (2133, 3230; `sure` in `OwnReply`).
- A replica of `CLUSTER NODES` whose master is never listed is lost: `nodes_name`
  frees nothing (1152-1157, 1175-1193; the first exception of `FreedOnce`).
- A redirect may add the node that makes the table grow while an application
  iterates.  The route version stays the same, the index into the old table is
  used on the new one, and nodes may be passed over or returned twice (2216;
  `grown` in `EachNodeOnce`).
- A blocking command can return `NULL` with `cc->err` 0, where the README says
  that it sets `err`: reconnecting sets the error on the connection only
  (1974-1987), and an update whose query cannot be written sets none (1211); or
  the error is cleared at 2415 and another node then gives a map.
- `redisClusterGetReply` fails without an error when an update between writing and
  reading has moved the slot to a node without connection (2107).

The passing runs go on past these points as far as the program is defined: where
a freed or missing object would be used, the models stop (`life = "crashed"`,
`stale`, `last = "freed"`); a second free is counted and the parser goes on.

### Bounds

- `slotmap`: 3 addresses (one known only from options and redirects), 2 slots, 5
  node objects (two dicts of two and a redirect), 3 contexts, 3 updates, valid
  maps, empty ones and refused ones, whose nodes take part of the same pool.  Nodes and contexts are symmetric.  The
  proofs lift all of these bounds.
- `async`: 2 nodes, 2 slots, 2 commands (each sent once, by slot or to a node), 1
  retry, a map with both nodes and one in which a node is gone and a slot is not
  served.  The client may also start without any node.  Two commands suffice for one callback to interfere with another; with
  one retry both the retry and its refusal happen.  The liveness run has one
  command and no connect that fails at once, since the redirect that follows such
  a failure ends the program (see above).
- `sync`: 3 nodes, of which each map has one or two, 2 slots, commands over one
  or both, 2 retries: two redirects and a refusal, so that a redirect can come
  back to the connection with the query.  Calls are not bounded.
- `fragment`: 3 keys, of which `a` and `{a}b` share a slot, 2 values, all stores;
  `MGET` of up to 4 keys, `DEL`, `EXISTS` and `MSET` of up to 3, so that keys
  repeat and interleave over slots; `GET` with every key of up to 4 bytes out of
  `{`, `a` and `}`; 13 rows of the command table, among them names that begin
  other names and every way to find a key; commands cut short and miscounted.
  The search needs a sorted table; that the whole of `cmddef.h` is sorted is not
  checked.
- `pipeline`: 2 nodes, 2 slots, 3 commands over one or both slots or to a node,
  three maps, and any order of appends, reads, updates and resets.
- `iterator`: 5 addresses and an initial table of 4 as in the code; four addresses
  share a bucket, and three of them stay together after the table has grown.  2
  updates, so that an iterator can be overtaken twice; maps that fill the table
  and that make it grow.
- `topology`: replies of up to 3 lines or regions, 2 slots, 2 masters' addresses
  and one of replicas, 2 names.  Three lines are a master with two replicas in
  every order, or two masters and a replica; a line may have several ranges, open
  slots and ranges that are none.  A `uint32_t` has 4 values, so that a negative
  slot number and one past the width are among the regions.  Every allocation may
  fail.

Deadlock is checked in `sync` and `pipeline`, where the application can always
call again.  The other systems stop: a context is freed, all commands are done, a
reply is parsed, the bound on updates is reached.

### Fairness

`AsyncClient!FairSpec` assumes that the event loop serves a connection on which
something is awaited: it connects, is answered or is lost.  hiredis with a command
timeout does that.  It is strong fairness for each connection, since an answer is
handled only when no callback runs, and callbacks of other connections come in
between.  The stack of callbacks unwinds (weak fairness), which is to say that
application callbacks return.  Nothing is assumed of application calls or of the
clock.  `SyncClient!FairSpec` assumes that a call goes on: a blocking read ends
with a reply, an error or a timeout.

## The proofs

TLAPS proves, for every value of the constants, what the runs `slotmap`, `sync`,
`async`, `pipeline`, `iterator` and `topology` check on one instance, save liveness.  Each
proof rests on named assumptions about the constants.  `NULL` is none of the other
values, and replies and maps have their shape.  `SlotmapAssumption` adds that
there is a slot, `SyncAssumption` and `PipelineAssumption` that a command is of at
least one slot, `AsyncAssumption` that the entries `"slotmap"` and `"asking"` of a
queue are no commands, `DictAssumption` that keys are sequences of bytes and the
initial size a power of two, up to 256, `NodeIteratorAssumption` that a map
accepted by a parser has a node, and `TopologyAssumption` that there is a slot, that
a `uint32_t` holds every slot number, and that a region with a range has a node.

### Slotmap

`SlotmapProofs` proves type correctness, `TableWithinNodes`, `NodesOwned`,
`BackPointers`, `NoContextLeaked`, `RedirectHasTable`, and the action properties
`KeepsConnections` and `DictChangeIsVersioned`, for any number of addresses, slots,
nodes, contexts, replies and updates.

The invariants are not inductive one by one.  That an update leaves the table
within the new dict needs that fresh nodes are not allocated yet (`NodesOwned`);
that the swap of contexts leaves both directions of pointers in agreement needs
that they agreed before and that no two nodes have one address; that a released
node takes no context in use with it needs all of them.  `Inv` is their
conjunction with `PhaseInv`, which says what holds in each phase: no old nodes are
left when the thread is idle, the nodes of a refused map have no contexts and are
in neither dict nor table, a context is being called back from only while flushing
or releasing, and table and dict are empty once freeing has begun.  There
is one lemma per action, and lemmas for what several of them share: what
`actx_get_by_node` does to the pointers (`GetContext`), where the node of a
redirect ends up (`RedirectNode`), and what addresses fresh nodes get
(`NewAddrKey`).

### SyncClient

`SyncProofs` proves `NothingLeftToRead`, `DeferredUpdateHasConnection`,
`FailureIsFollowedUp`, `OnlyAuthErrorWithReply` and `ForeignOnlyOnResend` for any
nodes, slots, maps and number of retries.  The inductive invariant
says what the function relies on from label to label.  That nothing is left to
read needs the length of every queue of replies at every label (`QueueInv`): at
most the deferred query, and the command just sent.  That the connection of that
query is still there needs that no update is made meanwhile, and this is so
because the slot has a node and that node an open connection (`DeferredInv`).  The
query was sent on that connection, or a `MOVED` has since entered another node in
the table, and the call goes on only if it can be connected to.
`ScheduleInv` follows a scheduled update from the failure to the next command that
is written, and `HeadInv` says when the first reply in the queue is not the
command's.  After the use of a freed node nothing more is claimed.

### AsyncClient

`AsyncProofs` proves `OngoingIsAwaited`, `CallbackOnce`, `AskingPrecedesCommand`,
`ContextsAccountedFor`, `NoConnectInShutdown`, `ToNodeStays` and `OnlyKnownCrashes`
for any nodes, slots, commands, maps and number of retries, and that the client implements the
safety part of `AsyncContract` (`ClientKeepsContract`).  The invariant
ties the queues of callbacks to everything else at once
(`QueuesOK`): a command is in some queue exactly if it is pending, and in one place
only; the slotmap query is in a queue exactly if an update counts as ongoing;
`ASKING` is followed by a command that was sent again; only an open context has a
queue.  The parts need one another: a context that is lost calls back its queue
entry by entry, and that this ends with the command called back once and the flag
cleared needs both that the entries are where they should be and that they are
nowhere else.  `Accounted` says that an open context belongs to a known node, is
about to be freed, or is the one being called back from.  Where a missing context
was used, a command may be pending that waits nowhere, and the invariant is
weakened to that.  Lemmas on appending an entry and taking one off carry the
quantifiers over queues, so that the proofs of the actions do not.

`OnlyKnownCrashes` has an invariant of its own (`LifeOK`), on top of the first: a
freed client has no nodes and is shutting down, any other client without nodes has
no connection, a command that may be retried remembers its slot, and a client that
has crashed is in one of the two cases.  It needs that an update brings nodes and
that a shutdown is never followed by a selection of a node or by a redirect.

For the refinement every step is classified by what it does to the commands
(`NextEffect`): nothing, accept one, refuse one, or call one back.  Each class is an
action of the contract or a stutter.

### Pipeline

`PipelineProofs` proves `Aligned` and `OwnReply` for any nodes, slots, commands and
maps.  `Aligned` is itself inductive: what is to be read on a connection begins with
the concatenation, over the sure requests in order, of the share of each (`Shares`), and a
request of several sub-commands may have several replies on one connection.  An
append adds one share at the end of every connection, a read takes off the first,
and a reset takes them off one after the other.  These are facts about
concatenating a sequence of sequences, proved at the head of the module.

### Dict and NodeIterator

The first half of `NodeIteratorProofs` is about the operators of `Dict`.  `DictOK` says of a table that its
size is 0 or a doubling of the initial size, every chain holds keys that hash to
its bucket, none twice, and `used` is the number of keys.  `AddOK` says that
`dictAdd` keeps this, grows or does not, adds the key or none, and loses none, for
every place where memory may run out; `ExpandIfNeededOK` that rehashing entry by
entry keeps the set of keys; `NextCases` which entry `dictNext` comes to.
`dictNextPower` is shown to end, at a size that is at least the one asked for.

The second half proves `DictIsSet`, `AdditionsKeepNodes`, `ReturnsLiveNodes`,
`EachNodeOnce` and `SelectsUsableNode`, for any keys, maps and number of updates.
For the first three the invariant `Inv` adds to `DictOK` that an iterator of the
present route version refers to the present dict, and its two saved entries to
entries of it.  `EachNodeOnce` needs `Walk`, which says where an iteration is: at
some place of some chain, where all that follows is unreturned and all that comes
before, and was there at the start, has been returned.  An addition puts its node
on the head of a chain and shifts that place by one, which is why a saved pointer
to the next entry survives it; an expansion moves entries across that place, which
is why the property makes an exception of it.  `SelectsUsableNode` needs that the order
of the table (`InOrder`) has every key in one place, so that each connected node is
the one at some index.  Both invariants were checked by TLC on the instance of the
run before they were proved.

### Topology

`TopologyProofs` proves `HeldOnce` and `FreedOnce`, and `TopologyReplyProofs`, with
`TopologyNodesProofs` for the lines of `CLUSTER NODES`, proves `ReplyKept` and
`RefusesBadReplies`, for both parsers, replies of any length with
any lines and regions of the shape that `TopologyAssumption` states, both flags,
and memory that runs out at any allocation.  `MaxItems` and `MaxRegions` only bound
the length of a reply, and are any numbers.

`HeldOnce` is not inductive: that a new object is held by nobody needs names for
objects that are new at each step (`NewNames`: an object is named for the line and
field it was made at, and what exists has an earlier one), and that a take-over
leaves no replica in two lists needs that a stand-in is in no list and stands in
for one name (`NamesHeld`), and that the master which takes over has no replicas
yet (`AtMaster`).  `HeapInv` says who holds what.  The two parsers do nine things
to the heap, from `MakesMaster` to `AddsOpen`; each has one lemma, which says that it
keeps `HeapInv` and loses sight of no node (`Safe`), and what it changes.  The
actions of both parsers are then shown to do one of these.  For `FreedOnce`, `Freed`
says that nothing has been freed before the parser gives up, except the node that
could not be handed over, and that every other node is kept by the dict or by a
stand-in; the last step, which releases the dict, frees what it keeps once because
no two masters hold one node.

`ReplyKept` speaks of the last state only.  Its invariant says in every state what
the dict has of the reply so far.  For `CLUSTER SLOTS` (`SlotsInv`) the master of each
address stands for the first region that names it, and has the slots of all of
these and the replicas of the first, as far as it has been read.  For `CLUSTER
NODES` (`LinesInv`) each master line that was read is in the dict, with the fields
that were read, and each name is in one of three states (`NameRead`): unknown, and
no line mentions it; held by a stand-in, which with its list is all the replicas
of a master not listed; or held by its master, which has all of them.  The same
invariant says why a parser gave up: whenever it refuses a reply for what it says,
two lines contradict each other or one is malformed.  Both invariants were checked
by TLC on the instance of the run before they were proved.

### Induction

The prover has no induction over data that takes a predicate.  `PipelineProofs` and
`NodeIteratorProofs` state it for sets instead: a nonempty set of naturals has a
least element (`Least`, from the well-foundedness of `<` in the library), and a
subset of an interval or of the sequences over a set that is closed under the step
is all of it (`IntervalInduction`, `SequenceInduction`).  `Recursion` shows that a function with
a given step exists on an interval, so that the local recursive functions of
`Dict` are the functions they are meant to be.  For that reason `Dict` and
`Pipeline` have recursive functions and sequence operators with such a definition
(`FlattenSeq` of `Flatten`), not folds.

### Only model-checked

All liveness (`EveryCallbackCalled`, `ShutdownCloses`, `CallReturns`, and the fairness
that `AsyncContract!Spec` asks for), which is out of reach of the prover.  `Command`
and `Fragment`: CRC16 and the search of the command table are recursive operators
over bytes, the merging of replies is a fold and the arguments of a sub-command a
`SelectSeq`, about which the prover knows nothing.

## Not modelled

- Memory exhaustion, except in `Topology` and `Dict`.  In the clients it is one
  more way for a call to be refused, and what it leaves behind is not claimed.
- TLS.  Its failure is taken for a failure to connect, also on a connection made
  again, where the code sets the error of the context and goes on (1983): this
  assumes of hiredis that a failed TLS set-up leaves an error on the connection,
  which the callers check (2261).  `AUTH` is modelled in the blocking
  client and the pipeline, where its failure on a new connection is a failure to
  connect and on a connection made again is ignored; the asynchronous client sends
  it ahead of the commands and looks at no reply to it, so that a refusal shows in
  the replies to the commands.
- Replicas and open slots outside the parsers; no operation routes by them.
- The application's connect and disconnect callbacks and the event callback, whose
  calls into the library are those of any callback.
- Lists (`adlist.c`), arrays (`hiarray.c`) and `hiutil.c`: plain containers and number
  conversion, which the models have as sequences and integers.
- The adapters, which hand over to the ones of hiredis, and the setters that store
  an option.
- The text of commands, replies and error messages beyond the bytes that decide
  about routing.
- Servers that do not answer as Redis servers do: a redirect of a command names
  the command's slot, and replies on a connection come in the order of the
  requests.

## Plan

1. `Fragment` and `Command` with recursive functions in place of folds and recursive
   operators, and a proof that a multi-key command is that of one server.
2. `AsyncClient` with addresses as an abstraction of the objects of `Slotmap`, shown as
   a refinement.
3. `Topology` composed with `Slotmap` in place of the set `Replies`, which the proof
   of `ReplyKept` now allows.
