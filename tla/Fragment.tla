------------------------------ MODULE Fragment ------------------------------
(***************************************************************************)
(* redisClusterFormattedCommand of the blocking client, from the formatted *)
(* command to the reply.  The command is parsed and its keys are hashed    *)
(* (Command).  One with keys in one slot is sent as it is; MGET, MSET, DEL *)
(* and EXISTS over several slots are split by command_pre_fragment into a  *)
(* sub-command per slot, these run one after the other, and                *)
(* command_post_fragment puts the reply together.  The reference is what   *)
(* one server holding all the keys would do.                               *)
(***************************************************************************)
EXTENDS Command, FiniteSets, FiniteSetsExt

CONSTANTS
  Key,       \* keys of the store
  Value,     \* values
  Formatted  \* formatted commands, as records [multi, narg, args]

Types == {"MGET", "MSET", "DEL", "EXISTS"}

ASSUME FragmentAssumption == NULL \notin Value

VARIABLES
  store,    \* what the servers hold
  before,   \* what they held when the command was issued
  cmd,      \* the formatted command
  type,     \* command->type
  args,     \* the keys in order, each with the value that follows it and
            \* the slot of its sub-command (frag_seq)
  slot,     \* command->slot_num, NULL unless the command is sent whole
  subs,     \* slots of the sub-commands still to run
  replies,  \* sub_command->reply by slot, NULL for one of another type than
            \* the command has
  pc,
  reply     \* what the call returns

vars == <<store, before, cmd, type, args, slot, subs, replies, pc, reply>>

Init ==
  /\ store \in [Key -> Value \union {NULL}]
  /\ before = store
  /\ cmd \in Formatted
  /\ type = NULL
  /\ args = << >>
  /\ slot = NULL
  /\ subs = << >>
  /\ replies = << >>
  /\ pc = "format"
  /\ reply = NULL

-----------------------------------------------------------------------------
(* What a server makes of a formatted command, and the positions of the    *)
(* keys Redis documents: the reference for the parser.                     *)
Named(c) ==
  LET I == {i \in DOMAIN redis_commands :
              /\ to_upper(c.args[1]) = redis_commands[i].name
              /\ redis_commands[i].subname = NULL
                   \/ (c.narg > 1 /\ to_upper(c.args[2]) = redis_commands[i].subname)}
  IN  IF I = {} THEN NULL ELSE redis_commands[CHOOSE i \in I : TRUE]

WellFormed(c) == c.multi /\ c.narg >= 1 /\ c.narg = Len(c.args)

StreamsAt(c) ==
  {i \in startfrom(Named(c).type) .. c.narg - 2 :
     /\ to_upper(c.args[i + 1]) = STREAMS
     /\ \A j \in startfrom(Named(c).type) .. i - 1 : to_upper(c.args[j + 1]) # STREAMS}

KeyPositions(c) ==
  LET t == Named(c)
  IN  CASE t.type \in {"MGET", "DEL", "EXISTS"} -> 1 .. c.narg - 1
        [] t.type = "MSET" -> {i \in 1 .. c.narg - 1 : i % 2 = 1}
        [] t.firstkeymethod = "UNKNOWN" -> {i + 1 : i \in StreamsAt(c)}
        [] t.firstkeymethod = "KEYNUM" ->
             IF c.args[t.firstkeypos + 1] = Zero THEN {} ELSE {t.firstkeypos + 1}
        [] t.firstkeymethod = "INDEX" /\ t.type \notin Types -> {t.firstkeypos}
        [] t.firstkeymethod = "NONE" -> {}

(* A command the server would take.                                        *)
Valid(c) ==
  /\ WellFormed(c) /\ Named(c) # NULL
  /\ LET n == Named(c).arity IN c.narg \in IF n >= 0 THEN {n} ELSE -n .. c.narg
  /\ Named(c).type = "MSET" => c.narg % 2 = 1
  /\ \A i \in KeyPositions(c) : i < c.narg

Pairs(c) ==
  LET t == Named(c).type
  IN  IF t = "MSET"
      THEN [i \in 1 .. (c.narg - 1) \div 2 |->
              [key |-> c.args[2 * i], value |-> c.args[2 * i + 1]]]
      ELSE IF t \in Types THEN [i \in 1 .. c.narg - 1 |-> [key |-> c.args[i + 1], value |-> NULL]]
      ELSE << >>

(* One server: the reply to a command and the store after it.              *)
Reply(t, a, st) ==
  CASE t = "MGET"   -> [i \in DOMAIN a |-> st[a[i].key]]
    [] t = "DEL"    -> Cardinality({q \in Key : st[q] # NULL /\ \E i \in DOMAIN a : a[i].key = q})
    [] t = "EXISTS" -> Cardinality({i \in DOMAIN a : st[a[i].key] # NULL})
    [] t \notin {"MGET", "DEL", "EXISTS"} -> "OK"

Effect(t, a, st) ==
  [q \in Key |->
     LET I == {i \in DOMAIN a : a[i].key = q}
     IN  IF I = {} \/ t \notin {"MSET", "DEL"} THEN st[q]
         ELSE IF t = "DEL" THEN NULL
         ELSE a[CHOOSE i \in I : \A j \in I : j <= i].value]

-----------------------------------------------------------------------------
(* Mutant: only the first key of a slot goes into its sub-command.         *)
SubArgs_First(s) ==
  LET all == SelectSeq(args, LAMBDA x : x.slot = s)
  IN  SubSeq(all, 1, IF all = << >> THEN 0 ELSE 1)

(* The arguments of the sub-command of a slot, in the order of the command *)
(* (frag_seq leads from a key back to its sub-command).                    *)
SubArgs(s) == SelectSeq(args, LAMBDA x : x.slot = s)

Return(r) == reply' = r /\ pc' = "done"

(* command_pre_fragment: sub-commands in the order of the slots; a single  *)
(* one is dropped, and the command is sent as it is.                       *)
command_pre_fragment ==
  LET used == {args'[i].slot : i \in DOMAIN args'}
  IN  IF Cardinality(used) = 1
      THEN slot' \in used /\ pc' = "whole" /\ UNCHANGED <<subs, replies>>
      ELSE /\ subs' = SetToSortSeq(used, <)
           /\ replies' = [s \in used |-> NULL]
           /\ pc' = "run"
           /\ UNCHANGED slot

(* command_format_by_slot: the command is parsed; one that cannot be, or   *)
(* has no key, is refused, and so is every command when memory runs out.   *)
(* One key gives the slot, several go to command_pre_fragment.             *)
command_format_by_slot ==
  LET p == redis_parse_cmd(cmd)
      arg(i) == cmd.args[i + 1]
  IN  /\ pc = "format"
      /\ \/ /\ p.result # "CMD_PARSE_OK" \/ p.keys = << >>
            /\ Return([kind |-> "refused"])
            /\ UNCHANGED <<type, args, slot, subs, replies>>
         \/ /\ Return([kind |-> "null"])
            /\ UNCHANGED <<type, args, slot, subs, replies>>
         \/ /\ p.keys # << >>
            /\ type' = p.type
            /\ args' = [i \in DOMAIN p.keys |->
                          [key |-> arg(p.keys[i]),
                           value |-> IF p.type = "MSET" THEN arg(p.keys[i] + 1) ELSE NULL,
                           slot |-> keyHashSlot(arg(p.keys[i]))]]
            /\ IF Len(p.keys) = 1
               THEN /\ slot' = args'[1].slot /\ pc' = "whole"
                    /\ UNCHANGED <<subs, replies>>
               ELSE command_pre_fragment
            /\ UNCHANGED reply
      /\ UNCHANGED <<store, before, cmd>>

(* The command as it was given goes to the server of its slot; a reply may *)
(* be lost after the server has run it.                                    *)
ExecuteWhole ==
  LET t == Named(cmd).type
  IN  /\ pc = "whole"
      /\ \/ /\ store' = Effect(t, Pairs(cmd), store)
            /\ Return([kind |-> "ok", value |-> Reply(t, Pairs(cmd), store)])
         \/ Return([kind |-> "error"]) /\ UNCHANGED store
         \/ Return([kind |-> "null"]) /\ store' \in {store, Effect(t, Pairs(cmd), store)}
      /\ UNCHANGED <<before, cmd, type, args, slot, subs, replies>>

(* redisClusterFormattedCommand runs the next sub-command; an error reply  *)
(* or none (lost, perhaps, after the server has run it) ends the command,  *)
(* whatever has been done already.                                         *)
ExecuteSub ==
  /\ pc = "run" /\ subs # << >>
  /\ LET s == Head(subs)
     IN  \/ /\ \/ /\ store' = Effect(type, SubArgs(s), store)
                  /\ replies' = [replies EXCEPT ![s] = Reply(type, SubArgs(s), store)]
               \/ UNCHANGED <<store, replies>>
            /\ subs' = Tail(subs)
            /\ UNCHANGED <<pc, reply>>
         \/ /\ \/ Return([kind |-> "error"]) /\ UNCHANGED store
               \/ /\ Return([kind |-> "null"])
                  /\ store' \in {store, Effect(type, SubArgs(s), store)}
            /\ UNCHANGED <<subs, replies>>
  /\ UNCHANGED <<before, cmd, type, args, slot>>

(* Mutant: elements are taken from the front.                              *)
MergeMget_Front ==
  LET Take(x, acc) ==
        LET s == x.slot
            r == acc.left[s]
        IN  [left |-> [acc.left EXCEPT ![s] = Tail(r)],
             out |-> <<Head(r)>> \o acc.out]
  IN  FoldRight(Take, args, [left |-> replies, out |-> << >>]).out

(* The last element of the reply of a slot is taken off for the last key   *)
(* of the slot, and so on towards the first.                               *)
MergeMget ==
  LET Take(x, acc) ==
        LET s == x.slot
            r == acc.left[s]
        IN  [left |-> [acc.left EXCEPT ![s] = SubSeq(r, 1, Len(r) - 1)],
             out |-> <<r[Len(r)]>> \o acc.out]
  IN  FoldRight(Take, args, [left |-> replies, out |-> << >>]).out

command_post_fragment ==
  /\ pc = "run" /\ subs = << >>
  /\ IF \E s \in DOMAIN replies : replies[s] = NULL
     THEN Return([kind |-> "null"])
     ELSE Return([kind |-> "ok",
                  value |-> CASE type = "MGET" -> MergeMget
                              [] type = "MSET" -> "OK"
                              [] type \in {"DEL", "EXISTS"} ->
                                   MapThenSumSet(LAMBDA s : replies[s], DOMAIN replies)])
  /\ UNCHANGED <<store, before, cmd, type, args, slot, subs, replies>>

Next ==
  \/ command_format_by_slot
  \/ ExecuteWhole
  \/ ExecuteSub
  \/ command_post_fragment

Spec == Init /\ [][Next]_vars

-----------------------------------------------------------------------------
(* A reply that is no error is the reply, and leaves the store, of one     *)
(* server: values in the order of the keys, repeated keys included, counts *)
(* over all slots, the last value of a repeated key (hircluster.c          *)
(* 2457-2509, 2792-2813).                                                  *)
SameAsOneServer ==
  pc = "done" /\ reply.kind = "ok" =>
    /\ reply.value = Reply(Named(cmd).type, Pairs(cmd), before)
    /\ store = Effect(Named(cmd).type, Pairs(cmd), before)

(* A command that fails half-way has run whole sub-commands: the keys of a *)
(* slot show all of its effect or none (hircluster.c 2977-2988).           *)
SlotsAllOrNothing ==
  pc = "done" =>
  LET after == Effect(type, args, before)
      of(s) == {args[i].key : i \in {i \in DOMAIN args : args[i].slot = s}}
  IN  /\ \A s \in {args[i].slot : i \in DOMAIN args} :
            \E st \in {before, after} : \A q \in of(s) \cap Key : store[q] = st[q]
      /\ \A q \in Key : (\A i \in DOMAIN args : args[i].key # q) => store[q] = before[q]

(* The binary search with its two keys, its case folding and its rule for  *)
(* names that are prefixes of others ("HGETALL" vs "HGET", command.c:108)  *)
(* finds the command with exactly these names and no other, in the sorted  *)
(* rows of the table that the instance has.                                *)
LookupIsExact ==
  pc = "format" /\ WellFormed(cmd) =>
    redis_lookup_cmd(cmd.args[1], IF cmd.narg > 1 THEN cmd.args[2] ELSE NULL) = Named(cmd)

(* The part of a key that is hashed: what is between the first '{' and the *)
(* first '}' after it, when that is something.                             *)
HashTag(k) ==
  LET T == {t \in (1 .. Len(k)) \X (1 .. Len(k)) :
              /\ t[1] + 1 < t[2] /\ k[t[1]] = LBrace /\ k[t[2]] = RBrace
              /\ \A i \in 1 .. t[1] - 1 : k[i] # LBrace
              /\ \A i \in t[1] + 1 .. t[2] - 1 : k[i] # RBrace}
  IN  IF T = {} THEN k ELSE LET t == CHOOSE t \in T : TRUE IN SubSeq(k, t[1] + 1, t[2] - 1)

HashTagSlot(k) == crc16(HashTag(k)) % REDIS_CLUSTER_SLOTS

(* The keyword of XREAD or XREADGROUP is at the first position it may      *)
(* have, which the parser does not look at.                                *)
KeywordFirst(c) ==
  /\ Valid(c) /\ Named(c).firstkeymethod = "UNKNOWN"
  /\ startfrom(Named(c).type) \in StreamsAt(c)

SlotsOfKeys(c) == {HashTagSlot(c.args[i + 1]) : i \in KeyPositions(c)}

(* What is sent, whole or in parts, goes where the hash tags of the keys   *)
(* Redis documents for the command send it: the parser takes no other      *)
(* argument for a key, and misses none of a command that is split          *)
(* (command.c 327-383, hircluster.c 176-198), save for a STREAMS keyword   *)
(* at its first position (StreamsKeywordFound).                            *)
RoutedByItsKeys ==
  /\ pc = "whole" /\ ~KeywordFirst(cmd) => SlotsOfKeys(cmd) = {slot}
  /\ pc = "run" /\ Len(subs) = Cardinality(DOMAIN replies) =>
                   /\ SlotsOfKeys(cmd) = DOMAIN replies
                   /\ \A i \in DOMAIN args : HashTagSlot(args[i].key) = args[i].slot

(* A command is refused exactly when a server would not take it or it has  *)
(* no key that gives a slot (command.c 266-324, hircluster.c:2874); MIGRATE*)
(* with its keys at the end is documented as not implemented               *)
(* (command.c:354), and STREAMS at its first position is missed.           *)
RefusedWithoutKeys ==
  /\ pc \in {"whole", "run"} => Valid(cmd) /\ KeyPositions(cmd) # {}
  /\ pc = "done" /\ reply.kind = "refused" =>
       \/ ~Valid(cmd) \/ KeyPositions(cmd) = {}
       \/ Named(cmd).type = "MIGRATE" /\ cmd.args[4] = << >>
       \/ KeywordFirst(cmd)

(* "Skip forward to the 'startfrom' arg index, then search for the         *)
(* keyword" (command.c:306): STREAMS is found wherever it may stand, and   *)
(* the command goes to the slot of the key after it.                       *)
StreamsKeywordFound ==
  KeywordFirst(cmd) =>
    /\ pc = "whole" => SlotsOfKeys(cmd) = {slot}
    /\ pc = "done" => reply.kind # "refused"
=============================================================================
