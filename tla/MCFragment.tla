----------------------------- MODULE MCFragment -----------------------------
(* A small instance of Fragment: a and {a}b share a slot, c has its own.   *)
EXTENDS Fragment, TLC

CONSTANTS MaxKeys, MaxPairs  \* bounds on the keys of MGET; of DEL, EXISTS, MSET

(* Command names.                                                          *)
GET == <<71, 69, 84>>
GETDEL == GET \o <<68, 69, 76>>
MGET == <<77, 71, 69, 84>>
MSET == <<77, 83, 69, 84>>
DEL == <<68, 69, 76>>
EXISTS == <<69, 88, 73, 83, 84, 83>>
EVAL == <<69, 86, 65, 76>>
MIGRATE == <<77, 73, 71, 82, 65, 84, 69>>
OBJECT == <<79, 66, 74, 69, 67, 84>>
FREQ == <<70, 82, 69, 81>>
HELP == <<72, 69, 76, 80>>
PING == <<80, 73, 78, 71>>
XREAD == <<88, 82, 69, 65, 68>>
XREADGROUP == XREAD \o <<71, 82, 79, 85, 80>>

Row(t, name, subname, arity, method, pos) ==
  [type |-> t, name |-> name, subname |-> subname, arity |-> arity,
   firstkeymethod |-> method, firstkeypos |-> pos]

(* Rows of cmddef.h, in its order.                                         *)
MCredis_commands ==
  << Row("DEL", DEL, NULL, -2, "INDEX", 1),
     Row("EVAL", EVAL, NULL, -3, "KEYNUM", 2),
     Row("EXISTS", EXISTS, NULL, -2, "INDEX", 1),
     Row("GET", GET, NULL, 2, "INDEX", 1),
     Row("GETDEL", GETDEL, NULL, 2, "INDEX", 1),
     Row("MGET", MGET, NULL, -2, "INDEX", 1),
     Row("MIGRATE", MIGRATE, NULL, -6, "INDEX", 3),
     Row("MSET", MSET, NULL, -3, "INDEX", 1),
     Row("OBJECT_FREQ", OBJECT, FREQ, 3, "INDEX", 2),
     Row("OBJECT_HELP", OBJECT, HELP, 2, "NONE", 0),
     Row("PING", PING, NULL, -1, "NONE", 0),
     Row("XREAD", XREAD, NULL, -4, "UNKNOWN", 0),
     Row("XREADGROUP", XREADGROUP, NULL, -7, "UNKNOWN", 0) >>

a == <<97>>
ab == <<LBrace, 97, RBrace, 98>>
c == <<99>>
one == <<49>>
two == <<50>>
MCKey == {a, ab, c}
MCValue == {one, two}

Cmd(s) == [multi |-> TRUE, narg |-> Len(s), args |-> s]
lower(s) == [i \in DOMAIN s |-> s[i] + 32]
SeqsUpTo(S, n) == UNION {[1 .. m -> S] : m \in 1 .. n}

VectorCommands ==
  {Cmd(<<MGET>> \o ks) : ks \in SeqsUpTo(MCKey, MaxKeys)}
    \union {Cmd(<<name>> \o ks) : name \in {DEL, EXISTS}, ks \in SeqsUpTo(MCKey, MaxPairs)}
PairCommands ==
  {Cmd(<<MSET>> \o [i \in 1 .. 2 * Len(kvs) |-> kvs[(i + 1) \div 2][2 - (i % 2)]]) :
     kvs \in SeqsUpTo(MCKey \X MCValue, MaxPairs)}

(* Keys with braces in all places.                                         *)
BraceKeys == SeqsUpTo({LBrace, 97, RBrace}, 4)

S == <<115>>  \* a key that is a prefix of the keyword
OtherCommands ==
  {Cmd(<<GET, k>>) : k \in BraceKeys}
    \union {Cmd(s) : s \in
      { << << >> >>, <<GET>>, <<SubSeq(GET, 1, 2), a>>, <<GET, a, a>>, <<lower(GET), a>>,
        <<GETDEL, a>>, <<SubSeq(GETDEL, 1, 5), a>>, <<lower(MGET), a, c>>,
        <<MGET>>, <<MSET, a>>, <<MSET, a, one, c>>, <<PING>>, <<PING, a>>,
        <<OBJECT>>, <<OBJECT, HELP>>, <<OBJECT, lower(FREQ), a>>, <<OBJECT, FREQ>>,
        <<OBJECT, SubSeq(FREQ, 1, 3), a>>, <<OBJECT, a, a>>,
        <<EVAL, one, Zero>>, <<EVAL, one, Zero, a>>, <<EVAL, one, one>>,
        <<EVAL, one, one, a>>, <<EVAL, one, two, a, ab>>,
        <<MIGRATE, one, two, c, Zero, one>>, <<MIGRATE, one, two, << >>, Zero, one>>,
        <<XREAD, one, two, STREAMS, a, Zero>>, <<XREAD, one, two, lower(STREAMS), S, Zero>>,
        <<XREAD, one, two, a, Zero>>, <<XREAD, one, two, STREAMS>>,
        <<XREAD, STREAMS, a, Zero>>, <<XREAD, STREAMS, S, Zero>>,
        <<XREADGROUP, one, STREAMS, STREAMS, two, one, STREAMS, c, Zero>>,
        <<XREADGROUP, one, two, one, STREAMS, a, Zero>> }}
    \union { [multi |-> FALSE, narg |-> 2, args |-> <<GET, a>>],
             [multi |-> TRUE, narg |-> 0, args |-> <<GET, a>>],
             [multi |-> TRUE, narg |-> 1, args |-> << >>],
             [multi |-> TRUE, narg |-> 3, args |-> <<MGET, a>>],
             [multi |-> TRUE, narg |-> 2, args |-> <<MGET>>],
             [multi |-> TRUE, narg |-> 5, args |-> <<MSET, a, one, c>>] }

MCFormatted == VectorCommands \union PairCommands \union OtherCommands

(* "Output for "123456789" : 31C3" (crc16.c).                              *)
ASSUME CRCCheckValue == crc16([i \in 1 .. 9 |-> 48 + i]) = 12739
=============================================================================
