------------------------------ MODULE Command -------------------------------
(***************************************************************************)
(* How a command finds its slot: the binary search of the command table,   *)
(* the positions of the keys among the arguments (command.c), the hash tag *)
(* of a key and its CRC16 (keyHashSlot, crc16.c).                          *)
(*                                                                         *)
(* Arguments are sequences of bytes.  The framing of the protocol is taken *)
(* off: a formatted command is the announced number of arguments (narg),   *)
(* whether it starts with '*' (multi), and the bulk strings that follow;   *)
(* redis_parse_bulk fails past the last of them.                           *)
(***************************************************************************)
EXTENDS Integers, Sequences, SequencesExt

CONSTANTS
  redis_commands,  \* the table of cmddef.h: a sequence of records with the
                   \* fields of cmddef
  NULL

REDIS_CLUSTER_SLOTS == 16384

-----------------------------------------------------------------------------
Xor(x, y) ==
  LET bit(i) == ((x \div 2^i + y \div 2^i) % 2) * 2^i
  IN  bit(0) + bit(1) + bit(2) + bit(3) + bit(4) + bit(5) + bit(6) + bit(7)
        + bit(8) + bit(9) + bit(10) + bit(11) + bit(12) + bit(13) + bit(14) + bit(15)

(* crc16: crc = (crc << 8) ^ crc16tab[(crc >> 8) ^ byte] in 16 bits, where *)
(* the table holds the remainders of the polynomial 0x1021.                *)
crc16tab(x) ==
  LET y == Xor(x, x \div 16)
  IN  Xor(Xor((y * 2^12) % 2^16, y * 2^5), y)

(* The value after n bytes.  The one before is bound by a set, not by LET: *)
(* TLC then evaluates it once.                                             *)
RECURSIVE Crc(_, _)
Crc(buf, n) ==
  IF n = 0 THEN 0
  ELSE CHOOSE x \in {Xor((crc * 2^8) % 2^16, crc16tab(Xor(crc \div 2^8, buf[n]))) :
                       crc \in {Crc(buf, n - 1)}} : TRUE

crc16(buf) == Crc(buf, Len(buf))

LBrace == 123
RBrace == 125

(* Index of the first byte c of key at or after position from, Len(key) + 1*)
(* when there is none: the loops of keyHashSlot.                           *)
FirstFrom(key, from, c) ==
  CHOOSE i \in from .. Len(key) + 1 :
    /\ i <= Len(key) => key[i] = c
    /\ \A j \in from .. i - 1 : key[j] # c

(* Mutant: the last brace that closes is the one that counts.              *)
keyHashSlot_LastBrace(key) ==
  LET s == FirstFrom(key, 1, LBrace)
      E == {e \in s + 1 .. Len(key) : key[e] = RBrace}
  IN  IF s > Len(key) \/ E = {} THEN crc16(key) % REDIS_CLUSTER_SLOTS
      ELSE crc16(SubSeq(key, s + 1, (CHOOSE e \in E : \A x \in E : x <= e) - 1))
             % REDIS_CLUSTER_SLOTS

keyHashSlot(key) ==
  LET s == FirstFrom(key, 1, LBrace)
      e == FirstFrom(key, s + 1, RBrace)
      hashed == IF s > Len(key) \/ e > Len(key) \/ e = s + 1
                THEN key ELSE SubSeq(key, s + 1, e - 1)
  IN  crc16(hashed) % REDIS_CLUSTER_SLOTS

-----------------------------------------------------------------------------
to_upper(arg) == [i \in DOMAIN arg |-> IF arg[i] \in 97 .. 122 THEN arg[i] - 32 ELSE arg[i]]

(* strncmp(name, arg, Len(arg)), made 1 for a name that goes on: -1, 0, 1. *)
Compare(name, arg) ==
  LET At(s, i) == IF i <= Len(s) THEN s[i] ELSE 0
      D == {i \in 1 .. Len(arg) : At(name, i) # arg[i]}
      d == CHOOSE i \in D : \A j \in D : i <= j
  IN  IF D # {} THEN IF At(name, d) < arg[d] THEN -1 ELSE 1
      ELSE IF Len(name) > Len(arg) THEN 1 ELSE 0

(* The binary search between left and right (0-based, as in the code);     *)
(* arg1 is NULL when the command has no arguments.                         *)
RECURSIVE Search(_, _, _, _)
Search(left, right, arg0, arg1) ==
  LET i == (left + right) \div 2
      c == redis_commands[i + 1]
      byname == Compare(c.name, to_upper(arg0))
      cmp == IF byname = 0 /\ c.subname # NULL
             THEN Compare(c.subname, to_upper(arg1)) ELSE byname
  IN  IF left > right THEN NULL
      ELSE IF byname = 0 /\ c.subname # NULL /\ arg1 = NULL THEN NULL
      ELSE IF cmp < 0 THEN Search(i + 1, right, arg0, arg1)
      ELSE IF cmp > 0 THEN Search(left, i - 1, arg0, arg1)
      ELSE c

(* Mutant: the last command of the table is never looked at.               *)
redis_lookup_cmd_NotLast(arg0, arg1) == Search(0, Len(redis_commands) - 2, arg0, arg1)

redis_lookup_cmd(arg0, arg1) == Search(0, Len(redis_commands) - 1, arg0, arg1)

redis_argx(type) == type \in {"EXISTS", "MGET", "DEL"}
redis_argkvx(type) == type = "MSET"

-----------------------------------------------------------------------------
STREAMS == <<83, 84, 82, 69, 65, 77, 83>>
Zero == <<48>>

(* What the parser finds: its result, the type of the command and, as      *)
(* 0-based argument positions, the keys.                                   *)
Failed == [result |-> "CMD_PARSE_ERROR", type |-> NULL, keys |-> << >>]
Found(info, keys) == [result |-> "CMD_PARSE_OK", type |-> info.type, keys |-> keys]

(* XREAD and XREADGROUP: the key follows the first argument that is a      *)
(* prefix of STREAMS (strncasecmp with the length of the argument), looked *)
(* for from the one after startfrom: argidx still names the argument       *)
(* before the one just parsed when it is compared.                         *)
startfrom(type) == IF type = "XREAD" THEN 1 ELSE 4

KeywordKey(info, cmd) ==
  LET I == {i \in startfrom(info.type) + 1 .. cmd.narg - 1 :
              i < Len(cmd.args) /\ IsPrefix(to_upper(cmd.args[i + 1]), STREAMS)}
      first == CHOOSE i \in I : \A j \in I : i <= j
  IN  IF info.type \notin {"XREAD", "XREADGROUP"} \/ I = {} THEN Failed
      ELSE IF first + 1 >= Len(cmd.args) THEN Failed
      ELSE Found(info, <<first + 1>>)

(* MGET, DEL, EXISTS and MSET: all keys.                                   *)
AllKeys(info, cmd) ==
  IF cmd.narg > Len(cmd.args) \/ (redis_argkvx(info.type) /\ cmd.narg % 2 = 0)
  THEN Failed
  ELSE IF redis_argkvx(info.type)
       THEN Found(info, [i \in 1 .. (cmd.narg - 1) \div 2 |-> 2 * i - 1])
       ELSE Found(info, [i \in 1 .. cmd.narg - 1 |-> i])

(* Every other command: the first key, at its position in the table or     *)
(* after the argument that says how many there are.  MIGRATE with an empty *)
(* key is not supported.                                                   *)
FirstKey(info, cmd) ==
  LET pos == info.firstkeypos
      keynum == info.firstkeymethod = "KEYNUM"
      key == IF keynum THEN pos + 1 ELSE pos
  IN  IF pos >= Len(cmd.args) THEN Failed
      ELSE IF keynum /\ IsPrefix(cmd.args[pos + 1], Zero) THEN Found(info, << >>)
      ELSE IF key >= Len(cmd.args) THEN Failed
      ELSE IF info.type = "MIGRATE" /\ cmd.args[key + 1] = << >> THEN Failed
      ELSE Found(info, <<key>>)

(* Mutant: more arguments than the command has are let through.            *)
ArityMatches_Min(info, narg) == narg >= IF info.arity >= 0 THEN info.arity ELSE -info.arity

(* A negative arity is the least number of arguments.                      *)
ArityMatches(info, narg) == IF info.arity >= 0 THEN narg = info.arity ELSE narg >= -info.arity

redis_parse_cmd(cmd) ==
  LET arg1 == IF cmd.narg > 1 THEN cmd.args[2] ELSE NULL
      info == redis_lookup_cmd(cmd.args[1], arg1)
  IN  IF ~cmd.multi \/ cmd.narg = 0 \/ Len(cmd.args) < 1 \/ (cmd.narg > 1 /\ Len(cmd.args) < 2)
      THEN Failed
      ELSE IF info = NULL THEN Failed
      ELSE IF ~ArityMatches(info, cmd.narg) THEN Failed
      ELSE CASE info.firstkeymethod = "NONE" -> Found(info, << >>)
             [] info.firstkeymethod # "NONE" /\ arg1 = NULL -> Failed
             [] info.firstkeymethod = "UNKNOWN" /\ arg1 # NULL -> KeywordKey(info, cmd)
             [] info.firstkeymethod \in {"INDEX", "KEYNUM"} /\ arg1 # NULL ->
                  IF redis_argx(info.type) \/ redis_argkvx(info.type)
                  THEN AllKeys(info, cmd) ELSE FirstKey(info, cmd)
=============================================================================
