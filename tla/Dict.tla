-------------------------------- MODULE Dict --------------------------------
(***************************************************************************)
(* The hash table of dict.c: chained buckets, a table that starts at       *)
(* DICT_HT_INITIAL_SIZE and doubles when it is full, and the iterator that *)
(* keeps an index into the table and two entry pointers.  There is no      *)
(* operation that removes an entry; a table goes away as a whole.          *)
(*                                                                         *)
(* An entry is named by its key.  A chain is a sequence of keys, its head  *)
(* first, and the successor of an entry is read from its chain, so that    *)
(* a pointer saved before a rehash is followed along the new chain.        *)
(***************************************************************************)
EXTENDS Integers, Sequences, Functions, Flatten

CONSTANTS
  Key,                   \* the strings used as keys, as sequences of bytes
  DICT_HT_INITIAL_SIZE,  \* size of the first table
  NULL

(* Where an addition may run out of memory: not at all, at the table of an *)
(* expansion, at the entry.                                                *)
OOM == {"none", "table", "entry"}

ASSUME DictAssumption ==
  /\ Key \subseteq Seq(0 .. 255)
  /\ DICT_HT_INITIAL_SIZE \in Nat \ {0}
  /\ \E k \in 0 .. 8 : DICT_HT_INITIAL_SIZE = 2^k
  /\ NULL \notin Key

(* Bernstein's hash: h * 33 + c over the bytes.  The code computes it in   *)
(* 32 bits; the low 24 are kept here, and the mask of a table takes fewer. *)
dictGenHashFunction(buf) ==
  LET hash[i \in 0 .. Len(buf)] ==
        IF i = 0 THEN 5381 ELSE (hash[i - 1] * 33 + buf[i]) % 2^24
  IN hash[Len(buf)]

dictReset == [size |-> 0, used |-> 0, table |-> <<>>]

Buckets(ht) == 0 .. ht.size - 1

dictSize(ht) == ht.used

DictKeys(ht) == UNION {Range(ht.table[i]) : i \in Buckets(ht)}

(* The bucket of a key: the table size is a power of two.                  *)
dictHash(key, size) == dictGenHashFunction(key) % size

(* i of _dictNextPower after k rounds, for k up to n: it starts at the     *)
(* initial size and is doubled in each.                                    *)
Doubled(n) ==
  LET i[k \in 0 .. n] == IF k = 0 THEN DICT_HT_INITIAL_SIZE ELSE 2 * i[k - 1]
  IN i

(* The first i that is not below size; it takes less than size rounds.     *)
dictNextPower(size) ==
  LET i == Doubled(size)
  IN i[CHOOSE k \in 0 .. size : i[k] >= size /\ \A j \in 0 .. k - 1 : i[j] < size]

(* The entries in the order of the table, as both dictExpand and dictNext  *)
(* come to them: bucket by bucket, and each chain from its head.           *)
InOrder(ht) == FlattenSeq([i \in 1 .. ht.size |-> ht.table[i - 1]])

(* An entry is put on the head of the chain of its bucket.                 *)
Push(table, key, size) ==
  [table EXCEPT ![dictHash(key, size)] = <<key>> \o @]

(* Mutant: entries keep their bucket when the table grows.                 *)
dictExpand_SameBucket(ht, size) ==
  LET realsize == dictNextPower(size)
  IN [size |-> realsize, used |-> ht.used,
      table |-> [h \in 0 .. realsize - 1 |->
                   IF h < ht.size THEN ht.table[h] ELSE <<>>]]

(* Every entry is pushed on the head of its new bucket, one by one: what   *)
(* lands in a bucket is reversed.                                          *)
dictExpand(ht, size) ==
  LET realsize == dictNextPower(size)
      he == InOrder(ht)
      table[j \in 0 .. Len(he)] ==
        IF j = 0 THEN [h \in 0 .. realsize - 1 |-> <<>>]
        ELSE Push(table[j - 1], he[j], realsize)
  IN [size |-> realsize, used |-> ht.used, table |-> table[Len(he)]]

dictNeedsExpand(ht) == ht.size = 0 \/ ht.used = ht.size

dictExpandIfNeeded(ht) ==
  IF ht.size = 0 THEN dictExpand(ht, DICT_HT_INITIAL_SIZE)
  ELSE IF ht.used = ht.size THEN dictExpand(ht, ht.size * 2)
  ELSE ht

dictFind(ht, key) ==
  /\ ht.size # 0
  /\ key \in Range(ht.table[dictHash(key, ht.size)])

(* Mutant: the new entry takes the place of the chain.                     *)
dictAdd_Replaces(ht, key, oom) ==
  LET failed == dictNeedsExpand(ht) /\ oom = "table"
      n == IF failed THEN ht ELSE dictExpandIfNeeded(ht)
      h == dictHash(key, n.size)
  IN IF failed \/ dictFind(n, key) \/ oom = "entry"
     THEN [ht |-> n, ok |-> FALSE]
     ELSE [ht |-> [n EXCEPT !.table[h] = <<key>>,
                         !.used = @ + 1 - Len(n.table[h])],
           ok |-> TRUE]

(* The table after dictAdd, and whether the key was added.  The table is   *)
(* expanded before the key is looked for: it also grows when the key is    *)
(* there already, or when there is no memory for the entry.                *)
dictAdd(ht, key, oom) ==
  LET failed == dictNeedsExpand(ht) /\ oom = "table"
      n == IF failed THEN ht ELSE dictExpandIfNeeded(ht)
  IN IF failed \/ dictFind(n, key) \/ oom = "entry"
     THEN [ht |-> n, ok |-> FALSE]
     ELSE [ht |-> [size |-> n.size, used |-> n.used + 1,
                   table |-> Push(n.table, key, n.size)],
           ok |-> TRUE]

(* entry->next                                                             *)
NextEntry(ht, key) ==
  LET chain == ht.table[dictHash(key, ht.size)]
      p == CHOOSE i \in DOMAIN chain : chain[i] = key
  IN IF p < Len(chain) THEN chain[p + 1] ELSE NULL

dictInitIterator == [index |-> -1, entry |-> NULL, nextEntry |-> NULL]

(* Mutant: the index is not moved on past a bucket that is finished.       *)
dictNext_SameIndex(di, ht) ==
  LET rest == {i \in Buckets(ht) : i >= di.index /\ ht.table[i] # <<>>}
      b == CHOOSE i \in rest : \A j \in rest : i <= j
      At(i, e) == [index |-> i, entry |-> e, nextEntry |-> NextEntry(ht, e)]
  IN IF di.entry # NULL /\ di.nextEntry # NULL
     THEN At(di.index, di.nextEntry)
     ELSE IF rest # {} THEN At(b, Head(ht.table[b]))
     ELSE [di EXCEPT !.index = ht.size, !.entry = NULL]

(* The iterator after dictNext; its entry is what dictNext returns.  While *)
(* there is an entry the saved nextEntry is taken; without one the next    *)
(* bucket is tried, until one is not empty or the table ends.              *)
dictNext(di, ht) ==
  LET rest == {i \in Buckets(ht) : i > di.index /\ ht.table[i] # <<>>}
      b == CHOOSE i \in rest : \A j \in rest : i <= j
      At(i, e) == [index |-> i, entry |-> e, nextEntry |-> NextEntry(ht, e)]
  IN IF di.entry # NULL /\ di.nextEntry # NULL
     THEN At(di.index, di.nextEntry)
     ELSE IF rest # {} THEN At(b, Head(ht.table[b]))
     ELSE [di EXCEPT !.index = IF @ < ht.size THEN ht.size ELSE @ + 1,
                     !.entry = NULL]
=============================================================================
