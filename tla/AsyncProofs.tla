----------------------------- MODULE AsyncProofs ----------------------------
(***************************************************************************)
(* The safety properties of AsyncClient, for every number of addresses,    *)
(* slots, commands and retries, and that it implements AsyncContract.      *)
(*                                                                         *)
(* Inv is the inductive invariant.  The lemmas on the queues of callbacks  *)
(* say what appending and taking off the first entry do to it; the calls   *)
(* of the application and the life of a context keep it, and so do the     *)
(* replies to commands, the slotmap replies and the end of a context.      *)
(***************************************************************************)
EXTENDS AsyncClient, TLAPS

(* Entry x waits somewhere in the queues Q, and at one place at most.      *)
In(x, Q) == \E a \in Addr : \E j \in 1 .. Len(Q[a]) : Q[a][j] = x

Once(x, Q) ==
  \A a, b \in Addr : \A j \in 1 .. Len(Q[a]), k \in 1 .. Len(Q[b]) :
    Q[a][j] = x /\ Q[b][k] = x => a = b /\ j = k

(* ASKING is followed by a command of G, the ones sent again.              *)
AskingFollowed(Q, G) ==
  \A a \in Addr : \A j \in 1 .. Len(Q[a]) :
    Q[a][j] = "asking" => j + 1 <= Len(Q[a]) /\ Q[a][j + 1] \in G

(* The queues Q of contexts with states S, with last attempt l, when the   *)
(* commands of P are pending and those of G have been sent again.          *)
QueuesOK(Q, S, l, P, G) ==
  /\ Q \in [Addr -> Seq(Entries)]
  /\ Once("slotmap", Q) /\ (In("slotmap", Q) <=> l = "ongoing")
  /\ \A i \in Cmd : Once(i, Q) /\ (In(i, Q) <=> i \in P)
  /\ AskingFollowed(Q, G)
  /\ \A a \in Addr : Q[a] # << >> => S[a] # "none"

Pending  == {i \in Cmd : cmd[i].st = "pending"}
Repeated == {i \in Cmd : cmd[i].retry > 0}

(* The slot table stays within the nodes, and so do the contexts, save     *)
(* those about to be freed.                                                *)
TableOK == table \in [Slot -> nodes \union {NULL}]

Accounted ==
  \A a \in Addr : state[a] # "none" => a \in nodes \union doomed \union {cur}

(* After a crash a command may be pending that waits nowhere, and nothing  *)
(* more happens.                                                           *)
Inv ==
  /\ TypeOK /\ TableOK /\ Accounted
  /\ life # "crashed" => QueuesOK(queue, state, last, Pending, Repeated)
  /\ life = "crashed" => \E P \in SUBSET Cmd : QueuesOK(queue, state, last, P, Repeated)

-----------------------------------------------------------------------------
(* One entry is appended.                                                  *)
LEMMA PutFacts ==
  ASSUME NEW Q \in [Addr -> Seq(Entries)], NEW a \in Addr, NEW y \in Entries
  PROVE  /\ Put(Q, a, y) \in [Addr -> Seq(Entries)]
         /\ \A b \in Addr : b # a => Put(Q, a, y)[b] = Q[b]
         /\ Len(Q[a]) \in Nat
         /\ Len(Put(Q, a, y)[a]) = Len(Q[a]) + 1
         /\ Put(Q, a, y)[a][Len(Q[a]) + 1] = y
         /\ \A j \in 1 .. Len(Q[a]) : Put(Q, a, y)[a][j] = Q[a][j]
         /\ Put(Q, a, y)[a] # << >>
  <1>1. Q[a] \in Seq(Entries)
    BY Zenon
  <1>2. /\ Append(Q[a], y) \in Seq(Entries)
        /\ Len(Q[a]) \in Nat
        /\ Len(Append(Q[a], y)) = Len(Q[a]) + 1
        /\ Append(Q[a], y)[Len(Q[a]) + 1] = y
        /\ \A j \in 1 .. Len(Q[a]) : Append(Q[a], y)[j] = Q[a][j]
        /\ Append(Q[a], y) # << >>
    BY <1>1
  <1> QED
    BY <1>2, Zenon DEF Put

(* The first entry is taken off.                                           *)
LEMMA PopFacts ==
  ASSUME NEW Q \in [Addr -> Seq(Entries)], NEW a \in Addr, Q[a] # << >>
  PROVE  /\ Pop(Q, a) \in [Addr -> Seq(Entries)]
         /\ \A b \in Addr : b # a => Pop(Q, a)[b] = Q[b]
         /\ Len(Q[a]) \in Nat /\ Len(Q[a]) > 0 /\ Q[a][1] = Head(Q[a])
         /\ Len(Pop(Q, a)[a]) = Len(Q[a]) - 1
         /\ \A j \in 1 .. Len(Q[a]) - 1 : Pop(Q, a)[a][j] = Q[a][j + 1]
  <1>1. Q[a] \in Seq(Entries)
    BY Zenon
  <1>2. /\ Tail(Q[a]) \in Seq(Entries)
        /\ Len(Q[a]) \in Nat /\ Len(Q[a]) > 0 /\ Q[a][1] = Head(Q[a])
        /\ Len(Tail(Q[a])) = Len(Q[a]) - 1
        /\ \A j \in 1 .. Len(Q[a]) - 1 : Tail(Q[a])[j] = Q[a][j + 1]
    BY <1>1
  <1> QED
    BY <1>2, Zenon DEF Pop

LEMMA PutIn ==
  ASSUME NEW Q \in [Addr -> Seq(Entries)], NEW a \in Addr, NEW y \in Entries, NEW x
  PROVE  /\ In(x, Put(Q, a, y)) <=> In(x, Q) \/ x = y
         /\ Once(x, Q) /\ (x # y \/ ~In(x, Q)) => Once(x, Put(Q, a, y))
  <1> DEFINE R == Put(Q, a, y)
  <1> DEFINE n == Len(Q[a])
  <1>0. /\ \A b \in Addr : b # a => R[b] = Q[b]
        /\ n \in Nat /\ Len(R[a]) = n + 1 /\ R[a][n + 1] = y
        /\ \A j \in 1 .. n : R[a][j] = Q[a][j]
    BY PutFacts
  <1> HIDE DEF R, n
  <1>1. ASSUME NEW b \in Addr, NEW j \in 1 .. Len(R[b])
        PROVE  \/ j \in 1 .. Len(Q[b]) /\ R[b][j] = Q[b][j]
               \/ b = a /\ j = n + 1 /\ R[b][j] = y
    <2>1. CASE b # a
      BY <1>0, <1>1, <2>1, Zenon
    <2>2. CASE b = a
      BY <1>0, <1>1, <2>2 DEF n
    <2> QED
      BY <2>1, <2>2, Zenon
  <1>2. ASSUME NEW b \in Addr, NEW j \in 1 .. Len(Q[b])
        PROVE  j \in 1 .. Len(R[b]) /\ R[b][j] = Q[b][j]
    <2>1. CASE b # a
      BY <1>0, <1>2, <2>1, Zenon
    <2>2. CASE b = a
      BY <1>0, <1>2, <2>2 DEF n
    <2> QED
      BY <2>1, <2>2, Zenon
  <1>3. In(x, R) => In(x, Q) \/ x = y
    BY <1>1, Zenon DEF In
  <1>4. In(x, Q) => In(x, R)
    BY <1>2, Zenon DEF In
  <1>5. In(y, R)
    <2>1. n + 1 \in 1 .. Len(R[a])
      BY <1>0
    <2> QED
      BY <1>0, <2>1, Zenon DEF In
  <1>6. ASSUME Once(x, Q), x # y \/ ~In(x, Q)
        PROVE  Once(x, R)
    <2> SUFFICES ASSUME NEW b \in Addr, NEW c \in Addr, NEW j \in 1 .. Len(R[b]),
                        NEW k \in 1 .. Len(R[c]), R[b][j] = x, R[c][k] = x
                 PROVE  b = c /\ j = k
      BY DEF Once
    <2>1. CASE x # y
      <3>1. j \in 1 .. Len(Q[b]) /\ Q[b][j] = x /\ k \in 1 .. Len(Q[c]) /\ Q[c][k] = x
        BY <1>1, <2>1, Zenon
      <3> QED
        BY <1>6, <3>1 DEF Once
    <2>2. CASE ~In(x, Q)
      <3>1. b = a /\ j = n + 1
        BY <1>1, <2>2, Zenon DEF In
      <3>2. c = a /\ k = n + 1
        BY <1>1, <2>2, Zenon DEF In
      <3> QED
        BY <3>1, <3>2, Zenon
    <2> QED
      BY <1>6, <2>1, <2>2, Zenon
  <1> QED
    BY <1>3, <1>4, <1>5, <1>6, Zenon DEF R

LEMMA PopIn ==
  ASSUME NEW Q \in [Addr -> Seq(Entries)], NEW a \in Addr, Q[a] # << >>, NEW x
  PROVE  /\ x # Head(Q[a]) => (In(x, Pop(Q, a)) <=> In(x, Q))
         /\ In(Head(Q[a]), Q)
         /\ Once(x, Q) => Once(x, Pop(Q, a))
         /\ Once(x, Q) /\ x = Head(Q[a]) => ~In(x, Pop(Q, a))
  <1> DEFINE R == Pop(Q, a)
  <1> DEFINE n == Len(Q[a])
  <1>0. /\ \A b \in Addr : b # a => R[b] = Q[b]
        /\ n \in Nat /\ n > 0 /\ Q[a][1] = Head(Q[a])
        /\ Len(R[a]) = n - 1
        /\ \A j \in 1 .. n - 1 : R[a][j] = Q[a][j + 1]
    BY PopFacts, Zenon
  <1>a. \A b \in Addr : Len(Q[b]) \in Nat
    OBVIOUS
  <1> HIDE DEF R, n
  <1>1. ASSUME NEW b \in Addr, NEW j \in 1 .. Len(R[b])
        PROVE  \/ b # a /\ j \in 1 .. Len(Q[b]) /\ R[b][j] = Q[b][j]
               \/ b = a /\ j + 1 \in 1 .. Len(Q[b]) /\ R[b][j] = Q[b][j + 1]
    <2>1. CASE b # a
      BY <1>0, <1>1, <2>1, Zenon
    <2>2. CASE b = a
      BY <1>0, <1>1, <2>2 DEF n
    <2> QED
      BY <2>1, <2>2, Zenon
  <1>2. ASSUME NEW b \in Addr, NEW j \in 1 .. Len(Q[b]), Q[b][j] # Head(Q[a])
        PROVE  \E k \in 1 .. Len(R[b]) : R[b][k] = Q[b][j]
    <2>1. CASE b # a
      BY <1>0, <1>2, <2>1, Zenon
    <2>2. CASE b = a
      <3>1. j - 1 \in 1 .. Len(R[a]) /\ j - 1 \in 1 .. n - 1
        BY <1>0, <1>2, <2>2 DEF n
      <3>2. R[a][j - 1] = Q[a][j]
        BY <1>0, <3>1
      <3> QED
        BY <2>2, <3>1, <3>2, Zenon
    <2> QED
      BY <2>1, <2>2, Zenon
  <1>3. In(x, R) => In(x, Q)
    BY <1>1, Zenon DEF In
  <1>4. ASSUME x # Head(Q[a]), In(x, Q)
        PROVE  In(x, R)
    <2>1. PICK b \in Addr : \E j \in 1 .. Len(Q[b]) : Q[b][j] = x
      BY <1>4, Zenon DEF In
    <2>2. PICK j \in 1 .. Len(Q[b]) : Q[b][j] = x
      BY <2>1, Zenon
    <2>3. \E k \in 1 .. Len(R[b]) : R[b][k] = x
      BY <1>2, <1>4, <2>2, Zenon
    <2> QED
      BY <2>3, Zenon DEF In
  <1>5. 1 \in 1 .. Len(Q[a])
    BY <1>0 DEF n
  <1>6. In(Head(Q[a]), Q)
    BY <1>0, <1>5, Zenon DEF In
  <1>7. ASSUME Once(x, Q)
        PROVE  Once(x, R)
    <2> SUFFICES ASSUME NEW b \in Addr, NEW c \in Addr, NEW j \in 1 .. Len(R[b]),
                        NEW k \in 1 .. Len(R[c]), R[b][j] = x, R[c][k] = x
                 PROVE  b = c /\ j = k
      BY DEF Once
    <2> DEFINE d(e) == IF e = a THEN 1 ELSE 0
    <2>1. j + d(b) \in 1 .. Len(Q[b]) /\ Q[b][j + d(b)] = x
      BY <1>1
    <2>2. k + d(c) \in 1 .. Len(Q[c]) /\ Q[c][k + d(c)] = x
      BY <1>1
    <2>3. b = c /\ j + d(b) = k + d(c)
      BY <1>7, <2>1, <2>2 DEF Once
    <2>4. j \in Int /\ k \in Int
      OBVIOUS
    <2> QED
      BY <2>3, <2>4
  <1>8. ASSUME Once(x, Q), x = Head(Q[a]), In(x, R)
        PROVE  FALSE
    <2>1. PICK b \in Addr : \E j \in 1 .. Len(R[b]) : R[b][j] = x
      BY <1>8, Zenon DEF In
    <2>a. PICK j \in 1 .. Len(R[b]) : R[b][j] = x
      BY <2>1, Zenon
    <2>2. CASE b # a
      <3>1. j \in 1 .. Len(Q[b]) /\ Q[b][j] = x
        BY <1>1, <2>a, <2>2, Zenon
      <3> QED
        BY <1>0, <1>5, <1>8, <2>2, <3>1 DEF Once
    <2>3. CASE b = a
      <3>1. j + 1 \in 1 .. Len(Q[a]) /\ Q[a][j + 1] = x
        BY <1>1, <2>a, <2>3, Zenon
      <3>2. j + 1 = 1
        BY <1>0, <1>5, <1>8, <3>1 DEF Once
      <3> QED
        BY <3>2
    <2> QED
      BY <2>2, <2>3, Zenon
  <1> QED
    BY <1>3, <1>4, <1>6, <1>7, <1>8, Zenon DEF R

(* ASKING stays followed by its command.                                   *)
LEMMA PutAsking ==
  ASSUME NEW Q \in [Addr -> Seq(Entries)], NEW a \in Addr, NEW y \in Entries, NEW G,
         AskingFollowed(Q, G), y # "asking"
  PROVE  AskingFollowed(Put(Q, a, y), G)
  <1> DEFINE R == Put(Q, a, y)
  <1> DEFINE n == Len(Q[a])
  <1>0. /\ \A b \in Addr : b # a => R[b] = Q[b]
        /\ n \in Nat /\ Len(R[a]) = n + 1 /\ R[a][n + 1] = y
        /\ \A j \in 1 .. n : R[a][j] = Q[a][j]
    BY PutFacts
  <1> HIDE DEF R
  <1> SUFFICES ASSUME NEW b \in Addr, NEW j \in 1 .. Len(R[b]), R[b][j] = "asking"
               PROVE  j + 1 <= Len(R[b]) /\ R[b][j + 1] \in G
    BY Zenon DEF AskingFollowed, R
  <1>1. CASE b # a
    BY <1>0, <1>1, Zenon DEF AskingFollowed
  <1>2. CASE b = a
    <2>1. j \in 1 .. n /\ Q[a][j] = "asking"
      BY <1>0, <1>2
    <2>2. j + 1 <= n /\ Q[a][j + 1] \in G
      BY <2>1, Zenon DEF AskingFollowed
    <2>3. j + 1 \in 1 .. n
      BY <1>0, <2>1, <2>2
    <2> QED
      BY <1>0, <1>2, <2>2, <2>3
  <1> QED
    BY <1>1, <1>2, Zenon

LEMMA PopAsking ==
  ASSUME NEW Q \in [Addr -> Seq(Entries)], NEW a \in Addr, Q[a] # << >>, NEW G,
         AskingFollowed(Q, G)
  PROVE  AskingFollowed(Pop(Q, a), G)
  <1> DEFINE R == Pop(Q, a)
  <1> DEFINE n == Len(Q[a])
  <1>0. /\ \A b \in Addr : b # a => R[b] = Q[b]
        /\ n \in Nat /\ n > 0 /\ Len(R[a]) = n - 1
        /\ \A j \in 1 .. n - 1 : R[a][j] = Q[a][j + 1]
    BY PopFacts, Zenon
  <1> HIDE DEF R
  <1> SUFFICES ASSUME NEW b \in Addr, NEW j \in 1 .. Len(R[b]), R[b][j] = "asking"
               PROVE  j + 1 <= Len(R[b]) /\ R[b][j + 1] \in G
    BY Zenon DEF AskingFollowed, R
  <1>1. CASE b # a
    BY <1>0, <1>1, Zenon DEF AskingFollowed
  <1>2. CASE b = a
    <2>1. j + 1 \in 1 .. n /\ Q[a][j + 1] = "asking"
      BY <1>0, <1>2
    <2>2. (j + 1) + 1 <= n /\ Q[a][(j + 1) + 1] \in G
      BY <2>1, Zenon DEF AskingFollowed
    <2>3. j + 1 \in 1 .. n - 1
      BY <1>0, <2>1, <2>2
    <2> QED
      BY <1>0, <1>2, <2>2, <2>3
  <1> QED
    BY <1>1, <1>2, Zenon

(* ASKING and its command are appended together.                           *)
LEMMA PutBoth ==
  ASSUME NEW Q \in [Addr -> Seq(Entries)], NEW a \in Addr, NEW G, NEW i \in Cmd \intersect G,
         AskingFollowed(Q, G)
  PROVE  AskingFollowed(Put(Put(Q, a, "asking"), a, i), G)
  <1> DEFINE R == Put(Q, a, "asking")
  <1> DEFINE T == Put(R, a, i)
  <1> DEFINE n == Len(Q[a])
  <1>a. "asking" \in Entries /\ i \in Entries /\ i # "asking"
    BY AsyncAssumption, Zenon DEF Entries
  <1>0. /\ R \in [Addr -> Seq(Entries)]
        /\ \A b \in Addr : b # a => R[b] = Q[b]
        /\ n \in Nat /\ Len(R[a]) = n + 1
        /\ \A j \in 1 .. n : R[a][j] = Q[a][j]
    BY <1>a, PutFacts
  <1> HIDE DEF R
  <1>b. R \in [Addr -> Seq(Entries)]
    BY <1>0, Zenon
  <1>1. /\ \A b \in Addr : b # a => T[b] = R[b]
        /\ Len(T[a]) = Len(R[a]) + 1 /\ T[a][Len(R[a]) + 1] = i
        /\ \A j \in 1 .. Len(R[a]) : T[a][j] = R[a][j]
    BY <1>a, <1>b, PutFacts
  <1> HIDE DEF T
  <1> SUFFICES ASSUME NEW b \in Addr, NEW j \in 1 .. Len(T[b]), T[b][j] = "asking"
               PROVE  j + 1 <= Len(T[b]) /\ T[b][j + 1] \in G
    BY Zenon DEF AskingFollowed, R, T
  <1>2. CASE b # a
    BY <1>0, <1>1, <1>2 DEF AskingFollowed
  <1>3. CASE b = a /\ j \in 1 .. n
    <2>1. Q[a][j] = "asking"
      BY <1>0, <1>1, <1>3
    <2>2. j + 1 <= n /\ Q[a][j + 1] \in G
      BY <1>3, <2>1, Zenon DEF AskingFollowed
    <2>3. j + 1 \in 1 .. n
      BY <1>0, <1>3, <2>2
    <2> QED
      BY <1>0, <1>1, <1>3, <2>2, <2>3
  <1>4. CASE b = a /\ j = n + 1
    BY <1>0, <1>1, <1>4
  <1>5. CASE b = a /\ j = n + 2
    BY <1>a, <1>0, <1>1, <1>5
  <1> QED
    BY <1>0, <1>1, <1>2, <1>3, <1>4, <1>5

-----------------------------------------------------------------------------
(* What each use of a queue does to the commands that are pending and to   *)
(* the update that is awaited.                                             *)

LEMMA EntryFacts ==
  /\ "slotmap" \in Entries /\ "asking" \in Entries
  /\ \A i \in Cmd : i \in Entries /\ i # "slotmap" /\ i # "asking"
  BY AsyncAssumption, Zenon DEF Entries

(* A queue may be appended to while its context is open.                   *)
LEMMA PutOpen ==
  ASSUME NEW Q \in [Addr -> Seq(Entries)], NEW S, NEW a \in Addr, NEW y \in Entries,
         \A b \in Addr : Q[b] # << >> => S[b] # "none", S[a] # "none"
  PROVE  \A b \in Addr : Put(Q, a, y)[b] # << >> => S[b] # "none"
  <1>1. \A b \in Addr : b # a => Put(Q, a, y)[b] = Q[b]
    BY PutFacts
  <1> QED
    BY <1>1, Zenon

LEMMA PopOpen ==
  ASSUME NEW Q \in [Addr -> Seq(Entries)], NEW S, NEW a \in Addr, Q[a] # << >>,
         \A b \in Addr : Q[b] # << >> => S[b] # "none"
  PROVE  \A b \in Addr : Pop(Q, a)[b] # << >> => S[b] # "none"
  <1>1. \A b \in Addr : b # a => Pop(Q, a)[b] = Q[b]
    BY PopFacts, Zenon
  <1> QED
    BY <1>1, Zenon

(* A command is sent.                                                      *)
LEMMA PutCmd ==
  ASSUME NEW Q, NEW S, NEW l, NEW P, NEW G, QueuesOK(Q, S, l, P, G),
         NEW a \in Addr, S[a] # "none", NEW i \in Cmd, i \notin P
  PROVE  QueuesOK(Put(Q, a, i), S, l, P \union {i}, G)
  <1>0. Q \in [Addr -> Seq(Entries)] /\ i \in Entries /\ i # "slotmap" /\ i # "asking"
    BY EntryFacts, Zenon DEF QueuesOK
  <1>1. Put(Q, a, i) \in [Addr -> Seq(Entries)]
    BY <1>0, PutFacts, Zenon
  <1>2. /\ Once("slotmap", Put(Q, a, i))
        /\ In("slotmap", Put(Q, a, i)) <=> l = "ongoing"
    BY <1>0, PutIn, Zenon DEF QueuesOK
  <1>3. ASSUME NEW j \in Cmd
        PROVE  /\ Once(j, Put(Q, a, i))
               /\ In(j, Put(Q, a, i)) <=> j \in P \union {i}
    <2>1. Once(j, Q) /\ (In(j, Q) <=> j \in P)
      BY Zenon DEF QueuesOK
    <2> QED
      BY <1>0, <2>1, PutIn, Zenon
  <1>4. AskingFollowed(Put(Q, a, i), G)
    BY <1>0, PutAsking, Zenon DEF QueuesOK
  <1>5. \A b \in Addr : Put(Q, a, i)[b] # << >> => S[b] # "none"
    BY <1>0, PutOpen, Zenon DEF QueuesOK
  <1> QED
    BY <1>1, <1>2, <1>3, <1>4, <1>5, Zenon DEF QueuesOK

(* The reply to a command, or its end, is handled.                         *)
LEMMA PopCmd ==
  ASSUME NEW Q, NEW S, NEW l, NEW P, NEW G, QueuesOK(Q, S, l, P, G),
         NEW a \in Addr, Q[a] # << >>, NEW i \in Cmd, i = Head(Q[a])
  PROVE  QueuesOK(Pop(Q, a), S, l, P \ {i}, G) /\ i \in P
  <1>0. Q \in [Addr -> Seq(Entries)] /\ i # "slotmap" /\ i # "asking"
    BY EntryFacts, Zenon DEF QueuesOK
  <1>1. Pop(Q, a) \in [Addr -> Seq(Entries)]
    BY <1>0, PopFacts, Zenon
  <1>2. /\ Once("slotmap", Pop(Q, a))
        /\ In("slotmap", Pop(Q, a)) <=> l = "ongoing"
    BY <1>0, PopIn, Zenon DEF QueuesOK
  <1>3. ASSUME NEW j \in Cmd
        PROVE  /\ Once(j, Pop(Q, a))
               /\ In(j, Pop(Q, a)) <=> j \in P \ {i}
    <2>1. Once(j, Q) /\ (In(j, Q) <=> j \in P)
      BY Zenon DEF QueuesOK
    <2> QED
      BY <1>0, <2>1, PopIn, Zenon
  <1>4. AskingFollowed(Pop(Q, a), G)
    BY <1>0, PopAsking, Zenon DEF QueuesOK
  <1>5. \A b \in Addr : Pop(Q, a)[b] # << >> => S[b] # "none"
    BY <1>0, PopOpen, Zenon DEF QueuesOK
  <1>6. i \in P
    <2>1. In(i, Q)
      BY <1>0, PopIn, Zenon
    <2> QED
      BY <2>1, Zenon DEF QueuesOK
  <1> QED
    BY <1>1, <1>2, <1>3, <1>4, <1>5, <1>6, Zenon DEF QueuesOK

(* A slotmap query is sent.                                                *)
LEMMA PutSlotmap ==
  ASSUME NEW Q, NEW S, NEW l, NEW P, NEW G, QueuesOK(Q, S, l, P, G),
         NEW a \in Addr, S[a] # "none", l # "ongoing"
  PROVE  QueuesOK(Put(Q, a, "slotmap"), S, "ongoing", P, G)
  <1>0. Q \in [Addr -> Seq(Entries)] /\ "slotmap" \in Entries /\ "slotmap" # "asking"
    BY EntryFacts, Zenon DEF QueuesOK
  <1>1. Put(Q, a, "slotmap") \in [Addr -> Seq(Entries)]
    BY <1>0, PutFacts, Zenon
  <1>2. /\ Once("slotmap", Put(Q, a, "slotmap"))
        /\ In("slotmap", Put(Q, a, "slotmap"))
    BY <1>0, PutIn, Zenon DEF QueuesOK
  <1>3. ASSUME NEW j \in Cmd
        PROVE  /\ Once(j, Put(Q, a, "slotmap"))
               /\ In(j, Put(Q, a, "slotmap")) <=> j \in P
    <2>1. Once(j, Q) /\ (In(j, Q) <=> j \in P) /\ j # "slotmap"
      BY EntryFacts, Zenon DEF QueuesOK
    <2> QED
      BY <1>0, <2>1, PutIn, Zenon
  <1>4. AskingFollowed(Put(Q, a, "slotmap"), G)
    BY <1>0, PutAsking, Zenon DEF QueuesOK
  <1>5. \A b \in Addr : Put(Q, a, "slotmap")[b] # << >> => S[b] # "none"
    BY <1>0, PutOpen, Zenon DEF QueuesOK
  <1> QED
    BY <1>1, <1>2, <1>3, <1>4, <1>5, Zenon DEF QueuesOK

(* The reply to a slotmap query, or its end, is handled.                   *)
LEMMA PopSlotmap ==
  ASSUME NEW Q, NEW S, NEW l, NEW P, NEW G, QueuesOK(Q, S, l, P, G),
         NEW a \in Addr, Q[a] # << >>, Head(Q[a]) = "slotmap"
  PROVE  QueuesOK(Pop(Q, a), S, "recent", P, G)
  <1>0. Q \in [Addr -> Seq(Entries)]
    BY Zenon DEF QueuesOK
  <1>1. Pop(Q, a) \in [Addr -> Seq(Entries)]
    BY <1>0, PopFacts, Zenon
  <1>2. Once("slotmap", Pop(Q, a)) /\ ~In("slotmap", Pop(Q, a))
    BY <1>0, PopIn, Zenon DEF QueuesOK
  <1>3. ASSUME NEW j \in Cmd
        PROVE  /\ Once(j, Pop(Q, a))
               /\ In(j, Pop(Q, a)) <=> j \in P
    <2>1. Once(j, Q) /\ (In(j, Q) <=> j \in P) /\ j # "slotmap"
      BY EntryFacts, Zenon DEF QueuesOK
    <2> QED
      BY <1>0, <2>1, PopIn, Zenon
  <1>4. AskingFollowed(Pop(Q, a), G)
    BY <1>0, PopAsking, Zenon DEF QueuesOK
  <1>5. \A b \in Addr : Pop(Q, a)[b] # << >> => S[b] # "none"
    BY <1>0, PopOpen, Zenon DEF QueuesOK
  <1> QED
    BY <1>1, <1>2, <1>3, <1>4, <1>5, Zenon DEF QueuesOK

(* The reply to ASKING is handled.                                         *)
LEMMA PopAskingReply ==
  ASSUME NEW Q, NEW S, NEW l, NEW P, NEW G, QueuesOK(Q, S, l, P, G),
         NEW a \in Addr, Q[a] # << >>, Head(Q[a]) = "asking"
  PROVE  QueuesOK(Pop(Q, a), S, l, P, G)
  <1>0. Q \in [Addr -> Seq(Entries)]
    BY Zenon DEF QueuesOK
  <1>1. Pop(Q, a) \in [Addr -> Seq(Entries)]
    BY <1>0, PopFacts, Zenon
  <1>2. /\ Once("slotmap", Pop(Q, a))
        /\ In("slotmap", Pop(Q, a)) <=> l = "ongoing"
    BY <1>0, PopIn, Zenon DEF QueuesOK
  <1>3. ASSUME NEW j \in Cmd
        PROVE  /\ Once(j, Pop(Q, a))
               /\ In(j, Pop(Q, a)) <=> j \in P
    <2>1. Once(j, Q) /\ (In(j, Q) <=> j \in P) /\ j # "asking"
      BY EntryFacts, Zenon DEF QueuesOK
    <2> QED
      BY <1>0, <2>1, PopIn, Zenon
  <1>4. AskingFollowed(Pop(Q, a), G)
    BY <1>0, PopAsking, Zenon DEF QueuesOK
  <1>5. \A b \in Addr : Pop(Q, a)[b] # << >> => S[b] # "none"
    BY <1>0, PopOpen, Zenon DEF QueuesOK
  <1> QED
    BY <1>1, <1>2, <1>3, <1>4, <1>5, Zenon DEF QueuesOK

(* ASKING and the redirected command are sent.                             *)
LEMMA PutAsked ==
  ASSUME NEW Q, NEW S, NEW l, NEW P, NEW G, QueuesOK(Q, S, l, P, G),
         NEW a \in Addr, S[a] # "none", NEW i \in Cmd, i \notin P, i \in G
  PROVE  QueuesOK(Put(Put(Q, a, "asking"), a, i), S, l, P \union {i}, G)
  <1> DEFINE R == Put(Q, a, "asking")
  <1>0. /\ Q \in [Addr -> Seq(Entries)] /\ "asking" \in Entries
        /\ i \in Entries /\ i # "slotmap" /\ i # "asking"
    BY EntryFacts, Zenon DEF QueuesOK
  <1>1. R \in [Addr -> Seq(Entries)]
    BY <1>0, PutFacts, Zenon
  <1>2. Once("slotmap", R) /\ (In("slotmap", R) <=> l = "ongoing")
    BY <1>0, PutIn DEF QueuesOK
  <1>3. ASSUME NEW j \in Cmd
        PROVE  Once(j, R) /\ (In(j, R) <=> j \in P)
    <2>1. Once(j, Q) /\ (In(j, Q) <=> j \in P) /\ j # "asking"
      BY EntryFacts, Zenon DEF QueuesOK
    <2> QED
      BY <1>0, <2>1, PutIn, Zenon
  <1>4. \A b \in Addr : R[b] # << >> => S[b] # "none"
    BY <1>0, PutOpen, Zenon DEF QueuesOK
  <1>5. AskingFollowed(Put(R, a, i), G)
    BY <1>0, PutBoth, Zenon DEF QueuesOK
  <1> HIDE DEF R
  <1>6. Put(R, a, i) \in [Addr -> Seq(Entries)]
    BY <1>0, <1>1, PutFacts, Zenon
  <1>7. Once("slotmap", Put(R, a, i)) /\ (In("slotmap", Put(R, a, i)) <=> l = "ongoing")
    BY <1>0, <1>1, <1>2, PutIn
  <1>8. ASSUME NEW j \in Cmd
        PROVE  Once(j, Put(R, a, i)) /\ (In(j, Put(R, a, i)) <=> j \in P \union {i})
    <2>1. Once(j, R) /\ (In(j, R) <=> j \in P)
      BY <1>3, Zenon
    <2> QED
      BY <1>0, <1>1, <2>1, PutIn, Zenon
  <1>9. \A b \in Addr : Put(R, a, i)[b] # << >> => S[b] # "none"
    BY <1>0, <1>1, <1>4, PutOpen, Zenon
  <1> QED
    BY <1>5, <1>6, <1>7, <1>8, <1>9, Zenon DEF QueuesOK, R

(* Contexts may open, or close with an empty queue; the clock may move on; *)
(* and commands that wait nowhere may change.                              *)
LEMMA Reframed ==
  ASSUME NEW Q, NEW S, NEW S2, NEW l, NEW l2, NEW P, NEW G, NEW G2,
         QueuesOK(Q, S, l, P, G), l = "ongoing" <=> l2 = "ongoing",
         \A a \in Addr : S[a] # "none" /\ Q[a] # << >> => S2[a] # "none",
         G \subseteq Cmd, \A i \in P : i \in G => i \in G2
  PROVE  QueuesOK(Q, S2, l2, P, G2)
  <1>1. AskingFollowed(Q, G2)
    <2> SUFFICES ASSUME NEW a \in Addr, NEW j \in 1 .. Len(Q[a]), Q[a][j] = "asking"
                 PROVE  j + 1 <= Len(Q[a]) /\ Q[a][j + 1] \in G2
      BY Zenon DEF AskingFollowed
    <2>1. j + 1 <= Len(Q[a]) /\ Q[a][j + 1] \in G
      BY Zenon DEF QueuesOK, AskingFollowed
    <2>2. Len(Q[a]) \in Nat
      BY DEF QueuesOK
    <2>3. j + 1 \in 1 .. Len(Q[a])
      BY <2>1, <2>2
    <2>4. In(Q[a][j + 1], Q)
      BY <2>3, Zenon DEF In
    <2>5. Q[a][j + 1] \in P
      BY <2>1, <2>4, Zenon DEF QueuesOK
    <2> QED
      BY <2>1, <2>5, Zenon
  <1> QED
    BY <1>1, Zenon DEF QueuesOK

(* A context more leaves the queues as they were.                          *)
LEMMA NewContext ==
  ASSUME NEW Q, NEW S, NEW S2, NEW l, NEW P, NEW G,
         QueuesOK(Q, S, l, P, G), G \subseteq Cmd,
         \A a \in Addr : S[a] # "none" => S2[a] # "none"
  PROVE  QueuesOK(Q, S2, l, P, G)
  BY Reframed, Zenon

-----------------------------------------------------------------------------
(* An entry x is at place k of the queue of a.  It stays there when others *)
(* are appended, and moves up by one at most when another is taken off.    *)
Sits(x, Q, a, k) == k \in 1 .. Len(Q[a]) /\ Q[a][k] = x

Kept(x, Q, R) ==
  \A a \in Addr, k \in Nat : Sits(x, Q, a, k) => Sits(x, R, a, k) \/ Sits(x, R, a, k - 1)

LEMMA KeptByPut ==
  ASSUME NEW x, NEW Q, NEW R \in [Addr -> Seq(Entries)], Kept(x, Q, R),
         NEW b \in Addr, NEW y \in Entries
  PROVE  Kept(x, Q, Put(R, b, y))
  <1>1. /\ \A a \in Addr : a # b => Put(R, b, y)[a] = R[a]
        /\ Len(R[b]) \in Nat /\ Len(Put(R, b, y)[b]) = Len(R[b]) + 1
        /\ \A j \in 1 .. Len(R[b]) : Put(R, b, y)[b][j] = R[b][j]
    BY PutFacts
  <1>2. ASSUME NEW a \in Addr, NEW j \in Int, Sits(x, R, a, j)
        PROVE  Sits(x, Put(R, b, y), a, j)
    BY <1>1, <1>2 DEF Sits
  <1>3. \A k \in Nat : k \in Int /\ k - 1 \in Int
    OBVIOUS
  <1> QED
    BY <1>2, <1>3, Zenon DEF Kept

LEMMA KeptByPop ==
  ASSUME NEW x, NEW Q \in [Addr -> Seq(Entries)], NEW b \in Addr, Q[b] # << >>, Head(Q[b]) # x
  PROVE  Kept(x, Q, Pop(Q, b))
  <1>1. /\ \A a \in Addr : a # b => Pop(Q, b)[a] = Q[a]
        /\ Len(Q[b]) \in Nat /\ Len(Q[b]) > 0 /\ Q[b][1] = Head(Q[b])
        /\ Len(Pop(Q, b)[b]) = Len(Q[b]) - 1
        /\ \A j \in 1 .. Len(Q[b]) - 1 : Pop(Q, b)[b][j] = Q[b][j + 1]
    BY PopFacts, ZenonT(30)
  <1> SUFFICES ASSUME NEW a \in Addr, NEW k \in Nat, Sits(x, Q, a, k)
               PROVE  Sits(x, Pop(Q, b), a, k) \/ Sits(x, Pop(Q, b), a, k - 1)
    BY Zenon DEF Kept
  <1>2. CASE a # b
    BY <1>1, <1>2, Zenon DEF Sits
  <1>3. CASE a = b
    <2>1. k \in 1 .. Len(Q[b]) /\ Q[b][k] = x /\ k # 1
      BY <1>1, <1>3, Zenon DEF Sits
    <2>2. k - 1 \in 1 .. Len(Q[b]) - 1 /\ (k - 1) + 1 = k
      BY <1>1, <2>1
    <2>3. Pop(Q, b)[b][k - 1] = Q[b][k]
      BY <1>1, <2>2, Zenon
    <2> QED
      BY <1>1, <1>3, <2>1, <2>2, <2>3, Zenon DEF Sits
  <1> QED
    BY <1>2, <1>3, Zenon

-----------------------------------------------------------------------------
(* The initial states satisfy the invariant.                               *)
LEMMA InitInv == Init => Inv
  <1> SUFFICES ASSUME Init PROVE Inv
    BY Zenon
  <1>1. nodes \subseteq Addr /\ TableOK
    <2>1. CASE nodes \in SUBSET Addr /\ table = [s \in Slot |-> NULL]
      BY <2>1, Zenon DEF TableOK
    <2>2. CASE \E m \in Maps : nodes = m.nodes /\ table = m.table
      BY <2>2, AsyncAssumption, Zenon DEF TableOK, IsMap
    <2> QED
      BY <2>1, <2>2, Zenon DEF Init
  <1>2. table \in [Slot -> Addr \union {NULL}]
    BY <1>1, Zenon DEF TableOK
  <1>3. cmd \in [Cmd -> [st : {"idle", "refused", "pending"} \union Outcomes,
                         slot : Slot \union {NULL}, retry : NO_RETRY .. MaxRetry]]
    BY AsyncAssumption DEF Init, NO_RETRY
  <1>4. /\ state \in [Addr -> States] /\ queue \in [Addr -> Seq(Entries)]
        /\ attempt \in [Addr -> {"old", "recent"}]
    BY DEF Init, States
  <1>5. TypeOK
    BY <1>1, <1>2, <1>3, <1>4, Zenon DEF Init, TypeOK
  <1>6. Accounted
    BY Zenon DEF Init, Accounted
  <1>7. Pending = {} /\ Repeated = {}
    BY DEF Init, Pending, Repeated
  <1>8. \A a \in Addr : queue[a] = << >> /\ Len(queue[a]) = 0
    BY Zenon DEF Init
  <1>9. \A x : ~In(x, queue) /\ Once(x, queue)
    BY <1>8 DEF In, Once
  <1>10. AskingFollowed(queue, Repeated)
    BY <1>8 DEF AskingFollowed
  <1>11. last # "ongoing"
    BY Zenon DEF Init
  <1>12. QueuesOK(queue, state, last, Pending, Repeated)
    BY <1>4, <1>7, <1>8, <1>9, <1>10, <1>11, Zenon DEF QueuesOK
  <1> QED
    BY <1>1, <1>5, <1>6, <1>12, Zenon DEF Inv, Init

-----------------------------------------------------------------------------
(* actx_get_by_node closes no context and opens none but the one it is     *)
(* called for.                                                             *)
LEMMA ContextFacts ==
  ASSUME TypeOK, NEW a \in Addr, NEW ok \in BOOLEAN, actx_get_by_node(a, ok)
  PROVE  /\ state' \in [Addr -> States]
         /\ attempt' \in [Addr -> {"old", "recent"}]
         /\ \A b \in Addr : state[b] # "none" => state'[b] # "none"
         /\ \A b \in Addr : state'[b] # "none" => state[b] # "none" \/ b = a
         /\ ok => state'[a] # "none"
  <1>1. CASE state[a] # "none" /\ ok = (a # cur) /\ UNCHANGED <<state, attempt>>
    BY <1>1, Zenon DEF TypeOK
  <1>2. CASE /\ state[a] = "none"
             /\ state' = (IF ok THEN [state EXCEPT ![a] = "connecting"] ELSE state)
             /\ attempt' = [attempt EXCEPT ![a] = "recent"]
    <2>1. state \in [Addr -> States] /\ attempt \in [Addr -> {"old", "recent"}]
      BY Zenon DEF TypeOK
    <2>2. CASE ok
      BY <1>2, <2>1, <2>2, Zenon DEF States
    <2>3. CASE ~ok
      BY <1>2, <2>1, <2>3, Zenon
    <2> QED
      BY <2>2, <2>3, Zenon
  <1> QED
    BY <1>1, <1>2, Zenon DEF actx_get_by_node

(* An update is awaited exactly when its query could be sent, whichever    *)
(* node it was sent to.                                                    *)
LEMMA UpdateFacts ==
  ASSUME TypeOK, NEW Q, NEW l \in {"old", "recent", "ongoing"}, NEW fail \in BOOLEAN,
         NEW P, NEW G, G \subseteq Cmd, QueuesOK(Q, state, l, P, G),
         updateSlotMapAsync(Q, l, fail)
  PROVE  /\ QueuesOK(queue', state', last', P, G)
         /\ state' \in [Addr -> States]
         /\ attempt' \in [Addr -> {"old", "recent"}]
         /\ last' \in {"old", "recent", "ongoing"}
         /\ life' \in {"alive", "freed", "crashed"}
         /\ \A b \in Addr : state'[b] # "none" => state[b] # "none" \/ b \in nodes
  <1>0. state \in [Addr -> States] /\ attempt \in [Addr -> {"old", "recent"}]
    BY Zenon DEF TypeOK
  <1>l. life' \in {"alive", "freed", "crashed"}
    BY Zenon DEF updateSlotMapAsync, TypeOK
  <1>1. CASE queue' = Q /\ last' = l /\ UNCHANGED <<state, attempt>>
    BY <1>0, <1>l, <1>1, Zenon
  <1>2. CASE l # "ongoing" /\ queue' = Q /\ last' = "recent" /\ UNCHANGED <<state, attempt>>
    <2>1. QueuesOK(Q, state, "recent", P, G)
      BY <1>2, Reframed, Zenon
    <2> QED
      BY <1>0, <1>l, <1>2, <2>1, Zenon
  <1>3. CASE /\ l # "ongoing"
             /\ \E a \in selectNode :
                  /\ actx_get_by_node(a, ~fail)
                  /\ queue' = IF fail THEN Q ELSE Put(Q, a, "slotmap")
                  /\ last' = IF fail THEN "recent" ELSE "ongoing"
    <2>1. PICK a \in selectNode :
                  /\ actx_get_by_node(a, ~fail)
                  /\ queue' = IF fail THEN Q ELSE Put(Q, a, "slotmap")
                  /\ last' = IF fail THEN "recent" ELSE "ongoing"
      BY <1>3, Zenon
    <2>2. a \in nodes /\ a \in Addr
      BY Zenon DEF selectNode, TypeOK
    <2>3. (~fail) \in BOOLEAN
      BY Zenon
    <2>4. /\ state' \in [Addr -> States]
          /\ attempt' \in [Addr -> {"old", "recent"}]
          /\ \A b \in Addr : state[b] # "none" => state'[b] # "none"
          /\ \A b \in Addr : state'[b] # "none" => state[b] # "none" \/ b = a
          /\ ~fail => state'[a] # "none"
      BY <2>1, <2>2, <2>3, ContextFacts, Zenon
    <2>5. QueuesOK(Q, state', l, P, G) /\ QueuesOK(Q, state', "recent", P, G)
      BY <1>3, <2>4, Reframed, Zenon
    <2>6. CASE fail
      BY <1>l, <2>1, <2>2, <2>4, <2>5, <2>6, Zenon
    <2>7. CASE ~fail
      <3>1. QueuesOK(Put(Q, a, "slotmap"), state', "ongoing", P, G)
        BY <1>3, <2>2, <2>4, <2>5, <2>7, PutSlotmap, Zenon
      <3> QED
        BY <1>l, <2>1, <2>2, <2>4, <2>7, <3>1, Zenon
    <2> QED
      BY <2>6, <2>7, Zenon
  <1> QED
    BY <1>1, <1>2, <1>3, Zenon DEF updateSlotMapAsync

LEMMA ThrottledFacts ==
  ASSUME TypeOK, NEW Q, NEW fail \in BOOLEAN,
         NEW P, NEW G, G \subseteq Cmd, QueuesOK(Q, state, last, P, G),
         throttledUpdateSlotMapAsync(Q, fail)
  PROVE  /\ QueuesOK(queue', state', last', P, G)
         /\ state' \in [Addr -> States]
         /\ attempt' \in [Addr -> {"old", "recent"}]
         /\ last' \in {"old", "recent", "ongoing"}
         /\ life' \in {"alive", "freed", "crashed"}
         /\ \A b \in Addr : state'[b] # "none" => state[b] # "none" \/ b \in nodes
  <1>0. /\ last \in {"old", "recent", "ongoing"}
        /\ state \in [Addr -> States] /\ attempt \in [Addr -> {"old", "recent"}]
        /\ life \in {"alive", "freed", "crashed"}
    BY Zenon DEF TypeOK
  <1>1. CASE last = "old"
    BY <1>0, <1>1, UpdateFacts, Zenon DEF throttledUpdateSlotMapAsync
  <1>2. CASE last # "old"
    <2>1. queue' = Q /\ UNCHANGED <<state, attempt, last, life>>
      BY <1>2, Zenon DEF throttledUpdateSlotMapAsync
    <2> QED
      BY <1>0, <2>1, Zenon
  <1> QED
    BY <1>1, <1>2, Zenon

(* An update of the slot map moves no other entry.                         *)
LEMMA KeptByUpdate ==
  ASSUME TypeOK, NEW x, NEW R \in [Addr -> Seq(Entries)], Kept(x, queue, R), NEW fail
  PROVE  /\ \A l : updateSlotMapAsync(R, l, fail) => Kept(x, queue, queue')
         /\ throttledUpdateSlotMapAsync(R, fail) => Kept(x, queue, queue')
  <1>1. ASSUME NEW l, updateSlotMapAsync(R, l, fail) PROVE Kept(x, queue, queue')
    <2>1. CASE queue' = R
      BY <2>1, Zenon
    <2>2. CASE \E a \in selectNode : queue' = Put(R, a, "slotmap")
      <3>1. selectNode \subseteq Addr
        BY Zenon DEF selectNode, TypeOK
      <3> QED
        BY <2>2, <3>1, EntryFacts, KeptByPut
    <2> QED
      BY <1>1, <2>1, <2>2, Zenon DEF updateSlotMapAsync
  <1>2. ASSUME throttledUpdateSlotMapAsync(R, fail) PROVE Kept(x, queue, queue')
    <2>1. CASE queue' = R
      BY <2>1, Zenon
    <2>2. CASE updateSlotMapAsync(R, last, fail)
      BY <1>1, <2>2, Zenon
    <2> QED
      BY <1>2, <2>1, <2>2, Zenon DEF throttledUpdateSlotMapAsync
  <1> QED
    BY <1>1, <1>2, Zenon

(* What the steps of a command's life do to the sets of the invariant.     *)
LEMMA RefuseFacts ==
  ASSUME TypeOK, NEW i \in Cmd, cmd[i].st = "idle", cmd' = [cmd EXCEPT ![i].st = "refused"]
  PROVE  /\ cmd' \in [Cmd -> [st : {"idle", "refused", "pending"} \union Outcomes,
                              slot : Slot \union {NULL}, retry : NO_RETRY .. MaxRetry]]
         /\ Pending' = Pending /\ Repeated' = Repeated
  <1>1. cmd \in [Cmd -> [st : {"idle", "refused", "pending"} \union Outcomes,
                         slot : Slot \union {NULL}, retry : NO_RETRY .. MaxRetry]]
    BY Zenon DEF TypeOK
  <1>2. \A j \in Cmd : /\ cmd'[j].retry = cmd[j].retry /\ cmd'[j].slot = cmd[j].slot
                       /\ cmd'[j].st = IF j = i THEN "refused" ELSE cmd[j].st
    BY <1>1, Zenon
  <1>3. cmd' \in [Cmd -> [st : {"idle", "refused", "pending"} \union Outcomes,
                          slot : Slot \union {NULL}, retry : NO_RETRY .. MaxRetry]]
    BY <1>1, ZenonT(30)
  <1>4. Pending' = Pending
    BY <1>2 DEF Pending
  <1>5. Repeated' = Repeated
    BY <1>2, Zenon DEF Repeated
  <1> QED
    BY <1>3, <1>4, <1>5, Zenon

LEMMA AcceptFacts ==
  ASSUME TypeOK, NEW i \in Cmd, NEW s \in Slot \union {NULL}, NEW r \in {0, NO_RETRY},
         cmd' = [cmd EXCEPT ![i] = [st |-> "pending", slot |-> s, retry |-> r]]
  PROVE  /\ cmd' \in [Cmd -> [st : {"idle", "refused", "pending"} \union Outcomes,
                              slot : Slot \union {NULL}, retry : NO_RETRY .. MaxRetry]]
         /\ Pending' = Pending \union {i} /\ Repeated' = Repeated \ {i}
  <1>1. cmd \in [Cmd -> [st : {"idle", "refused", "pending"} \union Outcomes,
                         slot : Slot \union {NULL}, retry : NO_RETRY .. MaxRetry]]
    BY Zenon DEF TypeOK
  <1>2. r \in NO_RETRY .. MaxRetry /\ ~(r > 0)
    BY AsyncAssumption DEF NO_RETRY
  <1>3. \A j \in Cmd : cmd'[j] = IF j = i THEN [st |-> "pending", slot |-> s, retry |-> r]
                                 ELSE cmd[j]
    BY <1>1, Zenon
  <1>4. cmd' \in [Cmd -> [st : {"idle", "refused", "pending"} \union Outcomes,
                          slot : Slot \union {NULL}, retry : NO_RETRY .. MaxRetry]]
    BY <1>1, <1>2, Zenon
  <1>5. Pending' = Pending \union {i}
    BY <1>3 DEF Pending
  <1>6. Repeated' = Repeated \ {i}
    BY <1>2, <1>3 DEF Repeated
  <1> QED
    BY <1>4, <1>5, <1>6, Zenon

LEMMA DeliverFacts ==
  ASSUME TypeOK, NEW i \in Cmd, NEW e, NEW received \in BOOLEAN, Deliver(i, e, received)
  PROVE  /\ cmd' \in [Cmd -> [st : {"idle", "refused", "pending"} \union Outcomes,
                              slot : Slot \union {NULL}, retry : NO_RETRY .. MaxRetry]]
         /\ Pending' = Pending \ {i} /\ Repeated' = Repeated \ {i} /\ running' = i
         /\ cmd'[i].st \in Outcomes
         /\ \A j \in Cmd : j # i => cmd'[j] = cmd[j]
  <1>1. cmd \in [Cmd -> [st : {"idle", "refused", "pending"} \union Outcomes,
                         slot : Slot \union {NULL}, retry : NO_RETRY .. MaxRetry]]
    BY Zenon DEF TypeOK
  <1>2. PICK o \in Outcomes : cmd' = [cmd EXCEPT ![i] = [st |-> o, slot |-> NULL, retry |-> 0]]
    BY Zenon DEF Deliver, Outcomes
  <1>3. 0 \in NO_RETRY .. MaxRetry
    BY AsyncAssumption DEF NO_RETRY
  <1>4. \A j \in Cmd : cmd'[j] = IF j = i THEN [st |-> o, slot |-> NULL, retry |-> 0]
                                 ELSE cmd[j]
    BY <1>1, <1>2, Zenon
  <1>5. cmd' \in [Cmd -> [st : {"idle", "refused", "pending"} \union Outcomes,
                          slot : Slot \union {NULL}, retry : NO_RETRY .. MaxRetry]]
    BY <1>1, <1>2, <1>3, Zenon
  <1>6. o # "pending"
    BY Zenon DEF Outcomes
  <1>7. Pending' = Pending \ {i}
    BY <1>4, <1>6 DEF Pending
  <1>8. Repeated' = Repeated \ {i}
    BY <1>4 DEF Repeated
  <1> QED
    BY <1>4, <1>5, <1>7, <1>8, Zenon DEF Deliver

LEMMA RetryFacts ==
  ASSUME TypeOK, NEW i \in Cmd, cmd[i].retry # NO_RETRY, ~Exhausted(i), Retry(i)
  PROVE  /\ cmd' \in [Cmd -> [st : {"idle", "refused", "pending"} \union Outcomes,
                              slot : Slot \union {NULL}, retry : NO_RETRY .. MaxRetry]]
         /\ Pending' = Pending /\ Repeated' = Repeated \union {i}
         /\ \A j \in Cmd : cmd'[j].st = cmd[j].st
  <1>1. cmd \in [Cmd -> [st : {"idle", "refused", "pending"} \union Outcomes,
                         slot : Slot \union {NULL}, retry : NO_RETRY .. MaxRetry]]
    BY Zenon DEF TypeOK
  <1>2. cmd[i].retry + 1 \in NO_RETRY .. MaxRetry /\ cmd[i].retry + 1 > 0
    BY <1>1, AsyncAssumption DEF NO_RETRY, Exhausted
  <1>3. \A j \in Cmd : /\ cmd'[j].st = cmd[j].st /\ cmd'[j].slot = cmd[j].slot
                       /\ cmd'[j].retry = IF j = i THEN cmd[i].retry + 1 ELSE cmd[j].retry
    BY <1>1, Zenon DEF Retry
  <1>4. cmd' \in [Cmd -> [st : {"idle", "refused", "pending"} \union Outcomes,
                          slot : Slot \union {NULL}, retry : NO_RETRY .. MaxRetry]]
    BY <1>1, <1>2, ZenonT(30) DEF Retry
  <1>5. Pending' = Pending
    BY <1>3, Zenon DEF Pending
  <1>6. Repeated' = Repeated \union {i}
    BY <1>2, <1>3, Zenon DEF Repeated
  <1> QED
    BY <1>3, <1>4, <1>5, <1>6, Zenon

LEMMA Conclude ==
  ASSUME TypeOK', TableOK', Accounted', QueuesOK(queue', state', last', Pending', Repeated')
  PROVE  Inv'
  <1>1. Pending' \in SUBSET Cmd
    BY Zenon DEF Pending
  <1> QED
    BY <1>1, Zenon DEF Inv

(* Of a context that closes nothing waits.                                 *)
LEMMA ClosedFacts ==
  ASSUME TypeOK, NEW C, NEW P, NEW G, QueuesOK(queue, state, last, P, G),
         \A a \in C : queue[a] = << >>,
         state' = [a \in Addr |-> IF a \in C THEN "none" ELSE state[a]]
  PROVE  /\ QueuesOK(queue, state', last, P, G)
         /\ state' \in [Addr -> States]
         /\ \A b \in Addr : state'[b] # "none" => state[b] # "none" /\ b \notin C
  <1>1. state \in [Addr -> States]
    BY Zenon DEF TypeOK
  <1>2. \A b \in Addr : state'[b] = IF b \in C THEN "none" ELSE state[b]
    BY Zenon
  <1>3. state' \in [Addr -> States]
    BY <1>1, Zenon DEF States
  <1>4. \A b \in Addr : queue[b] # << >> => state'[b] # "none"
    BY <1>2, Zenon DEF QueuesOK
  <1>5. QueuesOK(queue, state', last, P, G)
    BY <1>4, Zenon DEF QueuesOK
  <1> QED
    BY <1>2, <1>3, <1>5, Zenon

LEMMA CloseOne ==
  ASSUME TypeOK, NEW a, state' = [state EXCEPT ![a] = "none"]
  PROVE  state' = [b \in Addr |-> IF b \in {a} THEN "none" ELSE state[b]]
  BY Zenon DEF TypeOK

-----------------------------------------------------------------------------
(* redisClusterAsyncConnect2 preserves the invariant.                      *)
LEMMA Connect2Inv ==
  ASSUME Inv, life # "crashed", redisClusterAsyncConnect2
  PROVE  Inv'
  <1>0. /\ TypeOK /\ TableOK /\ Accounted
        /\ QueuesOK(queue, state, last, Pending, Repeated)
    BY Zenon DEF Inv
  <1>1. PICK fail \in BOOLEAN : updateSlotMapAsync(queue, last, fail) /\ err' = (err \/ fail)
    BY Zenon DEF redisClusterAsyncConnect2
  <1>2. UNCHANGED <<nodes, table, cmd, shutdown, closing, at, cur, doomed, running>>
    BY Zenon DEF redisClusterAsyncConnect2, stack
  <1>3. Repeated \subseteq Cmd /\ Pending' = Pending /\ Repeated' = Repeated
    BY <1>2, Zenon DEF Pending, Repeated
  <1>4. last \in {"old", "recent", "ongoing"}
    BY <1>0, Zenon DEF TypeOK
  <1>5. /\ QueuesOK(queue', state', last', Pending, Repeated)
        /\ state' \in [Addr -> States]
        /\ attempt' \in [Addr -> {"old", "recent"}]
        /\ last' \in {"old", "recent", "ongoing"}
        /\ life' \in {"alive", "freed", "crashed"}
        /\ \A b \in Addr : state'[b] # "none" => state[b] # "none" \/ b \in nodes
    BY <1>0, <1>1, <1>3, <1>4, UpdateFacts, Zenon
  <1>6. queue' \in [Addr -> Seq(Entries)] /\ err' \in BOOLEAN
    BY <1>0, <1>1, <1>5, Zenon DEF QueuesOK, TypeOK
  <1>7. TypeOK'
    BY <1>0, <1>2, <1>5, <1>6, Zenon DEF TypeOK
  <1>8. TableOK'
    BY <1>0, <1>2, Zenon DEF TableOK
  <1>9. Accounted'
    BY <1>0, <1>2, <1>5, Zenon DEF Accounted
  <1> QED
    BY <1>2, <1>3, <1>5, <1>7, <1>8, <1>9, Conclude, Zenon

(* A command is sent to a node of the topology, or refused.                *)
LEMMA SendInv ==
  ASSUME Inv, life # "crashed", NEW i \in Cmd, NEW a \in nodes, NEW s \in Slot \union {NULL},
         NEW r \in {0, NO_RETRY}, cmd[i].st = "idle", Send(i, a, s, r),
         UNCHANGED <<nodes, table, last, shutdown, closing, at, cur, doomed, running, life>>
  PROVE  Inv'
  <1>0. /\ TypeOK /\ TableOK /\ Accounted
        /\ QueuesOK(queue, state, last, Pending, Repeated)
    BY Zenon DEF Inv
  <1>1. PICK ok \in BOOLEAN :
          /\ actx_get_by_node(a, ok)
          /\ IF ok
             THEN /\ cmd' = [cmd EXCEPT ![i] = [st |-> "pending", slot |-> s, retry |-> r]]
                  /\ err' = FALSE
                  /\ queue' = Put(queue, a, i)
             ELSE Refuse(i) /\ UNCHANGED queue
    BY Zenon DEF Send
  <1>2. a \in Addr /\ Repeated \subseteq Cmd /\ i \notin Pending
    BY <1>0, Zenon DEF TypeOK, Repeated, Pending
  <1>3. /\ state' \in [Addr -> States]
        /\ attempt' \in [Addr -> {"old", "recent"}]
        /\ \A b \in Addr : state[b] # "none" => state'[b] # "none"
        /\ \A b \in Addr : state'[b] # "none" => state[b] # "none" \/ b = a
        /\ ok => state'[a] # "none"
    BY <1>0, <1>1, <1>2, ContextFacts, Zenon
  <1>4. Accounted' /\ TableOK'
    BY <1>0, <1>3, Zenon DEF Accounted, TableOK
  <1>5. CASE ok
    <2>1. /\ cmd' \in [Cmd -> [st : {"idle", "refused", "pending"} \union Outcomes,
                               slot : Slot \union {NULL}, retry : NO_RETRY .. MaxRetry]]
          /\ Pending' = Pending \union {i} /\ Repeated' = Repeated \ {i}
      BY <1>0, <1>1, <1>5, AcceptFacts, Zenon
    <2>2. ~In(i, queue)
      BY <1>0, <1>2, Zenon DEF QueuesOK
    <2>3. AskingFollowed(queue, Repeated \ {i})
      <3>1. \A b \in Addr : \A j \in 1 .. Len(queue[b]) : queue[b][j] # i
        BY <2>2, Zenon DEF In
      <3>2. AskingFollowed(queue, Repeated) /\ queue \in [Addr -> Seq(Entries)]
        BY <1>0, Zenon DEF QueuesOK
      <3>3. \A b \in Addr : Len(queue[b]) \in Nat
        BY <3>2
      <3>4. ASSUME NEW b \in Addr, NEW j \in 1 .. Len(queue[b]), queue[b][j] = "asking"
            PROVE  j + 1 <= Len(queue[b]) /\ queue[b][j + 1] \in Repeated \ {i}
        <4>1. j + 1 <= Len(queue[b]) /\ queue[b][j + 1] \in Repeated
          BY <3>2, <3>4, Zenon DEF AskingFollowed
        <4>2. j + 1 \in 1 .. Len(queue[b])
          BY <3>3, <4>1
        <4> QED
          BY <3>1, <4>1, <4>2, Zenon
      <3> QED
        BY <3>4, Zenon DEF AskingFollowed
    <2>4. QueuesOK(queue, state', last, Pending, Repeated \ {i})
      BY <1>0, <1>3, <2>3, Zenon DEF QueuesOK
    <2>5. QueuesOK(Put(queue, a, i), state', last, Pending \union {i}, Repeated \ {i})
      BY <1>2, <1>3, <1>5, <2>4, PutCmd, Zenon
    <2>6. queue' = Put(queue, a, i) /\ err' = FALSE
      BY <1>1, <1>5, Zenon
    <2>7. queue' \in [Addr -> Seq(Entries)]
      BY <2>5, <2>6, Zenon DEF QueuesOK
    <2>8. TypeOK'
      BY <1>0, <1>3, <2>1, <2>6, <2>7, Zenon DEF TypeOK
    <2> QED
      BY <1>4, <2>1, <2>5, <2>6, <2>8, Conclude, Zenon
  <1>6. CASE ~ok
    <2>1. cmd' = [cmd EXCEPT ![i].st = "refused"] /\ err' = TRUE /\ queue' = queue
      BY <1>1, <1>6, Zenon DEF Refuse
    <2>2. /\ cmd' \in [Cmd -> [st : {"idle", "refused", "pending"} \union Outcomes,
                               slot : Slot \union {NULL}, retry : NO_RETRY .. MaxRetry]]
          /\ Pending' = Pending /\ Repeated' = Repeated
      BY <1>0, <2>1, RefuseFacts, Zenon
    <2>3. QueuesOK(queue, state', last, Pending, Repeated)
      BY <1>0, <1>3, Zenon DEF QueuesOK
    <2>4. TypeOK'
      BY <1>0, <1>3, <2>1, <2>2, Zenon DEF TypeOK
    <2> QED
      BY <1>4, <2>1, <2>2, <2>3, <2>4, Conclude, Zenon
  <1> QED
    BY <1>5, <1>6, Zenon

(* A command is refused, after an update of the slot map perhaps.          *)
LEMMA RefuseInv ==
  ASSUME Inv, life # "crashed", NEW i \in Cmd, cmd[i].st = "idle", Refuse(i),
         UNCHANGED <<state, queue, attempt, last, life>> \/
           \E fail \in BOOLEAN : throttledUpdateSlotMapAsync(queue, fail),
         UNCHANGED <<nodes, table, shutdown, closing, at, cur, doomed, running>>
  PROVE  Inv'
  <1>0. /\ TypeOK /\ TableOK /\ Accounted
        /\ QueuesOK(queue, state, last, Pending, Repeated)
    BY Zenon DEF Inv
  <1>1. cmd' = [cmd EXCEPT ![i].st = "refused"] /\ err' = TRUE
    BY Zenon DEF Refuse
  <1>2. /\ cmd' \in [Cmd -> [st : {"idle", "refused", "pending"} \union Outcomes,
                             slot : Slot \union {NULL}, retry : NO_RETRY .. MaxRetry]]
        /\ Pending' = Pending /\ Repeated' = Repeated
    BY <1>0, <1>1, RefuseFacts, Zenon
  <1>3. Repeated \subseteq Cmd
    BY Zenon DEF Repeated
  <1>4. /\ QueuesOK(queue', state', last', Pending, Repeated)
        /\ state' \in [Addr -> States]
        /\ attempt' \in [Addr -> {"old", "recent"}]
        /\ last' \in {"old", "recent", "ongoing"}
        /\ life' \in {"alive", "freed", "crashed"}
        /\ \A b \in Addr : state'[b] # "none" => state[b] # "none" \/ b \in nodes
    <2>1. CASE UNCHANGED <<state, queue, attempt, last, life>>
      BY <1>0, <2>1, Zenon DEF TypeOK
    <2>2. CASE \E fail \in BOOLEAN : throttledUpdateSlotMapAsync(queue, fail)
      BY <1>0, <1>3, <2>2, ThrottledFacts, Zenon
    <2> QED
      BY <2>1, <2>2, Zenon
  <1>5. queue' \in [Addr -> Seq(Entries)]
    BY <1>4, Zenon DEF QueuesOK
  <1>6. TypeOK'
    BY <1>0, <1>1, <1>2, <1>4, <1>5, Zenon DEF TypeOK
  <1>7. Accounted' /\ TableOK'
    BY <1>0, <1>4, Zenon DEF Accounted, TableOK
  <1> QED
    BY <1>2, <1>4, <1>6, <1>7, Conclude, Zenon

(* redisClusterAsyncFormattedCommand preserves the invariant.              *)
LEMMA FormattedCommandInv ==
  ASSUME Inv, life # "crashed", NEW i \in Cmd, NEW s \in Slot, redisClusterAsyncFormattedCommand(i, s)
  PROVE  Inv'
  <1>1. /\ cmd[i].st = "idle"
        /\ UNCHANGED <<nodes, table, shutdown, closing, at, cur, doomed, running>>
    BY Zenon DEF redisClusterAsyncFormattedCommand, stack
  <1>2. CASE Refuse(i) /\ UNCHANGED <<net, life>>
    BY <1>1, <1>2, RefuseInv, Zenon DEF net
  <1>3. CASE (\E fail \in BOOLEAN : throttledUpdateSlotMapAsync(queue, fail)) /\ Refuse(i)
    BY <1>1, <1>3, RefuseInv, Zenon
  <1>4. CASE table[s] # NULL /\ Send(i, table[s], s, 0) /\ UNCHANGED <<last, life>>
    <2>1. table[s] \in nodes
      BY <1>4, Zenon DEF Inv, TableOK
    <2>2. UNCHANGED <<nodes, table, last, shutdown, closing, at, cur, doomed, running, life>>
      BY <1>1, <1>4, Zenon
    <2> QED
      BY <1>1, <1>4, <2>1, <2>2, SendInv, Zenon
  <1> QED
    BY <1>2, <1>3, <1>4, Zenon DEF redisClusterAsyncFormattedCommand

(* redisClusterAsyncFormattedCommandToNode preserves the invariant.        *)
LEMMA ToNodeInv ==
  ASSUME Inv, life # "crashed", NEW i \in Cmd, NEW a \in Addr,
         redisClusterAsyncFormattedCommandToNode(i, a)
  PROVE  Inv'
  <1>1. /\ cmd[i].st = "idle" /\ a \in nodes
        /\ UNCHANGED <<nodes, table, shutdown, closing, at, cur, doomed, running, life>>
    BY Zenon DEF redisClusterAsyncFormattedCommandToNode, stack
  <1>2. CASE shutdown
    <2>1. Refuse(i) /\ UNCHANGED <<state, queue, attempt, last, life>>
      BY <1>1, <1>2, Zenon DEF redisClusterAsyncFormattedCommandToNode, net
    <2> QED
      BY <1>1, <2>1, RefuseInv, Zenon
  <1>3. CASE ~shutdown
    <2>1. Send(i, a, NULL, NO_RETRY)
      BY <1>3, Zenon DEF redisClusterAsyncFormattedCommandToNode
    <2>2. UNCHANGED <<nodes, table, last, shutdown, closing, at, cur, doomed, running, life>>
      BY <1>1, <1>3, Zenon DEF redisClusterAsyncFormattedCommandToNode
    <2> QED
      BY <1>1, <2>1, <2>2, SendInv, Zenon
  <1> QED
    BY <1>2, <1>3, Zenon

(* redisClusterAsyncDisconnect preserves the invariant.                    *)
LEMMA DisconnectInv ==
  ASSUME Inv, life # "crashed", redisClusterAsyncDisconnect
  PROVE  Inv'
  <1>0. /\ TypeOK /\ TableOK /\ Accounted
        /\ QueuesOK(queue, state, last, Pending, Repeated)
    BY Zenon DEF Inv
  <1> DEFINE open == {a \in nodes : state[a] # "none"}
             now  == {a \in open : queue[a] = << >> /\ a \notin {at, cur}}
  <1>1. /\ shutdown' = TRUE
        /\ closing' = closing \union (open \ now)
        /\ state' = [a \in Addr |-> IF a \in now THEN "none" ELSE state[a]]
        /\ UNCHANGED <<nodes, table, queue, attempt, last, err, cmd, at, cur, doomed, running,
                       life>>
    BY Zenon DEF redisClusterAsyncDisconnect, stack
  <1>2. Pending' = Pending /\ Repeated' = Repeated
    BY <1>1, Zenon DEF Pending, Repeated
  <1>3. open \subseteq Addr /\ \A a \in now : queue[a] = << >>
    BY <1>0, Zenon DEF TypeOK
  <1> HIDE DEF open, now
  <1>4. /\ QueuesOK(queue, state', last, Pending, Repeated)
        /\ state' \in [Addr -> States]
        /\ \A b \in Addr : state'[b] # "none" => state[b] # "none" /\ b \notin now
    BY <1>0, <1>1, <1>3, ClosedFacts, Zenon
  <1>5. closing' \subseteq Addr
    BY <1>0, <1>1, <1>3, Zenon DEF TypeOK
  <1>6. TypeOK'
    BY <1>0, <1>1, <1>4, <1>5, Zenon DEF TypeOK
  <1>7. TableOK' /\ Accounted'
    BY <1>0, <1>1, <1>4, Zenon DEF TableOK, Accounted
  <1> QED
    BY <1>1, <1>2, <1>4, <1>6, <1>7, Conclude, Zenon

(* redisClusterAsyncFree preserves the invariant.                          *)
LEMMA FreeInv ==
  ASSUME Inv, life # "crashed", redisClusterAsyncFree
  PROVE  Inv'
  <1>0. /\ TypeOK /\ TableOK /\ Accounted
        /\ QueuesOK(queue, state, last, Pending, Repeated)
    BY Zenon DEF Inv
  <1>1. /\ shutdown' = TRUE /\ nodes' = {} /\ table' = [s \in Slot |-> NULL]
        /\ doomed' = {a \in Addr : state[a] # "none"}
        /\ life' = "freed"
        /\ UNCHANGED <<state, queue, attempt, last, err, cmd, closing, at, cur, running>>
    BY Zenon DEF redisClusterAsyncFree, net
  <1>2. Pending' = Pending /\ Repeated' = Repeated
    BY <1>1, Zenon DEF Pending, Repeated
  <1>3. table' \in [Slot -> Addr \union {NULL}] /\ table' \in [Slot -> nodes' \union {NULL}]
    BY <1>1, Zenon
  <1>4. nodes' \subseteq Addr /\ doomed' \subseteq Addr
    BY <1>1, Zenon
  <1>5. TypeOK'
    BY <1>0, <1>1, <1>3, <1>4, Zenon DEF TypeOK
  <1>6. TableOK' /\ Accounted'
    BY <1>1, <1>3, Zenon DEF TableOK, Accounted
  <1>7. QueuesOK(queue', state', last', Pending', Repeated')
    BY <1>0, <1>1, <1>2, Zenon
  <1> QED
    BY <1>1, <1>5, <1>6, <1>7, Conclude, Zenon

-----------------------------------------------------------------------------
(* The events of a connection preserve the invariant.                      *)
LEMMA ConnectedInv ==
  ASSUME Inv, life # "crashed", NEW a \in Addr, Connected(a)
  PROVE  Inv'
  <1>0. /\ TypeOK /\ TableOK /\ Accounted
        /\ QueuesOK(queue, state, last, Pending, Repeated)
    BY Zenon DEF Inv
  <1>1. /\ state[a] = "connecting" /\ state' = [state EXCEPT ![a] = "connected"]
        /\ UNCHANGED <<nodes, table, queue, attempt, last, err, cmd, shutdown, closing, at, cur,
                       doomed, running, life>>
    BY Zenon DEF Connected, stack
  <1>2. Pending' = Pending /\ Repeated' = Repeated
    BY <1>1, Zenon DEF Pending, Repeated
  <1>3. state' \in [Addr -> States] /\ \A b \in Addr : state[b] # "none" <=> state'[b] # "none"
    BY <1>0, <1>1, Zenon DEF TypeOK, States
  <1>4. TypeOK'
    BY <1>0, <1>1, <1>3, Zenon DEF TypeOK
  <1>5. TableOK' /\ Accounted'
    BY <1>0, <1>1, <1>3, Zenon DEF TableOK, Accounted
  <1>6. QueuesOK(queue, state', last, Pending, Repeated)
    BY <1>0, <1>3, Zenon DEF QueuesOK
  <1>7. QueuesOK(queue', state', last', Pending', Repeated')
    BY <1>1, <1>2, <1>6, Zenon
  <1> QED
    BY <1>1, <1>4, <1>5, <1>7, Conclude, Zenon

LEMMA LostInv ==
  ASSUME Inv, life # "crashed", NEW a \in Addr, Lost(a)
  PROVE  Inv'
  <1>0. /\ TypeOK /\ TableOK /\ Accounted
        /\ QueuesOK(queue, state, last, Pending, Repeated)
    BY Zenon DEF Inv
  <1>1. /\ cur = NULL /\ cur' = a
        /\ UNCHANGED <<nodes, table, state, queue, attempt, last, err, cmd, shutdown, closing, at,
                       doomed, running, life>>
    BY Zenon DEF Lost, Idle, net
  <1>2. Pending' = Pending /\ Repeated' = Repeated
    BY <1>1, Zenon DEF Pending, Repeated
  <1>3. TypeOK'
    BY <1>0, <1>1, Zenon DEF TypeOK
  <1>4. TableOK' /\ Accounted'
    BY <1>0, <1>1, AsyncAssumption, Zenon DEF TableOK, Accounted
  <1>5. QueuesOK(queue', state', last', Pending', Repeated')
    BY <1>0, <1>1, <1>2, Zenon
  <1> QED
    BY <1>1, <1>3, <1>4, <1>5, Conclude, Zenon

LEMMA FreeDetachedInv ==
  ASSUME Inv, life # "crashed", NEW a \in Addr, FreeDetached(a)
  PROVE  Inv'
  <1>0. /\ TypeOK /\ TableOK /\ Accounted
        /\ QueuesOK(queue, state, last, Pending, Repeated)
    BY Zenon DEF Inv
  <1>1. /\ cur = NULL /\ cur' = a /\ at' = (IF a = at THEN NULL ELSE at)
        /\ doomed' = doomed \ {a}
        /\ UNCHANGED <<nodes, table, state, queue, attempt, last, err, cmd, shutdown, closing,
                       running, life>>
    BY Zenon DEF FreeDetached, net
  <1>2. Pending' = Pending /\ Repeated' = Repeated
    BY <1>1, Zenon DEF Pending, Repeated
  <1>3. TypeOK'
    BY <1>0, <1>1, Zenon DEF TypeOK
  <1>4. TableOK' /\ Accounted'
    BY <1>0, <1>1, AsyncAssumption, Zenon DEF TableOK, Accounted
  <1>5. QueuesOK(queue', state', last', Pending', Repeated')
    BY <1>0, <1>1, <1>2, Zenon
  <1> QED
    BY <1>1, <1>3, <1>4, <1>5, Conclude, Zenon

LEMMA GoneInv ==
  ASSUME Inv, life # "crashed", Gone
  PROVE  Inv'
  <1>0. /\ TypeOK /\ TableOK /\ Accounted
        /\ QueuesOK(queue, state, last, Pending, Repeated)
    BY Zenon DEF Inv
  <1>1. /\ cur # NULL /\ queue[cur] = << >> /\ state' = [state EXCEPT ![cur] = "none"]
        /\ closing' = closing \ {cur} /\ cur' = NULL
        /\ UNCHANGED <<nodes, table, queue, attempt, last, err, cmd, shutdown, at, doomed,
                       running, life>>
    BY Zenon DEF Gone
  <1>2. Pending' = Pending /\ Repeated' = Repeated
    BY <1>1, Zenon DEF Pending, Repeated
  <1>3. state' = [b \in Addr |-> IF b \in {cur} THEN "none" ELSE state[b]]
    BY <1>0, <1>1, CloseOne, Zenon
  <1>4. \A b \in {cur} : queue[b] = << >>
    BY <1>1, Zenon
  <1>5. /\ QueuesOK(queue, state', last, Pending, Repeated)
        /\ state' \in [Addr -> States]
        /\ \A b \in Addr : state'[b] # "none" => state[b] # "none" /\ b \notin {cur}
    BY <1>0, <1>3, <1>4, ClosedFacts, Zenon
  <1>6. TypeOK'
    BY <1>0, <1>1, <1>5, Zenon DEF TypeOK
  <1>7. TableOK' /\ Accounted'
    BY <1>0, <1>1, <1>5, Zenon DEF TableOK, Accounted
  <1> QED
    BY <1>1, <1>2, <1>5, <1>6, <1>7, Conclude, Zenon

LEMMA TimePassesInv ==
  ASSUME Inv, life # "crashed", TimePasses
  PROVE  Inv'
  <1>0. /\ TypeOK /\ TableOK /\ Accounted
        /\ QueuesOK(queue, state, last, Pending, Repeated)
    BY Zenon DEF Inv
  <1>1. UNCHANGED <<nodes, table, state, queue, err, cmd, shutdown, closing, at, cur, doomed,
                    running, life>>
    BY Zenon DEF TimePasses, stack
  <1>2. Pending' = Pending /\ Repeated' = Repeated
    BY <1>1, Zenon DEF Pending, Repeated
  <1>3. /\ attempt' \in [Addr -> {"old", "recent"}]
        /\ last' \in {"old", "recent", "ongoing"}
        /\ last' = "ongoing" <=> last = "ongoing"
    BY <1>0, Zenon DEF TimePasses, TypeOK
  <1>4. TypeOK'
    BY <1>0, <1>1, <1>3, Zenon DEF TypeOK
  <1>5. TableOK' /\ Accounted'
    BY <1>0, <1>1, Zenon DEF TableOK, Accounted
  <1>6. QueuesOK(queue, state, last', Pending, Repeated)
    BY <1>0, <1>3, Zenon DEF QueuesOK
  <1>7. QueuesOK(queue', state', last', Pending', Repeated')
    BY <1>1, <1>2, <1>6, Zenon
  <1> QED
    BY <1>1, <1>4, <1>5, <1>7, Conclude, Zenon

-----------------------------------------------------------------------------
(* The context at, or none, is closed once its handler has returned.       *)
LEMMA ReturnInv ==
  ASSUME Inv, life # "crashed", at' \in {at, NULL}, running' \in {running, NULL}, err' \in BOOLEAN,
         UNCHANGED <<nodes, table, queue, attempt, last, cmd, shutdown, cur, doomed, life>>,
         \/ UNCHANGED <<state, closing>>
         \/ Drained(at) /\ state' = [state EXCEPT ![at] = "none"] /\ closing' = closing \ {at}
  PROVE  Inv'
  <1>0. /\ TypeOK /\ TableOK /\ Accounted
        /\ QueuesOK(queue, state, last, Pending, Repeated)
    BY Zenon DEF Inv
  <1>1. cmd' = cmd
    BY Zenon
  <1>2. Pending' = Pending /\ Repeated' = Repeated
    BY <1>1, Zenon DEF Pending, Repeated
  <1>3. /\ QueuesOK(queue, state', last, Pending, Repeated)
        /\ state' \in [Addr -> States] /\ closing' \subseteq Addr
        /\ \A b \in Addr : state'[b] # "none" => state[b] # "none"
    <2>1. CASE UNCHANGED <<state, closing>>
      BY <1>0, <2>1, Zenon DEF TypeOK
    <2>2. CASE Drained(at) /\ state' = [state EXCEPT ![at] = "none"] /\ closing' = closing \ {at}
      <3>1. state' = [b \in Addr |-> IF b \in {at} THEN "none" ELSE state[b]]
        BY <1>0, <2>2, CloseOne, ZenonT(30)
      <3>2. \A b \in {at} : queue[b] = << >>
        BY <2>2, Zenon DEF Drained
      <3>3. /\ QueuesOK(queue, state', last, Pending, Repeated)
            /\ state' \in [Addr -> States]
            /\ \A b \in Addr : state'[b] # "none" => state[b] # "none" /\ b \notin {at}
        BY <1>0, <3>1, <3>2, ClosedFacts, Zenon
      <3> QED
        BY <1>0, <2>2, <3>3, Zenon DEF TypeOK
    <2> QED
      BY <2>1, <2>2, Zenon
  <1>4. TypeOK'
    BY <1>0, <1>3, ZenonT(30) DEF TypeOK
  <1>5. TableOK' /\ Accounted'
    BY <1>0, <1>3, Zenon DEF TableOK, Accounted
  <1>6. QueuesOK(queue', state', last', Pending', Repeated')
    BY <1>2, <1>3, Zenon
  <1> QED
    BY <1>4, <1>5, <1>6, Conclude, Zenon

LEMMA CallbackReturnsInv ==
  ASSUME Inv, life # "crashed", CallbackReturns
  PROVE  Inv'
  <1>1. /\ at' \in {at, NULL} /\ running' \in {running, NULL} /\ err' \in BOOLEAN
        /\ UNCHANGED <<nodes, table, queue, attempt, last, cmd, shutdown, cur, doomed, life>>
        /\ \/ UNCHANGED <<state, closing>>
           \/ Drained(at) /\ state' = [state EXCEPT ![at] = "none"] /\ closing' = closing \ {at}
    BY Zenon DEF CallbackReturns
  <1> QED
    BY <1>1, ReturnInv, Zenon

LEMMA EndUpdateInv ==
  ASSUME Inv, life # "crashed", EndUpdate
  PROVE  Inv'
  <1>1. /\ at' \in {at, NULL} /\ running' \in {running, NULL}
        /\ UNCHANGED <<nodes, table, queue, attempt, last, cmd, shutdown, cur, doomed, life>>
        /\ \/ UNCHANGED <<state, closing>>
           \/ Drained(at) /\ state' = [state EXCEPT ![at] = "none"] /\ closing' = closing \ {at}
    BY Zenon DEF EndUpdate
  <1>2. err' \in BOOLEAN
    BY Zenon DEF EndUpdate, Inv, TypeOK
  <1> QED
    BY <1>1, <1>2, ReturnInv, Zenon

(* ASKING is answered, or its context lost.                                *)
LEMMA AskingInv ==
  ASSUME Inv, life # "crashed", NEW a \in Addr, queue[a] # << >>, Head(queue[a]) = "asking",
         queue' = Pop(queue, a),
         UNCHANGED <<nodes, table, state, attempt, last, err, cmd, shutdown, closing, at, cur,
                     doomed, running, life>>
  PROVE  Inv'
  <1>0. /\ TypeOK /\ TableOK /\ Accounted
        /\ QueuesOK(queue, state, last, Pending, Repeated)
    BY Zenon DEF Inv
  <1>1. cmd' = cmd
    BY Zenon
  <1>2. Pending' = Pending /\ Repeated' = Repeated
    BY <1>1, Zenon DEF Pending, Repeated
  <1>3. QueuesOK(Pop(queue, a), state, last, Pending, Repeated)
    BY <1>0, PopAskingReply, Zenon
  <1>4. queue' \in [Addr -> Seq(Entries)]
    BY <1>3, Zenon DEF QueuesOK
  <1>5. TypeOK'
    BY <1>0, <1>4, Zenon DEF TypeOK
  <1>6. TableOK' /\ Accounted'
    BY <1>0, ZenonT(30) DEF TableOK, Accounted
  <1>7. QueuesOK(queue', state', last', Pending', Repeated')
    BY <1>2, <1>3, Zenon
  <1> QED
    BY <1>5, <1>6, <1>7, Conclude, Zenon

LEMMA AskingReplyInv ==
  ASSUME Inv, life # "crashed", NEW a \in Addr, AskingReply(a)
  PROVE  Inv'
  <1>1. /\ queue[a] # << >> /\ Head(queue[a]) = "asking" /\ queue' = Pop(queue, a)
        /\ UNCHANGED <<nodes, table, state, attempt, last, err, cmd, shutdown, closing, at, cur,
                       doomed, running, life>>
    BY Zenon DEF AskingReply, Arrives, stack
  <1> QED
    BY <1>1, AskingInv, Zenon

LEMMA AskingNullInv ==
  ASSUME Inv, life # "crashed", AskingNull
  PROVE  Inv'
  <1>1. /\ cur # NULL /\ queue[cur] # << >> /\ Head(queue[cur]) = "asking"
        /\ queue' = Pop(queue, cur)
        /\ UNCHANGED <<nodes, table, state, attempt, last, err, cmd, shutdown, closing, at, cur,
                       doomed, running, life>>
    BY Zenon DEF AskingNull, stack
  <1>2. cur \in Addr
    BY <1>1, Zenon DEF Inv, TypeOK
  <1> QED
    BY <1>1, <1>2, AskingInv, Zenon

-----------------------------------------------------------------------------
(* A reply, or the end of its context, takes a command off its queue.      *)
LEMMA TakenFacts ==
  ASSUME Inv, life # "crashed", NEW a \in Addr, NEW i \in Cmd, queue[a] # << >>, i = Head(queue[a])
  PROVE  /\ QueuesOK(Pop(queue, a), state, last, Pending \ {i}, Repeated)
         /\ QueuesOK(Pop(queue, a), state, last, Pending \ {i}, Repeated \ {i})
         /\ QueuesOK(Pop(queue, a), state, last, Pending \ {i}, Repeated \union {i})
         /\ i \in Pending /\ (Pending \ {i}) \union {i} = Pending
         /\ Repeated \subseteq Cmd /\ Repeated \ {i} \subseteq Cmd
         /\ Repeated \union {i} \subseteq Cmd
         /\ state[a] # "none"
  <1>0. QueuesOK(queue, state, last, Pending, Repeated)
    BY Zenon DEF Inv
  <1>1. QueuesOK(Pop(queue, a), state, last, Pending \ {i}, Repeated) /\ i \in Pending
    BY <1>0, PopCmd, Zenon
  <1>2. Repeated \subseteq Cmd
    BY Zenon DEF Repeated
  <1>3. QueuesOK(Pop(queue, a), state, last, Pending \ {i}, Repeated \ {i})
    BY <1>1, <1>2, Reframed, Zenon
  <1>4. QueuesOK(Pop(queue, a), state, last, Pending \ {i}, Repeated \union {i})
    BY <1>1, <1>2, Reframed, Zenon
  <1>5. state[a] # "none"
    BY <1>0, Zenon DEF QueuesOK
  <1> QED
    BY <1>1, <1>2, <1>3, <1>4, <1>5, Zenon

(* The callback of a command is called.                                    *)
LEMMA DeliveredInv ==
  ASSUME Inv, life # "crashed", NEW i \in Cmd, NEW e, NEW received \in BOOLEAN, Deliver(i, e, received),
         QueuesOK(queue', state', last', Pending \ {i}, Repeated \ {i}),
         state' \in [Addr -> States], attempt' \in [Addr -> {"old", "recent"}],
         last' \in {"old", "recent", "ongoing"}, err' \in BOOLEAN,
         nodes' \subseteq Addr, nodes \subseteq nodes',
         \A b \in Addr : state'[b] # "none" => state[b] # "none" \/ b \in nodes',
         at' \in Addr \union {NULL},
         life' \in {"alive", "freed", "crashed"},
         UNCHANGED <<table, shutdown, closing, cur, doomed>>
  PROVE  Inv'
  <1>0. /\ TypeOK /\ TableOK /\ Accounted
        /\ QueuesOK(queue, state, last, Pending, Repeated)
    BY Zenon DEF Inv
  <1>1. /\ cmd' \in [Cmd -> [st : {"idle", "refused", "pending"} \union Outcomes,
                             slot : Slot \union {NULL}, retry : NO_RETRY .. MaxRetry]]
        /\ Pending' = Pending \ {i} /\ Repeated' = Repeated \ {i} /\ running' = i
    BY <1>0, DeliverFacts
  <1>2. queue' \in [Addr -> Seq(Entries)]
    BY Zenon DEF QueuesOK
  <1>3. TypeOK'
    BY <1>0, <1>1, <1>2, Zenon DEF TypeOK
  <1>4. TableOK' /\ Accounted'
    BY <1>0, Zenon DEF TableOK, Accounted
  <1> QED
    BY <1>1, <1>3, <1>4, Conclude, Zenon

(* A command is sent again.                                                *)
LEMMA RetriedInv ==
  ASSUME Inv, life # "crashed", NEW i \in Cmd, cmd[i].retry # NO_RETRY, ~Exhausted(i), Retry(i),
         QueuesOK(queue', state', last', Pending, Repeated \union {i}),
         state' \in [Addr -> States], attempt' \in [Addr -> {"old", "recent"}],
         last' \in {"old", "recent", "ongoing"}, err' \in BOOLEAN,
         nodes' \subseteq Addr, nodes \subseteq nodes',
         \A b \in Addr : state'[b] # "none" => state[b] # "none" \/ b \in nodes',
         table' \in [Slot -> nodes' \union {NULL}],
         UNCHANGED <<shutdown, closing, at, cur, doomed, running, life>>
  PROVE  Inv'
  <1>0. /\ TypeOK /\ TableOK /\ Accounted
        /\ QueuesOK(queue, state, last, Pending, Repeated)
    BY Zenon DEF Inv
  <1>1. /\ cmd' \in [Cmd -> [st : {"idle", "refused", "pending"} \union Outcomes,
                             slot : Slot \union {NULL}, retry : NO_RETRY .. MaxRetry]]
        /\ Pending' = Pending /\ Repeated' = Repeated \union {i}
    BY <1>0, RetryFacts, Zenon
  <1>2. queue' \in [Addr -> Seq(Entries)] /\ table' \in [Slot -> Addr \union {NULL}]
    BY Zenon DEF QueuesOK
  <1>3. TypeOK'
    BY <1>0, <1>1, <1>2, Zenon DEF TypeOK
  <1>4. TableOK' /\ Accounted'
    BY <1>0, Zenon DEF TableOK, Accounted
  <1> QED
    BY <1>1, <1>3, <1>4, Conclude, Zenon

-----------------------------------------------------------------------------
(* An ordinary reply preserves the invariant.                              *)
LEMMA CallbackDoneInv ==
  ASSUME Inv, life # "crashed", NEW a \in Addr, NEW i \in Cmd, NEW r \in Reply, CallbackDone(a, i, r)
  PROVE  Inv'
  <1>0. TypeOK
    BY Zenon DEF Inv
  <1>1. /\ queue[a] # << >> /\ i = Head(queue[a])
        /\ Deliver(i, err, TRUE) /\ queue' = Pop(queue, a) /\ at' = a
        /\ UNCHANGED <<nodes, table, state, attempt, last, err, shutdown, closing, cur, doomed,
                       life>>
    BY Zenon DEF CallbackDone, Arrives
  <1>2. QueuesOK(queue', state', last', Pending \ {i}, Repeated \ {i})
    BY <1>1, TakenFacts, Zenon
  <1>3. /\ state' \in [Addr -> States] /\ attempt' \in [Addr -> {"old", "recent"}]
        /\ last' \in {"old", "recent", "ongoing"} /\ err' \in BOOLEAN
        /\ nodes' \subseteq Addr /\ nodes \subseteq nodes'
        /\ \A b \in Addr : state'[b] # "none" => state[b] # "none" \/ b \in nodes'
        /\ at' \in Addr \union {NULL} /\ life' \in {"alive", "freed", "crashed"}
    BY <1>0, <1>1, Zenon DEF TypeOK
  <1> QED
    BY <1>1, <1>2, <1>3, DeliveredInv, Zenon

(* A command that is given up preserves the invariant.                     *)
LEMMA CallbackFailedInv ==
  ASSUME Inv, life # "crashed", NEW a \in Addr, NEW i \in Cmd, NEW r \in Reply, CallbackFailed(a, i, r)
  PROVE  Inv'
  <1>0. TypeOK
    BY Zenon DEF Inv
  <1>1. /\ queue[a] # << >> /\ i = Head(queue[a])
        /\ Deliver(i, TRUE, FALSE) /\ err' = TRUE /\ at' = a
        /\ \/ last = "old" /\ queue' = Put(Pop(queue, a), a, "slotmap") /\ last' = "ongoing"
           \/ queue' = Pop(queue, a) /\ UNCHANGED last
        /\ UNCHANGED <<nodes, table, state, attempt, shutdown, closing, cur, doomed, life>>
    BY Zenon DEF CallbackFailed, Arrives
  <1>2. /\ QueuesOK(Pop(queue, a), state, last, Pending \ {i}, Repeated \ {i})
        /\ state[a] # "none"
    BY <1>1, TakenFacts, ZenonT(30)
  <1>3. QueuesOK(queue', state', last', Pending \ {i}, Repeated \ {i})
    <2>1. CASE last = "old" /\ queue' = Put(Pop(queue, a), a, "slotmap") /\ last' = "ongoing"
      <3>1. QueuesOK(Put(Pop(queue, a), a, "slotmap"), state, "ongoing", Pending \ {i},
                     Repeated \ {i})
        BY <1>2, <2>1, PutSlotmap
      <3> QED
        BY <1>1, <2>1, <3>1, Zenon
    <2>2. CASE queue' = Pop(queue, a) /\ UNCHANGED last
      BY <1>1, <1>2, <2>2, Zenon
    <2> QED
      BY <1>1, <2>1, <2>2, ZenonT(30)
  <1>4. /\ state' \in [Addr -> States] /\ attempt' \in [Addr -> {"old", "recent"}]
        /\ last' \in {"old", "recent", "ongoing"} /\ err' \in BOOLEAN
        /\ nodes' \subseteq Addr /\ nodes \subseteq nodes'
        /\ \A b \in Addr : state'[b] # "none" => state[b] # "none" \/ b \in nodes'
        /\ at' \in Addr \union {NULL} /\ life' \in {"alive", "freed", "crashed"}
    BY <1>0, <1>1, Zenon DEF TypeOK
  <1> QED
    BY <1>1, <1>3, <1>4, DeliveredInv, Zenon

(* TRYAGAIN preserves the invariant.                                       *)
LEMMA CallbackTryAgainInv ==
  ASSUME Inv, life # "crashed", NEW a \in Addr, NEW i \in Cmd, NEW r \in Reply, CallbackTryAgain(a, i, r)
  PROVE  Inv'
  <1>0. TypeOK /\ TableOK
    BY Zenon DEF Inv
  <1>1. /\ queue[a] # << >> /\ i = Head(queue[a])
        /\ cmd[i].retry # NO_RETRY /\ ~Exhausted(i) /\ Retry(i)
        /\ queue' = Put(Pop(queue, a), a, i)
        /\ UNCHANGED <<nodes, table, state, attempt, last, err, shutdown, closing, at, cur, doomed,
                       running, life>>
    BY Zenon DEF CallbackTryAgain, Arrives, Retried, stack
  <1>2. /\ QueuesOK(Pop(queue, a), state, last, Pending \ {i}, Repeated \union {i})
        /\ (Pending \ {i}) \union {i} = Pending
        /\ state[a] # "none" /\ i \notin Pending \ {i}
    BY <1>1, TakenFacts, Zenon
  <1>3. QueuesOK(Put(Pop(queue, a), a, i), state, last, (Pending \ {i}) \union {i},
                 Repeated \union {i})
    BY <1>2, PutCmd, Zenon
  <1>4. QueuesOK(queue', state', last', Pending, Repeated \union {i})
    BY <1>1, <1>2, <1>3, Zenon
  <1>5. /\ state' \in [Addr -> States] /\ attempt' \in [Addr -> {"old", "recent"}]
        /\ last' \in {"old", "recent", "ongoing"} /\ err' \in BOOLEAN
        /\ nodes' \subseteq Addr /\ nodes \subseteq nodes'
        /\ \A b \in Addr : state'[b] # "none" => state[b] # "none" \/ b \in nodes'
        /\ table' \in [Slot -> nodes' \union {NULL}]
    BY <1>0, <1>1, Zenon DEF TypeOK, TableOK
  <1> QED
    BY <1>1, <1>4, <1>5, RetriedInv, Zenon

(* ASK preserves the invariant.                                            *)
LEMMA CallbackAskInv ==
  ASSUME Inv, life # "crashed", NEW a \in Addr, NEW i \in Cmd, NEW r \in Reply, CallbackAsk(a, i, r)
  PROVE  Inv'
  <1>0. TypeOK /\ TableOK
    BY Zenon DEF Inv
  <1>1. /\ queue[a] # << >> /\ i = Head(queue[a])
        /\ cmd[i].retry # NO_RETRY /\ ~Exhausted(i) /\ r.type = "ask"
        /\ nodes' = nodes \union {r.node}
        /\ UNCHANGED <<table, last, shutdown, closing, cur, doomed, life>>
    BY Zenon DEF CallbackAsk, Arrives, Retried
  <1>2. PICK ok \in BOOLEAN :
          /\ actx_get_by_node(r.node, ok)
          /\ err' = (err \/ ~ok)
          /\ IF ok
             THEN /\ queue' = Put(Put(Pop(queue, a), r.node, "asking"), r.node, i)
                  /\ Retry(i)
                  /\ UNCHANGED <<at, running>>
             ELSE /\ queue' = Pop(queue, a)
                  /\ Deliver(i, TRUE, FALSE)
                  /\ at' = a
    BY Zenon DEF CallbackAsk
  <1>3. r.node \in Addr
    BY <1>1, Zenon DEF Reply
  <1>4. /\ state' \in [Addr -> States]
        /\ attempt' \in [Addr -> {"old", "recent"}]
        /\ \A b \in Addr : state[b] # "none" => state'[b] # "none"
        /\ \A b \in Addr : state'[b] # "none" => state[b] # "none" \/ b = r.node
        /\ ok => state'[r.node] # "none"
    BY <1>0, <1>2, <1>3, ContextFacts, Zenon
  <1>5. /\ QueuesOK(Pop(queue, a), state, last, Pending \ {i}, Repeated \ {i})
        /\ QueuesOK(Pop(queue, a), state, last, Pending \ {i}, Repeated \union {i})
        /\ (Pending \ {i}) \union {i} = Pending
        /\ Repeated \ {i} \subseteq Cmd /\ Repeated \union {i} \subseteq Cmd
        /\ i \notin Pending \ {i} /\ i \in Repeated \union {i}
    BY <1>1, TakenFacts, Zenon
  <1>6. /\ last' \in {"old", "recent", "ongoing"} /\ err' \in BOOLEAN
        /\ nodes' \subseteq Addr /\ nodes \subseteq nodes'
        /\ \A b \in Addr : state'[b] # "none" => state[b] # "none" \/ b \in nodes'
        /\ table' \in [Slot -> nodes' \union {NULL}]
    <2>1. last' \in {"old", "recent", "ongoing"} /\ err' \in BOOLEAN
      BY <1>0, <1>1, <1>2, Zenon DEF TypeOK
    <2>2. nodes' \subseteq Addr /\ nodes \subseteq nodes' /\ r.node \in nodes'
      BY <1>0, <1>1, <1>3, Zenon DEF TypeOK
    <2>3. table' \in [Slot -> nodes' \union {NULL}]
      BY <1>0, <1>1, <2>2, Zenon DEF TableOK
    <2> QED
      BY <1>4, <2>1, <2>2, <2>3, Zenon
  <1>7. CASE ok
    <2>1. QueuesOK(Pop(queue, a), state', last, Pending \ {i}, Repeated \union {i})
      BY <1>4, <1>5, NewContext, Zenon
    <2>2. QueuesOK(Put(Put(Pop(queue, a), r.node, "asking"), r.node, i), state', last,
                   (Pending \ {i}) \union {i}, Repeated \union {i})
      BY <1>3, <1>4, <1>5, <1>7, <2>1, PutAsked, Zenon
    <2>3. /\ QueuesOK(queue', state', last', Pending, Repeated \union {i})
          /\ Retry(i) /\ UNCHANGED <<at, running>>
      BY <1>1, <1>2, <1>5, <1>7, <2>2, Zenon
    <2> QED
      BY <1>1, <1>4, <1>6, <2>3, RetriedInv, ZenonT(30)
  <1>8. CASE ~ok
    <2>1. QueuesOK(Pop(queue, a), state', last, Pending \ {i}, Repeated \ {i})
      BY <1>4, <1>5, NewContext, Zenon
    <2>2. /\ QueuesOK(queue', state', last', Pending \ {i}, Repeated \ {i})
          /\ Deliver(i, TRUE, FALSE) /\ at' \in Addr \union {NULL}
      BY <1>1, <1>2, <1>8, <2>1, Zenon
    <2>3. life' \in {"alive", "freed", "crashed"}
      BY <1>0, <1>1, Zenon DEF TypeOK
    <2> QED
      BY <1>1, <1>4, <1>6, <2>2, <2>3, DeliveredInv, Zenon
  <1> QED
    BY <1>7, <1>8, Zenon

(* MOVED preserves the invariant, also where the context is missing.       *)
LEMMA CallbackMovedInv ==
  ASSUME Inv, life # "crashed", NEW a \in Addr, NEW i \in Cmd, NEW r \in Reply, CallbackMoved(a, i, r)
  PROVE  Inv'
  <1>0. /\ TypeOK /\ TableOK /\ Accounted
        /\ QueuesOK(queue, state, last, Pending, Repeated)
    BY Zenon DEF Inv
  <1> DEFINE Q == IF last = "old" THEN Put(Pop(queue, a), a, "slotmap") ELSE Pop(queue, a)
  <1>1. /\ queue[a] # << >> /\ i = Head(queue[a])
        /\ cmd[i].retry # NO_RETRY /\ ~Exhausted(i) /\ r.type = "moved" /\ Retry(i)
        /\ nodes' = nodes \union {r.node}
        /\ table' = [table EXCEPT ![cmd[i].slot] = r.node]
        /\ last' = IF last = "old" THEN "ongoing" ELSE last
        /\ UNCHANGED <<shutdown, closing, at, cur, doomed, running>>
    BY Zenon DEF CallbackMoved, Arrives, Retried, stack
  <1>2. PICK ok \in BOOLEAN :
          /\ actx_get_by_node(r.node, ok)
          /\ queue' = IF ok THEN Put(Q, r.node, i) ELSE Q
          /\ err' = (err \/ ~ok)
          /\ life' = IF ok THEN life ELSE "crashed"
    BY Zenon DEF CallbackMoved
  <1>3. r.node \in Addr
    BY <1>1, Zenon DEF Reply
  <1>4. /\ state' \in [Addr -> States]
        /\ attempt' \in [Addr -> {"old", "recent"}]
        /\ \A b \in Addr : state[b] # "none" => state'[b] # "none"
        /\ \A b \in Addr : state'[b] # "none" => state[b] # "none" \/ b = r.node
        /\ ok => state'[r.node] # "none"
    BY <1>0, <1>2, <1>3, ContextFacts, Zenon
  <1>5. /\ QueuesOK(Pop(queue, a), state, last, Pending \ {i}, Repeated \union {i})
        /\ (Pending \ {i}) \union {i} = Pending
        /\ Repeated \union {i} \subseteq Cmd
        /\ i \notin Pending \ {i} /\ state[a] # "none"
    BY <1>1, TakenFacts, Zenon
  <1>6. QueuesOK(Pop(queue, a), state', last, Pending \ {i}, Repeated \union {i})
    BY <1>4, <1>5, NewContext, Zenon
  <1>7. QueuesOK(Q, state', last', Pending \ {i}, Repeated \union {i})
    <2>1. CASE last = "old"
      <3>1. QueuesOK(Put(Pop(queue, a), a, "slotmap"), state', "ongoing", Pending \ {i},
                     Repeated \union {i})
        BY <1>4, <1>5, <1>6, <2>1, PutSlotmap
      <3> QED
        BY <1>1, <2>1, <3>1, ZenonT(30)
    <2>2. CASE last # "old"
      BY <1>1, <1>6, <2>2, ZenonT(30)
    <2> QED
      BY <2>1, <2>2, Zenon
  <1> HIDE DEF Q
  <1>8. /\ last' \in {"old", "recent", "ongoing"} /\ err' \in BOOLEAN
        /\ nodes' \subseteq Addr /\ nodes \subseteq nodes'
        /\ \A b \in Addr : state'[b] # "none" => state[b] # "none" \/ b \in nodes'
        /\ table' \in [Slot -> nodes' \union {NULL}]
    <2>1. last' \in {"old", "recent", "ongoing"} /\ err' \in BOOLEAN
      BY <1>0, <1>1, <1>2, Zenon DEF TypeOK
    <2>2. nodes' \subseteq Addr /\ nodes \subseteq nodes' /\ r.node \in nodes'
      BY <1>0, <1>1, <1>3, Zenon DEF TypeOK
    <2>3. table' \in [Slot -> nodes' \union {NULL}]
      BY <1>0, <1>1, <2>2, Zenon DEF TableOK
    <2> QED
      BY <1>4, <2>1, <2>2, <2>3, Zenon
  <1>9. CASE ok
    <2>1. QueuesOK(Put(Q, r.node, i), state', last', (Pending \ {i}) \union {i},
                   Repeated \union {i})
      BY <1>3, <1>4, <1>5, <1>7, <1>9, PutCmd, ZenonT(30)
    <2>2. QueuesOK(queue', state', last', Pending, Repeated \union {i})
      BY <1>2, <1>5, <1>9, <2>1, Zenon
    <2>3. UNCHANGED life
      BY <1>0, <1>2, <1>9, Zenon DEF TypeOK
    <2> QED
      BY <1>1, <1>4, <1>8, <2>2, <2>3, RetriedInv, ZenonT(30)
  <1>10. CASE ~ok
    <2>1. queue' = Q /\ life' = "crashed"
      BY <1>2, <1>10, Zenon
    <2>2. /\ cmd' \in [Cmd -> [st : {"idle", "refused", "pending"} \union Outcomes,
                             slot : Slot \union {NULL}, retry : NO_RETRY .. MaxRetry]]
          /\ Repeated' = Repeated \union {i}
      BY <1>0, <1>1, RetryFacts, Zenon
    <2>3. QueuesOK(queue', state', last', Pending \ {i}, Repeated')
      BY <1>7, <2>1, <2>2, Zenon
    <2>4. queue' \in [Addr -> Seq(Entries)] /\ table' \in [Slot -> Addr \union {NULL}]
      BY <1>8, <2>3, ZenonT(30) DEF QueuesOK
    <2>5. TypeOK'
      BY <1>0, <1>1, <1>4, <1>8, <2>1, <2>2, <2>4, ZenonT(30) DEF TypeOK
    <2>6. TableOK' /\ Accounted'
      BY <1>0, <1>1, <1>8, Zenon DEF TableOK, Accounted
    <2>7. Pending \ {i} \in SUBSET Cmd
      BY Zenon DEF Pending
    <2>8. \E P \in SUBSET Cmd : QueuesOK(queue', state', last', P, Repeated')
      BY <2>3, <2>7, Zenon
    <2> QED
      BY <2>1, <2>5, <2>6, <2>8, Zenon DEF Inv
  <1> QED
    BY <1>9, <1>10, Zenon

(* The end of a command's context preserves the invariant.                 *)
LEMMA CallbackNullInv ==
  ASSUME Inv, life # "crashed", NEW i \in Cmd, CallbackNull(i)
  PROVE  Inv'
  <1>0. TypeOK
    BY Zenon DEF Inv
  <1>1. /\ cur # NULL /\ queue[cur] # << >> /\ i = Head(queue[cur])
        /\ Deliver(i, TRUE, FALSE) /\ err' \in BOOLEAN
        /\ \/ \E fail \in BOOLEAN : throttledUpdateSlotMapAsync(Pop(queue, cur), fail)
           \/ queue' = Pop(queue, cur) /\ UNCHANGED <<state, attempt, last, life>>
        /\ UNCHANGED <<nodes, table, shutdown, closing, at, cur, doomed>>
    BY Zenon DEF CallbackNull
  <1>2. cur \in Addr
    BY <1>0, <1>1, Zenon DEF TypeOK
  <1>3. /\ QueuesOK(Pop(queue, cur), state, last, Pending \ {i}, Repeated \ {i})
        /\ Repeated \ {i} \subseteq Cmd
    <2>1. queue[cur] # << >> /\ i = Head(queue[cur])
      BY <1>1, Zenon
    <2> QED
      BY <1>2, <2>1, TakenFacts, Zenon
  <1>4. /\ QueuesOK(queue', state', last', Pending \ {i}, Repeated \ {i})
        /\ state' \in [Addr -> States]
        /\ attempt' \in [Addr -> {"old", "recent"}]
        /\ last' \in {"old", "recent", "ongoing"}
        /\ life' \in {"alive", "freed", "crashed"}
        /\ \A b \in Addr : state'[b] # "none" => state[b] # "none" \/ b \in nodes
    <2>1. CASE \E fail \in BOOLEAN : throttledUpdateSlotMapAsync(Pop(queue, cur), fail)
      BY <1>0, <1>3, <2>1, ThrottledFacts, Zenon
    <2>2. CASE queue' = Pop(queue, cur) /\ UNCHANGED <<state, attempt, last, life>>
      BY <1>0, <1>3, <2>2, Zenon DEF TypeOK
    <2> QED
      BY <1>1, <2>1, <2>2, Zenon
  <1>5. nodes' \subseteq Addr /\ nodes \subseteq nodes' /\ at' \in Addr \union {NULL}
    BY <1>0, <1>1, Zenon DEF TypeOK
  <1>6. \A b \in Addr : state'[b] # "none" => state[b] # "none" \/ b \in nodes'
    BY <1>1, <1>4, Zenon
  <1> QED
    BY <1>1, <1>4, <1>5, <1>6, DeliveredInv, Zenon

-----------------------------------------------------------------------------
(* A new topology preserves the invariant.                                 *)
LEMMA SlotmapReplyInv ==
  ASSUME Inv, life # "crashed", NEW a \in Addr, NEW m \in Maps, SlotmapReply(a, m)
  PROVE  Inv'
  <1>0. /\ TypeOK /\ TableOK /\ Accounted
        /\ QueuesOK(queue, state, last, Pending, Repeated)
    BY Zenon DEF Inv
  <1>1. /\ queue[a] # << >> /\ Head(queue[a]) = "slotmap" /\ cur = NULL /\ doomed = {}
        /\ queue' = Pop(queue, a) /\ last' = "recent" /\ nodes' = m.nodes /\ table' = m.table
        /\ attempt' = [b \in Addr |-> "old"]
        /\ doomed' = {b \in nodes \ m.nodes : state[b] # "none"} /\ at' = a
        /\ UNCHANGED <<state, err, cmd, shutdown, closing, cur, running, life>>
    BY Zenon DEF SlotmapReply, Arrives, Idle
  <1>2. Pending' = Pending /\ Repeated' = Repeated
    BY <1>1, Zenon DEF Pending, Repeated
  <1>3. QueuesOK(Pop(queue, a), state, "recent", Pending, Repeated)
    BY <1>0, <1>1, PopSlotmap, Zenon
  <1>4. queue' \in [Addr -> Seq(Entries)]
    BY <1>1, <1>3, ZenonT(30) DEF QueuesOK
  <1>5. nodes' \subseteq Addr /\ TableOK'
    BY <1>1, AsyncAssumption, Zenon DEF IsMap, TableOK
  <1>6. table' \in [Slot -> Addr \union {NULL}]
    BY <1>5, Zenon DEF TableOK
  <1>7. attempt' \in [Addr -> {"old", "recent"}] /\ doomed' \subseteq Addr
    BY <1>0, <1>1, ZenonT(30) DEF TypeOK
  <1>8. TypeOK'
    BY <1>0, <1>1, <1>4, <1>5, <1>6, <1>7, ZenonT(30) DEF TypeOK
  <1>9. Accounted'
    BY <1>0, <1>1, AsyncAssumption, Zenon DEF Accounted
  <1>10. QueuesOK(queue', state', last', Pending', Repeated')
    BY <1>1, <1>2, <1>3, ZenonT(30)
  <1> QED
    BY <1>1, <1>5, <1>8, <1>9, <1>10, Conclude, Zenon

(* A slotmap query that brought nothing is sent again, if it can be.       *)
LEMMA QueryAgainInv ==
  ASSUME Inv, life # "crashed", NEW a \in Addr, queue[a] # << >>, Head(queue[a]) = "slotmap",
         NEW fail \in BOOLEAN, updateSlotMapAsync(Pop(queue, a), "recent", fail),
         err' = (err \/ fail),
         UNCHANGED <<nodes, table, cmd, shutdown, closing, at, cur, doomed, running>>
  PROVE  Inv'
  <1>0. /\ TypeOK /\ TableOK /\ Accounted
        /\ QueuesOK(queue, state, last, Pending, Repeated)
    BY Zenon DEF Inv
  <1>1. Repeated \subseteq Cmd /\ Pending' = Pending /\ Repeated' = Repeated
    BY Zenon DEF Pending, Repeated
  <1>2. QueuesOK(Pop(queue, a), state, "recent", Pending, Repeated)
    BY <1>0, PopSlotmap, Zenon
  <1>3. /\ QueuesOK(queue', state', last', Pending, Repeated)
        /\ state' \in [Addr -> States]
        /\ attempt' \in [Addr -> {"old", "recent"}]
        /\ last' \in {"old", "recent", "ongoing"}
        /\ life' \in {"alive", "freed", "crashed"}
        /\ \A b \in Addr : state'[b] # "none" => state[b] # "none" \/ b \in nodes
    BY <1>0, <1>1, <1>2, UpdateFacts, Zenon
  <1>4. queue' \in [Addr -> Seq(Entries)] /\ err' \in BOOLEAN
    BY <1>0, <1>3, Zenon DEF QueuesOK, TypeOK
  <1>5. TypeOK'
    BY <1>0, <1>3, <1>4, Zenon DEF TypeOK
  <1>6. TableOK' /\ Accounted'
    BY <1>0, <1>3, Zenon DEF TableOK, Accounted
  <1> QED
    BY <1>1, <1>3, <1>5, <1>6, Conclude, Zenon

LEMMA SlotmapInvalidInv ==
  ASSUME Inv, life # "crashed", NEW a \in Addr, SlotmapInvalid(a)
  PROVE  Inv'
  <1>0. /\ TypeOK /\ TableOK /\ Accounted
        /\ QueuesOK(queue, state, last, Pending, Repeated)
    BY Zenon DEF Inv
  <1>1. /\ queue[a] # << >> /\ Head(queue[a]) = "slotmap"
        /\ UNCHANGED <<nodes, table, cmd, shutdown, at, cur, doomed, running>>
    BY ZenonT(30) DEF SlotmapInvalid, Arrives, stack
  <1>2. CASE /\ \E fail \in BOOLEAN :
                  /\ updateSlotMapAsync(Pop(queue, a), "recent", fail)
                  /\ err' = (err \/ fail)
             /\ UNCHANGED closing
    BY <1>1, <1>2, QueryAgainInv, ZenonT(30)
  <1>3. CASE /\ LastWait(a) /\ queue' = Pop(queue, a) /\ last' = "recent"
             /\ state' = [state EXCEPT ![a] = "none"] /\ closing' = closing \ {a}
             /\ UNCHANGED <<attempt, err, life>>
    <2>1. Pending' = Pending /\ Repeated' = Repeated
      BY <1>1, ZenonT(30) DEF Pending, Repeated
    <2>2. QueuesOK(Pop(queue, a), state, "recent", Pending, Repeated)
      BY <1>0, <1>1, PopSlotmap, Zenon
    <2>3. queue \in [Addr -> Seq(Entries)]
      BY <1>0, Zenon DEF TypeOK
    <2>4. /\ Pop(queue, a) \in [Addr -> Seq(Entries)]
          /\ Len(Pop(queue, a)[a]) = Len(queue[a]) - 1
      BY <1>1, <2>3, PopFacts, Zenon
    <2>5. Pop(queue, a)[a] = << >>
      <3>1. Len(Pop(queue, a)[a]) = 0
        BY <1>3, <2>4 DEF LastWait
      <3>2. Pop(queue, a)[a] \in Seq(Entries)
        BY <2>4, Zenon
      <3> QED
        BY <3>1, <3>2
    <2>6. /\ state' \in [Addr -> States]
          /\ \A b \in Addr : state'[b] = IF b = a THEN "none" ELSE state[b]
      BY <1>0, <1>3, Zenon DEF TypeOK, States
    <2>7. QueuesOK(Pop(queue, a), state', "recent", Pending, Repeated)
      BY <2>2, <2>5, <2>6, Zenon DEF QueuesOK
    <2>8. queue' \in [Addr -> Seq(Entries)] /\ last' \in {"old", "recent", "ongoing"}
      BY <1>3, <2>4, Zenon
    <2>9. TypeOK'
      BY <1>0, <1>1, <1>3, <2>6, <2>8, ZenonT(30) DEF TypeOK
    <2>10. TableOK' /\ Accounted'
      BY <1>0, <1>1, <2>6, Zenon DEF TableOK, Accounted
    <2>11. QueuesOK(queue', state', last', Pending', Repeated')
      BY <1>3, <2>1, <2>7, Zenon
    <2> QED
      BY <1>1, <2>9, <2>10, <2>11, Conclude, ZenonT(30)
  <1> QED
    BY <1>2, <1>3, Zenon DEF SlotmapInvalid

LEMMA SlotmapNullInv ==
  ASSUME Inv, life # "crashed", SlotmapNull
  PROVE  Inv'
  <1>1. /\ cur # NULL /\ queue[cur] # << >> /\ Head(queue[cur]) = "slotmap"
        /\ UNCHANGED <<nodes, table, cmd, shutdown, closing, at, cur, doomed, running>>
    BY Zenon DEF SlotmapNull, stack
  <1>2. PICK fail \in BOOLEAN : /\ updateSlotMapAsync(Pop(queue, cur), "recent", fail)
                                /\ err' = (err \/ fail)
    BY Zenon DEF SlotmapNull
  <1>3. cur \in Addr
    BY <1>1, Zenon DEF Inv, TypeOK
  <1> QED
    BY <1>1, <1>2, <1>3, QueryAgainInv, ZenonT(30)

-----------------------------------------------------------------------------
(* Every step preserves the invariant.                                     *)
LEMMA NextInv ==
  ASSUME Inv, [Next]_vars
  PROVE  Inv'
  <1>1. CASE Next
    <2>0. life # "crashed"
      BY <1>1, Zenon DEF Next
    <2>1. CASE Calls
      BY <2>0, <2>1, Connect2Inv, FormattedCommandInv, ToNodeInv, DisconnectInv, FreeInv, ZenonT(30) DEF Calls
    <2>2. CASE \E a \in Addr : Connected(a) \/ Lost(a) \/ Answered(a)
      <3>1. PICK a \in Addr : Connected(a) \/ Lost(a) \/ Answered(a)
        BY <2>2, Zenon
      <3>2. CASE Connected(a) \/ Lost(a)
        BY <2>0, <3>2, ConnectedInv, LostInv, Zenon
      <3>3. CASE \E i \in Cmd, r \in Reply : Callback(a, i, r)
        BY <2>0, <3>3, CallbackDoneInv, CallbackFailedInv, CallbackMovedInv, CallbackAskInv,
           CallbackTryAgainInv, Zenon DEF Callback
      <3>4. CASE AskingReply(a) \/ (\E m \in Maps : SlotmapReply(a, m)) \/ SlotmapInvalid(a)
        BY <2>0, <3>4, AskingReplyInv, SlotmapReplyInv, SlotmapInvalidInv, Zenon
      <3> QED
        BY <3>1, <3>2, <3>3, <3>4, Zenon DEF Answered
    <2>3. CASE Unwind
      BY <2>0, <2>3, FreeDetachedInv, CallbackNullInv, AskingNullInv, SlotmapNullInv, GoneInv,
         CallbackReturnsInv, EndUpdateInv, ZenonT(30) DEF Unwind
    <2>4. CASE TimePasses
      BY <2>0, <2>4, TimePassesInv, Zenon
    <2> QED
      BY <1>1, <2>1, <2>2, <2>3, <2>4, Zenon DEF Next
  <1>2. CASE UNCHANGED vars
    <2>1. UNCHANGED <<nodes, table, state, queue, attempt, last, err, cmd, shutdown, closing, at,
                      cur, doomed, running, life>>
      BY <1>2, Zenon DEF vars
    <2>2. Pending' = Pending /\ Repeated' = Repeated
      BY <2>1, Zenon DEF Pending, Repeated
    <2>3. TypeOK' /\ TableOK' /\ Accounted'
      BY <2>1, Zenon DEF Inv, TypeOK, TableOK, Accounted
    <2>4. CASE life # "crashed"
      <3>1. QueuesOK(queue', state', last', Pending', Repeated')
        BY <2>1, <2>2, <2>4, Zenon DEF Inv
      <3> QED
        BY <2>1, <2>3, <2>4, <3>1, Conclude, Zenon
    <2>5. CASE life = "crashed"
      <3>1. \E P \in SUBSET Cmd : QueuesOK(queue', state', last', P, Repeated')
        BY <2>1, <2>2, <2>5, Zenon DEF Inv
      <3> QED
        BY <2>1, <2>3, <2>5, <3>1, Zenon DEF Inv
    <2> QED
      BY <2>4, <2>5, Zenon
  <1> QED
    BY <1>1, <1>2, Zenon

(* The inductive invariant holds in every reachable state.                 *)
THEOREM InvHolds == Spec => []Inv
  BY InitInv, NextInv, PTL DEF Spec

(* What the invariant says of the pending commands.                        *)
LEMMA SomePending ==
  ASSUME Inv
  PROVE  \E P \in SUBSET Cmd : /\ QueuesOK(queue, state, last, P, Repeated)
                               /\ life # "crashed" => P = Pending
  <1>1. Pending \in SUBSET Cmd
    BY Zenon DEF Pending
  <1>2. CASE life = "crashed"
    BY <1>2, Zenon DEF Inv
  <1>3. CASE life # "crashed"
    BY <1>1, <1>3, Zenon DEF Inv
  <1> QED
    BY <1>2, <1>3, Zenon

(* The cardinality of the sets that have no element or one, by the         *)
(* definition of Cardinality.                                              *)
LEMMA CardinalityOfNone == Cardinality({}) = 0
  <1> DEFINE F(g) == [T \in SUBSET {} |->
                        IF T = {} THEN 0 ELSE 1 + g[T \ {CHOOSE y : y \in T}]]
  <1>1. \E g : g = F(g)
    <2>1. F([T \in SUBSET {} |-> 0]) = [T \in SUBSET {} |-> 0]
      BY Zenon
    <2> QED
      BY <2>1, Zenon
  <1>2. (CHOOSE g : g = F(g)) = F(CHOOSE g : g = F(g))
    BY <1>1, Zenon
  <1>3. Cardinality({}) = (CHOOSE g : g = F(g))[{}]
    BY Zenon DEF Cardinality
  <1> QED
    BY <1>2, <1>3, Zenon

LEMMA CardinalityOfOne ==
  ASSUME NEW x
  PROVE  Cardinality({x}) = 1
  <1> DEFINE F(g) == [T \in SUBSET {x} |->
                        IF T = {} THEN 0 ELSE 1 + g[T \ {CHOOSE y : y \in T}]]
             h == [T \in SUBSET {x} |-> IF T = {} THEN 0 ELSE 1]
  <1>1. {x} \ {CHOOSE y : y \in {x}} = {}
    <2>1. (CHOOSE y : y \in {x}) = x
      BY Zenon
    <2> QED
      BY <2>1, Zenon
  <1>2. \A T \in SUBSET {x} : T = {} \/ T = {x}
    BY Zenon
  <1>3. \E g : g = F(g)
    <2>1. h[{}] = 0
      BY Zenon
    <2>2. 1 + h[{x} \ {CHOOSE y : y \in {x}}] = 1
      BY <1>1, <2>1
    <2>3. \A T \in SUBSET {x} : T # {} => 1 + h[T \ {CHOOSE y : y \in T}] = 1
      BY <1>2, <2>2
    <2>4. h = F(h)
      BY <2>3, Zenon
    <2> QED
      BY <2>4, Zenon
  <1>4. (CHOOSE g : g = F(g)) = F(CHOOSE g : g = F(g))
    BY <1>3, Zenon
  <1>5. Cardinality({x}) = (CHOOSE g : g = F(g))[{x}]
    BY Zenon DEF Cardinality
  <1>6. PICK g : g = F(g) /\ Cardinality({x}) = g[{x}]
    BY <1>4, <1>5, Zenon
  <1>7. g[{}] = 0
    BY <1>6, Zenon
  <1>8. g[{x}] = 1 + g[{x} \ {CHOOSE y : y \in {x}}]
    BY <1>6, Zenon
  <1> QED
    BY <1>1, <1>6, <1>7, <1>8

(* An entry that waits once has one place.                                 *)
LEMMA WaitingFacts ==
  ASSUME TypeOK, NEW x, Once(x, queue)
  PROVE  /\ ~In(x, queue) => Waiting(x) = {}
         /\ \A a \in Addr : \A k \in 1 .. Len(queue[a]) :
              queue[a][k] = x => Waiting(x) = {<<a, k>>}
         /\ Cardinality(Waiting(x)) = IF In(x, queue) THEN 1 ELSE 0
  <1>1. \A a \in Addr : DOMAIN queue[a] = 1 .. Len(queue[a])
    BY DEF TypeOK
  <1>2. \A p : p \in Waiting(x) <=>
                 \E a \in Addr : \E k \in 1 .. Len(queue[a]) : queue[a][k] = x /\ p = <<a, k>>
    BY <1>1 DEF Waiting
  <1>3. ~In(x, queue) => Waiting(x) = {}
    BY <1>2, Zenon DEF In
  <1>4. ASSUME NEW a \in Addr, NEW k \in 1 .. Len(queue[a]), queue[a][k] = x
        PROVE  Waiting(x) = {<<a, k>>}
    <2>1. <<a, k>> \in Waiting(x)
      BY <1>2, <1>4, Zenon
    <2>2. \A p \in Waiting(x) : p = <<a, k>>
      BY <1>2, <1>4 DEF Once
    <2> QED
      BY <2>1, <2>2, Zenon
  <1>5. Cardinality(Waiting(x)) = IF In(x, queue) THEN 1 ELSE 0
    <2>1. CASE In(x, queue)
      <3>1. PICK p : Waiting(x) = {p}
        BY <1>4, <2>1, Zenon DEF In
      <3> QED
        BY <2>1, <3>1, CardinalityOfOne, ZenonT(30)
    <2>2. CASE ~In(x, queue)
      BY <1>3, <2>2, CardinalityOfNone, Zenon
    <2> QED
      BY <2>1, <2>2, Zenon
  <1> QED
    BY <1>3, <1>4, <1>5, Zenon

(* SLOTMAP_UPDATE_ONGOING is set exactly while one slotmap query waits for *)
(* its reply, for every number of nodes and commands (3846-3884,           *)
(* 3965-3978).                                                             *)
THEOREM OngoingUpdatesAreAwaited == Spec => []OngoingIsAwaited
  <1>1. Inv => OngoingIsAwaited
    <2> SUFFICES ASSUME Inv PROVE OngoingIsAwaited
      BY Zenon
    <2>1. Once("slotmap", queue) /\ (In("slotmap", queue) <=> last = "ongoing")
      BY SomePending, Zenon DEF QueuesOK
    <2>2. Cardinality(Waiting("slotmap")) = IF In("slotmap", queue) THEN 1 ELSE 0
      BY <2>1, WaitingFacts, Zenon DEF Inv
    <2> QED
      BY <2>1, <2>2, Zenon DEF OngoingIsAwaited
  <1> QED
    BY <1>1, InvHolds, PTL

(* A pending command waits once, on an open context, and no other command  *)
(* waits (4101-4135).                                                      *)
THEOREM CallbacksWaitOnce == Spec => []CallbackOnce
  <1>1. Inv => CallbackOnce
    <2> SUFFICES ASSUME Inv PROVE CallbackOnce
      BY Zenon
    <2>1. PICK P \in SUBSET Cmd : /\ QueuesOK(queue, state, last, P, Repeated)
                                  /\ life # "crashed" => P = Pending
      BY SomePending, Zenon
    <2>2. ASSUME NEW i \in Cmd, life # "crashed"
          PROVE  Cardinality(Waiting(i)) = IF cmd[i].st = "pending" THEN 1 ELSE 0
      <3>1. Once(i, queue) /\ (In(i, queue) <=> cmd[i].st = "pending")
        BY <2>1, <2>2, Zenon DEF QueuesOK, Pending
      <3>2. Cardinality(Waiting(i)) = IF In(i, queue) THEN 1 ELSE 0
        BY <3>1, WaitingFacts, Zenon DEF Inv
      <3> QED
        BY <3>1, <3>2, Zenon
    <2>3. \A a \in Addr : queue[a] # << >> => state[a] # "none"
      BY <2>1, Zenon DEF QueuesOK
    <2> QED
      BY <2>2, <2>3, Zenon DEF CallbackOnce
  <1> QED
    BY <1>1, InvHolds, PTL

(* ASKING is followed, in its queue, by a command that was redirected      *)
(* (4081-4125).                                                            *)
THEOREM AskingIsForCommand == Spec => []AskingPrecedesCommand
  <1>1. Inv => AskingPrecedesCommand
    <2> SUFFICES ASSUME Inv, NEW a \in Addr, NEW k \in DOMAIN queue[a], queue[a][k] = "asking"
                 PROVE  /\ k + 1 \in DOMAIN queue[a]
                        /\ queue[a][k + 1] \in Cmd
                        /\ cmd[queue[a][k + 1]].retry > 0
      BY Zenon DEF AskingPrecedesCommand
    <2>1. AskingFollowed(queue, Repeated)
      BY SomePending, Zenon DEF QueuesOK
    <2>2. DOMAIN queue[a] = 1 .. Len(queue[a]) /\ Len(queue[a]) \in Nat
      BY DEF Inv, TypeOK
    <2>3. k + 1 <= Len(queue[a]) /\ queue[a][k + 1] \in Repeated
      BY <2>1, <2>2, Zenon DEF AskingFollowed
    <2>4. k + 1 \in DOMAIN queue[a]
      BY <2>2, <2>3
    <2> QED
      BY <2>3, <2>4, Zenon DEF Repeated
  <1> QED
    BY <1>1, InvHolds, PTL

(* Every open context belongs to a node or is on its way to be freed       *)
(* (259-299, 575-616).                                                     *)
THEOREM ContextsAreAccountedFor == Spec => []ContextsAccountedFor
  <1>1. Inv => ContextsAccountedFor
    BY Zenon DEF Inv, Accounted, ContextsAccountedFor
  <1> QED
    BY <1>1, InvHolds, PTL

-----------------------------------------------------------------------------
(* During a shutdown updateSlotMapAsync opens no context.                  *)
LEMMA NoUpdateInShutdown ==
  ASSUME shutdown, NEW Q, NEW fail
  PROVE  /\ \A l : updateSlotMapAsync(Q, l, fail) => UNCHANGED state
         /\ throttledUpdateSlotMapAsync(Q, fail) => UNCHANGED state
  BY Zenon DEF updateSlotMapAsync, throttledUpdateSlotMapAsync

(* After redisClusterAsyncDisconnect or redisClusterAsyncFree no context   *)
(* is opened, by whatever step (3939, 4036, 4158, 4278).                   *)
THEOREM ShutdownOpensNothing == Spec => NoConnectInShutdown
  <1>1. ASSUME Inv, [Next]_vars, shutdown, NEW b \in Addr, state[b] = "none"
        PROVE  state'[b] = "none"
    <2>0. state \in [Addr -> States]
      BY <1>1, Zenon DEF Inv, TypeOK
    <2>1. ASSUME UNCHANGED state PROVE state'[b] = "none"
      BY <1>1, <2>1, Zenon
    <2>2. ASSUME NEW C, state' = [state EXCEPT ![C] = "none"] PROVE state'[b] = "none"
      BY <1>1, <2>0, <2>2, Zenon
    <2>3. CASE Calls
      <3>1. CASE redisClusterAsyncConnect2
        BY <1>1, <2>1, <3>1, NoUpdateInShutdown, Zenon DEF redisClusterAsyncConnect2
      <3>2. CASE \E i \in Cmd, s \in Slot : redisClusterAsyncFormattedCommand(i, s)
        BY <1>1, <2>1, <3>2, Zenon DEF redisClusterAsyncFormattedCommand, net
      <3>3. CASE \E i \in Cmd, a \in Addr : redisClusterAsyncFormattedCommandToNode(i, a)
        BY <1>1, <2>1, <3>3, Zenon DEF redisClusterAsyncFormattedCommandToNode, net
      <3>4. CASE redisClusterAsyncDisconnect
        BY <1>1, <3>4, Zenon DEF redisClusterAsyncDisconnect
      <3>5. CASE redisClusterAsyncFree
        BY <2>1, <3>5, Zenon DEF redisClusterAsyncFree, net
      <3> QED
        BY <2>3, <3>1, <3>2, <3>3, <3>4, <3>5, Zenon DEF Calls
    <2>4. ASSUME NEW a \in Addr, Connected(a) \/ Lost(a) \/ Answered(a)
          PROVE  state'[b] = "none"
      <3>1. CASE Connected(a)
        BY <1>1, <2>0, <3>1, Zenon DEF Connected
      <3>2. CASE Lost(a)
        BY <2>1, <3>2, Zenon DEF Lost, net
      <3>3. CASE \E i \in Cmd, r \in Reply : Callback(a, i, r)
        BY <1>1, <2>1, <3>3, ZenonT(30) DEF Callback, CallbackDone, CallbackFailed, CallbackMoved, CallbackAsk,
           CallbackTryAgain, Retried
      <3>4. CASE AskingReply(a) \/ \E m \in Maps : SlotmapReply(a, m)
        BY <2>1, <3>4, Zenon DEF AskingReply, SlotmapReply
      <3>5. CASE SlotmapInvalid(a)
        BY <1>1, <2>1, <2>2, <3>5, NoUpdateInShutdown, Zenon DEF SlotmapInvalid
      <3> QED
        BY <2>4, <3>1, <3>2, <3>3, <3>4, <3>5, ZenonT(30) DEF Answered
    <2>5. CASE Unwind
      <3>1. CASE \E a \in Addr : FreeDetached(a)
        BY <2>1, <3>1, Zenon DEF FreeDetached, net
      <3>2. CASE \E i \in Cmd : CallbackNull(i)
        BY <1>1, <2>1, <3>2, NoUpdateInShutdown, Zenon DEF CallbackNull
      <3>3. CASE AskingNull
        BY <2>1, <3>3, Zenon DEF AskingNull
      <3>4. CASE SlotmapNull
        BY <1>1, <2>1, <3>4, NoUpdateInShutdown, ZenonT(30) DEF SlotmapNull
      <3>5. CASE Gone \/ CallbackReturns \/ EndUpdate
        BY <2>1, <2>2, <3>5, Zenon DEF Gone, CallbackReturns, EndUpdate
      <3> QED
        BY <2>5, <3>1, <3>2, <3>3, <3>4, <3>5, Zenon DEF Unwind
    <2>6. CASE TimePasses
      BY <2>1, <2>6, Zenon DEF TimePasses
    <2>7. CASE UNCHANGED vars
      BY <2>1, <2>7, Zenon DEF vars
    <2> QED
      BY <1>1, <2>3, <2>4, <2>5, <2>6, <2>7, Zenon DEF Next
  <1>2. Inv /\ [Next]_vars =>
          [shutdown => \A a \in Addr : state[a] = "none" => state'[a] = "none"]_vars
    BY <1>1, Zenon
  <1> QED
    BY <1>2, InvHolds, PTL DEF Spec, NoConnectInShutdown

-----------------------------------------------------------------------------
(* No step moves a pending command that is not to be retried.              *)
LEMMA KeptByNext ==
  ASSUME Inv, Next, NEW i \in Cmd, cmd[i].retry = NO_RETRY, cmd[i].st = "pending",
         cmd'[i].st = "pending"
  PROVE  Kept(i, queue, queue')
  <1>0. TypeOK /\ life # "crashed" /\ queue \in [Addr -> Seq(Entries)]
    BY Zenon DEF Inv, TypeOK, Next
  <1>1. Kept(i, queue, queue)
    BY Zenon DEF Kept
  <1>2. ASSUME UNCHANGED queue PROVE Kept(i, queue, queue')
    BY <1>1, <1>2, Zenon
  <1>3. i # "asking" /\ i # "slotmap" /\ i \in Entries /\ {"asking", "slotmap"} \subseteq Entries
    BY EntryFacts, Zenon
  <1>4. ASSUME NEW a \in Addr, queue[a] # << >>, Head(queue[a]) # i
        PROVE  Kept(i, queue, Pop(queue, a)) /\ Pop(queue, a) \in [Addr -> Seq(Entries)]
    BY <1>0, <1>4, KeptByPop, PopFacts, Zenon
  <1>5. ASSUME NEW j \in Cmd, NEW e, NEW received \in BOOLEAN, Deliver(j, e, received)
        PROVE  j # i
    BY <1>0, <1>5, DeliverFacts DEF Outcomes
  <1>6. CASE Calls
    <2>1. CASE redisClusterAsyncConnect2
      BY <1>0, <1>1, <2>1, KeptByUpdate, Zenon DEF redisClusterAsyncConnect2
    <2>2. ASSUME NEW j \in Cmd, NEW a \in Addr, NEW s, NEW r, Send(j, a, s, r)
          PROVE  Kept(i, queue, queue')
      <3>1. CASE queue' = Put(queue, a, j)
        <4>1. j \in Entries
          BY EntryFacts, Zenon
        <4> QED
          BY <1>0, <1>1, <3>1, <4>1, KeptByPut, Zenon
      <3> QED
        BY <1>2, <2>2, <3>1, Zenon DEF Send
    <2>3. CASE \E j \in Cmd, s \in Slot : redisClusterAsyncFormattedCommand(j, s)
      <3>1. PICK j \in Cmd, s \in Slot : redisClusterAsyncFormattedCommand(j, s)
        BY <2>3, Zenon
      <3>2. CASE UNCHANGED net
        BY <1>2, <3>2, Zenon DEF net
      <3>3. CASE \E fail \in BOOLEAN : throttledUpdateSlotMapAsync(queue, fail)
        BY <1>0, <1>1, <3>3, KeptByUpdate, Zenon
      <3>4. CASE table[s] # NULL /\ Send(j, table[s], s, 0)
        <4>1. table[s] \in Addr
          BY <1>0, <3>4, Zenon DEF TypeOK
        <4> QED
          BY <2>2, <3>4, <4>1, Zenon
      <3> QED
        BY <3>1, <3>2, <3>3, <3>4, Zenon DEF redisClusterAsyncFormattedCommand
    <2>4. CASE \E j \in Cmd, a \in Addr : redisClusterAsyncFormattedCommandToNode(j, a)
      BY <1>2, <2>2, <2>4, Zenon DEF redisClusterAsyncFormattedCommandToNode, net
    <2>5. CASE redisClusterAsyncDisconnect \/ redisClusterAsyncFree
      BY <1>2, <2>5, Zenon DEF redisClusterAsyncDisconnect, redisClusterAsyncFree, net
    <2> QED
      BY <1>6, <2>1, <2>3, <2>4, <2>5, Zenon DEF Calls
  <1>7. ASSUME NEW a \in Addr, Connected(a) \/ Lost(a) \/ Answered(a)
        PROVE  Kept(i, queue, queue')
    <2>1. CASE Connected(a) \/ Lost(a)
      BY <1>2, <2>1, Zenon DEF Connected, Lost, net
    <2>2. ASSUME NEW j \in Cmd, NEW r \in Reply, Callback(a, j, r)
          PROVE  Kept(i, queue, queue')
      <3>1. queue[a] # << >> /\ j = Head(queue[a])
        BY <2>2, Zenon DEF Callback, CallbackDone, CallbackFailed, CallbackMoved, CallbackAsk,
           CallbackTryAgain, Arrives
      <3>2. j # i
        <4>1. CASE Retried(j, r)
          <5>1. CASE j = i
            BY <4>1, <5>1, Zenon DEF Retried
          <5> QED
            BY <5>1, Zenon
        <4>2. CASE ~Retried(j, r)
          <5>1. Deliver(j, err, TRUE)
            BY <2>2, <4>2, Zenon DEF Callback, CallbackDone, CallbackFailed, CallbackMoved, CallbackAsk,
               CallbackTryAgain
          <5> QED
            BY <1>5, <5>1, Zenon
        <4> QED
          BY <4>1, <4>2, Zenon
      <3> DEFINE Q == Pop(queue, a)
      <3>3. Kept(i, queue, Q) /\ Q \in [Addr -> Seq(Entries)]
        BY <1>4, <3>1, <3>2, Zenon
      <3> HIDE DEF Q
      <3>4. Kept(i, queue, Put(Q, a, "slotmap")) /\ Put(Q, a, "slotmap") \in [Addr -> Seq(Entries)]
        BY <1>3, <3>3, KeptByPut, PutFacts, Zenon
      <3>5. j \in Entries
        BY EntryFacts, Zenon
      <3>6. CASE CallbackDone(a, j, r)
        BY <3>3, <3>6, Zenon DEF CallbackDone, Q
      <3>7. CASE CallbackFailed(a, j, r)
        BY <3>3, <3>4, <3>7, ZenonT(30) DEF CallbackFailed, Q
      <3>8. CASE CallbackTryAgain(a, j, r)
        <4>1. queue' = Put(Q, a, j)
          BY <3>8, Zenon DEF CallbackTryAgain, Q
        <4> QED
          BY <3>3, <3>5, <4>1, KeptByPut, Zenon
      <3>9. CASE CallbackMoved(a, j, r)
        <4>1. r.node \in Addr
          BY <3>9, Zenon DEF CallbackMoved, Reply
        <4>2. PICK R \in {Q, Put(Q, a, "slotmap")} : queue' = R \/ queue' = Put(R, r.node, j)
          BY <3>9, Zenon DEF CallbackMoved, Q
        <4>3. Kept(i, queue, R) /\ R \in [Addr -> Seq(Entries)]
          BY <3>3, <3>4, ZenonT(30)
        <4>4. Kept(i, queue, Put(R, r.node, j))
          BY <3>5, <4>1, <4>3, KeptByPut, ZenonT(30)
        <4> QED
          BY <4>2, <4>3, <4>4, Zenon
      <3>10. CASE CallbackAsk(a, j, r)
        <4>1. r.node \in Addr
          BY <3>10, Zenon DEF CallbackAsk, Reply
        <4> DEFINE R == Put(Q, r.node, "asking")
        <4>2. Kept(i, queue, R) /\ R \in [Addr -> Seq(Entries)]
          BY <1>3, <3>3, <4>1, KeptByPut, PutFacts, Zenon
        <4>3. queue' = Q \/ queue' = Put(R, r.node, j)
          BY <3>10, ZenonT(30) DEF CallbackAsk, Q
        <4> HIDE DEF R
        <4>4. Kept(i, queue, Put(R, r.node, j))
          BY <3>5, <4>1, <4>2, KeptByPut, ZenonT(30)
        <4> QED
          BY <3>3, <4>3, <4>4, ZenonT(30)
      <3> QED
        BY <2>2, <3>6, <3>7, <3>8, <3>9, <3>10, ZenonT(30) DEF Callback
    <2>3. CASE AskingReply(a) \/ \E m \in Maps : SlotmapReply(a, m)
      <3>1. queue[a] # << >> /\ Head(queue[a]) # i /\ queue' = Pop(queue, a)
        BY <1>3, <2>3, Zenon DEF AskingReply, SlotmapReply, Arrives
      <3> QED
        BY <1>4, <3>1, Zenon
    <2>4. CASE SlotmapInvalid(a)
      <3>1. queue[a] # << >> /\ Head(queue[a]) # i
        BY <1>3, <2>4, ZenonT(30) DEF SlotmapInvalid, Arrives
      <3>2. Kept(i, queue, Pop(queue, a)) /\ Pop(queue, a) \in [Addr -> Seq(Entries)]
        BY <1>4, <3>1, ZenonT(30)
      <3>3. \/ \E fail \in BOOLEAN : updateSlotMapAsync(Pop(queue, a), "recent", fail)
            \/ queue' = Pop(queue, a)
        BY <2>4, ZenonT(30) DEF SlotmapInvalid
      <3> QED
        BY <1>0, <3>2, <3>3, KeptByUpdate, Zenon
    <2> QED
      BY <1>7, <2>1, <2>2, <2>3, <2>4, Zenon DEF Answered
  <1>8. CASE Unwind
    <2>1. cur # NULL => cur \in Addr
      BY <1>0, Zenon DEF TypeOK
    <2>2. CASE (\E a \in Addr : FreeDetached(a)) \/ Gone \/ CallbackReturns \/ EndUpdate
      BY <1>2, <2>2, Zenon DEF FreeDetached, Gone, CallbackReturns, EndUpdate, net
    <2>3. CASE \E j \in Cmd : CallbackNull(j)
      <3>1. PICK j \in Cmd : CallbackNull(j)
        BY <2>3, Zenon
      <3>2. /\ cur # NULL /\ queue[cur] # << >> /\ j = Head(queue[cur]) /\ Deliver(j, TRUE, FALSE)
            /\ \/ \E fail \in BOOLEAN : throttledUpdateSlotMapAsync(Pop(queue, cur), fail)
               \/ queue' = Pop(queue, cur)
        BY <3>1, Zenon DEF CallbackNull
      <3>3. j # i
        BY <1>5, <3>2, Zenon
      <3>4. Kept(i, queue, Pop(queue, cur)) /\ Pop(queue, cur) \in [Addr -> Seq(Entries)]
        BY <1>4, <2>1, <3>2, <3>3, Zenon
      <3> QED
        BY <1>0, <3>2, <3>4, KeptByUpdate, Zenon
    <2>4. CASE AskingNull
      <3>1. cur # NULL /\ queue[cur] # << >> /\ Head(queue[cur]) # i /\ queue' = Pop(queue, cur)
        BY <1>3, <2>4, Zenon DEF AskingNull
      <3> QED
        BY <1>4, <2>1, <3>1, Zenon
    <2>5. CASE SlotmapNull
      <3>1. /\ cur # NULL /\ queue[cur] # << >> /\ Head(queue[cur]) # i
            /\ \E fail \in BOOLEAN : updateSlotMapAsync(Pop(queue, cur), "recent", fail)
        BY <1>3, <2>5, Zenon DEF SlotmapNull
      <3>2. Kept(i, queue, Pop(queue, cur)) /\ Pop(queue, cur) \in [Addr -> Seq(Entries)]
        BY <1>4, <2>1, <3>1, Zenon
      <3> QED
        BY <1>0, <3>1, <3>2, KeptByUpdate, Zenon
    <2> QED
      BY <1>8, <2>2, <2>3, <2>4, <2>5, Zenon DEF Unwind
  <1>9. CASE TimePasses
    BY <1>2, <1>9, Zenon DEF TimePasses
  <1> QED
    BY <1>6, <1>7, <1>8, <1>9, Zenon DEF Next

(* A command sent to a node stays where it was put until its callback is   *)
(* called (4036).                                                          *)
THEOREM ToNodeCommandsStay == Spec => ToNodeStays
  <1>1. ASSUME Inv, Inv', [Next]_vars, NEW i \in Cmd, NEW p \in Waiting(i),
               cmd[i].retry = NO_RETRY, cmd'[i].st = "pending"
        PROVE  Waiting(i)' \in {{p}, {<<p[1], p[2] - 1>>}}
    <2>0. \A a \in Addr : DOMAIN queue[a] = 1 .. Len(queue[a]) /\ Len(queue[a]) \in Nat
      BY <1>1 DEF Inv, TypeOK
    <2>1. PICK a \in Addr : \E k \in 1 .. Len(queue[a]) : queue[a][k] = i /\ p = <<a, k>>
      BY <1>1, <2>0, Zenon DEF Waiting
    <2>2. PICK k \in 1 .. Len(queue[a]) : queue[a][k] = i /\ p = <<a, k>>
      BY <2>1, Zenon
    <2>3. k \in Nat /\ Sits(i, queue, a, k)
      BY <2>0, <2>2 DEF Sits
    <2>4. Kept(i, queue, queue')
      <3>1. CASE Next
        <4>1. life # "crashed"
          BY <3>1, Zenon DEF Next
        <4>2. cmd[i].st = "pending"
          BY <1>1, <2>2, <4>1, Zenon DEF Inv, QueuesOK, In, Pending
        <4> QED
          BY <1>1, <3>1, <4>2, KeptByNext, Zenon
      <3>2. CASE UNCHANGED vars
        BY <3>2, Zenon DEF vars, Kept
      <3> QED
        BY <1>1, <3>1, <3>2, Zenon
    <2>5. PICK n \in {k, k - 1} : Sits(i, queue', a, n)
      BY <2>3, <2>4, Zenon DEF Kept
    <2>6. n \in 1 .. Len(queue'[a]) /\ queue'[a][n] = i
      BY <2>5, Zenon DEF Sits
    <2>7. Waiting(i)' = {<<a, n>>}
      <3>1. \A b \in Addr : DOMAIN queue'[b] = 1 .. Len(queue'[b])
        BY <1>1 DEF Inv, TypeOK
      <3>2. n \in DOMAIN queue'[a]
        BY <2>6, <3>1, Zenon
      <3>3. Once(i, queue')
        BY <1>1, ZenonT(30) DEF Inv, QueuesOK
      <3>a. n \in {m \in DOMAIN queue'[a] : queue'[a][m] = i}
        BY <2>6, <3>2, Zenon
      <3>b. <<a, n>> \in {<<a, m>> : m \in {m \in DOMAIN queue'[a] : queue'[a][m] = i}}
        BY <3>a, Zenon
      <3>4. <<a, n>> \in Waiting(i)'
        BY <3>b DEF Waiting
      <3>5. ASSUME NEW q \in Waiting(i)' PROVE q = <<a, n>>
        <4>1. PICK b \in Addr : q \in {<<b, m>> : m \in {m \in DOMAIN queue'[b] : queue'[b][m] = i}}
          BY Zenon DEF Waiting
        <4>2. PICK m \in DOMAIN queue'[b] : queue'[b][m] = i /\ q = <<b, m>>
          BY <4>1, Zenon
        <4>3. m \in 1 .. Len(queue'[b])
          BY <3>1, <4>2, Zenon
        <4> QED
          BY <2>6, <3>3, <4>2, <4>3, Zenon DEF Once
      <3> QED
        BY <3>4, <3>5, Zenon
    <2> QED
      BY <2>2, <2>5, <2>7, Zenon
  <1>2. Inv /\ Inv' /\ [Next]_vars =>
          [\A i \in Cmd : \A p \in Waiting(i) :
             cmd[i].retry = NO_RETRY /\ cmd'[i].st = "pending" =>
               Waiting(i)' \in {{p}, {<<p[1], p[2] - 1>>}}]_vars
    BY <1>1, Zenon
  <1> QED
    BY <1>2, InvHolds, PTL DEF Spec, ToNodeStays

-----------------------------------------------------------------------------
(* A client that was freed has no nodes, and starts nothing.  One that was *)
(* not and has no nodes has opened no context: it never had nodes.  A      *)
(* command that may be retried remembers its slot.                         *)
LifeOK ==
  /\ life = "freed" => nodes = {} /\ shutdown
  /\ life # "freed" /\ nodes = {} => \A a \in Addr : state[a] = "none"
  /\ \A i \in Cmd : cmd[i].st = "pending" /\ cmd[i].retry # NO_RETRY => cmd[i].slot \in Slot
  /\ OnlyKnownCrashes

(* A step that opens contexts of nodes only, and that fails, if it does,   *)
(* for want of nodes.                                                      *)
Grows == \A b \in Addr : state'[b] # "none" => state[b] # "none" \/ b \in nodes

Calm == life' = life \/ (life' = "crashed" /\ nodes = {} /\ ~shutdown)

LEMMA UpdateLife ==
  ASSUME NEW Q, NEW fail
  PROVE  /\ \A l : updateSlotMapAsync(Q, l, fail) => Calm
         /\ throttledUpdateSlotMapAsync(Q, fail) => Calm
  <1>1. ASSUME NEW l, updateSlotMapAsync(Q, l, fail) PROVE Calm
    BY <1>1, Zenon DEF updateSlotMapAsync, Calm
  <1>2. ASSUME throttledUpdateSlotMapAsync(Q, fail) PROVE Calm
    BY <1>1, <1>2, Zenon DEF throttledUpdateSlotMapAsync, Calm
  <1> QED
    BY <1>1, <1>2, Zenon

LEMMA UpdateGrows ==
  ASSUME TypeOK, NEW Q, NEW fail \in BOOLEAN
  PROVE  /\ \A l : updateSlotMapAsync(Q, l, fail) => Grows
         /\ throttledUpdateSlotMapAsync(Q, fail) => Grows
  <1>0. ASSUME UNCHANGED state PROVE Grows
    BY <1>0, Zenon DEF Grows
  <1>1. ASSUME NEW l, updateSlotMapAsync(Q, l, fail) PROVE Grows
    <2>1. CASE \E a \in selectNode : actx_get_by_node(a, ~fail)
      <3>1. PICK a \in selectNode : actx_get_by_node(a, ~fail)
        BY <2>1, Zenon
      <3>2. a \in nodes /\ a \in Addr /\ (~fail) \in BOOLEAN
        BY Zenon DEF selectNode, TypeOK
      <3>3. \A b \in Addr : state'[b] # "none" => state[b] # "none" \/ b = a
        BY <3>1, <3>2, ContextFacts, Zenon
      <3> QED
        BY <3>2, <3>3, Zenon DEF Grows
    <2> QED
      BY <1>0, <1>1, <2>1, Zenon DEF updateSlotMapAsync
  <1>2. ASSUME throttledUpdateSlotMapAsync(Q, fail) PROVE Grows
    BY <1>0, <1>1, <1>2, Zenon DEF throttledUpdateSlotMapAsync
  <1> QED
    BY <1>1, <1>2, Zenon

LEMMA SendGrows ==
  ASSUME TypeOK, NEW i, NEW a \in nodes, NEW s, NEW q, Send(i, a, s, q)
  PROVE  Grows
  <1>1. PICK ok \in BOOLEAN : actx_get_by_node(a, ok)
    BY Zenon DEF Send
  <1>2. a \in Addr
    BY Zenon DEF TypeOK
  <1> QED
    BY <1>1, <1>2, ContextFacts, Zenon DEF Grows

(* What becomes of a command keeps its slot with it.                       *)
SlotsOK ==
  \A i \in Cmd : cmd[i].st = "pending" /\ cmd[i].retry # NO_RETRY => cmd[i].slot \in Slot

LEMMA SlotsKept ==
  ASSUME TypeOK, SlotsOK
  PROVE  /\ UNCHANGED cmd => SlotsOK'
         /\ \A i \in Cmd : Refuse(i) => SlotsOK'
         /\ \A i \in Cmd : \A a : /\ \A s \in Slot : Send(i, a, s, 0) => SlotsOK'
                                  /\ Send(i, a, NULL, NO_RETRY) => SlotsOK'
         /\ \A i \in Cmd : \A e, received : Deliver(i, e, received) => SlotsOK'
         /\ \A i \in Cmd : Retry(i) /\ cmd[i].retry # NO_RETRY => SlotsOK'
  <1>0. cmd \in [Cmd -> [st : {"idle", "refused", "pending"} \union Outcomes,
                         slot : Slot \union {NULL}, retry : NO_RETRY .. MaxRetry]]
    BY Zenon DEF TypeOK
  <1>1. ASSUME UNCHANGED cmd PROVE SlotsOK'
    BY <1>1, Zenon DEF SlotsOK
  <1>2. ASSUME NEW i \in Cmd, Refuse(i) PROVE SlotsOK'
    <2>1. \A j \in Cmd : cmd'[j].st = "pending" => cmd'[j] = cmd[j]
      BY <1>0, <1>2, Zenon DEF Refuse
    <2> QED
      BY <2>1, Zenon DEF SlotsOK
  <1>3. ASSUME NEW i \in Cmd, NEW n, cmd' = [cmd EXCEPT ![i] = n],
               n.st # "pending" \/ n.retry = NO_RETRY \/ n.slot \in Slot
        PROVE  SlotsOK'
    <2>1. \A j \in Cmd : cmd'[j] = IF j = i THEN n ELSE cmd[j]
      BY <1>0, <1>3, Zenon
    <2> QED
      BY <1>3, <2>1, Zenon DEF SlotsOK
  <1>4. ASSUME NEW i \in Cmd, NEW a, NEW s,
               \/ s \in Slot /\ Send(i, a, s, 0)
               \/ Send(i, a, NULL, NO_RETRY)
        PROVE  SlotsOK'
    <2>1. CASE Refuse(i)
      BY <1>2, <2>1, Zenon
    <2>2. CASE s \in Slot /\ cmd' = [cmd EXCEPT ![i] = [st |-> "pending", slot |-> s, retry |-> 0]]
      BY <1>3, <2>2, Zenon
    <2>3. CASE cmd' = [cmd EXCEPT ![i] = [st |-> "pending", slot |-> NULL, retry |-> NO_RETRY]]
      BY <1>3, <2>3, Zenon
    <2> QED
      BY <1>4, <2>1, <2>2, <2>3, Zenon DEF Send
  <1>5. ASSUME NEW i \in Cmd, NEW e, NEW received, Deliver(i, e, received) PROVE SlotsOK'
    <2>1. PICK o \in Outcomes : cmd' = [cmd EXCEPT ![i] = [st |-> o, slot |-> NULL, retry |-> 0]]
      BY <1>5, Zenon DEF Deliver, Outcomes
    <2>2. o # "pending"
      BY Zenon DEF Outcomes
    <2> QED
      BY <1>3, <2>1, <2>2, Zenon
  <1>6. ASSUME NEW i \in Cmd, Retry(i), cmd[i].retry # NO_RETRY PROVE SlotsOK'
    <2>1. \A j \in Cmd : /\ cmd'[j].st = cmd[j].st /\ cmd'[j].slot = cmd[j].slot
                         /\ cmd'[j].retry # NO_RETRY => cmd[j].retry # NO_RETRY
      BY <1>0, <1>6, Zenon DEF Retry
    <2> QED
      BY <2>1, Zenon DEF SlotsOK
  <1> QED
    BY <1>1, <1>2, <1>4, <1>5, <1>6, Zenon

LEMMA LifeKept ==
  ASSUME LifeOK, life # "crashed", UNCHANGED <<nodes, shutdown>>, Grows, Calm, SlotsOK'
  PROVE  LifeOK'
  <1>1. CASE life' = life
    BY <1>1, Zenon DEF LifeOK, SlotsOK, Grows, OnlyKnownCrashes
  <1>2. CASE life' = "crashed" /\ nodes = {} /\ ~shutdown
    <2>1. life # "freed" /\ \A a \in Addr : state[a] = "none"
      BY <1>2, Zenon DEF LifeOK
    <2>2. \A a \in Addr : state'[a] = "none"
      BY <1>2, <2>1, Zenon DEF Grows
    <2> QED
      BY <1>2, <2>2, Zenon DEF LifeOK, SlotsOK, OnlyKnownCrashes
  <1> QED
    BY <1>1, <1>2, Zenon DEF Calm

LEMMA LifeCalls ==
  ASSUME Inv, LifeOK, life # "crashed", Calls
  PROVE  LifeOK'
  <1>0. TypeOK /\ TableOK /\ SlotsOK
    BY Zenon DEF Inv, LifeOK, SlotsOK
  <1>1. CASE redisClusterAsyncConnect2
    <2>1. /\ UNCHANGED <<nodes, shutdown, cmd>>
          /\ \E fail \in BOOLEAN : updateSlotMapAsync(queue, last, fail)
      BY <1>1, Zenon DEF redisClusterAsyncConnect2
    <2> QED
      BY <1>0, <2>1, UpdateLife, UpdateGrows, SlotsKept, LifeKept, Zenon
  <1>2. ASSUME NEW i \in Cmd, NEW s \in Slot, redisClusterAsyncFormattedCommand(i, s)
        PROVE  LifeOK'
    <2>1. UNCHANGED <<nodes, shutdown>>
      BY <1>2, Zenon DEF redisClusterAsyncFormattedCommand
    <2>2. CASE Refuse(i) /\ UNCHANGED <<state, life>>
      BY <1>0, <2>1, <2>2, SlotsKept, LifeKept, Zenon DEF Grows, Calm
    <2>3. CASE Refuse(i) /\ \E fail \in BOOLEAN : throttledUpdateSlotMapAsync(queue, fail)
      BY <1>0, <2>1, <2>3, UpdateLife, UpdateGrows, SlotsKept, LifeKept, Zenon
    <2>4. CASE table[s] # NULL /\ Send(i, table[s], s, 0) /\ UNCHANGED life
      <3>1. table[s] \in nodes
        BY <1>0, <2>4, Zenon DEF TableOK
      <3>2. Grows
        BY <1>0, <2>4, <3>1, SendGrows, Zenon
      <3>3. SlotsOK'
        BY <1>0, <2>4, SlotsKept, Zenon
      <3> QED
        BY <2>1, <2>4, <3>2, <3>3, LifeKept, Zenon DEF Calm
    <2> QED
      BY <1>2, <2>2, <2>3, <2>4, Zenon DEF redisClusterAsyncFormattedCommand, net
  <1>3. ASSUME NEW i \in Cmd, NEW a \in Addr, redisClusterAsyncFormattedCommandToNode(i, a)
        PROVE  LifeOK'
    <2>1. a \in nodes /\ UNCHANGED <<nodes, shutdown, life>>
      BY <1>3, Zenon DEF redisClusterAsyncFormattedCommandToNode
    <2>2. CASE Refuse(i) /\ UNCHANGED state
      BY <1>0, <2>1, <2>2, SlotsKept, LifeKept, Zenon DEF Grows, Calm
    <2>3. CASE Send(i, a, NULL, NO_RETRY)
      <3>1. Grows
        BY <1>0, <2>1, <2>3, SendGrows, Zenon
      <3>2. SlotsOK'
        BY <1>0, <2>3, SlotsKept, Zenon
      <3> QED
        BY <2>1, <3>1, <3>2, LifeKept, Zenon DEF Calm
    <2> QED
      BY <1>3, <2>2, <2>3, Zenon DEF redisClusterAsyncFormattedCommandToNode, net
  <1>4. CASE redisClusterAsyncDisconnect
    <2>1. /\ shutdown' /\ UNCHANGED <<nodes, table, cmd, life>>
          /\ \A b \in Addr : state[b] = "none" => state'[b] = "none"
      BY <1>4, Zenon DEF redisClusterAsyncDisconnect
    <2>2. SlotsOK'
      BY <1>0, <2>1, SlotsKept, Zenon
    <2> QED
      BY <2>1, <2>2, Zenon DEF LifeOK, SlotsOK, OnlyKnownCrashes
  <1>5. CASE redisClusterAsyncFree
    <2>1. shutdown' /\ nodes' = {} /\ life' = "freed" /\ UNCHANGED cmd
      BY <1>5, Zenon DEF redisClusterAsyncFree
    <2>2. SlotsOK'
      BY <1>0, <2>1, SlotsKept, Zenon
    <2> QED
      BY <2>1, <2>2, Zenon DEF LifeOK, SlotsOK, OnlyKnownCrashes
  <1> QED
    BY <1>1, <1>2, <1>3, <1>4, <1>5, Zenon DEF Calls

(* A redirect: the node it names is added.                                 *)
LEMMA LifeRedirect ==
  ASSUME Inv, LifeOK, life # "crashed", NEW a \in Addr, NEW i \in Cmd, NEW r \in Reply,
         CallbackMoved(a, i, r) \/ CallbackAsk(a, i, r)
  PROVE  LifeOK'
  <1>0. TypeOK /\ SlotsOK
    BY Zenon DEF Inv, LifeOK, SlotsOK
  <1>1. /\ cur = NULL /\ queue[a] # << >> /\ i = Head(queue[a]) /\ ~shutdown
        /\ cmd[i].retry # NO_RETRY /\ r.type \in {"moved", "ask"}
        /\ nodes' = nodes \union {r.node} /\ UNCHANGED shutdown
    BY Zenon DEF CallbackMoved, CallbackAsk, Arrives, Idle, Retried
  <1>2. r.node \in Addr /\ r.node \in nodes' /\ nodes' # {}
    BY <1>1, Zenon DEF Reply
  <1>3. life # "freed"
    BY <1>1, Zenon DEF LifeOK
  <1>4. SlotsOK'
    <2>1. Retry(i) \/ Deliver(i, TRUE, FALSE)
      BY Zenon DEF CallbackMoved, CallbackAsk
    <2> QED
      BY <1>0, <1>1, <2>1, SlotsKept, Zenon
  <1>5. CASE UNCHANGED life
    BY <1>2, <1>3, <1>4, <1>5, Zenon DEF LifeOK, SlotsOK, OnlyKnownCrashes
  <1>6. CASE ~UNCHANGED life
    <2>1. /\ CallbackMoved(a, i, r) /\ table' = [table EXCEPT ![cmd[i].slot] = r.node]
          /\ life' = "crashed" /\ actx_get_by_node(r.node, FALSE)
      BY <1>6, Zenon DEF CallbackMoved, CallbackAsk
    <2>2. state[r.node] = "none" /\ state' = state /\ r.node \in Unresolvable
      BY <1>1, <1>2, <2>1, AsyncAssumption, Zenon DEF actx_get_by_node
    <2>3. i \in Pending
      BY <1>1, TakenFacts, Zenon
    <2>4. cmd[i].slot \in Slot
      BY <1>0, <1>1, <2>3, Zenon DEF SlotsOK, Pending
    <2>5. table'[cmd[i].slot] = r.node
      BY <1>0, <2>1, <2>4, Zenon DEF TypeOK
    <2>6. OnlyKnownCrashes'
      BY <1>1, <1>2, <2>2, <2>4, <2>5, Zenon DEF OnlyKnownCrashes
    <2> QED
      BY <1>2, <1>4, <2>1, <2>6, Zenon DEF LifeOK, SlotsOK
  <1> QED
    BY <1>5, <1>6, Zenon

LEMMA LifeAnswered ==
  ASSUME Inv, LifeOK, life # "crashed", NEW a \in Addr, Connected(a) \/ Lost(a) \/ Answered(a)
  PROVE  LifeOK'
  <1>0. TypeOK /\ SlotsOK
    BY Zenon DEF Inv, LifeOK, SlotsOK
  <1>1. CASE Connected(a)
    <2>1. state[a] # "none" /\ state' = [state EXCEPT ![a] = "connected"]
          /\ UNCHANGED <<nodes, shutdown, cmd, life>>
      BY <1>1, Zenon DEF Connected
    <2>2. Grows
      BY <1>0, <2>1, Zenon DEF Grows, TypeOK
    <2> QED
      BY <1>0, <2>1, <2>2, SlotsKept, LifeKept, Zenon DEF Calm
  <1>2. ASSUME UNCHANGED <<nodes, shutdown, state, life>>, SlotsOK' PROVE LifeOK'
    BY <1>2, LifeKept, Zenon DEF Grows, Calm
  <1>3. CASE Lost(a) \/ AskingReply(a)
    <2>1. UNCHANGED <<nodes, shutdown, state, life, cmd>>
      BY <1>3, Zenon DEF Lost, AskingReply, net
    <2> QED
      BY <1>0, <1>2, <2>1, SlotsKept, Zenon
  <1>4. ASSUME NEW m \in Maps, SlotmapReply(a, m) PROVE LifeOK'
    <2>1. state[a] # "none" /\ nodes' = m.nodes /\ UNCHANGED <<shutdown, life, cmd>>
      BY <1>4, Zenon DEF SlotmapReply, Arrives
    <2>2. nodes' # {}
      BY <2>1, AsyncAssumption, Zenon DEF IsMap
    <2>3. life # "freed"
      <3> SUFFICES ASSUME life = "freed" PROVE FALSE
        BY Zenon
      <3>1. nodes = {} /\ doomed = {} /\ cur = NULL
        BY <1>4, Zenon DEF LifeOK, SlotmapReply, Arrives, Idle
      <3> QED
        BY <2>1, <3>1, AsyncAssumption, Zenon DEF Inv, Accounted
    <2>4. SlotsOK'
      BY <1>0, <2>1, SlotsKept, Zenon
    <2> QED
      BY <2>1, <2>2, <2>3, <2>4, Zenon DEF LifeOK, SlotsOK, OnlyKnownCrashes
  <1>5. CASE SlotmapInvalid(a)
    <2>1. UNCHANGED <<nodes, shutdown, cmd>>
      BY <1>5, Zenon DEF SlotmapInvalid
    <2>2. SlotsOK'
      BY <1>0, <2>1, SlotsKept, Zenon
    <2>3. CASE \E fail \in BOOLEAN : updateSlotMapAsync(Pop(queue, a), "recent", fail)
      BY <1>0, <2>1, <2>2, <2>3, UpdateLife, UpdateGrows, LifeKept, Zenon
    <2>4. CASE state' = [state EXCEPT ![a] = "none"] /\ UNCHANGED life
      <3>1. Grows
        BY <1>0, <2>4, Zenon DEF Grows, TypeOK
      <3> QED
        BY <2>1, <2>2, <2>4, <3>1, LifeKept, Zenon DEF Calm
    <2> QED
      BY <1>5, <2>3, <2>4, Zenon DEF SlotmapInvalid
  <1>6. ASSUME NEW i \in Cmd, NEW r \in Reply, Callback(a, i, r) PROVE LifeOK'
    <2>1. CASE CallbackMoved(a, i, r) \/ CallbackAsk(a, i, r)
      BY <2>1, LifeRedirect, Zenon
    <2>2. CASE CallbackDone(a, i, r) \/ CallbackFailed(a, i, r)
      <3>1. /\ UNCHANGED <<nodes, shutdown, state, life>>
            /\ Deliver(i, err, TRUE) \/ Deliver(i, TRUE, FALSE)
        BY <2>2, Zenon DEF CallbackDone, CallbackFailed
      <3> QED
        BY <1>0, <1>2, <3>1, SlotsKept, Zenon
    <2>3. CASE CallbackTryAgain(a, i, r)
      <3>1. UNCHANGED <<nodes, shutdown, state, life>> /\ Retry(i) /\ cmd[i].retry # NO_RETRY
        BY <2>3, Zenon DEF CallbackTryAgain, Retried
      <3> QED
        BY <1>0, <1>2, <3>1, SlotsKept, Zenon
    <2> QED
      BY <1>6, <2>1, <2>2, <2>3, Zenon DEF Callback
  <1> QED
    BY <1>1, <1>3, <1>4, <1>5, <1>6, Zenon DEF Answered

LEMMA LifeUnwind ==
  ASSUME Inv, LifeOK, life # "crashed", Unwind \/ TimePasses
  PROVE  LifeOK'
  <1>0. TypeOK /\ SlotsOK
    BY Zenon DEF Inv, LifeOK, SlotsOK
  <1>1. ASSUME UNCHANGED <<nodes, shutdown, life, cmd>>, Grows PROVE LifeOK'
    BY <1>0, <1>1, SlotsKept, LifeKept, Zenon DEF Calm
  <1>2. CASE (\E a \in Addr : FreeDetached(a)) \/ AskingNull \/ TimePasses
    <2>1. UNCHANGED <<nodes, shutdown, life, cmd, state>>
      BY <1>2, Zenon DEF FreeDetached, AskingNull, TimePasses, net
    <2> QED
      BY <1>1, <2>1, Zenon DEF Grows
  <1>3. CASE Gone \/ CallbackReturns \/ EndUpdate
    <2>1. /\ UNCHANGED <<nodes, shutdown, life, cmd>>
          /\ UNCHANGED state \/ \E c \in {at, cur} : state' = [state EXCEPT ![c] = "none"]
      BY <1>3, Zenon DEF Gone, CallbackReturns, EndUpdate
    <2>2. Grows
      BY <1>0, <2>1, Zenon DEF Grows, TypeOK
    <2> QED
      BY <1>1, <2>1, <2>2, Zenon
  <1>4. ASSUME NEW i \in Cmd, CallbackNull(i) PROVE LifeOK'
    <2>1. UNCHANGED <<nodes, shutdown>> /\ Deliver(i, TRUE, FALSE)
      BY <1>4, Zenon DEF CallbackNull
    <2>2. SlotsOK'
      BY <1>0, <2>1, SlotsKept, Zenon
    <2>3. CASE \E fail \in BOOLEAN : throttledUpdateSlotMapAsync(Pop(queue, cur), fail)
      BY <1>0, <2>1, <2>2, <2>3, UpdateLife, UpdateGrows, LifeKept, Zenon
    <2>4. CASE UNCHANGED <<state, life>>
      BY <2>1, <2>2, <2>4, LifeKept, Zenon DEF Grows, Calm
    <2> QED
      BY <1>4, <2>3, <2>4, Zenon DEF CallbackNull
  <1>5. CASE SlotmapNull
    <2>1. /\ UNCHANGED <<nodes, shutdown, cmd>>
          /\ \E fail \in BOOLEAN : updateSlotMapAsync(Pop(queue, cur), "recent", fail)
      BY <1>5, Zenon DEF SlotmapNull
    <2> QED
      BY <1>0, <2>1, UpdateLife, UpdateGrows, SlotsKept, LifeKept, Zenon
  <1> QED
    BY <1>2, <1>3, <1>4, <1>5, Zenon DEF Unwind

LEMMA LifeNext ==
  ASSUME Inv, LifeOK, [Next]_vars
  PROVE  LifeOK'
  <1>1. CASE Next
    BY <1>1, LifeCalls, LifeAnswered, LifeUnwind, Zenon DEF Next
  <1>2. CASE UNCHANGED vars
    BY <1>2, Zenon DEF vars, LifeOK, OnlyKnownCrashes
  <1> QED
    BY <1>1, <1>2, Zenon

LEMMA LifeInit ==
  ASSUME Init
  PROVE  LifeOK
  <1>1. life = "alive" /\ \A a \in Addr : state[a] = "none"
    BY Zenon DEF Init
  <1>2. \A i \in Cmd : cmd[i].st = "idle"
    BY Zenon DEF Init
  <1> QED
    BY <1>1, <1>2, Zenon DEF LifeOK, OnlyKnownCrashes

(* This part of the invariant holds in every reachable state too.          *)
THEOREM LifeHolds == Spec => []LifeOK
  BY LifeInit, LifeNext, InvHolds, PTL DEF Spec

(* The client uses a missing context, or picks a node where there is none, *)
(* in the two known cases only (4065, 3905).                               *)
THEOREM CrashesAreKnown == Spec => []OnlyKnownCrashes
  <1>1. LifeOK => OnlyKnownCrashes
    BY Zenon DEF LifeOK
  <1> QED
    BY <1>1, LifeHolds, PTL

-----------------------------------------------------------------------------
(* The state and the phase that the contract sees, and when the context is *)
(* gone: then nothing waits, and no step changes this.                     *)
Seen == [i \in Cmd |-> IF cmd[i].st \in Outcomes THEN "called" ELSE cmd[i].st]

Freed == life = "freed" /\ Idle

Phase == IF Freed THEN "freed" ELSE IF shutdown THEN "closing" ELSE "open"

LEMMA FreedFacts ==
  ASSUME Inv, LifeOK, Freed
  PROVE  Pending = {} /\ \A a \in Addr : state[a] = "none" /\ queue[a] = << >>
  <1>0. nodes = {} /\ QueuesOK(queue, state, last, Pending, Repeated)
    BY Zenon DEF Inv, LifeOK, Freed
  <1>1. \A a \in Addr : state[a] = "none"
    BY <1>0, AsyncAssumption, Zenon DEF Inv, Accounted, Freed, Idle
  <1>2. \A a \in Addr : queue[a] = << >>
    BY <1>0, <1>1, Zenon DEF QueuesOK
  <1>3. \A a \in Addr : Len(queue[a]) = 0
    BY <1>2
  <1>4. \A i \in Cmd : ~In(i, queue)
    BY <1>3 DEF In
  <1>5. Pending = {}
    BY <1>0, <1>4, Zenon DEF QueuesOK, Pending
  <1> QED
    BY <1>1, <1>2, <1>5, Zenon

(* What a step does to the commands, as far as the contract tells.         *)
Accepts(i) ==
  /\ cmd[i].st = "idle" /\ ~shutdown /\ ~Freed /\ cmd'[i].st = "pending"
  /\ \A j \in Cmd \ {i} : cmd'[j].st = cmd[j].st
  /\ UNCHANGED <<at, cur, doomed, running, shutdown, life>>

Refuses(i) ==
  /\ cmd[i].st = "idle" /\ ~Freed /\ cmd'[i].st = "refused"
  /\ \A j \in Cmd \ {i} : cmd'[j].st = cmd[j].st
  /\ UNCHANGED <<at, cur, doomed, running, shutdown>>
  /\ life' = "freed" <=> life = "freed"

Delivers(i) ==
  /\ cmd[i].st = "pending" /\ ~Freed /\ cmd'[i].st \in Outcomes /\ running' = i
  /\ \A j \in Cmd \ {i} : cmd'[j].st = cmd[j].st
  /\ UNCHANGED shutdown

Leaves ==
  /\ \A j \in Cmd : cmd'[j].st = cmd[j].st
  /\ shutdown => shutdown'
  /\ Freed => Freed'

LEMMA SendEffect ==
  ASSUME TypeOK, NEW i \in Cmd, NEW a, NEW s, NEW r, cmd[i].st = "idle", ~Freed, ~shutdown,
         Send(i, a, s, r), UNCHANGED <<at, cur, doomed, running, shutdown, life>>
  PROVE  Accepts(i) \/ Refuses(i)
  <1>1. cmd \in [Cmd -> [st : {"idle", "refused", "pending"} \union Outcomes,
                         slot : Slot \union {NULL}, retry : NO_RETRY .. MaxRetry]]
    BY Zenon DEF TypeOK
  <1>2. CASE cmd' = [cmd EXCEPT ![i] = [st |-> "pending", slot |-> s, retry |-> r]]
    BY <1>1, <1>2, Zenon DEF Accepts
  <1>3. CASE Refuse(i)
    BY <1>1, <1>3, Zenon DEF Refuse, Refuses
  <1> QED
    BY <1>2, <1>3, Zenon DEF Send

LEMMA CallsEffect ==
  ASSUME Inv, LifeOK, Calls
  PROVE  Leaves \/ \E i \in Cmd : Accepts(i) \/ Refuses(i)
  <1>0. TypeOK
    BY Zenon DEF Inv
  <1>1. cmd \in [Cmd -> [st : {"idle", "refused", "pending"} \union Outcomes,
                         slot : Slot \union {NULL}, retry : NO_RETRY .. MaxRetry]]
    BY <1>0, Zenon DEF TypeOK
  <1>2. CASE redisClusterAsyncConnect2
    BY <1>2, Zenon DEF redisClusterAsyncConnect2, Leaves, Freed, stack
  <1>3. ASSUME NEW i \in Cmd, Refuse(i), cmd[i].st = "idle", ~Freed,
               UNCHANGED <<at, cur, doomed, running, shutdown>>, life' = "freed" <=> life = "freed"
        PROVE  Refuses(i)
    BY <1>1, <1>3, Zenon DEF Refuse, Refuses
  <1>4. ASSUME NEW i \in Cmd, NEW s \in Slot, redisClusterAsyncFormattedCommand(i, s)
        PROVE  Accepts(i) \/ Refuses(i)
    <2>1. /\ cmd[i].st = "idle" /\ ~Freed
          /\ UNCHANGED <<at, cur, doomed, running, shutdown>>
      BY <1>4, Zenon DEF redisClusterAsyncFormattedCommand, stack, MayCall, Freed, Idle
    <2>2. CASE Refuse(i) /\ UNCHANGED life
      BY <1>3, <2>1, <2>2, Zenon
    <2>3. CASE /\ ~shutdown /\ Refuse(i)
               /\ \E fail \in BOOLEAN : throttledUpdateSlotMapAsync(queue, fail)
      <3>1. life' = life \/ life' = "crashed"
        BY <2>3, UpdateLife, Zenon DEF Calm
      <3>2. life # "freed"
        BY <2>3, Zenon DEF LifeOK
      <3> QED
        BY <1>3, <2>1, <2>3, <3>1, <3>2, Zenon
    <2>4. CASE ~shutdown /\ Send(i, table[s], s, 0) /\ UNCHANGED life
      BY <1>0, <2>1, <2>4, SendEffect, Zenon
    <2> QED
      BY <1>4, <2>2, <2>3, <2>4, Zenon DEF redisClusterAsyncFormattedCommand
  <1>5. ASSUME NEW i \in Cmd, NEW a \in Addr, redisClusterAsyncFormattedCommandToNode(i, a)
        PROVE  Accepts(i) \/ Refuses(i)
    <2>1. /\ cmd[i].st = "idle" /\ ~Freed
          /\ UNCHANGED <<at, cur, doomed, running, shutdown, life>>
      BY <1>5, Zenon DEF redisClusterAsyncFormattedCommandToNode, stack, MayCall, Freed, Idle
    <2>2. CASE Refuse(i)
      BY <1>3, <2>1, <2>2, Zenon
    <2>3. CASE ~shutdown /\ Send(i, a, NULL, NO_RETRY)
      BY <1>0, <2>1, <2>3, SendEffect, ZenonT(30)
    <2> QED
      BY <1>5, <2>2, <2>3, ZenonT(30) DEF redisClusterAsyncFormattedCommandToNode
  <1>6. CASE redisClusterAsyncDisconnect
    BY <1>6, Zenon DEF redisClusterAsyncDisconnect, Leaves, MayCall, Freed, Idle
  <1>7. CASE redisClusterAsyncFree
    BY <1>7, Zenon DEF redisClusterAsyncFree, Leaves, Freed
  <1> QED
    BY <1>2, <1>4, <1>5, <1>6, <1>7, Zenon DEF Calls

LEMMA DeliverEffect ==
  ASSUME Inv, LifeOK, life # "crashed", NEW a \in Addr, NEW i \in Cmd, queue[a] # << >>, i = Head(queue[a]),
         NEW e, NEW received \in BOOLEAN, Deliver(i, e, received), UNCHANGED shutdown
  PROVE  Delivers(i)
  <1>1. /\ cmd'[i].st \in Outcomes /\ running' = i
        /\ \A j \in Cmd : j # i => cmd'[j] = cmd[j]
    BY DeliverFacts, ZenonT(30) DEF Inv
  <1>2. i \in Pending
    BY TakenFacts, Zenon
  <1>3. ~Freed
    BY FreedFacts, Zenon
  <1> QED
    BY <1>1, <1>2, <1>3, ZenonT(30) DEF Delivers, Pending

LEMMA AnsweredEffect ==
  ASSUME Inv, LifeOK, life # "crashed", NEW a \in Addr, Connected(a) \/ Lost(a) \/ Answered(a)
  PROVE  Leaves \/ \E i \in Cmd : Delivers(i)
  <1>1. state[a] # "none"
    BY ZenonT(30) DEF Connected, Lost, Answered, Callback, CallbackDone, CallbackFailed, CallbackMoved,
       CallbackAsk, CallbackTryAgain, AskingReply, SlotmapReply, SlotmapInvalid, Arrives
  <1>2. ~Freed
    BY <1>1, FreedFacts, Zenon
  <1>3. ASSUME UNCHANGED <<cmd, shutdown>> PROVE Leaves
    BY <1>2, <1>3, Zenon DEF Leaves
  <1>4. CASE Connected(a) \/ Lost(a)
    BY <1>3, <1>4, Zenon DEF Connected, Lost
  <1>5. CASE AskingReply(a) \/ (\E m \in Maps : SlotmapReply(a, m)) \/ SlotmapInvalid(a)
    BY <1>3, <1>5, Zenon DEF AskingReply, SlotmapReply, SlotmapInvalid
  <1>6. ASSUME NEW i \in Cmd, NEW r \in Reply, Callback(a, i, r)
        PROVE  Leaves \/ Delivers(i)
    <2>1. queue[a] # << >> /\ i = Head(queue[a]) /\ UNCHANGED shutdown
      BY <1>6, Zenon DEF Callback, CallbackDone, CallbackFailed, CallbackMoved, CallbackAsk,
         CallbackTryAgain, Arrives
    <2>2. CASE Deliver(i, err, TRUE) \/ Deliver(i, TRUE, FALSE)
      BY <2>1, <2>2, DeliverEffect, ZenonT(30)
    <2>3. CASE Retry(i) /\ ~Exhausted(i) /\ cmd[i].retry # NO_RETRY
      <3>1. \A j \in Cmd : cmd'[j].st = cmd[j].st
        BY <2>3, RetryFacts, Zenon DEF Inv
      <3> QED
        BY <1>2, <2>1, <2>3, <3>1, Zenon DEF Leaves, Freed
    <2>4. CASE CallbackDone(a, i, r) \/ CallbackFailed(a, i, r)
      BY <2>2, <2>4, Zenon DEF CallbackDone, CallbackFailed
    <2>5. CASE CallbackMoved(a, i, r)
      BY <2>3, <2>5, Zenon DEF CallbackMoved, Retried
    <2>6. CASE CallbackAsk(a, i, r)
      <3>1. cmd[i].retry # NO_RETRY /\ ~Exhausted(i)
        BY <2>6, Zenon DEF CallbackAsk, Retried
      <3>2. Retry(i) \/ Deliver(i, TRUE, FALSE)
        BY <2>6, Zenon DEF CallbackAsk
      <3> QED
        BY <2>2, <2>3, <3>1, <3>2, Zenon
    <2>7. CASE CallbackTryAgain(a, i, r)
      BY <2>3, <2>7, Zenon DEF CallbackTryAgain, Retried
    <2> QED
      BY <1>6, <2>4, <2>5, <2>6, <2>7, Zenon DEF Callback
  <1> QED
    BY <1>4, <1>5, <1>6, Zenon DEF Answered

LEMMA UnwindEffect ==
  ASSUME Inv, LifeOK, life # "crashed", Unwind
  PROVE  Leaves \/ \E i \in Cmd : Delivers(i)
  <1>1. CASE \E i \in Cmd : CallbackNull(i)
    <2>1. PICK i \in Cmd : CallbackNull(i)
      BY <1>1, Zenon
    <2>2. /\ cur # NULL /\ queue[cur] # << >> /\ i = Head(queue[cur])
          /\ Deliver(i, TRUE, FALSE) /\ UNCHANGED shutdown
      BY <2>1, Zenon DEF CallbackNull
    <2>3. cur \in Addr
      BY <2>2, Zenon DEF Inv, TypeOK
    <2> QED
      BY <2>2, <2>3, DeliverEffect, Zenon
  <1>2. ASSUME ~Idle, UNCHANGED <<cmd, shutdown>> PROVE Leaves
    BY <1>2, Zenon DEF Leaves, Freed
  <1>3. CASE \E a \in Addr : FreeDetached(a)
    BY <1>2, <1>3, Zenon DEF FreeDetached, Idle
  <1>4. CASE AskingNull \/ SlotmapNull \/ Gone \/ CallbackReturns \/ EndUpdate
    BY <1>2, <1>4, Zenon DEF AskingNull, SlotmapNull, Gone, CallbackReturns, EndUpdate, Idle
  <1> QED
    BY <1>1, <1>3, <1>4, Zenon DEF Unwind

LEMMA NextEffect ==
  ASSUME Inv, LifeOK, Next
  PROVE  Leaves \/ \E i \in Cmd : Accepts(i) \/ Refuses(i) \/ Delivers(i)
  <1>0. life # "crashed"
    BY Zenon DEF Next
  <1>1. CASE TimePasses
    BY <1>0, <1>1, Zenon DEF TimePasses, Leaves, Freed, Idle, stack
  <1> QED
    BY <1>0, <1>1, CallsEffect, AnsweredEffect, UnwindEffect, Zenon DEF Next

(* Every step is one of the contract, or changes nothing it sees.          *)
FreedIsEmpty == Freed => Pending = {}

LEMMA ContractStep ==
  ASSUME Inv, LifeOK, FreedIsEmpty', Next
  PROVE  [Contract!Next]_(Contract!cvars)
  <1>1. CASE Leaves
    <2>1. Seen' = Seen
      BY <1>1, Zenon DEF Leaves, Seen
    <2>2. CASE Phase' = Phase
      BY <2>1, <2>2, Zenon DEF Seen, Phase, Freed, Contract!cvars
    <2>3. CASE Freed' /\ ~Freed
      <3>1. Pending' = {}
        BY <1>1, <2>3, Zenon DEF Leaves, FreedIsEmpty
      <3>2. \A i \in Cmd : cmd[i].st # "pending"
        BY <1>1, <3>1, Zenon DEF Leaves, Pending
      <3>3. \A i \in Cmd : Seen[i] # "pending"
        BY <3>2, Zenon DEF Seen
      <3>4. Phase # "freed" /\ Phase' = "freed"
        BY <2>3, Zenon DEF Phase
      <3>5. Contract!Free
        BY <2>1, <3>3, <3>4, Zenon DEF Contract!Free, Seen, Phase, Freed
      <3> QED
        BY <3>5, Zenon DEF Contract!Next
    <2>4. CASE ~Freed' /\ ~Freed /\ ~shutdown /\ shutdown'
      <3>1. Phase = "open" /\ Phase' = "closing"
        BY <2>4, Zenon DEF Phase
      <3>2. Contract!Close
        BY <2>1, <3>1, Zenon DEF Contract!Close, Seen, Phase, Freed
      <3> QED
        BY <3>2, Zenon DEF Contract!Next
    <2> QED
      BY <1>1, <2>2, <2>3, <2>4, Zenon DEF Leaves, Phase
  <1>2. ASSUME NEW i \in Cmd, Accepts(i)
        PROVE  Contract!Next
    <2>1. Phase = "open" /\ Phase' = Phase
      BY <1>2, Zenon DEF Accepts, Phase, Freed, Idle
    <2>2. Seen[i] = "idle" /\ Seen' = [Seen EXCEPT ![i] = "pending"]
      BY <1>2, Zenon DEF Accepts, Seen, Outcomes
    <2>3. Contract!Accept(i)
      BY <2>1, <2>2, Zenon DEF Contract!Accept, Seen, Phase, Freed
    <2> QED
      BY <2>3, Zenon DEF Contract!Next
  <1>3. ASSUME NEW i \in Cmd, Refuses(i)
        PROVE  Contract!Next
    <2>1. Phase # "freed" /\ Phase' = Phase
      BY <1>3, Zenon DEF Refuses, Phase, Freed, Idle
    <2>2. Seen[i] = "idle" /\ Seen' = [Seen EXCEPT ![i] = "refused"]
      BY <1>3, Zenon DEF Refuses, Seen, Outcomes
    <2>3. Contract!Refuse(i)
      BY <2>1, <2>2, Zenon DEF Contract!Refuse, Seen, Phase, Freed
    <2> QED
      BY <2>3, Zenon DEF Contract!Next
  <1>4. ASSUME NEW i \in Cmd, Delivers(i)
        PROVE  Contract!Next
    <2>1. Phase # "freed" /\ Phase' = Phase
      BY <1>4, AsyncAssumption, Zenon DEF Delivers, Phase, Freed, Idle
    <2>2. Seen[i] = "pending" /\ Seen' = [Seen EXCEPT ![i] = "called"]
      BY <1>4, Zenon DEF Delivers, Seen, Outcomes
    <2>3. Contract!Call(i)
      BY <2>1, <2>2, Zenon DEF Contract!Call, Seen, Phase, Freed
    <2> QED
      BY <2>3, Zenon DEF Contract!Next
  <1> QED
    BY <1>1, <1>2, <1>3, <1>4, NextEffect, Zenon

(* The client keeps the contract of the asynchronous API, as far as it is  *)
(* about safety: commands are accepted, refused and called back as         *)
(* AsyncContract says, none is accepted once the client closes, and none   *)
(* is pending when the context has been freed.                             *)
THEOREM ClientKeepsContract == Spec => Contract!Safe
  <1>1. Init => Contract!Init
    <2> SUFFICES ASSUME Init PROVE Contract!Init
      BY Zenon
    <2>1. life # "freed" /\ ~shutdown
      BY Zenon DEF Init
    <2>2. \A i \in Cmd : cmd[i].st = "idle"
      BY Zenon DEF Init
    <2> QED
      BY <2>1, <2>2, Zenon DEF Contract!Init, Outcomes
  <1>2. Inv /\ LifeOK => FreedIsEmpty
    BY FreedFacts, Zenon DEF FreedIsEmpty
  <1>3. Inv /\ LifeOK /\ FreedIsEmpty' /\ [Next]_vars => [Contract!Next]_(Contract!cvars)
    <2>1. CASE UNCHANGED vars
      <3>1. Seen' = Seen /\ Phase' = Phase
        BY <2>1, Zenon DEF vars, Seen, Phase, Freed, Idle
      <3> QED
        BY <3>1, Zenon DEF Seen, Phase, Freed, Contract!cvars
    <2> QED
      BY <2>1, ContractStep, Zenon
  <1> QED
    BY <1>1, <1>2, <1>3, InvHolds, LifeHolds, PTL DEF Spec, Contract!Safe
=============================================================================
