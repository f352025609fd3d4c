--------------------------- MODULE PipelineProofs ---------------------------
(***************************************************************************)
(* Proofs about Pipeline: the replies to come on every connection are the  *)
(* ones that cc->requests says, whatever the number of nodes, slots,       *)
(* sub-commands and requests.                                              *)
(*                                                                         *)
(* Aligned is inductive.  The work is in counting: Times is additive, and  *)
(* what FlattenSeq gives for a list of requests changes by the share of    *)
(* one request when one is appended or read.  An update adds that a list   *)
(* whose requests keep their nodes keeps its shares, on connections that   *)
(* the update keeps as well.                                               *)
(***************************************************************************)
EXTENDS Pipeline, FiniteSetTheorems, WellFoundedInduction, TLAPS

-----------------------------------------------------------------------------
(* Facts about numbers and sequences.                                      *)

(* A set of numbers that is not empty has a least element.                 *)
LEMMA Least ==
  ASSUME NEW T, T \subseteq Nat, T # {}
  PROVE  \E x \in T : \A y \in T : x <= y
  <1> DEFINE R == OpToRel(<, Nat)
  <1>1. PICK x \in T : \A y \in T : ~ (<<y, x>> \in R)
    BY WFMin, NatLessThanWellFounded, Zenon
  <1>2. \A y \in Nat : y < x => <<y, x>> \in R
    BY DEF OpToRel
  <1> HIDE DEF R
  <1>3. \A y \in T : y \in Nat /\ x \in Nat /\ ~(y < x)
    BY <1>1, <1>2, Zenon
  <1>4. \A y \in T : x <= y
    BY <1>3
  <1> QED
    BY <1>4

(* Induction, for a set instead of a predicate.                            *)
LEMMA Induction ==
  ASSUME NEW S, 0 \in S, \A n \in Nat : n \in S => n + 1 \in S
  PROVE  Nat \subseteq S
  <1> DEFINE T == {n \in Nat : n \notin S}
  <1> SUFFICES ASSUME T # {} PROVE FALSE
    OBVIOUS
  <1>1. PICK x \in T : \A y \in T : x <= y
    BY Least, Zenon
  <1>2. x # 0 /\ x - 1 \in Nat
    OBVIOUS
  <1>3. x - 1 \in S
    BY <1>1, <1>2
  <1> QED
    BY <1>2, <1>3

(* Induction over sequences, by appending.                                 *)
LEMMA SequenceInduction ==
  ASSUME NEW S, NEW P, << >> \in P,
         \A s \in Seq(S), x \in S : s \in P => Append(s, x) \in P
  PROVE  Seq(S) \subseteq P
  <1> DEFINE N == {n \in Nat : \A s \in Seq(S) : Len(s) = n => s \in P}
  <1>1. 0 \in N
    OBVIOUS
  <1>2. ASSUME NEW n \in Nat, n \in N PROVE n + 1 \in N
    <2>1. SUFFICES ASSUME NEW s \in Seq(S), Len(s) = n + 1 PROVE s \in P
      OBVIOUS
    <2> DEFINE f == SubSeq(s, 1, n)
    <2>2. f \in Seq(S) /\ Len(f) = n /\ s[n + 1] \in S /\ s = Append(f, s[n + 1])
      BY <2>1
    <2> HIDE DEF f
    <2>3. f \in P
      BY <1>2, <2>2
    <2> QED
      BY <2>2, <2>3, Zenon
  <1> HIDE DEF N
  <1>3. Nat \subseteq N
    BY <1>1, <1>2, Induction
  <1> QED
    BY <1>3 DEF N

(* A function on 1 .. k is a sequence of length k.                         *)
LEMMA FunctionIsSeq ==
  ASSUME NEW S, NEW k \in Nat, NEW w \in [1 .. k -> S]
  PROVE  w \in Seq(S) /\ Len(w) = k
  OBVIOUS

LEMMA LenIs ==
  ASSUME NEW S, NEW w \in Seq(S), NEW k \in Nat, DOMAIN w = 1 .. k
  PROVE  Len(w) = k
  OBVIOUS

(* A sequence is given by what it is without its last element, and that.   *)
LEMMA AppendIs ==
  ASSUME NEW S, NEW u \in Seq(S), NEW w \in Seq(S), NEW x \in S, NEW k \in Nat,
         DOMAIN u = 1 .. k + 1, DOMAIN w = 1 .. k,
         \A i \in 1 .. k : u[i] = w[i], u[k + 1] = x
  PROVE  u = Append(w, x)
  <1>1. Len(w) = k /\ Len(u) = k + 1
    OBVIOUS
  <1> DEFINE v == Append(w, x)
  <1>2. v \in Seq(S) /\ Len(v) = k + 1 /\ v[k + 1] = x /\ \A i \in 1 .. k : v[i] = w[i]
    BY <1>1
  <1> HIDE DEF v
  <1>3. \A i \in 1 .. k + 1 : u[i] = v[i]
    BY <1>2
  <1>4. u = v
    BY <1>1, <1>2, <1>3
  <1> QED
    BY <1>4 DEF v

LEMMA JoinLen ==
  \A S : \A a, b \in Seq(S) : Len(a \o b) = Len(a) + Len(b)
  OBVIOUS

(* Taking k elements off the front, when the first k are known.            *)
LEMMA DropType ==
  ASSUME NEW S, NEW w \in Seq(S), NEW k \in Nat
  PROVE  SubSeq(w, k + 1, Len(w)) \in Seq(S)
  OBVIOUS

LEMMA DropJoin ==
  ASSUME NEW S, NEW s \in Seq(S), NEW w \in Seq(S)
  PROVE  /\ SubSeq(s \o w, Len(s) + 1, Len(s \o w)) = w
         /\ \A p \in 1 .. Len(s) : (s \o w)[p] = s[p]
  <1> DEFINE t == s \o w
             u == SubSeq(t, Len(s) + 1, Len(t))
  <1>1. t \in Seq(S) /\ Len(t) = Len(s) + Len(w)
        /\ (\A i \in 1 .. Len(w) : t[Len(s) + i] = w[i])
        /\ (\A p \in 1 .. Len(s) : t[p] = s[p])
    OBVIOUS
  <1> HIDE DEF t
  <1>2. u \in Seq(S) /\ Len(u) = Len(w)
        /\ \A i \in 1 .. Len(w) : u[i] = t[Len(s) + i]
    BY <1>1
  <1> HIDE DEF u
  <1>3. u = w
    BY <1>1, <1>2
  <1> QED
    BY <1>1, <1>3 DEF t, u

(* Joining sequences is associative.  Where a lemma on joined sequences is *)
(* used, the join is best kept folded.                                     *)
Cat(a, b) == a \o b

LEMMA JoinAssoc ==
  ASSUME NEW S, NEW a \in Seq(S), NEW b \in Seq(S), NEW c \in Seq(S)
  PROVE  Cat(Cat(a, b), c) = Cat(a, Cat(b, c))
  <1> DEFINE l == (a \o b) \o c
             r == a \o (b \o c)
  <1>1. l \in Seq(S) /\ r \in Seq(S)
    OBVIOUS
  <1>2. Len(l) = Len(a) + Len(b) + Len(c) /\ Len(r) = Len(a) + Len(b) + Len(c)
    OBVIOUS
  <1>3. ASSUME NEW i \in 1 .. Len(a) + Len(b) + Len(c) PROVE l[i] = r[i]
    <2>1. CASE i \in 1 .. Len(a)
      BY <2>1
    <2>2. CASE i \in Len(a) + 1 .. Len(a) + Len(b)
      BY <2>2
    <2>3. CASE i \in Len(a) + Len(b) + 1 .. Len(a) + Len(b) + Len(c)
      BY <2>3
    <2> QED
      BY <2>1, <2>2, <2>3
  <1> HIDE DEF l, r
  <1>4. l = r
    BY <1>1, <1>2, <1>3
  <1> QED
    BY <1>4, Zenon DEF l, r, Cat

(* The beginning of a beginning.                                           *)
LEMMA ShorterTwice ==
  ASSUME NEW S, NEW o \in Seq(S), NEW k \in 0 .. Len(o), NEW m \in 0 .. k
  PROVE  LET q == SubSeq(o, 1, m)
         IN  q \in Seq(S) /\ DOMAIN q = 1 .. m /\ q = SubSeq(SubSeq(o, 1, k), 1, m)
             /\ \A i \in DOMAIN q : q[i] = o[i]
  <1> DEFINE q == SubSeq(o, 1, m)
             p == SubSeq(o, 1, k)
             t == SubSeq(p, 1, m)
  <1>1. /\ q \in Seq(S) /\ Len(q) = m /\ DOMAIN q = 1 .. m
        /\ \A i \in 1 .. m : q[i] = o[i]
    OBVIOUS
  <1>2. p \in Seq(S) /\ Len(p) = k /\ \A i \in 1 .. k : p[i] = o[i]
    OBVIOUS
  <1> HIDE DEF p
  <1>3. t \in Seq(S) /\ Len(t) = m /\ \A i \in 1 .. m : t[i] = p[i]
    BY <1>2
  <1> HIDE DEF q, t
  <1>4. \A i \in 1 .. m : q[i] = t[i]
    BY <1>1, <1>2, <1>3
  <1>5. q = t
    BY <1>1, <1>3, <1>4
  <1> QED
    BY <1>1, <1>5, Zenon DEF q, t, p

(* Sequences with the same elements.                                       *)
LEMMA SameSeq ==
  ASSUME NEW S, NEW u \in Seq(S), NEW p \in Seq(S), Len(u) = Len(p),
         \A i \in 1 .. Len(p) : u[i] = p[i]
  PROVE  u = p
  OBVIOUS

(* A sequence that another one starts with, and what follows it.           *)
LEMMA StartsRest ==
  ASSUME NEW S, NEW w \in Seq(S), NEW p \in Seq(S), StartsWith(w, p)
  PROVE  \E v \in Seq(S) : w = Cat(p, v)
  <1> DEFINE v == SubSeq(w, Len(p) + 1, Len(w))
             u == p \o v
  <1>1. Len(p) <= Len(w) /\ \A i \in 1 .. Len(p) : w[i] = p[i]
    <2>1. Len(p) <= Len(w) /\ SubSeq(w, 1, Len(p)) = p
      BY DEF StartsWith
    <2>2. \A i \in 1 .. Len(p) : SubSeq(w, 1, Len(p))[i] = w[i]
      BY <2>1
    <2> QED
      BY <2>1, <2>2
  <1>2. v \in Seq(S) /\ Len(v) = Len(w) - Len(p)
        /\ \A i \in 1 .. Len(v) : v[i] = w[Len(p) + i]
    BY <1>1
  <1> HIDE DEF v
  <1>3. u \in Seq(S) /\ Len(u) = Len(w)
    BY <1>1, <1>2
  <1>4. (\A i \in 1 .. Len(p) : u[i] = p[i])
        /\ \A i \in Len(p) + 1 .. Len(w) : u[i] = v[i - Len(p)]
    BY <1>1, <1>2
  <1> HIDE DEF u
  <1>5. ASSUME NEW i \in 1 .. Len(w) PROVE u[i] = w[i]
    <2>1. CASE i \in 1 .. Len(p)
      BY <1>1, <1>4, <2>1, Zenon
    <2>2. CASE i \in Len(p) + 1 .. Len(w)
      <3>1. i - Len(p) \in 1 .. Len(v) /\ Len(p) + (i - Len(p)) = i
        BY <1>2, <2>2
      <3>2. v[i - Len(p)] = w[Len(p) + (i - Len(p))]
        BY <1>2, <3>1, Zenon
      <3> QED
        BY <1>4, <2>2, <3>1, <3>2, Zenon
    <2> QED
      BY <2>1, <2>2
  <1>6. u = w
    BY <1>3, <1>5
  <1> QED
    BY <1>2, <1>6, Zenon DEF u, Cat

LEMMA JoinStarts ==
  ASSUME NEW S, NEW w \in Seq(S), NEW p \in Seq(S), \E v \in Seq(S) : w = p \o v
  PROVE  StartsWith(w, p)
  <1>0. PICK v \in Seq(S) : w = p \o v
    OBVIOUS
  <1>1. Len(p) <= Len(w) /\ \A i \in 1 .. Len(p) : w[i] = p[i]
    BY <1>0
  <1> DEFINE u == SubSeq(w, 1, Len(p))
  <1>2. u \in Seq(S) /\ Len(u) = Len(p) /\ \A i \in 1 .. Len(p) : u[i] = w[i]
    BY <1>1
  <1> HIDE DEF u
  <1>3. \A i \in 1 .. Len(p) : u[i] = p[i]
    BY <1>1, <1>2, Zenon
  <1>4. u = p
    BY <1>2, <1>3, SameSeq, Zenon
  <1> QED
    BY <1>1, <1>4 DEF StartsWith, u

LEMMA StartsItself ==
  ASSUME NEW S, NEW w \in Seq(S)
  PROVE  StartsWith(w, w) /\ StartsWith(w, << >>)
  <1>1. w = w \o << >> /\ w = << >> \o w /\ << >> \in Seq(S)
    OBVIOUS
  <1> QED
    BY <1>1, JoinStarts, Zenon

LEMMA StartsLonger ==
  ASSUME NEW S, NEW w \in Seq(S), NEW p \in Seq(S), NEW q \in Seq(S),
         StartsWith(w, p), StartsWith(p, q)
  PROVE  StartsWith(w, q)
  <1>1. PICK v \in Seq(S) : w = Cat(p, v)
    BY StartsRest
  <1>2. PICK u \in Seq(S) : p = Cat(q, u)
    BY StartsRest
  <1>3. w = Cat(q, Cat(u, v))
    <2>1. Cat(Cat(q, u), v) = Cat(q, Cat(u, v))
      BY JoinAssoc
    <2> QED
      BY <1>1, <1>2, <2>1, Zenon
  <1>4. Cat(u, v) \in Seq(S)
    BY DEF Cat
  <1>5. \E x \in Seq(S) : w = q \o x
    BY <1>3, <1>4, Zenon DEF Cat
  <1> QED
    BY <1>5, JoinStarts, Zenon

-----------------------------------------------------------------------------
(* The recursive function in the definition of FlattenSeq.                 *)
Flattens(g, seqs, n) ==
  g = [i \in 1 .. n |-> IF i = 1 THEN seqs[i] ELSE g[i-1] \o seqs[i]]

LEMMA FlattensStep ==
  ASSUME NEW g, NEW seqs, NEW n \in Nat, Flattens(g, seqs, n), NEW i \in 1 .. n
  PROVE  g[i] = IF i = 1 THEN seqs[i] ELSE g[i-1] \o seqs[i]
  <1> DEFINE B(j) == IF j = 1 THEN seqs[j] ELSE g[j-1] \o seqs[j]
  <1>1. g = [j \in 1 .. n |-> B(j)]
    BY Zenon DEF Flattens
  <1> HIDE DEF B
  <1>2. g[i] = B(i)
    BY <1>1
  <1> QED
    BY <1>2 DEF B

(* It exists for every length.                                             *)
LEMMA FlattensExists ==
  ASSUME NEW seqs, NEW n \in Nat
  PROVE  \E g : Flattens(g, seqs, n)
  <1> DEFINE S == {m \in Nat : \E g : Flattens(g, seqs, m)}
  <1>1. 0 \in S
    <2>1. Flattens([i \in 1 .. 0 |-> seqs[i]], seqs, 0)
      BY DEF Flattens
    <2> QED
      BY <2>1
  <1>2. ASSUME NEW m \in Nat, m \in S PROVE m + 1 \in S
    <2>1. PICK g : Flattens(g, seqs, m)
      BY <1>2
    <2> DEFINE end == IF m = 0 THEN seqs[1] ELSE g[m] \o seqs[m + 1]
               h == [i \in 1 .. m + 1 |-> IF i <= m THEN g[i] ELSE end]
    <2>2. ASSUME NEW i \in 1 .. m + 1
          PROVE h[i] = IF i = 1 THEN seqs[i] ELSE h[i-1] \o seqs[i]
      <3>1. CASE i <= m
        <4>1. i \in 1 .. m
          BY <3>1
        <4>2. g[i] = IF i = 1 THEN seqs[i] ELSE g[i-1] \o seqs[i]
          BY <2>1, <4>1, FlattensStep
        <4> HIDE DEF end
        <4>3. h[i] = g[i] /\ (i # 1 => h[i-1] = g[i-1])
          BY <3>1
        <4> HIDE DEF h
        <4> QED
          BY <4>2, <4>3
      <3>2. CASE i = m + 1
        <4>1. h[i] = end
          BY <3>2
        <4>2. i # 1 => h[i-1] = g[m]
          BY <3>2
        <4> HIDE DEF h
        <4> QED
          BY <4>1, <4>2, <3>2
      <3> QED
        BY <3>1, <3>2
    <2>3. h = [i \in 1 .. m + 1 |-> h[i]]
      OBVIOUS
    <2> HIDE DEF h
    <2>4. Flattens(h, seqs, m + 1)
      BY <2>2, <2>3, Zenon DEF Flattens
    <2> QED
      BY <2>4
  <1> HIDE DEF S
  <1>3. Nat \subseteq S
    BY <1>1, <1>2, Induction
  <1> QED
    BY <1>3 DEF S

LEMMA FlattenIs ==
  ASSUME NEW seqs, Len(seqs) \in Nat \ {0}
  PROVE  \E g : Flattens(g, seqs, Len(seqs)) /\ FlattenSeq(seqs) = g[Len(seqs)]
  <1> DEFINE F == CHOOSE g : g = [i \in 1 .. Len(seqs) |->
                                    IF i = 1 THEN seqs[i] ELSE g[i-1] \o seqs[i]]
  <1>1. Flattens(F, seqs, Len(seqs))
    BY FlattensExists, Zenon DEF Flattens
  <1>2. FlattenSeq(seqs) = F[Len(seqs)]
    BY DEF FlattenSeq
  <1> QED
    BY <1>1, <1>2, Zenon

(* It agrees on sequences that do.                                         *)
LEMMA FlattensSame ==
  ASSUME NEW s, NEW t, NEW n \in Nat, NEW g, NEW h,
         Flattens(g, s, n), Flattens(h, t, n + 1),
         \A i \in 1 .. n : t[i] = s[i]
  PROVE  \A i \in 1 .. n : h[i] = g[i]
  <1> DEFINE S == {i \in Nat : i \in 1 .. n => h[i] = g[i]}
  <1>1. 0 \in S
    OBVIOUS
  <1>2. ASSUME NEW i \in Nat, i \in S PROVE i + 1 \in S
    <2>1. SUFFICES ASSUME i + 1 \in 1 .. n PROVE h[i+1] = g[i+1]
      OBVIOUS
    <2>2. g[i+1] = IF i + 1 = 1 THEN s[i+1] ELSE g[i] \o s[i+1]
      BY <2>1, FlattensStep
    <2>3. h[i+1] = IF i + 1 = 1 THEN t[i+1] ELSE h[i] \o t[i+1]
      BY <2>1, FlattensStep
    <2>4. s[i+1] = t[i+1]
      BY <2>1
    <2>5. i # 0 => h[i] = g[i]
      BY <1>2, <2>1
    <2> QED
      BY <2>2, <2>3, <2>4, <2>5
  <1> HIDE DEF S
  <1>3. Nat \subseteq S
    BY <1>1, <1>2, Induction
  <1> QED
    BY <1>3 DEF S

LEMMA FlattensType ==
  ASSUME NEW S, NEW s \in Seq(Seq(S)), NEW g, Flattens(g, s, Len(s))
  PROVE  \A i \in 1 .. Len(s) : g[i] \in Seq(S)
  <1> DEFINE T == {i \in Nat : i \in 1 .. Len(s) => g[i] \in Seq(S)}
  <1>1. 0 \in T
    OBVIOUS
  <1>2. ASSUME NEW i \in Nat, i \in T PROVE i + 1 \in T
    <2>1. SUFFICES ASSUME i + 1 \in 1 .. Len(s) PROVE g[i+1] \in Seq(S)
      OBVIOUS
    <2>2. g[i+1] = IF i + 1 = 1 THEN s[i+1] ELSE g[i] \o s[i+1]
      BY <2>1, FlattensStep
    <2>3. s[i+1] \in Seq(S)
      BY <2>1
    <2>4. i # 0 => g[i] \in Seq(S)
      BY <1>2, <2>1
    <2> QED
      BY <2>2, <2>3, <2>4
  <1> HIDE DEF T
  <1>3. Nat \subseteq T
    BY <1>1, <1>2, Induction
  <1> QED
    BY <1>3 DEF T

(* FlattenSeq of no sequences, and with one more at the end.               *)
LEMMA FlattenEmpty == FlattenSeq(<< >>) = << >>
  BY DEF FlattenSeq

LEMMA FlattenType ==
  ASSUME NEW S, NEW s \in Seq(Seq(S))
  PROVE  FlattenSeq(s) \in Seq(S)
  <1>1. CASE s = << >>
    <2>1. FlattenSeq(s) = << >>
      BY <1>1, FlattenEmpty, Zenon
    <2> QED
      BY <2>1
  <1>2. CASE s # << >>
    <2>1. Len(s) \in Nat \ {0}
      BY <1>2
    <2>2. PICK g : Flattens(g, s, Len(s)) /\ FlattenSeq(s) = g[Len(s)]
      BY <2>1, FlattenIs
    <2> QED
      BY <2>1, <2>2, FlattensType
  <1> QED
    BY <1>1, <1>2

LEMMA FlattenAppend ==
  ASSUME NEW S, NEW s \in Seq(Seq(S)), NEW x \in Seq(S)
  PROVE  FlattenSeq(Append(s, x)) = FlattenSeq(s) \o x
  <1> DEFINE t == Append(s, x)
             n == Len(s)
  <1>1. n \in Nat /\ Len(t) = n + 1 /\ t[n + 1] = x
    OBVIOUS
  <1>2. \A i \in 1 .. n : t[i] = s[i]
    OBVIOUS
  <1> HIDE DEF t, n
  <1>3. n + 1 \in Nat /\ n + 1 \in 1 .. n + 1 /\ n \in 0 .. n + 1 /\ n <= n
    BY <1>1
  <1>4. PICK h : Flattens(h, t, n + 1) /\ FlattenSeq(t) = h[n + 1]
    <2>1. Len(t) \in Nat \ {0}
      BY <1>1
    <2> QED
      BY <1>1, <2>1, FlattenIs
  <1>5. h[n + 1] = IF n + 1 = 1 THEN t[n + 1] ELSE h[(n + 1) - 1] \o t[n + 1]
    BY <1>3, <1>4, FlattensStep
  <1>6. CASE n = 0
    <2>1. s = << >>
      BY <1>6 DEF n
    <2>2. FlattenSeq(s) = << >>
      BY <2>1, FlattenEmpty, Zenon
    <2>3. FlattenSeq(t) = x
      BY <1>1, <1>4, <1>5, <1>6
    <2> QED
      BY <2>2, <2>3 DEF t
  <1>7. CASE n # 0
    <2>1. PICK g : Flattens(g, s, n) /\ FlattenSeq(s) = g[n]
      <3>1. Len(s) \in Nat \ {0}
        BY <1>1, <1>7 DEF n
      <3> QED
        BY <3>1, FlattenIs DEF n
    <2>2. \A i \in 1 .. n : h[i] = g[i]
      BY <1>1, <1>2, <1>4, <2>1, FlattensSame
    <2>3. h[n] = g[n]
      BY <1>1, <1>7, <2>2
    <2>4. (n + 1) - 1 = n /\ n + 1 # 1
      BY <1>1, <1>7
    <2>5. h[n + 1] = g[n] \o x
      BY <1>1, <1>5, <2>3, <2>4, Zenon
    <2> QED
      BY <1>4, <2>1, <2>5 DEF t
  <1> QED
    BY <1>6, <1>7

(* FlattenSeq from the front.                                              *)
LEMMA FlattenHead ==
  ASSUME NEW S, NEW t \in Seq(Seq(S)), t # << >>
  PROVE  FlattenSeq(t) = Head(t) \o FlattenSeq(Tail(t))
  <1>0. ASSUME NEW a \in Seq(S), NEW b \in Seq(S), NEW c \in Seq(S)
        PROVE  (a \o b) \o c = a \o (b \o c)
    <2>1. Cat(Cat(a, b), c) = Cat(a, Cat(b, c))
      BY JoinAssoc
    <2> QED
      BY <2>1, Zenon DEF Cat
  <1> DEFINE P == {s \in Seq(Seq(S)) :
                     s # << >> => FlattenSeq(s) = Head(s) \o FlattenSeq(Tail(s))}
  <1>1. << >> \in P
    OBVIOUS
  <1>2. ASSUME NEW s \in Seq(Seq(S)), NEW x \in Seq(S), s \in P
        PROVE  Append(s, x) \in P
    <2>0. Append(s, x) \in Seq(Seq(S))
      OBVIOUS
    <2>1. FlattenSeq(Append(s, x)) = FlattenSeq(s) \o x
      BY FlattenAppend
    <2>2. CASE s = << >>
      <3>1. FlattenSeq(s) = << >>
        BY <2>2, FlattenEmpty, Zenon
      <3>2. Head(Append(s, x)) = x /\ Tail(Append(s, x)) = << >>
        BY <2>2
      <3>3. FlattenSeq(Tail(Append(s, x))) = << >>
        BY <3>2, FlattenEmpty, Zenon
      <3>4. << >> \o x = x \o << >>
        OBVIOUS
      <3>5. FlattenSeq(Append(s, x)) = Head(Append(s, x)) \o FlattenSeq(Tail(Append(s, x)))
        BY <2>1, <3>1, <3>2, <3>3, <3>4, Zenon
      <3> QED
        BY <2>0, <3>5, Zenon
    <2>3. CASE s # << >>
      <3> HIDE DEF P
      <3>1. Head(Append(s, x)) = Head(s) /\ Tail(Append(s, x)) = Append(Tail(s), x)
            /\ Head(s) \in Seq(S) /\ Tail(s) \in Seq(Seq(S))
        <4>1. Head(Append(s, x)) = Head(s)
          BY <2>3
        <4>2. Tail(Append(s, x)) = Append(Tail(s), x)
          BY <2>3
        <4>3. Head(s) \in Seq(S)
          BY <2>3
        <4>4. Tail(s) \in Seq(Seq(S))
          BY <2>3
        <4> QED
          BY <4>1, <4>2, <4>3, <4>4, Zenon
      <3>2. FlattenSeq(Append(Tail(s), x)) = FlattenSeq(Tail(s)) \o x
        BY <3>1, FlattenAppend, Zenon
      <3>3. FlattenSeq(Tail(s)) \in Seq(S)
        BY <3>1, FlattenType, Zenon
      <3>4. FlattenSeq(s) = Head(s) \o FlattenSeq(Tail(s))
        BY <1>2, <2>3 DEF P
      <3>5. (Head(s) \o FlattenSeq(Tail(s))) \o x = Head(s) \o (FlattenSeq(Tail(s)) \o x)
        <4> DEFINE a == Head(s)
                   b == FlattenSeq(Tail(s))
        <4>1. a \in Seq(S) /\ b \in Seq(S)
          BY <3>1, <3>3
        <4> HIDE DEF a, b
        <4>2. (a \o b) \o x = a \o (b \o x)
          BY <1>0, <4>1, Zenon
        <4> QED
          BY <4>2, Zenon DEF a, b
      <3>6. FlattenSeq(Append(s, x)) = Head(Append(s, x)) \o FlattenSeq(Tail(Append(s, x)))
        BY <2>1, <3>1, <3>2, <3>4, <3>5, Zenon
      <3> QED
        BY <2>0, <3>6, Zenon DEF P
    <2> QED
      BY <2>2, <2>3
  <1> HIDE DEF P
  <1>3. Seq(Seq(S)) \subseteq P
    BY <1>1, <1>2, SequenceInduction
  <1> QED
    BY <1>3 DEF P

-----------------------------------------------------------------------------
(* How often a node occurs in a sequence of nodes.                         *)
LEMMA TimesType ==
  ASSUME NEW X, NEW s \in Seq(X), NEW a
  PROVE  /\ Times(a, s) \in Nat
         /\ Times(a, s) = 0 <=> \A i \in DOMAIN s : s[i] # a
  <1> DEFINE I == {i \in DOMAIN s : s[i] = a}
  <1>1. IsFiniteSet(1 .. Len(s)) /\ I \in SUBSET (1 .. Len(s))
    BY FS_Interval
  <1>2. (I = {}) <=> \A i \in DOMAIN s : s[i] # a
    OBVIOUS
  <1>3. Times(a, s) = Cardinality(I)
    BY DEF Times
  <1> HIDE DEF I
  <1>4. IsFiniteSet(I)
    BY <1>1, FS_Subset, Zenon
  <1>5. Cardinality(I) \in Nat /\ (Cardinality(I) = 0 <=> I = {})
    BY <1>4, FS_CardinalityType, FS_EmptySet
  <1> QED
    BY <1>2, <1>3, <1>5

LEMMA TimesEmpty == \A a : Times(a, << >>) = 0
  <1> TAKE a
  <1>1. {i \in DOMAIN << >> : << >>[i] = a} = {}
    OBVIOUS
  <1> QED
    BY <1>1, FS_EmptySet, Zenon DEF Times

LEMMA TimesJoin ==
  ASSUME NEW X, NEW s \in Seq(X), NEW t \in Seq(X), NEW a
  PROVE  Times(a, s \o t) = Times(a, s) + Times(a, t)
  <1> DEFINE I == {i \in DOMAIN s : s[i] = a}
             J == {i \in DOMAIN t : t[i] = a}
             K == {i \in DOMAIN (s \o t) : (s \o t)[i] = a}
             M == {i \in Len(s) + 1 .. Len(s) + Len(t) : t[i - Len(s)] = a}
             f == [j \in J |-> j + Len(s)]
  <1>1. I \in SUBSET (1 .. Len(s)) /\ J \in SUBSET (1 .. Len(t))
    OBVIOUS
  <1>2. IsFiniteSet(1 .. Len(s)) /\ IsFiniteSet(1 .. Len(t))
    BY FS_Interval
  <1>3. K = I \union M
    OBVIOUS
  <1>4. I \cap M = {}
    OBVIOUS
  <1>5. ExistsBijection(J, M)
    <2>1. f \in [J -> M]
      OBVIOUS
    <2>2. \A j, k \in J : f[j] = f[k] => j = k
      OBVIOUS
    <2>3. ASSUME NEW m \in M PROVE \E j \in J : f[j] = m
      <3>1. m - Len(s) \in J /\ f[m - Len(s)] = m
        OBVIOUS
      <3> QED
        BY <3>1
    <2> HIDE DEF f, J, M
    <2>4. f \in Bijection(J, M)
      BY <2>1, <2>2, <2>3 DEF Bijection, Injection, Surjection, IsInjective
    <2> QED
      BY <2>4 DEF ExistsBijection
  <1>6. Times(a, s) = Cardinality(I) /\ Times(a, t) = Cardinality(J)
        /\ Times(a, s \o t) = Cardinality(K)
    BY DEF Times
  <1> HIDE DEF I, J, K, M
  <1>7. IsFiniteSet(I) /\ IsFiniteSet(J)
    BY <1>1, <1>2, FS_Subset, Zenon
  <1>8. IsFiniteSet(M) /\ Cardinality(M) = Cardinality(J)
    BY <1>5, <1>7, FS_Bijection
  <1>9. Cardinality(I \union M) = Cardinality(I) + Cardinality(M) - Cardinality(I \cap M)
    BY <1>7, <1>8, FS_Union
  <1>10. Cardinality(I) \in Nat /\ Cardinality(M) \in Nat /\ Cardinality(I \cap M) = 0
    BY <1>4, <1>7, <1>8, FS_CardinalityType, FS_EmptySet, Zenon
  <1> QED
    BY <1>3, <1>6, <1>8, <1>9, <1>10

-----------------------------------------------------------------------------
(* What request r adds to the replies to come from a, and what a list rs   *)
(* of requests does.                                                       *)
Share(a, r) == [j \in 1 .. Times(a, Nodes(r.to)) |-> r.n]
Shares(a, rs) == [i \in DOMAIN rs |-> Share(a, rs[i])]
Drained(rs) == [i \in DOMAIN rs |-> Nodes(rs[i].to)]

LEMMA ExpectedIs == \A a, rs : Expected(a, rs) = FlattenSeq(Shares(a, rs))
  BY DEF Expected, Shares, Share

LEMMA NodesType ==
  ASSUME TypeOK, NEW to \in Seq(Slot \union Addr)
  PROVE  /\ Nodes(to) \in Seq(nodes \union {NULL})
         /\ DOMAIN Nodes(to) = DOMAIN to /\ Len(Nodes(to)) = Len(to)
  <1>1. \A x \in Slot \union Addr : Node(x) \in nodes \union {NULL}
    BY DEF Node, TypeOK
  <1>2. \A i \in 1 .. Len(to) : to[i] \in Slot \union Addr
    OBVIOUS
  <1>3. Nodes(to) = [i \in 1 .. Len(to) |-> Node(to[i])]
    BY DEF Nodes
  <1>4. Nodes(to) \in [1 .. Len(to) -> nodes \union {NULL}]
    BY <1>1, <1>2, <1>3
  <1> QED
    BY <1>4

LEMMA ShareType ==
  ASSUME TypeOK, NEW r \in Request, NEW a
  PROVE  /\ Times(a, Nodes(r.to)) \in Nat
         /\ Share(a, r) \in Seq(1 .. MaxReq)
         /\ Len(Share(a, r)) = Times(a, Nodes(r.to))
         /\ \A p \in 1 .. Times(a, Nodes(r.to)) : Share(a, r)[p] = r.n
  <1>1. r.n \in 1 .. MaxReq /\ r.to \in Seq(Slot \union Addr)
    BY DEF Request
  <1>2. Times(a, Nodes(r.to)) \in Nat
    BY <1>1, NodesType, TimesType
  <1> DEFINE k == Times(a, Nodes(r.to))
  <1>3. Share(a, r) = [j \in 1 .. k |-> r.n]
    BY DEF Share
  <1> HIDE DEF k
  <1>4. k \in Nat
    BY <1>2 DEF k
  <1>5. Share(a, r) \in [1 .. k -> 1 .. MaxReq]
    BY <1>1, <1>3
  <1>6. Share(a, r) \in Seq(1 .. MaxReq) /\ Len(Share(a, r)) = k
    <2> DEFINE w == Share(a, r)
    <2> HIDE DEF w
    <2>1. w \in [1 .. k -> 1 .. MaxReq]
      BY <1>5 DEF w
    <2>2. w \in Seq(1 .. MaxReq) /\ Len(w) = k
      BY <1>4, <2>1, FunctionIsSeq, Zenon
    <2> QED
      BY <2>2 DEF w
  <1>7. \A p \in 1 .. k : Share(a, r)[p] = r.n
    BY <1>3
  <1> QED
    BY <1>4, <1>6, <1>7 DEF k

LEMMA SharesType ==
  ASSUME TypeOK, NEW rs \in Seq(Request), NEW a
  PROVE  Shares(a, rs) \in Seq(Seq(1 .. MaxReq))
  <1>1. \A i \in 1 .. Len(rs) : Share(a, rs[i]) \in Seq(1 .. MaxReq)
    BY ShareType
  <1>2. Shares(a, rs) = [i \in 1 .. Len(rs) |-> Share(a, rs[i])]
    BY DEF Shares
  <1>3. Shares(a, rs) \in [1 .. Len(rs) -> Seq(1 .. MaxReq)]
    BY <1>1, <1>2
  <1> QED
    BY <1>3

LEMMA DrainedType ==
  ASSUME TypeOK, NEW rs \in Seq(Request)
  PROVE  Drained(rs) \in Seq(Seq(nodes \union {NULL}))
  <1>1. \A i \in 1 .. Len(rs) : Nodes(rs[i].to) \in Seq(nodes \union {NULL})
    <2>1. \A i \in 1 .. Len(rs) : rs[i].to \in Seq(Slot \union Addr)
      <3>1. \A i \in 1 .. Len(rs) : rs[i] \in Request
        OBVIOUS
      <3> QED
        BY <3>1 DEF Request
    <2> QED
      BY <2>1, NodesType
  <1>2. Drained(rs) = [i \in 1 .. Len(rs) |-> Nodes(rs[i].to)]
    BY DEF Drained
  <1>3. Drained(rs) \in [1 .. Len(rs) -> Seq(nodes \union {NULL})]
    BY <1>1, <1>2
  <1> QED
    BY <1>3

LEMMA SharesEmpty == \A a : FlattenSeq(Shares(a, << >>)) = << >>
  <1> TAKE a
  <1>1. Shares(a, << >>) = << >>
    BY DEF Shares
  <1> QED
    BY <1>1, FlattenEmpty, Zenon

LEMMA SharesAppend ==
  ASSUME TypeOK, NEW rs \in Seq(Request), NEW r \in Request, NEW a
  PROVE  FlattenSeq(Shares(a, Append(rs, r))) = FlattenSeq(Shares(a, rs)) \o Share(a, r)
  <1>1. \A i \in 1 .. Len(rs) : Append(rs, r)[i] = rs[i]
    OBVIOUS
  <1>2. DOMAIN Append(rs, r) = 1 .. Len(rs) + 1 /\ Append(rs, r)[Len(rs) + 1] = r
    OBVIOUS
  <1>3. Shares(a, rs) \in Seq(Seq(1 .. MaxReq)) /\ Share(a, r) \in Seq(1 .. MaxReq)
    BY SharesType, ShareType
  <1>4. Shares(a, Append(rs, r)) = Append(Shares(a, rs), Share(a, r))
    <2> DEFINE S == Seq(1 .. MaxReq)
               u == Shares(a, Append(rs, r))
               w == Shares(a, rs)
               x == Share(a, r)
    <2>1. u \in Seq(S) /\ DOMAIN u = 1 .. Len(rs) + 1
      <3>1. Append(rs, r) \in Seq(Request)
        OBVIOUS
      <3> QED
        BY <1>2, <3>1, SharesType, Zenon DEF Shares
    <2>2. w \in Seq(S) /\ x \in S /\ DOMAIN w = 1 .. Len(rs)
      BY <1>3 DEF Shares
    <2>3. \A i \in 1 .. Len(rs) : u[i] = Share(a, rs[i]) /\ w[i] = Share(a, rs[i])
      BY <1>1, <1>2 DEF Shares
    <2>4. u[Len(rs) + 1] = x
      BY <1>2 DEF Shares
    <2>5. \A i \in 1 .. Len(rs) : u[i] = w[i]
      BY <2>3
    <2> HIDE DEF u, w, x, S
    <2>6. Len(rs) \in Nat
      OBVIOUS
    <2>7. u = Append(w, x)
      BY <2>1, <2>2, <2>4, <2>5, <2>6, AppendIs
    <2> QED
      BY <2>7 DEF u, w, x
  <1> QED
    BY <1>3, <1>4, FlattenAppend

LEMMA SharesHead ==
  ASSUME TypeOK, NEW rs \in Seq(Request), rs # << >>, NEW a
  PROVE  FlattenSeq(Shares(a, rs)) = Share(a, Head(rs)) \o FlattenSeq(Shares(a, Tail(rs)))
  <1>1. Shares(a, rs) \in Seq(Seq(1 .. MaxReq)) /\ Len(Shares(a, rs)) = Len(rs)
        /\ \A i \in 1 .. Len(rs) : Shares(a, rs)[i] = Share(a, rs[i])
    BY SharesType DEF Shares
  <1>2. Shares(a, rs) # << >> /\ Head(Shares(a, rs)) = Share(a, Head(rs))
    BY <1>1
  <1>3. Tail(Shares(a, rs)) = Shares(a, Tail(rs))
    <2> DEFINE S == Seq(1 .. MaxReq)
               w == Shares(a, rs)
               u == Tail(w)
               v == Shares(a, Tail(rs))
    <2>1. Tail(rs) \in Seq(Request) /\ Len(Tail(rs)) = Len(rs) - 1
          /\ \A i \in 1 .. Len(rs) - 1 : Tail(rs)[i] = rs[i + 1]
      OBVIOUS
    <2>2. v \in Seq(S) /\ DOMAIN v = 1 .. Len(rs) - 1
      <3>1. v \in Seq(S)
        BY <2>1, SharesType, Zenon
      <3>2. DOMAIN v = DOMAIN Tail(rs)
        BY DEF Shares
      <3> QED
        BY <2>1, <3>1, <3>2
    <2>3. \A i \in 1 .. Len(rs) - 1 : v[i] = Share(a, rs[i + 1])
      BY <2>1 DEF Shares
    <2>4. w \in Seq(S) /\ Len(w) = Len(rs) /\ w # << >>
          /\ \A i \in 1 .. Len(rs) : w[i] = Share(a, rs[i])
      BY <1>1, <1>2
    <2> HIDE DEF v, w, S
    <2>5. u \in Seq(S) /\ Len(u) = Len(rs) - 1
          /\ \A i \in 1 .. Len(rs) - 1 : u[i] = Share(a, rs[i + 1])
      BY <2>4
    <2> HIDE DEF u
    <2>6. Len(v) = Len(rs) - 1
      <3>1. Len(rs) - 1 \in Nat
        BY <2>1
      <3> QED
        BY <2>2, <3>1, LenIs
    <2>7. u = v
      BY <2>2, <2>3, <2>5, <2>6
    <2> QED
      BY <2>7 DEF u, v, w
  <1> QED
    BY <1>1, <1>2, <1>3, FlattenHead, Zenon

LEMMA DrainedAppend ==
  ASSUME TypeOK, NEW rs \in Seq(Request), NEW r \in Request
  PROVE  Drained(Append(rs, r)) = Append(Drained(rs), Nodes(r.to))
  <1> DEFINE S == Seq(nodes \union {NULL})
             u == Drained(Append(rs, r))
             w == Drained(rs)
             x == Nodes(r.to)
  <1>1. Append(rs, r) \in Seq(Request) /\ DOMAIN Append(rs, r) = 1 .. Len(rs) + 1
        /\ Append(rs, r)[Len(rs) + 1] = r
        /\ \A i \in 1 .. Len(rs) : Append(rs, r)[i] = rs[i]
    OBVIOUS
  <1>2. u \in Seq(S) /\ w \in Seq(S)
    BY <1>1, DrainedType, Zenon
  <1>3. x \in S
    BY NodesType DEF Request
  <1>4. DOMAIN u = 1 .. Len(rs) + 1 /\ u[Len(rs) + 1] = x
    BY <1>1 DEF Drained
  <1>5. DOMAIN w = 1 .. Len(rs)
    BY DEF Drained
  <1>6. \A i \in 1 .. Len(rs) : u[i] = w[i]
    BY <1>1 DEF Drained
  <1>7. Len(rs) \in Nat
    OBVIOUS
  <1> HIDE DEF u, w, x, S
  <1>8. u = Append(w, x)
    BY <1>2, <1>3, <1>4, <1>5, <1>6, <1>7, AppendIs
  <1> QED
    BY <1>8 DEF u, w, x

(* The replies to come from a for rs are as many as redisClusterReset      *)
(* reads from a when it reads the replies to all of rs.                    *)
LEMMA DrainedCount ==
  ASSUME TypeOK, NEW qs \in Seq(Request), NEW a
  PROVE  Len(FlattenSeq(Shares(a, qs))) = Times(a, FlattenSeq(Drained(qs)))
  <1> DEFINE P == {rs \in Seq(Request) :
                     Len(FlattenSeq(Shares(a, rs))) = Times(a, FlattenSeq(Drained(rs)))}
  <1>1. << >> \in P
    <2>1. Drained(<< >>) = << >>
      BY DEF Drained
    <2>2. FlattenSeq(Drained(<< >>)) = << >>
      BY <2>1, FlattenEmpty, Zenon
    <2>3. Times(a, FlattenSeq(Drained(<< >>))) = 0
      BY <2>2, TimesEmpty, Zenon
    <2>4. FlattenSeq(Shares(a, << >>)) = << >>
      BY SharesEmpty
    <2>5. Len(FlattenSeq(Shares(a, << >>))) = 0
      BY <2>4
    <2>6. << >> \in Seq(Request)
      OBVIOUS
    <2> QED
      BY <2>3, <2>5, <2>6, Zenon
  <1>2. ASSUME NEW rs \in Seq(Request), NEW r \in Request, rs \in P
        PROVE  Append(rs, r) \in P
    <2> HIDE DEF P
    <2> DEFINE X == nodes \union {NULL}
               f == FlattenSeq(Shares(a, rs))
               d == FlattenSeq(Drained(rs))
    <2>1. FlattenSeq(Shares(a, Append(rs, r))) = f \o Share(a, r)
      BY SharesAppend
    <2>2. f \in Seq(1 .. MaxReq) /\ Share(a, r) \in Seq(1 .. MaxReq)
          /\ Len(Share(a, r)) = Times(a, Nodes(r.to))
      BY SharesType, ShareType, FlattenType
    <2>3. Nodes(r.to) \in Seq(X)
      BY NodesType DEF Request
    <2>4. Drained(rs) \in Seq(Seq(X))
      BY DrainedType
    <2>5. Drained(Append(rs, r)) = Append(Drained(rs), Nodes(r.to))
      BY DrainedAppend
    <2>6. FlattenSeq(Drained(Append(rs, r))) = d \o Nodes(r.to)
      BY <2>3, <2>4, <2>5, FlattenAppend
    <2>7. d \in Seq(X)
      BY <2>4, FlattenType
    <2>8. Times(a, d \o Nodes(r.to)) = Times(a, d) + Times(a, Nodes(r.to))
      BY <2>3, <2>7, TimesJoin
    <2>9. Len(f) = Times(a, d)
      BY <1>2 DEF P
    <2> HIDE DEF f, d, X
    <2>10. Len(f \o Share(a, r)) = Len(f) + Len(Share(a, r))
      BY <2>2, JoinLen, Zenon
    <2>11. Append(rs, r) \in Seq(Request)
      OBVIOUS
    <2>12. Len(FlattenSeq(Shares(a, Append(rs, r)))) = Times(a, FlattenSeq(Drained(Append(rs, r))))
      BY <2>1, <2>2, <2>6, <2>8, <2>9, <2>10
    <2> QED
      BY <2>11, <2>12 DEF P
  <1> HIDE DEF P
  <1>3. Seq(Request) \subseteq P
    BY <1>1, <1>2, SequenceInduction
  <1> QED
    BY <1>3 DEF P

(* The shares of the first k requests come first.                          *)
LEMMA SharesStart ==
  ASSUME TypeOK, NEW qs \in Seq(Request), NEW k \in 0 .. Len(qs), NEW a
  PROVE  StartsWith(FlattenSeq(Shares(a, qs)), FlattenSeq(Shares(a, SubSeq(qs, 1, k))))
  <1> DEFINE F(rs) == FlattenSeq(Shares(a, rs))
             P == {rs \in Seq(Request) :
                     \A i \in 0 .. Len(rs) : StartsWith(F(rs), F(SubSeq(rs, 1, i)))}
  <1>0. \A rs \in Seq(Request) : F(rs) \in Seq(1 .. MaxReq)
    BY SharesType, FlattenType
  <1>1. << >> \in P
    <2>1. \A i \in 0 .. Len(<< >>) : SubSeq(<< >>, 1, i) = << >>
      OBVIOUS
    <2>2. << >> \in Seq(Request)
      OBVIOUS
    <2>3. StartsWith(F(<< >>), F(<< >>))
      BY <1>0, <2>2, StartsItself, Zenon
    <2> QED
      BY <2>1, <2>2, <2>3, Zenon
  <1>2. ASSUME NEW rs \in Seq(Request), NEW r \in Request, rs \in P
        PROVE  Append(rs, r) \in P
    <2> DEFINE t == Append(rs, r)
    <2>1. t \in Seq(Request) /\ Len(t) = Len(rs) + 1 /\ SubSeq(t, 1, Len(t)) = t
      OBVIOUS
    <2>2. \A i \in 0 .. Len(rs) : SubSeq(t, 1, i) = SubSeq(rs, 1, i)
                                  /\ SubSeq(rs, 1, i) \in Seq(Request)
      OBVIOUS
    <2>3. F(t) = F(rs) \o Share(a, r) /\ Share(a, r) \in Seq(1 .. MaxReq)
      BY SharesAppend, ShareType
    <2> HIDE DEF t
    <2>4. \A i \in 0 .. Len(rs) : StartsWith(F(rs), F(SubSeq(rs, 1, i)))
      BY <1>2, Zenon
    <2> HIDE DEF F, P
    <2>5. StartsWith(F(t), F(rs))
      BY <1>0, <2>1, <2>3, JoinStarts, Zenon
    <2>6. \A i \in 0 .. Len(rs) : StartsWith(F(t), F(SubSeq(t, 1, i)))
      BY <1>0, <2>1, <2>2, <2>4, <2>5, StartsLonger, Zenon
    <2>7. StartsWith(F(t), F(SubSeq(t, 1, Len(t))))
      BY <1>0, <2>1, StartsItself, Zenon
    <2>8. \A i \in 0 .. Len(t) : i \in 0 .. Len(rs) \/ i = Len(t)
      BY <2>1
    <2>9. \A i \in 0 .. Len(t) : StartsWith(F(t), F(SubSeq(t, 1, i)))
      BY <2>6, <2>7, <2>8, Zenon
    <2> QED
      BY <2>1, <2>9, Zenon DEF P, t
  <1> HIDE DEF P
  <1>3. Seq(Request) \subseteq P
    BY <1>1, <1>2, SequenceInduction
  <1> QED
    BY <1>3, Zenon DEF P

(* Requests that expect nothing of a have no share.                        *)
LEMMA NoShares ==
  ASSUME TypeOK, NEW qs \in Seq(Request), NEW a,
         \A i \in DOMAIN qs : Times(a, Nodes(qs[i].to)) = 0
  PROVE  FlattenSeq(Shares(a, qs)) = << >>
  <1> DEFINE None(rs) == \A i \in DOMAIN rs : Times(a, Nodes(rs[i].to)) = 0
             P == {rs \in Seq(Request) : None(rs) => FlattenSeq(Shares(a, rs)) = << >>}
  <1>1. << >> \in P
    <2>1. << >> \in Seq(Request)
      OBVIOUS
    <2> QED
      BY <2>1, SharesEmpty, Zenon
  <1>2. ASSUME NEW rs \in Seq(Request), NEW r \in Request, rs \in P
        PROVE  Append(rs, r) \in P
    <2> DEFINE t == Append(rs, r)
    <2>1. t \in Seq(Request) /\ DOMAIN rs \subseteq DOMAIN t /\ Len(rs) + 1 \in DOMAIN t
          /\ t[Len(rs) + 1] = r /\ \A i \in DOMAIN rs : t[i] = rs[i]
      OBVIOUS
    <2>2. FlattenSeq(Shares(a, t)) = FlattenSeq(Shares(a, rs)) \o Share(a, r)
      BY SharesAppend
    <2> HIDE DEF t
    <2>3. SUFFICES ASSUME None(t) PROVE FlattenSeq(Shares(a, t)) = << >>
      BY <2>1, Zenon DEF t
    <2>4. None(rs) /\ Times(a, Nodes(r.to)) = 0
      BY <2>1, <2>3, Zenon
    <2>5. FlattenSeq(Shares(a, rs)) = << >>
      BY <1>2, <2>4, Zenon
    <2>6. Share(a, r) = << >>
      BY <2>4 DEF Share
    <2>7. << >> \o << >> = << >>
      OBVIOUS
    <2> QED
      BY <2>2, <2>5, <2>6, <2>7, Zenon
  <1> HIDE DEF P
  <1>3. Seq(Request) \subseteq P
    BY <1>1, <1>2, SequenceInduction
  <1> QED
    BY <1>3, Zenon DEF P

-----------------------------------------------------------------------------
(* The requests and the ones that are sure of their replies.               *)
LEMMA OutstandingType ==
  ASSUME TypeOK
  PROVE  /\ Outstanding \in Seq(Request) /\ sure \in 0 .. Len(Outstanding)
         /\ Sure \in Seq(Request) /\ Len(Sure) = sure
         /\ \A i \in 1 .. sure : Sure[i] = Outstanding[i]
         /\ sure = Len(Outstanding) => Sure = Outstanding
         /\ \A a : Expected(a, Sure) \in Seq(1 .. MaxReq)
  <1>1. Outstanding \in Seq(Request)
    BY DEF TypeOK, Outstanding
  <1>2. sure \in 0 .. Len(Outstanding)
    BY DEF TypeOK
  <1> DEFINE o == Outstanding
             q == SubSeq(o, 1, sure)
  <1> HIDE DEF o
  <1>3. q \in Seq(Request) /\ Len(q) = sure /\ (\A i \in 1 .. sure : q[i] = o[i])
        /\ (sure = Len(o) => q = o)
    BY <1>1, <1>2 DEF o
  <1>4. Sure = q
    BY DEF Sure, o
  <1> HIDE DEF q
  <1>5. \A a : Expected(a, Sure) \in Seq(1 .. MaxReq)
    BY <1>3, <1>4, ExpectedIs, SharesType, FlattenType, Zenon
  <1> QED
    BY <1>1, <1>2, <1>3, <1>4, <1>5 DEF o

LEMMA ExpectedNext ==
  ASSUME UNCHANGED <<nodes, table>>
  PROVE  \A a : /\ Expected(a, Outstanding)' = FlattenSeq(Shares(a, Outstanding'))
               /\ Expected(a, Sure)' = FlattenSeq(Shares(a, Sure'))
  <1>1. \A x : Node(x)' = Node(x)
    BY DEF Node
  <1>2. \A to : Nodes(to)' = Nodes(to)
    BY <1>1 DEF Nodes
  <1> QED
    BY <1>2, Zenon DEF Expected, Shares, Share

(* No requests, no replies to come.                                        *)
LEMMA NothingExpected ==
  /\ Outstanding = << >> => \A a : Expected(a, Outstanding) = << >>
  /\ Outstanding' = << >> => \A a : Expected(a, Outstanding)' = << >>
  /\ Sure' = << >> => \A a : Expected(a, Sure)' = << >>
  <1>1. Outstanding = << >> => \A a : Expected(a, Outstanding) = << >>
    BY ExpectedIs, SharesEmpty, Zenon
  <1>2. Outstanding' = << >> => \A a : Expected(a, Outstanding)' = << >>
    <2> SUFFICES ASSUME Outstanding' = << >>, NEW a PROVE Expected(a, Outstanding)' = << >>
      OBVIOUS
    <2>1. [i \in DOMAIN Outstanding' |->
            [j \in 1 .. Times(a, Nodes(Outstanding[i].to)') |-> Outstanding'[i].n]] = << >>
      OBVIOUS
    <2> QED
      BY <2>1, FlattenEmpty, Zenon DEF Expected
  <1>3. Sure' = << >> => \A a : Expected(a, Sure)' = << >>
    <2> SUFFICES ASSUME Sure' = << >>, NEW a PROVE Expected(a, Sure)' = << >>
      OBVIOUS
    <2>1. [i \in DOMAIN Sure' |->
            [j \in 1 .. Times(a, Nodes(Sure[i].to)') |-> Sure'[i].n]] = << >>
      OBVIOUS
    <2> QED
      BY <2>1, FlattenEmpty, Zenon DEF Expected
  <1> QED
    BY <1>1, <1>2, <1>3

(* What there is to show of a step.                                        *)
Starts == \A a \in Addr : StartsWith(Wire(a), Expected(a, Sure))
Exact == sure = Len(Outstanding) /\ \A a \in Addr : Wire(a) = Expected(a, Outstanding)

LEMMA AlignedIs ==
  /\ Aligned <=> TypeOK /\ Starts /\ (smooth => Exact)
  /\ Aligned' <=> TypeOK' /\ Starts' /\ (smooth' => Exact')
  BY Zenon DEF Aligned, Starts, Exact

LEMMA WireType ==
  ASSUME TypeOK, NEW a \in Addr
  PROVE  wire[a] \in Seq(1 .. MaxReq) /\ Wire(a) \in Seq(1 .. MaxReq)
  <1>1. wire[a] \in Seq(1 .. MaxReq)
    BY DEF TypeOK
  <1>2. << >> \in Seq(1 .. MaxReq)
    OBVIOUS
  <1> QED
    BY <1>1, <1>2, Zenon DEF Wire

LEMMA WireNextType ==
  ASSUME TypeOK', NEW a \in Addr
  PROVE  Wire(a)' \in Seq(1 .. MaxReq)
  <1>1. wire'[a] \in Seq(1 .. MaxReq)
    BY DEF TypeOK
  <1>2. << >> \in Seq(1 .. MaxReq)
    OBVIOUS
  <1> QED
    BY <1>1, <1>2, Zenon DEF Wire

(* No request is sure, or all are.                                         *)
LEMMA NoneSure ==
  ASSUME TypeOK', sure' = 0
  PROVE  Starts'
  <1>1. Outstanding' \in Seq(Request)
    BY DEF TypeOK, Outstanding
  <1> DEFINE o == Outstanding'
  <1> HIDE DEF o
  <1>2. SubSeq(o, 1, 0) = << >>
    BY <1>1 DEF o
  <1>3. Sure' = << >>
    BY <1>2, Zenon DEF Sure, o
  <1>4. \A a : Expected(a, Sure)' = << >>
    BY <1>3, NothingExpected
  <1> QED
    BY <1>4, WireNextType, StartsItself, Zenon DEF Starts

LEMMA AllSure ==
  ASSUME TypeOK', Exact'
  PROVE  Starts'
  <1>1. Outstanding' \in Seq(Request)
    BY DEF TypeOK, Outstanding
  <1> DEFINE o == Outstanding'
  <1> HIDE DEF o
  <1>2. SubSeq(o, 1, Len(o)) = o
    BY <1>1 DEF o
  <1>3. Sure' = Outstanding'
    BY <1>2, Zenon DEF Sure, o, Exact
  <1>4. \A a : Expected(a, Sure)' = Expected(a, Outstanding)'
    BY <1>3, Zenon DEF Expected
  <1>5. \A a \in Addr : Wire(a)' = Expected(a, Sure)'
    BY <1>4, Zenon DEF Exact
  <1> QED
    BY <1>5, WireNextType, StartsItself, Zenon DEF Starts

(* The requests that are sure stay so while more comes behind them.        *)
LEMMA SureKept ==
  ASSUME Aligned, TypeOK', UNCHANGED <<nodes, table>>, Sure' = Sure,
         \A a \in Addr : \E v \in Seq(1 .. MaxReq) : Wire(a)' = Wire(a) \o v
  PROVE  Starts'
  <1> SUFFICES ASSUME NEW a \in Addr PROVE StartsWith(Wire(a), Expected(a, Sure))'
    BY DEF Starts
  <1> DEFINE e == Expected(a, Sure)
             u == Wire(a)'
  <1>1. Expected(a, Sure)' = e
    BY ExpectedNext, ExpectedIs, Zenon
  <1>2. TypeOK /\ StartsWith(Wire(a), e)
    BY AlignedIs DEF Starts
  <1>3. e \in Seq(1 .. MaxReq) /\ Wire(a) \in Seq(1 .. MaxReq) /\ u \in Seq(1 .. MaxReq)
    BY <1>2, OutstandingType, WireType, WireNextType, Zenon
  <1>4. \E v \in Seq(1 .. MaxReq) : u = Wire(a) \o v
    OBVIOUS
  <1> HIDE DEF e, u
  <1>5. StartsWith(u, Wire(a))
    BY <1>3, <1>4, JoinStarts, Zenon
  <1>6. StartsWith(u, e)
    BY <1>2, <1>3, <1>5, StartsLonger, Zenon
  <1> QED
    BY <1>1, <1>6, Zenon DEF StartsWith, u

(* Steps that leave alone what Aligned is about.                           *)
LEMMA AlignedKept ==
  ASSUME Aligned, TypeOK', UNCHANGED <<nodes, table, con, wire, sure>>,
         Outstanding' = Outstanding, smooth' => smooth
  PROVE  Aligned'
  <1>1. Sure' = Sure
    BY DEF Sure
  <1>2. \A a : Expected(a, Sure)' = Expected(a, Sure)
              /\ Expected(a, Outstanding)' = Expected(a, Outstanding)
    BY <1>1, ExpectedNext, ExpectedIs, Zenon
  <1>3. \A a : Wire(a)' = Wire(a)
    BY DEF Wire
  <1>4. Starts'
    BY <1>2, <1>3, AlignedIs, Zenon DEF Starts, StartsWith
  <1>5. smooth' => Exact'
    BY <1>2, <1>3, AlignedIs, Zenon DEF Exact
  <1> QED
    BY <1>4, <1>5, AlignedIs

-----------------------------------------------------------------------------
LEMMA WriteType ==
  ASSUME TypeOK, NEW n \in 1 .. MaxReq, NEW as \in Seq(nodes \union {NULL}), Write(n, as)
  PROVE  con' \in [Addr -> {"none", "ok", "broken"}] /\ wire' \in [Addr -> Seq(1 .. MaxReq)]
  <1>1. con' \in [Addr -> {"none", "ok", "broken"}]
    BY Zenon DEF Write, TypeOK
  <1>2. ASSUME NEW a \in Addr PROVE wire'[a] \in Seq(1 .. MaxReq)
    <2> DEFINE k == Times(a, as)
               c == [i \in 1 .. k |-> n]
    <2>1. k \in Nat
      BY TimesType, Zenon
    <2> HIDE DEF k
    <2>2. c \in [1 .. k -> 1 .. MaxReq]
      OBVIOUS
    <2> HIDE DEF c
    <2>3. c \in Seq(1 .. MaxReq)
      BY <2>1, <2>2, FunctionIsSeq, Zenon
    <2>4. wire[a] \in Seq(1 .. MaxReq) /\ Wire(a) \in Seq(1 .. MaxReq)
      BY WireType
    <2>5. Wire(a) \o c \in Seq(1 .. MaxReq)
      BY <2>3, <2>4
    <2>6. wire'[a] \in {Wire(a) \o c, wire[a]}
      BY DEF Write, c, k
    <2> QED
      BY <2>4, <2>5, <2>6, Zenon
  <1>3. wire' = [a \in Addr |-> wire'[a]]
    BY DEF Write
  <1> QED
    BY <1>1, <1>2, <1>3

(* Writing adds to the end of what is to come.                             *)
LEMMA WireGrows ==
  ASSUME TypeOK, NEW n \in 1 .. MaxReq, NEW as \in Seq(nodes \union {NULL}), Write(n, as),
         NEW a \in Addr
  PROVE  /\ Times(a, as) \in Nat
         /\ Wire(a)' = Wire(a) \o [i \in 1 .. Times(a, as) |-> n]
         /\ [i \in 1 .. Times(a, as) |-> n] \in Seq(1 .. MaxReq)
  <1> DEFINE k == Times(a, as)
             c == [i \in 1 .. k |-> n]
  <1>1. k \in Nat
    BY TimesType, Zenon
  <1>2. Wire(a) \in Seq(1 .. MaxReq)
    BY WireType
  <1>3. k > 0 => con'[a] = "ok" /\ wire'[a] = Wire(a) \o c
    BY Zenon DEF Write
  <1>4. ~(k > 0) => con'[a] = con[a] /\ wire'[a] = wire[a]
    BY DEF Write
  <1> HIDE DEF k
  <1>5. c \in [1 .. k -> 1 .. MaxReq] /\ (k = 0 => c = << >>)
    OBVIOUS
  <1> HIDE DEF c
  <1>6. c \in Seq(1 .. MaxReq)
    BY <1>1, <1>5, FunctionIsSeq, Zenon
  <1>7. CASE k > 0
    BY <1>1, <1>3, <1>6, <1>7, Zenon DEF Wire, k, c
  <1>8. CASE k = 0
    <2>1. ~(k > 0)
      BY <1>8
    <2>2. Wire(a)' = Wire(a)
      BY <1>4, <2>1, Zenon DEF Wire
    <2>3. Wire(a) \o << >> = Wire(a)
      BY <1>2
    <2>4. Wire(a)' = Wire(a) \o c
      BY <1>5, <1>8, <2>2, <2>3, Zenon
    <2> QED
      BY <1>1, <1>6, <2>4, Zenon DEF k, c
  <1>9. k > 0 \/ k = 0
    BY <1>1
  <1> QED
    BY <1>7, <1>8, <1>9, Zenon

LEMMA AppendInv ==
  ASSUME Aligned, NEW to \in Seq(Slot \union Addr), AppendTo(to)
  PROVE  Aligned'
  <1> DEFINE as == Nodes(to)
             n == count + 1
             r == [n |-> n, to |-> to]
  <1>1. /\ TypeOK /\ count < MaxReq /\ count' = n /\ UNCHANGED <<nodes, table, need, retry>>
        /\ \/ /\ Write(n, as)
              /\ requests' = Append(Outstanding, r)
              /\ authenticate(as)
              /\ sure' = IF smooth THEN sure + 1 ELSE sure
              /\ last' = "appended"
              /\ UNCHANGED smooth
           \/ \E j \in DOMAIN as :
                /\ Write(n, SubSeq(as, 1, j - 1))
                /\ requests' = Outstanding
                /\ err' = TRUE
                /\ smooth' = (smooth /\ j = 1)
                /\ last' = "failed"
                /\ UNCHANGED sure
    BY DEF Aligned, AppendTo
  <1>2. n \in 1 .. MaxReq /\ MaxReq \in Nat
    BY <1>1, PipelineAssumption DEF TypeOK
  <1>3. as \in Seq(nodes \union {NULL})
    BY <1>1, NodesType
  <1>4. Outstanding \in Seq(Request) /\ NULL \notin Seq(Request)
        /\ sure \in 0 .. Len(Outstanding)
    BY <1>1, OutstandingType, PipelineAssumption
  <1>5. r \in Request
    BY <1>2 DEF Request
  <1>6. CASE /\ Write(n, as)
             /\ requests' = Append(Outstanding, r)
             /\ authenticate(as)
             /\ sure' = IF smooth THEN sure + 1 ELSE sure
             /\ last' = "appended"
             /\ UNCHANGED smooth
    <2> DEFINE o == Outstanding
    <2>1. /\ Append(o, r) \in Seq(Request) /\ Len(Append(o, r)) = Len(o) + 1
          /\ SubSeq(Append(o, r), 1, sure) = SubSeq(o, 1, sure)
      <3> HIDE DEF r, o
      <3>1. o \in Seq(Request) /\ sure \in 0 .. Len(o) /\ r \in Request
        BY <1>4, <1>5 DEF o
      <3> QED
        BY <3>1
    <2>2. Outstanding' = Append(Outstanding, r)
      BY <1>4, <1>6, <2>1, Zenon DEF Outstanding
    <2>3. TypeOK'
      <3>1. con' \in [Addr -> {"none", "ok", "broken"}] /\ wire' \in [Addr -> Seq(1 .. MaxReq)]
        BY <1>1, <1>2, <1>3, <1>6, WriteType, Zenon
      <3>2. err' \in BOOLEAN
        <4>1. err \in BOOLEAN
          BY <1>1 DEF TypeOK
        <4> QED
          BY <1>6, <4>1, Zenon DEF authenticate
      <3>3. sure' \in 0 .. Len(Outstanding')
        BY <1>4, <1>6, <2>1, <2>2
      <3>4. count' \in 0 .. MaxReq
        BY <1>1, <1>2
      <3> QED
        BY <1>1, <1>6, <2>1, <3>1, <3>2, <3>3, <3>4, Zenon DEF TypeOK
    <2>4. smooth => Exact'
      <3> SUFFICES ASSUME smooth PROVE Exact'
        OBVIOUS
      <3>1. sure' = Len(Outstanding')
        BY <1>1, <1>4, <1>6, <2>1, <2>2, AlignedIs DEF Exact
      <3>2. ASSUME NEW a \in Addr PROVE Wire(a)' = Expected(a, Outstanding)'
        <4>1. Expected(a, Outstanding)' = FlattenSeq(Shares(a, Outstanding)) \o Share(a, r)
          BY <1>1, <1>4, <1>5, <2>2, ExpectedNext, SharesAppend, Zenon
        <4>2. Wire(a) = FlattenSeq(Shares(a, Outstanding))
          BY ExpectedIs, AlignedIs DEF Exact
        <4>3. Share(a, r) = [i \in 1 .. Times(a, as) |-> n]
          BY DEF Share
        <4>4. Wire(a)' = Wire(a) \o [i \in 1 .. Times(a, as) |-> n]
          BY <1>1, <1>2, <1>3, <1>6, WireGrows, Zenon
        <4> QED
          BY <4>1, <4>2, <4>3, <4>4, Zenon
      <3> QED
        BY <3>1, <3>2, Zenon DEF Exact
    <2>5. CASE smooth
      BY <1>6, <2>3, <2>4, <2>5, AllSure, AlignedIs
    <2>6. CASE ~smooth
      <3>1. Sure' = Sure
        BY <1>6, <2>1, <2>2, <2>6, Zenon DEF Sure
      <3>2. \A a \in Addr : \E v \in Seq(1 .. MaxReq) : Wire(a)' = Wire(a) \o v
        BY <1>1, <1>2, <1>3, <1>6, WireGrows, Zenon
      <3> QED
        BY <1>1, <1>6, <2>3, <2>6, <3>1, <3>2, SureKept, AlignedIs, Zenon
    <2> QED
      BY <2>5, <2>6
  <1>7. ASSUME NEW j \in DOMAIN as,
               Write(n, SubSeq(as, 1, j - 1)),
               requests' = Outstanding,
               err' = TRUE,
               smooth' = (smooth /\ j = 1),
               last' = "failed",
               UNCHANGED sure
        PROVE  Aligned'
    <2>1. Outstanding' = Outstanding
      BY <1>4, <1>7, Zenon DEF Outstanding
    <2>2. SubSeq(as, 1, j - 1) \in Seq(nodes \union {NULL})
      BY <1>3, <1>7
    <2>3. TypeOK'
      <3>1. smooth' \in BOOLEAN
        BY <1>7
      <3>2. con' \in [Addr -> {"none", "ok", "broken"}] /\ wire' \in [Addr -> Seq(1 .. MaxReq)]
        BY <1>1, <1>2, <1>7, <2>2, WriteType, Zenon
      <3>3. count' \in 0 .. MaxReq /\ sure' \in 0 .. Len(Outstanding')
        BY <1>1, <1>2, <1>4, <1>7, <2>1
      <3> QED
        BY <1>1, <1>4, <1>7, <3>1, <3>2, <3>3, Zenon DEF TypeOK
    <2>4. Starts'
      <3>1. Sure' = Sure
        BY <1>7, <2>1, Zenon DEF Sure
      <3>2. \A a \in Addr : \E v \in Seq(1 .. MaxReq) : Wire(a)' = Wire(a) \o v
        BY <1>1, <1>2, <1>7, <2>2, WireGrows, Zenon
      <3> QED
        BY <1>1, <2>3, <3>1, <3>2, SureKept, Zenon
    <2>5. smooth' => Exact'
      <3> SUFFICES ASSUME smooth' PROVE Exact'
        OBVIOUS
      <3>1. j = 1 /\ smooth
        BY <1>7, Zenon
      <3>2. SubSeq(as, 1, j - 1) = << >>
        BY <1>3, <3>1
      <3>3. \A a : Times(a, SubSeq(as, 1, j - 1)) = 0
        BY <3>2, TimesEmpty, Zenon
      <3>4. con' = con /\ wire' = wire
        BY <1>1, <1>7, <3>3 DEF Write, TypeOK
      <3> QED
        BY <1>1, <1>7, <2>1, <2>3, <3>1, <3>4, AlignedKept, AlignedIs, Zenon
    <2> QED
      BY <2>3, <2>4, <2>5, AlignedIs
  <1> QED
    BY <1>1, <1>6, <1>7, Zenon

LEMMA RejectInv ==
  ASSUME Aligned, Reject
  PROVE  Aligned'
  <1>1. TypeOK /\ Outstanding \in Seq(Request) /\ NULL \notin Seq(Request)
    BY OutstandingType, PipelineAssumption DEF Aligned
  <1>2. Outstanding' = Outstanding
    BY <1>1, Zenon DEF Reject, Outstanding
  <1>3. TypeOK'
    BY <1>1, <1>2, Zenon DEF Reject, TypeOK
  <1> QED
    BY <1>2, <1>3, AlignedKept, Zenon DEF Reject

LEMMA NoMoreInv ==
  ASSUME Aligned, NoMoreReplies
  PROVE  Aligned'
  <1>1. Outstanding' = Outstanding
    BY DEF NoMoreReplies, Outstanding
  <1>2. TypeOK'
    BY <1>1, Zenon DEF Aligned, NoMoreReplies, TypeOK
  <1> QED
    BY <1>1, <1>2, AlignedKept, Zenon DEF NoMoreReplies

-----------------------------------------------------------------------------
LEMMA UnreadType ==
  ASSUME TypeOK, NEW as \in Seq(nodes \union {NULL})
  PROVE  Unread(as) \in [Addr -> Seq(1 .. MaxReq)]
  <1>1. ASSUME NEW a \in Addr
        PROVE  SubSeq(wire[a], Times(a, as) + 1, Len(wire[a])) \in Seq(1 .. MaxReq)
    <2> DEFINE w == wire[a]
               k == Times(a, as)
    <2>1. w \in Seq(1 .. MaxReq) /\ k \in Nat
      BY WireType, TimesType, Zenon
    <2> HIDE DEF w, k
    <2>2. SubSeq(w, k + 1, Len(w)) \in Seq(1 .. MaxReq)
      BY <2>1, DropType, Zenon
    <2> QED
      BY <2>2, Zenon DEF w, k
  <1> QED
    BY <1>1, Zenon DEF Unread

LEMMA BlameType ==
  ASSUME TypeOK, NEW n \in BOOLEAN
  PROVE  Blame(n)[1] \in BOOLEAN /\ Blame(n)[2] \in 0 .. MaxRetry
  <1>1. MaxRetry \in Nat /\ retry \in 0 .. MaxRetry
    BY PipelineAssumption DEF TypeOK
  <1>2. CASE n
    BY <1>1, <1>2 DEF Blame
  <1>3. CASE ~n /\ retry + 1 > MaxRetry
    BY <1>1, <1>3 DEF Blame
  <1>4. CASE ~n /\ ~(retry + 1 > MaxRetry)
    BY <1>1, <1>4 DEF Blame
  <1> QED
    BY <1>2, <1>3, <1>4

LEMMA ReadFailsType ==
  ASSUME TypeOK, NEW a \in nodes \union {NULL}, NEW n \in BOOLEAN, ReadFails(a, n)
  PROVE  /\ con' \in [Addr -> {"none", "ok", "broken"}]
         /\ err' \in BOOLEAN /\ need' \in BOOLEAN /\ retry' \in 0 .. MaxRetry
  BY BlameType, Zenon DEF TypeOK, ReadFails

(* What is to come on a connection when the replies to request r are read, *)
(* with w to come after them.                                              *)
LEMMA ReadShare ==
  ASSUME TypeOK, NEW r \in Request, NEW a \in Addr, NEW w \in Seq(1 .. MaxReq),
         Readable(Nodes(r.to)), Wire(a) = Share(a, r) \o w
  PROVE  /\ con[a] = "ok" => Unread(Nodes(r.to))[a] = w
         /\ con[a] # "ok" => w = << >>
         /\ \A i \in DOMAIN Nodes(r.to) : Nodes(r.to)[i] = a =>
              \A p \in 1 .. Times(a, Nodes(r.to)) : wire[a][p] = r.n
  <1> DEFINE k == Times(a, Nodes(r.to))
             s == Share(a, r)
             v == wire[a]
  <1>1. k \in Nat /\ s \in Seq(1 .. MaxReq) /\ Len(s) = k
        /\ \A p \in 1 .. k : s[p] = r.n
    BY ShareType
  <1>2. con[a] = "ok" => v = s \o w
    BY DEF Wire
  <1>3. con[a] # "ok" => s \o w = << >>
    BY Zenon DEF Wire
  <1>4. Unread(Nodes(r.to))[a] = SubSeq(v, k + 1, Len(v))
    BY Zenon DEF Unread
  <1>5. \A i \in DOMAIN Nodes(r.to) : Nodes(r.to)[i] = a => con[a] = "ok"
    BY DEF Readable
  <1> HIDE DEF k, s, v
  <1>6. SubSeq(s \o w, k + 1, Len(s \o w)) = w
    BY <1>1, DropJoin
  <1>7. con[a] = "ok" => Unread(Nodes(r.to))[a] = w
    BY <1>2, <1>4, <1>6, Zenon
  <1>8. con[a] # "ok" => w = << >>
    BY <1>1, <1>3
  <1>9. con[a] = "ok" => \A p \in 1 .. k : v[p] = r.n
    <2>1. \A p \in 1 .. k : (s \o w)[p] = s[p]
      BY <1>1, DropJoin
    <2> QED
      BY <1>1, <1>2, <2>1
  <1> QED
    BY <1>5, <1>7, <1>8, <1>9 DEF k, v

(* Taking the oldest request off.                                          *)
LEMMA TakeOldest ==
  ASSUME NEW S, NEW q \in Seq(S), NEW k \in 1 .. Len(q)
  PROVE  LET p == SubSeq(q, 1, k)
         IN  /\ p \in Seq(S) /\ p # << >> /\ Head(p) = Head(q)
             /\ Tail(p) = SubSeq(Tail(q), 1, k - 1)
             /\ Tail(p) \in Seq(S)
  <1> DEFINE p == SubSeq(q, 1, k)
             t == Tail(p)
             u == SubSeq(Tail(q), 1, k - 1)
  <1>1. p \in Seq(S) /\ Len(p) = k /\ \A i \in 1 .. k : p[i] = q[i]
    OBVIOUS
  <1>2. u \in Seq(S) /\ Len(u) = k - 1 /\ \A i \in 1 .. k - 1 : u[i] = q[i + 1]
    OBVIOUS
  <1> HIDE DEF p, u
  <1>3. p # << >> /\ Head(p) = Head(q)
    BY <1>1
  <1>4. t \in Seq(S) /\ Len(t) = k - 1 /\ \A i \in 1 .. k - 1 : t[i] = p[i + 1]
    BY <1>1, <1>3
  <1> HIDE DEF t
  <1>5. \A i \in 1 .. k - 1 : t[i] = u[i]
    <2>1. \A i \in 1 .. k - 1 : i + 1 \in 1 .. k
      OBVIOUS
    <2> QED
      BY <1>1, <1>2, <1>4, <2>1, Zenon
  <1>6. t = u
    BY <1>2, <1>4, <1>5
  <1> QED
    BY <1>1, <1>3, <1>4, <1>6, Zenon DEF p, t, u

(* Reading all replies of the oldest request r.                            *)
LEMMA ReadAll ==
  ASSUME Aligned, TypeOK', requests \in Seq(Request), requests # << >>, requests # NULL,
         requests' = Tail(requests), UNCHANGED <<nodes, table, con, smooth>>,
         Readable(Nodes(Head(requests).to)), wire' = Unread(Nodes(Head(requests).to)),
         sure' = IF sure > 0 THEN sure - 1 ELSE 0
  PROVE  /\ Aligned'
         /\ sure > 0 => \A a \in Addr : \A i \in DOMAIN Nodes(Head(requests).to) :
                          Nodes(Head(requests).to)[i] = a =>
                            \A p \in 1 .. Times(a, Nodes(Head(requests).to)) :
                              wire[a][p] = Head(requests).n
  <1> DEFINE r == Head(requests)
             as == Nodes(r.to)
             Q == Seq(1 .. MaxReq)
  <1>1. TypeOK /\ r \in Request /\ Tail(requests) \in Seq(Request)
    BY DEF Aligned
  <1>2. Outstanding = requests /\ Outstanding' = Tail(requests)
    BY <1>1, PipelineAssumption, Zenon DEF Outstanding
  <1>3. sure \in 0 .. Len(requests)
    BY <1>1, <1>2, OutstandingType
  (* What is to come when w is to come behind the replies to r.            *)
  <1>4. ASSUME NEW a \in Addr, NEW w \in Q, Wire(a) = Share(a, r) \o w
        PROVE  /\ Wire(a)' = w
               /\ \A i \in DOMAIN as : as[i] = a => \A p \in 1 .. Times(a, as) : wire[a][p] = r.n
    <2>1. /\ (con[a] = "ok" => Unread(as)[a] = w) /\ (con[a] # "ok" => w = << >>)
          /\ \A i \in DOMAIN as : as[i] = a => \A p \in 1 .. Times(a, as) : wire[a][p] = r.n
      BY <1>1, <1>4, ReadShare, Zenon
    <2> HIDE DEF as
    <2>2. wire' = Unread(as)
      BY DEF as
    <2> QED
      BY <2>1, <2>2, Zenon DEF Wire
  <1>5. CASE sure = 0
    <2>1. sure' = 0
      BY <1>5
    <2>2. ~smooth
      BY <1>2, <1>5, AlignedIs DEF Exact
    <2>3. ~(sure > 0)
      BY <1>5
    <2> QED
      BY <2>1, <2>2, <2>3, NoneSure, AlignedIs
  <1>6. CASE sure > 0
    <2>1. sure \in 1 .. Len(requests) /\ sure' = sure - 1
      BY <1>3, <1>6
    <2>2. /\ Sure \in Seq(Request) /\ Sure # << >> /\ Head(Sure) = r
          /\ Tail(Sure) = Sure' /\ Sure' \in Seq(Request)
      <3>1. requests \in Seq(Request)
        BY <1>1, Zenon DEF TypeOK
      <3>2. LET p == SubSeq(requests, 1, sure)
            IN  /\ p \in Seq(Request) /\ p # << >> /\ Head(p) = Head(requests)
                /\ Tail(p) = SubSeq(Tail(requests), 1, sure - 1)
                /\ Tail(p) \in Seq(Request)
        BY <2>1, <3>1, TakeOldest, Zenon
      <3>3. Sure = SubSeq(requests, 1, sure) /\ Sure' = SubSeq(Tail(requests), 1, sure - 1)
        BY <1>2, <2>1, Zenon DEF Sure
      <3> QED
        BY <3>2, <3>3, Zenon
    <2>3. ASSUME NEW a \in Addr
          PROVE  /\ Expected(a, Sure)' \in Q
                 /\ Expected(a, Sure) = Share(a, r) \o Expected(a, Sure)'
      <3>1. Expected(a, Sure)' = FlattenSeq(Shares(a, Sure'))
        BY ExpectedNext
      <3>2. Shares(a, Sure') \in Seq(Q)
        BY <1>1, <2>2, SharesType, Zenon
      <3>3. FlattenSeq(Shares(a, Sure)) = Share(a, Head(Sure)) \o FlattenSeq(Shares(a, Tail(Sure)))
        BY <1>1, <2>2, SharesHead, Zenon
      <3> QED
        BY <2>2, <3>1, <3>2, <3>3, ExpectedIs, FlattenType, Zenon
    <2>4. ASSUME NEW a \in Addr
          PROVE  /\ StartsWith(Wire(a), Expected(a, Sure))'
                 /\ \A i \in DOMAIN as : as[i] = a => \A p \in 1 .. Times(a, as) : wire[a][p] = r.n
      <3> DEFINE e == Expected(a, Sure)'
                 u == Wire(a)'
      <3>1. e \in Q /\ Share(a, r) \in Q /\ Wire(a) \in Q /\ u \in Q
        BY <1>1, <2>3, ShareType, WireType, WireNextType, Zenon
      <3>2. StartsWith(Wire(a), Share(a, r) \o e) /\ Share(a, r) \o e \in Q
        <4>1. StartsWith(Wire(a), Expected(a, Sure)) /\ Expected(a, Sure) \in Q
          BY <1>1, AlignedIs, OutstandingType, Zenon DEF Starts
        <4> QED
          BY <2>3, <4>1, Zenon
      <3> HIDE DEF e, u
      <3> PICK x : x = Cat(Share(a, r), e)
        OBVIOUS
      <3>3. PICK v \in Q : Wire(a) = Cat(x, v)
        <4>1. x \in Q /\ StartsWith(Wire(a), x)
          BY <3>2, Zenon DEF Cat
        <4> QED
          BY <3>1, <4>1, StartsRest
      <3>4. Wire(a) = Share(a, r) \o (e \o v)
        <4>1. Cat(Cat(Share(a, r), e), v) = Cat(Share(a, r), Cat(e, v))
          BY <3>1, JoinAssoc
        <4> QED
          BY <3>3, <4>1, Zenon DEF Cat
      <3>5. e \o v \in Q
        BY <3>1
      <3>6. u = e \o v
        BY <1>4, <3>4, <3>5, Zenon DEF u
      <3>7. StartsWith(u, e)
        BY <3>1, <3>6, JoinStarts, Zenon
      <3>8. StartsWith(Wire(a), Expected(a, Sure))'
        BY <3>7, Zenon DEF StartsWith, u, e
      <3> QED
        BY <1>4, <3>4, <3>5, <3>8, Zenon
    <2>5. smooth => Exact'
      <3> SUFFICES ASSUME smooth PROVE Exact'
        OBVIOUS
      <3>1. sure = Len(requests) /\ \A a \in Addr : Wire(a) = Expected(a, requests)
        BY <1>2, AlignedIs, Zenon DEF Exact
      <3>2. sure' = Len(Outstanding')
        BY <1>2, <2>1, <3>1
      <3>3. ASSUME NEW a \in Addr PROVE Wire(a)' = Expected(a, Outstanding)'
        <4> DEFINE w == FlattenSeq(Shares(a, Tail(requests)))
        <4>1. Wire(a) = Share(a, r) \o w
          BY <1>1, <3>1, ExpectedIs, SharesHead, Zenon
        <4>2. w \in Q
          BY <1>1, SharesType, FlattenType, Zenon
        <4>3. Expected(a, Outstanding)' = w
          BY <1>2, ExpectedNext, Zenon
        <4> HIDE DEF w
        <4> QED
          BY <1>4, <4>1, <4>2, <4>3, Zenon
      <3> QED
        BY <3>2, <3>3, Zenon DEF Exact
    <2>6. Aligned'
      BY <2>4, <2>5, AlignedIs, Zenon DEF Starts
    <2> QED
      BY <2>4, <2>6, Zenon
  <1> QED
    BY <1>3, <1>5, <1>6

LEMMA GetReplyInv ==
  ASSUME Aligned, redisClusterGetReply
  PROVE  Aligned' /\ (last' = "foreign" => sure = 0)
  <1> DEFINE r == Head(requests)
             as == Nodes(r.to)
             own == \A i \in DOMAIN as : \A p \in 1 .. Times(as[i], as) : wire[as[i]][p] = r.n
  <1>1. /\ Outstanding # << >> /\ requests' = Tail(requests) /\ UNCHANGED <<nodes, table, count>>
        /\ \/ /\ Readable(as)
              /\ wire' = Unread(as)
              /\ need' \in {need, TRUE}
              /\ last' \in {IF own THEN "own" ELSE "foreign", "freed", "failed"}
              /\ err' \in BOOLEAN
              /\ sure' = IF sure > 0 THEN sure - 1 ELSE 0
              /\ UNCHANGED <<con, retry, smooth>>
           \/ \E j \in DOMAIN as, n \in {need, TRUE} :
                /\ wire' = Unread(SubSeq(as, 1, j - 1))
                /\ ReadFails(as[j], n)
                /\ sure' = 0 /\ smooth' = FALSE
                /\ last' = "failed"
    BY Zenon DEF redisClusterGetReply
  <1>2. TypeOK /\ need \in BOOLEAN
    BY DEF Aligned, TypeOK
  <1>3. requests \in Seq(Request) /\ requests # << >> /\ requests # NULL
        /\ Outstanding = requests
    BY <1>1, <1>2, PipelineAssumption DEF TypeOK, Outstanding
  <1>4. r \in Request /\ Tail(requests) \in Seq(Request)
        /\ Len(Tail(requests)) = Len(requests) - 1
    BY <1>3
  <1>5. r.to \in Seq(Slot \union Addr) /\ as \in Seq(nodes \union {NULL})
    BY <1>2, <1>4, NodesType, Zenon DEF Request
  <1>6. Outstanding' = Tail(requests) /\ sure \in 0 .. Len(requests)
    <2>1. Outstanding' = Tail(requests)
      BY <1>1, <1>4, PipelineAssumption, Zenon DEF Outstanding
    <2> QED
      BY <1>2, <1>3, <2>1, OutstandingType
  <1>7. CASE /\ Readable(as)
             /\ wire' = Unread(as)
             /\ need' \in {need, TRUE}
             /\ last' \in {IF own THEN "own" ELSE "foreign", "freed", "failed"}
             /\ err' \in BOOLEAN
             /\ sure' = IF sure > 0 THEN sure - 1 ELSE 0
             /\ UNCHANGED <<con, retry, smooth>>
    <2>1. TypeOK'
      <3>1. wire' \in [Addr -> Seq(1 .. MaxReq)]
        BY <1>2, <1>5, <1>7, UnreadType
      <3>2. sure' \in 0 .. Len(Outstanding')
        <4>1. Len(requests) \in Nat \ {0}
          BY <1>3
        <4> QED
          BY <1>4, <1>6, <1>7, <4>1
      <3> QED
        BY <1>1, <1>2, <1>4, <1>7, <3>1, <3>2, Zenon DEF TypeOK
    <2>2. /\ Aligned'
          /\ sure > 0 => \A a \in Addr : \A i \in DOMAIN as : as[i] = a =>
                           \A p \in 1 .. Times(a, as) : wire[a][p] = r.n
      BY <1>1, <1>3, <1>7, <2>1, ReadAll, Zenon
    <2>3. \A i \in DOMAIN as : as[i] \in Addr
      BY <1>2, <1>5, <1>7 DEF Readable, TypeOK
    <2>4. sure > 0 => own
      BY <2>2, <2>3, Zenon
    <2>5. sure # 0 => sure > 0
      BY <1>6
    <2>6. own => last' # "foreign"
      BY <1>7
    <2> QED
      BY <2>2, <2>4, <2>5, <2>6, Zenon
  <1>8. ASSUME NEW j \in DOMAIN as, NEW n \in {need, TRUE},
               wire' = Unread(SubSeq(as, 1, j - 1)), ReadFails(as[j], n),
               sure' = 0, smooth' = FALSE, last' = "failed"
        PROVE  Aligned'
    <2>1. SubSeq(as, 1, j - 1) \in Seq(nodes \union {NULL}) /\ as[j] \in nodes \union {NULL}
      BY <1>5, <1>8
    <2>2. wire' \in [Addr -> Seq(1 .. MaxReq)]
      BY <1>2, <1>8, <2>1, UnreadType, Zenon
    <2>3. /\ con' \in [Addr -> {"none", "ok", "broken"}]
          /\ err' \in BOOLEAN /\ need' \in BOOLEAN /\ retry' \in 0 .. MaxRetry
      <3>1. n \in BOOLEAN
        BY <1>2, <1>8, Zenon
      <3> QED
        BY <1>2, <1>8, <2>1, <3>1, ReadFailsType, Zenon
    <2>4. sure' \in 0 .. Len(Outstanding')
      BY <1>4, <1>6, <1>8
    <2>5. TypeOK'
      BY <1>1, <1>2, <1>4, <1>8, <2>2, <2>3, <2>4, Zenon DEF TypeOK
    <2> QED
      BY <1>8, <2>5, NoneSure, AlignedIs
  <1>9. "failed" # "foreign"
    OBVIOUS
  <1> QED
    BY <1>1, <1>7, <1>8, <1>9, Zenon

-----------------------------------------------------------------------------
Con == [Addr -> {"none", "ok", "broken"}]
ToCome == [Addr -> Seq(1 .. MaxReq)]

(* What an update leaves: a connection in use is one of those before it.   *)
LEMMA UpdateEffect ==
  ASSUME TypeOK, NEW C \in Con, NEW W \in ToCome, NEW n \in BOOLEAN, NEW e \in BOOLEAN,
         Update(C, W, n, e)
  PROVE  /\ nodes' \subseteq Addr /\ table' \in [Slot -> nodes' \union {NULL}]
         /\ con' \in Con /\ wire' \in ToCome
         /\ need' \in BOOLEAN /\ err' \in BOOLEAN
         /\ \A a \in Addr : con'[a] = "ok" => C[a] = "ok" /\ wire'[a] = W[a]
         /\ \A a \in nodes \intersect nodes' : con'[a] = C[a] /\ wire'[a] = W[a]
  <1>1. ASSUME NEW m \in Maps,
               nodes' = m.nodes, table' = m.table,
               con' = [a \in Addr |-> IF a \in nodes \intersect m.nodes THEN C[a] ELSE "none"],
               wire' = [a \in Addr |-> IF a \in nodes \intersect m.nodes THEN W[a] ELSE << >>],
               need' = FALSE, err' = FALSE
        PROVE  /\ nodes' \subseteq Addr /\ table' \in [Slot -> nodes' \union {NULL}]
               /\ con' \in Con /\ wire' \in ToCome
               /\ need' \in BOOLEAN /\ err' \in BOOLEAN
               /\ \A a \in Addr : con'[a] = "ok" => C[a] = "ok" /\ wire'[a] = W[a]
               /\ \A a \in nodes \intersect nodes' : con'[a] = C[a] /\ wire'[a] = W[a]
    <2>1. nodes' \subseteq Addr /\ table' \in [Slot -> nodes' \union {NULL}]
      BY <1>1, PipelineAssumption
    <2>2. con' \in Con
      BY <1>1 DEF Con
    <2>3. << >> \in Seq(1 .. MaxReq)
      OBVIOUS
    <2>4. wire' \in ToCome
      BY <1>1, <2>3, Zenon DEF ToCome
    <2>5. \A a \in Addr : con'[a] = "ok" => C[a] = "ok" /\ wire'[a] = W[a]
      BY <1>1
    <2>6. \A a \in nodes \intersect nodes' : con'[a] = C[a] /\ wire'[a] = W[a]
      BY <1>1, <2>1
    <2> QED
      BY <1>1, <2>1, <2>2, <2>4, <2>5, <2>6, Zenon
  <1>2. CASE /\ con' = C /\ wire' = W /\ need' = n /\ err' \in {e, TRUE}
             /\ UNCHANGED <<nodes, table>>
    BY <1>2, Zenon DEF TypeOK
  <1> QED
    BY <1>1, <1>2, Zenon DEF Update

(* Requests that keep their nodes keep their shares.                       *)
LEMMA SameShares ==
  ASSUME NEW qs, \A i \in DOMAIN qs : Nodes(qs[i].to)' = Nodes(qs[i].to)
  PROVE  \A a : FlattenSeq([i \in DOMAIN qs |->
                  [j \in 1 .. Times(a, Nodes(qs[i].to)') |-> qs[i].n]])
                = FlattenSeq(Shares(a, qs))
  <1> TAKE a
  <1>1. [i \in DOMAIN qs |-> [j \in 1 .. Times(a, Nodes(qs[i].to)') |-> qs[i].n]]
        = Shares(a, qs)
    BY Zenon DEF Shares, Share
  <1> QED
    BY <1>1, Zenon

(* A node that has a share of a request is in use, before and after.       *)
LEMMA ShareOfNode ==
  ASSUME TypeOK, nodes' \subseteq Addr, table' \in [Slot -> nodes' \union {NULL}],
         NEW r \in Request, NEW a \in Addr,
         Nodes(r.to)' = Nodes(r.to), Times(a, Nodes(r.to)) # 0
  PROVE  a \in nodes \intersect nodes'
  <1> DEFINE to == r.to
  <1>1. to \in Seq(Slot \union Addr)
    BY DEF Request
  <1> HIDE DEF to
  <1>2. PICK i \in DOMAIN to : Node(to[i]) = a
    <2>1. {i \in DOMAIN Nodes(to) : Nodes(to)[i] = a} # {}
      <3>1. Cardinality({}) = 0
        BY FS_EmptySet
      <3> QED
        BY <3>1, Zenon DEF Times, to
    <2> QED
      BY <2>1, Zenon DEF Nodes
  <1>3. Node(to[i])' = a
    <2>1. Nodes(to)'[i] = Node(to[i])' /\ Nodes(to)[i] = Node(to[i])
      BY Zenon DEF Nodes
    <2> QED
      BY <1>2, <2>1, Zenon DEF to
  <1>4. to[i] \in Slot \union Addr /\ a # NULL
    BY <1>1, PipelineAssumption
  <1>5. a \in nodes
    BY <1>2, <1>4, Zenon DEF Node, TypeOK
  <1>6. a \in nodes'
    BY <1>3, <1>4, Zenon DEF Node
  <1> QED
    BY <1>5, <1>6

LEMMA UpdateInv ==
  ASSUME Aligned, redisClusterUpdateSlotmap
  PROVE  Aligned'
  <1> DEFINE Q == Seq(1 .. MaxReq)
  <1>1. TypeOK /\ con \in Con /\ wire \in ToCome /\ need \in BOOLEAN /\ err \in BOOLEAN
    BY DEF Aligned, TypeOK, Con, ToCome
  <1>2. /\ Update(con, wire, need, err) /\ sure' \in 0 .. sure /\ SameNodes(sure')
        /\ smooth' = (smooth /\ sure' = sure)
        /\ last' = "updated" /\ UNCHANGED <<requests, count, retry>>
    BY DEF redisClusterUpdateSlotmap
  <1>3. /\ nodes' \subseteq Addr /\ table' \in [Slot -> nodes' \union {NULL}]
        /\ con' \in Con /\ wire' \in ToCome
        /\ need' \in BOOLEAN /\ err' \in BOOLEAN
        /\ \A a \in Addr : con'[a] = "ok" => con[a] = "ok" /\ wire'[a] = wire[a]
        /\ \A a \in nodes \intersect nodes' : con'[a] = con[a] /\ wire'[a] = wire[a]
    BY <1>1, <1>2, UpdateEffect, Zenon
  <1>4. Outstanding' = Outstanding
    BY <1>2, Zenon DEF Outstanding
  <1>5. /\ Outstanding \in Seq(Request) /\ sure \in 0 .. Len(Outstanding)
        /\ Sure \in Seq(Request) /\ Len(Sure) = sure
    BY <1>1, OutstandingType
  <1>6. TypeOK'
    <2>1. smooth' \in BOOLEAN
      BY <1>2
    <2>2. sure' \in 0 .. Len(Outstanding')
      BY <1>2, <1>4, <1>5
    <2> QED
      BY <1>1, <1>2, <1>3, <2>1, <2>2, Zenon DEF TypeOK, Con, ToCome
  <1> PICK m : m = sure'
    OBVIOUS
  <1> PICK qs : qs = SubSeq(Outstanding, 1, m)
    BY Zenon
  <1>7. /\ qs \in Seq(Request) /\ DOMAIN qs = 1 .. m /\ qs = SubSeq(Sure, 1, m)
        /\ \A i \in DOMAIN qs : qs[i] = Outstanding[i]
    <2> DEFINE o == Outstanding
               k == sure
    <2>1. o \in Seq(Request) /\ k \in 0 .. Len(o) /\ m \in 0 .. k
      BY <1>2, <1>5
    <2> HIDE DEF o, k
    <2>2. LET q == SubSeq(o, 1, m)
          IN  q \in Seq(Request) /\ DOMAIN q = 1 .. m /\ q = SubSeq(SubSeq(o, 1, k), 1, m)
              /\ \A i \in DOMAIN q : q[i] = o[i]
      BY <2>1, ShorterTwice, Zenon
    <2> QED
      BY <2>2, Zenon DEF Sure, o, k
  <1>8. Sure' = qs
    BY <1>4, Zenon DEF Sure
  <1>9. \A i \in DOMAIN qs : Nodes(qs[i].to)' = Nodes(qs[i].to)
    <2> SUFFICES ASSUME NEW i \in DOMAIN qs PROVE Nodes(qs[i].to)' = Nodes(qs[i].to)
      BY Zenon
    <2>1. Nodes(Outstanding[i].to)' = Nodes(Outstanding[i].to)
      BY <1>2, <1>7, Zenon DEF SameNodes
    <2> QED
      BY <1>4, <1>7, <2>1, Zenon DEF Nodes, Node
  <1>10. \A a : Expected(a, Sure)' = FlattenSeq(Shares(a, qs))
    BY <1>8, <1>9, SameShares, Zenon DEF Expected
  (* A connection either stays, or none of these requests uses it.         *)
  <1>11. ASSUME NEW a \in Addr
         PROVE  Wire(a)' = Wire(a) \/ FlattenSeq(Shares(a, qs)) = << >>
    <2>1. CASE a \in nodes \intersect nodes'
      BY <1>3, <2>1, Zenon DEF Wire
    <2>2. CASE a \notin nodes \intersect nodes'
      <3>1. ASSUME NEW i \in DOMAIN qs PROVE Times(a, Nodes(qs[i].to)) = 0
        <4>1. qs[i] \in Request
          BY <1>7
        <4> QED
          BY <1>1, <1>3, <1>9, <2>2, <4>1, ShareOfNode, Zenon
      <3> QED
        BY <1>1, <1>7, <3>1, NoShares, Zenon
    <2> QED
      BY <2>1, <2>2
  <1>12. Starts'
    <2> SUFFICES ASSUME NEW a \in Addr PROVE StartsWith(Wire(a), Expected(a, Sure))'
      BY DEF Starts
    <2> DEFINE e == FlattenSeq(Shares(a, qs))
               d == FlattenSeq(Shares(a, Sure))
               u == Wire(a)'
    <2>1. e \in Q /\ d \in Q /\ u \in Q /\ Wire(a) \in Q
      BY <1>1, <1>5, <1>6, <1>7, SharesType, FlattenType, WireType, WireNextType, Zenon
    <2>2. StartsWith(Wire(a), d)
      BY ExpectedIs, AlignedIs, Zenon DEF Starts
    <2>3. StartsWith(d, e)
      <3>1. m \in 0 .. Len(Sure)
        BY <1>2, <1>5
      <3> QED
        BY <1>1, <1>5, <1>7, <3>1, SharesStart, Zenon
    <2>4. u = Wire(a) \/ e = << >>
      BY <1>11, Zenon
    <2> HIDE DEF e, d, u
    <2>5. StartsWith(Wire(a), e)
      BY <2>1, <2>2, <2>3, StartsLonger, Zenon
    <2>6. StartsWith(u, e)
      BY <2>1, <2>4, <2>5, StartsItself, Zenon
    <2> QED
      BY <1>10, <2>6, Zenon DEF StartsWith, e, u
  <1>13. smooth' => Exact'
    <2> SUFFICES ASSUME smooth' PROVE Exact'
      OBVIOUS
    <2>1. smooth /\ sure' = sure
      BY <1>2, Zenon
    <2>2. sure = Len(Outstanding) /\ \A a \in Addr : Wire(a) = Expected(a, Outstanding)
      BY <2>1, AlignedIs, Zenon DEF Exact
    <2>3. qs = Outstanding
      BY <1>5, <2>1, <2>2
    <2>4. sure' = Len(Outstanding')
      BY <1>4, <2>1, <2>2
    <2>5. ASSUME NEW a \in Addr PROVE Wire(a)' = Expected(a, Outstanding)'
      <3>1. Wire(a) = FlattenSeq(Shares(a, qs))
        BY <2>2, <2>3, ExpectedIs, Zenon
      <3>2. Expected(a, Outstanding)' = FlattenSeq(Shares(a, qs))
        BY <1>4, <1>8, <1>10, <2>3, Zenon DEF Expected
      <3>3. Wire(a) = << >> => Wire(a)' = << >>
        BY <1>3 DEF Wire
      <3> QED
        BY <1>11, <3>1, <3>2, <3>3, Zenon
    <2> QED
      BY <2>4, <2>5, Zenon DEF Exact
  <1> QED
    BY <1>6, <1>12, <1>13, AlignedIs

LEMMA ReleaseEffect ==
  ASSUME TypeOK, NEW C \in Con, NEW W \in ToCome, NEW n \in BOOLEAN, Release(C, W, n)
  PROVE  /\ nodes' \subseteq Addr /\ table' \in [Slot -> nodes' \union {NULL}]
         /\ con' \in Con /\ wire' \in ToCome
         /\ need' \in BOOLEAN /\ err' \in BOOLEAN
         /\ \A a \in Addr : con'[a] = "ok" => C[a] = "ok" /\ wire'[a] = W[a]
         /\ requests' = NULL /\ count' = count /\ Outstanding' = << >>
         /\ \A a : Expected(a, Outstanding)' = << >>
  <1>1. requests' = NULL /\ count' = count /\ Outstanding' = << >>
    BY DEF Release, Outstanding
  <1>2. \A a : Expected(a, Outstanding)' = << >>
    BY <1>1, NothingExpected
  <1>3. CASE n
    BY <1>1, <1>2, <1>3, UpdateEffect, Zenon DEF Release
  <1>4. CASE ~n
    BY <1>1, <1>2, <1>4, Zenon DEF Release, TypeOK
  <1> QED
    BY <1>3, <1>4

LEMMA ResetClearsInv ==
  ASSUME Aligned, ResetClears
  PROVE  Aligned'
  <1> DEFINE C == [a \in Addr |-> "none"]
             W == [a \in Addr |-> << >>]
  <1>1. TypeOK
    BY DEF Aligned
  <1>2. PICK b \in {<<need, retry>>, <<TRUE, retry>>, Blame(need)} :
               Release(C, W, b[1]) /\ retry' = b[2]
    BY Zenon DEF ResetClears
  <1>3. sure' = 0 /\ smooth' = TRUE /\ last' = "reset"
    BY DEF ResetClears
  <1>4. b[1] \in BOOLEAN /\ b[2] \in 0 .. MaxRetry
    <2>1. need \in BOOLEAN /\ retry \in 0 .. MaxRetry
      BY <1>1 DEF TypeOK
    <2>2. CASE b = <<need, retry>>
      BY <2>1, <2>2
    <2>3. CASE b = <<TRUE, retry>>
      BY <2>1, <2>3
    <2>4. CASE b = Blame(need)
      BY <1>1, <2>1, <2>4, BlameType, Zenon
    <2> QED
      BY <1>2, <2>2, <2>3, <2>4, Zenon
  <1>5. C \in Con /\ \A a \in Addr : C[a] # "ok"
    BY DEF Con
  <1>6. W \in ToCome
    <2>1. << >> \in Seq(1 .. MaxReq)
      OBVIOUS
    <2> QED
      BY <2>1 DEF ToCome
  <1> HIDE DEF C, W
  <1>7. /\ nodes' \subseteq Addr /\ table' \in [Slot -> nodes' \union {NULL}]
        /\ con' \in Con /\ wire' \in ToCome
        /\ need' \in BOOLEAN /\ err' \in BOOLEAN
        /\ \A a \in Addr : con'[a] # "ok"
        /\ requests' = NULL /\ count' = count /\ Outstanding' = << >>
        /\ \A a : Expected(a, Outstanding)' = << >>
    BY <1>1, <1>2, <1>4, <1>5, <1>6, ReleaseEffect
  <1>8. Len(Outstanding') = 0
    BY <1>7
  <1>9. TypeOK'
    <2>1. sure' \in 0 .. Len(Outstanding') /\ smooth' \in BOOLEAN
      BY <1>3, <1>8
    <2> QED
      BY <1>1, <1>2, <1>3, <1>4, <1>7, <2>1, Zenon DEF TypeOK, Con, ToCome
  <1>10. Exact'
    BY <1>3, <1>7, <1>8, Zenon DEF Exact, Wire
  <1> QED
    BY <1>9, <1>10, AllSure, AlignedIs

LEMMA ResetDrainsInv ==
  ASSUME Aligned, ResetDrains
  PROVE  Aligned'
  <1> DEFINE as == FlattenSeq(Drained(requests))
             W == [a \in Addr |-> IF con[a] = "ok" THEN Unread(as)[a] ELSE << >>]
  <1>1. TypeOK
    BY DEF Aligned
  <1>2. requests # NULL /\ requests \in Seq(Request) /\ Outstanding = requests
    BY <1>1 DEF ResetDrains, TypeOK, Outstanding
  <1>3. PICK C \in SendAll, n \in {need, Outstanding # << >> \/ need} : Release(C, W, n)
    BY Zenon DEF ResetDrains, Drained
  <1>4. last' \in {"reset", "freed"} /\ sure' = 0 /\ UNCHANGED <<retry, smooth>>
    BY DEF ResetDrains
  <1>5. C \in Con /\ n \in BOOLEAN
    BY <1>1, Zenon DEF SendAll, Con, TypeOK
  <1>6. as \in Seq(nodes \union {NULL})
    BY <1>1, <1>2, DrainedType, FlattenType
  <1>7. Unread(as) \in ToCome
    BY <1>1, <1>6, UnreadType DEF ToCome
  <1>8. W \in ToCome
    <2>1. << >> \in Seq(1 .. MaxReq)
      OBVIOUS
    <2> HIDE DEF as
    <2> QED
      BY <1>7, <2>1, Zenon DEF ToCome
  <1>9. ASSUME smooth, NEW a \in Addr PROVE W[a] = << >>
    <2>1. CASE con[a] = "ok"
      <3> DEFINE w == wire[a]
      <3>1. w = FlattenSeq(Shares(a, requests))
        BY <1>2, <1>9, <2>1, ExpectedIs, Zenon DEF Aligned, Wire
      <3>2. Len(w) = Times(a, as)
        BY <1>1, <1>2, <3>1, DrainedCount
      <3>3. W[a] = SubSeq(w, Len(w) + 1, Len(w))
        BY <2>1, <3>2 DEF Unread
      <3>4. w \in Seq(1 .. MaxReq)
        BY <1>1, WireType
      <3> HIDE DEF w, W
      <3> QED
        BY <3>3, <3>4
    <2>2. CASE con[a] # "ok"
      BY <2>2
    <2> QED
      BY <2>1, <2>2
  <1> HIDE DEF W
  <1>10. /\ nodes' \subseteq Addr /\ table' \in [Slot -> nodes' \union {NULL}]
         /\ con' \in Con /\ wire' \in ToCome
         /\ need' \in BOOLEAN /\ err' \in BOOLEAN
         /\ \A a \in Addr : con'[a] = "ok" => wire'[a] = W[a]
         /\ requests' = NULL /\ count' = count /\ Outstanding' = << >>
         /\ \A a : Expected(a, Outstanding)' = << >>
    BY <1>1, <1>3, <1>5, <1>8, ReleaseEffect
  <1>11. Len(Outstanding') = 0
    BY <1>10
  <1>12. TypeOK'
    <2>1. sure' \in 0 .. Len(Outstanding')
      BY <1>4, <1>11
    <2> QED
      BY <1>1, <1>4, <1>10, <2>1, Zenon DEF TypeOK, Con, ToCome
  <1>13. smooth' => Exact'
    BY <1>4, <1>9, <1>10, <1>11, Zenon DEF Exact, Wire
  <1> QED
    BY <1>4, <1>12, <1>13, NoneSure, AlignedIs

-----------------------------------------------------------------------------
LEMMA InitInv == Init => Aligned
  <1> SUFFICES ASSUME Init PROVE Aligned
    OBVIOUS
  <1>1. << >> \in Seq(1 .. MaxReq)
    OBVIOUS
  <1>2. TypeOK
    <2>1. nodes \subseteq Addr /\ table \in [Slot -> nodes \union {NULL}]
      BY PipelineAssumption DEF Init
    <2>2. wire \in [Addr -> Seq(1 .. MaxReq)]
      BY <1>1 DEF Init
    <2>3. con \in [Addr -> {"none", "ok", "broken"}]
      BY DEF Init
    <2>4. count \in 0 .. MaxReq /\ retry \in 0 .. MaxRetry
      BY PipelineAssumption DEF Init
    <2>5. Outstanding = << >> /\ sure \in 0 .. Len(Outstanding)
      BY DEF Init, Outstanding
    <2> QED
      BY <2>1, <2>2, <2>3, <2>4, <2>5, Zenon DEF Init, TypeOK
  <1>3. Outstanding = << >> /\ sure = Len(Outstanding)
    BY DEF Init, Outstanding
  <1>4. \A a \in Addr : Wire(a) = << >> /\ Expected(a, Outstanding) = << >>
    BY <1>3, NothingExpected DEF Init, Wire
  <1>5. Sure = Outstanding
    BY <1>2, <1>3, OutstandingType
  <1>6. \A a \in Addr : StartsWith(Wire(a), Expected(a, Sure))
    BY <1>1, <1>4, <1>5, StartsItself, Zenon
  <1> QED
    BY <1>2, <1>3, <1>4, <1>6, Zenon DEF Aligned

LEMMA NextInv == Aligned /\ [Next]_vars => Aligned'
  <1> SUFFICES ASSUME Aligned, [Next]_vars PROVE Aligned'
    OBVIOUS
  <1>1. ASSUME NEW c \in Commands, redisClusterAppendFormattedCommand(c) PROVE Aligned'
    <2>1. c \in Seq(Slot \union Addr)
      <3>1. c \in Seq(Slot)
        BY PipelineAssumption
      <3> QED
        BY <3>1
    <2> QED
      BY <1>1, <2>1, AppendInv, RejectInv DEF redisClusterAppendFormattedCommand
  <1>2. ASSUME NEW a \in Addr, redisClustervAppendCommandToNode(a) PROVE Aligned'
    <2>1. <<a>> \in Seq(Slot \union Addr)
      OBVIOUS
    <2> QED
      BY <1>2, <2>1, AppendInv, Zenon DEF redisClustervAppendCommandToNode
  <1>3. CASE redisClusterGetReply
    BY <1>3, GetReplyInv
  <1>4. CASE NoMoreReplies
    BY <1>4, NoMoreInv
  <1>5. CASE redisClusterUpdateSlotmap
    BY <1>5, UpdateInv
  <1>6. CASE redisClusterReset
    BY <1>6, ResetClearsInv, ResetDrainsInv DEF redisClusterReset
  <1>7. CASE UNCHANGED vars
    <2>1. UNCHANGED <<nodes, table, con, wire, requests, count, err, need, retry, sure, smooth,
                    last>>
      BY <1>7 DEF vars
    <2>2. Outstanding' = Outstanding
      BY <2>1 DEF Outstanding
    <2>3. TypeOK'
      BY <2>1, <2>2, Zenon DEF Aligned, TypeOK
    <2> QED
      BY <2>1, <2>2, <2>3, AlignedKept
  <1> QED
    BY <1>1, <1>2, <1>3, <1>4, <1>5, <1>6, <1>7 DEF Next, Undefined

(* For any number of nodes, slots and sub-commands: what is to come on     *)
(* each connection begins with the replies to the oldest commands of       *)
(* cc->requests, in its order, and as long as nothing has failed it is the *)
(* replies to all of them.  Appending a command in part, and updating the  *)
(* slot map between writing and reading, take nothing from the commands    *)
(* before.                                                                 *)
THEOREM PipelineAligned == Spec => []Aligned
  BY InitInv, NextInv, PTL DEF Spec

(* redisClusterGetReply never gives the reply to another command to one    *)
(* that is sure of its own.                                                *)
THEOREM PipelineOwnReply == Spec => OwnReply
  <1>1. Aligned /\ [Next]_vars => [last' = "foreign" => sure = 0]_vars
    <2> SUFFICES ASSUME Aligned, Next PROVE last' = "foreign" => sure = 0
      OBVIOUS
    <2>1. ASSUME NEW to, AppendTo(to) PROVE last' # "foreign"
      BY <2>1 DEF AppendTo
    <2>2. Reject => last' # "foreign"
      BY DEF Reject
    <2>3. CASE redisClusterGetReply
      BY <2>3, GetReplyInv
    <2>4. NoMoreReplies => last' # "foreign"
      BY DEF NoMoreReplies
    <2>5. redisClusterUpdateSlotmap => last' # "foreign"
      BY DEF redisClusterUpdateSlotmap
    <2>6. redisClusterReset => last' # "foreign"
      <3>1. ResetClears => last' = "reset"
        BY DEF ResetClears
      <3>2. ResetDrains => last' \in {"reset", "freed"}
        BY DEF ResetDrains
      <3> QED
        BY <3>1, <3>2 DEF redisClusterReset
    <2>7. Undefined => last' # "foreign"
      BY DEF Undefined, vars
    <2> QED
      BY <2>1, <2>2, <2>3, <2>4, <2>5, <2>6, <2>7, Zenon
      DEF Next, redisClusterAppendFormattedCommand, redisClustervAppendCommandToNode
  <1> QED
    BY <1>1, PipelineAligned, PTL DEF Spec, OwnReply
=============================================================================
