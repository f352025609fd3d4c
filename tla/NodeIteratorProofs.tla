------------------------- MODULE NodeIteratorProofs -------------------------
(***************************************************************************)
(* The safety properties of NodeIterator, for all keys, maps and route     *)
(* versions, and those of the hash table under it.                         *)
(*                                                                         *)
(* The hash table of Dict is a set of keys, for every set of keys and      *)
(* every initial size.  DictOK says when a table is in order; what         *)
(* dictExpand, dictAdd and dictNext do to one that is follows by induction *)
(* over the recursive functions they are defined with.  Inv then says that *)
(* the client's dict is in order and what the application's iterator       *)
(* refers to; Walk adds where an iteration is and which nodes it has       *)
(* returned.                                                               *)
(***************************************************************************)
EXTENDS NodeIterator, FiniteSetTheorems, WellFoundedInduction, TLAPS

-----------------------------------------------------------------------------
(* Facts about numbers and sequences.                                      *)

(* A set of numbers that is not empty has a least element.                 *)
LEMMA Least ==
  ASSUME NEW T, T \subseteq Nat, T # {}
  PROVE  \E x \in T : \A y \in T : x <= y
  <1> DEFINE R == OpToRel(<, Nat)
  <1>1. PICK x \in T : \A y \in T : ~ (<<y, x>> \in R)
    BY WFMin, NatLessThanWellFounded, Zenon
  <1>2. \A y \in Nat : y < x => <<y, x>> \in R
    BY Zenon DEF OpToRel
  <1> HIDE DEF R
  <1>3. \A y \in T : y \in Nat /\ x \in Nat /\ ~(y < x)
    BY <1>1, <1>2, Zenon
  <1>4. \A y \in T : x <= y
    BY <1>3
  <1> QED
    BY <1>4, Zenon

(* Induction, for a set instead of a predicate.                            *)
LEMMA Induction ==
  ASSUME NEW S, 0 \in S, \A n \in Nat : n \in S => n + 1 \in S
  PROVE  Nat \subseteq S
  <1> DEFINE T == {n \in Nat : n \notin S}
  <1> SUFFICES ASSUME T # {} PROVE FALSE
    BY Zenon
  <1>1. PICK x \in T : \A y \in T : x <= y
    BY Least, Zenon
  <1>2. x # 0 /\ x - 1 \in Nat
    OBVIOUS
  <1>3. x - 1 \in S
    BY <1>1, <1>2
  <1> QED
    BY <1>2, <1>3

(* Induction over an interval.                                             *)
LEMMA IntervalInduction ==
  ASSUME NEW n \in Nat, NEW P, 0 \in P, \A k \in 0 .. n : k # n /\ k \in P => k + 1 \in P
  PROVE  \A k \in 0 .. n : k \in P
  <1> DEFINE S == {k \in Nat : k \in 0 .. n => k \in P}
  <1>1. 0 \in S
    BY Zenon
  <1>2. ASSUME NEW k \in Nat, k \in S PROVE k + 1 \in S
    BY <1>2
  <1> HIDE DEF S
  <1>3. Nat \subseteq S
    BY <1>1, <1>2, Induction, Zenon
  <1> QED
    BY <1>3 DEF S

(* Recursion over an interval: from c, with step[k] for the k-th value.    *)
Recurses(f, V, c, n, step) ==
  /\ f \in [0 .. n -> V]
  /\ f[0] = c
  /\ \A k \in 1 .. n : f[k] = step[k][f[k - 1]]

LEMMA Recursion ==
  ASSUME NEW V, NEW c \in V, NEW n \in Nat, NEW step \in [1 .. n -> [V -> V]]
  PROVE  \E f : Recurses(f, V, c, n, step)
  <1> DEFINE P == {m \in 0 .. n : \E f \in [0 .. m -> V] :
                     f[0] = c /\ \A k \in 1 .. m : f[k] = step[k][f[k - 1]]}
  <1>1. 0 \in P
    <2> DEFINE f == [k \in 0 .. 0 |-> c]
    <2>1. f \in [0 .. 0 -> V] /\ f[0] = c /\ \A k \in 1 .. 0 : f[k] = step[k][f[k - 1]]
      OBVIOUS
    <2> HIDE DEF f
    <2> QED
      BY <2>1
  <1>2. ASSUME NEW m \in 0 .. n, m # n, m \in P PROVE m + 1 \in P
    <2>1. PICK f \in [0 .. m -> V] :
                 f[0] = c /\ \A k \in 1 .. m : f[k] = step[k][f[k - 1]]
      BY <1>2, Zenon
    <2> DEFINE x == step[m + 1][f[m]]
               g == [k \in 0 .. m + 1 |-> IF k <= m THEN f[k] ELSE x]
    <2>2. x \in V
      BY <1>2, <2>1
    <2>3. g[m + 1] = x /\ \A k \in 0 .. m : g[k] = f[k]
      BY <1>2
    <2> HIDE DEF x
    <2>4. g \in [0 .. m + 1 -> V]
      BY <2>1, <2>2
    <2> HIDE DEF g
    <2>5. g[0] = c
      BY <2>1, <2>3
    <2>6. ASSUME NEW k \in 1 .. m + 1 PROVE g[k] = step[k][g[k - 1]]
      <3>1. CASE k \in 1 .. m
        BY <2>1, <2>3, <3>1
      <3>2. CASE k = m + 1
        BY <1>2, <2>3, <3>2 DEF x
      <3> QED
        BY <3>1, <3>2
    <2>7. m + 1 \in 0 .. n
      BY <1>2
    <2> QED
      BY <2>4, <2>5, <2>6, <2>7, Zenon
  <1> HIDE DEF P
  <1>3. \A k \in 0 .. n : k \in P
    BY <1>1, <1>2, IntervalInduction, Zenon
  <1>4. n \in P
    BY <1>3
  <1> QED
    BY <1>4, Zenon DEF P, Recurses

(* A function on 1 .. k is a sequence of length k.                         *)
LEMMA FunctionIsSeq ==
  ASSUME NEW S, NEW k \in Nat, NEW w \in [1 .. k -> S]
  PROVE  w \in Seq(S) /\ Len(w) = k
  OBVIOUS

LEMMA ElementType ==
  ASSUME NEW S, NEW s \in Seq(S), NEW i \in 1 .. Len(s)
  PROVE  s[i] \in S
  OBVIOUS

(* What FlattenSeq computes, one sequence after the other.                 *)
LEMMA FlattenSteps ==
  ASSUME NEW S, NEW t \in Seq(Seq(S))
  PROVE  \E f \in [0 .. Len(t) -> Seq(S)] :
           /\ f[0] = << >>
           /\ \A k \in 1 .. Len(t) : f[k] = f[k - 1] \o t[k]
           /\ f[Len(t)] = FlattenSeq(t)
  <1> DEFINE n == Len(t)
             step == [k \in 1 .. n |-> [v \in Seq(S) |-> v \o t[k]]]
             B(g, i) == IF i = 1 THEN t[i] ELSE g[i-1] \o t[i]
             F == CHOOSE g : g = [i \in 1 .. n |-> B(g, i)]
  <1>0. n \in Nat /\ << >> \in Seq(S) /\ \A k \in 1 .. n : t[k] \in Seq(S)
    OBVIOUS
  <1>1. step \in [1 .. n -> [Seq(S) -> Seq(S)]]
    OBVIOUS
  <1>2. \A k \in 1 .. n, v \in Seq(S) : step[k][v] = v \o t[k]
    BY Zenon
  <1> HIDE DEF step, n
  <1>3. PICK f : Recurses(f, Seq(S), << >>, n, step)
    BY <1>0, <1>1, Recursion, Zenon
  <1>4. f \in [0 .. n -> Seq(S)] /\ f[0] = << >>
    BY <1>3, Zenon DEF Recurses
  <1>5. ASSUME NEW k \in 1 .. n PROVE f[k] = f[k - 1] \o t[k]
    <2>1. k - 1 \in 0 .. n
      BY <1>0
    <2>2. f[k - 1] \in Seq(S)
      BY <1>4, <2>1, Zenon
    <2> QED
      BY <1>2, <1>3, <2>2, Zenon DEF Recurses
  <1> DEFINE h == [i \in 1 .. n |-> f[i]]
  <1>6. ASSUME NEW i \in 1 .. n PROVE h[i] = B(h, i)
    <2>1. CASE i = 1
      <3>0. 1 \in 1 .. n /\ 1 - 1 = 0
        BY <2>1
      <3>1. f[1] = << >> \o t[1] /\ t[1] \in Seq(S)
        BY <1>0, <1>4, <1>5, <3>0, Zenon
      <3>2. << >> \o t[1] = t[1]
        BY <3>1
      <3> QED
        BY <2>1, <3>1, <3>2, Zenon
    <2>2. CASE i # 1
      <3>1. i - 1 \in 1 .. n
        BY <1>0, <2>2
      <3>2. h[i - 1] = f[i - 1] /\ h[i] = f[i]
        BY <3>1, Zenon
      <3> QED
        BY <1>5, <2>2, <3>2, Zenon
    <2> QED
      BY <2>1, <2>2, Zenon
  <1>7. F = [i \in 1 .. n |-> B(F, i)]
    <2>1. h = [i \in 1 .. n |-> h[i]]
      BY Zenon
    <2> HIDE DEF h
    <2>2. h = [i \in 1 .. n |-> B(h, i)]
      BY <1>6, <2>1, Zenon
    <2> QED
      BY <2>2, Zenon
  <1> HIDE DEF F
  <1>8. ASSUME NEW i \in 1 .. n PROVE F[i] = B(F, i)
    <2> HIDE DEF B
    <2> QED
      BY <1>7, Zenon
  <1>9. \A k \in 0 .. n : k \in {i \in 0 .. n : i # 0 => F[i] = f[i]}
    <2> DEFINE P == {i \in 0 .. n : i # 0 => F[i] = f[i]}
    <2>1. 0 \in P
      BY <1>0
    <2>2. ASSUME NEW k \in 0 .. n, k # n, k \in P PROVE k + 1 \in P
      <3>1. k + 1 \in 1 .. n /\ (k + 1) - 1 = k /\ (k + 1 = 1 <=> k = 0)
        BY <1>0, <2>2
      <3>2. F[k + 1] = IF k = 0 THEN t[k + 1] ELSE F[k] \o t[k + 1]
        BY <1>8, <3>1, Zenon
      <3>3. f[k + 1] = f[k] \o t[k + 1]
        BY <1>5, <3>1, Zenon
      <3>4. CASE k = 0
        <4>1. << >> \o t[k + 1] = t[k + 1]
          BY <1>0, <3>1
        <4>2. f[k] = << >>
          BY <1>4, <3>4, Zenon
        <4>3. F[k + 1] = f[k + 1]
          BY <3>2, <3>3, <3>4, <4>1, <4>2, Zenon
        <4> QED
          BY <3>1, <4>3
      <3>5. CASE k # 0
        <4>1. F[k] = f[k]
          BY <2>2, <3>5, Zenon
        <4>2. F[k + 1] = f[k + 1]
          BY <3>2, <3>3, <3>5, <4>1, Zenon
        <4> QED
          BY <3>1, <4>2
      <3> QED
        BY <3>4, <3>5, Zenon
    <2> HIDE DEF P
    <2>3. \A k \in 0 .. n : k \in P
      BY <1>0, <2>1, <2>2, IntervalInduction, Zenon
    <2> QED
      BY <2>3, Zenon DEF P
  <1>10. f[n] = FlattenSeq(t)
    <2>1. CASE n = 0
      <3>1. t = << >>
        BY <2>1 DEF n
      <3> QED
        BY <1>4, <2>1, <3>1, Zenon DEF FlattenSeq, n
    <2>2. CASE n # 0
      <3>1. FlattenSeq(t) = F[n]
        BY <2>2, Zenon DEF FlattenSeq, F, n
      <3> QED
        BY <1>0, <1>9, <2>2, <3>1
    <2> QED
      BY <2>1, <2>2, Zenon
  <1> QED
    BY <1>4, <1>5, <1>10, Zenon DEF n

LEMMA FlattenType ==
  ASSUME NEW S, NEW t \in Seq(Seq(S))
  PROVE  FlattenSeq(t) \in Seq(S)
  <1>1. PICK f \in [0 .. Len(t) -> Seq(S)] : f[Len(t)] = FlattenSeq(t)
    BY FlattenSteps, Zenon
  <1>2. Len(t) \in 0 .. Len(t)
    OBVIOUS
  <1> QED
    BY <1>1, <1>2, Zenon

(* The elements of FlattenSeq(s) are those of the sequences in s; if these *)
(* have no duplicates and share none, it has none.                         *)
Has(u, x) == \E p \in DOMAIN u : u[p] = x

LEMMA FlattenElements ==
  ASSUME NEW S, NEW t \in Seq(Seq(S))
  PROVE  \A x : Has(FlattenSeq(t), x) <=> \E i \in DOMAIN t : Has(t[i], x)
  <1>0. ASSUME NEW u \in Seq(S), NEW v \in Seq(S), NEW x
        PROVE  Has(u \o v, x) <=> Has(u, x) \/ Has(v, x)
    <2> USE DEF Has
    <2>1. Len(u \o v) = Len(u) + Len(v) /\ u \o v \in Seq(S)
          /\ (\A p \in 1 .. Len(u) : (u \o v)[p] = u[p])
          /\ (\A p \in 1 .. Len(v) : (u \o v)[Len(u) + p] = v[p])
      OBVIOUS
    <2> DEFINE w == u \o v
    <2> HIDE DEF w
    <2>2. Has(w, x) => Has(u, x) \/ Has(v, x)
      <3> SUFFICES ASSUME NEW p \in 1 .. Len(w), w[p] = x PROVE Has(u, x) \/ Has(v, x)
        BY <2>1 DEF w
      <3>1. CASE p <= Len(u)
        BY <2>1, <3>1 DEF w
      <3>2. CASE p > Len(u)
        <4>1. p - Len(u) \in 1 .. Len(v) /\ w[Len(u) + (p - Len(u))] = v[p - Len(u)]
          BY <2>1, <3>2 DEF w
        <4> QED
          BY <4>1
      <3> QED
        BY <3>1, <3>2
    <2>3. Has(u, x) => Has(w, x)
      <3> SUFFICES ASSUME NEW p \in 1 .. Len(u), u[p] = x PROVE Has(w, x)
        OBVIOUS
      <3>1. p \in DOMAIN w /\ w[p] = x
        BY <2>1 DEF w
      <3> QED
        BY <3>1, Zenon
    <2>4. Has(v, x) => Has(w, x)
      <3> SUFFICES ASSUME NEW p \in 1 .. Len(v), v[p] = x PROVE Has(w, x)
        OBVIOUS
      <3>1. Len(u) + p \in DOMAIN w /\ w[Len(u) + p] = x
        BY <2>1 DEF w
      <3> QED
        BY <3>1, Zenon
    <2> QED
      BY <2>2, <2>3, <2>4, Zenon DEF w
  <1>1. PICK f \in [0 .. Len(t) -> Seq(S)] :
               /\ f[0] = << >>
               /\ \A k \in 1 .. Len(t) : f[k] = f[k - 1] \o t[k]
               /\ f[Len(t)] = FlattenSeq(t)
    BY FlattenSteps, Zenon
  <1> DEFINE P == {k \in 0 .. Len(t) :
                     \A x : Has(f[k], x) <=> \E i \in 1 .. k : Has(t[i], x)}
  <1>2. 0 \in P
    <2>1. \A x : ~ Has(f[0], x)
      BY <1>1 DEF Has
    <2> QED
      BY <2>1
  <1>3. ASSUME NEW k \in 0 .. Len(t), k # Len(t), k \in P PROVE k + 1 \in P
    <2>1. k + 1 \in 1 .. Len(t) /\ (k + 1) - 1 = k /\ k + 1 \in 0 .. Len(t)
          /\ 1 .. k + 1 = (1 .. k) \union {k + 1}
      BY <1>3
    <2>a. t[k + 1] \in Seq(S)
      BY <2>1, ElementType, Zenon
    <2>b. f[k] \in Seq(S)
      BY <1>1, Zenon
    <2>2. f[k + 1] = f[k] \o t[k + 1] /\ f[k] \in Seq(S) /\ t[k + 1] \in Seq(S)
      BY <1>1, <2>1, <2>a, <2>b, Zenon
    <2>3. \A x : Has(f[k + 1], x) <=> Has(f[k], x) \/ Has(t[k + 1], x)
      BY <1>0, <2>2
    <2>4. \A x : Has(f[k], x) <=> \E i \in 1 .. k : Has(t[i], x)
      BY <1>3, Zenon
    <2>5. \A x : Has(f[k + 1], x) <=> \E i \in 1 .. k + 1 : Has(t[i], x)
      BY <2>1, <2>3, <2>4, Zenon
    <2> QED
      BY <2>1, <2>5, Zenon
  <1> HIDE DEF P
  <1>4. \A k \in 0 .. Len(t) : k \in P
    <2>1. Len(t) \in Nat
      OBVIOUS
    <2> QED
      BY <1>2, <1>3, <2>1, IntervalInduction, Zenon
  <1>5. Len(t) \in P /\ DOMAIN t = 1 .. Len(t)
    BY <1>4
  <1> QED
    BY <1>1, <1>5, Zenon DEF P

LEMMA FlattenInjective ==
  ASSUME NEW S, NEW t \in Seq(Seq(S)),
         \A i \in DOMAIN t : \A p, q \in DOMAIN t[i] : t[i][p] = t[i][q] => p = q,
         \A i, j \in DOMAIN t : \A p \in DOMAIN t[i] : \A q \in DOMAIN t[j] :
             t[i][p] = t[j][q] => i = j
  PROVE  \A p, q \in DOMAIN FlattenSeq(t) : FlattenSeq(t)[p] = FlattenSeq(t)[q] => p = q
  <1> DEFINE Inj(u) == \A p, q \in DOMAIN u : u[p] = u[q] => p = q
             Apart(u, v) == \A p \in DOMAIN u : \A q \in DOMAIN v : u[p] # v[q]
  <1>0. ASSUME NEW u \in Seq(S), NEW v \in Seq(S), Inj(u), Inj(v), Apart(u, v)
        PROVE  Inj(u \o v)
    <2>1. Len(u \o v) = Len(u) + Len(v) /\ u \o v \in Seq(S)
          /\ (\A p \in 1 .. Len(u) : (u \o v)[p] = u[p])
          /\ (\A p \in 1 .. Len(u) + Len(v) : p > Len(u) =>
                 (u \o v)[p] = v[p - Len(u)] /\ p - Len(u) \in 1 .. Len(v))
      OBVIOUS
    <2> DEFINE w == u \o v
    <2> HIDE DEF w
    <2>2. SUFFICES ASSUME NEW p \in 1 .. Len(w), NEW q \in 1 .. Len(w), w[p] = w[q]
                   PROVE  p = q
      BY <2>1 DEF w
    <2>3. Len(w) = Len(u) + Len(v)
      BY <2>1, Zenon DEF w
    <2>4. CASE p <= Len(u) /\ q <= Len(u)
      BY <1>0, <2>1, <2>2, <2>4 DEF w
    <2>5. CASE p > Len(u) /\ q > Len(u)
      <3>1. p - Len(u) \in 1 .. Len(v) /\ q - Len(u) \in 1 .. Len(v)
            /\ v[p - Len(u)] = v[q - Len(u)]
        BY <2>1, <2>2, <2>3, <2>5, Zenon DEF w
      <3>2. p - Len(u) = q - Len(u)
        BY <1>0, <3>1
      <3> QED
        BY <3>2
    <2>6. CASE p <= Len(u) /\ q > Len(u)
      <3>1. p \in 1 .. Len(u) /\ q - Len(u) \in 1 .. Len(v) /\ u[p] = v[q - Len(u)]
        BY <2>1, <2>2, <2>3, <2>6 DEF w
      <3> QED
        BY <1>0, <3>1
    <2>7. CASE p > Len(u) /\ q <= Len(u)
      <3>1. q \in 1 .. Len(u) /\ p - Len(u) \in 1 .. Len(v) /\ u[q] = v[p - Len(u)]
        BY <2>1, <2>2, <2>3, <2>7 DEF w
      <3> QED
        BY <1>0, <3>1
    <2> QED
      BY <2>4, <2>5, <2>6, <2>7
  <1>1. PICK f \in [0 .. Len(t) -> Seq(S)] :
               /\ f[0] = << >>
               /\ \A k \in 1 .. Len(t) : f[k] = f[k - 1] \o t[k]
               /\ f[Len(t)] = FlattenSeq(t)
    BY FlattenSteps, Zenon
  <1>2. (\A i \in 1 .. Len(t) : Inj(t[i]))
        /\ \A i, j \in 1 .. Len(t) : i # j => Apart(t[i], t[j])
    OBVIOUS
  <1> DEFINE P == {k \in 0 .. Len(t) :
                     Inj(f[k]) /\ \A j \in k + 1 .. Len(t) : Apart(f[k], t[j])}
  <1>3. 0 \in P
    BY <1>1
  <1> HIDE DEF Inj, Apart
  <1>4. ASSUME NEW k \in 0 .. Len(t), k # Len(t), k \in P PROVE k + 1 \in P
    <2>1. k + 1 \in 1 .. Len(t) /\ (k + 1) - 1 = k /\ k + 1 \in 0 .. Len(t)
      BY <1>4
    <2>a. t[k + 1] \in Seq(S)
      BY <2>1, ElementType, Zenon
    <2>b. f[k] \in Seq(S)
      BY <1>1, Zenon
    <2>2. f[k + 1] = f[k] \o t[k + 1] /\ f[k] \in Seq(S) /\ t[k + 1] \in Seq(S)
      BY <1>1, <2>1, <2>a, <2>b, Zenon
    <2>3. Inj(f[k]) /\ Inj(t[k + 1]) /\ Apart(f[k], t[k + 1])
      BY <1>2, <1>4, <2>1
    <2>4. Inj(f[k + 1])
      BY <1>0, <2>2, <2>3
    <2>5. ASSUME NEW j \in (k + 1) + 1 .. Len(t) PROVE Apart(f[k + 1], t[j])
      <3>1. j \in 1 .. Len(t) /\ j # k + 1 /\ j \in k + 1 .. Len(t)
        BY <1>4
      <3>2. Apart(f[k], t[j]) /\ Apart(t[k + 1], t[j])
        BY <1>2, <1>4, <2>1, <3>1, Zenon
      <3>3. \A p \in DOMAIN (f[k] \o t[k + 1]) :
               \/ p \in DOMAIN f[k] /\ (f[k] \o t[k + 1])[p] = f[k][p]
               \/ p - Len(f[k]) \in DOMAIN t[k + 1]
                  /\ (f[k] \o t[k + 1])[p] = t[k + 1][p - Len(f[k])]
        <4>1. PICK u, v : u = f[k] /\ v = t[k + 1]
          BY Zenon
        <4>2. u \in Seq(S) /\ v \in Seq(S)
          BY <2>2, <4>1, Zenon
        <4>3. \A p \in DOMAIN (u \o v) :
                 \/ p \in DOMAIN u /\ (u \o v)[p] = u[p]
                 \/ p - Len(u) \in DOMAIN v /\ (u \o v)[p] = v[p - Len(u)]
          BY <4>2
        <4> QED
          BY <4>1, <4>3, Zenon
      <3>4. SUFFICES ASSUME NEW p \in DOMAIN f[k + 1], NEW q \in DOMAIN t[j]
                     PROVE  f[k + 1][p] # t[j][q]
        BY Zenon DEF Apart
      <3>5. \/ p \in DOMAIN f[k] /\ f[k + 1][p] = f[k][p]
            \/ p - Len(f[k]) \in DOMAIN t[k + 1]
               /\ f[k + 1][p] = t[k + 1][p - Len(f[k])]
        BY <2>2, <3>3, Zenon
      <3> QED
        BY <3>2, <3>5, Zenon DEF Apart
    <2> QED
      BY <2>1, <2>4, <2>5, Zenon
  <1> HIDE DEF P
  <1>5. \A k \in 0 .. Len(t) : k \in P
    <2>1. Len(t) \in Nat
      OBVIOUS
    <2> QED
      BY <1>3, <1>4, <2>1, IntervalInduction, Zenon
  <1>6. Inj(FlattenSeq(t))
    BY <1>1, <1>5 DEF P
  <1> QED
    BY <1>6, Zenon DEF Inj

(* An element put before a sequence.                                       *)
LEMMA PutBefore ==
  ASSUME NEW S, NEW u \in Seq(S), NEW k \in S
  PROVE  LET w == <<k>> \o u
         IN /\ w \in Seq(S)
            /\ Len(w) = Len(u) + 1
            /\ w[1] = k
            /\ \A p \in 1 .. Len(u) : w[p + 1] = u[p]
  OBVIOUS

LEMMA PutBeforeElements ==
  ASSUME NEW S, NEW u \in Seq(S), NEW k \in S
  PROVE  \A x : x \in Range(<<k>> \o u) <=> x = k \/ x \in Range(u)
  <1> DEFINE w == <<k>> \o u
  <1>1. w \in Seq(S) /\ Len(w) = Len(u) + 1 /\ w[1] = k
        /\ \A p \in 1 .. Len(u) : w[p + 1] = u[p]
    BY PutBefore
  <1> HIDE DEF w
  <1>2. ASSUME NEW x PROVE x \in Range(w) <=> x = k \/ x \in Range(u)
    <2>1. ASSUME x \in Range(w), x # k PROVE x \in Range(u)
      <3>1. PICK q \in 1 .. Len(w) : w[q] = x
        BY <1>1, <2>1 DEF Range
      <3>2. q - 1 \in 1 .. Len(u) /\ w[(q - 1) + 1] = u[q - 1]
        BY <1>1, <2>1, <3>1
      <3> QED
        BY <3>1, <3>2 DEF Range
    <2>2. k \in Range(w)
      BY <1>1 DEF Range
    <2>3. ASSUME x \in Range(u) PROVE x \in Range(w)
      <3>1. PICK p \in 1 .. Len(u) : u[p] = x
        BY <2>3 DEF Range
      <3>2. p + 1 \in DOMAIN w /\ w[p + 1] = x
        BY <1>1, <3>1
      <3> QED
        BY <3>2, Zenon DEF Range
    <2> QED
      BY <2>1, <2>2, <2>3, Zenon
  <1> QED
    BY <1>2, Zenon DEF w

LEMMA PutBeforeInjective ==
  ASSUME NEW S, NEW u \in Seq(S), NEW k \in S, IsInjective(u), k \notin Range(u)
  PROVE  IsInjective(<<k>> \o u)
  <1> DEFINE w == <<k>> \o u
  <1>1. w \in Seq(S) /\ Len(w) = Len(u) + 1 /\ w[1] = k
        /\ \A p \in 1 .. Len(u) : w[p + 1] = u[p]
    BY PutBefore
  <1> HIDE DEF w
  <1>2. ASSUME NEW q \in 2 .. Len(w) PROVE q - 1 \in 1 .. Len(u) /\ w[q] = u[q - 1]
    <2>1. q - 1 \in 1 .. Len(u) /\ w[(q - 1) + 1] = u[q - 1]
      BY <1>1
    <2> QED
      BY <2>1
  <1>3. \A q \in 2 .. Len(w) : w[q] # k
    BY <1>2 DEF Range
  <1>4. \A p, q \in 2 .. Len(w) : w[p] = w[q] => p = q
    BY <1>2 DEF IsInjective
  <1>5. \A p \in DOMAIN w : p = 1 \/ p \in 2 .. Len(w)
    BY <1>1
  <1>6. IsInjective(w)
    BY <1>1, <1>3, <1>4, <1>5, Zenon DEF IsInjective
  <1> QED
    BY <1>6, Zenon DEF w

-----------------------------------------------------------------------------
(* Bernstein's hash is a number, and a bucket of a table.                  *)
LEMMA HashIsNat ==
  ASSUME NEW key \in Key
  PROVE  dictGenHashFunction(key) \in Nat
  <1> DEFINE n == Len(key)
             step == [i \in 1 .. n |-> [v \in Nat |-> (v * 33 + key[i]) % 2^24]]
  <1>1. key \in Seq(0 .. 255) /\ n \in Nat
    BY DictAssumption
  <1>2. ASSUME NEW v \in Nat, NEW i \in 1 .. n PROVE (v * 33 + key[i]) % 2^24 \in Nat
    <2>1. key[i] \in 0 .. 255
      BY <1>1, ElementType, Zenon
    <2> DEFINE b == key[i]
    <2> HIDE DEF b
    <2>a. b \in 0 .. 255
      BY <2>1, Zenon DEF b
    <2>b. v * 33 + b \in Nat /\ 2^24 \in Nat \ {0}
      BY <2>a
    <2>2. v * 33 + key[i] \in Nat /\ 2^24 \in Nat \ {0}
      BY <2>b, Zenon DEF b
    <2> DEFINE x == v * 33 + key[i]
               y == 2^24
    <2> HIDE DEF x, y
    <2>3. x \in Nat /\ y \in Nat \ {0}
      BY <2>2, Zenon DEF x, y
    <2>4. x % y \in Nat
      BY <2>3
    <2> QED
      BY <2>4, Zenon DEF x, y
  <1>3. step \in [1 .. n -> [Nat -> Nat]]
    BY <1>2
  <1>4. PICK f : Recurses(f, Nat, 5381, n, step)
    <2> DEFINE c == 5381
    <2>1. c \in Nat
      OBVIOUS
    <2> HIDE DEF step, n, c
    <2>2. \E f : Recurses(f, Nat, c, n, step)
      BY <1>1, <1>3, <2>1, Recursion, Zenon
    <2> QED
      BY <2>2, Zenon DEF c
  <1> DEFINE F(g) == [i \in 0 .. n |->
                        IF i = 0 THEN 5381 ELSE (g[i - 1] * 33 + key[i]) % 2^24]
  <1>5. f = F(f)
    <2>1. ASSUME NEW i \in 1 .. n PROVE f[i] = (f[i - 1] * 33 + key[i]) % 2^24
      <3>1. f[i] = step[i][f[i - 1]] /\ f[i - 1] \in Nat
        <4> HIDE DEF step, n
        <4> QED
          BY <1>1, <1>4 DEF Recurses
      <3> QED
        BY <3>1, ZenonT(30)
    <2>2. \A i \in 0 .. n : f[i] = F(f)[i]
      BY <1>1, <1>4, <2>1 DEF Recurses
    <2> QED
      BY <1>4, <2>2 DEF Recurses
  <1> DEFINE hash == CHOOSE g : g = F(g)
  <1>6. hash = F(hash)
    <2> HIDE DEF F
    <2> QED
      BY <1>5, Zenon
  <1>7. dictGenHashFunction(key) = hash[n]
    BY ZenonT(30) DEF dictGenHashFunction
  <1> HIDE DEF hash
  <1> DEFINE P == {k \in 0 .. n : hash[k] \in Nat}
  <1>8. 0 \in P
    BY <1>1, <1>6
  <1>9. ASSUME NEW k \in 0 .. n, k # n, k \in P PROVE k + 1 \in P
    <2>1. k + 1 \in 1 .. n /\ hash[k + 1] = (hash[k] * 33 + key[k + 1]) % 2^24
      BY <1>1, <1>6, <1>9
    <2> QED
      BY <1>2, <1>9, <2>1
  <1> HIDE DEF P, n
  <1>10. \A k \in 0 .. n : k \in P
    BY <1>1, <1>8, <1>9, IntervalInduction, Zenon
  <1> QED
    BY <1>1, <1>7, <1>10 DEF P

LEMMA HashIsBucket ==
  ASSUME NEW key \in Key, NEW size \in Nat \ {0}
  PROVE  dictHash(key, size) \in 0 .. size - 1
  BY HashIsNat DEF dictHash

(* Doubling from the initial size.                                         *)
LEMMA DoubledIs ==
  ASSUME NEW n \in Nat
  PROVE  /\ Doubled(n) \in [0 .. n -> Nat]
         /\ Doubled(n)[0] = DICT_HT_INITIAL_SIZE
         /\ \A k \in 1 .. n : Doubled(n)[k] = 2 * Doubled(n)[k - 1]
  <1> DEFINE c == DICT_HT_INITIAL_SIZE
             step == [k \in 1 .. n |-> [v \in Nat |-> 2 * v]]
             F(g) == [k \in 0 .. n |-> IF k = 0 THEN c ELSE 2 * g[k - 1]]
             i == CHOOSE g : g = F(g)
  <1>0. c \in Nat
    BY DictAssumption, Zenon
  <1>1. step \in [1 .. n -> [Nat -> Nat]]
    OBVIOUS
  <1>2. Doubled(n) = i
    BY Zenon DEF Doubled
  <1>3. PICK f : Recurses(f, Nat, c, n, step)
    <2> HIDE DEF step, c
    <2> QED
      BY <1>0, <1>1, Recursion, Zenon
  <1>4. f = F(f)
    <2>1. ASSUME NEW k \in 1 .. n PROVE f[k] = 2 * f[k - 1]
      <3>1. f[k - 1] \in Nat
        BY <1>3 DEF Recurses
      <3>2. f[k] = step[k][f[k - 1]]
        BY <1>3, Zenon DEF Recurses
      <3> QED
        BY <3>1, <3>2, Zenon
    <2> HIDE DEF c
    <2>2. \A k \in 0 .. n : f[k] = F(f)[k]
      BY <1>3, <2>1 DEF Recurses
    <2> QED
      BY <1>3, <2>2, Zenon DEF Recurses
  <1>5. i = F(i)
    <2> HIDE DEF F
    <2> QED
      BY <1>4, Zenon
  <1> HIDE DEF i, c
  <1>6. DOMAIN i = 0 .. n /\ i[0] = c /\ \A k \in 1 .. n : i[k] = 2 * i[k - 1]
    BY <1>5
  <1> DEFINE P == {k \in 0 .. n : i[k] \in Nat}
  <1>7. 0 \in P
    BY <1>0, <1>6
  <1>8. ASSUME NEW k \in 0 .. n, k # n, k \in P PROVE k + 1 \in P
    BY <1>6, <1>8
  <1> HIDE DEF P
  <1>9. \A k \in 0 .. n : k \in P
    BY <1>7, <1>8, IntervalInduction, Zenon
  <1>10. i \in [0 .. n -> Nat]
    BY <1>5, <1>9, Zenon DEF P
  <1> QED
    BY <1>2, <1>6, <1>10, Zenon DEF c

(* k rounds give more than k, and the same however many follow.            *)
LEMMA DoubledGrows ==
  ASSUME NEW n \in Nat
  PROVE  \A k \in 0 .. n : Doubled(n)[k] > k
  <1> DEFINE i == Doubled(n)
             P == {k \in 0 .. n : i[k] > k}
  <1>1. i \in [0 .. n -> Nat] /\ i[0] > 0 /\ \A k \in 1 .. n : i[k] = 2 * i[k - 1]
    <2>1. /\ i \in [0 .. n -> Nat]
          /\ i[0] = DICT_HT_INITIAL_SIZE
          /\ \A k \in 1 .. n : i[k] = 2 * i[k - 1]
      BY DoubledIs, Zenon
    <2>2. i[0] > 0
      BY <2>1, DictAssumption
    <2> QED
      BY <2>1, <2>2, Zenon
  <1> HIDE DEF i
  <1>2. 0 \in P
    BY <1>1
  <1>3. ASSUME NEW k \in 0 .. n, k # n, k \in P PROVE k + 1 \in P
    <2>1. i[k + 1] = 2 * i[k] /\ i[k] \in Nat /\ i[k] > k
      BY <1>1, <1>3
    <2> QED
      BY <1>3, <2>1
  <1> HIDE DEF P
  <1>4. \A k \in 0 .. n : k \in P
    BY <1>2, <1>3, IntervalInduction, Zenon
  <1> QED
    BY <1>4, Zenon DEF P, i

LEMMA DoubledSame ==
  ASSUME NEW n \in Nat, NEW m \in Nat, n <= m
  PROVE  \A k \in 0 .. n : Doubled(n)[k] = Doubled(m)[k]
  <1> DEFINE P == {k \in 0 .. n : Doubled(n)[k] = Doubled(m)[k]}
  <1>0. /\ Doubled(n)[0] = Doubled(m)[0]
        /\ \A k \in 1 .. n : Doubled(n)[k] = 2 * Doubled(n)[k - 1]
        /\ \A k \in 1 .. n : Doubled(m)[k] = 2 * Doubled(m)[k - 1]
    <2>1. /\ Doubled(n)[0] = DICT_HT_INITIAL_SIZE
          /\ \A k \in 1 .. n : Doubled(n)[k] = 2 * Doubled(n)[k - 1]
      BY DoubledIs, Zenon
    <2>2. /\ Doubled(m)[0] = DICT_HT_INITIAL_SIZE
          /\ \A k \in 1 .. m : Doubled(m)[k] = 2 * Doubled(m)[k - 1]
      BY DoubledIs, Zenon
    <2> QED
      BY <2>1, <2>2
  <1>1. 0 \in P
    BY <1>0
  <1>2. ASSUME NEW k \in 0 .. n, k # n, k \in P PROVE k + 1 \in P
    BY <1>0, <1>2
  <1> HIDE DEF P
  <1>3. \A k \in 0 .. n : k \in P
    BY <1>1, <1>2, IntervalInduction, Zenon
  <1> QED
    BY <1>3, Zenon DEF P

(* The sizes a table may have.                                             *)
Sizes == {s \in Nat : \E k \in 0 .. s : s = Doubled(s)[k]}

LEMMA NextPower ==
  ASSUME NEW size \in Nat \ {0}
  PROVE  dictNextPower(size) \in Sizes /\ dictNextPower(size) >= size
  <1> DEFINE i == Doubled(size)
             Q(k) == k \in 0 .. size /\ i[k] >= size
             S == {k \in Nat : Q(k)}
  <1>1. i \in [0 .. size -> Nat] /\ i[size] > size
    BY DoubledIs, DoubledGrows
  <1> HIDE DEF i
  <1>2. size \in S
    BY <1>1
  <1>3. PICK k \in S : \A j \in S : k <= j
    BY <1>2, Least, Zenon
  <1>4. k \in 0 .. size /\ i[k] >= size /\ \A j \in 0 .. k - 1 : i[j] < size
    BY <1>1, <1>3
  <1> DEFINE c == CHOOSE q \in 0 .. size : i[q] >= size /\ \A j \in 0 .. q - 1 : i[j] < size
  <1>5. c \in 0 .. size /\ i[c] >= size
    BY <1>4, Zenon
  <1>6. dictNextPower(size) = i[c]
    BY Zenon DEF dictNextPower, i
  <1> HIDE DEF c
  <1> DEFINE r == i[c]
  <1>7. r \in Nat /\ r >= size
    BY <1>1, <1>5, Zenon
  <1> HIDE DEF r
  <1>8. c \in 0 .. r /\ Doubled(r)[c] = i[c]
    BY <1>5, <1>7, DoubledSame DEF i
  <1>9. r \in Sizes
    BY <1>7, <1>8, Zenon DEF Sizes, r
  <1> QED
    BY <1>6, <1>7, <1>9, Zenon DEF r

(* Entries without duplicates, each in the bucket of its hash.             *)
Placed(table, size) ==
  /\ table \in [0 .. size - 1 -> Seq(Key)]
  /\ \A h \in 0 .. size - 1 :
       /\ IsInjective(table[h])
       /\ \A x \in Range(table[h]) : dictHash(x, size) = h

Holds(table, size, x) == \E h \in 0 .. size - 1 : x \in Range(table[h])

LEMMA EmptyPlaced ==
  ASSUME NEW size \in Nat
  PROVE  LET table == [h \in 0 .. size - 1 |-> << >>]
         IN Placed(table, size) /\ \A x : ~ Holds(table, size, x)
  <1>1. << >> \in Seq(Key) /\ IsInjective(<< >>) /\ \A x : x \notin Range(<< >>)
    BY DEF IsInjective, Range
  <1> QED
    BY <1>1, Zenon DEF Placed, Holds

LEMMA HoldsInBucket ==
  ASSUME NEW size \in Nat \ {0}, NEW table, Placed(table, size), NEW k \in Key
  PROVE  Holds(table, size, k) <=> k \in Range(table[dictHash(k, size)])
  BY HashIsBucket, Zenon DEF Placed, Holds

LEMMA PushIs ==
  ASSUME NEW size \in Nat \ {0}, NEW table, table \in [0 .. size - 1 -> Seq(Key)],
         NEW k \in Key
  PROVE  /\ Push(table, k, size) \in [0 .. size - 1 -> Seq(Key)]
         /\ Push(table, k, size)[dictHash(k, size)] = <<k>> \o table[dictHash(k, size)]
         /\ \A h \in 0 .. size - 1 :
              h # dictHash(k, size) => Push(table, k, size)[h] = table[h]
  <1> DEFINE b == dictHash(k, size)
  <1>1. b \in 0 .. size - 1
    BY HashIsBucket, Zenon
  <1> HIDE DEF b
  <1>2. <<k>> \o table[b] \in Seq(Key)
    BY <1>1, PutBefore, Zenon
  <1>3. Push(table, k, size) = [table EXCEPT ![b] = <<k>> \o table[b]]
    BY Zenon DEF Push, b
  <1> DEFINE w == <<k>> \o table[b]
  <1> HIDE DEF w
  <1>4. w \in Seq(Key) /\ Push(table, k, size) = [table EXCEPT ![b] = w]
    BY <1>2, <1>3, Zenon DEF w
  <1>5. /\ Push(table, k, size) \in [0 .. size - 1 -> Seq(Key)]
        /\ Push(table, k, size)[b] = w
        /\ \A h \in 0 .. size - 1 : h # b => Push(table, k, size)[h] = table[h]
    BY <1>1, <1>4, Zenon
  <1> QED
    BY <1>5, Zenon DEF w, b

LEMMA PushPlaced ==
  ASSUME NEW size \in Nat \ {0}, NEW table, Placed(table, size), NEW k \in Key,
         ~ Holds(table, size, k)
  PROVE  /\ Placed(Push(table, k, size), size)
         /\ \A x : Holds(Push(table, k, size), size, x)
                   <=> x = k \/ Holds(table, size, x)
  <1> DEFINE b == dictHash(k, size)
             t == Push(table, k, size)
             w == <<k>> \o table[b]
  <1>0. b \in 0 .. size - 1
    BY HashIsBucket, Zenon
  <1>1. /\ t \in [0 .. size - 1 -> Seq(Key)]
        /\ t[b] = w
        /\ \A h \in 0 .. size - 1 : h # b => t[h] = table[h]
    BY PushIs, Zenon DEF Placed
  <1>2. table[b] \in Seq(Key) /\ IsInjective(table[b]) /\ k \notin Range(table[b])
    BY <1>0, Zenon DEF Placed, Holds
  <1>3. (\A x : x \in Range(w) <=> x = k \/ x \in Range(table[b])) /\ IsInjective(w)
    BY <1>2, PutBeforeElements, PutBeforeInjective, Zenon
  <1>4. dictHash(k, size) = b
    BY Zenon
  <1> HIDE DEF b, t, w
  <1>5. ASSUME NEW h \in 0 .. size - 1
        PROVE  IsInjective(t[h]) /\ \A x \in Range(t[h]) : dictHash(x, size) = h
    BY <1>0, <1>1, <1>3, <1>4, Zenon DEF Placed
  <1>6. Placed(t, size)
    BY <1>1, <1>5, Zenon DEF Placed
  <1>7. \A x : Holds(t, size, x) <=> x = k \/ Holds(table, size, x)
    BY <1>0, <1>1, <1>3, Zenon DEF Holds
  <1> QED
    BY <1>6, <1>7, Zenon DEF t

LEMMA KeysHeld ==
  ASSUME NEW ht
  PROVE  \A x : x \in DictKeys(ht) <=> Holds(ht.table, ht.size, x)
  BY Zenon DEF DictKeys, Buckets, Holds

(* The entries in the order of the table: each once.                       *)
LEMMA InOrderIs ==
  ASSUME NEW ht, ht.size \in Nat, Placed(ht.table, ht.size)
  PROVE  /\ InOrder(ht) \in Seq(Key)
         /\ IsInjective(InOrder(ht))
         /\ \A x : Has(InOrder(ht), x) <=> Holds(ht.table, ht.size, x)
  <1> DEFINE size == ht.size
             table == ht.table
             t == [i \in 1 .. size |-> table[i - 1]]
  <1>0. size \in Nat /\ Placed(table, size) /\ InOrder(ht) = FlattenSeq(t)
    BY Zenon DEF InOrder
  <1> HIDE DEF size, table
  <1>1. /\ \A i \in 1 .. size : t[i] = table[i - 1] /\ t[i] \in Seq(Key) /\ i - 1 \in 0 .. size - 1
        /\ DOMAIN t = 1 .. size
    BY <1>0 DEF Placed
  <1>2. t \in Seq(Seq(Key))
    BY <1>0, <1>1, FunctionIsSeq, Zenon
  <1> HIDE DEF t
  <1>3. \A i \in DOMAIN t : \A p, q \in DOMAIN t[i] : t[i][p] = t[i][q] => p = q
    <2>1. \A i \in DOMAIN t : IsInjective(t[i])
      BY <1>0, <1>1, Zenon DEF Placed
    <2> QED
      BY <2>1, Zenon DEF IsInjective
  <1>4. ASSUME NEW i \in DOMAIN t, NEW j \in DOMAIN t,
               NEW p \in DOMAIN t[i], NEW q \in DOMAIN t[j], t[i][p] = t[j][q]
        PROVE  i = j
    <2>1. t[i][p] \in Range(table[i - 1]) /\ t[j][q] \in Range(table[j - 1])
      BY <1>1, Zenon DEF Range
    <2>2. dictHash(t[i][p], size) = i - 1 /\ dictHash(t[j][q], size) = j - 1
      BY <1>0, <1>1, <2>1, Zenon DEF Placed
    <2>3. i - 1 = j - 1 /\ i \in Nat /\ j \in Nat
      BY <1>0, <1>1, <1>4, <2>2
    <2> QED
      BY <2>3
  <1>5. FlattenSeq(t) \in Seq(Key)
    BY <1>2, FlattenType, Zenon
  <1>6. IsInjective(FlattenSeq(t))
    BY <1>2, <1>3, <1>4, FlattenInjective, Zenon DEF IsInjective
  <1>7. \A x : Has(FlattenSeq(t), x) <=> \E i \in DOMAIN t : Has(t[i], x)
    BY <1>2, FlattenElements, Zenon
  <1>8. ASSUME NEW x PROVE (\E i \in DOMAIN t : Has(t[i], x)) <=> Holds(table, size, x)
    <2>1. \A i \in 1 .. size : Has(t[i], x) <=> x \in Range(table[i - 1])
      BY <1>1, Zenon DEF Has, Range
    <2>2. \A h \in 0 .. size - 1 : h + 1 \in 1 .. size /\ (h + 1) - 1 = h
      BY <1>0
    <2> QED
      BY <1>1, <2>1, <2>2, Zenon DEF Holds
  <1> QED
    BY <1>0, <1>5, <1>6, <1>7, <1>8, Zenon DEF size, table

(***************************************************************************)
(* dictExpand: pushing the entries one by one places them all.             *)
(***************************************************************************)
LEMMA ExpandTable ==
  ASSUME NEW r \in Nat \ {0}, NEW he \in Seq(Key), IsInjective(he), NEW g,
         g = [j \in 0 .. Len(he) |->
                IF j = 0 THEN [h \in 0 .. r - 1 |-> << >>] ELSE Push(g[j - 1], he[j], r)]
  PROVE  /\ Placed(g[Len(he)], r)
         /\ \A x : Holds(g[Len(he)], r, x) <=> Has(he, x)
  <1> DEFINE n == Len(he)
             empty == [h \in 0 .. r - 1 |-> << >>]
             Upto(j, x) == \E q \in 1 .. j : he[q] = x
             P == {j \in 0 .. n : Placed(g[j], r) /\ \A x : Holds(g[j], r, x) <=> Upto(j, x)}
  <1>0. n \in Nat /\ DOMAIN he = 1 .. n /\ \A j \in 1 .. n : he[j] \in Key
    OBVIOUS
  <1>1. Placed(empty, r) /\ \A x : ~ Holds(empty, r, x)
    BY EmptyPlaced, Zenon
  <1> HIDE DEF empty
  <1>2. g[0] = empty /\ \A j \in 1 .. n : g[j] = Push(g[j - 1], he[j], r)
    BY <1>0 DEF empty
  <1> HIDE DEF n
  <1>3. 0 \in P
    <2>1. \A x : ~ Upto(0, x)
      OBVIOUS
    <2> HIDE DEF Upto
    <2>2. 0 \in 0 .. n
      BY <1>0
    <2>3. Placed(g[0], r) /\ \A x : Holds(g[0], r, x) <=> Upto(0, x)
      BY <1>1, <1>2, <2>1, Zenon
    <2> QED
      BY <2>2, <2>3, Zenon
  <1>4. ASSUME NEW j \in 0 .. n, j # n, j \in P PROVE j + 1 \in P
    <2>1. j + 1 \in 1 .. n /\ (j + 1) - 1 = j /\ he[j + 1] \in Key
      BY <1>0, <1>4
    <2>2. g[j + 1] = Push(g[j], he[j + 1], r)
      BY <1>2, <2>1, Zenon
    <2>3. ~ Upto(j, he[j + 1])
      BY <1>0, <2>1 DEF IsInjective
    <2>4. \A x : Upto(j + 1, x) <=> x = he[j + 1] \/ Upto(j, x)
      <3>1. \A q \in 1 .. j + 1 : q = j + 1 \/ q \in 1 .. j
        BY <1>4
      <3>2. \A q \in 1 .. j : q \in 1 .. j + 1
        BY <1>4
      <3>3. j + 1 \in 1 .. j + 1
        BY <1>4
      <3> QED
        BY <3>1, <3>2, <3>3, Zenon
    <2> HIDE DEF Upto
    <2>5. Placed(g[j], r) /\ \A x : Holds(g[j], r, x) <=> Upto(j, x)
      BY <1>4, Zenon
    <2>6. /\ Placed(g[j + 1], r)
          /\ \A x : Holds(g[j + 1], r, x) <=> x = he[j + 1] \/ Holds(g[j], r, x)
      <3> DEFINE k == he[j + 1]
                 t == g[j]
      <3> HIDE DEF k, t
      <3>1. k \in Key /\ Placed(t, r) /\ ~ Holds(t, r, k)
        BY <2>1, <2>3, <2>5, Zenon DEF k, t
      <3>2. /\ Placed(Push(t, k, r), r)
            /\ \A x : Holds(Push(t, k, r), r, x) <=> x = k \/ Holds(t, r, x)
        BY <3>1, PushPlaced, Zenon
      <3> QED
        BY <2>2, <3>2, Zenon DEF k, t
    <2>7. j + 1 \in 0 .. n
      BY <2>1
    <2> QED
      BY <2>4, <2>5, <2>6, <2>7, Zenon
  <1> HIDE DEF P
  <1>5. \A j \in 0 .. n : j \in P
    BY <1>0, <1>3, <1>4, IntervalInduction, Zenon
  <1>6. n \in P
    BY <1>0, <1>5
  <1> QED
    BY <1>0, <1>6, Zenon DEF P, Has, n

LEMMA ExpandTableExists ==
  ASSUME NEW r \in Nat \ {0}, NEW he \in Seq(Key)
  PROVE  \E g : g = [j \in 0 .. Len(he) |->
                IF j = 0 THEN [h \in 0 .. r - 1 |-> << >>] ELSE Push(g[j - 1], he[j], r)]
  <1> DEFINE n == Len(he)
             V == [0 .. r - 1 -> Seq(Key)]
             empty == [h \in 0 .. r - 1 |-> << >>]
             step == [j \in 1 .. n |-> [v \in V |-> Push(v, he[j], r)]]
  <1>0. n \in Nat /\ \A j \in 1 .. n : he[j] \in Key
    OBVIOUS
  <1>1. empty \in V
    OBVIOUS
  <1>2. \A j \in 1 .. n : \A v \in V : Push(v, he[j], r) \in V
    BY <1>0, PushIs, Zenon
  <1> HIDE DEF V, empty, n
  <1>3. step \in [1 .. n -> [V -> V]]
    BY <1>2, Zenon
  <1>4. PICK f : Recurses(f, V, empty, n, step)
    <2> HIDE DEF step
    <2> QED
      BY <1>0, <1>1, <1>3, Recursion, Zenon
  <1>5. ASSUME NEW j \in 1 .. n PROVE f[j] = Push(f[j - 1], he[j], r)
    <2>1. f[j] = step[j][f[j - 1]] /\ f[j - 1] \in V
      <3> HIDE DEF step
      <3> QED
        BY <1>0, <1>4 DEF Recurses
    <2> QED
      BY <2>1, Zenon
  <1>6. f = [j \in 0 .. n |-> IF j = 0 THEN empty ELSE Push(f[j - 1], he[j], r)]
    <2>1. f \in [0 .. n -> V] /\ f[0] = empty
      BY <1>4, Zenon DEF Recurses
    <2>2. \A j \in 0 .. n : f[j] = IF j = 0 THEN empty ELSE Push(f[j - 1], he[j], r)
      BY <1>0, <1>5, <2>1
    <2> QED
      BY <2>1, <2>2, Zenon
  <1> QED
    BY <1>6, Zenon DEF n, empty

LEMMA ExpandIs ==
  ASSUME NEW ht, ht.size \in Nat, Placed(ht.table, ht.size), NEW size \in Nat \ {0}
  PROVE  LET n == dictExpand(ht, size)
         IN /\ n = [size |-> dictNextPower(size), used |-> ht.used, table |-> n.table]
            /\ Placed(n.table, dictNextPower(size))
            /\ \A x : Holds(n.table, dictNextPower(size), x)
                      <=> Holds(ht.table, ht.size, x)
  <1> DEFINE r == dictNextPower(size)
             he == InOrder(ht)
             F(g) == [j \in 0 .. Len(he) |->
                IF j = 0 THEN [h \in 0 .. r - 1 |-> << >>] ELSE Push(g[j - 1], he[j], r)]
             table == CHOOSE g : g = F(g)
             last1 == table[Len(he)]
  <1>1. r \in Nat \ {0}
    BY NextPower DEF Sizes
  <1>2. he \in Seq(Key) /\ IsInjective(he)
        /\ \A x : Has(he, x) <=> Holds(ht.table, ht.size, x)
    BY InOrderIs, Zenon
  <1>3. dictExpand(ht, size) = [size |-> r, used |-> ht.used, table |-> last1]
    BY Zenon DEF dictExpand
  <1> HIDE DEF r, he
  <1>4. \E g : g = F(g)
    BY <1>1, <1>2, ExpandTableExists, Zenon
  <1>5. table = F(table)
    <2> HIDE DEF F
    <2> QED
      BY <1>4, Zenon
  <1> HIDE DEF table
  <1>6. Placed(last1, r) /\ \A x : Holds(last1, r, x) <=> Has(he, x)
    BY <1>1, <1>2, <1>5, ExpandTable, Zenon
  <1> HIDE DEF last1
  <1> DEFINE n == dictExpand(ht, size)
  <1>7. n = [size |-> r, used |-> ht.used, table |-> last1]
    BY <1>3, Zenon
  <1> HIDE DEF n
  <1>8. n.table = last1
    BY <1>7, Zenon
  <1>9. /\ n = [size |-> r, used |-> ht.used, table |-> n.table]
        /\ Placed(n.table, r)
        /\ \A x : Holds(n.table, r, x) <=> Holds(ht.table, ht.size, x)
    BY <1>2, <1>6, <1>7, <1>8, Zenon
  <1> QED
    BY <1>9, Zenon DEF n, r

(***************************************************************************)
(* What is true of every dict: its size is one that doubling gives, its    *)
(* entries are where dictFind looks for them, and used counts them.        *)
(***************************************************************************)
DictOK(ht) ==
  /\ ht = [size |-> ht.size, used |-> ht.used, table |-> ht.table]
  /\ ht.size \in {0} \union Sizes
  /\ Placed(ht.table, ht.size)
  /\ IsFiniteSet(DictKeys(ht))
  /\ ht.used = Cardinality(DictKeys(ht))
  /\ ht.used <= ht.size

LEMMA ResetOK == DictOK(dictReset) /\ DictKeys(dictReset) = {}
  <1> DEFINE table == [h \in 0 .. 0 - 1 |-> << >>]
  <1>1. << >> = table
    OBVIOUS
  <1>2. Placed(table, 0) /\ \A x : ~ Holds(table, 0, x)
    BY EmptyPlaced, 0 \in Nat, Zenon
  <1>3. dictReset.size = 0 /\ dictReset.used = 0 /\ dictReset.table = << >>
        /\ dictReset = [size |-> 0, used |-> 0, table |-> << >>]
    BY Zenon DEF dictReset
  <1>4. Placed(dictReset.table, dictReset.size)
    BY <1>1, <1>2, <1>3, Zenon
  <1>5. \A x : ~ Holds(dictReset.table, dictReset.size, x)
    BY <1>1, <1>2, <1>3, Zenon
  <1>6. DictKeys(dictReset) = {}
    BY <1>5, KeysHeld, Zenon
  <1>7. IsFiniteSet({}) /\ Cardinality({}) = 0
    BY FS_EmptySet, Zenon
  <1> DEFINE d == dictReset
  <1> HIDE DEF d
  <1>8. /\ d.size = 0 /\ d.used = 0 /\ d.table = << >>
        /\ d = [size |-> 0, used |-> 0, table |-> << >>]
        /\ Placed(d.table, d.size) /\ DictKeys(d) = {}
    BY <1>3, <1>4, <1>6, Zenon DEF d
  <1>9. d.used <= d.size /\ d.size \in {0} \union Sizes
    BY <1>8
  <1>10. IsFiniteSet(DictKeys(d)) /\ d.used = Cardinality(DictKeys(d))
    BY <1>7, <1>8, Zenon
  <1>11. d = [size |-> d.size, used |-> d.used, table |-> d.table]
    BY <1>8, Zenon
  <1>12. DictOK(d)
    BY <1>8, <1>9, <1>10, <1>11, Zenon DEF DictOK
  <1> QED
    BY <1>6, <1>12, Zenon DEF d

LEMMA SizesPositive == \A s \in Sizes : s \in Nat \ {0}
  <1> TAKE s \in Sizes
  <1>1. PICK k \in 0 .. s : s = Doubled(s)[k]
    BY Zenon DEF Sizes
  <1>2. s \in Nat
    BY Zenon DEF Sizes
  <1>3. Doubled(s)[k] > k
    BY <1>2, DoubledGrows, Zenon
  <1> QED
    BY <1>1, <1>2, <1>3

(* The table has room after dictExpandIfNeeded, and the same entries.      *)
HasRoom(n, ht) ==
  /\ DictOK(n)
  /\ DictKeys(n) = DictKeys(ht)
  /\ n.used = ht.used
  /\ n.size # 0 /\ n.used < n.size
  /\ n.size >= ht.size
  /\ n.size = ht.size => n = ht

LEMMA ExpandIfNeededOK ==
  ASSUME NEW ht, DictOK(ht)
  PROVE  HasRoom(dictExpandIfNeeded(ht), ht)
  <1> DEFINE n == dictExpandIfNeeded(ht)
             card == Cardinality(DictKeys(ht))
  <1>0. card \in Nat
    BY FS_CardinalityType, Zenon DEF DictOK
  <1>1. ht.size \in Nat /\ ht.used \in Nat /\ ht.used <= ht.size
    BY <1>0, SizesPositive DEF DictOK
  <1>2. ASSUME NEW s \in Nat \ {0}, n = dictExpand(ht, s), s > ht.used, s > ht.size
        PROVE  HasRoom(n, ht)
    <2> HIDE DEF n
    <2> DEFINE r == dictNextPower(s)
    <2>1. /\ n = [size |-> r, used |-> ht.used, table |-> n.table]
          /\ Placed(n.table, r)
          /\ \A x : Holds(n.table, r, x) <=> Holds(ht.table, ht.size, x)
      <3>1. Placed(ht.table, ht.size)
        BY Zenon DEF DictOK
      <3> QED
        BY <1>1, <1>2, <3>1, ExpandIs, Zenon
    <2>2. r \in Sizes /\ r >= s
      BY NextPower, Zenon
    <2> HIDE DEF r
    <2>3. n.size = r /\ n.used = ht.used
      BY <2>1
    <2>4. DictKeys(n) = DictKeys(ht)
      <3>1. \A x : x \in DictKeys(n) <=> Holds(n.table, n.size, x)
        BY KeysHeld, Zenon
      <3>2. \A x : x \in DictKeys(ht) <=> Holds(ht.table, ht.size, x)
        BY KeysHeld, Zenon
      <3>3. \A x : x \in DictKeys(n) <=> x \in DictKeys(ht)
        BY <2>1, <2>3, <3>1, <3>2, Zenon
      <3> QED
        BY <3>3, Zenon
    <2>5. r \in Nat
      BY <2>2, Zenon DEF Sizes
    <2>6. r # 0 /\ ht.used < r /\ r > ht.size /\ ht.used <= r
      BY <1>1, <1>2, <2>2, <2>5
    <2>7. DictOK(n)
      <3>1. n.size \in {0} \union Sizes
        BY <2>2, <2>3, Zenon
      <3>2. Placed(n.table, n.size)
        BY <2>1, <2>3, Zenon
      <3>3. IsFiniteSet(DictKeys(n)) /\ n.used = Cardinality(DictKeys(n))
        BY <2>3, <2>4, Zenon DEF DictOK
      <3>4. n = [size |-> n.size, used |-> n.used, table |-> n.table]
        BY <2>1, <2>3, Zenon
      <3>5. n.used <= n.size
        BY <2>3, <2>6, Zenon
      <3> QED
        BY <3>1, <3>2, <3>3, <3>4, <3>5, Zenon DEF DictOK
    <2>8. n.size >= ht.size /\ n.size # ht.size
      BY <1>1, <2>3, <2>5, <2>6
    <2> QED
      BY <2>3, <2>4, <2>6, <2>7, <2>8, Zenon DEF HasRoom
  <1>3. CASE ht.size = 0
    <2>1. n = dictExpand(ht, DICT_HT_INITIAL_SIZE)
      BY <1>3, Zenon DEF dictExpandIfNeeded
    <2>2. DICT_HT_INITIAL_SIZE \in Nat \ {0} /\ DICT_HT_INITIAL_SIZE > ht.used
          /\ DICT_HT_INITIAL_SIZE > ht.size
      BY <1>1, <1>3, DictAssumption
    <2> HIDE DEF n
    <2>3. HasRoom(n, ht)
      BY <1>2, <2>1, <2>2, Zenon
    <2> QED
      BY <2>3, Zenon DEF n
  <1>4. CASE ht.size # 0 /\ ht.used = ht.size
    <2>1. n = dictExpand(ht, ht.size * 2)
      BY <1>4, Zenon DEF dictExpandIfNeeded
    <2>2. ht.size * 2 \in Nat \ {0} /\ ht.size * 2 > ht.used /\ ht.size * 2 > ht.size
      BY <1>1, <1>4
    <2> DEFINE s == ht.size * 2
    <2> HIDE DEF s
    <2>3. s \in Nat \ {0} /\ s > ht.used /\ s > ht.size /\ n = dictExpand(ht, s)
      BY <2>1, <2>2, Zenon DEF s
    <2> HIDE DEF n
    <2>4. HasRoom(n, ht)
      BY <1>2, <2>3, Zenon
    <2> QED
      BY <2>4, Zenon DEF n
  <1>5. CASE ht.size # 0 /\ ht.used # ht.size
    <2>1. n = ht
      BY <1>5, Zenon DEF dictExpandIfNeeded
    <2>2. HasRoom(ht, ht)
      BY <1>1, <1>5 DEF HasRoom
    <2> QED
      BY <2>1, <2>2, Zenon
  <1> QED
    BY <1>3, <1>4, <1>5, Zenon

(* What an addition leaves: the dict itself, an expanded one with the same *)
(* entries, or one with the key in front of the chain of its bucket.       *)
Added(n, ht, key) ==
  /\ DictOK(n)
  /\ \/ DictKeys(n) = DictKeys(ht)
     \/ DictKeys(n) = DictKeys(ht) \union {key} /\ key \notin DictKeys(ht)
  /\ n.size >= ht.size
  /\ n.size = ht.size =>
       \/ n = ht
       \/ /\ key \notin DictKeys(ht)
          /\ DictKeys(n) = DictKeys(ht) \union {key}
          /\ ht.size # 0
          /\ n.table = Push(ht.table, key, ht.size)

LEMMA AddOK ==
  ASSUME NEW ht, DictOK(ht), NEW key \in Key, NEW oom
  PROVE  Added(dictAdd(ht, key, oom).ht, ht, key)
  <1> DEFINE failed == dictNeedsExpand(ht) /\ oom = "table"
             e == dictExpandIfNeeded(ht)
             m == IF failed THEN ht ELSE e
             n == dictAdd(ht, key, oom).ht
             added == [size |-> m.size, used |-> m.used + 1,
                       table |-> Push(m.table, key, m.size)]
  <1>1. /\ DictOK(e)
        /\ DictKeys(e) = DictKeys(ht)
        /\ e.used = ht.used
        /\ e.size # 0 /\ e.used < e.size
        /\ e.size >= ht.size
        /\ e.size = ht.size => e = ht
    BY ExpandIfNeededOK, Zenon DEF HasRoom
  <1>2. n = IF failed \/ dictFind(m, key) \/ oom = "entry" THEN m ELSE added
    BY Zenon DEF dictAdd
  <1> HIDE DEF e, n, added
  <1>3. ht.size \in Nat /\ e.size \in Nat /\ e.used \in Nat
    <2>1. \A d : DictOK(d) => d.size \in Nat
      BY SizesPositive DEF DictOK
    <2>2. Cardinality(DictKeys(e)) \in Nat
      BY <1>1, FS_CardinalityType, Zenon DEF DictOK
    <2> QED
      BY <1>1, <2>1, <2>2, Zenon DEF DictOK
  <1>4. CASE n = ht
    <2>1. Added(ht, ht, key)
      BY <1>3 DEF Added
    <2> QED
      BY <1>4, <2>1, Zenon DEF n
  <1>5. CASE n = e
    <2>1. Added(e, ht, key)
      BY <1>1, <1>3, Zenon DEF Added
    <2> QED
      BY <1>5, <2>1, Zenon DEF n
  <1>6. CASE ~ failed /\ ~ dictFind(m, key) /\ n = added
    <2>1. m = e /\ ~ dictFind(e, key)
      BY <1>6, Zenon
    <2>2. added = [size |-> e.size, used |-> e.used + 1,
                   table |-> Push(e.table, key, e.size)]
      BY <2>1, Zenon DEF added
    <2> HIDE DEF failed, m
    <2>3. Placed(e.table, e.size) /\ e.size \in Nat \ {0}
      BY <1>1, <1>3, Zenon DEF DictOK
    <2>4. ~ Holds(e.table, e.size, key)
      BY <2>1, <2>3, HoldsInBucket, Zenon DEF dictFind
    <2> DEFINE t == Push(e.table, key, e.size)
    <2>5. /\ Placed(t, e.size)
          /\ \A x : Holds(t, e.size, x) <=> x = key \/ Holds(e.table, e.size, x)
      BY <2>3, <2>4, PushPlaced, Zenon
    <2> HIDE DEF t
    <2>6. n = [size |-> e.size, used |-> e.used + 1, table |-> t]
      BY <1>6, <2>2, Zenon DEF t
    <2>7. n.size = e.size /\ n.used = e.used + 1 /\ n.table = t
      BY <2>6, Zenon
    <2>8. \A x : x \in DictKeys(n) <=> x = key \/ x \in DictKeys(e)
      <3>1. \A x : x \in DictKeys(n) <=> Holds(n.table, n.size, x)
        BY KeysHeld, Zenon
      <3>2. \A x : x \in DictKeys(e) <=> Holds(e.table, e.size, x)
        BY KeysHeld, Zenon
      <3> QED
        BY <2>5, <2>7, <3>1, <3>2, Zenon
    <2>9. key \notin DictKeys(e)
      BY <2>4, KeysHeld, Zenon
    <2>10. DictKeys(n) = DictKeys(ht) \union {key} /\ key \notin DictKeys(ht)
      BY <1>1, <2>8, <2>9, Zenon
    <2>11. IsFiniteSet(DictKeys(n)) /\ Cardinality(DictKeys(n)) = Cardinality(DictKeys(e)) + 1
      <3>1. IsFiniteSet(DictKeys(e)) /\ DictKeys(n) = DictKeys(e) \union {key}
        BY <1>1, <2>10, Zenon DEF DictOK
      <3> QED
        BY <2>9, <3>1, FS_AddElement, Zenon
    <2>12. DictOK(n)
      <3>1. n = [size |-> n.size, used |-> n.used, table |-> n.table]
        BY <2>6, <2>7, Zenon
      <3>2. n.size \in {0} \union Sizes
        BY <1>1, <2>7, Zenon DEF DictOK
      <3>3. Placed(n.table, n.size)
        BY <2>5, <2>7, Zenon
      <3>4. n.used = Cardinality(DictKeys(n))
        BY <1>1, <2>7, <2>11, Zenon DEF DictOK
      <3>5. n.used <= n.size
        BY <1>1, <1>3, <2>7
      <3> QED
        BY <2>11, <3>1, <3>2, <3>3, <3>4, <3>5, Zenon DEF DictOK
    <2>13. n.size = ht.size => n.table = Push(ht.table, key, ht.size) /\ ht.size # 0
      BY <1>1, <2>7, Zenon DEF t
    <2>14. Added(n, ht, key)
      BY <1>1, <1>3, <2>7, <2>10, <2>12, <2>13, Zenon DEF Added
    <2> QED
      BY <2>14, Zenon DEF n
  <1>7. n = ht \/ n = e \/ (~ failed /\ ~ dictFind(m, key) /\ n = added)
    BY <1>2, Zenon
  <1> HIDE DEF failed, m
  <1> QED
    BY <1>4, <1>5, <1>6, <1>7, Zenon

(* The keys of a dict, and how many there are.                             *)
LEMMA BucketsPlaced ==
  ASSUME NEW ht, DictOK(ht)
  PROVE  /\ ht.size \in Nat
         /\ ht.table \in [Buckets(ht) -> Seq(Key)]
         /\ \A b \in Buckets(ht) :
              /\ b \in Nat
              /\ IsInjective(ht.table[b])
              /\ \A p \in DOMAIN ht.table[b] : dictHash(ht.table[b][p], ht.size) = b
  <1>1. ht.size \in Nat
    BY SizesPositive DEF DictOK
  <1>2. Buckets(ht) = 0 .. ht.size - 1
    BY Zenon DEF Buckets
  <1>3. Placed(ht.table, ht.size)
    BY Zenon DEF DictOK
  <1> QED
    BY <1>1, <1>2, <1>3 DEF Placed, Range

LEMMA KeysAreKeys == ASSUME NEW ht, DictOK(ht) PROVE DictKeys(ht) \subseteq Key
  <1>1. \A b \in Buckets(ht) : ht.table[b] \in Seq(Key)
    BY BucketsPlaced, Zenon
  <1> QED
    BY <1>1, ElementType DEF DictKeys, Range

LEMMA InOrderLen ==
  ASSUME NEW ht, DictOK(ht)
  PROVE  Len(InOrder(ht)) = ht.used
  <1> DEFINE order == InOrder(ht)
             K == DictKeys(ht)
             n == Len(order)
  <1>1. /\ order \in Seq(Key) /\ IsInjective(order)
        /\ \A x : Has(order, x) <=> x \in K
    <2>1. ht.size \in Nat /\ Placed(ht.table, ht.size)
      BY SizesPositive DEF DictOK
    <2>2. \A x : x \in K <=> Holds(ht.table, ht.size, x)
      BY KeysHeld, Zenon
    <2> QED
      BY <2>1, <2>2, InOrderIs, Zenon
  <1> HIDE DEF order, K
  <1>2. n \in Nat /\ DOMAIN order = 1 .. n
    BY <1>1
  <1>3. order \in [1 .. n -> K]
    <2>1. \A i \in 1 .. n : order[i] \in K
      BY <1>1, <1>2, Zenon DEF Has
    <2>2. order = [i \in 1 .. n |-> order[i]]
      BY <1>1, <1>2
    <2> QED
      BY <2>1, <2>2, Zenon
  <1>4. \A x \in K : \E i \in 1 .. n : order[i] = x
    BY <1>1, <1>2, Zenon DEF Has
  <1>5. order \in Bijection(1 .. n, K)
    BY <1>1, <1>3, <1>4, Zenon DEF Bijection, Injection, Surjection
  <1>6. ExistsBijection(1 .. n, K)
    BY <1>5, Zenon DEF ExistsBijection
  <1>7. Cardinality(K) = n
    BY <1>2, <1>6, FS_CountingElements, Zenon
  <1> QED
    BY <1>7, Zenon DEF DictOK, K, order

(* entry->next is the key one place further in the chain.                  *)
LEMMA NextEntryIs ==
  ASSUME NEW ht, DictOK(ht), NEW b \in Buckets(ht), NEW p \in DOMAIN ht.table[b]
  PROVE  LET chain == ht.table[b]
         IN NextEntry(ht, chain[p]) = IF p < Len(chain) THEN chain[p + 1] ELSE NULL
  <1> DEFINE chain == ht.table[b]
             e == chain[p]
             c == CHOOSE i \in DOMAIN chain : chain[i] = e
  <1>1. IsInjective(chain) /\ dictHash(e, ht.size) = b
    BY BucketsPlaced, Zenon
  <1>2. NextEntry(ht, e) = LET q == CHOOSE i \in DOMAIN ht.table[dictHash(e, ht.size)] :
                                      ht.table[dictHash(e, ht.size)][i] = e
                           IN IF q < Len(ht.table[dictHash(e, ht.size)])
                              THEN ht.table[dictHash(e, ht.size)][q + 1] ELSE NULL
    BY Zenon DEF NextEntry
  <1>3. NextEntry(ht, e) = IF c < Len(chain) THEN chain[c + 1] ELSE NULL
    BY <1>1, <1>2, Zenon
  <1>4. c \in DOMAIN chain /\ chain[c] = e
    BY Zenon
  <1> HIDE DEF c
  <1>5. c = p
    BY <1>1, <1>4, Zenon DEF IsInjective
  <1> QED
    BY <1>3, <1>5, Zenon

(* The saved successor; the first entry of the next bucket with any; none. *)
InChain(n, di, ht) ==
  /\ di.entry # NULL /\ di.nextEntry # NULL
  /\ n = [index |-> di.index, entry |-> di.nextEntry,
          nextEntry |-> NextEntry(ht, di.nextEntry)]

InBucket(n, di, ht, b) ==
  /\ di.entry = NULL \/ di.nextEntry = NULL
  /\ b > di.index /\ ht.table[b] # << >>
  /\ \A j \in Buckets(ht) : j > di.index /\ ht.table[j] # << >> => b <= j
  /\ n = [index |-> b, entry |-> Head(ht.table[b]),
          nextEntry |-> NextEntry(ht, Head(ht.table[b]))]

AtEnd(n, di, ht) ==
  /\ di.entry = NULL \/ di.nextEntry = NULL
  /\ \A j \in Buckets(ht) : j > di.index => ht.table[j] = << >>
  /\ n = [index |-> n.index, entry |-> NULL, nextEntry |-> di.nextEntry]

LEMMA NextCases ==
  ASSUME NEW ht, DictOK(ht), NEW di,
         di = [index |-> di.index, entry |-> di.entry, nextEntry |-> di.nextEntry]
  PROVE  LET n == dictNext(di, ht)
         IN \/ InChain(n, di, ht)
            \/ \E b \in Buckets(ht) : InBucket(n, di, ht, b)
            \/ AtEnd(n, di, ht)
  <1> DEFINE n == dictNext(di, ht)
             rest == {i \in Buckets(ht) : i > di.index /\ ht.table[i] # << >>}
             b == CHOOSE i \in rest : \A j \in rest : i <= j
             end == IF di.index < ht.size THEN ht.size ELSE di.index + 1
  <1>1. n = IF di.entry # NULL /\ di.nextEntry # NULL
            THEN [index |-> di.index, entry |-> di.nextEntry,
                  nextEntry |-> NextEntry(ht, di.nextEntry)]
            ELSE IF rest # {}
                 THEN [index |-> b, entry |-> Head(ht.table[b]),
                       nextEntry |-> NextEntry(ht, Head(ht.table[b]))]
                 ELSE [di EXCEPT !.index = end, !.entry = NULL]
    BY Zenon DEF dictNext
  <1>2. CASE di.entry # NULL /\ di.nextEntry # NULL
    BY <1>1, <1>2, Zenon DEF InChain
  <1>3. CASE (di.entry = NULL \/ di.nextEntry = NULL) /\ rest # {}
    <2>1. rest \subseteq Nat
      BY BucketsPlaced, Zenon
    <2>2. \E i \in rest : \A j \in rest : i <= j
      <3> HIDE DEF rest
      <3> QED
        BY <1>3, <2>1, Least, Zenon
    <2>3. b \in rest /\ \A j \in rest : b <= j
      <3> HIDE DEF rest
      <3> QED
        BY <2>2, Zenon
    <2>4. n = [index |-> b, entry |-> Head(ht.table[b]),
               nextEntry |-> NextEntry(ht, Head(ht.table[b]))]
      <3> HIDE DEF n, b, rest
      <3> QED
        BY <1>1, <1>3, Zenon
    <2> HIDE DEF n, b
    <2>5. b \in Buckets(ht) /\ InBucket(n, di, ht, b)
      BY <1>3, <2>3, <2>4, Zenon DEF InBucket
    <2> QED
      BY <2>5, Zenon DEF n
  <1>4. CASE (di.entry = NULL \/ di.nextEntry = NULL) /\ rest = {}
    <2>1. n = [di EXCEPT !.index = end, !.entry = NULL]
      <3> HIDE DEF n, b, rest
      <3> QED
        BY <1>1, <1>4, Zenon
    <2> HIDE DEF n, end
    <2>2. n = [index |-> end, entry |-> NULL, nextEntry |-> di.nextEntry]
      BY <2>1, Zenon
    <2>3. n = [index |-> n.index, entry |-> NULL, nextEntry |-> di.nextEntry]
      BY <2>2, Zenon
    <2>4. AtEnd(n, di, ht)
      BY <1>4, <2>3, Zenon DEF AtEnd
    <2> QED
      BY <2>4, Zenon DEF n
  <1> QED
    BY <1>2, <1>3, <1>4, Zenon

(* dictNext returns an entry of the dict, or none, and saves such a one.   *)
LEMMA NextIsKnown ==
  ASSUME NEW ht, DictOK(ht), NEW di,
         di = [index |-> di.index, entry |-> di.entry, nextEntry |-> di.nextEntry],
         di.nextEntry \in DictKeys(ht) \union {NULL}
  PROVE  LET n == dictNext(di, ht)
         IN /\ n = [index |-> n.index, entry |-> n.entry, nextEntry |-> n.nextEntry]
            /\ n.entry \in DictKeys(ht) \union {NULL}
            /\ n.nextEntry \in DictKeys(ht) \union {NULL}
  <1> DEFINE n == dictNext(di, ht)
  <1>0. \A b \in Buckets(ht) : \A p \in DOMAIN ht.table[b] : ht.table[b][p] \in DictKeys(ht)
    BY DEF DictKeys, Range
  <1>1. ASSUME NEW e \in DictKeys(ht) PROVE NextEntry(ht, e) \in DictKeys(ht) \union {NULL}
    <2>1. PICK b \in Buckets(ht) : \E p \in DOMAIN ht.table[b] : e = ht.table[b][p]
      BY Zenon DEF DictKeys, Range
    <2>2. PICK p \in DOMAIN ht.table[b] : e = ht.table[b][p]
      BY <2>1, Zenon
    <2> DEFINE chain == ht.table[b]
    <2>3. NextEntry(ht, e) = IF p < Len(chain) THEN chain[p + 1] ELSE NULL
      BY <2>2, NextEntryIs, Zenon
    <2>4. chain \in Seq(Key)
      BY BucketsPlaced, Zenon
    <2>5. p < Len(chain) => p + 1 \in DOMAIN chain
      <3> HIDE DEF chain
      <3>1. p \in DOMAIN chain
        BY Zenon DEF chain
      <3> QED
        BY <2>4, <3>1
    <2> QED
      BY <1>0, <2>3, <2>5, Zenon
  <1>2. InChain(n, di, ht) \/ (\E b \in Buckets(ht) : InBucket(n, di, ht, b))
        \/ AtEnd(n, di, ht)
    BY NextCases, Zenon
  <1> HIDE DEF n
  <1>3. CASE InChain(n, di, ht)
    <2>1. di.nextEntry \in DictKeys(ht)
      BY <1>3, Zenon DEF InChain
    <2>2. n = [index |-> di.index, entry |-> di.nextEntry,
               nextEntry |-> NextEntry(ht, di.nextEntry)]
      BY <1>3, Zenon DEF InChain
    <2> QED
      BY <1>1, <2>1, <2>2 DEF n
  <1>4. ASSUME NEW b \in Buckets(ht), InBucket(n, di, ht, b)
        PROVE  /\ n = [index |-> n.index, entry |-> n.entry, nextEntry |-> n.nextEntry]
               /\ n.entry \in DictKeys(ht) \union {NULL}
               /\ n.nextEntry \in DictKeys(ht) \union {NULL}
    <2> DEFINE chain == ht.table[b]
               e == Head(chain)
    <2>1. chain \in Seq(Key) /\ chain # << >>
      BY <1>4, BucketsPlaced, Zenon DEF InBucket
    <2>2. 1 \in DOMAIN chain /\ e = chain[1]
      <3> HIDE DEF chain
      <3> QED
        BY <2>1
    <2>3. e \in DictKeys(ht)
      BY <1>0, <2>2, Zenon
    <2>4. n = [index |-> b, entry |-> e, nextEntry |-> NextEntry(ht, e)]
      BY <1>4, Zenon DEF InBucket
    <2> HIDE DEF e
    <2> QED
      BY <1>1, <2>3, <2>4, Zenon
  <1>5. CASE AtEnd(n, di, ht)
    <2>1. n = [index |-> n.index, entry |-> NULL, nextEntry |-> di.nextEntry]
      BY <1>5, Zenon DEF AtEnd
    <2> QED
      BY <2>1 DEF n
  <1> QED
    BY <1>2, <1>3, <1>4, <1>5, Zenon DEF n

-----------------------------------------------------------------------------
(* The dict of a new map.                                                  *)
AllDicts ==
  {ht \in [size : Nat, used : Nat, table : UNION {[0 .. s - 1 -> Seq(Key)] : s \in Nat}] :
     DictOK(ht)}

LEMMA AllDictsIs == \A ht : ht \in AllDicts <=> DictOK(ht)
  <1> SUFFICES ASSUME NEW ht, DictOK(ht) PROVE ht \in AllDicts
    BY Zenon DEF AllDicts
  <1>1. Cardinality(DictKeys(ht)) \in Nat
    BY FS_CardinalityType, Zenon DEF DictOK
  <1>2. ht.size \in Nat /\ ht.used \in Nat
    BY <1>1, SizesPositive DEF DictOK
  <1>3. ht.table \in UNION {[0 .. s - 1 -> Seq(Key)] : s \in Nat}
    BY <1>2, Zenon DEF DictOK, Placed
  <1>4. ht = [size |-> ht.size, used |-> ht.used, table |-> ht.table]
    BY Zenon DEF DictOK
  <1> DEFINE T == UNION {[0 .. s - 1 -> Seq(Key)] : s \in Nat}
  <1> HIDE DEF T
  <1>5. ht \in [size : Nat, used : Nat, table : T]
    BY <1>2, <1>3, <1>4, Zenon DEF T
  <1> QED
    BY <1>5, Zenon DEF AllDicts, T

LEMMA NewDictOK ==
  ASSUME NEW m \in Maps, m \in Seq(Key)
  PROVE  DictOK(NewDict(m))
  <1> DEFINE n == Len(m)
             V == AllDicts
             step == [i \in 1 .. n |-> [v \in V |-> dictAdd(v, m[i], "none").ht]]
             F(g) == [i \in 0 .. n |-> IF i = 0 THEN dictReset
                                       ELSE dictAdd(g[i - 1], m[i], "none").ht]
             ht == CHOOSE g : g = F(g)
  <1>0. n \in Nat /\ \A i \in 1 .. n : m[i] \in Key
    OBVIOUS
  <1>1. dictReset \in V
    BY ResetOK, AllDictsIs, Zenon
  <1>2. ASSUME NEW i \in 1 .. n, NEW v \in V PROVE dictAdd(v, m[i], "none").ht \in V
    <2>1. DictOK(v) /\ m[i] \in Key
      BY <1>0, AllDictsIs, Zenon
    <2>2. DictOK(dictAdd(v, m[i], "none").ht)
      BY <2>1, AddOK, Zenon DEF Added
    <2> QED
      BY <2>2, AllDictsIs, Zenon
  <1>3. NewDict(m) = ht[n]
    BY Zenon DEF NewDict
  <1> HIDE DEF V, n
  <1>4. step \in [1 .. n -> [V -> V]]
    BY <1>2, Zenon
  <1>5. PICK f : Recurses(f, V, dictReset, n, step)
    <2> HIDE DEF step
    <2> QED
      BY <1>0, <1>1, <1>4, Recursion, Zenon
  <1>6. ASSUME NEW i \in 1 .. n PROVE f[i] = dictAdd(f[i - 1], m[i], "none").ht
    <2>1. f[i] = step[i][f[i - 1]] /\ f[i - 1] \in V
      <3> HIDE DEF step
      <3> QED
        BY <1>0, <1>5 DEF Recurses
    <2> QED
      BY <2>1, Zenon
  <1>7. f = F(f)
    <2>1. f \in [0 .. n -> V] /\ f[0] = dictReset
      BY <1>5, Zenon DEF Recurses
    <2>2. \A i \in 0 .. n : f[i] = IF i = 0 THEN dictReset
                                   ELSE dictAdd(f[i - 1], m[i], "none").ht
      BY <1>0, <1>6, <2>1
    <2> QED
      BY <2>1, <2>2, Zenon
  <1>8. ht = F(ht)
    <2> HIDE DEF F
    <2> QED
      BY <1>7, Zenon
  <1> HIDE DEF ht
  <1> DEFINE P == {i \in 0 .. n : ht[i] \in V}
  <1>9. 0 \in P
    BY <1>0, <1>1, <1>8
  <1>10. ASSUME NEW i \in 0 .. n, i # n, i \in P PROVE i + 1 \in P
    <2>1. i + 1 \in 1 .. n /\ i + 1 \in 0 .. n /\ ht[i + 1] = dictAdd(ht[i], m[i + 1], "none").ht
      BY <1>0, <1>8, <1>10
    <2>2. dictAdd(ht[i], m[i + 1], "none").ht \in V
      BY <1>2, <1>10, <2>1, Zenon
    <2> QED
      BY <2>1, <2>2, Zenon
  <1> HIDE DEF P
  <1>11. \A i \in 0 .. n : i \in P
    BY <1>0, <1>9, <1>10, IntervalInduction, Zenon
  <1>12. ht[n] \in V
    BY <1>0, <1>11 DEF P
  <1> QED
    BY <1>3, <1>12, AllDictsIs, Zenon DEF V

(***************************************************************************)
(* The inductive invariant.  The dict is well formed; the iterator, when   *)
(* its route version is the client's, refers to the client's dict and to   *)
(* entries of it.                                                          *)
(***************************************************************************)
Known == DictKeys(nodes) \union {NULL}

IterOK ==
  /\ object > 0
  /\ iter = [ht |-> iter.ht, di |-> iter.di,
             route_version |-> iter.route_version, retries_left |-> iter.retries_left]
  /\ iter.di = [index |-> iter.di.index, entry |-> iter.di.entry,
                nextEntry |-> iter.di.nextEntry]
  /\ iter.ht \in 0 .. object
  /\ iter.route_version \in 0 .. route_version
  /\ iter.retries_left \in {0, 1}
  /\ iter.di.entry \in Key \union {NULL}
  /\ iter.di.nextEntry \in Key \union {NULL}
  /\ iter.route_version = route_version =>
       iter.ht = object /\ iter.di.entry \in Known /\ iter.di.nextEntry \in Known

Inv ==
  /\ DictOK(nodes)
  /\ object \in Nat
  /\ route_version \in 0 .. MaxVersion
  /\ iter = NULL \/ IterOK
  /\ start \subseteq Key
  /\ seen \in [Key -> Nat]

(***************************************************************************)
(* Where an iteration is, while neither an update nor an expansion has     *)
(* come in between: at the entry in place p of the chain of bucket b.      *)
(* What comes after it has not been returned, what comes before it and was *)
(* there at the start has.  A node that is added later goes to the head    *)
(* of a chain: before or after that place, and unreturned.                 *)
(***************************************************************************)
NotBegun(di) ==
  /\ di.index = -1
  /\ di.entry = NULL
  /\ \A k \in Key : seen[k] = 0

At(di, p) ==
  LET chain == nodes.table[di.index]
  IN /\ di.index \in Buckets(nodes)
     /\ p \in DOMAIN chain
     /\ di.entry = chain[p]
     /\ di.nextEntry = IF p < Len(chain) THEN chain[p + 1] ELSE NULL
     /\ \A q \in DOMAIN chain :
          IF q > p THEN seen[chain[q]] = 0
          ELSE chain[q] \in start => seen[chain[q]] = 1
     /\ \A h \in Buckets(nodes) : \A x \in Range(nodes.table[h]) :
          /\ h > di.index => seen[x] = 0
          /\ h < di.index /\ x \in start => seen[x] = 1

Walking ==
  /\ start \subseteq DictKeys(nodes)
  /\ \A k \in Key \ DictKeys(nodes) : seen[k] = 0
  /\ NotBegun(iter.di) \/ \E p \in DOMAIN nodes.table[iter.di.index] : At(iter.di, p)

Walk ==
  /\ EachNodeOnce
  /\ iter # NULL /\ ~restarted => iter.retries_left = 1
  /\ iter # NULL /\ ~restarted /\ ~grown /\ ~ended /\ ~Changed => Walking

(***************************************************************************)
(* Every action keeps Inv.                                                 *)
(***************************************************************************)
LEMMA InitInv == Init => Inv
  BY ResetOK, NodeIteratorAssumption DEF Init, Inv

(* An iterator stays in order when the dict only gains entries.            *)
LEMMA IterKept ==
  ASSUME IterOK, UNCHANGED <<object, route_version, iter>>,
         DictKeys(nodes) \subseteq DictKeys(nodes')
  PROVE  IterOK'
  BY Zenon DEF IterOK, Known

(* The contents of cc->nodes change by an addition, or not at all.         *)
LEMMA SetNodesInv ==
  ASSUME Inv, NEW key \in Key, Added(nodes', nodes, key) \/ nodes' = nodes,
         object' = IF object = 0 THEN 1 ELSE object,
         UNCHANGED <<route_version, iter, start, seen>>
  PROVE  Inv'
  <1>1. DictOK(nodes') /\ DictKeys(nodes) \subseteq DictKeys(nodes')
    BY Zenon DEF Added, Inv
  <1>2. object' \in Nat
    BY Zenon DEF Inv
  <1>3. ASSUME iter # NULL PROVE IterOK'
    <2>1. IterOK
      BY <1>3, Zenon DEF Inv
    <2>2. object' = object
      BY <2>1 DEF IterOK, Inv
    <2> QED
      BY <1>1, <2>1, <2>2, IterKept, Zenon
  <1> QED
    BY <1>1, <1>2, <1>3, Zenon DEF Inv

LEMMA AddNodeInv ==
  ASSUME Inv, NEW k \in Configured, NEW wellFormed \in BOOLEAN, NEW oom \in OOM,
         redisClusterSetOptionAddNode(k, wellFormed, oom)
  PROVE  Inv'
  <1>1. k \in Key
    BY NodeIteratorAssumption, Zenon
  <1>2. nodes' = dictAdd(nodes, k, oom).ht \/ nodes' = nodes
    BY Zenon DEF redisClusterSetOptionAddNode, SetNodes
  <1>3. Added(dictAdd(nodes, k, oom).ht, nodes, k)
    BY <1>1, AddOK, Zenon DEF Inv
  <1>4. Added(nodes', nodes, k) \/ nodes' = nodes
    BY <1>2, <1>3, Zenon
  <1>5. object' = (IF object = 0 THEN 1 ELSE object)
        /\ UNCHANGED <<route_version, iter, start, seen>>
    BY Zenon DEF redisClusterSetOptionAddNode, history
  <1> QED
    BY <1>1, <1>4, <1>5, SetNodesInv, Zenon

LEMMA RedirectInv ==
  ASSUME Inv, NEW k \in Key, NEW oom \in OOM, getNodeFromRedirectReply(k, oom)
  PROVE  Inv'
  <1>1. nodes' = dictAdd(nodes, k, oom).ht
    BY Zenon DEF getNodeFromRedirectReply, SetNodes
  <1>2. Added(dictAdd(nodes, k, oom).ht, nodes, k)
    BY AddOK, Zenon DEF Inv
  <1>3. Added(nodes', nodes, k)
    BY <1>1, <1>2, Zenon
  <1>4. object' = (IF object = 0 THEN 1 ELSE object)
        /\ UNCHANGED <<route_version, iter, start, seen>>
    BY DEF getNodeFromRedirectReply, history
  <1> QED
    BY <1>3, <1>4, SetNodesInv, Zenon

LEMMA UpdateInv ==
  ASSUME Inv, NEW m \in Maps, updateNodesAndSlotmap(m)
  PROVE  Inv'
  <1>1. m \in Seq(Key)
    BY NodeIteratorAssumption, Zenon
  <1>2. nodes' = NewDict(m) /\ DictOK(NewDict(m))
    BY <1>1, NewDictOK, Zenon DEF updateNodesAndSlotmap
  <1>3. DictOK(nodes')
    BY <1>2, Zenon
  <1>4. /\ object' = object + 1 /\ object \in Nat
        /\ route_version' = route_version + 1 /\ route_version \in Nat
        /\ route_version' \in 0 .. MaxVersion
        /\ UNCHANGED <<iter, start, seen>>
    BY NodeIteratorAssumption DEF updateNodesAndSlotmap, history, Inv
  <1>5. ASSUME iter # NULL PROVE IterOK'
    <2>1. IterOK
      BY <1>5, Zenon DEF Inv
    <2>2. iter'.route_version # route_version'
      BY <1>4, <2>1 DEF IterOK
    <2> QED
      BY <1>4, <2>1, <2>2 DEF IterOK
  <1> QED
    BY <1>3, <1>4, <1>5 DEF Inv

LEMMA InitIteratorInv ==
  ASSUME Inv, redisClusterInitNodeIterator
  PROVE  Inv'
  <1>1. /\ object > 0 /\ object \in Nat
        /\ iter' = [ht |-> object, di |-> dictInitIterator,
                    route_version |-> route_version, retries_left |-> 1]
        /\ UNCHANGED <<nodes, object, route_version>>
    BY Zenon DEF redisClusterInitNodeIterator, Inv
  <1>2. dictInitIterator = [index |-> -1, entry |-> NULL, nextEntry |-> NULL]
    BY Zenon DEF dictInitIterator
  <1>3. IterOK'
    BY <1>1, <1>2 DEF IterOK, Known, Inv
  <1>4. start' \subseteq Key
    <2>1. \A b \in Buckets(nodes) : nodes.table[b] \in Seq(Key)
      BY BucketsPlaced, Zenon DEF Inv
    <2>2. start' = DictKeys(nodes)
      BY Zenon DEF redisClusterInitNodeIterator
    <2> QED
      BY <2>1, <2>2, ElementType DEF DictKeys, Range
  <1>5. seen' \in [Key -> Nat]
    BY Zenon DEF redisClusterInitNodeIterator
  <1> QED
    BY <1>1, <1>3, <1>4, <1>5, Zenon DEF Inv

(* The iterator as a call finds it is on the client's dict.                *)
LEMMA CurrentOK ==
  ASSUME Inv, iter # NULL
  PROVE  /\ Current = [ht |-> object, di |-> Current.di,
                       route_version |-> route_version,
                       retries_left |-> Current.retries_left]
         /\ Current.di = [index |-> Current.di.index, entry |-> Current.di.entry,
                          nextEntry |-> Current.di.nextEntry]
         /\ Current.di.entry \in Known /\ Current.di.nextEntry \in Known
         /\ iter.retries_left > 0 => Current.retries_left \in {0, 1}
  <1>1. IterOK
    BY Zenon DEF Inv
  <1>2. CASE Changed
    <2>1. Current = [ht |-> object, di |-> dictInitIterator,
                     route_version |-> route_version,
                     retries_left |-> iter.retries_left - 1]
      BY <1>2, Zenon DEF Current
    <2>2. dictInitIterator = [index |-> -1, entry |-> NULL, nextEntry |-> NULL]
      BY Zenon DEF dictInitIterator
    <2>3. iter.retries_left > 0 => iter.retries_left - 1 = 0
      BY <1>1 DEF IterOK
    <2> DEFINE cur == Current
    <2> HIDE DEF cur
    <2>4. cur = [ht |-> object, di |-> [index |-> -1, entry |-> NULL, nextEntry |-> NULL],
                 route_version |-> route_version,
                 retries_left |-> iter.retries_left - 1]
      BY <2>1, <2>2, Zenon DEF cur
    <2>5. /\ cur = [ht |-> object, di |-> cur.di, route_version |-> route_version,
                    retries_left |-> cur.retries_left]
          /\ cur.di = [index |-> cur.di.index, entry |-> cur.di.entry,
                       nextEntry |-> cur.di.nextEntry]
          /\ cur.di.entry = NULL /\ cur.di.nextEntry = NULL
          /\ cur.retries_left = iter.retries_left - 1
      BY <2>4, Zenon
    <2> QED
      BY <2>3, <2>5, Zenon DEF cur, Known
  <1>3. CASE ~ Changed
    <2>1. Current = iter /\ iter.route_version = route_version
      BY <1>3, Zenon DEF Current, Changed
    <2> QED
      BY <1>1, <2>1, Zenon DEF IterOK
  <1> QED
    BY <1>2, <1>3, Zenon

LEMMA NodeNextEffect ==
  ASSUME Inv, redisClusterNodeNext, iter.retries_left > 0
  PROVE  LET di == dictNext(Current.di, nodes)
         IN /\ iter' = [ht |-> object, di |-> di, route_version |-> route_version,
                        retries_left |-> Current.retries_left]
            /\ di = [index |-> di.index, entry |-> di.entry, nextEntry |-> di.nextEntry]
            /\ di.entry \in Known /\ di.nextEntry \in Known
            /\ Current.retries_left \in {0, 1}
            /\ ended' = (di.entry = NULL)
            /\ last' = IF di.entry = NULL THEN NULL
                       ELSE [object |-> object, key |-> di.entry]
            /\ restarted' = (restarted \/ Changed)
            /\ grown' = (grown /\ ~Changed)
            /\ start' = IF Changed THEN DictKeys(nodes) ELSE start
            /\ seen' = [k \in Key |-> (IF Changed THEN 0 ELSE seen[k])
                                      + (IF k = di.entry THEN 1 ELSE 0)]
            /\ UNCHANGED <<nodes, object, route_version>>
  <1> DEFINE di == dictNext(Current.di, nodes)
  <1>1. iter # NULL
    BY Zenon DEF redisClusterNodeNext, Iterating
  <1>2. /\ Current = [ht |-> object, di |-> Current.di, route_version |-> route_version,
                      retries_left |-> Current.retries_left]
        /\ Current.di = [index |-> Current.di.index, entry |-> Current.di.entry,
                         nextEntry |-> Current.di.nextEntry]
        /\ Current.di.nextEntry \in Known
        /\ Current.retries_left \in {0, 1}
    BY <1>1, CurrentOK, Zenon
  <1>3. /\ di = [index |-> di.index, entry |-> di.entry, nextEntry |-> di.nextEntry]
        /\ di.entry \in Known /\ di.nextEntry \in Known
    BY <1>2, NextIsKnown, Zenon DEF Inv, Known
  <1>4. ~ (iter.retries_left <= 0)
    <2>1. iter.retries_left \in {0, 1}
      BY <1>1, Zenon DEF Inv, IterOK
    <2> QED
      BY <2>1
  <1>5. /\ UNCHANGED <<nodes, object, route_version>>
        /\ iter' = [Current EXCEPT !.di = di]
        /\ ended' = (di.entry = NULL)
        /\ last' = IF di.entry = NULL THEN NULL ELSE [object |-> Current.ht, key |-> di.entry]
        /\ restarted' = (restarted \/ Changed)
        /\ grown' = (grown /\ ~Changed)
        /\ start' = IF Changed THEN DictKeys(nodes) ELSE start
        /\ seen' = [k \in Key |-> (IF Changed THEN 0 ELSE seen[k])
                                  + (IF k = di.entry THEN 1 ELSE 0)]
    BY <1>4, Zenon DEF redisClusterNodeNext
  <1> HIDE DEF di
  <1>6. iter' = [ht |-> object, di |-> di, route_version |-> route_version,
                 retries_left |-> Current.retries_left]
    <2> DEFINE cur == Current
               left == Current.retries_left
               old == Current.di
    <2> HIDE DEF cur, left, old
    <2>1. cur = [ht |-> object, di |-> old, route_version |-> route_version,
                 retries_left |-> left]
      BY <1>2, Zenon DEF cur, left, old
    <2>2. iter' = [cur EXCEPT !.di = di]
      BY <1>5, Zenon DEF cur
    <2>3. iter' = [ht |-> object, di |-> di, route_version |-> route_version,
                   retries_left |-> left]
      BY <2>1, <2>2, Zenon
    <2> QED
      BY <2>3, Zenon DEF left
  <1>7. Current.ht = object
    BY <1>2
  <1> QED
    BY <1>2, <1>3, <1>5, <1>6, <1>7, Zenon DEF di

LEMMA NodeNextInv ==
  ASSUME Inv, redisClusterNodeNext
  PROVE  Inv'
  <1>0. iter # NULL /\ IterOK
    BY Zenon DEF redisClusterNodeNext, Iterating, Inv
  <1>1. CASE iter.retries_left <= 0
    <2>1. UNCHANGED <<nodes, object, route_version, iter, start, seen>>
      BY <1>1, Zenon DEF redisClusterNodeNext
    <2> QED
      BY <2>1, Zenon DEF Inv, IterOK, Known
  <1>2. CASE iter.retries_left > 0
    <2> DEFINE di == dictNext(Current.di, nodes)
               left == Current.retries_left
    <2>1. /\ iter' = [ht |-> object, di |-> di, route_version |-> route_version,
                      retries_left |-> left]
          /\ di = [index |-> di.index, entry |-> di.entry, nextEntry |-> di.nextEntry]
          /\ di.entry \in Known /\ di.nextEntry \in Known
          /\ left \in {0, 1}
          /\ start' = IF Changed THEN DictKeys(nodes) ELSE start
          /\ seen' = [k \in Key |-> (IF Changed THEN 0 ELSE seen[k])
                                    + (IF k = di.entry THEN 1 ELSE 0)]
          /\ UNCHANGED <<nodes, object, route_version>>
      BY <1>2, NodeNextEffect, Zenon
    <2> HIDE DEF di, left
    <2>2. Known \subseteq Key \union {NULL} /\ DictKeys(nodes) \subseteq Key
      BY KeysAreKeys, Zenon DEF Inv, Known
    <2>3. iter'.ht = object /\ iter'.di = di /\ iter'.route_version = route_version
          /\ iter'.retries_left = left
      BY <2>1, Zenon
    <2>4. IterOK'
      <3>1. object \in Nat /\ object > 0 /\ route_version \in Nat
        BY <1>0, NodeIteratorAssumption DEF IterOK, Inv
      <3> QED
        BY <2>1, <2>2, <2>3, <3>1 DEF IterOK, Known
    <2>5. start' \subseteq Key
      BY <2>1, <2>2, Zenon DEF Inv
    <2>6. seen' \in [Key -> Nat]
      BY <2>1 DEF Inv
    <2> QED
      BY <2>1, <2>4, <2>5, <2>6, Zenon DEF Inv
  <1>3. iter.retries_left \in {0, 1}
    BY <1>0, Zenon DEF IterOK
  <1> QED
    BY <1>1, <1>2, <1>3

LEMMA NextInv == Inv /\ [Next]_vars => Inv'
  <1> SUFFICES ASSUME Inv, [Next]_vars PROVE Inv'
    BY Zenon
  <1>1. ASSUME NEW k \in Configured, NEW wellFormed \in BOOLEAN, NEW oom \in OOM,
               redisClusterSetOptionAddNode(k, wellFormed, oom)
        PROVE  Inv'
    BY <1>1, AddNodeInv, Zenon
  <1>2. ASSUME NEW k \in Key, NEW oom \in OOM, getNodeFromRedirectReply(k, oom)
        PROVE  Inv'
    BY <1>2, RedirectInv, Zenon
  <1>3. ASSUME NEW m \in Maps, updateNodesAndSlotmap(m) PROVE Inv'
    BY <1>3, UpdateInv, Zenon
  <1>4. CASE redisClusterInitNodeIterator
    BY <1>4, InitIteratorInv, Zenon
  <1>5. CASE redisClusterNodeNext
    BY <1>5, NodeNextInv, Zenon
  <1>6. CASE UNCHANGED vars
    BY <1>6, Zenon DEF vars, Inv, IterOK, Known
  <1> QED
    BY <1>1, <1>2, <1>3, <1>4, <1>5, <1>6, Zenon DEF Next

LEMMA SpecInv == Spec => []Inv
  BY InitInv, NextInv, PTL DEF Spec

LEMMA InvDictIsSet == Inv => DictIsSet
  <1> SUFFICES ASSUME Inv PROVE DictIsSet
    BY Zenon
  <1>1. DictOK(nodes)
    BY Zenon DEF Inv
  <1>2. /\ nodes.size \in Nat
        /\ nodes.table \in [Buckets(nodes) -> Seq(Key)]
        /\ \A b \in Buckets(nodes) : IsInjective(nodes.table[b])
    BY <1>1, BucketsPlaced, Zenon
  <1>3. nodes.size \in {0} \union {Doubled(nodes.size)[k] : k \in 0 .. nodes.size}
    BY <1>1, Zenon DEF DictOK, Sizes
  <1>4. nodes.used \in 0 .. nodes.size
    <2>1. Cardinality(DictKeys(nodes)) \in Nat
      BY <1>1, FS_CardinalityType, Zenon DEF DictOK
    <2> QED
      BY <1>1, <1>2, <2>1 DEF DictOK
  <1>5. TypeOK
    BY <1>2, <1>3, <1>4, Zenon DEF TypeOK, Inv, IterOK
  <1>6. ASSUME NEW k \in DictKeys(nodes) PROVE dictFind(nodes, k)
    <2>1. PICK b \in Buckets(nodes) : k \in Range(nodes.table[b])
      BY Zenon DEF DictKeys
    <2>2. dictHash(k, nodes.size) = b
      BY <1>1, <2>1, Zenon DEF DictOK, Placed, Buckets
    <2>3. nodes.size # 0
      BY <1>2 DEF Buckets
    <2> QED
      BY <2>1, <2>2, <2>3, Zenon DEF dictFind
  <1> QED
    BY <1>1, <1>2, <1>5, <1>6, Zenon DEF DictIsSet, DictOK

(***************************************************************************)
(* Through additions, expansions, failed allocations and replacements, the *)
(* hash table holds each node once and in the bucket in which dictFind     *)
(* looks for it, and used counts the nodes (dict.c:91-161), whatever the   *)
(* keys, the initial size and the maps.                                    *)
(***************************************************************************)
THEOREM DictIsASet == Spec => []DictIsSet
  BY SpecInv, InvDictIsSet, PTL

LEMMA StepKeepsNodes ==
  ASSUME Inv, [Next]_vars, object' = object
  PROVE  /\ DictKeys(nodes) \subseteq DictKeys(nodes')
         /\ Cardinality(DictKeys(nodes')) <= Cardinality(DictKeys(nodes)) + 1
  <1>0. IsFiniteSet(DictKeys(nodes)) /\ Cardinality(DictKeys(nodes)) \in Nat
    BY FS_CardinalityType, Zenon DEF Inv, DictOK
  <1>1. ASSUME NEW key \in Key, Added(nodes', nodes, key)
        PROVE  /\ DictKeys(nodes) \subseteq DictKeys(nodes')
               /\ Cardinality(DictKeys(nodes')) <= Cardinality(DictKeys(nodes)) + 1
    <2>1. CASE DictKeys(nodes') = DictKeys(nodes)
      BY <1>0, <2>1
    <2>2. CASE DictKeys(nodes') = DictKeys(nodes) \union {key} /\ key \notin DictKeys(nodes)
      <3>1. Cardinality(DictKeys(nodes) \union {key}) = Cardinality(DictKeys(nodes)) + 1
        BY <1>0, <2>2, FS_AddElement, Zenon
      <3> QED
        BY <1>0, <2>2, <3>1
    <2> QED
      BY <1>1, <2>1, <2>2, Zenon DEF Added
  <1>2. CASE nodes' = nodes
    BY <1>0, <1>2
  <1>3. ASSUME NEW k \in Configured, NEW wellFormed \in BOOLEAN, NEW oom \in OOM,
               redisClusterSetOptionAddNode(k, wellFormed, oom)
        PROVE  nodes' = nodes \/ \E key \in Key : Added(nodes', nodes, key)
    <2>1. k \in Key
      BY NodeIteratorAssumption, Zenon
    <2>2. nodes' = dictAdd(nodes, k, oom).ht \/ nodes' = nodes
      BY <1>3, Zenon DEF redisClusterSetOptionAddNode, SetNodes
    <2>3. Added(dictAdd(nodes, k, oom).ht, nodes, k)
      BY <2>1, AddOK, Zenon DEF Inv
    <2> QED
      BY <2>1, <2>2, <2>3, Zenon
  <1>4. ASSUME NEW k \in Key, NEW oom \in OOM, getNodeFromRedirectReply(k, oom)
        PROVE  \E key \in Key : Added(nodes', nodes, key)
    <2>1. nodes' = dictAdd(nodes, k, oom).ht
      BY <1>4, Zenon DEF getNodeFromRedirectReply, SetNodes
    <2>2. Added(dictAdd(nodes, k, oom).ht, nodes, k)
      BY AddOK, Zenon DEF Inv
    <2> QED
      BY <2>1, <2>2, Zenon
  <1>5. ASSUME NEW m \in Maps PROVE ~ updateNodesAndSlotmap(m)
    BY DEF updateNodesAndSlotmap, Inv
  <1>6. redisClusterInitNodeIterator => nodes' = nodes
    BY Zenon DEF redisClusterInitNodeIterator
  <1>7. redisClusterNodeNext => nodes' = nodes
    BY Zenon DEF redisClusterNodeNext
  <1>8. UNCHANGED vars => nodes' = nodes
    BY Zenon DEF vars
  <1>9. nodes' = nodes \/ \E key \in Key : Added(nodes', nodes, key)
    BY <1>3, <1>4, <1>5, <1>6, <1>7, <1>8, Zenon DEF Next
  <1> QED
    BY <1>1, <1>2, <1>9, Zenon

(***************************************************************************)
(* As long as cc->nodes is the same dict, no step takes a node from it,    *)
(* and none adds more than one (dict.c:141-161).                           *)
(***************************************************************************)
THEOREM NodesKept == Spec => AdditionsKeepNodes
  BY SpecInv, StepKeepsNodes, PTL DEF Spec, AdditionsKeepNodes

LEMMA NodeNextLive ==
  ASSUME Inv, redisClusterNodeNext, last' # NULL
  PROVE  last'.object = object /\ last'.key \in DictKeys(nodes)
  <1>0. iter.retries_left \in {0, 1}
    BY Zenon DEF redisClusterNodeNext, Iterating, Inv, IterOK
  <1>1. CASE iter.retries_left <= 0
    BY <1>1, Zenon DEF redisClusterNodeNext
  <1>2. CASE iter.retries_left > 0
    <2> DEFINE di == dictNext(Current.di, nodes)
    <2>1. /\ di.entry \in Known
          /\ last' = IF di.entry = NULL THEN NULL ELSE [object |-> object, key |-> di.entry]
      BY <1>2, NodeNextEffect, Zenon
    <2> HIDE DEF di
    <2> QED
      BY <2>1, Zenon DEF Known
  <1> QED
    BY <1>0, <1>1, <1>2

(***************************************************************************)
(* redisClusterNodeNext never returns a node of a dict that an update has  *)
(* freed (hircluster.c:4520-4533), with any number of updates and          *)
(* redirects in between.                                                   *)
(***************************************************************************)
THEOREM LiveNodesReturned == Spec => ReturnsLiveNodes
  BY SpecInv, NodeNextLive, PTL DEF Spec, ReturnsLiveNodes

(***************************************************************************)
(* Every action keeps Walk.                                                *)
(***************************************************************************)
LEMMA InitWalk == Init => Walk
  <1> SUFFICES ASSUME Init PROVE Walk
    BY Zenon
  <1>1. EachNodeOnce
    BY DEF Init, EachNodeOnce
  <1>2. iter = NULL
    BY Zenon DEF Init
  <1> QED
    BY <1>1, <1>2, Zenon DEF Walk

(* An addition that does not expand the table: the place moves by one if   *)
(* the new entry is put on the chain it is in.                             *)
LEMMA PushWalking ==
  ASSUME Inv, Walking, iter # NULL, NEW k \in Key, k \notin DictKeys(nodes),
         nodes.size # 0, nodes'.size = nodes.size,
         nodes'.table = Push(nodes.table, k, nodes.size),
         DictKeys(nodes') = DictKeys(nodes) \union {k},
         UNCHANGED <<iter, start, seen>>
  PROVE  Walking'
  <1> DEFINE size == nodes.size
             t == nodes.table
             u == Push(t, k, size)
             b == dictHash(k, size)
             w == <<k>> \o t[b]
  <1>0. /\ size \in Nat \ {0}
        /\ t \in [0 .. size - 1 -> Seq(Key)]
        /\ Buckets(nodes) = 0 .. size - 1 /\ Buckets(nodes)' = 0 .. size - 1
    BY BucketsPlaced, Zenon DEF Inv, Buckets
  <1>1. b \in 0 .. size - 1
    BY <1>0, HashIsBucket, Zenon
  <1>2. /\ u \in [0 .. size - 1 -> Seq(Key)]
        /\ u[b] = w
        /\ \A h \in 0 .. size - 1 : h # b => u[h] = t[h]
    <2> HIDE DEF t, size
    <2> QED
      BY <1>0, PushIs, ZenonT(30)
  <1>3. t[b] \in Seq(Key)
    BY <1>0, <1>1, Zenon
  <1>4. /\ w \in Seq(Key)
        /\ Len(w) = Len(t[b]) + 1
        /\ w[1] = k
        /\ \A p \in 1 .. Len(t[b]) : w[p + 1] = t[b][p]
    <2> DEFINE v == t[b]
    <2> HIDE DEF v
    <2>1. v \in Seq(Key)
      BY <1>3, Zenon DEF v
    <2>2. /\ <<k>> \o v \in Seq(Key)
          /\ Len(<<k>> \o v) = Len(v) + 1
          /\ (<<k>> \o v)[1] = k
          /\ \A p \in 1 .. Len(v) : (<<k>> \o v)[p + 1] = v[p]
      BY <2>1, PutBefore
    <2> QED
      BY <2>2, Zenon DEF v
  <1>5. \A x : x \in Range(w) <=> x = k \/ x \in Range(t[b])
    <2> DEFINE v == t[b]
    <2> HIDE DEF v
    <2>1. v \in Seq(Key)
      BY <1>3, Zenon DEF v
    <2>2. \A x : x \in Range(<<k>> \o v) <=> x = k \/ x \in Range(v)
      BY <2>1, PutBeforeElements, Zenon
    <2> QED
      BY <2>2, Zenon DEF v
  <1>6. k \notin start /\ seen[k] = 0 /\ start \subseteq DictKeys(nodes)
    BY Zenon DEF Walking
  <1>7. nodes'.table = u /\ nodes'.size = size
    BY Zenon
  <1>8. (start \subseteq DictKeys(nodes))' /\ (\A x \in Key \ DictKeys(nodes) : seen[x] = 0)'
    BY Zenon DEF Walking
  <1>9. CASE NotBegun(iter.di)
    BY <1>8, <1>9, Zenon DEF Walking, NotBegun
  <1>10. CASE \E p \in DOMAIN nodes.table[iter.di.index] : At(iter.di, p)
    <2> DEFINE di == iter.di
               i == di.index
               chain == t[i]
    <2>1. PICK p \in DOMAIN nodes.table[iter.di.index] : At(iter.di, p)
      BY <1>10, Zenon
    <2>2. /\ i \in 0 .. size - 1
          /\ p \in DOMAIN chain
          /\ di.entry = chain[p]
          /\ di.nextEntry = IF p < Len(chain) THEN chain[p + 1] ELSE NULL
          /\ \A q \in DOMAIN chain :
               IF q > p THEN seen[chain[q]] = 0
               ELSE chain[q] \in start => seen[chain[q]] = 1
          /\ \A h \in 0 .. size - 1 : \A x \in Range(t[h]) :
               /\ h > i => seen[x] = 0
               /\ h < i /\ x \in start => seen[x] = 1
      BY <1>0, <2>1, Zenon DEF At
    <2> HIDE DEF t, u, w, b, size, di, i
    <2>3. chain \in Seq(Key) /\ p \in 1 .. Len(chain)
      BY <1>0, <2>2
    <2>4. \A h \in 0 .. size - 1 : \A x \in Range(u[h]) :
               /\ h > i => seen[x] = 0
               /\ h < i /\ x \in start => seen[x] = 1
      BY <1>1, <1>2, <1>5, <1>6, <2>2, ZenonT(30)
    <2> DEFINE r0 == IF i = b THEN p + 1 ELSE p
               new == u[i]
    <2>5. /\ r0 \in DOMAIN new
          /\ di.entry = new[r0]
          /\ di.nextEntry = IF r0 < Len(new) THEN new[r0 + 1] ELSE NULL
          /\ \A q \in DOMAIN new :
               IF q > r0 THEN seen[new[q]] = 0
               ELSE new[q] \in start => seen[new[q]] = 1
      <3>1. CASE i # b
        <4>1. new = chain /\ r0 = p
          BY <1>2, <2>2, <3>1, Zenon
        <4> HIDE DEF new, r0
        <4> QED
          BY <2>2, <4>1, Zenon
      <3>2. CASE i = b
        <4>1. new = w /\ r0 = p + 1
          BY <1>2, <3>2, Zenon
        <4>2. /\ new \in Seq(Key) /\ Len(new) = Len(chain) + 1 /\ new[1] = k
              /\ \A q \in 1 .. Len(chain) : new[q + 1] = chain[q]
          BY <1>4, <3>2, <4>1, Zenon
        <4> HIDE DEF new, r0, chain
        <4>3. r0 \in DOMAIN new /\ new[r0] = chain[p] /\ DOMAIN new = 1 .. Len(chain) + 1
          BY <2>3, <4>1, <4>2
        <4>4. di.nextEntry = IF r0 < Len(new) THEN new[r0 + 1] ELSE NULL
          <5>1. CASE p < Len(chain)
            <6>1. p + 1 \in 1 .. Len(chain)
              BY <2>3, <5>1
            <6>2. new[(p + 1) + 1] = chain[p + 1] /\ r0 < Len(new)
              BY <2>3, <4>1, <4>2, <6>1
            <6> QED
              BY <2>2, <4>1, <5>1, <6>2, Zenon
          <5>2. CASE ~ (p < Len(chain))
            <6>1. ~ (r0 < Len(new))
              BY <2>3, <4>1, <4>2, <5>2
            <6> QED
              BY <2>2, <5>2, <6>1, Zenon
          <5> QED
            BY <5>1, <5>2, Zenon
        <4>5. ASSUME NEW q \in DOMAIN new
              PROVE  IF q > r0 THEN seen[new[q]] = 0
                     ELSE new[q] \in start => seen[new[q]] = 1
          <5>1. CASE q = 1
            BY <1>6, <2>3, <4>1, <4>2, <5>1, Zenon
          <5>2. CASE q # 1
            <6>1. q - 1 \in 1 .. Len(chain) /\ new[(q - 1) + 1] = chain[q - 1]
              BY <2>3, <4>2, <4>3, <5>2
            <6>2. new[q] = chain[q - 1] /\ q - 1 \in DOMAIN chain /\ (q > r0 <=> q - 1 > p)
              BY <2>3, <4>1, <4>3, <6>1
            <6> QED
              BY <2>2, <6>2, Zenon
          <5> QED
            BY <5>1, <5>2, Zenon
        <4> QED
          BY <2>2, <4>3, <4>4, <4>5, Zenon
      <3> QED
        BY <3>1, <3>2, Zenon
    <2> HIDE DEF r0
    <2>6. PICK r : /\ r \in DOMAIN new
                   /\ di.entry = new[r]
                   /\ di.nextEntry = IF r < Len(new) THEN new[r + 1] ELSE NULL
                   /\ \A q \in DOMAIN new :
                        IF q > r THEN seen[new[q]] = 0
                        ELSE new[q] \in start => seen[new[q]] = 1
      BY <2>5, Zenon
    <2>7. /\ iter'.di = di /\ iter'.di.index = i /\ nodes'.table[iter'.di.index] = new
          /\ Buckets(nodes)' = 0 .. size - 1 /\ nodes'.table = u
          /\ start' = start /\ seen' = seen
      BY <1>0, <1>7, Zenon DEF di, i
    <2> HIDE DEF new
    <2>8. At(iter.di, r)'
      BY <2>2, <2>4, <2>6, <2>7 DEF At
    <2>9. (\E q \in DOMAIN nodes.table[iter.di.index] : At(iter.di, q))'
      BY <2>6, <2>7, <2>8, Zenon
    <2> QED
      BY <1>8, <2>9, Zenon DEF Walking
  <1> QED
    BY <1>9, <1>10, Zenon DEF Walking

(* The place of an iteration depends on nothing else.                      *)
LEMMA WalkingKept ==
  ASSUME UNCHANGED <<nodes, iter, start, seen>>, Walking
  PROVE  Walking'
  <1>1. NotBegun(iter.di) => NotBegun(iter.di)'
    BY Zenon DEF NotBegun
  <1>2. ASSUME NEW p, At(iter.di, p)
        PROVE  At(iter.di, p)'
    BY <1>2, Zenon DEF At
  <1>3. Buckets(nodes)' = Buckets(nodes) /\ DictKeys(nodes)' = DictKeys(nodes)
    BY Zenon DEF Buckets, DictKeys
  <1> QED
    BY <1>1, <1>2, <1>3, ZenonT(30) DEF Walking

LEMMA AdditionWalk ==
  ASSUME Inv, Walk, NEW k \in Key, Added(nodes', nodes, k) \/ nodes' = nodes,
         grown' = (grown \/ nodes'.size # nodes.size),
         UNCHANGED <<route_version, iter, start, seen, ended, restarted>>
  PROVE  Walk'
  <1>1. EachNodeOnce'
    BY Zenon DEF Walk, EachNodeOnce
  <1>2. (iter # NULL /\ ~restarted => iter.retries_left = 1)'
    BY Zenon DEF Walk
  <1>3. ASSUME iter # NULL, ~restarted, ~grown', ~ended, ~Changed'
        PROVE  Walking'
    <2>1. Walking /\ nodes'.size = nodes.size
      BY <1>3, Zenon DEF Walk, Changed
    <2>2. CASE nodes' = nodes
      BY <2>1, <2>2, WalkingKept, Zenon
    <2>3. CASE nodes' # nodes
      <3>1. /\ k \notin DictKeys(nodes) /\ nodes.size # 0
            /\ DictKeys(nodes') = DictKeys(nodes) \union {k}
            /\ nodes'.table = Push(nodes.table, k, nodes.size)
        BY <2>1, <2>3, Zenon DEF Added
      <3> QED
        BY <1>3, <2>1, <3>1, PushWalking, Zenon
    <2> QED
      BY <2>2, <2>3, Zenon
  <1> QED
    BY <1>1, <1>2, <1>3, Zenon DEF Walk

(* When a bucket is finished, so are the ones before it.                   *)
LEMMA Passed ==
  ASSUME Inv, Walking, iter.di.entry = NULL \/ iter.di.nextEntry = NULL
  PROVE  /\ iter.di.index \in Int /\ iter.di.index >= -1
         /\ \A h \in Buckets(nodes) : \A x \in Range(nodes.table[h]) :
              /\ h > iter.di.index => seen[x] = 0
              /\ h <= iter.di.index /\ x \in start => seen[x] = 1
  <1> DEFINE i == iter.di.index
             chain == nodes.table[i]
  <1>0. /\ Buckets(nodes) \subseteq Nat
        /\ \A h \in Buckets(nodes) : nodes.table[h] \in Seq(Key)
    BY BucketsPlaced, Zenon DEF Inv
  <1>1. CASE NotBegun(iter.di)
    <2>1. i = -1 /\ \A x \in Key : seen[x] = 0
      BY <1>1, Zenon DEF NotBegun
    <2>2. \A h \in Buckets(nodes) : Range(nodes.table[h]) \subseteq Key /\ ~ (h <= -1)
      BY <1>0, ElementType DEF Range
    <2> QED
      BY <2>1, <2>2
  <1>2. CASE \E p \in DOMAIN nodes.table[iter.di.index] : At(iter.di, p)
    <2>1. PICK p \in DOMAIN nodes.table[iter.di.index] : At(iter.di, p)
      BY <1>2, Zenon
    <2>2. /\ i \in Buckets(nodes)
          /\ p \in DOMAIN chain
          /\ iter.di.entry = chain[p]
          /\ iter.di.nextEntry = IF p < Len(chain) THEN chain[p + 1] ELSE NULL
          /\ \A q \in DOMAIN chain :
               IF q > p THEN seen[chain[q]] = 0
               ELSE chain[q] \in start => seen[chain[q]] = 1
          /\ \A h \in Buckets(nodes) : \A x \in Range(nodes.table[h]) :
               /\ h > i => seen[x] = 0
               /\ h < i /\ x \in start => seen[x] = 1
      BY <2>1, Zenon DEF At
    <2>3. chain \in Seq(Key) /\ i \in Nat
      BY <1>0, <2>2, Zenon
    <2> HIDE DEF chain
    <2>4. p \in 1 .. Len(chain) /\ chain[p] \in Key /\ (p < Len(chain) => chain[p + 1] \in Key)
      BY <2>2, <2>3
    <2>5. ~ (p < Len(chain))
      BY <2>2, <2>4, DictAssumption
    <2>6. \A q \in DOMAIN chain : ~ (q > p)
      BY <2>3, <2>4, <2>5
    <2>7. \A x \in Range(chain) : x \in start => seen[x] = 1
      BY <2>2, <2>6, Zenon DEF Range
    <2>8. \A h \in Buckets(nodes) : h <= i => h < i \/ h = i
      BY <1>0, <2>3
    <2>9. i \in Int /\ i >= -1
      BY <2>3
    <2> HIDE DEF i
    <2>10. nodes.table[i] = chain
      BY Zenon DEF chain
    <2>11. \A h \in Buckets(nodes) : \A x \in Range(nodes.table[h]) :
              /\ h > i => seen[x] = 0
              /\ h <= i /\ x \in start => seen[x] = 1
      BY <2>2, <2>7, <2>8, <2>10, ZenonT(30)
    <2> QED
      BY <2>9, <2>11, Zenon DEF i
  <1> QED
    BY <1>1, <1>2, Zenon DEF Walking

(* The iterator comes to an entry that has not been returned.              *)
LEMMA Arrive ==
  ASSUME Inv, Walking, NEW c \in Buckets(nodes), NEW p \in DOMAIN nodes.table[c],
         \A q \in DOMAIN nodes.table[c] :
           IF q >= p THEN seen[nodes.table[c][q]] = 0
           ELSE nodes.table[c][q] \in start => seen[nodes.table[c][q]] = 1,
         \A h \in Buckets(nodes) : \A x \in Range(nodes.table[h]) :
           /\ h > c => seen[x] = 0
           /\ h < c /\ x \in start => seen[x] = 1,
         \A k \in Key : seen[k] <= 1,
         iter'.di = [index |-> c, entry |-> nodes.table[c][p],
                     nextEntry |-> NextEntry(nodes, nodes.table[c][p])],
         seen' = [k \in Key |-> seen[k] + IF k = nodes.table[c][p] THEN 1 ELSE 0],
         UNCHANGED <<nodes, start>>
  PROVE  Walking' /\ \A k \in Key : seen'[k] <= 1
  <1> DEFINE chain == nodes.table[c]
             e == chain[p]
  <1>1. /\ chain \in Seq(Key) /\ IsInjective(chain) /\ c \in Nat
        /\ Buckets(nodes) \subseteq Nat
        /\ \A h \in Buckets(nodes) : nodes.table[h] \in Seq(Key)
    BY BucketsPlaced DEF Inv
  <1>2. e \in Key /\ e \in DictKeys(nodes) /\ seen[e] = 0 /\ e \in Range(chain)
    <2>1. p \in 1 .. Len(chain) /\ p >= p
      BY <1>1
    <2>2. e \in Key
      BY <1>1, <2>1, ElementType, Zenon
    <2> QED
      BY <2>1, <2>2 DEF DictKeys, Range
  <1>3. seen \in [Key -> Nat]
    BY Zenon DEF Inv
  <1>4. seen'[e] = 1 /\ \A k \in Key : k # e => seen'[k] = seen[k]
    <2> HIDE DEF e
    <2>1. seen' = [k \in Key |-> seen[k] + IF k = e THEN 1 ELSE 0]
      BY Zenon DEF e
    <2> QED
      BY <1>2, <1>3, <2>1
  <1>5. \A k \in Key : seen'[k] <= 1
    BY <1>4
  <1>6. (start \subseteq DictKeys(nodes))' /\ (\A k \in Key \ DictKeys(nodes) : seen[k] = 0)'
    <2>1. \A k \in Key \ DictKeys(nodes) : seen'[k] = 0
      BY <1>2, <1>4, Zenon DEF Walking
    <2>2. DictKeys(nodes)' = DictKeys(nodes)
      BY Zenon DEF DictKeys, Buckets
    <2> QED
      BY <2>1, <2>2, Zenon DEF Walking
  <1>7. iter'.di.index = c /\ iter'.di.entry = e
        /\ iter'.di.nextEntry = IF p < Len(chain) THEN chain[p + 1] ELSE NULL
    BY NextEntryIs DEF Inv
  <1>8. ASSUME NEW q \in DOMAIN chain
        PROVE  IF q > p THEN seen'[chain[q]] = 0
               ELSE chain[q] \in start => seen'[chain[q]] = 1
    <2>1. chain[q] \in Key /\ (q = p <=> chain[q] = e) /\ q \in Nat /\ p \in Nat
      BY <1>1, ElementType DEF IsInjective
    <2>2. CASE q = p
      BY <1>4, <2>1, <2>2
    <2>3. CASE q > p
      BY <1>4, <2>1, <2>3
    <2>4. CASE q < p
      <3>a. q \in Nat /\ p \in Nat
        BY <2>1, Zenon
      <3>1. ~(q > p) /\ ~(q >= p) /\ q # p
        <4> HIDE DEF chain, e
        <4> QED
          BY <3>a, <2>4
      <3>2. seen'[chain[q]] = seen[chain[q]]
        BY <1>4, <2>1, <3>1, Zenon
      <3>3. chain[q] \in start => seen[chain[q]] = 1
        BY <3>1, Zenon
      <3> QED
        BY <3>1, <3>2, <3>3, Zenon
    <2>5. q = p \/ q > p \/ q < p
      BY <2>1
    <2> QED
      BY <2>2, <2>3, <2>4, <2>5, Zenon
  <1>9. ASSUME NEW h \in Buckets(nodes), NEW x \in Range(nodes.table[h])
        PROVE  /\ h > c => seen'[x] = 0
               /\ h < c /\ x \in start => seen'[x] = 1
    <2>1. x \in Key
      <3>1. PICK i \in DOMAIN nodes.table[h] : x = nodes.table[h][i]
        BY Zenon DEF Range
      <3>2. nodes.table[h] \in Seq(Key)
        BY <1>1, ZenonT(30)
      <3>3. DOMAIN nodes.table[h] = 1 .. Len(nodes.table[h])
        BY <3>2
      <3> QED
        BY <3>1, <3>2, <3>3, ElementType, Zenon
    <2>2. x = e => h = c
      <3>1. \A g \in Buckets(nodes) : \A y \in Range(nodes.table[g]) :
              dictHash(y, nodes.size) = g
        <4>1. Placed(nodes.table, nodes.size)
          BY Zenon DEF Inv, DictOK
        <4> QED
          BY <4>1, Zenon DEF Placed, Buckets
      <3>2. dictHash(x, nodes.size) = h /\ dictHash(e, nodes.size) = c
        BY <1>2, <3>1, Zenon
      <3> QED
        BY <3>2, Zenon
    <2> QED
      BY <1>1, <1>4, <2>1, <2>2
  <1>10. At(iter.di, p)'
    <2>1. Buckets(nodes)' = Buckets(nodes) /\ nodes'.table[iter'.di.index] = chain
          /\ nodes'.table = nodes.table /\ start' = start
      BY <1>7, Zenon DEF Buckets
    <2> HIDE DEF chain, e
    <2>2. p \in DOMAIN chain /\ e = chain[p]
      BY Zenon DEF chain, e
    <2>3. \A q \in DOMAIN chain :
            IF q > p THEN seen'[chain[q]] = 0
            ELSE chain[q] \in start' => seen'[chain[q]] = 1
      BY <1>8, <2>1, Zenon
    <2>4. \A h \in Buckets(nodes)' : \A x \in Range(nodes'.table[h]) :
            /\ h > iter'.di.index => seen'[x] = 0
            /\ h < iter'.di.index /\ x \in start' => seen'[x] = 1
      BY <1>7, <1>9, <2>1, ZenonT(30)
    <2>5. iter'.di.index \in Buckets(nodes)'
      BY <1>7, <2>1, Zenon
    <2> DEFINE now == nodes'.table[iter'.di.index]
    <2>6. now = chain
      BY <2>1, Zenon
    <2>7. /\ p \in DOMAIN now
          /\ iter'.di.entry = now[p]
          /\ iter'.di.nextEntry = IF p < Len(now) THEN now[p + 1] ELSE NULL
      <3> HIDE DEF now
      <3> QED
        BY <1>7, <2>2, <2>6, Zenon
    <2>8. \A q \in DOMAIN now :
            IF q > p THEN seen'[now[q]] = 0
            ELSE now[q] \in start' => seen'[now[q]] = 1
      <3> HIDE DEF now
      <3> QED
        BY <2>3, <2>6, ZenonT(30)
    <2> QED
      BY ONLY <2>4, <2>5, <2>7, <2>8, ZenonT(30) DEF At
  <1>11. (\E q \in DOMAIN nodes.table[iter.di.index] : At(iter.di, q))'
    BY <1>7, <1>10, Zenon
  <1> QED
    BY <1>5, <1>6, <1>11, Zenon DEF Walking

LEMMA WalkingNext ==
  ASSUME Inv, Walking, iter # NULL, \A k \in Key : seen[k] <= 1,
         iter'.di = dictNext(iter.di, nodes),
         seen' = [k \in Key |-> seen[k] + IF k = iter'.di.entry THEN 1 ELSE 0],
         UNCHANGED <<nodes, start>>
  PROVE  /\ \A k \in Key : seen'[k] <= 1
         /\ iter'.di.entry # NULL => Walking'
         /\ iter'.di.entry = NULL => \A k \in start : seen'[k] = 1
  <1> DEFINE n == iter'.di
             di == iter.di
  <1>0. di = [index |-> di.index, entry |-> di.entry, nextEntry |-> di.nextEntry]
    BY Zenon DEF Inv, IterOK
  <1>1. InChain(n, di, nodes) \/ (\E b \in Buckets(nodes) : InBucket(n, di, nodes, b))
        \/ AtEnd(n, di, nodes)
    BY <1>0, NextCases, Zenon DEF Inv
  <1>2. /\ Buckets(nodes) \subseteq Nat
        /\ \A h \in Buckets(nodes) : nodes.table[h] \in Seq(Key)
    BY BucketsPlaced, Zenon DEF Inv
  <1>3. CASE InChain(n, di, nodes)
    <2>1. /\ di.entry # NULL /\ di.nextEntry # NULL
          /\ n = [index |-> di.index, entry |-> di.nextEntry,
                  nextEntry |-> NextEntry(nodes, di.nextEntry)]
      BY <1>3, Zenon DEF InChain
    <2>2. PICK p \in DOMAIN nodes.table[di.index] : At(di, p)
      BY <2>1, Zenon DEF Walking, NotBegun
    <2> DEFINE c == di.index
               chain == nodes.table[c]
    <2>3. /\ c \in Buckets(nodes)
          /\ p \in DOMAIN chain
          /\ di.nextEntry = IF p < Len(chain) THEN chain[p + 1] ELSE NULL
          /\ \A q \in DOMAIN chain :
               IF q > p THEN seen[chain[q]] = 0
               ELSE chain[q] \in start => seen[chain[q]] = 1
          /\ \A h \in Buckets(nodes) : \A x \in Range(nodes.table[h]) :
               /\ h > c => seen[x] = 0
               /\ h < c /\ x \in start => seen[x] = 1
      BY <2>2, Zenon DEF At
    <2>4. chain \in Seq(Key)
      BY <1>2, <2>3, Zenon
    <2>5. p < Len(chain) /\ di.nextEntry = chain[p + 1]
      BY <2>1, <2>3, Zenon
    <2>6. p + 1 \in DOMAIN chain /\ \A q \in DOMAIN chain : q >= p + 1 <=> q > p
      <3> HIDE DEF chain
      <3> QED
        BY <2>3, <2>4, <2>5
    <2>7. \A q \in DOMAIN chain :
            IF q >= p + 1 THEN seen[chain[q]] = 0
            ELSE chain[q] \in start => seen[chain[q]] = 1
      BY <2>3, <2>6, Zenon
    <2>8. n = [index |-> c, entry |-> chain[p + 1], nextEntry |-> NextEntry(nodes, chain[p + 1])]
      BY <2>1, <2>5, Zenon
    <2>9. seen' = [k \in Key |-> seen[k] + IF k = chain[p + 1] THEN 1 ELSE 0]
      <3>1. n.entry = chain[p + 1]
        BY <2>8
      <3>2. seen' = [k \in Key |-> seen[k] + IF k = n.entry THEN 1 ELSE 0]
        BY Zenon
      <3> QED
        BY <3>1, <3>2, Zenon
    <2>10. Walking' /\ \A k \in Key : seen'[k] <= 1
      BY <2>3, <2>6, <2>7, <2>8, <2>9, Arrive, ZenonT(30)
    <2>11. n.entry # NULL
      BY <2>1
    <2> QED
      BY <2>10, <2>11, Zenon
  <1>4. ASSUME NEW b \in Buckets(nodes), InBucket(n, di, nodes, b)
        PROVE  n.entry # NULL /\ Walking' /\ \A k \in Key : seen'[k] <= 1
    <2> DEFINE chain == nodes.table[b]
    <2>1. /\ di.entry = NULL \/ di.nextEntry = NULL
          /\ b > di.index /\ chain # << >>
          /\ \A j \in Buckets(nodes) : j > di.index /\ nodes.table[j] # << >> => b <= j
          /\ n = [index |-> b, entry |-> Head(chain), nextEntry |-> NextEntry(nodes, Head(chain))]
      BY <1>4, Zenon DEF InBucket
    <2>2. /\ di.index \in Int /\ di.index >= -1
          /\ \A h \in Buckets(nodes) : \A x \in Range(nodes.table[h]) :
               /\ h > di.index => seen[x] = 0
               /\ h <= di.index /\ x \in start => seen[x] = 1
      BY <2>1, Passed, Zenon
    <2>3. chain \in Seq(Key) /\ b \in Nat
      BY <1>2, Zenon
    <2>4. 1 \in DOMAIN chain /\ Head(chain) = chain[1] /\ chain[1] \in Key
          /\ \A q \in DOMAIN chain : q >= 1
      <3> HIDE DEF chain
      <3> QED
        BY <2>1, <2>3
    <2>5. \A q \in DOMAIN chain :
            IF q >= 1 THEN seen[chain[q]] = 0
            ELSE chain[q] \in start => seen[chain[q]] = 1
      BY <2>1, <2>2, <2>4, Zenon DEF Range
    <2>6. ASSUME NEW h \in Buckets(nodes), NEW x \in Range(nodes.table[h])
          PROVE  /\ h > b => seen[x] = 0
                 /\ h < b /\ x \in start => seen[x] = 1
      <3>1. h \in Nat /\ nodes.table[h] # << >>
        BY <1>2 DEF Range
      <3>2. h > b => h > di.index
        BY <2>1, <2>2, <2>3, <3>1
      <3>3. h < b => h <= di.index
        BY <2>1, <2>2, <2>3, <3>1
      <3> QED
        BY <2>2, <3>2, <3>3, Zenon
    <2>7. n = [index |-> b, entry |-> chain[1], nextEntry |-> NextEntry(nodes, chain[1])]
      BY <2>1, <2>4, Zenon
    <2>8. seen' = [k \in Key |-> seen[k] + IF k = chain[1] THEN 1 ELSE 0]
      <3>1. n.entry = chain[1]
        BY <2>7
      <3>2. seen' = [k \in Key |-> seen[k] + IF k = n.entry THEN 1 ELSE 0]
        BY Zenon
      <3> QED
        BY <3>1, <3>2, ZenonT(30)
    <2>9. Walking' /\ \A k \in Key : seen'[k] <= 1
      BY <2>4, <2>5, <2>6, <2>7, <2>8, Arrive, ZenonT(30)
    <2>10. n.entry # NULL
      BY <2>4, <2>7, DictAssumption
    <2> QED
      BY <2>9, <2>10, Zenon
  <1>5. CASE AtEnd(n, di, nodes)
    <2>1. /\ di.entry = NULL \/ di.nextEntry = NULL
          /\ \A j \in Buckets(nodes) : j > di.index => nodes.table[j] = << >>
          /\ n.entry = NULL
      BY <1>5 DEF AtEnd
    <2>2. \A h \in Buckets(nodes) : \A x \in Range(nodes.table[h]) :
            h <= di.index /\ x \in start => seen[x] = 1
      BY <2>1, Passed, Zenon
    <2>3. \A k \in Key : seen'[k] = seen[k]
      <3>1. seen \in [Key -> Nat]
        BY Zenon DEF Inv
      <3>2. \A k \in Key : k # n.entry
        BY <2>1, DictAssumption, Zenon
      <3> QED
        BY <3>1, <3>2
    <2>4. ASSUME NEW k \in start PROVE seen[k] = 1
      <3>1. k \in DictKeys(nodes)
        BY Zenon DEF Walking
      <3>2. PICK h \in Buckets(nodes) : k \in Range(nodes.table[h])
        BY <3>1, Zenon DEF DictKeys
      <3>3. nodes.table[h] # << >>
        BY <3>2 DEF Range
      <3>4. h <= di.index
        BY <1>2, <2>1, <3>3, Passed
      <3> QED
        BY <2>2, <3>2, <3>4, Zenon
    <2>5. start \subseteq Key
      BY Zenon DEF Inv
    <2> QED
      BY <2>1, <2>3, <2>4, <2>5, Zenon
  <1> QED
    BY <1>1, <1>3, <1>4, <1>5, ZenonT(30)

LEMMA NodeNextWalk ==
  ASSUME Inv, Walk, redisClusterNodeNext
  PROVE  Walk'
  <1>0. iter # NULL /\ ~ended /\ iter.retries_left \in {0, 1}
    BY Zenon DEF redisClusterNodeNext, Iterating, Inv, IterOK
  <1>1. CASE iter.retries_left <= 0
    <2>1. restarted /\ restarted' = restarted /\ iter' = iter
      BY <1>0, <1>1 DEF Walk, redisClusterNodeNext
    <2> QED
      BY <2>1, Zenon DEF Walk, EachNodeOnce
  <1>2. CASE iter.retries_left > 0
    <2> DEFINE n == dictNext(Current.di, nodes)
    <2>1. /\ iter' = [ht |-> object, di |-> n, route_version |-> route_version,
                      retries_left |-> Current.retries_left]
          /\ ended' = (n.entry = NULL)
          /\ restarted' = (restarted \/ Changed)
          /\ grown' = (grown /\ ~Changed)
          /\ start' = IF Changed THEN DictKeys(nodes) ELSE start
          /\ seen' = [k \in Key |-> (IF Changed THEN 0 ELSE seen[k])
                                    + (IF k = n.entry THEN 1 ELSE 0)]
          /\ UNCHANGED <<nodes, object, route_version>>
      BY <1>2, NodeNextEffect, Zenon
    <2>2. CASE Changed \/ restarted
      <3>1. restarted'
        BY <2>1, <2>2, Zenon
      <3> QED
        BY <3>1, Zenon DEF Walk, EachNodeOnce
    <2>3. CASE ~ Changed /\ ~ restarted
      <3>1. Current = iter
        BY <2>3, Zenon DEF Current
      <3>2. n = dictNext(iter.di, nodes) /\ Current.retries_left = iter.retries_left
        BY <3>1, Zenon
      <3> HIDE DEF n
      <3>3. iter'.di = n /\ iter'.retries_left = 1
        BY <2>1, <2>3, <1>0, <3>2, Zenon DEF Walk
      <3>4. /\ start' = start /\ (grown' <=> grown) /\ (ended' <=> n.entry = NULL)
            /\ seen' = [k \in Key |-> seen[k] + IF k = n.entry THEN 1 ELSE 0]
            /\ UNCHANGED <<nodes, start>>
        BY <2>1, <2>3, Zenon
      <3>5. CASE grown
        <4>1. grown'
          BY <3>4, <3>5, Zenon
        <4> QED
          BY <3>3, <4>1, Zenon DEF Walk, EachNodeOnce
      <3>6. CASE ~ grown
        <4>1. Walking /\ \A k \in Key : seen[k] <= 1
          BY <1>0, <2>3, <3>6, Zenon DEF Walk, EachNodeOnce
        <4>2. /\ iter'.di = dictNext(iter.di, nodes)
              /\ seen' = [k \in Key |-> seen[k] + IF k = iter'.di.entry THEN 1 ELSE 0]
          BY <3>2, <3>3, <3>4, ZenonT(30)
        <4>3. /\ \A k \in Key : seen'[k] <= 1
              /\ iter'.di.entry # NULL => Walking'
              /\ iter'.di.entry = NULL => \A k \in start : seen'[k] = 1
          BY <1>0, <3>4, <4>1, <4>2, WalkingNext, ZenonT(30)
        <4>4. ended' <=> iter'.di.entry = NULL
          BY <3>3, <3>4, ZenonT(30)
        <4>5. EachNodeOnce'
          BY <3>4, <4>3, <4>4, Zenon DEF EachNodeOnce
        <4>6. ~ ended' => Walking'
          BY <4>3, <4>4, Zenon
        <4> QED
          BY <3>3, <4>5, <4>6, Zenon DEF Walk
      <3> QED
        BY <3>5, <3>6, Zenon
    <2> QED
      BY <2>2, <2>3, Zenon
  <1> QED
    BY <1>0, <1>1, <1>2

LEMMA InitIteratorWalk ==
  ASSUME Inv, redisClusterInitNodeIterator
  PROVE  Walk'
  <1>1. /\ iter' = [ht |-> object, di |-> dictInitIterator,
                    route_version |-> route_version, retries_left |-> 1]
        /\ start' = DictKeys(nodes) /\ ended' = FALSE /\ nodes' = nodes
        /\ seen' = [k \in Key |-> 0]
    BY Zenon DEF redisClusterInitNodeIterator
  <1>2. iter'.retries_left = 1 /\ iter'.di = dictInitIterator
    BY <1>1, Zenon
  <1>3. iter'.di.index = -1 /\ iter'.di.entry = NULL
    BY <1>2 DEF dictInitIterator
  <1>4. NotBegun(iter.di)'
    BY <1>1, <1>3, Zenon DEF NotBegun
  <1>5. Walking'
    BY <1>1, <1>4, Zenon DEF Walking
  <1>6. EachNodeOnce'
    BY <1>1 DEF EachNodeOnce
  <1> QED
    BY <1>2, <1>5, <1>6, Zenon DEF Walk

LEMMA UpdateWalk ==
  ASSUME Inv, Walk, NEW m \in Maps, updateNodesAndSlotmap(m)
  PROVE  Walk'
  <1>1. /\ UNCHANGED <<iter, start, seen, ended, restarted, grown>>
        /\ route_version' = route_version + 1
    BY Zenon DEF updateNodesAndSlotmap, history
  <1>2. iter # NULL => Changed'
    BY <1>1, NodeIteratorAssumption DEF Inv, IterOK, Changed
  <1>3. EachNodeOnce'
    BY <1>1, Zenon DEF Walk, EachNodeOnce
  <1> QED
    BY <1>1, <1>2, <1>3, Zenon DEF Walk

LEMMA NextWalk == Inv /\ Walk /\ [Next]_vars => Walk'
  <1> SUFFICES ASSUME Inv, Walk, [Next]_vars PROVE Walk'
    BY Zenon
  <1>1. ASSUME NEW k \in Configured, NEW wellFormed \in BOOLEAN, NEW oom \in OOM,
               redisClusterSetOptionAddNode(k, wellFormed, oom)
        PROVE  Walk'
    <2>1. k \in Key
      BY NodeIteratorAssumption, Zenon
    <2>2. nodes' = dictAdd(nodes, k, oom).ht \/ nodes' = nodes
      BY <1>1, Zenon DEF redisClusterSetOptionAddNode, SetNodes
    <2>3. Added(dictAdd(nodes, k, oom).ht, nodes, k)
      BY <2>1, AddOK, Zenon DEF Inv
    <2>4. Added(nodes', nodes, k) \/ nodes' = nodes
      BY <2>2, <2>3, Zenon
    <2>5. /\ grown' = (grown \/ nodes'.size # nodes.size)
          /\ UNCHANGED <<route_version, iter, start, seen, ended, restarted>>
      BY <1>1, Zenon DEF redisClusterSetOptionAddNode, SetNodes, history
    <2> QED
      BY <2>1, <2>4, <2>5, AdditionWalk, Zenon
  <1>2. ASSUME NEW k \in Key, NEW oom \in OOM, getNodeFromRedirectReply(k, oom)
        PROVE  Walk'
    <2>1. nodes' = dictAdd(nodes, k, oom).ht
      BY <1>2, Zenon DEF getNodeFromRedirectReply, SetNodes
    <2>2. Added(dictAdd(nodes, k, oom).ht, nodes, k)
      BY AddOK, Zenon DEF Inv
    <2>3. Added(nodes', nodes, k)
      BY <2>1, <2>2, ZenonT(30)
    <2>4. /\ grown' = (grown \/ nodes'.size # nodes.size)
          /\ UNCHANGED <<route_version, iter, start, seen, ended, restarted>>
      BY <1>2, Zenon DEF getNodeFromRedirectReply, SetNodes, history
    <2> QED
      BY <2>3, <2>4, AdditionWalk, Zenon
  <1>3. ASSUME NEW m \in Maps, updateNodesAndSlotmap(m) PROVE Walk'
    BY <1>3, UpdateWalk, Zenon
  <1>4. CASE redisClusterInitNodeIterator
    BY <1>4, InitIteratorWalk, Zenon
  <1>5. CASE redisClusterNodeNext
    BY <1>5, NodeNextWalk, Zenon
  <1>6. CASE UNCHANGED vars
    <2>1. UNCHANGED <<nodes, route_version, iter, start, seen, ended, restarted, grown>>
      BY <1>6, Zenon DEF vars
    <2>2. Walking => Walking'
      BY <2>1, WalkingKept, ZenonT(30)
    <2> QED
      BY <2>1, <2>2, Zenon DEF Walk, EachNodeOnce, Changed
  <1> QED
    BY <1>1, <1>2, <1>3, <1>4, <1>5, <1>6, Zenon DEF Next

(***************************************************************************)
(* An iteration without a restart or an expansion returns each node that   *)
(* was known at its start once, and none twice, although redirects put     *)
(* new nodes on the chains (dict.c:213-231).                               *)
(***************************************************************************)
THEOREM IterationComplete == Spec => []EachNodeOnce
  <1>1. Inv /\ Walk /\ [Next]_vars => Walk'
    BY NextWalk, Zenon
  <1>2. Spec => []Walk
    BY InitWalk, <1>1, SpecInv, PTL DEF Spec
  <1>3. Walk => EachNodeOnce
    BY Zenon DEF Walk
  <1> QED
    BY <1>2, <1>3, PTL

(***************************************************************************)
(* selectNode: what it has selected after i nodes.                         *)
(***************************************************************************)
Connected(status, n) == n # NULL /\ status[n] = "connected"

Kept(order, status, checkIndex, selected, i) ==
  IF \/ Connected(status, order[i])
     \/ /\ status[order[i]] = "idle"
        /\ \/ selected = NULL
           \/ i - 1 < checkIndex /\ ~Connected(status, selected)
  THEN order[i] ELSE selected

Selected(order, status, checkIndex, a, i) ==
  IF a.found THEN a
  ELSE [selected |-> Kept(order, status, checkIndex, a.selected, i),
        found |-> /\ i - 1 >= checkIndex
                  /\ Connected(status, Kept(order, status, checkIndex, a.selected, i))]

Selects(acc, order, status, checkIndex) ==
  /\ acc[0] = [selected |-> NULL, found |-> FALSE]
  /\ \A i \in 1 .. Len(order) :
       acc[i] = Selected(order, status, checkIndex, acc[i - 1], i)

LEMMA SelectNodeIs ==
  ASSUME NEW ht, InOrder(ht) \in Seq(Key), NEW status, NEW checkIndex
  PROVE  \E acc : /\ Selects(acc, InOrder(ht), status, checkIndex)
                  /\ selectNode(ht, status, checkIndex) = acc[Len(InOrder(ht))].selected
  <1> DEFINE order == InOrder(ht)
             n == Len(order)
             V == [selected : Key \union {NULL}, found : BOOLEAN]
             none == [selected |-> NULL, found |-> FALSE]
             step == [i \in 1 .. n |-> [v \in V |-> Selected(order, status, checkIndex, v, i)]]
             F(g) == [i \in 0 .. n |-> IF i = 0 THEN none
                                       ELSE Selected(order, status, checkIndex, g[i - 1], i)]
             acc == CHOOSE g : g = F(g)
  <1>1. selectNode(ht, status, checkIndex) = acc[n].selected
    BY Zenon DEF selectNode, Selected, Kept, Connected
  <1>2. n \in Nat /\ \A i \in 1 .. n : order[i] \in Key
    OBVIOUS
  <1> HIDE DEF order, n
  <1>3. none \in V
    BY Zenon
  <1>4. ASSUME NEW i \in 1 .. n, NEW v \in V
        PROVE  Selected(order, status, checkIndex, v, i) \in V
    <2> DEFINE k == Kept(order, status, checkIndex, v.selected, i)
               f == i - 1 >= checkIndex /\ Connected(status, k)
    <2>1. k \in Key \union {NULL}
      BY <1>2, Zenon DEF Kept
    <2> HIDE DEF k
    <2>2. f \in BOOLEAN
      BY Zenon
    <2>3. Selected(order, status, checkIndex, v, i)
            = IF v.found THEN v ELSE [selected |-> k, found |-> f]
      BY Zenon DEF Selected, k
    <2> HIDE DEF f
    <2> QED
      BY <2>1, <2>2, <2>3
  <1> HIDE DEF V, none
  <1>5. step \in [1 .. n -> [V -> V]]
    BY <1>4, Zenon
  <1>6. PICK f : Recurses(f, V, none, n, step)
    <2> HIDE DEF step
    <2> QED
      BY <1>2, <1>3, <1>5, Recursion, Zenon
  <1>7. ASSUME NEW i \in 1 .. n
        PROVE  f[i] = Selected(order, status, checkIndex, f[i - 1], i)
    <2>1. f[i] = step[i][f[i - 1]] /\ f[i - 1] \in V
      <3> HIDE DEF step
      <3> QED
        BY <1>2, <1>6 DEF Recurses
    <2> QED
      BY <2>1, Zenon
  <1>8. f = F(f)
    <2>1. f \in [0 .. n -> V] /\ f[0] = none
      BY <1>6, Zenon DEF Recurses
    <2>2. \A i \in 0 .. n : f[i] = IF i = 0 THEN none
                                   ELSE Selected(order, status, checkIndex, f[i - 1], i)
      BY <1>2, <1>7, <2>1
    <2> QED
      BY <2>1, <2>2, Zenon
  <1>9. acc = F(acc)
    <2> HIDE DEF F
    <2> QED
      BY <1>8, Zenon
  <1> HIDE DEF acc
  <1>10. acc[0] = none /\ \A i \in 1 .. n :
           acc[i] = Selected(order, status, checkIndex, acc[i - 1], i)
    BY <1>2, <1>9
  <1>11. Selects(acc, order, status, checkIndex)
    BY <1>10, Zenon DEF Selects, none, n
  <1> QED
    BY <1>1, <1>11, Zenon DEF order, n

(* After i nodes: what is selected is usable, and connected if one of them *)
(* is.                                                                     *)
Usable(a, order, status, i) ==
  /\ a.selected # NULL => \E j \in DOMAIN order : order[j] = a.selected
  /\ a.selected # NULL => status[a.selected] \in {"connected", "idle"}
  /\ a.found => Connected(status, a.selected)
  /\ \A j \in 1 .. i :
       /\ status[order[j]] = "connected" => Connected(status, a.selected)
       /\ status[order[j]] = "idle" => a.selected # NULL

LEMMA UsableStep ==
  ASSUME NEW order \in Seq(Key), NEW status, NEW checkIndex, NEW a,
         NEW i \in 0 .. Len(order), i # Len(order),
         Usable(a, order, status, i)
  PROVE  Usable(Selected(order, status, checkIndex, a, i + 1), order, status, i + 1)
  <1> DEFINE k == Kept(order, status, checkIndex, a.selected, i + 1)
             f == (i + 1) - 1 >= checkIndex /\ Connected(status, k)
             e == order[i + 1]
             b == Selected(order, status, checkIndex, a, i + 1)
  <1>0. /\ i + 1 \in 1 .. Len(order) /\ DOMAIN order = 1 .. Len(order)
        /\ \A j \in 1 .. i + 1 : j \in 1 .. i \/ j = i + 1
    OBVIOUS
  <1>1. e \in Key /\ e # NULL /\ i + 1 \in DOMAIN order
    BY <1>0, ElementType, DictAssumption, ZenonT(30)
  <1>2. b = IF a.found THEN a ELSE [selected |-> k, found |-> f]
    BY Zenon DEF Selected
  <1>3. CASE a.found
    <2>1. b = a /\ Connected(status, a.selected)
      BY <1>2, <1>3, Zenon DEF Usable
    <2> HIDE DEF b
    <2>2. a.selected # NULL
      BY <2>1, Zenon DEF Connected
    <2>3. Usable(a, order, status, i + 1)
      BY <2>1, <2>2, Zenon DEF Usable
    <2> QED
      BY <2>1, <2>3, Zenon DEF b
  <1>4. CASE ~ a.found
    <2>1. b = [selected |-> k, found |-> f]
      BY <1>2, <1>4, ZenonT(30)
    <2>2. \/ k = e /\ Connected(status, e)
          \/ k = e /\ status[e] = "idle" /\ ~ Connected(status, a.selected)
          \/ /\ k = a.selected /\ ~ Connected(status, e)
             /\ status[e] = "idle" => a.selected # NULL
      <3>1. k = IF \/ Connected(status, e)
                   \/ /\ status[e] = "idle"
                      /\ \/ a.selected = NULL
                         \/ (i + 1) - 1 < checkIndex /\ ~ Connected(status, a.selected)
                THEN e ELSE a.selected
        BY Zenon DEF Kept
      <3>2. a.selected = NULL => ~ Connected(status, a.selected)
        BY Zenon DEF Connected
      <3> HIDE DEF k, e
      <3> QED
        BY <3>1, <3>2, Zenon
    <2>a. f => Connected(status, k)
      BY Zenon
    <2>b. b.selected = k /\ b.found = f
      <3> HIDE DEF b, f, k
      <3> QED
        BY <2>1, Zenon
    <2>3. b.selected = k /\ (b.found => Connected(status, k))
      <3> HIDE DEF b, f, k
      <3> QED
        BY <2>a, <2>b, Zenon
    <2> HIDE DEF b, f, k, e
    <2>4. order[i + 1] = e
      BY Zenon DEF e
    <2>5. k # NULL => \E j \in DOMAIN order : order[j] = k
      BY <1>1, <2>2, <2>4, ZenonT(30) DEF Usable
    <2>6. k # NULL => status[k] \in {"connected", "idle"}
      BY <2>2, Zenon DEF Usable, Connected
    <2>7. ASSUME NEW j \in 1 .. i + 1
          PROVE  /\ status[order[j]] = "connected" => Connected(status, k)
                 /\ status[order[j]] = "idle" => k # NULL
      <3>1. CASE j = i + 1
        BY <1>1, <2>2, <2>4, <3>1, Zenon DEF Connected
      <3>2. CASE j \in 1 .. i
        <4>1. /\ status[order[j]] = "connected" => Connected(status, a.selected)
              /\ status[order[j]] = "idle" => a.selected # NULL
          BY <3>2, Zenon DEF Usable
        <4> QED
          BY <1>1, <2>2, <4>1, ZenonT(30)
      <3> QED
        BY <1>0, <3>1, <3>2, Zenon
    <2> QED
      BY <2>3, <2>5, <2>6, <2>7, Zenon DEF Usable, b
  <1> QED
    BY <1>3, <1>4, Zenon

LEMMA SelectsUsable ==
  ASSUME NEW order \in Seq(Key), NEW status, NEW checkIndex, NEW acc,
         Selects(acc, order, status, checkIndex)
  PROVE  Usable(acc[Len(order)], order, status, Len(order))
  <1> DEFINE n == Len(order)
             P == {i \in 0 .. n : Usable(acc[i], order, status, i)}
  <1>0. n \in Nat
    OBVIOUS
  <1>1. 0 \in P
    <2>1. acc[0].selected = NULL /\ acc[0].found = FALSE
      BY DEF Selects
    <2>2. Usable(acc[0], order, status, 0)
      BY <2>1 DEF Usable
    <2> QED
      BY <1>0, <2>2
  <1>2. ASSUME NEW i \in 0 .. n, i # n, i \in P PROVE i + 1 \in P
    <2>1. i + 1 \in 1 .. n /\ (i + 1) - 1 = i /\ i + 1 \in 0 .. n
      BY <1>0, <1>2
    <2>2. acc[i + 1] = Selected(order, status, checkIndex, acc[i], i + 1)
      BY <2>1, Zenon DEF Selects
    <2>3. Usable(acc[i + 1], order, status, i + 1)
      BY <1>2, <2>2, UsableStep, Zenon
    <2> QED
      BY <2>1, <2>3, Zenon
  <1> HIDE DEF P, n
  <1>3. \A i \in 0 .. n : i \in P
    BY <1>0, <1>1, <1>2, IntervalInduction, ZenonT(30)
  <1>4. n \in P
    BY <1>0, <1>3
  <1> QED
    BY <1>4, Zenon DEF P, n

(* The node in place p is selected for index p - 1 if it is connected.     *)
LEMMA SelectsEach ==
  ASSUME NEW order \in Seq(Key), NEW status, NEW p \in 1 .. Len(order), NEW acc,
         Selects(acc, order, status, p - 1), status[order[p]] = "connected"
  PROVE  acc[Len(order)].selected = order[p]
  <1> DEFINE n == Len(order)
             P == {i \in 0 .. n : /\ i < p => ~ acc[i].found
                                  /\ i >= p => acc[i].found /\ acc[i].selected = order[p]}
  <1>0. n \in Nat /\ p \in 1 .. n /\ Connected(status, order[p])
    BY ElementType, DictAssumption DEF Connected
  <1>1. 0 \in P
    BY <1>0 DEF Selects
  <1>2. ASSUME NEW i \in 0 .. n, i # n, i \in P PROVE i + 1 \in P
    <2>1. i + 1 \in 1 .. n /\ (i + 1) - 1 = i /\ i + 1 \in 0 .. n
      BY <1>0, <1>2
    <2> DEFINE a == acc[i]
               k == Kept(order, status, p - 1, a.selected, i + 1)
               f == (i + 1) - 1 >= p - 1 /\ Connected(status, k)
    <2>2. acc[i + 1] = Selected(order, status, p - 1, a, i + 1)
      BY <2>1, Zenon DEF Selects
    <2>3. acc[i + 1] = IF a.found THEN a ELSE [selected |-> k, found |-> f]
      BY <2>2, Zenon DEF Selected
    <2> HIDE DEF a
    <2>4. CASE i >= p
      <3>1. a.found /\ a.selected = order[p]
        BY <1>2, <2>4, Zenon DEF a
      <3> HIDE DEF k, f
      <3> QED
        BY <2>1, <2>3, <2>4, <3>1
    <2>5. CASE i + 1 = p
      <3>1. ~ a.found
        BY <1>0, <1>2, <2>5 DEF a
      <3>2. k = order[p]
        BY <1>0, <2>5, ZenonT(30) DEF Kept
      <3> HIDE DEF k
      <3>3. f
        BY <1>0, <2>1, <2>5, <3>2
      <3>4. acc[i + 1] = [selected |-> k, found |-> f]
        BY <2>3, <3>1, Zenon
      <3> HIDE DEF f
      <3>5. acc[i + 1].found /\ acc[i + 1].selected = order[p]
        BY <3>2, <3>3, <3>4
      <3> QED
        BY <1>0, <2>1, <2>5, <3>5
    <2>6. CASE i + 1 < p
      <3>1. ~ a.found
        BY <1>0, <1>2, <2>6 DEF a
      <3> HIDE DEF k
      <3>2. ~ f
        BY <1>0, <2>6
      <3>3. acc[i + 1] = [selected |-> k, found |-> f]
        BY <2>3, <3>1, Zenon
      <3> HIDE DEF f
      <3>4. ~ acc[i + 1].found
        BY <3>2, <3>3
      <3> QED
        BY <1>0, <2>1, <2>6, <3>4
    <2> QED
      BY <1>0, <2>4, <2>5, <2>6
  <1> HIDE DEF P, n
  <1>3. \A i \in 0 .. n : i \in P
    BY <1>0, <1>1, <1>2, IntervalInduction, Zenon
  <1>4. n \in P
    BY <1>0, <1>3
  <1> QED
    BY <1>0, <1>4 DEF P, n

LEMMA SelectionUsable ==
  ASSUME Inv, NEW status \in [DictKeys(nodes) -> Status]
  PROVE  LET With(st) == {k \in DictKeys(nodes) : status[k] = st}
             picked == {selectNode(nodes, status, i) : i \in 0 .. nodes.used - 1}
         IN CASE With("connected") # {} -> picked = With("connected")
              [] With("connected") = {} /\ With("idle") # {} ->
                   picked \subseteq With("idle")
              [] OTHER -> picked \subseteq {NULL}
  <1> DEFINE With(st) == {k \in DictKeys(nodes) : status[k] = st}
             picked == {selectNode(nodes, status, i) : i \in 0 .. nodes.used - 1}
             order == InOrder(nodes)
             n == Len(order)
             K == DictKeys(nodes)
  <1>0. DictOK(nodes)
    BY Zenon DEF Inv
  <1>1. order \in Seq(Key) /\ n = nodes.used /\ n \in Nat /\ DOMAIN order = 1 .. n
    <2>1. nodes.size \in Nat /\ Placed(nodes.table, nodes.size)
      BY <1>0, SizesPositive DEF DictOK
    <2>2. order \in Seq(Key)
      BY <2>1, InOrderIs, Zenon
    <2>3. n = nodes.used
      BY <1>0, InOrderLen, Zenon
    <2> HIDE DEF order
    <2> QED
      BY <2>2, <2>3
  <1>2. (\A j \in 1 .. n : order[j] \in K) /\ (\A x \in K : \E j \in 1 .. n : order[j] = x)
    <2>1. nodes.size \in Nat /\ Placed(nodes.table, nodes.size)
      BY <1>0, SizesPositive DEF DictOK
    <2>2. \A x : x \in K <=> Holds(nodes.table, nodes.size, x)
      BY KeysHeld, Zenon
    <2>3. \A x : Has(order, x) <=> x \in K
      BY <2>1, <2>2, InOrderIs, Zenon
    <2> HIDE DEF order, K
    <2> QED
      BY <1>1, <2>3, Zenon DEF Has
  <1>3. NULL \notin K
    BY <1>0, KeysAreKeys, DictAssumption, Zenon
  <1> DEFINE Sel(i) == selectNode(nodes, status, i)
  <1>4. ASSUME NEW i \in 0 .. nodes.used - 1
        PROVE  /\ Sel(i) # NULL => Sel(i) \in K /\ status[Sel(i)] \in {"connected", "idle"}
               /\ \A x \in K : /\ status[x] = "connected" =>
                                    Sel(i) # NULL /\ status[Sel(i)] = "connected"
                               /\ status[x] = "idle" => Sel(i) # NULL
    <2>1. PICK acc : Selects(acc, order, status, i) /\ Sel(i) = acc[n].selected
      BY <1>1, SelectNodeIs, Zenon
    <2>2. Usable(acc[n], order, status, n)
      BY <1>1, <2>1, SelectsUsable, ZenonT(30)
    <2> DEFINE sel == acc[n].selected
    <2>3. /\ sel # NULL => \E j \in DOMAIN order : order[j] = sel
          /\ sel # NULL => status[sel] \in {"connected", "idle"}
          /\ \A j \in 1 .. n :
               /\ status[order[j]] = "connected" => sel # NULL /\ status[sel] = "connected"
               /\ status[order[j]] = "idle" => sel # NULL
      BY <2>2, Zenon DEF Usable, Connected
    <2>4. Sel(i) = sel
      BY <2>1, Zenon
    <2> HIDE DEF Sel, sel, order, n, K
    <2>5. sel # NULL => sel \in K
      BY <1>1, <1>2, <2>3
    <2>6. ASSUME NEW x \in K
          PROVE  /\ status[x] = "connected" => sel # NULL /\ status[sel] = "connected"
                 /\ status[x] = "idle" => sel # NULL
      <3>1. PICK j \in 1 .. n : order[j] = x
        BY <1>2, Zenon
      <3> QED
        BY <2>3, <3>1, Zenon
    <2> QED
      BY <2>3, <2>4, <2>5, <2>6, Zenon
  <1>5. ASSUME NEW x \in K, status[x] = "connected"
        PROVE  \E i \in 0 .. nodes.used - 1 : Sel(i) = x
    <2>1. PICK p \in 1 .. n : order[p] = x
      BY <1>2, Zenon
    <2>2. PICK acc : Selects(acc, order, status, p - 1) /\ Sel(p - 1) = acc[n].selected
      BY <1>1, SelectNodeIs, Zenon
    <2>3. acc[n].selected = order[p]
      BY <1>1, <1>5, <2>1, <2>2, SelectsEach
    <2>4. p - 1 \in 0 .. nodes.used - 1
      BY <1>1
    <2> HIDE DEF Sel
    <2> QED
      BY <2>1, <2>2, <2>3, <2>4, Zenon
  <1>6. picked = {Sel(i) : i \in 0 .. nodes.used - 1}
    BY Zenon
  <1> HIDE DEF Sel, picked, order, n
  <1>7. CASE With("connected") # {}
    <2>1. PICK y \in K : status[y] = "connected"
      BY <1>7, Zenon
    <2>2. \A i \in 0 .. nodes.used - 1 : Sel(i) \in With("connected")
      BY <1>4, <2>1, Zenon
    <2>3. \A x \in With("connected") : x \in picked
      BY <1>5, <1>6, Zenon
    <2>4. picked = With("connected")
      BY <1>6, <2>2, <2>3, ZenonT(30)
    <2> QED
      BY <1>7, <2>4, Zenon DEF picked
  <1>8. CASE With("connected") = {} /\ With("idle") # {}
    <2>1. PICK y \in K : status[y] = "idle"
      BY <1>8, Zenon
    <2>2. \A i \in 0 .. nodes.used - 1 : Sel(i) \in With("idle")
      BY <1>4, <1>8, <2>1, Zenon
    <2>3. picked \subseteq With("idle")
      BY <1>6, <2>2, ZenonT(30)
    <2> QED
      BY <1>8, <2>3, Zenon DEF picked
  <1>9. CASE With("connected") = {} /\ With("idle") = {}
    <2>1. \A i \in 0 .. nodes.used - 1 : Sel(i) = NULL
      BY <1>4, <1>9, ZenonT(30)
    <2>2. picked \subseteq {NULL}
      BY <1>6, <2>1, Zenon
    <2> QED
      BY <1>9, <2>2, Zenon DEF picked
  <1> QED
    BY <1>7, <1>8, <1>9, Zenon

(***************************************************************************)
(* selectNode finds a connected node if there is one, else one that may be *)
(* connected to, and each connected node for some index                    *)
(* (hircluster.c:3889-3929), in every table the client can have.           *)
(***************************************************************************)
THEOREM UsableNodeSelected == Spec => []SelectsUsableNode
  <1>1. Inv => SelectsUsableNode
    BY SelectionUsable, Zenon DEF SelectsUsableNode
  <1> QED
    BY <1>1, SpecInv, PTL
=============================================================================
