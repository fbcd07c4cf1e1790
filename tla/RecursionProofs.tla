--------------------------- MODULE RecursionProofs ---------------------------
(***************************************************************************)
(* Induction over the naturals, and functions defined by recursion, in terms  *)
(* of sets: what the proofs about the recursive functions of the models rest  *)
(* on.                                                                      *)
(***************************************************************************)
EXTENDS ListOps, Integers, TLAPS, WellFoundedInduction

LEMMA LeastNat ==
  ASSUME NEW T \in SUBSET Nat, T # {}
  PROVE  \E m \in T : \A k \in T : m <= k
<1> DEFINE R == OpToRel(<, Nat)
<1>1. IsWellFoundedOn(R, Nat)
  BY NatLessThanWellFounded
<1>2. \A k, m \in Nat : k < m => <<k, m>> \in R
  BY DEF OpToRel
<1> HIDE DEF R
<1>3. PICK m \in T : \A k \in T : ~(<<k, m>> \in R)
  BY <1>1, WFMin
<1>4. ASSUME NEW k \in T PROVE m <= k
  <2>1. k \in Nat /\ m \in Nat
    OBVIOUS
  <2>2. ~(k < m)
    BY <1>2, <1>3, <2>1
  <2> QED BY <2>1, <2>2
<1> QED BY <1>4

\* A set of naturals with 0 that is closed under the successor has them all.
LEMMA Induction ==
  ASSUME NEW S, 0 \in S, \A n \in Nat : n \in S => n + 1 \in S
  PROVE  Nat \subseteq S
<1> SUFFICES ASSUME NEW T, T = {n \in Nat : n \notin S}, T # {} PROVE FALSE
  OBVIOUS
<1>1. PICK m \in T : \A k \in T : m <= k
  BY LeastNat
<1>2. CASE m = 0
  BY <1>2
<1>3. CASE m # 0
  <2>1. m - 1 \in Nat /\ m - 1 + 1 = m
    BY <1>3
  <2>2. m - 1 \in S
    BY <1>1, <2>1
  <2> QED BY <1>1, <2>1, <2>2
<1> QED BY <1>2, <1>3

\* f begins with a and goes on, up to n, with the functions G gives.
Unfolds(f, a, G, n) == f[0] = a /\ \A i \in 1..n : f[i] = G[i][f[i - 1]]

\* A value to begin with and a step make a function.
LEMMA RecursionExists ==
  ASSUME NEW V, NEW a \in V, NEW G \in [Nat -> [V -> V]], NEW n \in Nat
  PROVE  \E f \in [0..n -> V] : Unfolds(f, a, G, n)
<1> DEFINE S == {m \in Nat : \E f \in [0..m -> V] : Unfolds(f, a, G, m)}
<1>1. 0 \in S
  <2> DEFINE f == [i \in 0..0 |-> a]
  <2>1. f \in [0..0 -> V] /\ f[0] = a
    OBVIOUS
  <2>2. \A i \in 1..0 : FALSE
    OBVIOUS
  <2> HIDE DEF f
  <2> QED BY <2>1, <2>2 DEF Unfolds
<1>2. ASSUME NEW m \in Nat, m \in S PROVE m + 1 \in S
  <2>1. PICK f \in [0..m -> V] : Unfolds(f, a, G, m)
    BY <1>2
  <2>2. PICK v \in V : v = G[m + 1][f[m]]
    <3>1. f[m] \in V /\ G[m + 1] \in [V -> V]
      OBVIOUS
    <3> QED BY <3>1
  <2> DEFINE g == [i \in 0..(m + 1) |-> IF i = m + 1 THEN v ELSE f[i]]
  <2>3. \A i \in 0..(m + 1) : i # m + 1 => i \in 0..m
    OBVIOUS
  <2>4. g \in [0..(m + 1) -> V]
    BY <2>3
  <2>5. g[m + 1] = v /\ \A i \in 0..m : g[i] = f[i]
    OBVIOUS
  <2> HIDE DEF g
  <2>6. ASSUME NEW i \in 1..(m + 1) PROVE g[i] = G[i][g[i - 1]]
    <3>1. CASE i = m + 1
      <4>1. i - 1 = m /\ m \in 0..m
        BY <3>1
      <4> QED BY <2>2, <2>5, <3>1, <4>1
    <3>2. CASE i # m + 1
      <4>1. i \in 1..m /\ i \in 0..m /\ i - 1 \in 0..m
        BY <3>2
      <4> QED BY <2>1, <2>5, <4>1 DEF Unfolds
    <3> QED BY <3>1, <3>2
  <2>7. Unfolds(g, a, G, m + 1)
    <3>1. 0 \in 0..m
      OBVIOUS
    <3> QED BY <2>1, <2>5, <2>6, <3>1 DEF Unfolds
  <2> QED BY <2>4, <2>7
<1> HIDE DEF S
<1>3. n \in S
  BY <1>1, <1>2, Induction
<1> QED BY <1>3 DEF S

\* What is so at first and of every next one is so of all.
LEMMA AllAlong ==
  ASSUME NEW V, NEW n \in Nat, NEW f, f[0] \in V,
         \A i \in 1..n : f[i - 1] \in V => f[i] \in V
  PROVE  \A i \in 0..n : f[i] \in V
<1> DEFINE T == {i \in Nat : i \in 0..n => f[i] \in V}
<1>1. 0 \in T
  OBVIOUS
<1>2. ASSUME NEW i \in Nat, i \in T PROVE i + 1 \in T
  <2> SUFFICES ASSUME i + 1 \in 0..n PROVE f[i + 1] \in V
    OBVIOUS
  <2>1. i \in 0..n /\ i + 1 \in 1..n /\ (i + 1) - 1 = i
    OBVIOUS
  <2>2. f[i] \in V
    BY <1>2, <2>1
  <2> HIDE DEF T
  <2> QED BY <2>1, <2>2
<1> HIDE DEF T
<1>3. Nat \subseteq T
  BY <1>1, <1>2, Induction
<1> QED BY <1>3 DEF T

\* f begins with a and goes through the list entry by entry.
Through(f, a, seq, step) ==
  f[0] = a /\ \A i \in 1..Len(seq) : f[i] = step[f[i - 1]][seq[i]]

LEMMA GoesThrough ==
  ASSUME NEW V, NEW E, NEW a \in V, NEW seq \in Seq(E), NEW step \in [V -> [E -> V]]
  PROVE  \E f \in [0..Len(seq) -> V] : Through(f, a, seq, step)
<1> DEFINE n == Len(seq)
           at(i) == [v \in V |-> IF i \in 1..n THEN step[v][seq[i]] ELSE v]
           G == [i \in Nat |-> at(i)]
<1>1. n \in Nat /\ \A i \in 1..n : seq[i] \in E
  OBVIOUS
<1>2. G \in [Nat -> [V -> V]]
  BY <1>1
<1>3. ASSUME NEW i \in 1..n, NEW v \in V PROVE G[i][v] = step[v][seq[i]]
  <2>1. at(i)[v] = step[v][seq[i]]
    OBVIOUS
  <2>2. G[i] = at(i)
    <3> HIDE DEF at
    <3> QED BY <1>1
  <2> HIDE DEF G, at
  <2> QED BY <2>1, <2>2
<1>4. \A i \in 1..n : i - 1 \in 0..n
  BY <1>1
<1> HIDE DEF G, n
<1>5. PICK g \in [0..n -> V] : Unfolds(g, a, G, n)
  BY <1>1, <1>2, RecursionExists
<1>6. g[0] = a /\ \A i \in 1..n : g[i] = step[g[i - 1]][seq[i]]
  <2>1. \A i \in 1..n : g[i] = G[i][g[i - 1]] /\ g[i - 1] \in V
    BY <1>4, <1>5 DEF Unfolds
  <2> QED BY <1>3, <1>5, <2>1 DEF Unfolds
<1> QED BY <1>6 DEF Through, n

-----------------------------------------------------------------------------
(* What Among keeps                                                        *)

\* f is what is kept of each beginning of the list.
Keeps(seq, S, f) ==
  f = [i \in 0..Len(seq) |->
         IF i = 0 THEN <<>>
         ELSE IF seq[i] \in S THEN Append(f[i - 1], seq[i]) ELSE f[i - 1]]

LEMMA KeepsExists ==
  ASSUME NEW V, NEW seq \in Seq(V), NEW S PROVE \E f : Keeps(seq, S, f)
<1> DEFINE W == Seq(V)
           n == Len(seq)
           G == [i \in Nat |-> [s \in W |->
                   IF i \in 1..n /\ seq[i] \in S THEN Append(s, seq[i]) ELSE s]]
<1>1. G \in [Nat -> [W -> W]]
  OBVIOUS
<1>2. <<>> \in W /\ n \in Nat
  OBVIOUS
<1>3. \A i \in 1..n, s \in W : G[i][s] = IF seq[i] \in S THEN Append(s, seq[i]) ELSE s
  OBVIOUS
<1> HIDE DEF W, G, n
<1>4. PICK f \in [0..n -> W] : Unfolds(f, <<>>, G, n)
  BY <1>1, <1>2, RecursionExists
<1>5. \A i \in 1..n : i - 1 \in 0..n /\ f[i - 1] \in W
  BY <1>2, <1>4
<1>6. \A i \in 1..n : f[i] = IF seq[i] \in S THEN Append(f[i - 1], seq[i]) ELSE f[i - 1]
  BY <1>3, <1>4, <1>5 DEF Unfolds
<1>7. \A i \in 0..n : i # 0 => i \in 1..n
  BY <1>2
<1>8. Keeps(seq, S, f)
  BY <1>4, <1>6, <1>7 DEF Keeps, Unfolds, n
<1> QED BY <1>8

\* Nothing is kept but entries that are in S, and every one of them is.
LEMMA AmongProperties ==
  ASSUME NEW V, NEW seq \in Seq(V), NEW S
  PROVE  /\ Among(seq, S) \in Seq(V \cap S)
         /\ Len(Among(seq, S)) <= Len(seq)
         /\ \A i \in 1..Len(seq) :
              seq[i] \in S => \E j \in 1..Len(Among(seq, S)) : Among(seq, S)[j] = seq[i]
<1> DEFINE f == CHOOSE g : Keeps(seq, S, g)
           n == Len(seq)
           Q(i) == /\ f[i] \in Seq(V \cap S) /\ Len(f[i]) <= i
                   /\ \A k \in 1..i : seq[k] \in S => \E j \in 1..Len(f[i]) : f[i][j] = seq[k]
           T == {i \in Nat : i \in 0..n => Q(i)}
<1>1. Keeps(seq, S, f)
  BY KeepsExists, Zenon
<1>2. Among(seq, S) = f[n]
  BY Zenon DEF Among, Keeps
<1>3. n \in Nat
  OBVIOUS
<1> HIDE DEF f
<1>4. f[0] = <<>> /\ 0 \in 0..n
  BY <1>1, <1>3 DEF Keeps
<1>5. \A i \in 1..n : f[i] = IF seq[i] \in S THEN Append(f[i - 1], seq[i]) ELSE f[i - 1]
  <2>1. \A i \in 1..n : i \in 0..n /\ i # 0
    OBVIOUS
  <2> QED BY <1>1, <2>1 DEF Keeps
<1>6. \A i \in 1..n : seq[i] \in V
  OBVIOUS
<1>7. ASSUME NEW i \in Nat, i \in T PROVE i + 1 \in T
  <2> SUFFICES ASSUME i + 1 \in 0..n PROVE Q(i + 1)
    OBVIOUS
  <2>1. i \in 0..n /\ i + 1 \in 1..n /\ (i + 1) - 1 = i
    BY <1>3
  <2>2. f[i] \in Seq(V \cap S) /\ Len(f[i]) <= i
    BY <1>7, <2>1
  <2>3. \A k \in 1..i : seq[k] \in S => \E j \in 1..Len(f[i]) : f[i][j] = seq[k]
    BY <1>7, <2>1
  <2>4. \A k \in 1..(i + 1) : k \in 1..i \/ k = i + 1
    OBVIOUS
  <2>5. CASE seq[i + 1] \notin S
    <3>1. f[i + 1] = f[i]
      BY <1>5, <2>1, <2>5
    <3>2. Len(f[i]) <= i + 1
      BY <2>2
    <3> QED BY <2>2, <2>3, <2>4, <2>5, <3>1, <3>2
  <2>6. CASE seq[i + 1] \in S
    <3> DEFINE a == f[i]
               v == seq[i + 1]
               b == Append(a, v)
    <3>1. f[i + 1] = b /\ v \in V \cap S
      BY <1>5, <1>6, <2>1, <2>6
    <3>2. /\ b \in Seq(V \cap S) /\ Len(b) = Len(a) + 1 /\ Len(a) \in Nat
          /\ b[Len(a) + 1] = v /\ \A j \in 1..Len(a) : b[j] = a[j]
      <4>1. a \in Seq(V \cap S)
        BY <2>2
      <4> HIDE DEF a, v
      <4> QED BY <3>1, <4>1
    <3>3. Len(a) <= i /\ \A k \in 1..i : seq[k] \in S => \E j \in 1..Len(a) : a[j] = seq[k]
      BY <2>2, <2>3
    <3>4. ASSUME NEW k \in 1..(i + 1), seq[k] \in S
          PROVE  \E j \in 1..Len(b) : b[j] = seq[k]
      <4>1. CASE k = i + 1
        <5>1. Len(a) + 1 \in 1..Len(b) /\ b[Len(a) + 1] = seq[k]
          <6>1. v = seq[k]
            BY <4>1
          <6> HIDE DEF a, b, v
          <6> QED BY <3>2, <6>1
        <5> QED BY <5>1
      <4>2. CASE k \in 1..i
        <5>1. PICK j \in 1..Len(a) : a[j] = seq[k]
          BY <3>3, <3>4, <4>2
        <5>2. j \in 1..Len(b) /\ b[j] = seq[k]
          <6> HIDE DEF a, b
          <6> QED BY <3>2, <5>1
        <5> QED BY <5>2
      <4> QED BY <2>4, <4>1, <4>2
    <3>5. Len(b) <= i + 1
      <4> HIDE DEF a, b
      <4> QED BY <3>2, <3>3
    <3> QED BY <3>1, <3>2, <3>4, <3>5
  <2> QED BY <2>5, <2>6
<1>8. 0 \in T
  <2>1. <<>> \in Seq(V \cap S) /\ Len(<<>>) = 0
    OBVIOUS
  <2>2. \A k \in 1..0 : FALSE
    OBVIOUS
  <2>3. Q(0)
    BY <1>4, <2>1, <2>2
  <2> QED BY <2>3
<1> HIDE DEF T
<1>9. n \in T
  BY <1>3, <1>7, <1>8, Induction
<1>10. Q(n)
  BY <1>3, <1>9 DEF T
<1> QED BY <1>2, <1>10

-----------------------------------------------------------------------------
(* Recursion along a rank. *)

\* A step that gives at every place a value fixed by the values at lower places.
Recursive(D, V, C, c, step, N, rank) ==
  /\ N \in Nat /\ rank \in [D -> 0..N]
  /\ C \subseteq [D -> V] /\ c \in C /\ step \in [C -> C]
  /\ \A f, g \in C, x \in D :
       (\A y \in D : rank[y] < rank[x] => f[y] = g[y]) => step[f][x] = step[g][x]

\* It has a fixed point: a function defined by recursion.
LEMMA FixedPoint ==
  ASSUME NEW D, NEW V, NEW C, NEW c, NEW step, NEW N, NEW rank,
         Recursive(D, V, C, c, step, N, rank)
  PROVE  \E f \in C : step[f] = f
<1>0. /\ N \in Nat /\ rank \in [D -> 0..N]
      /\ C \subseteq [D -> V] /\ c \in C /\ step \in [C -> C]
      /\ \A f, g \in C, x \in D :
           (\A y \in D : rank[y] < rank[x] => f[y] = g[y]) => step[f][x] = step[g][x]
  BY DEF Recursive
<1> USE <1>0
<1> DEFINE G == [i \in Nat |-> step]
           n == N + 2
<1>1. n \in Nat /\ G \in [Nat -> [C -> C]]
  OBVIOUS
<1>2. PICK F \in [0..n -> C] : Unfolds(F, c, G, n)
  BY <1>1, RecursionExists
<1>3. \A i \in 1..n : F[i] = step[F[i - 1]]
  <2>1. \A i \in 1..n : G[i] = step
    OBVIOUS
  <2> HIDE DEF G
  <2> QED BY <1>2, <2>1 DEF Unfolds
<1> DEFINE T == {i \in Nat : i \in 0..(N + 1) =>
                               \A x \in D : rank[x] < i => F[i + 1][x] = F[i][x]}
<1>4. 0 \in T
  <2>1. \A x \in D : ~(rank[x] < 0)
    OBVIOUS
  <2> QED BY <2>1
<1>5. ASSUME NEW i \in Nat, i \in T PROVE i + 1 \in T
  <2> SUFFICES ASSUME i + 1 \in 0..(N + 1), NEW x \in D, rank[x] < i + 1
               PROVE  F[(i + 1) + 1][x] = F[i + 1][x]
    OBVIOUS
  <2>1. i \in 0..(N + 1) /\ i + 1 \in 1..n /\ (i + 1) + 1 \in 1..n
        /\ i \in 0..n /\ i + 1 \in 0..n /\ (i + 1) - 1 = i /\ ((i + 1) + 1) - 1 = i + 1
    BY <1>1
  <2>2. F[i + 1] = step[F[i]] /\ F[(i + 1) + 1] = step[F[i + 1]]
    BY <1>3, <2>1
  <2>3. ASSUME NEW y \in D, rank[y] < rank[x] PROVE F[i + 1][y] = F[i][y]
    <3>1. rank[y] \in Int /\ rank[x] \in Int
      OBVIOUS
    <3>2. rank[y] < i
      BY <2>3, <3>1
    <3> QED BY <1>5, <2>1, <3>2
  <2>4. F[i] \in C /\ F[i + 1] \in C
    BY <1>2, <2>1
  <2>5. step[F[i + 1]][x] = step[F[i]][x]
    BY <2>3, <2>4
  <2> QED BY <2>2, <2>5
<1> HIDE DEF T
<1>6. N + 1 \in T
  <2>1. Nat \subseteq T
    BY <1>4, <1>5, Induction
  <2> QED BY <2>1
<1> DEFINE f == F[N + 1]
<1>7. f \in C /\ F[N + 2] = step[f]
  <2>1. N + 1 \in 0..n /\ N + 2 \in 1..n /\ (N + 2) - 1 = N + 1
    BY <1>1
  <2> QED BY <1>2, <1>3, <2>1
<1>8. \A x \in D : step[f][x] = f[x]
  <2>1. \A x \in D : rank[x] < N + 1
    OBVIOUS
  <2>2. (N + 1) + 1 = N + 2 /\ N + 1 \in 0..(N + 1)
    OBVIOUS
  <2> QED BY <1>6, <1>7, <2>1, <2>2 DEF T
<1>9. step[f] \in [D -> V] /\ f \in [D -> V]
  BY <1>7
<1> HIDE DEF f
<1>10. step[f] = f
  BY <1>8, <1>9
<1> QED BY <1>7, <1>10

\* Functions that agree at a place when they agree at all lower ones agree.
AgreeUpward(D, N, rank, f, g) ==
  /\ N \in Nat /\ rank \in [D -> 0..N]
  /\ \A x \in D : (\A y \in D : rank[y] < rank[x] => f[y] = g[y]) => f[x] = g[x]

LEMMA SameAlong ==
  ASSUME NEW D, NEW N, NEW rank, NEW f, NEW g, AgreeUpward(D, N, rank, f, g)
  PROVE  \A x \in D : f[x] = g[x]
<1>0. /\ N \in Nat /\ rank \in [D -> 0..N]
      /\ \A x \in D : (\A y \in D : rank[y] < rank[x] => f[y] = g[y]) => f[x] = g[x]
  BY DEF AgreeUpward
<1> USE <1>0
<1> DEFINE T == {i \in Nat : \A x \in D : rank[x] < i => f[x] = g[x]}
<1>1. \A x \in D : rank[x] \in Nat
  OBVIOUS
<1>2. 0 \in T
  <2>1. \A x \in D : ~(rank[x] < 0)
    BY <1>1
  <2> QED BY <2>1
<1>3. ASSUME NEW i \in Nat, i \in T PROVE i + 1 \in T
  <2> SUFFICES ASSUME NEW x \in D, rank[x] < i + 1 PROVE f[x] = g[x]
    OBVIOUS
  <2>1. ASSUME NEW y \in D, rank[y] < rank[x] PROVE f[y] = g[y]
    <3>1. rank[y] < i
      BY <1>1, <2>1
    <3> QED BY <1>3, <3>1
  <2> QED BY <2>1
<1> HIDE DEF T
<1>4. Nat \subseteq T
  BY <1>2, <1>3, Induction
<1>5. ASSUME NEW x \in D PROVE f[x] = g[x]
  <2>1. rank[x] + 1 \in Nat /\ rank[x] < rank[x] + 1
    BY <1>1
  <2> QED BY <1>4, <2>1 DEF T
<1> QED BY <1>5

\* What holds at a place when it holds at all lower ones holds everywhere.
AllUpward(D, N, rank, T) ==
  /\ N \in Nat /\ rank \in [D -> 0..N]
  /\ \A x \in D : (\A y \in D : rank[y] < rank[x] => y \in T) => x \in T

LEMMA HoldsUpward ==
  ASSUME NEW D, NEW N, NEW rank, NEW T, AllUpward(D, N, rank, T)
  PROVE  \A x \in D : x \in T
<1> DEFINE f == [x \in D |-> x \in T]
           g == [x \in D |-> TRUE]
<1>1. AgreeUpward(D, N, rank, f, g)
  BY DEF AgreeUpward, AllUpward
<1>2. \A x \in D : f[x] = g[x]
  <2> HIDE DEF f, g
  <2> QED BY <1>1, SameAlong
<1> QED BY <1>2

=============================================================================
