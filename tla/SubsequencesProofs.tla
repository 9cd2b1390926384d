------------------------- MODULE SubsequencesProofs -------------------------
(***************************************************************************)
(* Induction on the natural numbers in the form the proofs of this project *)
(* use it, over sets instead of predicates, and what it gives for          *)
(* functions defined by recursion, At first of all.                        *)
(***************************************************************************)
EXTENDS Subsequences, WellFoundedInduction, TLAPS

\* Every set of natural numbers that is not empty has a least element.
LEMMA LeastNumber ==
    ASSUME NEW T, T \subseteq Nat, T # {}
    PROVE  \E x \in T : \A y \in T : x <= y
<1> DEFINE R == OpToRel(<, Nat)
<1>1. PICK x \in T : \A y \in T : ~(<<y, x>> \in R)
  <2>1. IsWellFoundedOn(R, Nat)
    BY NatLessThanWellFounded
  <2> HIDE DEF R
  <2> QED BY <2>1, WFMin
<1>2. \A y \in T : ~(y < x)
  BY <1>1 DEF OpToRel
<1> QED BY <1>2, SMT

\* A set that has 0, and with each number the next, has all numbers up to n.
LEMMA UpTo ==
    ASSUME NEW n \in Nat, NEW G, 0 \in G, \A i \in 1 .. n : i - 1 \in G => i \in G
    PROVE  \A i \in 0 .. n : i \in G
<1> DEFINE Bad == (0 .. n) \ G
<1> SUFFICES ASSUME Bad # {} PROVE FALSE
  OBVIOUS
<1>1. PICK m \in Bad : \A k \in Bad : m <= k
  <2>1. Bad \subseteq Nat
    BY SMT
  <2> HIDE DEF Bad
  <2> QED BY <2>1, LeastNumber
<1>2. m \in 1 .. n
  BY SMT
<1>3. m - 1 \in 0 .. n /\ m - 1 \notin Bad
  <2> HIDE DEF Bad
  <2> QED BY <1>1, <1>2, SMT
<1> QED BY <1>2, <1>3

\* f has the value a at 0 and is given by a step for each number after it.
ByRecursion(f, V, n, a, step) ==
    f \in [0 .. n -> V] /\ f[0] = a /\ \A i \in 1 .. n : f[i] = step[i][f[i - 1]]

\* There is such a function.
LEMMA Recursion ==
    ASSUME NEW V, NEW n \in Nat, NEW a \in V, NEW step \in [1 .. n -> [V -> V]]
    PROVE  \E f : ByRecursion(f, V, n, a, step)
<1> DEFINE G == {m \in 0 .. n : \E f : ByRecursion(f, V, m, a, step)}
<1>1. 0 \in G
  <2>1. ByRecursion([i \in 0 .. 0 |-> a], V, 0, a, step)
    BY SMT DEF ByRecursion
  <2> QED BY <2>1, SMT
<1>2. ASSUME NEW m \in 1 .. n, m - 1 \in G
      PROVE  m \in G
  <2>1. PICK f : ByRecursion(f, V, m - 1, a, step)
    BY <1>2
  <2>2. ByRecursion([i \in 0 .. m |-> IF i = m THEN step[m][f[m - 1]] ELSE f[i]], V, m, a, step)
    BY <2>1, SMT DEF ByRecursion
  <2>3. m \in 0 .. n
    BY SMT
  <2> QED BY <2>2, <2>3
<1>3. \A i \in 0 .. n : i \in G
  <2> HIDE DEF G
  <2> QED BY <1>1, <1>2, UpTo
<1>4. n \in G
  BY <1>3, SMT
<1> QED BY <1>4

-----------------------------------------------------------------------------
\* What At computes, position by position.
IsAt(f, S, s, K) ==
    /\ f \in [0 .. Len(s) -> Seq(S)] /\ f[0] = <<>>
    /\ \A i \in 1 .. Len(s) : f[i] = IF i \in K THEN Append(f[i - 1], s[i]) ELSE f[i - 1]

LEMMA AtRecursion ==
    ASSUME NEW S, NEW s \in Seq(S), NEW K
    PROVE  \E f : IsAt(f, S, s, K) /\ At(s, K) = f[Len(s)]
<1> DEFINE n == Len(s)
           V == Seq(S)
           step == [i \in 1 .. n |-> [v \in V |-> IF i \in K THEN Append(v, s[i]) ELSE v]]
           A(h) == [i \in 0 .. Len(s) |->
                      IF i = 0 THEN <<>> ELSE IF i \in K THEN Append(h[i - 1], s[i]) ELSE h[i - 1]]
           Is(f) == /\ f \in [0 .. n -> V]
                    /\ f[0] = <<>>
                    /\ \A i \in 1 .. n : f[i] = IF i \in K THEN Append(f[i - 1], s[i]) ELSE f[i - 1]
<1>1. \E f : Is(f)
  <2> DEFINE a == <<>>
  <2>1. n \in Nat /\ a \in V /\ step \in [1 .. n -> [V -> V]]
    BY SMT
  <2>2. PICK f : ByRecursion(f, V, n, a, step)
    <3> HIDE DEF step, V, n, a
    <3> QED BY <2>1, Recursion
  <2>3. ASSUME NEW i \in 1 .. n
        PROVE  f[i] = IF i \in K THEN Append(f[i - 1], s[i]) ELSE f[i - 1]
    <3>1. i - 1 \in 0 .. n
      BY SMT
    <3>2. f[i - 1] \in V /\ f[i] = step[i][f[i - 1]]
      <4> HIDE DEF V, n, step
      <4> QED BY <2>2, <3>1 DEF ByRecursion
    <3> HIDE DEF V, n
    <3> QED BY <3>2
  <2>4. f \in [0 .. n -> V] /\ f[0] = <<>>
    BY <2>2 DEF ByRecursion
  <2> QED BY <2>3, <2>4
<1>2. ASSUME NEW f, Is(f)
      PROVE  f = A(f)
  <2>1. ASSUME NEW i \in 0 .. n
        PROVE  f[i] = A(f)[i]
    <3>1. CASE i = 0
      BY <1>2, <3>1
    <3>2. CASE i # 0
      <4>1. i \in 1 .. n
        BY <3>2, SMT
      <4> QED BY <1>2, <3>2, <4>1
    <3> QED BY <3>1, <3>2
  <2> QED BY <1>2, <2>1
<1>3. DEFINE g == CHOOSE g : g = A(g)
<1>4. g = A(g)
  <2> HIDE DEF A, Is
  <2> QED BY <1>1, <1>2
<1>5. At(s, K) = g[Len(s)]
  BY DEF At
<1>6. /\ DOMAIN g = 0 .. n /\ g[0] = <<>>
      /\ \A i \in 1 .. n : g[i] = IF i \in K THEN Append(g[i - 1], s[i]) ELSE g[i - 1]
  <2>1. 0 \in 0 .. n /\ \A i \in 1 .. n : i \in 0 .. n /\ i # 0
    BY SMT
  <2>2. ASSUME NEW h
        PROVE  /\ DOMAIN A(h) = 0 .. n /\ A(h)[0] = <<>>
               /\ \A i \in 1 .. n : A(h)[i] = IF i \in K THEN Append(h[i - 1], s[i]) ELSE h[i - 1]
    BY <2>1, Zenon
  <2> HIDE DEF g, n, A
  <2> QED BY <1>4, <2>2, Zenon
<1>7. \A i \in 0 .. n : g[i] \in Seq(S)
  <2> DEFINE G == {i \in 0 .. n : g[i] \in Seq(S)}
  <2>1. n \in Nat /\ 0 \in 0 .. n /\ \A i \in 1 .. n : i \in 0 .. n /\ s[i] \in S
    BY SMT
  <2> HIDE DEF g, n
  <2>2. 0 \in G
    <3>1. <<>> \in Seq(S)
      BY SMT
    <3> QED BY <1>6, <2>1, <3>1
  <2>3. ASSUME NEW i \in 1 .. n, i - 1 \in G
        PROVE  i \in G
    <3>1. g[i] = IF i \in K THEN Append(g[i - 1], s[i]) ELSE g[i - 1]
      BY <1>6
    <3>2. g[i - 1] \in Seq(S) /\ s[i] \in S
      BY <2>1, <2>3
    <3>3. Append(g[i - 1], s[i]) \in Seq(S)
      BY <3>2, SMT
    <3> QED BY <2>1, <3>1, <3>2, <3>3
  <2>4. \A i \in 0 .. n : i \in G
    <3> HIDE DEF G
    <3> QED BY <2>1, <2>2, <2>3, UpTo
  <2> QED BY <2>4
<1>8. g \in [0 .. n -> Seq(S)]
  <2>1. g = [i \in 0 .. n |-> g[i]]
    BY <1>4
  <2> HIDE DEF g
  <2> QED BY <1>7, <2>1
<1> HIDE DEF g
<1> QED BY <1>5, <1>6, <1>8 DEF IsAt

\* r is the subsequence of s at the positions in K up to m: e says where each of its
\* elements comes from.
Embeds(e, r, s, m, K) ==
    /\ e \in [1 .. Len(r) -> K \cap (1 .. m)]
    /\ \A j \in 1 .. Len(r) : r[j] = s[e[j]]
    /\ \A i, j \in 1 .. Len(r) : i < j => e[i] < e[j]
    /\ \A k \in K \cap (1 .. m) : \E j \in 1 .. Len(r) : e[j] = k

\* At(s, K) is the subsequence of s at the positions in K.
LEMMA AtEmbeds ==
    ASSUME NEW S, NEW s \in Seq(S), NEW K
    PROVE  /\ At(s, K) \in Seq(S) /\ Len(At(s, K)) <= Len(s)
           /\ \E e : Embeds(e, At(s, K), s, Len(s), K)
<1> DEFINE n == Len(s)
<1>0. PICK f : IsAt(f, S, s, K) /\ At(s, K) = f[n]
  BY AtRecursion
<1>1. /\ f \in [0 .. n -> Seq(S)] /\ f[0] = <<>>
      /\ \A i \in 1 .. n : f[i] = IF i \in K THEN Append(f[i - 1], s[i]) ELSE f[i - 1]
  BY <1>0 DEF IsAt
<1>2. n \in Nat
  BY SMT
<1> DEFINE G == {i \in 0 .. n : Len(f[i]) <= i /\ \E e : Embeds(e, f[i], s, i, K)}
<1> HIDE DEF n
<1>3. 0 \in G
  <2>1. Embeds(<<>>, <<>>, s, 0, K)
    BY SMT DEF Embeds
  <2> QED BY <1>1, <1>2, <2>1, SMT
<1>4. ASSUME NEW i \in 1 .. n, i - 1 \in G
      PROVE  i \in G
  <2>1. PICK e : Embeds(e, f[i - 1], s, i - 1, K)
    BY <1>4
  <2> DEFINE r == f[i - 1]
  <2>2. r \in Seq(S) /\ Len(r) <= i - 1 /\ Len(r) \in Nat /\ i \in 0 .. n
    BY <1>1, <1>2, <1>4, SMT
  <2>3. CASE i \in K
    <3>1. f[i] = Append(r, s[i])
      BY <1>1, <2>3
    <3>2. Len(f[i]) = Len(r) + 1 /\ f[i][Len(r) + 1] = s[i] /\ \A j \in 1 .. Len(r) : f[i][j] = r[j]
      <4>1. s[i] \in S
        BY <1>2, SMT DEF n
      <4> HIDE DEF r
      <4> QED BY <2>2, <3>1, <4>1, SMT
    <3> DEFINE d == [j \in 1 .. Len(r) + 1 |-> IF j = Len(r) + 1 THEN i ELSE e[j]]
    <3>3. Embeds(d, f[i], s, i, K)
      <4> HIDE DEF r
      <4> USE <2>2
      <4>1. /\ e \in [1 .. Len(r) -> K \cap (1 .. i - 1)]
            /\ \A j \in 1 .. Len(r) : r[j] = s[e[j]]
            /\ \A p, q \in 1 .. Len(r) : p < q => e[p] < e[q]
            /\ \A k \in K \cap (1 .. i - 1) : \E j \in 1 .. Len(r) : e[j] = k
        BY <2>1 DEF Embeds, r
      <4>2. d \in [1 .. Len(r) + 1 -> K \cap (1 .. i)]
        BY <2>3, <4>1, SMT
      <4>3. \A j \in 1 .. Len(r) + 1 : f[i][j] = s[d[j]]
        BY <3>2, <4>1, SMT
      <4>4. ASSUME NEW p \in 1 .. Len(r) + 1, NEW q \in 1 .. Len(r) + 1, p < q
            PROVE  d[p] < d[q]
        <5>1. p \in 1 .. Len(r) /\ d[p] = e[p] /\ e[p] \in 1 .. i - 1
          BY <4>1, <4>4, SMT
        <5>2. CASE q = Len(r) + 1
          BY <5>1, <5>2, SMT
        <5>3. CASE q # Len(r) + 1
          <6>1. q \in 1 .. Len(r) /\ d[q] = e[q]
            BY <5>3, SMT
          <6> QED BY <4>1, <4>4, <5>1, <6>1
        <5> QED BY <5>2, <5>3
      <4>5. \A k \in K \cap (1 .. i) : \E j \in 1 .. Len(r) + 1 : d[j] = k
        <5> TAKE k \in K \cap (1 .. i)
        <5>1. CASE k = i
          <6>1. d[Len(r) + 1] = k /\ Len(r) + 1 \in 1 .. Len(r) + 1
            BY <5>1, SMT
          <6> QED BY <6>1
        <5>2. CASE k # i
          <6>1. k \in K \cap (1 .. i - 1)
            BY <5>2, SMT
          <6>2. PICK j \in 1 .. Len(r) : e[j] = k
            BY <4>1, <6>1
          <6>3. j \in 1 .. Len(r) + 1 /\ d[j] = k
            BY <6>2, SMT
          <6> QED BY <6>3
        <5> QED BY <5>1, <5>2
      <4> HIDE DEF d
      <4> QED BY <3>2, <4>2, <4>3, <4>4, <4>5 DEF Embeds
    <3> HIDE DEF r, d
    <3> QED BY <2>2, <3>2, <3>3, SMT
  <2>4. CASE i \notin K
    <3>1. f[i] = r
      BY <1>1, <2>4
    <3>2. K \cap (1 .. i) = K \cap (1 .. i - 1)
      BY <2>4, SMT
    <3>3. Embeds(e, f[i], s, i, K)
      BY <2>1, <3>1, <3>2 DEF Embeds
    <3> QED BY <2>2, <3>1, <3>3, SMT
  <2> QED BY <2>3, <2>4
<1>5. \A i \in 0 .. n : i \in G
  <2> HIDE DEF G
  <2> QED BY <1>2, <1>3, <1>4, UpTo
<1>6. n \in G
  BY <1>2, <1>5, SMT
<1> QED BY <1>0, <1>1, <1>2, <1>6, SMT DEF n
-----------------------------------------------------------------------------
\* What SumTo computes, number by number.
IsSum(g, f, n) ==
    g \in [0 .. n -> Nat] /\ g[0] = 0 /\ \A i \in 1 .. n : g[i] = g[i - 1] + f[i]

LEMMA SumRecursion ==
    ASSUME NEW n \in Nat, NEW f \in [1 .. n -> Nat]
    PROVE  \E g : IsSum(g, f, n) /\ SumTo(f, n) = g[n]
<1> DEFINE V == Nat
           step == [i \in 1 .. n |-> [v \in V |-> v + f[i]]]
           A(h) == [i \in 0 .. n |-> IF i = 0 THEN 0 ELSE h[i - 1] + f[i]]
<1>1. \E g : IsSum(g, f, n)
  <2> DEFINE a == 0
  <2>1. a \in V /\ step \in [1 .. n -> [V -> V]]
    BY SMT
  <2>2. PICK g : ByRecursion(g, V, n, a, step)
    <3> HIDE DEF step, V, a
    <3> QED BY <2>1, Recursion
  <2>3. ASSUME NEW i \in 1 .. n
        PROVE  g[i] = g[i - 1] + f[i]
    <3>1. i - 1 \in 0 .. n
      BY SMT
    <3>2. g[i - 1] \in V /\ g[i] = step[i][g[i - 1]]
      <4> HIDE DEF V, step
      <4> QED BY <2>2, <3>1 DEF ByRecursion
    <3> HIDE DEF V
    <3> QED BY <3>2
  <2>4. g \in [0 .. n -> Nat] /\ g[0] = 0
    BY <2>2 DEF ByRecursion
  <2> QED BY <2>3, <2>4 DEF IsSum
<1>2. ASSUME NEW g, IsSum(g, f, n)
      PROVE  g = A(g)
  <2>1. ASSUME NEW i \in 0 .. n
        PROVE  g[i] = A(g)[i]
    <3>1. CASE i = 0
      BY <1>2, <3>1 DEF IsSum
    <3>2. CASE i # 0
      <4>1. i \in 1 .. n
        BY <3>2, SMT
      <4> QED BY <1>2, <3>2, <4>1 DEF IsSum
    <3> QED BY <3>1, <3>2
  <2> QED BY <1>2, <2>1 DEF IsSum
<1>3. DEFINE g == CHOOSE g : g = A(g)
<1>4. g = A(g)
  <2> HIDE DEF A
  <2> QED BY <1>1, <1>2
<1>5. SumTo(f, n) = g[n]
  BY DEF SumTo
<1>6. DOMAIN g = 0 .. n /\ g[0] = 0 /\ \A i \in 1 .. n : g[i] = g[i - 1] + f[i]
  <2>1. 0 \in 0 .. n /\ \A i \in 1 .. n : i \in 0 .. n /\ i # 0
    BY SMT
  <2>2. ASSUME NEW h
        PROVE  /\ DOMAIN A(h) = 0 .. n /\ A(h)[0] = 0
               /\ \A i \in 1 .. n : A(h)[i] = h[i - 1] + f[i]
    BY <2>1, Zenon
  <2> HIDE DEF g, A
  <2> QED BY <1>4, <2>2, Zenon
<1>7. \A i \in 0 .. n : g[i] \in Nat
  <2> DEFINE G == {i \in 0 .. n : g[i] \in Nat}
  <2> HIDE DEF g
  <2>1. 0 \in G
    BY <1>6, SMT
  <2>2. ASSUME NEW i \in 1 .. n, i - 1 \in G
        PROVE  i \in G
    <3>1. g[i] = g[i - 1] + f[i] /\ g[i - 1] \in Nat /\ f[i] \in Nat /\ i \in 0 .. n
      BY <1>6, <2>2, SMT
    <3> QED BY <3>1, SMT
  <2>3. \A i \in 0 .. n : i \in G
    <3> HIDE DEF G
    <3> QED BY <2>1, <2>2, UpTo
  <2> QED BY <2>3
<1>8. g \in [0 .. n -> Nat]
  <2>1. g = [i \in 0 .. n |-> g[i]]
    BY <1>4
  <2> HIDE DEF g
  <2> QED BY <1>7, <2>1
<1> HIDE DEF g
<1> QED BY <1>5, <1>6, <1>8 DEF IsSum

LEMMA SumType ==
    ASSUME NEW n \in Nat, NEW f \in [1 .. n -> Nat]
    PROVE  SumTo(f, n) \in Nat
<1>1. PICK g : IsSum(g, f, n) /\ SumTo(f, n) = g[n]
  BY SumRecursion
<1>2. n \in 0 .. n
  BY SMT
<1> QED BY <1>1, <1>2 DEF IsSum

\* A sum changes by as much as one of its numbers.
LEMMA SumUpdate ==
    ASSUME NEW n \in Nat, NEW f \in [1 .. n -> Nat], NEW h \in [1 .. n -> Nat], NEW c \in 1 .. n,
           \A i \in 1 .. n : i # c => h[i] = f[i]
    PROVE  SumTo(h, n) = SumTo(f, n) - f[c] + h[c]
<1>1. PICK g : IsSum(g, f, n) /\ SumTo(f, n) = g[n]
  BY SumRecursion
<1>2. PICK k : IsSum(k, h, n) /\ SumTo(h, n) = k[n]
  BY SumRecursion
<1> DEFINE G == {i \in 0 .. n : k[i] = IF i < c THEN g[i] ELSE g[i] - f[c] + h[c]}
<1>3. 0 \in G
  BY <1>1, <1>2, SMT DEF IsSum
<1>4. ASSUME NEW i \in 1 .. n, i - 1 \in G
      PROVE  i \in G
  <2>1. /\ g[i] = g[i - 1] + f[i] /\ k[i] = k[i - 1] + h[i]
        /\ g[i - 1] \in Nat /\ k[i - 1] \in Nat /\ f[i] \in Nat /\ h[i] \in Nat
        /\ f[c] \in Nat /\ h[c] \in Nat /\ i \in 0 .. n
    BY <1>1, <1>2, SMT DEF IsSum
  <2>2. k[i - 1] = IF i - 1 < c THEN g[i - 1] ELSE g[i - 1] - f[c] + h[c]
    BY <1>4
  <2>3. CASE i = c
    BY <2>1, <2>2, <2>3, SMT
  <2>4. CASE i # c
    <3>1. h[i] = f[i]
      BY <2>4
    <3>2. CASE i < c
      <4>1. k[i - 1] = g[i - 1]
        BY <2>2, <3>2
      <4> QED BY <2>1, <3>1, <3>2, <4>1
    <3>3. CASE c < i
      <4>1. k[i - 1] = g[i - 1] - f[c] + h[c] /\ ~(i < c)
        BY <2>2, <3>3
      <4>2. k[i] = g[i] - f[c] + h[c]
        BY <2>1, <3>1, <4>1
      <4> QED BY <2>1, <4>1, <4>2
    <3> QED BY <2>4, <3>2, <3>3
  <2> QED BY <2>3, <2>4
<1>5. \A i \in 0 .. n : i \in G
  <2> HIDE DEF G
  <2> QED BY <1>3, <1>4, UpTo
<1>6. n \in G /\ ~(n < c)
  BY <1>5, SMT
<1> QED BY <1>1, <1>2, <1>6

\* One more number.
LEMMA SumExtend ==
    ASSUME NEW n \in Nat, NEW f \in [1 .. n -> Nat], NEW h \in [1 .. n + 1 -> Nat],
           \A i \in 1 .. n : h[i] = f[i]
    PROVE  SumTo(h, n + 1) = SumTo(f, n) + h[n + 1]
<1>1. PICK g : IsSum(g, f, n) /\ SumTo(f, n) = g[n]
  BY SumRecursion
<1>2. PICK k : IsSum(k, h, n + 1) /\ SumTo(h, n + 1) = k[n + 1]
  <2>1. n + 1 \in Nat
    BY SMT
  <2> QED BY <2>1, SumRecursion
<1> DEFINE G == {i \in 0 .. n : k[i] = g[i]}
<1>3. 0 \in G
  BY <1>1, <1>2, SMT DEF IsSum
<1>4. ASSUME NEW i \in 1 .. n, i - 1 \in G
      PROVE  i \in G
  <2>1. i \in 1 .. n + 1 /\ i \in 0 .. n
    BY SMT
  <2>2. g[i] = g[i - 1] + f[i] /\ k[i] = k[i - 1] + h[i] /\ h[i] = f[i] /\ k[i - 1] = g[i - 1]
    BY <1>1, <1>2, <1>4, <2>1 DEF IsSum
  <2> QED BY <2>1, <2>2
<1>5. \A i \in 0 .. n : i \in G
  <2> HIDE DEF G
  <2> QED BY <1>3, <1>4, UpTo
<1>6. k[n] = g[n]
  <2>1. n \in 0 .. n
    BY SMT
  <2> QED BY <1>5, <2>1
<1>7. k[n + 1] = k[n] + h[n + 1]
  <2>1. n + 1 \in 1 .. n + 1 /\ n + 1 - 1 = n
    BY SMT
  <2> QED BY <1>2, <2>1 DEF IsSum
<1> QED BY <1>1, <1>2, <1>6, <1>7

LEMMA SumZero ==
    ASSUME NEW n \in Nat, NEW f \in [1 .. n -> Nat], \A i \in 1 .. n : f[i] = 0
    PROVE  SumTo(f, n) = 0
<1>1. PICK g : IsSum(g, f, n) /\ SumTo(f, n) = g[n]
  BY SumRecursion
<1> DEFINE G == {i \in 0 .. n : g[i] = 0}
<1>2. 0 \in G
  BY <1>1, SMT DEF IsSum
<1>3. ASSUME NEW i \in 1 .. n, i - 1 \in G
      PROVE  i \in G
  <2>1. g[i] = g[i - 1] + f[i] /\ f[i] = 0 /\ g[i - 1] = 0 /\ i \in 0 .. n
    BY <1>1, <1>3, SMT DEF IsSum
  <2> QED BY <2>1, SMT
<1>4. \A i \in 0 .. n : i \in G
  <2> HIDE DEF G
  <2> QED BY <1>2, <1>3, UpTo
<1>5. n \in G
  BY <1>4, SMT
<1> QED BY <1>1, <1>5
-----------------------------------------------------------------------------
LEMMA TallyType ==
    ASSUME NEW T, NEW s \in Seq(T), NEW S
    PROVE  Tally(s, S) \in Nat
<1> DEFINE f == [i \in 1 .. Len(s) |-> IF s[i] \in S THEN 1 ELSE 0]
           n == Len(s)
<1>1. n \in Nat /\ f \in [1 .. n -> Nat]
  BY SMT
<1>2. SumTo(f, n) \in Nat
  <2> HIDE DEF f, n
  <2> QED BY <1>1, SumType
<1> QED BY <1>2 DEF Tally

LEMMA TallyEmpty ==
    ASSUME NEW S
    PROVE  Tally(<<>>, S) = 0
<1> DEFINE s == <<>>
           f == [i \in 1 .. Len(s) |-> IF s[i] \in S THEN 1 ELSE 0]
           n == Len(s)
<1>1. n \in Nat /\ f \in [1 .. n -> Nat] /\ \A i \in 1 .. n : f[i] = 0
  BY SMT
<1>2. SumTo(f, n) = 0
  <2> HIDE DEF f, n
  <2> QED BY <1>1, SumZero
<1> QED BY <1>2 DEF Tally

LEMMA TallyAppend ==
    ASSUME NEW T, NEW s \in Seq(T), NEW e \in T, NEW S
    PROVE  Tally(Append(s, e), S) = Tally(s, S) + IF e \in S THEN 1 ELSE 0
<1> DEFINE t == Append(s, e)
           n == Len(s)
           f == [i \in 1 .. n |-> IF s[i] \in S THEN 1 ELSE 0]
           h == [i \in 1 .. n + 1 |-> IF t[i] \in S THEN 1 ELSE 0]
<1>1. n \in Nat /\ Len(t) = n + 1 /\ t[n + 1] = e /\ \A i \in 1 .. n : t[i] = s[i]
  BY SMT
<1>2. Tally(s, S) = SumTo(f, n) /\ Tally(t, S) = SumTo(h, n + 1)
  BY <1>1 DEF Tally
<1> HIDE DEF t, n
<1>3. /\ f \in [1 .. n -> Nat] /\ h \in [1 .. n + 1 -> Nat]
      /\ \A i \in 1 .. n : h[i] = f[i]
  BY <1>1, SMT
<1>4. h[n + 1] = IF e \in S THEN 1 ELSE 0
  <2>1. n + 1 \in 1 .. n + 1
    BY <1>1, SMT
  <2> QED BY <1>1, <2>1
<1>5. SumTo(h, n + 1) = SumTo(f, n) + h[n + 1]
  <2> HIDE DEF f, h
  <2> QED BY <1>1, <1>3, SumExtend
<1> HIDE DEF f, h
<1> QED BY <1>2, <1>4, <1>5 DEF t

\* The same element several times.
LEMMA TallyRepeat ==
    ASSUME NEW T, NEW s \in Seq(T), NEW e \in T, NEW k \in Nat, NEW S
    PROVE  /\ s \o [i \in 1 .. k |-> e] \in Seq(T)
           /\ Tally(s \o [i \in 1 .. k |-> e], S) = Tally(s, S) + IF e \in S THEN k ELSE 0
<1> DEFINE t(j) == s \o [i \in 1 .. j |-> e]
           G == {j \in 0 .. k : /\ t(j) \in Seq(T)
                                /\ Tally(t(j), S) = Tally(s, S) + IF e \in S THEN j ELSE 0}
<1>1. 0 \in G
  <2>1. t(0) = s
    BY SMT
  <2>2. Tally(s, S) \in Nat
    BY TallyType
  <2>3. Tally(s, S) = Tally(s, S) + IF e \in S THEN 0 ELSE 0
    BY <2>2, SMT
  <2>4. 0 \in 0 .. k
    BY SMT
  <2> HIDE DEF t
  <2> QED BY <2>1, <2>3, <2>4
<1>2. ASSUME NEW j \in 1 .. k, j - 1 \in G
      PROVE  j \in G
  <2>1. t(j) = Append(t(j - 1), e)
    BY SMT
  <2>2. t(j - 1) \in Seq(T) /\ Tally(t(j - 1), S) = Tally(s, S) + IF e \in S THEN j - 1 ELSE 0
    BY <1>2
  <2>3. Append(t(j - 1), e) \in Seq(T)
    <3> HIDE DEF t
    <3> QED BY <2>2, SMT
  <2>4. Tally(t(j), S) = Tally(t(j - 1), S) + IF e \in S THEN 1 ELSE 0
    <3> HIDE DEF t
    <3> QED BY <2>1, <2>2, TallyAppend
  <2>5. Tally(s, S) \in Nat
    BY TallyType
  <2>6. Tally(t(j), S) = Tally(s, S) + IF e \in S THEN j ELSE 0
    <3> HIDE DEF t
    <3> QED BY <2>2, <2>4, <2>5, SMT
  <2>7. j \in 0 .. k
    BY SMT
  <2> HIDE DEF t
  <2> QED BY <2>1, <2>3, <2>6, <2>7
<1>3. \A j \in 0 .. k : j \in G
  <2> HIDE DEF G
  <2> QED BY <1>1, <1>2, UpTo
<1>4. k \in G
  BY <1>3, SMT
<1> QED BY <1>4

\* Without its last element.
LEMMA TallyFront ==
    ASSUME NEW T, NEW s \in Seq(T), s # <<>>, NEW S
    PROVE  /\ SubSeq(s, 1, Len(s) - 1) \in Seq(T) /\ s[Len(s)] \in T
           /\ Tally(s, S) = Tally(SubSeq(s, 1, Len(s) - 1), S) + IF s[Len(s)] \in S THEN 1 ELSE 0
<1> DEFINE t == SubSeq(s, 1, Len(s) - 1)
           e == s[Len(s)]
<1>1. t \in Seq(T) /\ e \in T
  BY SMT
<1>2. s = Append(t, e)
  BY SMT
<1> HIDE DEF t, e
<1>3. Tally(s, S) = Tally(t, S) + IF e \in S THEN 1 ELSE 0
  BY <1>1, <1>2, TallyAppend
<1> QED BY <1>1, <1>3 DEF t, e
-----------------------------------------------------------------------------
\* What the concatenation of two sequences holds.
LEMMA ConcatFacts ==
    ASSUME NEW S, NEW s \in Seq(S), NEW t \in Seq(S)
    PROVE  /\ s \o t \in Seq(S) /\ Len(s \o t) = Len(s) + Len(t)
           /\ Len(s) \in Nat /\ Len(t) \in Nat
           /\ \A i \in 1 .. Len(s) : (s \o t)[i] = s[i]
           /\ \A i \in 1 .. Len(t) : (s \o t)[Len(s) + i] = t[i]
OBVIOUS

\* A concatenation grows with its second part.
AppendsLast(s, t, e) == Append(s \o t, e) = s \o Append(t, e)

LEMMA AppendConcat ==
    ASSUME NEW S, NEW s \in Seq(S), NEW t \in Seq(S), NEW e \in S
    PROVE  AppendsLast(s, t, e)
BY DEF AppendsLast

\* The positions in L are those in K from m + 1 to m + n, less m.
Cut(L, K, m, n) == \A i \in 1 .. n : i \in L <=> m + i \in K

\* At of a concatenation, ...
LEMMA AtConcat ==
    ASSUME NEW S, NEW s \in Seq(S), NEW t \in Seq(S), NEW K, NEW L, NEW M,
           Cut(L, K, 0, Len(s)), Cut(M, K, Len(s), Len(t))
    PROVE  At(s \o t, K) = At(s, L) \o At(t, M)
<1> DEFINE u == s \o t
           a == Len(s)
           b == Len(t)
<1>1. /\ u \in Seq(S) /\ Len(u) = a + b /\ a \in Nat /\ b \in Nat
      /\ \A i \in 1 .. a : u[i] = s[i]
      /\ \A i \in 1 .. b : u[a + i] = t[i]
  BY ConcatFacts
<1> HIDE DEF u
<1>2. PICK f : IsAt(f, S, u, K) /\ At(u, K) = f[Len(u)]
  BY <1>1, AtRecursion
<1>3. PICK g : IsAt(g, S, s, L) /\ At(s, L) = g[a]
  BY AtRecursion
<1>4. PICK h : IsAt(h, S, t, M) /\ At(t, M) = h[b]
  BY AtRecursion
<1>5. /\ f \in [0 .. a + b -> Seq(S)] /\ f[0] = <<>>
      /\ \A i \in 1 .. a + b : f[i] = IF i \in K THEN Append(f[i - 1], u[i]) ELSE f[i - 1]
  BY <1>1, <1>2 DEF IsAt
<1>6. /\ g \in [0 .. a -> Seq(S)] /\ g[0] = <<>>
      /\ \A i \in 1 .. a : g[i] = IF i \in L THEN Append(g[i - 1], s[i]) ELSE g[i - 1]
  BY <1>3 DEF IsAt
<1>7. /\ h \in [0 .. b -> Seq(S)] /\ h[0] = <<>>
      /\ \A i \in 1 .. b : h[i] = IF i \in M THEN Append(h[i - 1], t[i]) ELSE h[i - 1]
  BY <1>4 DEF IsAt
<1>x. /\ \A i \in 1 .. a : i \in L <=> i \in K
      /\ \A i \in 1 .. b : i \in M <=> a + i \in K
      /\ \A i \in 1 .. b : t[i] \in S
  BY DEF Cut
<1> HIDE DEF a, b
<1>8. \A i \in 0 .. a : f[i] = g[i]
  <2> DEFINE G == {i \in 0 .. a : f[i] = g[i]}
  <2>1. 0 \in G
    BY <1>1, <1>5, <1>6
  <2>2. ASSUME NEW i \in 1 .. a, i - 1 \in G
        PROVE  i \in G
    <3>1. i \in 1 .. a + b /\ i \in 0 .. a
      BY <1>1
    <3> QED BY <3>1, <2>2, <1>1, <1>5, <1>6, <1>x
  <2>3. \A i \in 0 .. a : i \in G
    <3> HIDE DEF G
    <3> QED BY <2>1, <2>2, <1>1, UpTo
  <2> QED BY <2>3
<1>9. a \in 0 .. a /\ g[a] \in Seq(S) /\ f[a] = g[a]
  BY <1>1, <1>6, <1>8
<1>10. \A i \in 0 .. b : f[a + i] = g[a] \o h[i]
  <2> DEFINE G == {i \in 0 .. b : f[a + i] = g[a] \o h[i]}
  <2>1. 0 \in G
    <3>1. g[a] \o <<>> = g[a] /\ a + 0 = a /\ 0 \in 0 .. b
      BY <1>1, <1>9
    <3> QED BY <3>1, <1>7, <1>9
  <2>2. ASSUME NEW i \in 1 .. b, i - 1 \in G
        PROVE  i \in G
    <3>1. /\ a + i \in 1 .. a + b /\ (a + i) - 1 = a + (i - 1) /\ i \in 0 .. b /\ i - 1 \in 0 .. b
          /\ u[a + i] = t[i] /\ t[i] \in S
      BY <1>1, <1>x
    <3>2. f[a + i] = IF a + i \in K THEN Append(f[a + (i - 1)], t[i]) ELSE f[a + (i - 1)]
      BY <3>1, <1>5
    <3>3. h[i] = (IF i \in M THEN Append(h[i - 1], t[i]) ELSE h[i - 1]) /\ h[i - 1] \in Seq(S)
      BY <3>1, <1>7
    <3>4. f[a + (i - 1)] = g[a] \o h[i - 1]
      BY <2>2
    <3>5. Append(g[a] \o h[i - 1], t[i]) = g[a] \o Append(h[i - 1], t[i])
      <4>1. g[a] \in Seq(S) /\ h[i - 1] \in Seq(S) /\ t[i] \in S
        BY <3>1, <3>3, <1>9
      <4>2. AppendsLast(g[a], h[i - 1], t[i])
        BY ONLY <4>1, AppendConcat
      <4> QED BY ONLY <4>2 DEF AppendsLast
    <3>6. f[a + i] = g[a] \o h[i]
      BY <3>2, <3>3, <3>4, <3>5, <1>x
    <3> QED BY <3>1, <3>6
  <2>3. \A i \in 0 .. b : i \in G
    <3> HIDE DEF G
    <3> QED BY <2>1, <2>2, <1>1, UpTo
  <2> QED BY <2>3
<1>11. f[a + b] = g[a] \o h[b]
  <2>1. b \in 0 .. b
    BY <1>1
  <2> QED BY <1>10, <2>1
<1>12. At(u, K) = g[a] \o h[b]
  BY <1>1, <1>2, <1>11
<1> QED BY <1>3, <1>4, <1>12 DEF u, a, b

\* ... where nothing is chosen, of one element, ...
LEMMA AtNone ==
    ASSUME NEW S, NEW s \in Seq(S), NEW K, \A i \in 1 .. Len(s) : i \notin K
    PROVE  At(s, K) = <<>>
<1>1. PICK e : Embeds(e, At(s, K), s, Len(s), K)
  BY AtEmbeds
<1>2. At(s, K) \in Seq(S)
  BY AtEmbeds
<1> DEFINE r == At(s, K)
<1> HIDE DEF r
<1>3. r \in Seq(S) /\ \A j \in 1 .. Len(r) : e[j] \in K /\ e[j] \in 1 .. Len(s)
  BY <1>1, <1>2 DEF Embeds, r
<1>4. Len(r) = 0
  BY <1>3
<1>5. r = <<>>
  BY <1>3, <1>4
<1> QED BY <1>5 DEF r

LEMMA AtOne ==
    ASSUME NEW S, NEW e \in S, NEW K
    PROVE  At(<<e>>, K) = IF 1 \in K THEN <<e>> ELSE <<>>
<1> DEFINE s == <<e>>
<1>1. s \in Seq(S) /\ Len(s) = 1 /\ s[1] = e
  OBVIOUS
<1> HIDE DEF s
<1>2. PICK f : IsAt(f, S, s, K) /\ At(s, K) = f[Len(s)]
  BY <1>1, AtRecursion
<1>3. f[0] = <<>> /\ f[1] = IF 1 \in K THEN Append(f[0], s[1]) ELSE f[0]
  BY <1>1, <1>2 DEF IsAt
<1>4. Append(<<>>, e) = <<e>>
  OBVIOUS
<1> QED BY <1>1, <1>2, <1>3, <1>4 DEF s

\* ... and of a sequence that grows at its end ...
LEMMA AtAppend ==
    ASSUME NEW S, NEW s \in Seq(S), NEW e \in S, NEW K, NEW L,
           Cut(L, K, 0, Len(s))
    PROVE  At(Append(s, e), K) = IF Len(s) + 1 \in K THEN Append(At(s, L), e) ELSE At(s, L)
<1> DEFINE M == {i \in {1} : Len(s) + i \in K}
           r == At(s, L)
           t == <<e>>
<1>1. t \in Seq(S) /\ Len(t) = 1 /\ Append(s, e) = s \o t /\ Len(s) \in Nat
  OBVIOUS
<1>2. At(t, M) = IF 1 \in M THEN t ELSE <<>>
  BY AtOne
<1>3. r \in Seq(S)
  BY AtEmbeds
<1>4. Cut(M, K, Len(s), Len(t)) /\ Cut(L, K, 0, Len(s))
  BY <1>1 DEF Cut
<1> HIDE DEF t, M, r
<1>5. At(s \o t, K) = r \o At(t, M)
  BY ONLY s \in Seq(S), <1>1, <1>4, AtConcat DEF r
<1>6. r \o <<>> = r /\ r \o t = Append(r, e)
  BY <1>3 DEF t
<1>7. 1 \in M <=> Len(s) + 1 \in K
  BY DEF M
<1> QED BY <1>1, <1>2, <1>5, <1>6, <1>7 DEF r

\* ... or loses its head.
LEMMA AtHead ==
    ASSUME NEW S, NEW s \in Seq(S), s # <<>>, NEW K, NEW L, Cut(L, K, 1, Len(Tail(s)))
    PROVE  At(s, K) = IF 1 \in K THEN <<Head(s)>> \o At(Tail(s), L) ELSE At(Tail(s), L)
<1> DEFINE e == Head(s)
           t == Tail(s)
           u == <<e>>
           r == At(t, L)
<1>1. e \in S /\ t \in Seq(S) /\ u \in Seq(S) /\ s = u \o t /\ Len(u) = 1
  OBVIOUS
<1>2. At(u, K) = IF 1 \in K THEN u ELSE <<>>
  BY <1>1, AtOne
<1>3. r \in Seq(S)
  BY <1>1, AtEmbeds
<1>4. Cut(L, K, Len(u), Len(t))
  BY <1>1 DEF Cut
<1>5. Cut(K, K, 0, Len(u))
  BY DEF Cut
<1> HIDE DEF u, t, r
<1>6. At(u \o t, K) = At(u, K) \o r
  <2>1. u \in Seq(S) /\ t \in Seq(S)
    BY <1>1
  <2> QED BY ONLY <1>4, <1>5, <2>1, AtConcat DEF r
<1>7. <<>> \o r = r
  BY <1>3
<1> QED BY <1>1, <1>2, <1>6, <1>7 DEF u, t, r

\* Concatenation is associative, and appends.
Associates(a, b, c) == (a \o b) \o c = a \o (b \o c)

LEMMA ConcatAssociates ==
    ASSUME NEW S, NEW a \in Seq(S), NEW b \in Seq(S), NEW c \in Seq(S)
    PROVE  Associates(a, b, c)
BY DEF Associates

LEMMA ConcatOne ==
    ASSUME NEW S, NEW a \in Seq(S), NEW e \in S
    PROVE  /\ <<e>> \in Seq(S) /\ Append(a, e) = a \o <<e>>
           /\ <<>> \o a = a /\ a \o <<>> = a
           /\ a # <<>> => Head(a) \in S /\ Tail(a) \in Seq(S) /\ <<Head(a)>> \o Tail(a) = a
OBVIOUS

\* The first element of b moves to the end of a, or an element from the end of b to
\* the start of what follows: the whole is the same.
MovesOn(a, b, c, e) ==
    /\ b # <<>> => Append(a, Head(b)) \o Tail(b) \o c = a \o b \o c
    /\ a \o Append(b, e) \o c = a \o b \o (<<e>> \o c)

LEMMA MovedOn ==
    ASSUME NEW S, NEW a \in Seq(S), NEW b \in Seq(S), NEW c \in Seq(S), NEW e \in S
    PROVE  MovesOn(a, b, c, e)
<1>1. ASSUME b # <<>>
      PROVE  Append(a, Head(b)) \o Tail(b) = a \o b
  <2>1. PICK h \in S, t \in Seq(S) : h = Head(b) /\ t = Tail(b) /\ <<h>> \o t = b /\ <<h>> \in Seq(S)
    BY <1>1, ConcatOne
  <2>2. Append(a, h) = a \o <<h>>
    BY <2>1, ConcatOne
  <2>3. (a \o <<h>>) \o t = a \o (<<h>> \o t)
    BY <2>1, ConcatAssociates DEF Associates
  <2> QED BY <2>1, <2>2, <2>3
<1>2. a \o Append(b, e) \o c = a \o b \o (<<e>> \o c)
  <2>1. Append(b, e) = b \o <<e>> /\ <<e>> \in Seq(S)
    BY ConcatOne
  <2>2. a \o (b \o <<e>>) = (a \o b) \o <<e>>
    BY <2>1, ConcatAssociates DEF Associates
  <2>3. a \o b \in Seq(S)
    OBVIOUS
  <2>4. ((a \o b) \o <<e>>) \o c = (a \o b) \o (<<e>> \o c)
    BY <2>1, <2>3, ConcatAssociates DEF Associates
  <2> QED BY <2>1, <2>2, <2>4
<1> QED BY <1>1, <1>2 DEF MovesOn
=============================================================================
