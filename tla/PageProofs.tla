------------------------------- MODULE PageProofs -------------------------------
(***************************************************************************)
(* Proofs about what MainContent, Extract and Render make of a page, for   *)
(* every page.                                                             *)
(***************************************************************************)
EXTENDS Extract, MainContent, NaturalsInduction, WellFoundedInduction,
        FiniteSetTheorems, TLAPS

(* A set of numbers has a least one. *)
LEMMA LeastNumber ==
  ASSUME NEW S \in SUBSET Nat, S # {}
  PROVE  \E m \in S : \A l \in S : m <= l
<1>1. PICK m \in S : \A l \in S : ~ (<<l, m>> \in OpToRel(<, Nat))
  BY NatLessThanWellFounded, WFMin
<1>2. \A l \in S : ~ (l < m)
  BY <1>1 DEF OpToRel
<1> QED
  BY <1>2

(* There is a function that starts with a and goes on by g. *)
Recurs(V, a, N, g) ==
  \E u \in [0 .. N -> V] : u[0] = a /\ \A n \in 1 .. N : u[n] = g[<<n, u[n - 1]>>]

LEMMA Recursion ==
  ASSUME NEW V, NEW a \in V, NEW N \in Nat, NEW g \in [(1 .. N) \X V -> V]
  PROVE  Recurs(V, a, N, g)
<1> DEFINE Goes(u, M) == u[0] = a /\ \A n \in 1 .. M : u[n] = g[<<n, u[n - 1]>>]
           Bad == {M \in 0 .. N : ~ \E u \in [0 .. M -> V] : Goes(u, M)}
<1>1. Bad = {}
  <2> SUFFICES ASSUME Bad # {} PROVE FALSE
    OBVIOUS
  <2>1. PICK M \in Bad : \A L \in Bad : M <= L
    <3>1. Bad \in SUBSET Nat
      OBVIOUS
    <3> HIDE DEF Bad
    <3>2. QED
      BY <3>1, LeastNumber
  <2>2. M \in 0 .. N /\ ~ \E u \in [0 .. M -> V] : Goes(u, M)
    OBVIOUS
  <2>3. CASE M = 0
    <3> DEFINE u == [n \in 0 .. 0 |-> a]
    <3>1. u \in [0 .. 0 -> V] /\ Goes(u, 0)
      OBVIOUS
    <3>2. QED
      BY <2>2, <2>3, <3>1
  <2>4. CASE M # 0
    <3>1. M - 1 \in 0 .. N /\ ~(M <= M - 1)
      BY <2>2, <2>4
    <3>2. PICK v \in [0 .. M - 1 -> V] : Goes(v, M - 1)
      BY <2>1, <3>1
    <3> DEFINE u == [n \in 0 .. M |-> IF n = M THEN g[<<M, v[M - 1]>>] ELSE v[n]]
    <3>3. v[M - 1] \in V /\ g[<<M, v[M - 1]>>] \in V
      BY <2>2, <2>4, <3>2
    <3>4. u \in [0 .. M -> V] /\ u[M] = g[<<M, v[M - 1]>>]
          /\ \A n \in 0 .. M - 1 : u[n] = v[n]
      BY <2>2, <2>4, <3>2, <3>3
    <3> HIDE DEF u
    <3>5. u[0] = a
      BY <3>1, <3>2, <3>4
    <3>6. ASSUME NEW n \in 1 .. M PROVE u[n] = g[<<n, u[n - 1]>>]
      <4>1. n - 1 \in 0 .. M - 1
        BY <2>2
      <4>2. u[n - 1] = v[n - 1]
        BY <3>4, <4>1
      <4>3. CASE n = M
        BY <3>4, <4>2, <4>3
      <4>4. CASE n # M
        <5>1. n \in 1 .. M - 1 /\ n \in 0 .. M - 1
          BY <2>2, <4>4
        <5>2. QED
          BY <3>2, <3>4, <4>2, <5>1
      <4>5. QED
        BY <4>3, <4>4
    <3>7. QED
      BY <2>2, <3>4, <3>5, <3>6
  <2>5. QED
    BY <2>3, <2>4
<1>2. N \in 0 .. N
  OBVIOUS
<1>3. \E u \in [0 .. N -> V] : Goes(u, N)
  BY <1>1, <1>2
<1>4. QED
  BY <1>3 DEF Recurs

(* What FlattenSeq computes, one sequence at a time. *)
LEMMA FlattenSteps ==
  ASSUME NEW S, NEW s \in Seq(Seq(S))
  PROVE  \E u \in [0 .. Len(s) -> Seq(S)] :
           /\ u[0] = <<>>
           /\ \A n \in 1 .. Len(s) : u[n] = u[n - 1] \o s[n]
           /\ FlattenSeq(s) = u[Len(s)]
<1> DEFINE N == Len(s)
           g == [x \in (1 .. N) \X Seq(S) |-> x[2] \o s[x[1]]]
           Body(w) == [i \in 1 .. N |-> IF i = 1 THEN s[i] ELSE w[i - 1] \o s[i]]
           w == CHOOSE v : v = Body(v)
<1>1. N \in Nat /\ \A n \in 1 .. N : s[n] \in Seq(S)
  OBVIOUS
<1>2. <<>> \in Seq(S) /\ g \in [(1 .. N) \X Seq(S) -> Seq(S)]
  BY <1>1
<1>3. PICK u \in [0 .. N -> Seq(S)] :
        u[0] = <<>> /\ \A n \in 1 .. N : u[n] = g[<<n, u[n - 1]>>]
  <2> DEFINE V == Seq(S)
             a == <<>>
  <2>1. a \in V /\ g \in [(1 .. N) \X V -> V] /\ N \in Nat
    BY <1>1, <1>2
  <2> HIDE DEF N, g, V, a
  <2>2. Recurs(V, a, N, g)
    BY <2>1, Recursion
  <2>3. QED
    BY <2>2 DEF Recurs, V, a
<1>4. ASSUME NEW n \in 1 .. N PROVE u[n] = u[n - 1] \o s[n]
  <2>1. n - 1 \in 0 .. N
    BY <1>1
  <2>2. u[n - 1] \in Seq(S)
    BY <1>3, <2>1
  <2>3. QED
    BY <1>3, <2>2
<1>5. CASE N = 0
  BY <1>1, <1>3, <1>5 DEF FlattenSeq
<1>6. CASE N # 0
  <2>1. \E v : v = Body(v)
    <3> DEFINE v == [i \in 1 .. N |-> u[i]]
    <3>1. ASSUME NEW i \in 1 .. N
          PROVE  v[i] = IF i = 1 THEN s[i] ELSE v[i - 1] \o s[i]
      <4>1. u[i] = u[i - 1] \o s[i] /\ s[i] \in Seq(S)
        BY <1>1, <1>4
      <4>2. CASE i = 1
        <5>1. <<>> \o s[i] = s[i]
          BY <4>1
        <5>2. u[i - 1] = <<>>
          BY <1>3, <4>2
        <5>3. QED
          BY <4>1, <4>2, <5>1, <5>2
      <4>3. CASE i # 1
        <5>1. i - 1 \in 1 .. N
          BY <1>1, <4>3
        <5>2. v[i - 1] = u[i - 1]
          BY <5>1
        <5>3. QED
          BY <4>1, <4>3, <5>2
      <4>4. QED
        BY <4>2, <4>3
    <3>2. v = Body(v)
      BY <3>1
    <3>3. QED
      BY <3>2
  <2>2. w = Body(w)
    BY <2>1
  <2> HIDE DEF w
  <2>3. ASSUME NEW i \in 1 .. N
        PROVE  w[i] = IF i = 1 THEN s[i] ELSE w[i - 1] \o s[i]
    <3>1. Body(w)[i] = IF i = 1 THEN s[i] ELSE w[i - 1] \o s[i]
      OBVIOUS
    <3> HIDE DEF Body
    <3>2. QED
      BY <2>2, <3>1
  <2> DEFINE Bad == {i \in 1 .. N : w[i] # u[i]}
  <2>4. Bad = {}
    <3> SUFFICES ASSUME Bad # {} PROVE FALSE
      OBVIOUS
    <3>1. PICK i \in Bad : \A j \in Bad : i <= j
      <4>1. Bad \in SUBSET Nat
        BY <1>1
      <4> HIDE DEF Bad
      <4>2. QED
        BY <4>1, LeastNumber
    <3>2. i \in 1 .. N /\ w[i] # u[i] /\ u[i] = u[i - 1] \o s[i] /\ s[i] \in Seq(S)
      BY <1>1, <1>4
    <3>3. CASE i = 1
      <4>1. u[i - 1] = <<>> /\ w[i] = s[i]
        BY <1>3, <2>3, <3>3
      <4>2. <<>> \o s[i] = s[i]
        BY <3>2
      <4>3. QED
        BY <3>2, <4>1, <4>2
    <3>4. CASE i # 1
      <4>1. i - 1 \in 1 .. N /\ ~(i <= i - 1)
        BY <1>1, <3>2, <3>4
      <4>2. w[i - 1] = u[i - 1]
        BY <3>1, <4>1
      <4>3. w[i] = w[i - 1] \o s[i]
        BY <2>3, <3>2, <3>4
      <4>4. QED
        BY <3>2, <4>2, <4>3
    <3>5. QED
      BY <3>3, <3>4
  <2>5. w[N] = u[N]
    <3>1. N \in 1 .. N
      BY <1>1, <1>6
    <3> HIDE DEF N
    <3>2. QED
      BY <2>4, <3>1
  <2>6. FlattenSeq(s) = w[N]
    BY <1>1, <1>6 DEF FlattenSeq, w
  <2>7. QED
    BY <1>3, <1>4, <2>5, <2>6
<1>7. QED
  BY <1>5, <1>6

(* Of finitely many things that are weighed one is heaviest. *)
LEMMA Heaviest ==
  ASSUME NEW N \in Nat, NEW S \in SUBSET (1 .. N), S # {}, NEW g,
         \A i \in S : g[i] \in Nat
  PROVE  \E i \in S : \A j \in S : g[j] <= g[i]
<1> DEFINE Upto(M) == {i \in S : i <= M}
           Bad == {M \in Nat : Upto(M) # {} /\ ~ \E i \in Upto(M) : \A j \in Upto(M) : g[j] <= g[i]}
<1>1. Bad = {}
  <2> SUFFICES ASSUME Bad # {} PROVE FALSE
    OBVIOUS
  <2>1. PICK M \in Bad : \A L \in Bad : M <= L
    <3>1. Bad \in SUBSET Nat
      OBVIOUS
    <3> HIDE DEF Bad
    <3>2. QED
      BY <3>1, LeastNumber
  <2>2. /\ M \in Nat /\ Upto(M) # {}
        /\ ~ \E i \in Upto(M) : \A j \in Upto(M) : g[j] <= g[i]
    OBVIOUS
  <2>3. M # 0
    <3>1. PICK i \in S : i <= M
      BY <2>2
    <3>2. i \in 1 .. N
      OBVIOUS
    <3>3. QED
      BY <2>2, <3>1, <3>2
  <2>4. M - 1 \in Nat /\ ~(M <= M - 1)
    BY <2>2, <2>3
  <2>5. M - 1 \notin Bad
    BY <2>1, <2>4
  <2>6. \A i \in Upto(M) : i = M \/ i \in Upto(M - 1)
    BY <2>2
  <2>7. \A i \in Upto(M - 1) : i \in Upto(M)
    BY <2>2
  <2>8. CASE Upto(M - 1) = {}
    <3>1. \A i \in Upto(M) : i = M
      BY <2>6, <2>8
    <3>2. M \in Upto(M) /\ g[M] \in Nat
      BY <2>2, <3>1
    <3>3. QED
      BY <2>2, <3>1, <3>2
  <2>9. CASE Upto(M - 1) # {}
    <3>1. PICK i \in Upto(M - 1) : \A j \in Upto(M - 1) : g[j] <= g[i]
      BY <2>4, <2>5, <2>9
    <3>2. i \in Upto(M) /\ g[i] \in Nat
      BY <2>7
    <3>3. PICK j \in Upto(M) : ~(g[j] <= g[i])
      BY <2>2, <3>2
    <3>4. j = M /\ g[M] \in Nat /\ ~(g[M] <= g[i])
      BY <2>6, <3>1, <3>3
    <3>5. \A l \in Upto(M) : g[l] <= g[M]
      <4>1. ASSUME NEW l \in Upto(M) PROVE g[l] <= g[M]
        <5>1. g[l] \in Nat
          OBVIOUS
        <5>2. CASE l = M
          BY <3>4, <5>2
        <5>3. CASE l # M
          <6>1. g[l] <= g[i]
            BY <2>6, <3>1, <5>3
          <6>2. QED
            BY <3>2, <3>4, <5>1, <6>1
        <5>4. QED
          BY <5>2, <5>3
      <4>2. QED
        BY <4>1
    <3>6. QED
      BY <2>2, <3>3, <3>4, <3>5
  <2>10. QED
    BY <2>8, <2>9
<1>2. \A i \in S : i \in 1 .. N /\ i <= N
  OBVIOUS
<1>3. Upto(N) = S
  BY <1>2
<1>4. ~(Upto(N) # {} /\ ~ \E i \in Upto(N) : \A j \in Upto(N) : g[j] <= g[i])
  BY <1>1
<1> HIDE DEF Upto
<1>5. QED
  BY <1>3, <1>4

(* f numbers the elements of T by those of S. *)
OneToOne(f, S, T) ==
  /\ \A x \in S : f[x] \in T
  /\ \A x, y \in S : f[x] = f[y] => x = y
  /\ \A t \in T : \E x \in S : f[x] = t

LEMMA SameSize ==
  ASSUME NEW S, NEW T, NEW f, IsFiniteSet(S), OneToOne(f, S, T)
  PROVE  IsFiniteSet(T) /\ Cardinality(T) = Cardinality(S)
<1> DEFINE g == [x \in S |-> f[x]]
<1>1. g \in Bijection(S, T)
  BY DEF OneToOne, Bijection, Injection, Surjection, IsInjective
<1>2. ExistsBijection(S, T)
  BY <1>1 DEF ExistsBijection
<1>3. QED
  BY <1>2, FS_Bijection

-----------------------------------------------------------------------------
(* Document order.                                                         *)

(* The ranks of a set of numbers grow with them. *)
LEMMA RankGrows ==
  ASSUME NEW N \in SUBSET Nat, IsFiniteSet(N)
  PROVE  /\ Cardinality(N) \in Nat
         /\ \A i \in Nat : Rank(N, i) \in 0 .. Cardinality(N)
         /\ \A i \in N : Rank(N, i) # 0
         /\ \A i \in Nat, j \in N : i < j => Rank(N, i) < Rank(N, j)
<1>1. Cardinality(N) \in Nat
  BY FS_CardinalityType
<1>2. ASSUME NEW i \in Nat PROVE /\ IsFiniteSet({j \in N : j <= i})
                                  /\ Rank(N, i) \in 0 .. Cardinality(N)
  <2>1. {j \in N : j <= i} \in SUBSET N
    OBVIOUS
  <2>2. IsFiniteSet({j \in N : j <= i}) /\ Cardinality({j \in N : j <= i}) <= Cardinality(N)
    BY <2>1, FS_Subset
  <2>3. Cardinality({j \in N : j <= i}) \in Nat
    BY <2>2, FS_CardinalityType
  <2>4. QED
    BY <1>1, <2>2, <2>3 DEF Rank
<1>3. ASSUME NEW i \in N PROVE Rank(N, i) # 0
  <2>1. i \in {j \in N : j <= i}
    OBVIOUS
  <2>2. QED
    BY <1>2, <2>1, FS_EmptySet DEF Rank
<1>4. ASSUME NEW i \in Nat, NEW j \in N, i < j PROVE Rank(N, i) < Rank(N, j)
  <2> DEFINE S == {k \in N : k <= i}
             T == {k \in N : k <= j}
  <2>1. S \in SUBSET T /\ S # T
    <3>1. j \in T /\ j \notin S
      BY <1>4
    <3>2. \A k \in N : k <= i => k <= j
      BY <1>4
    <3>3. S \in SUBSET T
      BY <3>2
    <3>4. QED
      BY <3>1, <3>3
  <2>2. IsFiniteSet(T) /\ Rank(N, i) \in Nat /\ Rank(N, j) \in Nat
    <3>1. j \in Nat
      OBVIOUS
    <3>2. Rank(N, i) \in 0 .. Cardinality(N) /\ Rank(N, j) \in 0 .. Cardinality(N)
      BY <1>2, <3>1
    <3>3. QED
      BY <1>1, <1>2, <3>1, <3>2
  <2>3. Cardinality(S) <= Cardinality(T) /\ Cardinality(T) # Cardinality(S)
    <3> HIDE DEF S, T
    <3>1. QED
      BY <2>1, <2>2, FS_Subset
  <2>4. QED
    BY <2>2, <2>3 DEF Rank
<1>5. QED
  BY <1>1, <1>2, <1>3, <1>4

(* Ordered counts a set of numbers up, and Rank is its inverse. *)
LEMMA OrderedCounts ==
  ASSUME NEW N \in SUBSET Nat, IsFiniteSet(N)
  PROVE  LET n == Cardinality(N)
             f == Ordered(N)
         IN  /\ n \in Nat
             /\ DOMAIN f = 1 .. n
             /\ \A k \in 1 .. n : f[k] \in N /\ Rank(N, f[k]) = k
             /\ \A i \in N : Rank(N, i) \in 1 .. n /\ f[Rank(N, i)] = i
<1> DEFINE n == Cardinality(N)
           f == Ordered(N)
           r == [i \in N |-> Rank(N, i)]
<1>1. n \in Nat
  BY RankGrows
<1>2. \A i \in N : r[i] \in 1 .. n
  BY <1>1, RankGrows
<1>3. \A i, j \in N : Rank(N, i) = Rank(N, j) => i = j
  <2> SUFFICES ASSUME NEW i \in N, NEW j \in N, Rank(N, i) = Rank(N, j), i # j PROVE FALSE
    OBVIOUS
  <2>1. i < j \/ j < i
    OBVIOUS
  <2>2. Rank(N, i) \in Nat /\ Rank(N, j) \in Nat
    BY RankGrows
  <2>3. i \in Nat /\ j \in Nat
    OBVIOUS
  <2>4. QED
    BY <2>1, <2>2, <2>3, RankGrows
<1>4. r \in Injection(N, 1 .. n)
  BY <1>2, <1>3 DEF Injection, IsInjective
<1>5. IsFiniteSet(1 .. n) /\ Cardinality(1 .. n) = n
  BY <1>1, FS_Interval
<1>6. r \in Surjection(N, 1 .. n)
  <2> HIDE DEF r
  <2> QED
    BY <1>4, <1>5, FS_Injection
<1>7. ASSUME NEW k \in 1 .. n PROVE f[k] \in N /\ Rank(N, f[k]) = k
  <2>1. \E i \in N : Rank(N, i) = k
    BY <1>6 DEF Surjection
  <2>2. f[k] = CHOOSE i \in N : Rank(N, i) = k
    BY DEF Ordered
  <2>3. QED
    BY <2>1, <2>2
<1>8. ASSUME NEW i \in N PROVE f[Rank(N, i)] = i
  <2>1. Rank(N, i) \in 1 .. n
    BY <1>2
  <2>2. f[Rank(N, i)] \in N /\ Rank(N, f[Rank(N, i)]) = Rank(N, i)
    BY <1>7, <2>1
  <2>3. QED
    BY <1>3, <2>2
<1>9. DOMAIN f = 1 .. n
  BY DEF Ordered
<1>10. QED
  BY <1>1, <1>2, <1>7, <1>8, <1>9

(* Numbers that are moved without changing their order keep their ranks,   *)
(* and are counted up in the same order.                                   *)
LEMMA RankMoves ==
  ASSUME NEW B \in SUBSET Nat, IsFiniteSet(B), NEW A, NEW f, OneToOne(f, B, A),
         NEW u, NEW v, \A k \in B : k <= v <=> f[k] <= u
  PROVE  Rank(A, u) = Rank(B, v)
<1> DEFINE S == {k \in B : k <= v}
           T == {a \in A : a <= u}
<1>1. IsFiniteSet(S)
  <2>1. S \in SUBSET B
    OBVIOUS
  <2>2. QED
    BY <2>1, FS_Subset
<1>2. OneToOne(f, S, T)
  BY DEF OneToOne
<1>3. Cardinality(T) = Cardinality(S)
  <2> HIDE DEF S, T
  <2> QED
    BY <1>1, <1>2, SameSize
<1>4. QED
  BY <1>3 DEF Rank

(* f numbers the elements of A by those of B in their order. *)
InOrder(f, B, A) ==
  /\ \A k \in B : f[k] \in A
  /\ \A k, l \in B : k < l => f[k] < f[l]
  /\ \A a \in A : \E k \in B : f[k] = a

LEMMA OrderMoves ==
  ASSUME NEW B \in SUBSET Nat, IsFiniteSet(B), NEW A \in SUBSET Nat, NEW f, InOrder(f, B, A)
  PROVE  /\ IsFiniteSet(A)
         /\ Cardinality(A) = Cardinality(B)
         /\ \A k \in 1 .. Cardinality(B) :
              Ordered(B)[k] \in B /\ Ordered(A)[k] = f[Ordered(B)[k]]
<1>1. \A k \in B : k \in Nat /\ f[k] \in Nat
  BY DEF InOrder
<1>2. \A k, l \in B : k <= l <=> f[k] <= f[l]
  BY <1>1 DEF InOrder
<1>3. OneToOne(f, B, A)
  BY <1>1 DEF InOrder, OneToOne
<1>4. IsFiniteSet(A) /\ Cardinality(A) = Cardinality(B)
  BY <1>3, SameSize
<1>5. ASSUME NEW k \in 1 .. Cardinality(B)
      PROVE  Ordered(B)[k] \in B /\ Ordered(A)[k] = f[Ordered(B)[k]]
  <2> DEFINE b == Ordered(B)[k]
  <2>1. b \in B /\ Rank(B, b) = k
    BY OrderedCounts
  <2>2. f[b] \in A
    BY <2>1 DEF InOrder
  <2>3. Rank(A, f[b]) = Rank(B, b)
    <3> HIDE DEF b
    <3>1. \A l \in B : l <= b <=> f[l] <= f[b]
      BY <1>2, <2>1
    <3>2. QED
      BY <1>3, <3>1, RankMoves
  <2>4. Ordered(A)[Rank(A, f[b])] = f[b]
    BY <1>4, <2>2, OrderedCounts
  <2>5. QED
    BY <2>1, <2>3, <2>4
<1>6. QED
  BY <1>4, <1>5

-----------------------------------------------------------------------------
(* Trees.                                                                  *)

(* What a page is made of. *)
LEMMA DocumentShape ==
  ASSUME NEW d, IsDocument(d)
  PROVE  /\ Len(d) \in Nat \ {0}
         /\ DOMAIN d = 1 .. Len(d)
         /\ d[1].up = 0
         /\ \A i \in 2 .. Len(d) : d[i].up \in Above(d, i)
         /\ \A i \in 1 .. Len(d) :
              /\ d[i].up \in Nat
              /\ d[i] = [tag |-> d[i].tag, up |-> d[i].up, text |-> d[i].text,
                         attrs |-> d[i].attrs]
              /\ Len(d[i].text) \in Nat
              /\ DOMAIN d[i].text = 1 .. Len(d[i].text)
<1>1. d \in Seq(Range(d)) /\ d # <<>>
  BY DEF IsDocument
<1>2. Len(d) \in Nat \ {0} /\ DOMAIN d = 1 .. Len(d)
  BY <1>1
<1>3. d[1].up = 0 /\ \A i \in 2 .. Len(d) : d[i].up \in Above(d, i)
  BY <1>2 DEF IsDocument
<1>4. \A i \in 1 .. Len(d) : d[i].up \in Nat
  BY <1>2, <1>3 DEF Above
<1>5. \A i \in 1 .. Len(d) :
        /\ d[i] = [tag |-> d[i].tag, up |-> d[i].up, text |-> d[i].text, attrs |-> d[i].attrs]
        /\ d[i].text \in Seq(Range(d[i].text))
  BY <1>2 DEF IsDocument
<1>6. \A i \in 1 .. Len(d) : Len(d[i].text) \in Nat /\ DOMAIN d[i].text = 1 .. Len(d[i].text)
  BY <1>5
<1>7. QED
  BY <1>2, <1>3, <1>4, <1>5, <1>6

(* What is above something above a node is above the node. *)
LEMMA AboveIsTransitive ==
  ASSUME NEW d, IsDocument(d), NEW i \in Nat, i <= Len(d),
         NEW k \in Above(d, i), NEW j \in Above(d, k)
  PROVE  j \in Above(d, i)
<1>1. k \in 1 .. i - 1 /\ j \in 1 .. k - 1
  BY DEF Above
<1>2. ASSUME NEW m \in j + 1 .. i PROVE d[m].up >= j
  <2>1. CASE m <= k
    <3>1. m \in j + 1 .. k
      BY <1>1, <2>1
    <3>2. QED
      BY <3>1 DEF Above
  <2>2. CASE m > k
    <3>1. m \in k + 1 .. i
      BY <1>1, <2>2
    <3>2. d[m].up >= k
      BY <3>1 DEF Above
    <3>3. d[m].up \in Nat
      <4>1. m \in 1 .. Len(d)
        BY <1>1, <1>2, DocumentShape
      <4>2. QED
        BY <4>1, DocumentShape
    <3>4. QED
      BY <1>1, <3>2, <3>3
  <2>3. QED
    BY <1>1, <2>1, <2>2
<1>3. j \in 1 .. i - 1
  BY <1>1
<1>4. QED
  BY <1>2, <1>3 DEF Above

(* A set of nodes that has everything above its nodes is a tree of its     *)
(* own: between two of its nodes the others make no difference.            *)
UpwardClosed(d, N) == N \in SUBSET DOMAIN d /\ \A i \in N : Above(d, i) \subseteq N

LEMMA AboveWithin ==
  ASSUME NEW d, IsDocument(d), NEW N, UpwardClosed(d, N), NEW i \in N, NEW j \in N, j < i,
         \A k \in N : j < k /\ k <= i => d[k].up >= j
  PROVE  j \in Above(d, i)
<1> DEFINE C == {k \in {i} \cup Above(d, i) : j < k}
<1>1. /\ Len(d) \in Nat \ {0} /\ DOMAIN d = 1 .. Len(d)
      /\ i \in 1 .. Len(d) /\ j \in 1 .. Len(d)
  BY DocumentShape DEF UpwardClosed
<1>2. C \in SUBSET Nat /\ i \in C
  BY <1>1 DEF Above
<1>3. PICK k \in C : \A l \in C : k <= l
  <2> HIDE DEF C
  <2> QED
    BY <1>2, LeastNumber
<1>4. k \in N /\ j < k /\ k <= i /\ k \in 2 .. Len(d)
  BY <1>1 DEF UpwardClosed, Above
<1>5. d[k].up >= j /\ d[k].up \in Above(d, k)
  BY <1>4, DocumentShape
<1>6. d[k].up \in Above(d, i)
  <2>1. CASE k = i
    BY <1>5, <2>1
  <2>2. CASE k # i
    <3>1. k \in Above(d, i) /\ i \in Nat /\ i <= Len(d)
      BY <1>1, <2>2
    <3>2. QED
      BY <1>5, <3>1, AboveIsTransitive
  <2>3. QED
    BY <2>1, <2>2
<1>7. d[k].up \in 1 .. k - 1
  BY <1>5 DEF Above
<1>8. d[k].up \notin C
  BY <1>1, <1>3, <1>4, <1>7
<1>9. d[k].up = j
  BY <1>1, <1>5, <1>6, <1>7, <1>8
<1>10. QED
  BY <1>6, <1>9

(* p is what is left of d: its node k is node f[k] of d, and what is above *)
(* what has not changed.                                                   *)
Embeds(f, p, d) ==
  /\ IsDocument(d)
  /\ Len(p) \in Nat
  /\ DOMAIN p = 1 .. Len(p)
  /\ \A k \in DOMAIN p :
       /\ f[k] \in DOMAIN d
       /\ p[k].tag = d[f[k]].tag
       /\ p[k].text = d[f[k]].text
       /\ p[k].attrs = d[f[k]].attrs
  /\ \A k, l \in DOMAIN p : k < l => f[k] < f[l]
  /\ \A k, l \in DOMAIN p : l \in Above(p, k) <=> f[l] \in Above(d, f[k])

Image(f, B) == {f[k] : k \in B}

LEMMA PrunedShape ==
  ASSUME NEW d, IsDocument(d), NEW N, UpwardClosed(d, N)
  PROVE  LET f == Ordered(N)
             p == Pruned(d, N)
         IN  /\ N \in SUBSET Nat /\ IsFiniteSet(N)
             /\ Len(p) = Cardinality(N) /\ Len(p) \in Nat
             /\ DOMAIN p = 1 .. Len(p)
             /\ N = Image(f, DOMAIN p)
             /\ \A k \in DOMAIN p :
                  /\ f[k] \in N
                  /\ f[k] \in DOMAIN d
                  /\ d[f[k]].up \in Nat
                  /\ Rank(N, f[k]) = k
                  /\ p[k] = [d[f[k]] EXCEPT !.up = Rank(N, @)]
                  /\ p[k].tag = d[f[k]].tag
                  /\ p[k].text = d[f[k]].text
                  /\ p[k].attrs = d[f[k]].attrs
                  /\ p[k].up = Rank(N, d[f[k]].up)
             /\ \A i \in N : Rank(N, i) \in DOMAIN p /\ f[Rank(N, i)] = i
<1> DEFINE f == Ordered(N)
           p == Pruned(d, N)
<1>1. N \in SUBSET (1 .. Len(d)) /\ Len(d) \in Nat
  BY DocumentShape DEF UpwardClosed
<1>2. N \in SUBSET Nat /\ IsFiniteSet(N)
  <2>1. IsFiniteSet(1 .. Len(d))
    BY <1>1, FS_Interval
  <2>2. IsFiniteSet(N)
    BY <1>1, <2>1, FS_Subset
  <2>3. 1 .. Len(d) \in SUBSET Nat
    BY <1>1
  <2>4. QED
    BY <1>1, <2>2, <2>3
<1>3. /\ Cardinality(N) \in Nat
      /\ DOMAIN f = 1 .. Cardinality(N)
      /\ \A k \in 1 .. Cardinality(N) : f[k] \in N /\ Rank(N, f[k]) = k
      /\ \A i \in N : Rank(N, i) \in 1 .. Cardinality(N) /\ f[Rank(N, i)] = i
  BY <1>2, OrderedCounts
<1>4. p = [k \in 1 .. Cardinality(N) |-> [d[f[k]] EXCEPT !.up = Rank(N, @)]]
  BY <1>3 DEF Pruned
<1> HIDE DEF f, p
<1>5. DOMAIN p = 1 .. Cardinality(N)
  BY <1>4
<1>6. Len(p) = Cardinality(N)
  BY <1>3, <1>4
<1>7. ASSUME NEW k \in DOMAIN p
      PROVE  /\ f[k] \in N
             /\ f[k] \in DOMAIN d
             /\ d[f[k]].up \in Nat
             /\ Rank(N, f[k]) = k
             /\ p[k] = [d[f[k]] EXCEPT !.up = Rank(N, @)]
             /\ p[k].tag = d[f[k]].tag
             /\ p[k].text = d[f[k]].text
             /\ p[k].attrs = d[f[k]].attrs
             /\ p[k].up = Rank(N, d[f[k]].up)
  <2> DEFINE i == f[k]
  <2>1. i \in N /\ Rank(N, i) = k
    BY <1>3, <1>5
  <2>2. i \in 1 .. Len(d) /\ DOMAIN d = 1 .. Len(d)
    BY <1>1, <2>1, DocumentShape
  <2>3. /\ d[i].up \in Nat
        /\ d[i] = [tag |-> d[i].tag, up |-> d[i].up, text |-> d[i].text,
                   attrs |-> d[i].attrs]
    BY <2>2, DocumentShape
  <2>4. p[k] = [d[i] EXCEPT !.up = Rank(N, @)]
    BY <1>4, <1>5
  <2> HIDE DEF i
  <2>5. p[k] = [tag |-> d[i].tag, up |-> Rank(N, d[i].up), text |-> d[i].text,
                attrs |-> d[i].attrs]
    BY <2>3, <2>4
  <2>6. QED
    BY <2>1, <2>2, <2>3, <2>4, <2>5 DEF i
<1>8. N = Image(f, DOMAIN p)
  BY <1>3, <1>5 DEF Image
<1>9. QED
  BY <1>2, <1>3, <1>5, <1>6, <1>7, <1>8 DEF f, p

(* A rank is reached with the node that has it. *)
LEMMA RankReaches ==
  ASSUME NEW N \in SUBSET Nat, IsFiniteSet(N), NEW i \in N, NEW u \in Nat
  PROVE  Rank(N, i) <= Rank(N, u) <=> i <= u
<1>1. Rank(N, i) \in Nat /\ Rank(N, u) \in Nat /\ i \in Nat
  <2>1. i \in Nat
    OBVIOUS
  <2>2. QED
    BY <2>1, RankGrows
<1>2. CASE i <= u
  <2> DEFINE S == {j \in N : j <= i}
             T == {j \in N : j <= u}
  <2>1. S \in SUBSET T
    <3>1. \A j \in N : j \in Nat /\ (j <= i => j <= u)
      BY <1>1, <1>2
    <3>2. QED
      BY <3>1
  <2>2. T \in SUBSET N
    OBVIOUS
  <2> HIDE DEF S, T
  <2>3. Cardinality(S) <= Cardinality(T)
    BY <2>1, <2>2, FS_Subset
  <2>4. QED
    BY <1>2, <2>3 DEF Rank, S, T
<1>3. CASE u < i
  <2>1. Rank(N, u) < Rank(N, i)
    BY <1>3, RankGrows
  <2>2. QED
    BY <1>1, <1>3, <2>1
<1>4. QED
  BY <1>1, <1>2, <1>3

LEMMA PrunedEmbeds ==
  ASSUME NEW d, IsDocument(d), NEW N, UpwardClosed(d, N)
  PROVE  Embeds(Ordered(N), Pruned(d, N), d)
<1> DEFINE f == Ordered(N)
           p == Pruned(d, N)
<1>1. /\ N \in SUBSET Nat /\ IsFiniteSet(N)
      /\ Len(p) \in Nat
      /\ DOMAIN p = 1 .. Len(p)
      /\ \A k \in DOMAIN p :
           /\ f[k] \in N
           /\ f[k] \in DOMAIN d
           /\ d[f[k]].up \in Nat
           /\ Rank(N, f[k]) = k
           /\ p[k].tag = d[f[k]].tag
           /\ p[k].text = d[f[k]].text
           /\ p[k].attrs = d[f[k]].attrs
           /\ p[k].up = Rank(N, d[f[k]].up)
      /\ \A i \in N : Rank(N, i) \in DOMAIN p /\ f[Rank(N, i)] = i
  BY PrunedShape
<1> HIDE DEF f, p
<1>2. ASSUME NEW k \in DOMAIN p PROVE k \in Nat /\ f[k] \in Nat
  <2>1. k \in 1 .. Len(p) /\ f[k] \in N
    BY <1>1
  <2>2. k \in Nat
    BY <1>1, <2>1
  <2>3. f[k] \in Nat
    BY <1>1, <2>1
  <2>4. QED
    BY <2>2, <2>3
(* Nodes keep their order. *)
<1>3. ASSUME NEW k \in DOMAIN p, NEW u \in Nat PROVE k <= Rank(N, u) <=> f[k] <= u
  <2>1. f[k] \in N /\ Rank(N, f[k]) = k
    BY <1>1
  <2>2. Rank(N, f[k]) <= Rank(N, u) <=> f[k] <= u
    BY <1>1, <2>1, RankReaches
  <2>3. QED
    BY <2>1, <2>2
<1>4. \A k, l \in DOMAIN p : k <= l <=> f[k] <= f[l]
  BY <1>1, <1>2, <1>3
<1>5. \A k, l \in DOMAIN p : k < l <=> f[k] < f[l]
  BY <1>2, <1>4
<1>6. ASSUME NEW k \in DOMAIN p, NEW l \in DOMAIN p
      PROVE  l \in Above(p, k) <=> f[l] \in Above(d, f[k])
  <2>1. ASSUME l \in Above(p, k) PROVE f[l] \in Above(d, f[k])
    <3>1. l \in 1 .. k - 1 /\ \A m \in l + 1 .. k : p[m].up >= l
      BY <2>1 DEF Above
    <3>2. f[l] < f[k]
      BY <1>2, <1>5, <3>1
    <3>3. ASSUME NEW a \in N, f[l] < a, a <= f[k] PROVE d[a].up >= f[l]
      <4>1. PICK m \in DOMAIN p : a = f[m]
        BY <1>1
      <4>2. m \in l + 1 .. k
        BY <1>2, <1>4, <1>5, <3>3, <4>1
      <4>3. l <= Rank(N, d[f[m]].up)
        BY <1>1, <1>2, <3>1, <4>2, RankGrows
      <4>4. f[l] <= d[f[m]].up
        BY <1>1, <1>3, <4>3
      <4>5. QED
        BY <1>1, <1>2, <4>1, <4>4
    <3>4. f[l] \in N /\ f[k] \in N
      BY <1>1
    <3>5. QED
      BY <3>2, <3>3, <3>4, AboveWithin
  <2>2. ASSUME f[l] \in Above(d, f[k]) PROVE l \in Above(p, k)
    <3>1. /\ f[l] \in 1 .. f[k] - 1
          /\ \A m \in f[l] + 1 .. f[k] : d[m].up >= f[l]
      BY <2>2 DEF Above
    <3>2. l < k
      BY <1>2, <1>5, <3>1
    <3>3. ASSUME NEW m \in l + 1 .. k PROVE p[m].up >= l
      <4>1. m \in DOMAIN p /\ l < m /\ m <= k
        BY <1>1, <1>2
      <4>2. f[m] \in f[l] + 1 .. f[k]
        BY <1>2, <1>4, <1>5, <4>1
      <4>3. f[l] <= d[f[m]].up
        BY <1>1, <1>2, <3>1, <4>1, <4>2
      <4>4. l <= Rank(N, d[f[m]].up)
        BY <1>1, <1>3, <4>1, <4>3
      <4>5. QED
        BY <1>1, <1>2, <4>1, <4>4, RankGrows
    <3>4. l \in 1 .. k - 1
      BY <1>1, <1>2, <3>2
    <3>5. QED
      BY <3>3, <3>4 DEF Above
  <2>3. QED
    BY <2>1, <2>2
<1>7. QED
  BY <1>1, <1>5, <1>6 DEF Embeds, f, p

-----------------------------------------------------------------------------
(* A page without its clutter.                                             *)

LEMMA WithinAbove ==
  ASSUME NEW d, Len(d) \in Nat, NEW i \in 1 .. Len(d), NEW j \in 1 .. Len(d)
  PROVE  j \in Within(d, i) <=> j = i \/ i \in Above(d, j)
  BY DEF Within, Above

LEMMA EmbedsWithin ==
  ASSUME NEW f, NEW p, NEW d, Embeds(f, p, d), NEW k \in DOMAIN p, NEW l \in DOMAIN p
  PROVE  l \in Within(p, k) <=> f[l] \in Within(d, f[k])
<1>1. /\ Len(p) \in Nat /\ DOMAIN p = 1 .. Len(p)
      /\ f[k] \in DOMAIN d /\ f[l] \in DOMAIN d
      /\ l = k <=> f[l] = f[k]
      /\ k \in Above(p, l) <=> f[k] \in Above(d, f[l])
  <2>1. DOMAIN d = 1 .. Len(d) /\ Len(d) \in Nat
    BY DocumentShape DEF Embeds
  <2>2. f[k] \in 1 .. Len(d) /\ f[l] \in 1 .. Len(d)
    BY <2>1 DEF Embeds
  <2>3. k \in Nat /\ l \in Nat
    BY DEF Embeds
  <2>4. l = k <=> f[l] = f[k]
    BY <2>1, <2>2, <2>3 DEF Embeds
  <2>5. QED
    BY <2>4 DEF Embeds
<1>2. DOMAIN d = 1 .. Len(d) /\ Len(d) \in Nat
  BY DocumentShape DEF Embeds
<1>3. l \in Within(p, k) <=> l = k \/ k \in Above(p, l)
  BY <1>1, WithinAbove
<1>4. f[l] \in Within(d, f[k]) <=> f[l] = f[k] \/ f[k] \in Above(d, f[l])
  BY <1>1, <1>2, WithinAbove
<1>5. QED
  BY <1>1, <1>3, <1>4

(* Some of the nodes that are left say what they said before. *)
LEMMA EmbedsOrder ==
  ASSUME NEW f, NEW p, NEW d, Embeds(f, p, d), NEW B \in SUBSET DOMAIN p
  PROVE  /\ B \in SUBSET Nat /\ IsFiniteSet(B)
         /\ Image(f, B) \in SUBSET Nat /\ IsFiniteSet(Image(f, B))
         /\ InOrder(f, B, Image(f, B))
         /\ Cardinality(Image(f, B)) = Cardinality(B)
         /\ \A k \in 1 .. Cardinality(B) :
              Ordered(B)[k] \in B /\ Ordered(Image(f, B))[k] = f[Ordered(B)[k]]
<1>1. Len(p) \in Nat /\ B \in SUBSET (1 .. Len(p))
  BY DEF Embeds
<1>2. IsFiniteSet(B)
  <2>1. IsFiniteSet(1 .. Len(p))
    BY <1>1, FS_Interval
  <2>2. QED
    BY <1>1, <2>1, FS_Subset
<1>3. B \in SUBSET Nat
  BY <1>1
<1>4. Image(f, B) \in SUBSET Nat
  <2>1. DOMAIN d = 1 .. Len(d) /\ Len(d) \in Nat
    BY DocumentShape DEF Embeds
  <2>2. \A k \in B : f[k] \in 1 .. Len(d)
    BY <2>1 DEF Embeds
  <2>3. QED
    BY <2>1, <2>2 DEF Image
<1>5. InOrder(f, B, Image(f, B))
  BY DEF Embeds, InOrder, Image
<1>6. QED
  BY <1>2, <1>3, <1>4, <1>5, OrderMoves

LEMMA EmbedsText ==
  ASSUME NEW f, NEW p, NEW d, Embeds(f, p, d), NEW B \in SUBSET DOMAIN p
  PROVE  TextOfAll(p, B) = TextOfAll(d, Image(f, B))
<1> DEFINE A == Image(f, B)
<1>1. /\ Cardinality(A) = Cardinality(B)
      /\ \A k \in 1 .. Cardinality(B) : Ordered(B)[k] \in B /\ Ordered(A)[k] = f[Ordered(B)[k]]
  BY EmbedsOrder
<1> HIDE DEF A
<1>2. \A k \in 1 .. Cardinality(B) : p[Ordered(B)[k]].text = d[Ordered(A)[k]].text
  BY <1>1 DEF Embeds
<1>3. [k \in 1 .. Cardinality(B) |-> p[Ordered(B)[k]].text]
      = [k \in 1 .. Cardinality(A) |-> d[Ordered(A)[k]].text]
  BY <1>1, <1>2
<1>4. QED
  BY <1>3 DEF TextOfAll, Gather, A

(* What is left when everything cluttered is gone is not cluttered. *)
Cleared(f, p, d) ==
  /\ Embeds(f, p, d)
  /\ Live(d) = Image(f, DOMAIN p)
  /\ Live(p) = DOMAIN p
  /\ 1 \in DOMAIN p
  /\ f[1] = 1

LEMMA LiveIsUpwardClosed ==
  ASSUME NEW d, IsDocument(d)
  PROVE  UpwardClosed(d, Live(d))
<1>1. DOMAIN d = 1 .. Len(d) /\ Len(d) \in Nat
  BY DocumentShape
<1>2. ASSUME NEW i \in Live(d), NEW j \in Above(d, i) PROVE j \in Live(d)
  <2>1. i \in 1 .. Len(d) /\ \A k \in {i} \cup Above(d, i) : ~Clutter(d, k)
    BY <1>1 DEF Live
  <2>2. j \in 1 .. i - 1
    BY DEF Above
  <2>3. j \in DOMAIN d
    BY <1>1, <2>1, <2>2
  <2>4. \A k \in Above(d, j) : k \in Above(d, i)
    BY <1>1, <2>1, AboveIsTransitive
  <2>5. QED
    BY <2>1, <2>3, <2>4 DEF Live
<1>3. Live(d) \in SUBSET DOMAIN d
  BY DEF Live
<1>4. QED
  BY <1>2, <1>3 DEF UpwardClosed

LEMMA NothingCluttered ==
  ASSUME NEW f, NEW p, NEW d, Embeds(f, p, d), Live(d) = Image(f, DOMAIN p),
         \A i \in DOMAIN d : Landmark(d, i) => i \in Live(d)
  PROVE  Live(p) = DOMAIN p
<1>1. DOMAIN d = 1 .. Len(d) /\ Len(d) \in Nat /\ DOMAIN p = 1 .. Len(p) /\ Len(p) \in Nat
  BY DocumentShape DEF Embeds
<1>2. \A k \in DOMAIN p : Landmark(p, k) <=> Landmark(d, f[k])
  BY DEF Embeds, Landmark, Role, Has
<1>3. ASSUME NEW k \in DOMAIN p PROVE ~Clutter(p, k)
  <2>1. f[k] \in DOMAIN d /\ f[k] \in Live(d) /\ ~Clutter(d, f[k])
    BY DEF Embeds, Image, Live
  <2>2. p[k].tag = d[f[k]].tag /\ Role(p, k) = Role(d, f[k])
        /\ (Has(p, k, "hidden") <=> Has(d, f[k], "hidden"))
    BY DEF Embeds, Role, Has
  <2>3. ASSUME NEW j \in Within(d, f[k]), Landmark(d, j)
        PROVE  \E l \in Within(p, k) : Landmark(p, l)
    <3>1. j \in DOMAIN d
      BY <1>1, <2>1 DEF Within
    <3>2. PICK l \in DOMAIN p : j = f[l]
      BY <2>3, <3>1 DEF Image
    <3>3. QED
      BY <1>2, <2>3, <3>2, EmbedsWithin
  <2>4. ASSUME NEW j \in Above(d, f[k]), Landmark(d, j)
        PROVE  \E l \in Above(p, k) : Landmark(p, l)
    <3>1. j \in DOMAIN d
      BY <1>1, <2>1 DEF Above
    <3>2. PICK l \in DOMAIN p : j = f[l]
      BY <2>4, <3>1 DEF Image
    <3>3. QED
      BY <1>2, <2>4, <3>2 DEF Embeds
  <2>5. QED
    BY <2>1, <2>2, <2>3, <2>4 DEF Clutter
<1>4. \A k \in DOMAIN p : Above(p, k) \subseteq DOMAIN p
  BY <1>1 DEF Above
<1>5. QED
  BY <1>3, <1>4 DEF Live

LEMMA PrunedIsCleared ==
  ASSUME NEW d, IsDocument(d), 1 \in Live(d),
         \A i \in DOMAIN d : Landmark(d, i) => i \in Live(d)
  PROVE  Cleared(Ordered(Live(d)), Pruned(d, Live(d)), d)
<1> DEFINE N == Live(d)
           f == Ordered(N)
           p == Pruned(d, N)
<1>1. UpwardClosed(d, N)
  BY LiveIsUpwardClosed
<1> HIDE DEF N
<1>2. Embeds(f, p, d)
  BY <1>1, PrunedEmbeds
<1>3. N = Image(f, DOMAIN p)
  BY <1>1, PrunedShape
<1> HIDE DEF f, p
<1>4. Live(p) = DOMAIN p
  BY <1>2, <1>3, NothingCluttered DEF N
<1>5. PICK k \in DOMAIN p : f[k] = 1
  BY <1>3 DEF Image, N
<1>6. k \in 1 .. Len(p) /\ Len(p) \in Nat /\ DOMAIN p = 1 .. Len(p)
  BY <1>2 DEF Embeds
<1>7. 1 \in DOMAIN p
  BY <1>6
<1>8. f[1] \in 1 .. Len(d) /\ Len(d) \in Nat
  BY <1>2, <1>7, DocumentShape DEF Embeds
<1>9. 1 < k => f[1] < f[k]
  BY <1>2, <1>7 DEF Embeds
<1>10. f[1] = 1
  BY <1>5, <1>6, <1>8, <1>9
<1>11. QED
  BY <1>2, <1>3, <1>4, <1>7, <1>10 DEF Cleared, f, p, N

(* The nodes that are left, as those of the page. *)
LEMMA ClearedNodes ==
  ASSUME NEW f, NEW p, NEW d, Cleared(f, p, d)
  PROVE  /\ Len(p) \in Nat /\ DOMAIN p = 1 .. Len(p)
         /\ \A k \in DOMAIN p : f[k] \in DOMAIN d /\ f[k] \in Nat /\ f[k] \in Live(d)
         /\ \A k, l \in DOMAIN p : f[k] = f[l] => k = l
         /\ \A k, l \in DOMAIN p : f[k] <= f[l] <=> k <= l
         /\ \A i \in Live(d) : \E k \in DOMAIN p : i = f[k]
<1>1. Len(p) \in Nat /\ DOMAIN p = 1 .. Len(p)
  BY DEF Cleared, Embeds
<1>2. \A i \in Live(d) : \E k \in DOMAIN p : i = f[k]
  BY DEF Cleared, Image
<1>3. ASSUME NEW k \in DOMAIN p PROVE f[k] \in DOMAIN d /\ f[k] \in Nat /\ f[k] \in Live(d)
  <2>1. f[k] \in DOMAIN d
    BY DEF Cleared, Embeds
  <2>2. DOMAIN d = 1 .. Len(d) /\ Len(d) \in Nat
    BY DocumentShape DEF Cleared, Embeds
  <2>3. f[k] \in Nat
    BY <2>1, <2>2
  <2>4. f[k] \in Live(d)
    BY DEF Cleared, Image
  <2>5. QED
    BY <2>1, <2>3, <2>4
<1>4. \A k, l \in DOMAIN p : k \in Nat /\ l \in Nat /\ (k < l => f[k] < f[l])
  BY <1>1 DEF Cleared, Embeds
<1>5. \A k, l \in DOMAIN p : f[k] <= f[l] <=> k <= l
  BY <1>3, <1>4
<1>6. \A k, l \in DOMAIN p : f[k] = f[l] => k = l
  BY <1>3, <1>4
<1>7. QED
  BY <1>1, <1>2, <1>3, <1>5, <1>6

LEMMA ClearedAbove ==
  ASSUME NEW f, NEW p, NEW d, Cleared(f, p, d), NEW k \in DOMAIN p, NEW i \in Above(d, f[k])
  PROVE  \E l \in DOMAIN p : i = f[l]
<1>1. f[k] \in Live(d) /\ IsDocument(d)
  BY ClearedNodes DEF Cleared, Embeds
<1>2. i \in Live(d)
  BY <1>1, LiveIsUpwardClosed DEF UpwardClosed
<1>3. QED
  BY <1>2, ClearedNodes

LEMMA ClearedText ==
  ASSUME NEW f, NEW p, NEW d, Cleared(f, p, d), NEW A, NEW B \in SUBSET DOMAIN p,
         \A k \in DOMAIN p : f[k] \in A <=> k \in B
  PROVE  LiveText(d, A) = LiveText(p, B)
<1>1. A \cap Live(d) = Image(f, B)
  <2>1. ASSUME NEW i \in A \cap Live(d) PROVE i \in Image(f, B)
    BY ClearedNodes DEF Image
  <2>2. ASSUME NEW i \in Image(f, B) PROVE i \in A \cap Live(d)
    BY ClearedNodes DEF Image
  <2>3. QED
    BY <2>1, <2>2
<1>2. B \cap Live(p) = B
  BY DEF Cleared
<1>3. TextOfAll(p, B) = TextOfAll(d, Image(f, B))
  BY EmbedsText DEF Cleared
<1>4. QED
  BY <1>1, <1>2, <1>3 DEF LiveText

LEMMA ClearedWithin ==
  ASSUME NEW f, NEW p, NEW d, Cleared(f, p, d), NEW k \in DOMAIN p
  PROVE  /\ Within(p, k) \in SUBSET DOMAIN p
         /\ \A l \in DOMAIN p : f[l] \in Within(d, f[k]) <=> l \in Within(p, k)
         /\ LiveText(d, Within(d, f[k])) = LiveText(p, Within(p, k))
<1>1. Within(p, k) \in SUBSET DOMAIN p
  BY ClearedNodes DEF Within
<1>2. \A l \in DOMAIN p : f[l] \in Within(d, f[k]) <=> l \in Within(p, k)
  BY EmbedsWithin DEF Cleared
<1>3. QED
  BY <1>1, <1>2, ClearedText

LEMMA ClearedScore ==
  ASSUME NEW f, NEW p, NEW d, Cleared(f, p, d), NEW k \in DOMAIN p
  PROVE  Score(d, f[k]) = Score(p, k)
<1> DEFINE i == f[k]
           L == {a \in Within(d, i) \ {i} : d[a].tag = "a"}
           M == {a \in Within(p, k) \ {k} : p[a].tag = "a"}
           A == {j \in Within(d, i) : L \cap ({j} \cup Above(d, j)) = {}}
           B == {j \in Within(p, k) : M \cap ({j} \cup Above(p, j)) = {}}
<1>1. Within(p, k) \in SUBSET DOMAIN p
      /\ \A l \in DOMAIN p : f[l] \in Within(d, f[k]) <=> l \in Within(p, k)
  BY ClearedWithin
<1>2. \A l \in DOMAIN p : f[l] \in L <=> l \in M
  BY <1>1, ClearedNodes DEF Cleared, Embeds
<1>3. ASSUME NEW l \in DOMAIN p
      PROVE  L \cap ({f[l]} \cup Above(d, f[l])) = {} <=> M \cap ({l} \cup Above(p, l)) = {}
  <2> HIDE DEF L, M
  <2>1. ASSUME NEW j \in L \cap ({f[l]} \cup Above(d, f[l]))
        PROVE  M \cap ({l} \cup Above(p, l)) # {}
    <3>1. PICK m \in DOMAIN p : j = f[m]
      <4>1. CASE j = f[l]
        BY <4>1
      <4>2. CASE j \in Above(d, f[l])
        BY <4>2, ClearedAbove
      <4>3. QED
        BY <2>1, <4>1, <4>2
    <3>2. m \in M
      BY <1>2, <2>1, <3>1
    <3>3. m = l \/ m \in Above(p, l)
      <4>1. f[m] = f[l] \/ f[m] \in Above(d, f[l])
        BY <2>1, <3>1
      <4>2. f[m] = f[l] => m = l
        BY <3>1, ClearedNodes
      <4>3. f[m] \in Above(d, f[l]) => m \in Above(p, l)
        BY <3>1 DEF Cleared, Embeds
      <4>4. QED
        BY <4>1, <4>2, <4>3
    <3>4. QED
      BY <3>2, <3>3
  <2>2. ASSUME NEW m \in M \cap ({l} \cup Above(p, l))
        PROVE  L \cap ({f[l]} \cup Above(d, f[l])) # {}
    <3>1. m \in DOMAIN p
      BY <1>1 DEF M
    <3>2. f[m] \in L
      BY <1>2, <2>2, <3>1
    <3>3. f[m] = f[l] \/ f[m] \in Above(d, f[l])
      BY <2>2, <3>1 DEF Cleared, Embeds
    <3>4. QED
      BY <3>2, <3>3
  <2>3. QED
    BY <2>1, <2>2
<1>4. B \in SUBSET DOMAIN p
  BY <1>1
<1>5. \A l \in DOMAIN p : f[l] \in A <=> l \in B
  <2> HIDE DEF L, M
  <2> QED
    BY <1>1, <1>3
<1> HIDE DEF A, B
<1>6. LiveText(d, A) = LiveText(p, B)
  BY <1>4, <1>5, ClearedText
<1>7. QED
  BY <1>6 DEF Score, A, B

LEMMA ClearedCandidates ==
  ASSUME NEW f, NEW p, NEW d, Cleared(f, p, d), NEW source
  PROVE  /\ Candidates(p, source) \in SUBSET DOMAIN p
         /\ \A k \in DOMAIN p : f[k] \in Candidates(d, source) <=> k \in Candidates(p, source)
<1>1. ASSUME NEW k \in DOMAIN p
      PROVE  Cardinality({q \in Within(d, f[k]) \cap Live(d) : d[q].tag = "p"})
             = Cardinality({q \in Within(p, k) \cap Live(p) : p[q].tag = "p"})
  <2> DEFINE A == {q \in Within(d, f[k]) \cap Live(d) : d[q].tag = "p"}
             B == {q \in Within(p, k) \cap Live(p) : p[q].tag = "p"}
  <2>1. B \in SUBSET DOMAIN p
    BY DEF Cleared
  <2>2. \A l \in DOMAIN p : f[l] \in A <=> l \in B
    BY ClearedWithin, ClearedNodes DEF Cleared, Embeds
  <2>3. \A i \in A : \E l \in DOMAIN p : i = f[l]
    BY ClearedNodes
  <2> HIDE DEF A, B
  <2>4. A = Image(f, B)
    <3>1. ASSUME NEW i \in A PROVE i \in Image(f, B)
      BY <2>2, <2>3 DEF Image
    <3>2. ASSUME NEW i \in Image(f, B) PROVE i \in A
      BY <2>1, <2>2 DEF Image
    <3>3. QED
      BY <3>1, <3>2
  <2>5. Cardinality(Image(f, B)) = Cardinality(B)
    BY <2>1, EmbedsOrder DEF Cleared
  <2>6. QED
    BY <2>4, <2>5 DEF A, B
<1>2. ASSUME NEW k \in DOMAIN p
      PROVE  /\ f[k] \in Live(d) \ {1} <=> k \in Live(p) \ {1}
             /\ Offered(d, f[k], source) <=> Offered(p, k, source)
             /\ LiveText(d, Within(d, f[k])) = LiveText(p, Within(p, k))
             /\ Score(d, f[k]) = Score(p, k)
  <2>1. f[k] \in Live(d) /\ k \in Live(p) /\ (f[k] = 1 <=> k = 1)
    BY ClearedNodes DEF Cleared
  <2>2. Offered(d, f[k], source) <=> Offered(p, k, source)
    BY DEF Cleared, Embeds, Offered, Role, Has
  <2>3. QED
    BY <2>1, <2>2, ClearedWithin, ClearedScore
<1>3. Candidates(p, source) \in SUBSET DOMAIN p
  BY DEF Candidates, Cleared
<1>4. QED
  BY <1>1, <1>2, <1>3 DEF Candidates

LEMMA ClearedEligible ==
  ASSUME NEW f, NEW p, NEW d, Cleared(f, p, d), NEW source
  PROVE  /\ Eligible(p, source) \in SUBSET DOMAIN p
         /\ Eligible(d, source) = Image(f, Eligible(p, source))
<1> DEFINE C == Candidates(p, source)
           D == Candidates(d, source)
<1>1. C \in SUBSET DOMAIN p /\ \A k \in DOMAIN p : f[k] \in D <=> k \in C
  BY ClearedCandidates
<1>2. \A i \in D : \E k \in DOMAIN p : i = f[k]
  BY ClearedNodes DEF Candidates
<1> HIDE DEF C, D
<1>3. D = Image(f, C)
  <2>1. ASSUME NEW i \in D PROVE i \in Image(f, C)
    BY <1>1, <1>2 DEF Image
  <2>2. ASSUME NEW i \in Image(f, C) PROVE i \in D
    BY <1>1 DEF Image
  <2>3. QED
    BY <2>1, <2>2
<1>4. ASSUME NEW k \in C
      PROVE  (\A j \in D : f[k] \notin Above(d, j)) <=> (\A l \in C : k \notin Above(p, l))
  <2>1. \A l \in C : k \in Above(p, l) <=> f[k] \in Above(d, f[l])
    BY <1>1 DEF Cleared, Embeds
  <2>2. QED
    BY <1>3, <2>1 DEF Image
<1>5. CASE source = "prose"
  <2>1. Eligible(p, source) = {k \in C : \A l \in C : k \notin Above(p, l)}
    BY <1>5 DEF Eligible, C
  <2>2. Eligible(d, source) = {i \in D : \A j \in D : i \notin Above(d, j)}
    BY <1>5 DEF Eligible, D
  <2>3. ASSUME NEW i \in Eligible(d, source) PROVE i \in Image(f, Eligible(p, source))
    BY <1>3, <1>4, <2>1, <2>2 DEF Image
  <2>4. ASSUME NEW i \in Image(f, Eligible(p, source)) PROVE i \in Eligible(d, source)
    BY <1>3, <1>4, <2>1, <2>2 DEF Image
  <2>5. QED
    BY <1>1, <2>1, <2>3, <2>4
<1>6. CASE source # "prose"
  BY <1>1, <1>3, <1>6 DEF Eligible, C, D
<1>7. QED
  BY <1>5, <1>6

(* Texts have lengths. *)
LEMMA TextIsSequence ==
  ASSUME NEW d, IsDocument(d), NEW B \in SUBSET DOMAIN d
  PROVE  Len(TextOfAll(d, B)) \in Nat
<1> DEFINE S == UNION {Range(d[i].text) : i \in DOMAIN d}
           n == Cardinality(B)
           s == [k \in 1 .. n |-> d[Ordered(B)[k]].text]
<1>1. DOMAIN d = 1 .. Len(d) /\ Len(d) \in Nat
  BY DocumentShape
<1>2. B \in SUBSET Nat /\ IsFiniteSet(B)
  <2>1. IsFiniteSet(1 .. Len(d))
    BY <1>1, FS_Interval
  <2>2. IsFiniteSet(B)
    BY <1>1, <2>1, FS_Subset
  <2>3. 1 .. Len(d) \in SUBSET Nat
    BY <1>1
  <2>4. QED
    BY <1>1, <2>2, <2>3
<1>3. n \in Nat /\ \A k \in 1 .. n : Ordered(B)[k] \in DOMAIN d
  BY <1>2, OrderedCounts
<1>4. ASSUME NEW i \in DOMAIN d PROVE d[i].text \in Seq(S)
  <2>1. d[i].text \in Seq(Range(d[i].text))
    BY DEF IsDocument
  <2>2. Range(d[i].text) \subseteq S
    OBVIOUS
  <2> HIDE DEF S
  <2>3. QED
    BY <2>1, <2>2
<1> HIDE DEF S
<1>5. s \in Seq(Seq(S))
  <2> HIDE DEF n
  <2>1. QED
    BY <1>3, <1>4
<1> HIDE DEF s
<1>6. Len(s) \in Nat
  BY <1>5
<1>7. FlattenSeq(s) \in Seq(S)
  <2>1. PICK u \in [0 .. Len(s) -> Seq(S)] : FlattenSeq(s) = u[Len(s)]
    BY <1>5, FlattenSteps
  <2>2. QED
    BY <1>6, <2>1
<1>8. TextOfAll(d, B) = FlattenSeq(s)
  BY DEF TextOfAll, Gather, s, n
<1>9. QED
  BY <1>7, <1>8

LEMMA TextWeighs ==
  ASSUME NEW f, NEW p, NEW d, Cleared(f, p, d), NEW k \in DOMAIN p
  PROVE  Score(p, k) \in Nat
<1> DEFINE links == {a \in Within(d, f[k]) \ {f[k]} : d[a].tag = "a"}
           A == {j \in Within(d, f[k]) : links \cap ({j} \cup Above(d, j)) = {}}
<1>1. A \cap Live(d) \in SUBSET DOMAIN d
  BY DEF Live
<1>2. Score(d, f[k]) = Len(TextOfAll(d, A \cap Live(d))) * WordLength
  BY DEF Score, LiveText
<1>3. Len(TextOfAll(d, A \cap Live(d))) \in Nat
  <2> HIDE DEF A
  <2> QED
    BY <1>1, TextIsSequence DEF Cleared, Embeds
<1> HIDE DEF A
<1>4. Score(d, f[k]) \in Nat
  BY <1>2, <1>3, ContentAssumption
<1>5. QED
  BY <1>4, ClearedScore

LEMMA ClearedBest ==
  ASSUME NEW f, NEW p, NEW d, Cleared(f, p, d), NEW source, Eligible(p, source) # {}
  PROVE  /\ Best(p, source) \in DOMAIN p
         /\ Best(d, source) = f[Best(p, source)]
<1> DEFINE E == Eligible(p, source)
           F == Eligible(d, source)
           best == {k \in E : \A l \in E : Score(p, l) <= Score(p, k)}
           most == {i \in F : \A j \in F : Score(d, j) <= Score(d, i)}
           g == [k \in DOMAIN p |-> Score(p, k)]
<1>1. E \in SUBSET DOMAIN p /\ E # {} /\ F = Image(f, E)
  BY ClearedEligible
<1> HIDE DEF E, F
<1>2. /\ Len(p) \in Nat /\ DOMAIN p = 1 .. Len(p)
      /\ \A k, l \in DOMAIN p : f[k] <= f[l] <=> k <= l
      /\ \A k, l \in DOMAIN p : f[k] = f[l] => k = l
      /\ \A k \in DOMAIN p : f[k] \in Nat
  BY ClearedNodes
<1>3. \A k \in DOMAIN p : g[k] = Score(p, k) /\ g[k] \in Nat /\ Score(d, f[k]) = g[k]
  BY TextWeighs, ClearedScore
<1> HIDE DEF g
<1>4. PICK k \in E : \A l \in E : g[l] <= g[k]
  <2>1. E \in SUBSET (1 .. Len(p)) /\ \A i \in E : g[i] \in Nat
    BY <1>1, <1>2, <1>3
  <2>2. Len(p) \in Nat /\ E # {}
    BY <1>1, <1>2
  <2>3. QED
    BY <2>1, <2>2, Heaviest
<1>5. best \in SUBSET DOMAIN p /\ k \in best
  BY <1>1, <1>3, <1>4
<1>6. most = Image(f, best)
  <2>1. ASSUME NEW l \in E
        PROVE  (\A j \in F : Score(d, j) <= Score(d, f[l]))
               <=> (\A m \in E : Score(p, m) <= Score(p, l))
    <3>1. \A m \in E : Score(d, f[m]) = Score(p, m)
      BY <1>1, <1>3
    <3>2. QED
      BY <1>1, <3>1 DEF Image
  <2>2. ASSUME NEW i \in most PROVE i \in Image(f, best)
    BY <1>1, <2>1 DEF Image
  <2>3. ASSUME NEW i \in Image(f, best) PROVE i \in most
    BY <1>1, <2>1 DEF Image
  <2>4. QED
    BY <2>2, <2>3
<1>7. Best(p, source) = Min(best) /\ Best(d, source) = Min(most)
  BY DEF Best, E, F
<1> HIDE DEF best, most
<1>8. PICK b \in best : \A l \in best : b <= l
  <2>1. best \in SUBSET Nat /\ best # {}
    BY <1>2, <1>5
  <2>2. QED
    BY <2>1, LeastNumber
<1>9. \A l \in best : l \in Nat
  BY <1>2, <1>5
<1>10. Min(best) = b
  BY <1>8, <1>9 DEF Min
<1>11. f[b] \in most /\ \A i \in most : i \in Nat /\ f[b] <= i
  <2>1. f[b] \in most
    BY <1>6 DEF Image
  <2>2. ASSUME NEW i \in most PROVE i \in Nat /\ f[b] <= i
    <3>1. PICK l \in best : i = f[l]
      BY <1>6 DEF Image
    <3>2. QED
      BY <1>2, <1>5, <1>8, <3>1
  <2>3. QED
    BY <2>1, <2>2
<1>12. Min(most) = f[b]
  BY <1>11 DEF Min
<1>13. QED
  BY <1>5, <1>7, <1>10, <1>12

-----------------------------------------------------------------------------
(* What is taken of the page.                                              *)

LEMMA SameSource ==
  ASSUME NEW f, NEW p, NEW d, Cleared(f, p, d)
  PROVE  LET of == ExtractMain(d, "error")
             without == ExtractMain(p, "error")
         IN  /\ of.source = without.source
             /\ of.source # "full"
             /\ of.source # "error" => without.root \in DOMAIN p /\ of.root = f[without.root]
<1> DEFINE F == {k \in DOMAIN Sources : Eligible(d, Sources[k]) # {}}
           G == {k \in DOMAIN Sources : Eligible(p, Sources[k]) # {}}
<1>1. F = G
  BY ClearedEligible DEF Image
<1>2. 1 \in Live(d) /\ 1 \in Live(p)
  BY DEF Cleared, Image
<1>3. CASE G = {}
  BY <1>1, <1>2, <1>3 DEF ExtractMain
<1>4. CASE G # {}
  <2> DEFINE s == Sources[Min(G)]
  <2>1. G \in SUBSET (1 .. 3)
    BY DEF Sources
  <2>2. Min(G) \in G
    <3>1. G \in SUBSET Nat
      BY <2>1
    <3> HIDE DEF G
    <3>2. PICK m \in G : \A l \in G : m <= l
      BY <1>4, <3>1, LeastNumber
    <3>3. QED
      BY <3>2 DEF Min
  <2>3. Eligible(p, s) # {}
    BY <2>2
  <2>4. s \in {"main", "article", "prose"}
    <3> HIDE DEF G
    <3>1. Min(G) \in 1 .. 3
      BY <2>1, <2>2
    <3>2. QED
      BY <3>1 DEF Sources
  <2>5. /\ ExtractMain(d, "error") = [source |-> s, root |-> Best(d, s)]
        /\ ExtractMain(p, "error") = [source |-> s, root |-> Best(p, s)]
    BY <1>1, <1>2, <1>4 DEF ExtractMain
  <2> HIDE DEF s
  <2>6. Best(p, s) \in DOMAIN p /\ Best(d, s) = f[Best(p, s)]
    BY <2>3, ClearedBest
  <2>7. QED
    BY <2>4, <2>5, <2>6
<1>5. QED
  BY <1>3, <1>4

(* Taking some nodes of what is left is taking them of the page. *)
LEMMA PrunedTwice ==
  ASSUME NEW d, IsDocument(d), NEW N, UpwardClosed(d, N),
         NEW B \in SUBSET DOMAIN Pruned(d, N)
  PROVE  Pruned(Pruned(d, N), B) = Pruned(d, Image(Ordered(N), B))
<1> DEFINE f == Ordered(N)
           p == Pruned(d, N)
           A == Image(f, B)
<1>1. /\ N \in SUBSET Nat /\ IsFiniteSet(N)
      /\ Len(p) \in Nat /\ DOMAIN p = 1 .. Len(p)
      /\ \A k \in DOMAIN p :
           /\ f[k] \in N
           /\ f[k] \in DOMAIN d
           /\ d[f[k]].up \in Nat
           /\ Rank(N, f[k]) = k
           /\ p[k] = [d[f[k]] EXCEPT !.up = Rank(N, @)]
           /\ p[k].tag = d[f[k]].tag
           /\ p[k].text = d[f[k]].text
           /\ p[k].attrs = d[f[k]].attrs
           /\ p[k].up = Rank(N, d[f[k]].up)
  BY PrunedShape
<1>2. /\ B \in SUBSET Nat /\ IsFiniteSet(B)
      /\ A \in SUBSET Nat /\ IsFiniteSet(A)
      /\ InOrder(f, B, A)
      /\ Cardinality(A) = Cardinality(B)
      /\ \A k \in 1 .. Cardinality(B) : Ordered(B)[k] \in B /\ Ordered(A)[k] = f[Ordered(B)[k]]
  BY PrunedEmbeds, EmbedsOrder
<1>3. \A k \in B : k \in DOMAIN p
  OBVIOUS
<1> HIDE DEF f, p, A
<1>4. ASSUME NEW k \in B, NEW u \in Nat PROVE k <= Rank(N, u) <=> f[k] <= u
  <2>1. f[k] \in N /\ Rank(N, f[k]) = k
    BY <1>1, <1>3
  <2>2. Rank(N, f[k]) <= Rank(N, u) <=> f[k] <= u
    BY <1>1, <2>1, RankReaches
  <2>3. QED
    BY <2>1, <2>2
<1>5. ASSUME NEW u \in Nat PROVE Rank(A, u) = Rank(B, Rank(N, u))
  <2>1. OneToOne(f, B, A)
    <3>1. \A k \in B : k \in Nat /\ f[k] \in Nat
      BY <1>2 DEF InOrder
    <3>2. QED
      BY <1>2, <3>1 DEF InOrder, OneToOne
  <2>2. \A k \in B : k <= Rank(N, u) <=> f[k] <= u
    BY <1>4
  <2>3. QED
    BY <1>2, <2>1, <2>2, RankMoves
<1>6. ASSUME NEW k \in 1 .. Cardinality(B)
      PROVE  [p[Ordered(B)[k]] EXCEPT !.up = Rank(B, @)]
             = [d[Ordered(A)[k]] EXCEPT !.up = Rank(A, @)]
  <2> DEFINE b == Ordered(B)[k]
             i == f[b]
  <2>1. b \in DOMAIN p /\ Ordered(A)[k] = i
    BY <1>2, <1>3
  <2> HIDE DEF b
  <2>2. p[b] = [d[i] EXCEPT !.up = Rank(N, @)] /\ p[b].up = Rank(N, d[i].up)
        /\ i \in DOMAIN d /\ d[i].up \in Nat
    BY <1>1, <2>1
  <2> HIDE DEF i
  <2>3. d[i] = [tag |-> d[i].tag, up |-> d[i].up, text |-> d[i].text, attrs |-> d[i].attrs]
    BY <2>2 DEF IsDocument
  <2>4. Rank(A, d[i].up) = Rank(B, p[b].up)
    BY <1>5, <2>2
  <2>5. [p[b] EXCEPT !.up = Rank(B, @)] = [d[i] EXCEPT !.up = Rank(A, @)]
    BY <2>2, <2>3, <2>4
  <2>6. QED
    BY <2>1, <2>5 DEF b
<1>7. DOMAIN Ordered(A) = 1 .. Cardinality(B) /\ DOMAIN Ordered(B) = 1 .. Cardinality(B)
  BY <1>2 DEF Ordered
<1>8. Pruned(p, B) = [k \in 1 .. Cardinality(B) |-> [p[Ordered(B)[k]] EXCEPT !.up = Rank(B, @)]]
  BY <1>7 DEF Pruned
<1>9. Pruned(d, A) = [k \in 1 .. Cardinality(B) |-> [d[Ordered(A)[k]] EXCEPT !.up = Rank(A, @)]]
  BY <1>7 DEF Pruned
<1>10. Pruned(p, B) = Pruned(d, A)
  BY <1>6, <1>8, <1>9
<1>11. QED
  BY <1>10 DEF f, p, A

(* Main content is what it would be without the clutter, whatever the page. *)
LEMMA ClutterDoesNotMatter ==
  ASSUME NEW d, IsDocument(d), 1 \in Live(d),
         \A i \in DOMAIN d : Landmark(d, i) => i \in Live(d)
  PROVE  LET pruned == Pruned(d, Live(d))
             of == ExtractMain(d, "error")
             without == ExtractMain(pruned, "error")
         IN  /\ of.source = without.source
             /\ of.source # "error" => Taken(d, of) = Taken(pruned, without)
<1> DEFINE N == Live(d)
           f == Ordered(N)
           p == Pruned(d, N)
           of == ExtractMain(d, "error")
           without == ExtractMain(p, "error")
           r == without.root
           A == Within(d, of.root) \cap Live(d)
           B == Within(p, r) \cap Live(p)
<1>1. Cleared(f, p, d)
  BY PrunedIsCleared
<1>2. UpwardClosed(d, N)
  BY LiveIsUpwardClosed
<1>3. /\ of.source = without.source
      /\ of.source # "full"
      /\ of.source # "error" => r \in DOMAIN p /\ of.root = f[r]
  BY <1>1, SameSource
<1>4. ASSUME of.source # "error" PROVE Taken(d, of) = Taken(p, without)
  <2> HIDE DEF N, f, p, of, r
  <2>1. r \in DOMAIN p /\ of.root = f[r]
    BY <1>3, <1>4
  <2>2. B \in SUBSET DOMAIN p
    BY <1>1 DEF Cleared
  <2>3. ASSUME NEW i \in A PROVE i \in Image(f, B)
    <3>1. PICK l \in DOMAIN p : i = f[l]
      BY <1>1, <2>3, ClearedNodes
    <3>2. l \in Within(p, r) /\ l \in Live(p)
      BY <1>1, <2>1, <2>3, <3>1, ClearedWithin DEF Cleared
    <3>3. QED
      BY <3>1, <3>2 DEF Image
  <2>4. ASSUME NEW i \in Image(f, B) PROVE i \in A
    <3>1. PICK l \in B : i = f[l]
      BY <2>4 DEF Image
    <3>2. QED
      BY <1>1, <2>1, <2>2, <3>1, ClearedWithin, ClearedNodes
  <2>5. A = Image(f, B)
    BY <2>3, <2>4
  <2> HIDE DEF A, B
  <2>6. Pruned(p, B) = Pruned(d, A)
    BY <1>2, <2>2, <2>5, PrunedTwice DEF f, p
  <2>7. /\ Taken(d, of) = Wrapped(Pruned(d, A))
        /\ Taken(p, without) = Wrapped(Pruned(p, B))
    BY <1>3 DEF Taken, A, B, r
  <2>8. QED
    BY <2>6, <2>7
<1>5. QED
  BY <1>3, <1>4

-----------------------------------------------------------------------------
(* Lists of what is said of each of some nodes.                            *)

LEMMA FlattenSingles ==
  ASSUME NEW n \in Nat, NEW g
  PROVE  FlattenSeq([k \in 1 .. n |-> <<g[k]>>]) = [k \in 1 .. n |-> g[k]]
<1> DEFINE s == [k \in 1 .. n |-> <<g[k]>>]
           S == {g[k] : k \in 1 .. n}
<1>1. s \in Seq(Seq(S)) /\ Len(s) = n
  <2>1. \A k \in 1 .. n : g[k] \in S
    OBVIOUS
  <2> HIDE DEF S
  <2>2. \A k \in 1 .. n : <<g[k]>> \in Seq(S)
    BY <2>1
  <2>3. QED
    BY <2>2
<1>2. \A k \in 1 .. n : s[k] = <<g[k]>>
  OBVIOUS
<1> HIDE DEF s
<1>3. PICK u \in [0 .. n -> Seq(S)] :
        /\ u[0] = <<>>
        /\ \A k \in 1 .. n : u[k] = u[k - 1] \o s[k]
        /\ FlattenSeq(s) = u[n]
  BY <1>1, FlattenSteps
<1> HIDE DEF S
<1>4. \A k \in 1 .. n : u[k] = u[k - 1] \o <<g[k]>>
  BY <1>2, <1>3
<1> DEFINE Bad == {m \in 0 .. n : u[m] # [k \in 1 .. m |-> g[k]]}
<1>5. Bad = {}
  <2> SUFFICES ASSUME Bad # {} PROVE FALSE
    OBVIOUS
  <2>1. PICK m \in Bad : \A l \in Bad : m <= l
    <3>1. Bad \in SUBSET Nat
      OBVIOUS
    <3> HIDE DEF Bad
    <3>2. QED
      BY <3>1, LeastNumber
  <2>2. m \in 0 .. n /\ u[m] # [k \in 1 .. m |-> g[k]]
    OBVIOUS
  <2>3. m # 0
    BY <1>3, <2>2
  <2>4. m - 1 \in 0 .. n /\ m \in 1 .. n /\ ~(m <= m - 1)
    BY <2>2, <2>3
  <2>5. u[m - 1] = [k \in 1 .. m - 1 |-> g[k]]
    BY <2>1, <2>4
  <2>6. u[m] = [k \in 1 .. m - 1 |-> g[k]] \o <<g[m]>>
    BY <1>4, <2>4, <2>5
  <2>7. [k \in 1 .. m - 1 |-> g[k]] \o <<g[m]>> = [k \in 1 .. m |-> g[k]]
    BY <2>4
  <2>8. QED
    BY <2>2, <2>6, <2>7
<1>6. n \in 0 .. n
  OBVIOUS
<1>7. FlattenSeq(s) = [k \in 1 .. n |-> g[k]]
  BY <1>3, <1>5, <1>6
<1>8. QED
  BY <1>7 DEF s

-----------------------------------------------------------------------------
(* Names are read back as they were.                                       *)

(* The characters that stand for c, the n-th of a name. *)
Escaped(name, n) ==
  IF name[n] \in Signs THEN <<"backslash", name[n]>>
  ELSE IF n = 1 /\ name[n] \in Figures THEN <<"backslash", "3", name[n], "blank">>
  ELSE <<name[n]>>

Ends(s, from, k) ==
  IF k > Len(s) THEN <<>>
  ELSE IF s[k] # "backslash" THEN <<s[k]>> \o from[k + 1]
  ELSE IF s[k + 1] = "3" THEN <<s[k + 2]>> \o from[k + 4]
  ELSE <<s[k + 1]>> \o from[k + 2]

LEMMA ReadSteps ==
  ASSUME NEW s, Len(s) \in Nat
  PROVE  \E from : /\ \A k \in Nat : from[k] = Ends(s, from, k)
                   /\ ReadEscapes(s) = from[1]
<1> DEFINE L == Len(s)
           Reads(v, M) == \A k \in Nat : k + M > L => v[k] = Ends(s, v, k)
           Bad == {M \in Nat : ~ \E v : v = [k \in Nat |-> v[k]] /\ Reads(v, M)}
<1>1. Bad = {}
  <2> SUFFICES ASSUME Bad # {} PROVE FALSE
    OBVIOUS
  <2>1. PICK M \in Bad : \A K \in Bad : M <= K
    <3>1. Bad \in SUBSET Nat
      OBVIOUS
    <3> HIDE DEF Bad
    <3>2. QED
      BY <3>1, LeastNumber
  <2>2. M \in Nat /\ ~ \E v : v = [k \in Nat |-> v[k]] /\ Reads(v, M)
    OBVIOUS
  <2>3. CASE M = 0
    <3> DEFINE v == [k \in Nat |-> <<>>]
    <3>1. v = [k \in Nat |-> v[k]] /\ \A k \in Nat : v[k] = <<>>
      OBVIOUS
    <3> HIDE DEF v
    <3>2. \A k \in Nat : k + 0 > L => v[k] = Ends(s, v, k)
      BY <3>1 DEF Ends
    <3>3. QED
      BY <2>2, <2>3, <3>1, <3>2
  <2>4. CASE M # 0
    <3>1. M - 1 \in Nat /\ ~(M <= M - 1)
      BY <2>2, <2>4
    <3>2. PICK v : v = [k \in Nat |-> v[k]] /\ Reads(v, M - 1)
      BY <2>1, <3>1
    <3> DEFINE w == [k \in Nat |-> IF k + M = L + 1 THEN Ends(s, v, k) ELSE v[k]]
    <3>3. \A k \in Nat : w[k] = IF k + M = L + 1 THEN Ends(s, v, k) ELSE v[k]
      OBVIOUS
    <3>4. w = [k \in Nat |-> w[k]]
      OBVIOUS
    <3> HIDE DEF w
    <3>5. ASSUME NEW k \in Nat, k + M > L PROVE w[k] = Ends(s, w, k)
      <4>1. w[k + 1] = v[k + 1] /\ w[k + 2] = v[k + 2] /\ w[k + 4] = v[k + 4]
        <5>1. k + 1 \in Nat /\ k + 2 \in Nat /\ k + 4 \in Nat
          OBVIOUS
        <5>2. (k + 1) + M # L + 1 /\ (k + 2) + M # L + 1 /\ (k + 4) + M # L + 1
          BY <2>2, <3>5
        <5>3. QED
          BY <3>3, <5>1, <5>2
      <4>2. Ends(s, w, k) = Ends(s, v, k)
        BY <4>1 DEF Ends
      <4>3. CASE k + M = L + 1
        BY <3>3, <4>2, <4>3
      <4>4. CASE k + M # L + 1
        <5>1. k + (M - 1) > L
          BY <2>2, <3>5, <4>4
        <5>2. v[k] = Ends(s, v, k)
          BY <3>2, <5>1
        <5>3. QED
          BY <3>3, <4>2, <4>4, <5>2
      <4>5. QED
        BY <4>3, <4>4
    <3>6. QED
      BY <2>2, <3>4, <3>5
  <2>5. QED
    BY <2>3, <2>4
<1> DEFINE Body(v) == [k \in Nat |->
             IF k > Len(s) THEN <<>>
             ELSE IF s[k] # "backslash" THEN <<s[k]>> \o v[k + 1]
             ELSE IF s[k + 1] = "3" THEN <<s[k + 2]>> \o v[k + 4]
             ELSE <<s[k + 1]>> \o v[k + 2]]
           from == CHOOSE v : v = Body(v)
<1>2. \E v : v = Body(v)
  <2>1. L + 1 \in Nat
    OBVIOUS
  <2>2. PICK v : v = [k \in Nat |-> v[k]] /\ Reads(v, L + 1)
    BY <1>1, <2>1
  <2>3. \A k \in Nat : k + (L + 1) > L
    OBVIOUS
  <2>4. \A k \in Nat : v[k] = Ends(s, v, k)
    BY <2>2, <2>3
  <2>5. v = Body(v)
    BY <2>2, <2>4 DEF Ends
  <2>6. QED
    BY <2>5
<1>3. from = Body(from)
  BY <1>2
<1>4. ReadEscapes(s) = from[1]
  BY DEF ReadEscapes
<1> HIDE DEF from
<1>5. ASSUME NEW k \in Nat PROVE from[k] = Ends(s, from, k)
  <2>1. Body(from)[k] = Ends(s, from, k)
    BY DEF Ends
  <2> HIDE DEF Body
  <2>2. QED
    BY <1>3, <2>1
<1>6. QED
  BY <1>4, <1>5

LEMMA Concatenation ==
  ASSUME NEW S, NEW a \in Seq(S), NEW b \in Seq(S)
  PROVE  /\ a \o b \in Seq(S)
         /\ Len(a) \in Nat /\ Len(b) \in Nat
         /\ Len(a \o b) = Len(a) + Len(b)
         /\ \A k \in 1 .. Len(a) : (a \o b)[k] = a[k]
         /\ \A k \in 1 .. Len(b) : (a \o b)[Len(a) + k] = b[k]
  OBVIOUS

LEMMA FirstAndRest ==
  ASSUME NEW S, NEW s \in Seq(S), NEW n \in 1 .. Len(s)
  PROVE  <<s[n]>> \o SubSeq(s, n + 1, Len(s)) = SubSeq(s, n, Len(s))
  OBVIOUS

(* Of sequences put together the earlier ones come first. *)
Builds(u, s, N, S) ==
  /\ u \in [0 .. N -> Seq(S)]
  /\ u[0] = <<>>
  /\ \A n \in 1 .. N : s[n] \in Seq(S) /\ u[n] = u[n - 1] \o s[n]

Begins(a, b) == Len(a) <= Len(b) /\ \A k \in 1 .. Len(a) : b[k] = a[k]

LEMMA EarlierFirst ==
  ASSUME NEW S, NEW s, NEW N \in Nat, NEW u, Builds(u, s, N, S), NEW i \in 0 .. N
  PROVE  Begins(u[i], u[N])
<1> DEFINE OK(n) == Len(u[n]) <= Len(u[N]) /\ \A k \in 1 .. Len(u[n]) : u[N][k] = u[n][k]
           Bad == {m \in 0 .. N : ~OK(N - m)}
<1>1. Bad = {}
  <2> SUFFICES ASSUME Bad # {} PROVE FALSE
    OBVIOUS
  <2>1. PICK m \in Bad : \A l \in Bad : m <= l
    <3>1. Bad \in SUBSET Nat
      OBVIOUS
    <3> HIDE DEF Bad
    <3>2. QED
      BY <3>1, LeastNumber
  <2>2. m \in 0 .. N /\ ~OK(N - m)
    OBVIOUS
  <2>3. \A n \in 0 .. N : Len(u[n]) \in Nat /\ u[n] \in Seq(S)
    <3> HIDE DEF Bad, OK
    <3> SUFFICES ASSUME NEW n \in 0 .. N PROVE Len(u[n]) \in Nat /\ u[n] \in Seq(S)
      OBVIOUS
    <3>1. u[n] \in Seq(S)
      BY DEF Builds
    <3>2. QED
      BY <3>1
  <2>4. CASE m = 0
    <3>1. N - m = N
      BY <2>4
    <3>2. OK(N)
      BY <2>3
    <3>3. QED
      BY <2>2, <3>1, <3>2
  <2>5. CASE m # 0
    <3> DEFINE n == N - m
    <3>1. n \in 0 .. N /\ n + 1 \in 1 .. N /\ n + 1 \in 0 .. N
      BY <2>2, <2>5
    <3>2. m - 1 \in 0 .. N /\ ~(m <= m - 1) /\ N - (m - 1) = n + 1
      BY <2>2, <2>5
    <3> HIDE DEF n
    <3>3. OK(n + 1)
      <4>1. OK(N - (m - 1))
        BY <2>1, <3>2
      <4>2. QED
        BY <3>2, <4>1
    <3>4. u[n + 1] = u[n] \o s[n + 1] /\ s[n + 1] \in Seq(S) /\ u[n] \in Seq(S)
      <4>1. (n + 1) - 1 = n
        BY <3>1
      <4>2. QED
        BY <2>3, <3>1, <4>1 DEF Builds
    <3>5. Len(u[n]) <= Len(u[n + 1]) /\ \A k \in 1 .. Len(u[n]) : u[n + 1][k] = u[n][k]
      <4>1. PICK a \in Seq(S), b \in Seq(S) : a = u[n] /\ b = s[n + 1] /\ u[n + 1] = a \o b
        BY <3>4
      <4>2. Len(a) <= Len(a \o b) /\ \A k \in 1 .. Len(a) : (a \o b)[k] = a[k]
        BY Concatenation
      <4>3. QED
        BY <4>1, <4>2
    <3>6. \A k \in 1 .. Len(u[n]) : k \in 1 .. Len(u[n + 1])
      BY <2>3, <3>1, <3>5
    <3>7. Len(u[N]) \in Nat /\ Len(u[n]) \in Nat /\ Len(u[n + 1]) \in Nat
      BY <2>3, <3>1
    <3>8. OK(n)
      BY <3>3, <3>5, <3>6, <3>7
    <3>9. QED
      BY <2>2, <3>8 DEF n
  <2>6. QED
    BY <2>4, <2>5
<1>2. ASSUME NEW n \in 0 .. N PROVE OK(n)
  <2>1. N - n \in 0 .. N /\ N - (N - n) = n
    OBVIOUS
  <2>2. QED
    BY <1>1, <2>1
<1>3. QED
  BY <1>2 DEF Begins

(* What is escaped is read back, and begins a name if it begins a name. *)
LEMMA EscapesAreRead ==
  ASSUME NEW name \in Seq(Characters)
  PROVE  /\ ReadEscapes(EscapeCssIdent(name)) = name
         /\ \/ name = <<>> /\ EscapeCssIdent(name) = <<>>
            \/ EscapeCssIdent(name)[1] = "-"
            \/ ReadCssIdent(EscapeCssIdent(name)) # {}
<1> DEFINE N == Len(name)
           e == [n \in 1 .. N |-> Escaped(name, n)]
           S == Characters \cup {"backslash", "3", "blank"}
           s == EscapeCssIdent(name)
<1>1. N \in Nat /\ DOMAIN name = 1 .. N /\ \A n \in 1 .. N : name[n] \in Characters
  OBVIOUS
<1>2. s = FlattenSeq(e)
  BY <1>1 DEF EscapeCssIdent, Escaped
<1>3. \A n \in 1 .. N : name[n] \in S
  BY <1>1
<1>4. ASSUME NEW n \in 1 .. N PROVE e[n] = Escaped(name, n) /\ e[n] \in Seq(S)
  <2>1. e[n] = Escaped(name, n)
    OBVIOUS
  <2>2. name[n] \in S /\ "backslash" \in S /\ "3" \in S /\ "blank" \in S
    BY <1>3
  <2> HIDE DEF S, e
  <2>3. /\ <<"backslash", name[n]>> \in Seq(S)
        /\ <<"backslash", "3", name[n], "blank">> \in Seq(S)
        /\ <<name[n]>> \in Seq(S)
    BY <2>2
  <2>4. Escaped(name, n) \in Seq(S)
    BY <2>3 DEF Escaped
  <2>5. QED
    BY <2>1, <2>4
<1>5. e \in Seq(Seq(S)) /\ Len(e) = N
  <2> HIDE DEF N, S
  <2>1. \A n \in 1 .. N : Escaped(name, n) \in Seq(S)
    BY <1>4
  <2>2. QED
    BY <1>1, <2>1
<1> HIDE DEF N, e, S, s
<1>6. PICK u \in [0 .. N -> Seq(S)] :
        /\ u[0] = <<>>
        /\ \A n \in 1 .. N : u[n] = u[n - 1] \o e[n]
        /\ FlattenSeq(e) = u[N]
  BY <1>5, FlattenSteps
<1>7. s = u[N] /\ Len(s) \in Nat
  <2>1. N \in 0 .. N
    BY <1>1
  <2>2. u[N] \in Seq(S)
    BY <1>6, <2>1
  <2>3. QED
    BY <1>2, <1>6, <2>2
<1>8. \A n \in 0 .. N : Len(u[n]) <= Len(s) /\ \A k \in 1 .. Len(u[n]) : s[k] = u[n][k]
  <2>1. Builds(u, e, N, S)
    BY <1>4, <1>6 DEF Builds
  <2>2. N \in Nat
    BY <1>1
  <2>3. ASSUME NEW n \in 0 .. N
        PROVE  Begins(u[n], u[N])
    BY <2>1, <2>2, EarlierFirst
  <2>4. QED
    BY <1>7, <2>3 DEF Begins
<1> DEFINE pos(n) == Len(u[n - 1])
(* Where the n-th is, and what is there. *)
<1>9. ASSUME NEW n \in 1 .. N
      PROVE  /\ pos(n) \in Nat
             /\ Len(u[n]) = pos(n) + Len(e[n])
             /\ Len(u[n]) <= Len(s)
             /\ \A k \in 1 .. Len(e[n]) : s[pos(n) + k] = e[n][k]
  <2>1. n - 1 \in 0 .. N /\ n \in 0 .. N
    BY <1>1
  <2>2. u[n - 1] \in Seq(S) /\ e[n] \in Seq(S) /\ u[n] = u[n - 1] \o e[n]
    BY <1>4, <1>6, <2>1
  <2>3. pos(n) \in Nat /\ Len(e[n]) \in Nat /\ Len(u[n]) = pos(n) + Len(e[n])
    BY <2>2
  <2>4. \A k \in 1 .. Len(e[n]) : u[n][pos(n) + k] = e[n][k]
    <3>1. PICK a \in Seq(S), b \in Seq(S) : a = u[n - 1] /\ b = e[n] /\ u[n] = a \o b
      BY <2>2
    <3>2. \A k \in 1 .. Len(b) : (a \o b)[Len(a) + k] = b[k]
      BY Concatenation
    <3>3. QED
      BY <3>1, <3>2
  <2>5. \A k \in 1 .. Len(e[n]) : pos(n) + k \in 1 .. Len(u[n])
    <3> HIDE DEF pos
    <3>1. QED
      BY <2>3
  <2>6. QED
    BY <1>8, <2>1, <2>3, <2>4, <2>5
<1>10. PICK from : (\A k \in Nat : from[k] = Ends(s, from, k)) /\ ReadEscapes(s) = from[1]
  BY <1>7, ReadSteps
<1>11. ASSUME NEW n \in 1 .. N PROVE from[pos(n) + 1] = <<name[n]>> \o from[Len(u[n]) + 1]
  <2> DEFINE p == pos(n)
             c == name[n]
  <2>1. /\ p \in Nat /\ Len(s) \in Nat /\ Len(u[n]) = p + Len(e[n]) /\ Len(u[n]) <= Len(s)
        /\ \A k \in 1 .. Len(e[n]) : s[p + k] = e[n][k]
        /\ e[n] = Escaped(name, n)
    BY <1>4, <1>7, <1>9
  <2>2. c \in Characters
    BY <1>1
  <2>3. from[p + 1] = Ends(s, from, p + 1)
    BY <1>10, <2>1
  <2> HIDE DEF p, c
  <2>4. CASE c \in Signs
    <3>1. e[n] = <<"backslash", c>>
      BY <2>1, <2>4 DEF Escaped, c
    <3>2. s[p + 1] = "backslash" /\ s[p + 2] = c /\ Len(u[n]) = p + 2
      BY <2>1, <3>1
    <3>3. c # "3"
      BY <2>4, CharactersAssumption
    <3>4. ~(p + 1 > Len(s)) /\ (p + 1) + 1 = p + 2 /\ (p + 1) + 2 = Len(u[n]) + 1
      BY <2>1, <3>2
    <3>5. QED
      BY <2>3, <3>2, <3>3, <3>4 DEF Ends, p, c
  <2>5. CASE c \notin Signs /\ n = 1 /\ c \in Figures
    <3>1. e[n] = <<"backslash", "3", c, "blank">>
      BY <2>1, <2>5 DEF Escaped, c
    <3>2. s[p + 1] = "backslash" /\ s[p + 2] = "3" /\ s[p + 3] = c /\ Len(u[n]) = p + 4
      <4>1. Len(e[n]) = 4 /\ e[n][1] = "backslash" /\ e[n][2] = "3" /\ e[n][3] = c
        BY <3>1
      <4>2. 1 \in 1 .. 4 /\ 2 \in 1 .. 4 /\ 3 \in 1 .. 4
        OBVIOUS
      <4>3. \A k \in 1 .. 4 : s[p + k] = e[n][k]
        BY <2>1, <4>1
      <4>4. QED
        BY <2>1, <4>1, <4>2, <4>3
    <3>3. ~(p + 1 > Len(s)) /\ (p + 1) + 1 = p + 2 /\ (p + 1) + 2 = p + 3
          /\ (p + 1) + 4 = Len(u[n]) + 1
      BY <2>1, <3>2
    <3>4. QED
      BY <2>3, <3>2, <3>3 DEF Ends, p, c
  <2>6. CASE c \notin Signs /\ ~(n = 1 /\ c \in Figures)
    <3>1. e[n] = <<c>>
      BY <2>1, <2>6 DEF Escaped, c
    <3>2. s[p + 1] = c /\ Len(u[n]) = p + 1
      BY <2>1, <3>1
    <3>3. c # "backslash"
      BY <2>2, <2>6, CharactersAssumption DEF Characters
    <3>4. ~(p + 1 > Len(s)) /\ (p + 1) + 1 = Len(u[n]) + 1
      BY <2>1, <3>2
    <3>5. QED
      BY <2>3, <3>2, <3>3, <3>4 DEF Ends, p, c
  <2>7. QED
    BY <2>4, <2>5, <2>6
<1> DEFINE Bad == {m \in 0 .. N : from[Len(u[N - m]) + 1] # SubSeq(name, N - m + 1, N)}
<1>12. Bad = {}
  <2> SUFFICES ASSUME Bad # {} PROVE FALSE
    OBVIOUS
  <2>1. PICK m \in Bad : \A l \in Bad : m <= l
    <3>1. Bad \in SUBSET Nat
      BY <1>1
    <3> HIDE DEF Bad
    <3>2. QED
      BY <3>1, LeastNumber
  <2>2. m \in 0 .. N /\ from[Len(u[N - m]) + 1] # SubSeq(name, N - m + 1, N)
    OBVIOUS
  <2>3. CASE m = 0
    <3> HIDE DEF Bad
    <3>1. N - m = N
      BY <1>1, <2>3
    <3>2. Len(s) + 1 > Len(s) /\ Len(s) + 1 \in Nat
      BY <1>7
    <3>3. from[Len(s) + 1] = <<>>
      BY <1>10, <3>2 DEF Ends
    <3>4. SubSeq(name, N + 1, N) = <<>>
      BY <1>1
    <3>5. QED
      BY <1>7, <2>2, <3>1, <3>3, <3>4
  <2>4. CASE m # 0
    <3> DEFINE n == N - m + 1
    <3>1. n \in 1 .. N /\ n - 1 = N - m /\ N - (m - 1) = n /\ N - (m - 1) + 1 = n + 1
          /\ m - 1 \in 0 .. N /\ ~(m <= m - 1)
      BY <1>1, <2>2, <2>4
    <3> HIDE DEF n
    <3>2. from[Len(u[n]) + 1] = SubSeq(name, n + 1, N)
      BY <2>1, <3>1
    <3>3. from[Len(u[n - 1]) + 1] = <<name[n]>> \o SubSeq(name, n + 1, N)
      BY <1>11, <3>1, <3>2
    <3>4. <<name[n]>> \o SubSeq(name, n + 1, N) = SubSeq(name, n, N)
      BY <3>1, FirstAndRest DEF N
    <3>5. QED
      BY <2>2, <3>1, <3>3, <3>4 DEF n
  <2>5. QED
    BY <2>3, <2>4
<1>13. ReadEscapes(s) = name
  <2>1. N \in 0 .. N /\ N - N = 0 /\ N - N + 1 = 1
    BY <1>1
  <2>2. Len(u[0]) + 1 = 1
    BY <1>6
  <2>3. from[1] = SubSeq(name, 1, N)
    BY <1>12, <2>1, <2>2
  <2>4. SubSeq(name, 1, N) = name
    BY <1>1 DEF N
  <2>5. QED
    BY <1>10, <2>3, <2>4
<1>14. \/ name = <<>> /\ s = <<>>
       \/ s[1] = "-"
       \/ ReadCssIdent(s) # {}
  <2>1. CASE N = 0
    BY <1>1, <1>6, <1>7, <2>1 DEF N
  <2>2. CASE N # 0
    <3>1. 1 \in 1 .. N /\ 1 - 1 = 0 /\ Len(u[0]) = 0
      BY <1>1, <1>6, <2>2
    <3>2. e[1] = Escaped(name, 1) /\ Len(e[1]) <= Len(s)
          /\ \A k \in 1 .. Len(e[1]) : s[0 + k] = e[1][k]
      <4>1. e[1] = Escaped(name, 1) /\ e[1] \in Seq(S)
        BY <1>4, <3>1
      <4>2. pos(1) = 0
        BY <3>1
      <4>3. /\ Len(u[1]) = pos(1) + Len(e[1])
            /\ Len(u[1]) <= Len(s)
            /\ \A k \in 1 .. Len(e[1]) : s[pos(1) + k] = e[1][k]
        BY <1>9, <3>1
      <4> HIDE DEF pos
      <4>4. Len(e[1]) \in Nat
        BY <4>1
      <4>5. QED
        BY <4>1, <4>2, <4>3, <4>4
    <3>3. name[1] \in Characters
      BY <1>1, <3>1
    <3>4. Len(e[1]) \in Nat \ {0} /\ e[1][1] \in {"backslash"} \cup NameLetters \cup Foreign \cup {"-"}
      <4>1. CASE name[1] \in Signs
        <5>1. e[1] = <<"backslash", name[1]>>
          BY <3>2, <4>1 DEF Escaped
        <5>2. QED
          BY <5>1
      <4>2. CASE name[1] \notin Signs /\ name[1] \in Figures
        <5>1. e[1] = <<"backslash", "3", name[1], "blank">>
          BY <3>2, <4>2 DEF Escaped
        <5>2. QED
          BY <5>1
      <4>3. CASE name[1] \notin Signs /\ name[1] \notin Figures
        <5>1. e[1] = <<name[1]>>
          BY <3>2, <4>3 DEF Escaped
        <5>2. name[1] \in NameLetters \cup Foreign \cup {"-"}
          BY <3>3, <4>3 DEF Characters
        <5>3. QED
          BY <5>1, <5>2
      <4>4. QED
        BY <4>1, <4>2, <4>3
    <3>5. s[1] = e[1][1]
      <4>1. 1 \in 1 .. Len(e[1]) /\ 0 + 1 = 1
        BY <3>4
      <4>2. QED
        BY <3>2, <4>1
    <3>6. s # <<>>
      BY <1>7, <3>2, <3>4
    <3>7. QED
      BY <3>4, <3>5, <3>6 DEF ReadCssIdent, BeginsName
  <2>3. QED
    BY <2>1, <2>2
<1>15. QED
  BY <1>13, <1>14 DEF s

-----------------------------------------------------------------------------
(* The path to a node selects it.                                          *)

LEMMA SelectedSteps ==
  ASSUME NEW d, NEW selector, Len(selector) \in Nat \ {0}
  PROVE  \E m : /\ \A n \in 1 .. Len(selector) :
                     m[n] = {i \in DOMAIN d : /\ FitsPart(d, i, selector[n])
                                              /\ n = 1 \/ d[i].up \in m[n - 1]}
                /\ Selected(d, selector) = {i \in m[Len(selector)] : IsElement(d, i)}
<1> DEFINE L == Len(selector)
           V == SUBSET DOMAIN d
           g == [x \in (1 .. L) \X V |->
                   {i \in DOMAIN d : /\ FitsPart(d, i, selector[x[1]])
                                     /\ x[1] = 1 \/ d[i].up \in x[2]}]
           Body(v) == [n \in 1 .. L |->
                        LET before == IF n = 1 THEN {} ELSE v[n - 1]
                        IN  {i \in DOMAIN d : /\ FitsPart(d, i, selector[n])
                                              /\ n = 1 \/ d[i].up \in before}]
           m == CHOOSE v : v = Body(v)
<1>1. L \in Nat \ {0}
  OBVIOUS
<1>2. {} \in V /\ g \in [(1 .. L) \X V -> V]
  OBVIOUS
<1>3. PICK u \in [0 .. L -> V] :
        u[0] = {} /\ \A n \in 1 .. L : u[n] = g[<<n, u[n - 1]>>]
  <2> DEFINE a == {}
  <2>1. a \in V
    OBVIOUS
  <2> HIDE DEF L, g, V, a
  <2>2. Recurs(V, a, L, g)
    BY <1>1, <1>2, <2>1, Recursion
  <2>3. QED
    BY <2>2 DEF Recurs, a
<1>4. ASSUME NEW n \in 1 .. L
      PROVE  u[n] = {i \in DOMAIN d : /\ FitsPart(d, i, selector[n])
                                      /\ n = 1 \/ d[i].up \in u[n - 1]}
  <2>1. n - 1 \in 0 .. L
    BY <1>1
  <2> HIDE DEF L
  <2>2. u[n - 1] \in V /\ u[n] = g[<<n, u[n - 1]>>]
    BY <1>3, <2>1
  <2>3. <<n, u[n - 1]>> \in (1 .. L) \X V
    BY <2>2
  <2>4. \A x \in (1 .. L) \X V :
          g[x] = {i \in DOMAIN d : /\ FitsPart(d, i, selector[x[1]])
                                   /\ x[1] = 1 \/ d[i].up \in x[2]}
    OBVIOUS
  <2> HIDE DEF g, V
  <2>5. QED
    BY <2>2, <2>3, <2>4
<1>5. \E v : v = Body(v)
  <2> DEFINE v == [n \in 1 .. L |-> u[n]]
  <2>1. ASSUME NEW n \in 1 .. L
        PROVE  v[n] = {i \in DOMAIN d : /\ FitsPart(d, i, selector[n])
                                        /\ n = 1 \/ d[i].up \in IF n = 1 THEN {} ELSE v[n - 1]}
    <3>1. n = 1 \/ v[n - 1] = u[n - 1]
      BY <1>1
    <3>2. v[n] = u[n]
      OBVIOUS
    <3> HIDE DEF v
    <3>3. QED
      BY <1>4, <3>1, <3>2
  <2>2. v = Body(v)
    BY <2>1
  <2>3. QED
    BY <2>2
<1>6. m = Body(m)
  BY <1>5
<1>7. Selected(d, selector) = {i \in m[L] : IsElement(d, i)}
  BY DEF Selected
<1> HIDE DEF m
<1>8. ASSUME NEW n \in 1 .. L
      PROVE  m[n] = {i \in DOMAIN d : /\ FitsPart(d, i, selector[n])
                                      /\ n = 1 \/ d[i].up \in m[n - 1]}
  <2>1. Body(m)[n] = {i \in DOMAIN d : /\ FitsPart(d, i, selector[n])
                                       /\ n = 1 \/ d[i].up \in IF n = 1 THEN {} ELSE m[n - 1]}
    OBVIOUS
  <2> HIDE DEF Body
  <2>2. QED
    BY <1>6, <2>1
<1>9. QED
  BY <1>7, <1>8

(* The part a node has in a path fits the node. *)
LEMMA PartFits ==
  ASSUME NEW d, IsHtml(d), NEW i \in DOMAIN d,
         \A name \in PartOf(d, i).id \cup PartOf(d, i).class : ReadCssIdent(name) # {}
  PROVE  FitsPart(d, i, PartOf(d, i))
<1>1. /\ PartOf(d, i).tag = d[i].tag
      /\ PartOf(d, i).id = Name(d, i, "id")
      /\ PartOf(d, i).class = IF Has(d, i, "id") THEN {} ELSE Name(d, i, "class")
  BY DEF PartOf, Part
<1>2. ASSUME NEW attr \in {"id", "class"}, NEW name \in Name(d, i, attr),
             ReadCssIdent(name) # {}
      PROVE  Has(d, i, attr) /\ ReadCssIdent(name) = {d[i].attrs[attr]}
  <2>1. Has(d, i, attr) /\ name = EscapeCssIdent(d[i].attrs[attr])
    BY DEF Name
  <2>2. d[i].attrs[attr] \in Seq(Characters)
    BY <2>1 DEF IsHtml
  <2>3. ReadEscapes(name) = d[i].attrs[attr]
    BY <2>1, <2>2, EscapesAreRead
  <2>4. ReadCssIdent(name) = {ReadEscapes(name)}
    BY <1>2 DEF ReadCssIdent
  <2>5. QED
    BY <2>1, <2>3, <2>4
<1>3. QED
  BY <1>1, <1>2 DEF FitsPart

OnPath(d, i) == {j \in {i} \cup Above(d, i) : d[j].tag \notin {"html", "body"}}

LEMMA PathIs ==
  ASSUME NEW d, IsDocument(d), NEW i \in DOMAIN d
  PROVE  /\ OnPath(d, i) \in SUBSET DOMAIN d
         /\ OnPath(d, i) \in SUBSET Nat /\ IsFiniteSet(OnPath(d, i))
         /\ PathTo(d, i) = [k \in 1 .. Cardinality(OnPath(d, i)) |->
                              PartOf(d, Ordered(OnPath(d, i))[k])]
<1> DEFINE P == OnPath(d, i)
           n == Cardinality(P)
           g == [k \in 1 .. n |-> PartOf(d, Ordered(P)[k])]
<1>1. DOMAIN d = 1 .. Len(d) /\ Len(d) \in Nat
  BY DocumentShape
<1>2. P \in SUBSET (1 .. Len(d))
  BY <1>1 DEF OnPath, Above
<1>3. P \in SUBSET Nat /\ IsFiniteSet(P)
  <2> HIDE DEF P
  <2>1. IsFiniteSet(1 .. Len(d)) /\ (1 .. Len(d)) \in SUBSET Nat
    BY <1>1, FS_Interval
  <2>2. QED
    BY <1>2, <2>1, FS_Subset
<1>4. n \in Nat
  BY <1>3, FS_CardinalityType
<1>5. PathTo(d, i) = FlattenSeq([k \in 1 .. n |-> <<PartOf(d, Ordered(P)[k])>>])
  BY DEF PathTo, Gather, OnPath
<1> HIDE DEF n, P
<1>6. [k \in 1 .. n |-> <<PartOf(d, Ordered(P)[k])>>] = [k \in 1 .. n |-> <<g[k]>>]
  OBVIOUS
<1>7. [k \in 1 .. n |-> g[k]] = g
  OBVIOUS
<1> HIDE DEF g
<1>8. FlattenSeq([k \in 1 .. n |-> <<g[k]>>]) = [k \in 1 .. n |-> g[k]]
  BY <1>4, FlattenSingles
<1>9. PathTo(d, i) = g
  BY <1>5, <1>6, <1>7, <1>8
<1>10. QED
  BY <1>1, <1>2, <1>3, <1>9 DEF g, n, P

(* Next on a path is a child. *)
LEMMA PathDescends ==
  ASSUME NEW d, IsDocument(d), IsHtml(d), NEW i \in DOMAIN d,
         NEW a \in OnPath(d, i), NEW b \in OnPath(d, i), a < b,
         \A c \in OnPath(d, i) : c <= a \/ b <= c
  PROVE  d[b].up = a
<1> DEFINE u == d[b].up
<1>1. /\ DOMAIN d = 1 .. Len(d) /\ Len(d) \in Nat
      /\ i \in 1 .. Len(d)
      /\ \A j \in 2 .. Len(d) : d[j].up \in Above(d, j)
      /\ \A j \in 1 .. Len(d) : d[j].up \in Nat
  BY DocumentShape
<1>2. a \in 1 .. Len(d) /\ b \in 2 .. Len(d) /\ a <= i /\ b <= i
  BY <1>1 DEF OnPath, Above
<1>3. a \in Above(d, b)
  <2>1. a \in Above(d, i)
    BY <1>2 DEF OnPath
  <2>2. \A k \in a + 1 .. b : k \in a + 1 .. i
    BY <1>1, <1>2
  <2>3. a \in 1 .. b - 1
    BY <1>2
  <2>4. QED
    BY <2>1, <2>2, <2>3 DEF Above
<1>4. u >= a /\ u \in Above(d, b) /\ u \in 1 .. b - 1
  <2>1. b \in a + 1 .. b
    BY <1>2
  <2>2. QED
    BY <1>1, <1>2, <1>3, <2>1 DEF Above
<1> HIDE DEF u
<1>5. CASE u \in OnPath(d, i)
  BY <1>2, <1>4, <1>5 DEF u
<1>6. CASE u \notin OnPath(d, i)
  <2>1. u \in Above(d, i)
    <3>1. CASE b = i
      BY <1>4, <3>1
    <3>2. CASE b # i
      <4>1. b \in Above(d, i)
        BY <3>2 DEF OnPath
      <4>2. i \in Nat /\ i <= Len(d)
        BY <1>1
      <4>3. QED
        BY <1>4, <4>1, <4>2, AboveIsTransitive
    <3>3. QED
      BY <3>1, <3>2
  <2>2. d[u].tag \in {"html", "body"}
    BY <1>6, <2>1 DEF OnPath
  <2>3. u \in 1 .. Len(d) /\ a \in Nat /\ u \in Nat
    BY <1>1, <1>2, <1>4
  <2>4. d[a].tag \notin {"html", "body"}
    BY DEF OnPath
  <2>5. a # u
    BY <2>2, <2>4
  <2>6. a < u
    BY <1>4, <2>3, <2>5
  <2>7. u # 1
    BY <1>2, <2>6
  <2>8. d[u].up = 1 /\ d[1].tag = "html"
    BY <1>1, <2>2, <2>3, <2>7 DEF IsHtml
  <2>9. u \in a + 1 .. b
    BY <1>2, <1>4, <2>6
  <2>10. 1 >= a
    BY <1>3, <2>8, <2>9 DEF Above
  <2>11. a = 1
    BY <1>2, <2>10
  <2>12. QED
    BY <2>4, <2>8, <2>11
<1>7. QED
  BY <1>5, <1>6

LEMMA PathSelects ==
  ASSUME NEW d, IsDocument(d), IsHtml(d), NEW i \in DOMAIN d,
         IsElement(d, i), PathTo(d, i) # <<>>, Valid(PathTo(d, i))
  PROVE  i \in Selected(d, PathTo(d, i))
<1> DEFINE P == OnPath(d, i)
           n == Cardinality(P)
           f == Ordered(P)
           s == PathTo(d, i)
<1>1. /\ P \in SUBSET DOMAIN d
      /\ P \in SUBSET Nat /\ IsFiniteSet(P)
      /\ s = [k \in 1 .. n |-> PartOf(d, f[k])]
  BY PathIs
<1>2. /\ n \in Nat
      /\ \A k \in 1 .. n : f[k] \in P /\ Rank(P, f[k]) = k
      /\ \A j \in P : Rank(P, j) \in 1 .. n /\ f[Rank(P, j)] = j
  BY <1>1, OrderedCounts
<1> HIDE DEF P, n, f, s
<1>3. Len(s) = n /\ DOMAIN s = 1 .. n /\ \A k \in 1 .. n : s[k] = PartOf(d, f[k])
  BY <1>1, <1>2
<1>4. n # 0
  BY <1>1, <1>2 DEF s
<1>5. ASSUME NEW k \in 1 .. n PROVE FitsPart(d, f[k], s[k])
  <2>1. \A name \in s[k].id \cup s[k].class : ReadCssIdent(name) # {}
    BY <1>3 DEF Valid, s
  <2>2. f[k] \in DOMAIN d /\ s[k] = PartOf(d, f[k])
    BY <1>1, <1>2, <1>3
  <2>3. QED
    BY <2>1, <2>2, PartFits
<1>6. ASSUME NEW k \in 2 .. n PROVE d[f[k]].up = f[k - 1]
  <2>1. k \in 1 .. n /\ k - 1 \in 1 .. n
    BY <1>2
  <2>2. f[k] \in P /\ f[k - 1] \in P /\ Rank(P, f[k]) = k /\ Rank(P, f[k - 1]) = k - 1
    BY <1>2, <2>1
  <2>3. f[k] \in Nat /\ f[k - 1] \in Nat
    BY <1>1, <2>2
  <2>4. f[k - 1] < f[k]
    <3>1. Rank(P, f[k]) <= Rank(P, f[k - 1]) <=> f[k] <= f[k - 1]
      BY <1>1, <2>2, <2>3, RankReaches
    <3>2. QED
      BY <2>1, <2>2, <2>3, <3>1
  <2>5. ASSUME NEW c \in P PROVE c <= f[k - 1] \/ f[k] <= c
    <3>1. c \in Nat /\ Rank(P, c) \in Nat
      BY <1>1, <1>2
    <3>2. Rank(P, c) <= Rank(P, f[k - 1]) <=> c <= f[k - 1]
      BY <1>1, <2>3, RankReaches
    <3>3. Rank(P, f[k]) <= Rank(P, c) <=> f[k] <= c
      BY <1>1, <2>2, <3>1, RankReaches
    <3>4. QED
      BY <2>1, <2>2, <3>1, <3>2, <3>3
  <2>6. QED
    BY <2>2, <2>4, <2>5, PathDescends DEF P
<1>7. PICK m :
        /\ \A k \in 1 .. n : m[k] = {j \in DOMAIN d : /\ FitsPart(d, j, s[k])
                                                      /\ k = 1 \/ d[j].up \in m[k - 1]}
        /\ Selected(d, s) = {j \in m[n] : IsElement(d, j)}
  <2>1. Len(s) \in Nat \ {0}
    BY <1>2, <1>3, <1>4
  <2>2. QED
    BY <1>3, <2>1, SelectedSteps
<1> DEFINE Bad == {k \in 1 .. n : f[k] \notin m[k]}
<1>8. Bad = {}
  <2> SUFFICES ASSUME Bad # {} PROVE FALSE
    OBVIOUS
  <2>1. PICK k \in Bad : \A l \in Bad : k <= l
    <3>1. Bad \in SUBSET Nat
      BY <1>2
    <3> HIDE DEF Bad
    <3>2. QED
      BY <3>1, LeastNumber
  <2>2. k \in 1 .. n /\ f[k] \notin m[k]
    OBVIOUS
  <2>3. f[k] \in DOMAIN d /\ FitsPart(d, f[k], s[k])
    BY <1>1, <1>2, <1>5, <2>2
  <2>4. CASE k = 1
    BY <1>7, <2>2, <2>3, <2>4
  <2>5. CASE k # 1
    <3>1. k \in 2 .. n /\ k - 1 \in 1 .. n /\ ~(k <= k - 1)
      BY <1>2, <2>2, <2>5
    <3>2. f[k - 1] \in m[k - 1]
      BY <2>1, <3>1
    <3>3. d[f[k]].up \in m[k - 1]
      BY <1>6, <3>1, <3>2
    <3>4. QED
      BY <1>7, <2>2, <2>3, <3>3
  <2>6. QED
    BY <2>4, <2>5
<1>9. f[n] \in m[n]
  <2>1. n \in 1 .. n
    BY <1>2, <1>4
  <2>2. QED
    BY <1>8, <2>1
(* The last is i itself: everything else is above it. *)
<1>10. f[n] = i
  <2>1. /\ DOMAIN d = 1 .. Len(d) /\ Len(d) \in Nat
        /\ \A j \in 2 .. Len(d) : d[j].up \in Above(d, j)
    BY DocumentShape
  <2>2. \A j \in P : j \in Nat /\ j <= i /\ (j = i \/ j \in Above(d, i))
                    /\ d[j].tag \notin {"html", "body"}
    BY <2>1 DEF P, OnPath, Above
  <2>3. i \in P
    <3> SUFFICES ASSUME i \notin P PROVE FALSE
      OBVIOUS
    <3>1. d[i].tag \in {"html", "body"}
      BY DEF P, OnPath
    <3>2. PICK j \in P : TRUE
      BY <1>2, <1>4
    <3>3. j \in Above(d, i) /\ d[j].tag \notin {"html", "body"}
      BY <2>2, <3>2
    <3>4. j \in 1 .. i - 1 /\ i \in j + 1 .. i /\ i # 1
      BY <2>1, <3>3 DEF Above
    <3>5. d[i].up = 1 /\ d[1].tag = "html"
      BY <2>1, <3>1, <3>4 DEF IsHtml
    <3>6. 1 >= j
      BY <3>3, <3>4, <3>5 DEF Above
    <3>7. j = 1
      BY <3>4, <3>6
    <3>8. QED
      BY <3>3, <3>5, <3>7
  <2>4. n \in 1 .. n
    BY <1>2, <1>4
  <2>5. f[n] \in P /\ Rank(P, f[n]) = n /\ Rank(P, i) \in 1 .. n /\ f[Rank(P, i)] = i
    BY <1>2, <2>3, <2>4
  <2>6. i \in Nat /\ f[n] <= i
    BY <2>2, <2>3, <2>5
  <2>7. Rank(P, f[n]) <= Rank(P, i) <=> f[n] <= i
    BY <1>1, <2>5, <2>6, RankReaches
  <2>8. Rank(P, i) = n
    BY <1>2, <2>5, <2>6, <2>7
  <2>9. QED
    BY <2>5, <2>8
<1>11. QED
  BY <1>7, <1>9, <1>10 DEF s

(* A path is a selector unless it names a name that has no escape. *)
LEMMA PathIsValid ==
  ASSUME NEW d, IsDocument(d), IsHtml(d), NEW i \in DOMAIN d,
         d[i].tag \notin {"html", "body"},
         \A p \in Range(PathTo(d, i)) : \A name \in p.id \cup p.class :
           name # <<>> /\ name[1] # "-"
  PROVE  Valid(PathTo(d, i))
<1> DEFINE P == OnPath(d, i)
           n == Cardinality(P)
           f == Ordered(P)
           s == PathTo(d, i)
<1>1. /\ P \in SUBSET DOMAIN d
      /\ P \in SUBSET Nat /\ IsFiniteSet(P)
      /\ s = [k \in 1 .. n |-> PartOf(d, f[k])]
  BY PathIs
<1>2. /\ n \in Nat
      /\ \A k \in 1 .. n : f[k] \in P
      /\ \A j \in P : Rank(P, j) \in 1 .. n
  BY <1>1, OrderedCounts
<1>3. i \in P
  BY DEF OnPath
<1> HIDE DEF P, n, f, s
<1>4. DOMAIN s = 1 .. n /\ \A k \in 1 .. n : s[k] = PartOf(d, f[k])
  BY <1>1
<1>5. s # <<>>
  <2>1. Rank(P, i) \in DOMAIN s
    BY <1>2, <1>3, <1>4
  <2>2. QED
    BY <2>1
<1>6. ASSUME NEW k \in DOMAIN s, NEW name \in s[k].id \cup s[k].class
      PROVE  ReadCssIdent(name) # {}
  <2>1. name # <<>> /\ name[1] # "-"
    BY DEF Range, s
  <2>2. s[k] = PartOf(d, f[k]) /\ f[k] \in DOMAIN d
    BY <1>1, <1>2, <1>4
  <2>3. PICK attr \in {"id", "class"} : name \in Name(d, f[k], attr)
    BY <2>2 DEF PartOf, Part
  <2>4. Has(d, f[k], attr) /\ name = EscapeCssIdent(d[f[k]].attrs[attr])
    BY <2>3 DEF Name
  <2>5. d[f[k]].attrs[attr] \in Seq(Characters)
    BY <2>2, <2>4 DEF IsHtml
  <2>6. QED
    BY <2>1, <2>4, <2>5, EscapesAreRead
<1>7. QED
  BY <1>5, <1>6 DEF Valid, s

(* What locate says of a page. *)
LEMMA HitsAreNodes ==
  ASSUME NEW d, IsDocument(d), NEW needle, NEW h \in Range(Locate(d, needle))
  PROVE  /\ h.node \in DOMAIN d
         /\ IsElement(d, h.node)
         /\ h.selector = PathTo(d, h.node)
         /\ AttrHit(d, h.node, needle) \/ TextHit(d, h.node, needle)
         /\ h.kind = "text" => ~AttrHit(d, h.node, needle)
<1> DEFINE S == {i \in DOMAIN d : IsElement(d, i) /\ (AttrHit(d, i, needle) \/ TextHit(d, i, needle))}
           n == Cardinality(S)
           Hit(i) == [node |-> i, selector |-> PathTo(d, i),
                      kind |-> IF AttrHit(d, i, needle) THEN "attr" ELSE "text"]
           g == [k \in 1 .. n |-> Hit(Ordered(S)[k])]
<1>1. DOMAIN d = 1 .. Len(d) /\ Len(d) \in Nat
  BY DocumentShape
<1>2. S \in SUBSET Nat /\ IsFiniteSet(S) /\ S \in SUBSET DOMAIN d
  <2>1. S \in SUBSET (1 .. Len(d))
    BY <1>1
  <2> HIDE DEF S
  <2>2. IsFiniteSet(1 .. Len(d)) /\ (1 .. Len(d)) \in SUBSET Nat
    BY <1>1, FS_Interval
  <2>3. QED
    BY <1>1, <2>1, <2>2, FS_Subset
<1>3. n \in Nat /\ \A k \in 1 .. n : Ordered(S)[k] \in S
  BY <1>2, OrderedCounts
<1>4. Locate(d, needle) = FlattenSeq([k \in 1 .. n |-> <<Hit(Ordered(S)[k])>>])
  BY DEF Locate, Gather
<1> HIDE DEF n
<1>5. [k \in 1 .. n |-> <<Hit(Ordered(S)[k])>>] = [k \in 1 .. n |-> <<g[k]>>]
  <2> HIDE DEF Hit, S
  <2> QED
    OBVIOUS
<1>6. [k \in 1 .. n |-> g[k]] = g /\ DOMAIN g = 1 .. n
  OBVIOUS
<1>7. \A k \in 1 .. n : g[k] = Hit(Ordered(S)[k])
  OBVIOUS
<1> HIDE DEF g
<1>8. FlattenSeq([k \in 1 .. n |-> <<g[k]>>]) = [k \in 1 .. n |-> g[k]]
  BY <1>3, FlattenSingles
<1>9. Locate(d, needle) = g
  BY <1>4, <1>5, <1>6, <1>8
<1>10. PICK k \in 1 .. n : h = g[k]
  BY <1>6, <1>9 DEF Range
<1>11. PICK i \in S : h = Hit(i)
  BY <1>3, <1>7, <1>10
<1>12. QED
  BY <1>11

LEMMA HitsCanBeSelected ==
  ASSUME NEW d, IsDocument(d), IsHtml(d), NEW needle, NEW h \in Range(Locate(d, needle))
  PROVE  /\ h.kind = "text" => TextHit(d, h.node, needle)
         /\ h.selector # <<>> /\ Valid(h.selector) => h.node \in Selected(d, h.selector)
         /\ Valid(h.selector) \/ d[h.node].tag \in {"html", "body"}
            \/ \E p \in Range(h.selector) : \E name \in p.id \cup p.class :
                 name = <<>> \/ name[1] = "-"
<1>1. /\ h.node \in DOMAIN d
      /\ IsElement(d, h.node)
      /\ h.selector = PathTo(d, h.node)
      /\ AttrHit(d, h.node, needle) \/ TextHit(d, h.node, needle)
      /\ h.kind = "text" => ~AttrHit(d, h.node, needle)
  BY HitsAreNodes
<1>2. h.selector # <<>> /\ Valid(h.selector) => h.node \in Selected(d, h.selector)
  BY <1>1, PathSelects
<1>3. Valid(h.selector) \/ d[h.node].tag \in {"html", "body"}
      \/ \E p \in Range(h.selector) : \E name \in p.id \cup p.class : name = <<>> \/ name[1] = "-"
  BY <1>1, PathIsValid
<1>4. QED
  BY <1>1, <1>2, <1>3

-----------------------------------------------------------------------------
(* Recursion from the leaves of a page up.                                 *)

(* What G says of a node depends on the nodes behind it only. *)
Forward(V, N, G) ==
  \A j \in 1 .. N : \A u, v \in [1 .. N -> V] :
    (\A c \in 1 .. N : c > j => u[c] = v[c]) => G[<<j, u>>] = G[<<j, v>>]

(* Then there is a function that is everywhere what G says of it. *)
Settles(V, N, G) == \E f \in [1 .. N -> V] : \A j \in 1 .. N : f[j] = G[<<j, f>>]

LEMMA Downward ==
  ASSUME NEW V, NEW a \in V, NEW N \in Nat,
         NEW G \in [(1 .. N) \X [1 .. N -> V] -> V], Forward(V, N, G)
  PROVE  Settles(V, N, G)
<1> DEFINE W == [1 .. N -> V]
           g == [x \in (1 .. N) \X W |->
                   [x[2] EXCEPT ![N + 1 - x[1]] = G[<<N + 1 - x[1], x[2]>>]]]
           none == [j \in 1 .. N |-> a]
<1>1. ASSUME NEW n \in 1 .. N PROVE N + 1 - n \in 1 .. N
  OBVIOUS
<1>2. ASSUME NEW n \in 1 .. N, NEW u \in W
      PROVE  /\ g[<<n, u>>] \in W
             /\ g[<<n, u>>][N + 1 - n] = G[<<N + 1 - n, u>>]
             /\ \A c \in 1 .. N : c # N + 1 - n => g[<<n, u>>][c] = u[c]
  <2> DEFINE j == N + 1 - n
  <2>1. j \in 1 .. N
    BY <1>1
  <2>2. g[<<n, u>>] = [u EXCEPT ![j] = G[<<j, u>>]]
    OBVIOUS
  <2> HIDE DEF j, g
  <2>3. G[<<j, u>>] \in V
    BY <2>1
  <2>4. /\ g[<<n, u>>] \in W
        /\ g[<<n, u>>][j] = G[<<j, u>>]
        /\ \A c \in 1 .. N : c # j => g[<<n, u>>][c] = u[c]
    BY <2>1, <2>2, <2>3
  <2>5. QED
    BY <2>4 DEF j
<1>3. none \in W
  OBVIOUS
<1>4. g \in [(1 .. N) \X W -> W]
  <2>1. g = [x \in (1 .. N) \X W |-> g[x]]
    OBVIOUS
  <2>2. ASSUME NEW x \in (1 .. N) \X W PROVE g[x] \in W
    <3>1. x = <<x[1], x[2]>> /\ x[1] \in 1 .. N /\ x[2] \in W
      OBVIOUS
    <3> HIDE DEF g, W
    <3>2. QED
      BY <1>2, <3>1
  <2> HIDE DEF g, W
  <2>3. QED
    BY <2>1, <2>2
<1> HIDE DEF g, none
<1>5. PICK h \in [0 .. N -> W] : h[0] = none /\ \A n \in 1 .. N : h[n] = g[<<n, h[n - 1]>>]
  <2> HIDE DEF W
  <2>1. Recurs(W, none, N, g)
    BY <1>3, <1>4, Recursion
  <2>2. QED
    BY <2>1 DEF Recurs
<1>6. ASSUME NEW n \in 1 .. N
      PROVE  /\ n - 1 \in 0 .. N /\ h[n - 1] \in W /\ h[n] \in W
             /\ h[n][N + 1 - n] = G[<<N + 1 - n, h[n - 1]>>]
             /\ \A c \in 1 .. N : c # N + 1 - n => h[n][c] = h[n - 1][c]
  <2>1. n - 1 \in 0 .. N /\ n \in 0 .. N
    OBVIOUS
  <2>2. h[n] = g[<<n, h[n - 1]>>] /\ h[n - 1] \in W /\ h[n] \in W
    BY <1>5, <2>1
  <2> DEFINE u == h[n - 1]
  <2> HIDE DEF W, u
  <2>3. u \in W
    BY <2>2 DEF u
  <2>4. /\ g[<<n, u>>][N + 1 - n] = G[<<N + 1 - n, u>>]
        /\ \A c \in 1 .. N : c # N + 1 - n => g[<<n, u>>][c] = u[c]
    BY <1>2, <2>3
  <2>5. QED
    BY <2>1, <2>2, <2>4 DEF u
<1> DEFINE f == h[N]
           Bad == {m \in 0 .. N : \E n \in 0 .. m : \E c \in 1 .. N :
                     c >= N + 1 - n /\ h[m][c] # h[n][c]}
<1>7. Bad = {}
  <2> SUFFICES ASSUME Bad # {} PROVE FALSE
    OBVIOUS
  <2>1. PICK m \in Bad : \A l \in Bad : m <= l
    <3>1. Bad \in SUBSET Nat
      OBVIOUS
    <3> HIDE DEF Bad
    <3>2. QED
      BY <3>1, LeastNumber
  <2>2. PICK n \in 0 .. m : \E c \in 1 .. N : c >= N + 1 - n /\ h[m][c] # h[n][c]
    OBVIOUS
  <2>3. PICK c \in 1 .. N : c >= N + 1 - n /\ h[m][c] # h[n][c]
    BY <2>2
  <2>4. n < m /\ m \in 1 .. N /\ m - 1 \in 0 .. N /\ n \in 0 .. m - 1 /\ ~(m <= m - 1)
    <3>1. m \in 0 .. N /\ n # m
      BY <2>3
    <3>2. QED
      BY <3>1
  <2>5. h[m - 1][c] = h[n][c]
    BY <2>1, <2>3, <2>4
  <2>6. c # N + 1 - m
    BY <2>3, <2>4
  <2>7. h[m][c] = h[m - 1][c]
    BY <1>6, <2>4, <2>6
  <2>8. QED
    BY <2>3, <2>5, <2>7
<1>8. ASSUME NEW n \in 0 .. N, NEW c \in 1 .. N, c >= N + 1 - n PROVE f[c] = h[n][c]
  <2>1. N \in 0 .. N /\ N \notin Bad
    <3> HIDE DEF Bad
    <3> QED
      BY <1>7
  <2>2. QED
    BY <1>8, <2>1
<1> HIDE DEF Bad
<1>9. f \in W
  BY <1>5
<1>10. ASSUME NEW j \in 1 .. N PROVE f[j] = G[<<j, f>>]
  <2> DEFINE n == N + 1 - j
  <2>1. n \in 1 .. N /\ N + 1 - n = j /\ n \in 0 .. N
    OBVIOUS
  <2> HIDE DEF n
  <2>2. f[j] = h[n][j]
    BY <1>8, <2>1
  <2>3. h[n][j] = G[<<j, h[n - 1]>>] /\ h[n - 1] \in W
    BY <1>6, <2>1
  <2>4. ASSUME NEW c \in 1 .. N, c > j PROVE h[n - 1][c] = f[c]
    <3>1. n - 1 \in 0 .. N /\ c >= N + 1 - (n - 1)
      BY <2>1, <2>4
    <3>2. QED
      BY <1>8, <3>1
  <2> HIDE DEF f
  <2>5. G[<<j, h[n - 1]>>] = G[<<j, f>>]
    BY <1>9, <2>3, <2>4 DEF Forward
  <2>6. QED
    BY <2>2, <2>3, <2>5
<1>11. QED
  BY <1>9, <1>10 DEF Settles

(* What holds of a node if it holds of those behind it holds of them all. *)
LEMMA FromTheEnd ==
  ASSUME NEW N \in Nat, NEW P,
         \A j \in 1 .. N : (\A c \in 1 .. N : c > j => c \in P) => j \in P
  PROVE  \A j \in 1 .. N : j \in P
<1> DEFINE Bad == {m \in 1 .. N : N + 1 - m \notin P}
<1>1. Bad = {}
  <2> SUFFICES ASSUME Bad # {} PROVE FALSE
    OBVIOUS
  <2>1. PICK m \in Bad : \A l \in Bad : m <= l
    <3>1. Bad \in SUBSET Nat
      OBVIOUS
    <3> HIDE DEF Bad
    <3>2. QED
      BY <3>1, LeastNumber
  <2>2. m \in 1 .. N /\ N + 1 - m \in 1 .. N /\ N + 1 - m \notin P
    OBVIOUS
  <2>3. ASSUME NEW c \in 1 .. N, c > N + 1 - m PROVE c \in P
    <3>1. N + 1 - c \in 1 .. N /\ ~(m <= N + 1 - c) /\ N + 1 - (N + 1 - c) = c
      BY <2>2, <2>3
    <3>2. N + 1 - c \notin Bad
      BY <2>1, <3>1
    <3>3. QED
      BY <3>1, <3>2
  <2>4. QED
    BY <2>2, <2>3
<1>2. ASSUME NEW j \in 1 .. N PROVE j \in P
  <2>1. N + 1 - j \in 1 .. N /\ N + 1 - (N + 1 - j) = j
    OBVIOUS
  <2>2. N + 1 - j \notin Bad
    BY <1>1
  <2>3. QED
    BY <2>1, <2>2
<1>3. QED
  BY <1>2

-----------------------------------------------------------------------------
(* What is rendered is a sequence of paragraphs.                           *)

(* A page whose texts are made of A, which holds what is added to them. *)
Worded(d, A) ==
  /\ Len(d) \in Nat /\ DOMAIN d = 1 .. Len(d)
  /\ \A i \in DOMAIN d : d[i].text \in Seq(A)
  /\ Marks \subseteq A

LEMMA FlattenIn ==
  ASSUME NEW S, NEW s \in Seq(Seq(S))
  PROVE  FlattenSeq(s) \in Seq(S)
<1>1. PICK u \in [0 .. Len(s) -> Seq(S)] : FlattenSeq(s) = u[Len(s)]
  BY FlattenSteps
<1>2. Len(s) \in Nat
  OBVIOUS
<1>3. QED
  BY <1>1, <1>2

(* Some nodes of a page are finitely many, and so can be ordered. *)
LEMMA FewNodes ==
  ASSUME NEW N \in Nat, NEW B \in SUBSET (1 .. N)
  PROVE  /\ Cardinality(B) \in Nat
         /\ \A k \in 1 .. Cardinality(B) : Ordered(B)[k] \in B
<1>1. IsFiniteSet(B)
  <2>1. IsFiniteSet(1 .. N)
    BY FS_Interval
  <2>2. QED
    BY <2>1, FS_Subset
<1>2. B \in SUBSET Nat
  OBVIOUS
<1>3. QED
  BY <1>1, <1>2, OrderedCounts

LEMMA TextIn ==
  ASSUME NEW d, NEW A, Worded(d, A), NEW B \in SUBSET DOMAIN d
  PROVE  TextOfAll(d, B) \in Seq(A)
<1>1. Cardinality(B) \in Nat /\ \A k \in 1 .. Cardinality(B) : Ordered(B)[k] \in B
  BY FewNodes DEF Worded
<1> DEFINE n == Cardinality(B)
           s == [k \in 1 .. n |-> d[Ordered(B)[k]].text]
<1>2. s \in Seq(Seq(A))
  <2>1. \A i \in B : d[i].text \in Seq(A)
    BY DEF Worded
  <2>2. n \in Nat /\ \A k \in 1 .. n : d[Ordered(B)[k]].text \in Seq(A)
    BY <1>1, <2>1
  <2> HIDE DEF n
  <2>3. QED
    BY <2>2
<1>3. TextOfAll(d, B) = FlattenSeq(s)
  BY DEF TextOfAll, Gather
<1> HIDE DEF s
<1>4. QED
  BY <1>2, <1>3, FlattenIn

LEMMA NodeTextIn ==
  ASSUME NEW d, NEW A, Worded(d, A), NEW i \in DOMAIN d
  PROVE  TextOf(d, i) \in Seq(A)
<1>1. Within(d, i) \in SUBSET DOMAIN d
  BY DEF Within, Worded
<1>2. QED
  BY <1>1, TextIn DEF TextOf

-----------------------------------------------------------------------------
(* render_inline for a node gives letters if what is in it does. *)
LEMMA InlineNodeIn ==
  ASSUME NEW d, NEW A, Worded(d, A), NEW i \in DOMAIN d, NEW mode, NEW inner \in Seq(A)
  PROVE  InlineNode(d, i, mode, inner) \in Seq(A)
<1>1. d[i].text \in Seq(A) /\ TextOf(d, i) \in Seq(A) /\ Marks \subseteq A
  BY NodeTextIn DEF Worded
<1>2. Marked(mode, inner, "**") \in Seq(A) /\ Marked(mode, inner, "*") \in Seq(A)
  BY <1>1 DEF Marked, Marks
<1>3. Code(d, i, mode) \in Seq(A)
  BY <1>1 DEF Code, Marks
<1>4. Link(d, i, mode, inner) \in Seq(A)
  BY <1>1 DEF Link, Marks
<1>5. (IF mode = "markdown" /\ Has(d, i, "src") THEN <<"url">> ELSE <<>>) \in Seq(A)
  BY <1>1 DEF Marks
<1>6. <<>> \in Seq(A)
  OBVIOUS
<1>7. QED
  BY <1>1, <1>2, <1>3, <1>4, <1>5, <1>6 DEF InlineNode

InlineBody(d, mode, u, j) ==
  d[j].text \o Gather(Nodes(d, j), LAMBDA c : InlineNode(d, c, mode, u[c]))

LEMMA InlineBodyIn ==
  ASSUME NEW d, NEW A, Worded(d, A), NEW mode, NEW j \in DOMAIN d, NEW u,
         \A c \in DOMAIN d : c > j => u[c] \in Seq(A)
  PROVE  InlineBody(d, mode, u, j) \in Seq(A)
<1> DEFINE B == Nodes(d, j)
           n == Cardinality(B)
           s == [k \in 1 .. n |-> InlineNode(d, Ordered(B)[k], mode, u[Ordered(B)[k]])]
<1>1. B \in SUBSET (1 .. Len(d)) /\ \A c \in B : c \in DOMAIN d /\ c > j
  BY DEF Nodes, Worded
<1>2. n \in Nat /\ \A k \in 1 .. n : Ordered(B)[k] \in B
  <2> HIDE DEF B
  <2> QED
    BY <1>1, FewNodes DEF Worded
<1>3. \A c \in B : InlineNode(d, c, mode, u[c]) \in Seq(A)
  <2> HIDE DEF B
  <2> QED
    BY <1>1, InlineNodeIn
<1>4. s \in Seq(Seq(A))
  <2> HIDE DEF n, B
  <2> QED
    BY <1>2, <1>3
<1>5. InlineBody(d, mode, u, j) = d[j].text \o FlattenSeq(s)
  BY DEF InlineBody, Gather
<1> HIDE DEF s
<1>6. FlattenSeq(s) \in Seq(A) /\ d[j].text \in Seq(A)
  BY <1>4, FlattenIn DEF Worded
<1>7. QED
  BY <1>5, <1>6

LEMMA InlineBodySame ==
  ASSUME NEW d, NEW A, Worded(d, A), NEW mode, NEW j \in DOMAIN d, NEW u, NEW v,
         \A c \in DOMAIN d : c > j => u[c] = v[c]
  PROVE  InlineBody(d, mode, u, j) = InlineBody(d, mode, v, j)
<1> DEFINE B == Nodes(d, j)
           n == Cardinality(B)
           S(w) == [k \in 1 .. n |-> InlineNode(d, Ordered(B)[k], mode, w[Ordered(B)[k]])]
<1>1. B \in SUBSET (1 .. Len(d)) /\ \A c \in B : u[c] = v[c]
  BY DEF Nodes, Worded
<1>2. \A k \in 1 .. n : Ordered(B)[k] \in B
  <2> HIDE DEF B
  <2> QED
    BY <1>1, FewNodes DEF Worded
<1>3. S(u) = S(v)
  <2> HIDE DEF n, B
  <2> QED
    BY <1>1, <1>2
<1>4. \A w : InlineBody(d, mode, w, j) = d[j].text \o FlattenSeq(S(w))
  BY DEF InlineBody, Gather
<1> HIDE DEF S
<1>5. QED
  BY <1>3, <1>4

(* What render_inline says of the content of every node. *)
InlineSolution(d, mode, A, u) ==
  /\ u \in [1 .. Len(d) -> Seq(A)]
  /\ \A j \in 1 .. Len(d) : u[j] = InlineBody(d, mode, u, j) /\ Inline(d, j, mode) = u[j]

(* render_inline: there are letters for every node that go with those of   *)
(* the nodes in it.                                                        *)
LEMMA InlineSteps ==
  ASSUME NEW d, NEW A, Worded(d, A), NEW mode
  PROVE  \E inline : InlineSolution(d, mode, A, inline)
<1> DEFINE N == Len(d)
           V == Seq(A)
           G == [x \in (1 .. N) \X [1 .. N -> V] |-> InlineBody(d, mode, x[2], x[1])]
           Body(u) == [j \in DOMAIN d |->
             d[j].text \o Gather(Nodes(d, j), LAMBDA c : InlineNode(d, c, mode, u[c]))]
           inline == CHOOSE u : u = Body(u)
<1>1. N \in Nat /\ DOMAIN d = 1 .. N /\ <<>> \in V
  BY DEF Worded
<1>2. \A x \in (1 .. N) \X [1 .. N -> V] : x[1] \in DOMAIN d /\ x[2] \in [1 .. N -> V]
  BY <1>1
<1>3. ASSUME NEW j \in 1 .. N, NEW u \in [1 .. N -> V]
      PROVE  G[<<j, u>>] = InlineBody(d, mode, u, j) /\ G[<<j, u>>] \in V
  <2>1. G[<<j, u>>] = InlineBody(d, mode, u, j)
    OBVIOUS
  <2>2. InlineBody(d, mode, u, j) \in V
    <3> HIDE DEF V, N
    <3>1. \A c \in DOMAIN d : u[c] \in V
      BY <1>1
    <3>2. QED
      BY <1>1, <3>1, InlineBodyIn DEF V
  <2>3. QED
    BY <2>1, <2>2
<1>4. G \in [(1 .. N) \X [1 .. N -> V] -> V]
  <2>1. ASSUME NEW x \in (1 .. N) \X [1 .. N -> V]
        PROVE  InlineBody(d, mode, x[2], x[1]) \in V
    <3>1. G[<<x[1], x[2]>>] = InlineBody(d, mode, x[2], x[1]) /\ G[<<x[1], x[2]>>] \in V
      <4> HIDE DEF G
      <4> QED
        BY <1>3
    <3>2. QED
      BY <3>1
  <2> HIDE DEF V
  <2>2. QED
    BY <2>1
<1>5. Forward(V, N, G)
  <2> SUFFICES ASSUME NEW j \in 1 .. N, NEW u \in [1 .. N -> V], NEW v \in [1 .. N -> V],
                      \A c \in 1 .. N : c > j => u[c] = v[c]
               PROVE  G[<<j, u>>] = G[<<j, v>>]
    BY DEF Forward
  <2> HIDE DEF V, N, G
  <2>1. InlineBody(d, mode, u, j) = InlineBody(d, mode, v, j)
    BY <1>1, InlineBodySame
  <2>2. QED
    BY <1>3, <2>1
<1> HIDE DEF G
<1>6. PICK f \in [1 .. N -> V] : \A j \in 1 .. N : f[j] = G[<<j, f>>]
  <2> DEFINE a == <<>>
  <2>1. a \in V /\ N \in Nat
    BY <1>1
  <2> HIDE DEF V, N, a
  <2>2. Settles(V, N, G)
    BY <1>4, <1>5, <2>1, Downward
  <2>3. QED
    BY <2>2 DEF Settles
<1>7. f = Body(f)
  <2>1. \A j \in 1 .. N : f[j] = InlineBody(d, mode, f, j)
    <3> HIDE DEF V, N
    <3> QED
      BY <1>3, <1>6
  <2>2. f = [j \in DOMAIN d |-> InlineBody(d, mode, f, j)]
    <3> HIDE DEF V
    <3> QED
      BY <1>1, <1>6, <2>1
  <2>3. QED
    BY <2>2 DEF InlineBody
<1>8. inline = Body(inline)
  BY <1>7
<1> HIDE DEF inline
<1>9. \A j \in DOMAIN d : inline[j] = InlineBody(d, mode, inline, j)
  <2>1. inline = [j \in DOMAIN d |-> InlineBody(d, mode, inline, j)]
    BY <1>8 DEF InlineBody
  <2>2. QED
    BY <2>1
<1> HIDE DEF Body
<1>10. \A j \in 1 .. N : inline[j] \in V
  <2> DEFINE P == {j \in 1 .. N : inline[j] \in V}
  <2>1. ASSUME NEW j \in 1 .. N, \A c \in 1 .. N : c > j => c \in P PROVE j \in P
    <3>1. \A c \in DOMAIN d : c > j => inline[c] \in V
      BY <1>1, <2>1
    <3>2. inline[j] \in V
      <4> HIDE DEF N
      <4> QED
        BY <1>1, <1>9, <3>1, InlineBodyIn
    <3>3. QED
      BY <3>2
  <2> HIDE DEF P, N
  <2>2. \A j \in 1 .. N : j \in P
    BY <1>1, <2>1, FromTheEnd
  <2>3. QED
    BY <2>2 DEF P
<1>11. \A j : Inline(d, j, mode) = inline[j]
  BY DEF Inline, inline, Body
<1>12. inline \in [1 .. N -> V]
  <2>1. inline = [j \in DOMAIN d |-> InlineBody(d, mode, inline, j)]
    BY <1>8 DEF InlineBody, Body
  <2> HIDE DEF V, N
  <2>2. inline = [j \in 1 .. N |-> inline[j]]
    BY <1>1, <1>9, <2>1
  <2>3. QED
    BY <1>10, <2>2
<1>13. InlineSolution(d, mode, A, inline)
  BY <1>1, <1>9, <1>11, <1>12 DEF InlineSolution
<1>14. QED
  BY <1>13

LEMMA InlineIn ==
  ASSUME NEW d, NEW A, Worded(d, A), NEW mode, NEW i \in DOMAIN d
  PROVE  Inline(d, i, mode) \in Seq(A)
<1>1. DOMAIN d = 1 .. Len(d)
  BY DEF Worded
<1>2. PICK inline : InlineSolution(d, mode, A, inline)
  BY InlineSteps
<1>3. QED
  BY <1>1, <1>2 DEF InlineSolution

-----------------------------------------------------------------------------
(* The rows of a table are sequences of cells. *)
LEMMA RowsIn ==
  ASSUME NEW d, NEW A, Worded(d, A), NEW t \in DOMAIN d
  PROVE  Rows(d, t) \in Seq(Seq(Seq(A)))
<1> DEFINE Cells(i) == {c \in Elements(d, i) : d[c].tag \in {"td", "th"}}
           Row(i) == Gather(Cells(i), LAMBDA c : <<TextOf(d, c)>>)
           filled == {i \in {i \in Within(d, t) \ {t} : d[i].tag = "tr"} : Cells(i) # {}}
           n == Cardinality(filled)
           s == [k \in 1 .. n |-> <<Row(Ordered(filled)[k])>>]
<1>1. Len(d) \in Nat /\ DOMAIN d = 1 .. Len(d)
  BY DEF Worded
<1>2. ASSUME NEW i \in DOMAIN d PROVE Row(i) \in Seq(Seq(A))
  <2> DEFINE B == Cells(i)
             m == Cardinality(B)
             r == [k \in 1 .. m |-> <<TextOf(d, Ordered(B)[k])>>]
  <2>1. B \in SUBSET (1 .. Len(d))
    BY <1>1 DEF Elements, Nodes
  <2>2. m \in Nat /\ \A k \in 1 .. m : Ordered(B)[k] \in B
    <3> HIDE DEF B
    <3> QED
      BY <1>1, <2>1, FewNodes
  <2>3. \A c \in B : TextOf(d, c) \in Seq(A)
    <3> HIDE DEF B
    <3> QED
      BY <1>1, <2>1, NodeTextIn
  <2>4. r \in Seq(Seq(Seq(A)))
    <3> HIDE DEF m, B
    <3>1. \A k \in 1 .. m : <<TextOf(d, Ordered(B)[k])>> \in Seq(Seq(A))
      BY <2>2, <2>3
    <3>2. QED
      BY <2>2, <3>1
  <2>5. Row(i) = FlattenSeq(r)
    BY DEF Gather
  <2> HIDE DEF r
  <2>6. QED
    BY <2>4, <2>5, FlattenIn
<1> HIDE DEF Row
<1>3. filled \in SUBSET (1 .. Len(d))
  BY <1>1 DEF Within
<1>4. n \in Nat /\ \A k \in 1 .. n : Ordered(filled)[k] \in filled
  <2> HIDE DEF filled
  <2> QED
    BY <1>1, <1>3, FewNodes
<1>5. s \in Seq(Seq(Seq(Seq(A))))
  <2> HIDE DEF n, filled
  <2>1. \A k \in 1 .. n : Ordered(filled)[k] \in DOMAIN d
    BY <1>1, <1>3, <1>4
  <2>2. \A k \in 1 .. n : Row(Ordered(filled)[k]) \in Seq(Seq(A))
    BY <1>2, <2>1
  <2>3. \A k \in 1 .. n : <<Row(Ordered(filled)[k])>> \in Seq(Seq(Seq(A)))
    BY <2>2
  <2>4. QED
    BY <1>4, <2>3
<1>6. Rows(d, t) = FlattenSeq(s)
  BY DEF Rows, Gather, Row
<1> HIDE DEF s
<1>7. QED
  BY <1>5, <1>6, FlattenIn

(* Table::to_markdown *)
LEMMA TableBlockIn ==
  ASSUME NEW A, Marks \subseteq A, NEW rows \in Seq(Seq(Seq(A))), rows # <<>>
  PROVE  TableBlock(rows) \in Seq(A)
<1> DEFINE Line(r) == [c \in DOMAIN rows[1] |->
                         <<"|">> \o IF c \in DOMAIN rows[r] THEN rows[r][c] ELSE <<>>]
           s == [r \in DOMAIN rows |-> FlattenSeq(Line(r))]
<1>1. ASSUME NEW r \in DOMAIN rows PROVE Line(r) \in Seq(Seq(A))
  <2>1. rows[1] \in Seq(Seq(A)) /\ rows[r] \in Seq(Seq(A))
    OBVIOUS
  <2>2. <<"|">> \in Seq(A) /\ <<>> \in Seq(A)
    BY DEF Marks
  <2>3. \A c \in DOMAIN rows[1] :
          (IF c \in DOMAIN rows[r] THEN rows[r][c] ELSE <<>>) \in Seq(A)
    BY <2>1, <2>2
  <2>4. \A c \in DOMAIN rows[1] : Line(r)[c] \in Seq(A)
    BY <2>2, <2>3
  <2> DEFINE n == Len(rows[1])
  <2>5. DOMAIN rows[1] = 1 .. n /\ n \in Nat
    BY <2>1
  <2>6. Line(r) = [c \in DOMAIN rows[1] |-> Line(r)[c]]
    OBVIOUS
  <2> DEFINE f == Line(r)
  <2>7. f = [c \in 1 .. n |-> f[c]] /\ \A c \in 1 .. n : f[c] \in Seq(A)
    BY <2>4, <2>5, <2>6
  <2> HIDE DEF f, n
  <2>8. f \in [1 .. n -> Seq(A)]
    BY <2>7
  <2>9. f \in Seq(Seq(A))
    BY <2>5, <2>8
  <2>10. QED
    BY <2>9 DEF f
<1> HIDE DEF Line
<1>2. \A r \in DOMAIN rows : FlattenSeq(Line(r)) \in Seq(A)
  BY <1>1, FlattenIn
<1>3. s \in Seq(Seq(A))
  <2> DEFINE n == Len(rows)
  <2>1. DOMAIN rows = 1 .. n /\ n \in Nat
    OBVIOUS
  <2> HIDE DEF n
  <2>2. QED
    BY <1>2, <2>1
<1>4. TableBlock(rows) = FlattenSeq(s)
  BY DEF TableBlock, Line
<1> HIDE DEF s
<1>5. QED
  BY <1>3, <1>4, FlattenIn

LEMMA ParagraphIn ==
  ASSUME NEW A, NEW text \in Seq(A)
  PROVE  Paragraph(text) \in Seq(Seq(A))
  BY DEF Paragraph

LEMMA ListIn ==
  ASSUME NEW d, NEW A, Worded(d, A), NEW i \in DOMAIN d, NEW mode, NEW u,
         \A c \in DOMAIN d : c >= i => u[c] \in Seq(Seq(A))
  PROVE  List(d, i, mode, u) \in Seq(Seq(A))
<1> DEFINE marker == IF d[i].tag = "ol" THEN "1." ELSE "-"
           Item(c) == LET content == FlattenSeq(u[c])
                      IN  IF content = <<>> THEN <<>> ELSE <<marker>> \o content
           B == {c \in Elements(d, i) : d[c].tag = "li"}
           n == Cardinality(B)
           s == [k \in 1 .. n |-> Item(Ordered(B)[k])]
<1>1. B \in SUBSET (1 .. Len(d)) /\ \A c \in B : c \in DOMAIN d /\ c >= i
  BY DEF Elements, Nodes, Worded
<1>2. n \in Nat /\ \A k \in 1 .. n : Ordered(B)[k] \in B
  <2> HIDE DEF B
  <2> QED
    BY <1>1, FewNodes DEF Worded
<1>3. marker \in A
  BY DEF Worded, Marks
<1>4. ASSUME NEW c \in B PROVE Item(c) \in Seq(A)
  <2> HIDE DEF B, marker
  <2>1. FlattenSeq(u[c]) \in Seq(A)
    BY <1>1, FlattenIn
  <2>2. QED
    BY <1>3, <2>1
<1>5. s \in Seq(Seq(A))
  <2> HIDE DEF n, B, Item
  <2> QED
    BY <1>2, <1>4
<1>6. List(d, i, mode, u) = Paragraph(FlattenSeq(s))
  BY DEF List, Gather
<1> HIDE DEF s
<1>7. QED
  BY <1>5, <1>6, FlattenIn, ParagraphIn

LEMMA ListSame ==
  ASSUME NEW d, NEW A, Worded(d, A), NEW i \in DOMAIN d, NEW mode, NEW u, NEW v,
         \A c \in DOMAIN d : c >= i => u[c] = v[c]
  PROVE  List(d, i, mode, u) = List(d, i, mode, v)
<1> DEFINE marker == IF d[i].tag = "ol" THEN "1." ELSE "-"
           Item(w, c) == LET content == FlattenSeq(w[c])
                         IN  IF content = <<>> THEN <<>> ELSE <<marker>> \o content
           B == {c \in Elements(d, i) : d[c].tag = "li"}
           n == Cardinality(B)
           S(w) == [k \in 1 .. n |-> Item(w, Ordered(B)[k])]
<1>1. B \in SUBSET (1 .. Len(d)) /\ \A c \in B : u[c] = v[c]
  BY DEF Elements, Nodes, Worded
<1>2. \A k \in 1 .. n : Ordered(B)[k] \in B
  <2> HIDE DEF B
  <2> QED
    BY <1>1, FewNodes DEF Worded
<1>3. \A c \in B : Item(u, c) = Item(v, c)
  <2> HIDE DEF B, marker
  <2> QED
    BY <1>1
<1>4. S(u) = S(v)
  <2> HIDE DEF n, B, Item
  <2> QED
    BY <1>2, <1>3
<1>5. \A w : List(d, i, mode, w) = Paragraph(FlattenSeq(S(w)))
  BY DEF List, Gather
<1> HIDE DEF S
<1>6. QED
  BY <1>4, <1>5

LEMMA DefinitionsIn ==
  ASSUME NEW d, NEW A, Worded(d, A), NEW i \in DOMAIN d, NEW mode
  PROVE  Definitions(d, i, mode) \in Seq(Seq(A))
<1> DEFINE Item(c) == CASE d[c].tag = "dt" -> Paragraph(Inline(d, c, mode))
                        [] d[c].tag = "dd" -> <<<<":">> \o Inline(d, c, mode)>>
                        [] OTHER -> <<>>
           B == Elements(d, i)
           n == Cardinality(B)
           s == [k \in 1 .. n |-> Item(Ordered(B)[k])]
<1>1. B \in SUBSET (1 .. Len(d)) /\ \A c \in B : c \in DOMAIN d
  BY DEF Elements, Nodes, Worded
<1>2. n \in Nat /\ \A k \in 1 .. n : Ordered(B)[k] \in B
  <2> HIDE DEF B
  <2> QED
    BY <1>1, FewNodes DEF Worded
<1>3. ASSUME NEW c \in B PROVE Item(c) \in Seq(Seq(A))
  <2> HIDE DEF B
  <2>1. Inline(d, c, mode) \in Seq(A) /\ ":" \in A
    BY <1>1, InlineIn DEF Worded, Marks
  <2>2. Paragraph(Inline(d, c, mode)) \in Seq(Seq(A))
    BY <2>1, ParagraphIn
  <2>3. <<":">> \o Inline(d, c, mode) \in Seq(A)
    BY <2>1
  <2>4. <<<<":">> \o Inline(d, c, mode)>> \in Seq(Seq(A)) /\ <<>> \in Seq(Seq(A))
    BY <2>3
  <2>5. QED
    BY <2>2, <2>4
<1>4. s \in Seq(Seq(Seq(A)))
  <2> HIDE DEF n, B, Item
  <2> QED
    BY <1>2, <1>3
<1>5. Definitions(d, i, mode) = FlattenSeq(s)
  BY DEF Definitions, Gather
<1> HIDE DEF s
<1>6. QED
  BY <1>4, <1>5, FlattenIn

(* render_element gives paragraphs if what is in the element does. *)
LEMMA BlockIn ==
  ASSUME NEW d, NEW A, Worded(d, A), NEW i \in DOMAIN d, NEW mode, NEW u,
         \A c \in DOMAIN d : c >= i => u[c] \in Seq(Seq(A))
  PROVE  Block(d, i, mode, u) \in Seq(Seq(A))
<1>1. /\ d[i].text \in Seq(A) /\ TextOf(d, i) \in Seq(A) /\ Inline(d, i, mode) \in Seq(A)
      /\ u[i] \in Seq(Seq(A)) /\ Marks \subseteq A
  <2>1. TextOf(d, i) \in Seq(A)
    BY NodeTextIn
  <2>2. Inline(d, i, mode) \in Seq(A)
    BY InlineIn
  <2>3. i >= i /\ d[i].text \in Seq(A) /\ Marks \subseteq A
    BY DEF Worded
  <2>4. QED
    BY <2>1, <2>2, <2>3
<1>2. Paragraph(d[i].text) \in Seq(Seq(A)) /\ Paragraph(Inline(d, i, mode)) \in Seq(Seq(A))
  BY <1>1, ParagraphIn
<1>3. Heading(d, i, mode) \in Seq(Seq(A))
  <2>1. (IF mode = "markdown" /\ Inline(d, i, mode) # <<>> THEN <<"#">> ELSE <<>>) \in Seq(A)
    BY <1>1 DEF Marks
  <2>2. (IF mode = "markdown" /\ Inline(d, i, mode) # <<>> THEN <<"#">> ELSE <<>>)
        \o Inline(d, i, mode) \in Seq(A)
    BY <1>1, <2>1
  <2>3. QED
    BY <2>2, ParagraphIn DEF Heading
<1>4. List(d, i, mode, u) \in Seq(Seq(A)) /\ Definitions(d, i, mode) \in Seq(Seq(A))
  BY ListIn, DefinitionsIn
<1>5. Paragraph(Marked(mode, TextOf(d, i), "fence")) \in Seq(Seq(A))
  <2>1. Marked(mode, TextOf(d, i), "fence") \in Seq(A)
    BY <1>1 DEF Marked, Marks
  <2>2. QED
    BY <2>1, ParagraphIn
<1>6. Quote(u[i]) \in Seq(Seq(A))
  <2>1. FlattenSeq(u[i]) \in Seq(A)
    BY <1>1, FlattenIn
  <2>2. <<">">> \o FlattenSeq(u[i]) \in Seq(A)
    BY <1>1, <2>1 DEF Marks
  <2>3. QED
    BY <2>2 DEF Quote
<1>7. (IF Rows(d, i) = <<>> THEN <<>> ELSE <<TableBlock(Rows(d, i))>>) \in Seq(Seq(A))
  <2>1. Rows(d, i) \in Seq(Seq(Seq(A)))
    BY RowsIn
  <2>2. Rows(d, i) # <<>> => TableBlock(Rows(d, i)) \in Seq(A)
    BY <1>1, <2>1, TableBlockIn
  <2>3. QED
    BY <2>2
<1>8. (IF mode = "markdown" THEN <<<<"---">>>> ELSE <<>>) \in Seq(Seq(A))
  BY <1>1 DEF Marks
<1>9. Paragraph(InlineNode(d, i, mode, Inline(d, i, mode))) \in Seq(Seq(A))
  BY <1>1, InlineNodeIn, ParagraphIn
<1>10. <<>> \in Seq(Seq(A))
  OBVIOUS
<1>11. QED
  BY <1>1, <1>2, <1>3, <1>4, <1>5, <1>6, <1>7, <1>8, <1>9, <1>10 DEF Block

LEMMA BlockSame ==
  ASSUME NEW d, NEW A, Worded(d, A), NEW i \in DOMAIN d, NEW mode, NEW u, NEW v,
         \A c \in DOMAIN d : c >= i => u[c] = v[c]
  PROVE  Block(d, i, mode, u) = Block(d, i, mode, v)
<1>1. List(d, i, mode, u) = List(d, i, mode, v)
  BY ListSame
<1>2. i >= i
  BY DEF Worded
<1>3. u[i] = v[i]
  BY <1>2
<1>4. QED
  BY <1>1, <1>3 DEF Block

BlocksBody(d, mode, u, j) ==
  Paragraph(d[j].text) \o Gather(Nodes(d, j), LAMBDA c : Block(d, c, mode, u))

LEMMA BlocksBodyIn ==
  ASSUME NEW d, NEW A, Worded(d, A), NEW mode, NEW j \in DOMAIN d, NEW u,
         \A c \in DOMAIN d : c > j => u[c] \in Seq(Seq(A))
  PROVE  BlocksBody(d, mode, u, j) \in Seq(Seq(A))
<1> DEFINE B == Nodes(d, j)
           n == Cardinality(B)
           s == [k \in 1 .. n |-> Block(d, Ordered(B)[k], mode, u)]
<1>1. B \in SUBSET (1 .. Len(d)) /\ \A c \in B : c \in DOMAIN d /\ c > j
  BY DEF Nodes, Worded
<1>2. n \in Nat /\ \A k \in 1 .. n : Ordered(B)[k] \in B
  <2> HIDE DEF B
  <2> QED
    BY <1>1, FewNodes DEF Worded
<1>3. ASSUME NEW c \in B PROVE Block(d, c, mode, u) \in Seq(Seq(A))
  <2> HIDE DEF B
  <2>1. \A e \in DOMAIN d : e >= c => u[e] \in Seq(Seq(A))
    BY <1>1 DEF Worded
  <2>2. QED
    BY <1>1, <2>1, BlockIn
<1>4. s \in Seq(Seq(Seq(A)))
  <2> HIDE DEF n, B
  <2> QED
    BY <1>2, <1>3
<1>5. BlocksBody(d, mode, u, j) = Paragraph(d[j].text) \o FlattenSeq(s)
  BY DEF BlocksBody, Gather
<1> HIDE DEF s
<1>6. FlattenSeq(s) \in Seq(Seq(A)) /\ Paragraph(d[j].text) \in Seq(Seq(A))
  BY <1>4, FlattenIn, ParagraphIn DEF Worded
<1>7. QED
  BY <1>5, <1>6

LEMMA BlocksBodySame ==
  ASSUME NEW d, NEW A, Worded(d, A), NEW mode, NEW j \in DOMAIN d, NEW u, NEW v,
         \A c \in DOMAIN d : c > j => u[c] = v[c]
  PROVE  BlocksBody(d, mode, u, j) = BlocksBody(d, mode, v, j)
<1> DEFINE B == Nodes(d, j)
           n == Cardinality(B)
           S(w) == [k \in 1 .. n |-> Block(d, Ordered(B)[k], mode, w)]
<1>1. B \in SUBSET (1 .. Len(d)) /\ \A c \in B : c \in DOMAIN d /\ c > j
  BY DEF Nodes, Worded
<1>2. \A k \in 1 .. n : Ordered(B)[k] \in B
  <2> HIDE DEF B
  <2> QED
    BY <1>1, FewNodes DEF Worded
<1>3. ASSUME NEW c \in B PROVE Block(d, c, mode, u) = Block(d, c, mode, v)
  <2> HIDE DEF B
  <2>1. \A e \in DOMAIN d : e >= c => u[e] = v[e]
    BY <1>1 DEF Worded
  <2>2. QED
    BY <1>1, <2>1, BlockSame
<1>4. S(u) = S(v)
  <2> HIDE DEF n, B
  <2> QED
    BY <1>2, <1>3
<1>5. \A w : BlocksBody(d, mode, w, j) = Paragraph(d[j].text) \o FlattenSeq(S(w))
  BY DEF BlocksBody, Gather
<1> HIDE DEF S
<1>6. QED
  BY <1>4, <1>5

(* What render_children says of the content of every node. *)
BlocksSolution(d, mode, A, u) ==
  /\ u \in [1 .. Len(d) -> Seq(Seq(A))]
  /\ \A j \in 1 .. Len(d) : u[j] = BlocksBody(d, mode, u, j) /\ BlocksOf(d, j, mode) = u[j]

(* render_children: there are paragraphs for every node that go with those *)
(* of the nodes in it.                                                     *)
LEMMA BlocksSteps ==
  ASSUME NEW d, NEW A, Worded(d, A), NEW mode
  PROVE  \E blocks : BlocksSolution(d, mode, A, blocks)
<1> DEFINE N == Len(d)
           V == Seq(Seq(A))
           G == [x \in (1 .. N) \X [1 .. N -> V] |-> BlocksBody(d, mode, x[2], x[1])]
           Body(u) == [j \in DOMAIN d |->
             Paragraph(d[j].text) \o Gather(Nodes(d, j), LAMBDA c : Block(d, c, mode, u))]
           blocks == CHOOSE u : u = Body(u)
<1>1. N \in Nat /\ DOMAIN d = 1 .. N /\ <<>> \in V
  BY DEF Worded
<1>2. \A x \in (1 .. N) \X [1 .. N -> V] : x[1] \in DOMAIN d /\ x[2] \in [1 .. N -> V]
  BY <1>1
<1>3. ASSUME NEW j \in 1 .. N, NEW u \in [1 .. N -> V]
      PROVE  G[<<j, u>>] = BlocksBody(d, mode, u, j) /\ G[<<j, u>>] \in V
  <2>1. G[<<j, u>>] = BlocksBody(d, mode, u, j)
    OBVIOUS
  <2>2. BlocksBody(d, mode, u, j) \in V
    <3> HIDE DEF V, N
    <3>1. \A c \in DOMAIN d : u[c] \in V
      BY <1>1
    <3>2. QED
      BY <1>1, <3>1, BlocksBodyIn DEF V
  <2>3. QED
    BY <2>1, <2>2
<1>4. G \in [(1 .. N) \X [1 .. N -> V] -> V]
  <2>1. ASSUME NEW x \in (1 .. N) \X [1 .. N -> V]
        PROVE  BlocksBody(d, mode, x[2], x[1]) \in V
    <3>1. G[<<x[1], x[2]>>] = BlocksBody(d, mode, x[2], x[1]) /\ G[<<x[1], x[2]>>] \in V
      <4> HIDE DEF G
      <4> QED
        BY <1>3
    <3>2. QED
      BY <3>1
  <2> HIDE DEF V
  <2>2. QED
    BY <2>1
<1>5. Forward(V, N, G)
  <2> SUFFICES ASSUME NEW j \in 1 .. N, NEW u \in [1 .. N -> V], NEW v \in [1 .. N -> V],
                      \A c \in 1 .. N : c > j => u[c] = v[c]
               PROVE  G[<<j, u>>] = G[<<j, v>>]
    BY DEF Forward
  <2> HIDE DEF V, N, G
  <2>1. BlocksBody(d, mode, u, j) = BlocksBody(d, mode, v, j)
    BY <1>1, BlocksBodySame
  <2>2. QED
    BY <1>3, <2>1
<1> HIDE DEF G
<1>6. PICK f \in [1 .. N -> V] : \A j \in 1 .. N : f[j] = G[<<j, f>>]
  <2> DEFINE a == <<>>
  <2>1. a \in V /\ N \in Nat
    BY <1>1
  <2> HIDE DEF V, N, a
  <2>2. Settles(V, N, G)
    BY <1>4, <1>5, <2>1, Downward
  <2>3. QED
    BY <2>2 DEF Settles
<1>7. f = Body(f)
  <2>1. \A j \in 1 .. N : f[j] = BlocksBody(d, mode, f, j)
    <3> HIDE DEF V, N
    <3> QED
      BY <1>3, <1>6
  <2>2. f = [j \in DOMAIN d |-> BlocksBody(d, mode, f, j)]
    <3> HIDE DEF V
    <3> QED
      BY <1>1, <1>6, <2>1
  <2>3. QED
    BY <2>2 DEF BlocksBody
<1>8. blocks = Body(blocks)
  BY <1>7
<1> HIDE DEF blocks
<1>9. \A j \in DOMAIN d : blocks[j] = BlocksBody(d, mode, blocks, j)
  <2>1. blocks = [j \in DOMAIN d |-> BlocksBody(d, mode, blocks, j)]
    BY <1>8 DEF BlocksBody
  <2>2. QED
    BY <2>1
<1> HIDE DEF Body
<1>10. \A j \in 1 .. N : blocks[j] \in V
  <2> DEFINE P == {j \in 1 .. N : blocks[j] \in V}
  <2>1. ASSUME NEW j \in 1 .. N, \A c \in 1 .. N : c > j => c \in P PROVE j \in P
    <3>1. \A c \in DOMAIN d : c > j => blocks[c] \in V
      BY <1>1, <2>1
    <3>2. blocks[j] \in V
      <4> HIDE DEF N
      <4> QED
        BY <1>1, <1>9, <3>1, BlocksBodyIn
    <3>3. QED
      BY <3>2
  <2> HIDE DEF P, N
  <2>2. \A j \in 1 .. N : j \in P
    BY <1>1, <2>1, FromTheEnd
  <2>3. QED
    BY <2>2 DEF P
<1>11. \A j : BlocksOf(d, j, mode) = blocks[j]
  BY DEF BlocksOf, blocks, Body
<1>12. blocks \in [1 .. N -> V]
  <2>1. blocks = [j \in DOMAIN d |-> BlocksBody(d, mode, blocks, j)]
    BY <1>8 DEF BlocksBody, Body
  <2> HIDE DEF V, N
  <2>2. blocks = [j \in 1 .. N |-> blocks[j]]
    BY <1>1, <1>9, <2>1
  <2>3. QED
    BY <1>10, <2>2
<1>13. BlocksSolution(d, mode, A, blocks)
  BY <1>1, <1>9, <1>11, <1>12 DEF BlocksSolution
<1>14. QED
  BY <1>13

LEMMA BlocksIn ==
  ASSUME NEW d, NEW A, Worded(d, A), NEW mode, NEW i \in DOMAIN d
  PROVE  BlocksOf(d, i, mode) \in Seq(Seq(A))
<1>1. DOMAIN d = 1 .. Len(d)
  BY DEF Worded
<1>2. PICK blocks : BlocksSolution(d, mode, A, blocks)
  BY BlocksSteps
<1>3. QED
  BY <1>1, <1>2 DEF BlocksSolution

Atoms(d) == Marks \cup UNION {Range(d[i].text) : i \in DOMAIN d}

LEMMA DocumentIsWorded ==
  ASSUME NEW d, IsDocument(d)
  PROVE  Worded(d, Atoms(d))
<1>1. Len(d) \in Nat /\ DOMAIN d = 1 .. Len(d)
  BY DocumentShape
<1>2. ASSUME NEW i \in DOMAIN d PROVE d[i].text \in Seq(Atoms(d))
  <2>1. d[i].text \in Seq(Range(d[i].text))
    BY DEF IsDocument
  <2>2. Range(d[i].text) \subseteq Atoms(d)
    BY DEF Atoms
  <2>3. QED
    BY <2>1, <2>2
<1>3. QED
  BY <1>1, <1>2 DEF Worded, Atoms

(* What extract_main_content hands on is a page like the one it is from. *)
LEMMA TakenIsWorded ==
  ASSUME NEW d, IsDocument(d), NEW main
  PROVE  Worded(Taken(d, main), Atoms(d)) /\ Len(Taken(d, main)) > 0
<1>1. /\ Worded(d, Atoms(d)) /\ Len(d) \in Nat \ {0} /\ DOMAIN d = 1 .. Len(d)
      /\ \A i \in DOMAIN d : d[i] = [tag |-> d[i].tag, up |-> d[i].up, text |-> d[i].text,
                                     attrs |-> d[i].attrs]
  BY DocumentIsWorded, DocumentShape
<1>2. CASE main.source = "full"
  BY <1>1, <1>2 DEF Taken
<1>3. CASE main.source # "full"
  <2> DEFINE B == Within(d, main.root) \cap Live(d)
             n == Cardinality(B)
             p == Pruned(d, B)
             Moved(a) == [p[a] EXCEPT !.up = @ + 2]
             q == [k \in DOMAIN p |-> Moved(k)]
             top == <<[tag |-> "html", up |-> 0, text |-> <<>>, attrs |-> <<>>],
                      [tag |-> "body", up |-> 1, text |-> <<>>, attrs |-> <<>>]>>
             w == top \o q
  <2>1. B \in SUBSET (1 .. Len(d))
    BY <1>1 DEF Live
  <2>2. n \in Nat /\ \A k \in 1 .. n : Ordered(B)[k] \in B
    <3> HIDE DEF B
    <3> QED
      BY <1>1, <2>1, FewNodes
  <2>3. DOMAIN p = 1 .. n
    BY DEF Pruned, Ordered
  <2>4. ASSUME NEW k \in 1 .. n PROVE q[k].text \in Seq(Atoms(d))
    <3> DEFINE i == Ordered(B)[k]
    <3>1. i \in DOMAIN d
      <4> HIDE DEF B, n
      <4> QED
        BY <1>1, <2>1, <2>2
    <3>2. p[k] = [d[i] EXCEPT !.up = Rank(B, @)]
      BY <2>3 DEF Pruned
    <3>3. q[k] = [p[k] EXCEPT !.up = @ + 2]
      BY <2>3
    <3> HIDE DEF p, q, i
    <3>4. d[i] = [tag |-> d[i].tag, up |-> d[i].up, text |-> d[i].text, attrs |-> d[i].attrs]
          /\ d[i].text \in Seq(Atoms(d))
      BY <1>1, <3>1 DEF Worded
    <3>5. p[k].text = d[i].text
          /\ p[k] = [tag |-> p[k].tag, up |-> p[k].up, text |-> p[k].text, attrs |-> p[k].attrs]
      BY <3>2, <3>4
    <3>6. q[k].text = p[k].text
      BY <3>3, <3>5
    <3>7. QED
      BY <3>4, <3>5, <3>6
  <2>5. q = [k \in 1 .. n |-> q[k]]
    BY <2>3
  <2> HIDE DEF B, n, p, q
  <2>6. /\ Len(w) = n + 2
        /\ DOMAIN w = 1 .. n + 2
        /\ w[1] = top[1] /\ w[2] = top[2]
        /\ \A k \in 3 .. n + 2 : w[k] = q[k - 2]
    <3> DEFINE S == {top[1], top[2]} \cup {q[k] : k \in 1 .. n}
    <3>1. top \in Seq(S) /\ q \in Seq(S) /\ Len(top) = 2 /\ Len(q) = n
      <4>1. \A k \in 1 .. n : q[k] \in S
        OBVIOUS
      <4>2. top[1] \in S /\ top[2] \in S
        OBVIOUS
      <4> HIDE DEF S
      <4>3. q \in [1 .. n -> S]
        BY <2>5, <4>1
      <4>4. q \in Seq(S) /\ Len(q) = n
        BY <2>2, <4>3
      <4>5. top \in Seq(S) /\ Len(top) = 2
        BY <4>2
      <4>6. QED
        BY <4>4, <4>5
    <3> HIDE DEF S, top
    <3>2. top \in Seq(S) /\ q \in Seq(S)
      BY <3>1
    <3> HIDE DEF w
    <3>3. /\ w \in Seq(S)
          /\ Len(w) = Len(top) + Len(q)
          /\ \A k \in 1 .. Len(top) : w[k] = top[k]
          /\ \A k \in 1 .. Len(q) : w[Len(top) + k] = q[k]
      <4>1. /\ top \o q \in Seq(S)
            /\ Len(top \o q) = Len(top) + Len(q)
            /\ \A k \in 1 .. Len(top) : (top \o q)[k] = top[k]
            /\ \A k \in 1 .. Len(q) : (top \o q)[Len(top) + k] = q[k]
        BY <3>2
      <4>2. w = top \o q
        BY DEF w
      <4>3. QED
        BY <4>1, <4>2
    <3>4. Len(w) = n + 2 /\ DOMAIN w = 1 .. n + 2
      BY <2>2, <3>1, <3>3
    <3>5. w[1] = top[1] /\ w[2] = top[2]
      BY <3>1, <3>3
    <3>6. ASSUME NEW k \in 3 .. n + 2 PROVE w[k] = q[k - 2]
      <4>1. k - 2 \in 1 .. n /\ 2 + (k - 2) = k
        BY <2>2
      <4>2. QED
        BY <3>1, <3>3, <4>1
    <3>7. QED
      BY <3>4, <3>5, <3>6
  <2> HIDE DEF w
  <2>7. ASSUME NEW k \in 1 .. n + 2 PROVE w[k].text \in Seq(Atoms(d))
    <3>1. CASE k \in {1, 2}
      <4>1. top[1].text = <<>> /\ top[2].text = <<>>
        OBVIOUS
      <4> HIDE DEF top
      <4>2. w[k].text = <<>>
        BY <2>6, <3>1, <4>1
      <4>3. QED
        BY <4>2
    <3>2. CASE k \notin {1, 2}
      <4>1. k \in 3 .. n + 2 /\ k - 2 \in 1 .. n
        BY <2>2, <3>2
      <4>2. QED
        BY <2>4, <2>6, <4>1
    <3>3. QED
      BY <3>1, <3>2
  <2>8. Taken(d, main) = w
    BY <1>3 DEF Taken, Wrapped, w, q, p, B
  <2>9. QED
    BY <1>1, <2>2, <2>6, <2>7, <2>8 DEF Worded
<1>4. QED
  BY <1>2, <1>3

(* render_html of what is taken of a page comes to so many paragraphs. *)
LEMMA BlocksAreCounted ==
  ASSUME NEW d, IsDocument(d), NEW main, NEW mode
  PROVE  Len(RenderHtml(Taken(d, main), mode)) \in Nat
<1>1. Worded(Taken(d, main), Atoms(d)) /\ 1 \in DOMAIN Taken(d, main)
  BY TakenIsWorded DEF Worded
<1>2. RenderHtml(Taken(d, main), mode) \in Seq(Seq(Atoms(d)))
  BY <1>1, BlocksIn DEF RenderHtml
<1>3. QED
  BY <1>2

-----------------------------------------------------------------------------
(* What is extracted is a sequence of records.                             *)

Listed(s) == Len(s) \in Nat /\ DOMAIN s = 1 .. Len(s)

LEMMA SinglesAreListed ==
  ASSUME NEW n \in Nat, NEW g
  PROVE  LET s == FlattenSeq([k \in 1 .. n |-> <<g[k]>>])
         IN  Listed(s) /\ Len(s) = n /\ \A k \in 1 .. n : s[k] = g[k]
<1> DEFINE S == {g[k] : k \in 1 .. n}
           s == FlattenSeq([k \in 1 .. n |-> <<g[k]>>])
<1>1. s = [k \in 1 .. n |-> g[k]]
  BY FlattenSingles
<1>2. \A k \in 1 .. n : g[k] \in S
  OBVIOUS
<1> HIDE DEF S, s
<1>3. s \in [1 .. n -> S]
  BY <1>1, <1>2
<1>4. s \in Seq(S) /\ Len(s) = n
  BY <1>3
<1>5. \A k \in 1 .. n : s[k] = g[k]
  BY <1>1
<1>6. Listed(s) /\ Len(s) = n /\ \A k \in 1 .. n : s[k] = g[k]
  BY <1>4, <1>5 DEF Listed
<1>7. QED
  BY <1>6 DEF s

LEMMA SelectedAreNodes ==
  ASSUME NEW d, NEW selector, selector \in Seq(Range(selector)), Valid(selector)
  PROVE  Selected(d, selector) \subseteq DOMAIN d
<1>1. Len(selector) \in Nat \ {0}
  BY DEF Valid
<1>2. PICK m : /\ \A n \in 1 .. Len(selector) :
                    m[n] = {i \in DOMAIN d : /\ FitsPart(d, i, selector[n])
                                             /\ n = 1 \/ d[i].up \in m[n - 1]}
               /\ Selected(d, selector) = {i \in m[Len(selector)] : IsElement(d, i)}
  BY <1>1, SelectedSteps
<1> DEFINE n == Len(selector)
<1>3. n \in 1 .. n
  BY <1>1
<1>4. m[n] \subseteq DOMAIN d
  <2> HIDE DEF n
  <2>1. m[n] = {i \in DOMAIN d : /\ FitsPart(d, i, selector[n])
                                 /\ n = 1 \/ d[i].up \in m[n - 1]}
    BY <1>2, <1>3 DEF n
  <2>2. QED
    BY <2>1
<1>5. QED
  BY <1>2, <1>4

(* select_texts *)
LEMMA TextsAreListed ==
  ASSUME NEW d, IsDocument(d), NEW selector, selector \in Seq(Range(selector)), Valid(selector)
  PROVE  Listed(SelectTexts(d, selector))
<1> DEFINE B == Selected(d, selector)
           n == Cardinality(B)
           g == [k \in 1 .. n |-> TextOf(d, Ordered(B)[k])]
<1>1. Len(d) \in Nat /\ B \in SUBSET (1 .. Len(d))
  BY DocumentShape, SelectedAreNodes
<1>2. n \in Nat
  <2> HIDE DEF B
  <2> QED
    BY <1>1, FewNodes
<1>3. SelectTexts(d, selector) = FlattenSeq([k \in 1 .. n |-> <<g[k]>>])
  BY DEF SelectTexts, Gather
<1> HIDE DEF n, g
<1>4. QED
  BY <1>2, <1>3, SinglesAreListed

(* rows *)
LEMMA RowsAreListed ==
  ASSUME NEW d, IsDocument(d), NEW container, container \in Seq(Range(container)),
         Valid(container), NEW fields
  PROVE  Listed(RowsOf(d, container, fields))
<1> DEFINE B == Selected(d, container)
           n == Cardinality(B)
           g == [k \in 1 .. n |->
                   [f \in DOMAIN fields |-> FieldOf(d, Ordered(B)[k], fields[f])]]
<1>1. Len(d) \in Nat /\ B \in SUBSET (1 .. Len(d))
  BY DocumentShape, SelectedAreNodes
<1>2. n \in Nat
  <2> HIDE DEF B
  <2> QED
    BY <1>1, FewNodes
<1>3. RowsOf(d, container, fields) = FlattenSeq([k \in 1 .. n |-> <<g[k]>>])
  BY DEF RowsOf, Gather
<1> HIDE DEF n, g
<1>4. QED
  BY <1>2, <1>3, SinglesAreListed

(* tables: there are so many, and so many rows in each. *)
LEMMA TablesAreListed ==
  ASSUME NEW d, IsDocument(d)
  PROVE  /\ Listed(TablesOf(d))
         /\ \A t \in DOMAIN TablesOf(d) : Listed(TablesOf(d)[t].rows)
<1> DEFINE B == {i \in DOMAIN d : d[i].tag = "table" /\ Rows(d, i) # <<>>}
           n == Cardinality(B)
           Of(i) == [headers |-> Rows(d, i)[1], rows |-> Tail(Rows(d, i))]
           g == [k \in 1 .. n |-> Of(Ordered(B)[k])]
<1>1. Len(d) \in Nat /\ DOMAIN d = 1 .. Len(d) /\ Worded(d, Atoms(d))
  BY DocumentShape, DocumentIsWorded
<1>2. B \in SUBSET (1 .. Len(d)) /\ \A i \in B : i \in DOMAIN d /\ Rows(d, i) # <<>>
  BY <1>1
<1>3. n \in Nat /\ \A k \in 1 .. n : Ordered(B)[k] \in B
  <2> HIDE DEF B
  <2> QED
    BY <1>1, <1>2, FewNodes
<1>4. ASSUME NEW i \in B PROVE Listed(Of(i).rows)
  <2>1. Rows(d, i) \in Seq(Seq(Seq(Atoms(d)))) /\ Rows(d, i) # <<>>
    <3> HIDE DEF B
    <3> QED
      BY <1>1, <1>2, RowsIn
  <2>2. Tail(Rows(d, i)) \in Seq(Seq(Seq(Atoms(d))))
    BY <2>1
  <2>3. Of(i).rows = Tail(Rows(d, i))
    OBVIOUS
  <2>4. QED
    BY <2>2, <2>3 DEF Listed
<1>5. TablesOf(d) = FlattenSeq([k \in 1 .. n |-> <<g[k]>>])
  BY DEF TablesOf, Gather
<1>6. \A k \in 1 .. n : g[k] = Of(Ordered(B)[k])
  OBVIOUS
<1> HIDE DEF n, g, B, Of
<1>7. /\ Listed(TablesOf(d)) /\ Len(TablesOf(d)) = n
      /\ \A k \in 1 .. n : TablesOf(d)[k] = g[k]
  <2> DEFINE s == FlattenSeq([k \in 1 .. n |-> <<g[k]>>])
  <2>1. Listed(s) /\ Len(s) = n /\ \A k \in 1 .. n : s[k] = g[k]
    BY <1>3, SinglesAreListed
  <2>2. TablesOf(d) = s
    BY <1>5
  <2> HIDE DEF s
  <2>3. QED
    BY <2>1, <2>2
<1>8. \A k \in 1 .. n : Listed(g[k].rows)
  BY <1>3, <1>4, <1>6
<1>9. QED
  BY <1>7, <1>8 DEF Listed

(* locate *)
LEMMA HitsAreListed ==
  ASSUME NEW d, IsDocument(d), NEW needle
  PROVE  Listed(Locate(d, needle))
<1> DEFINE B == {i \in DOMAIN d : IsElement(d, i) /\ (AttrHit(d, i, needle) \/ TextHit(d, i, needle))}
           n == Cardinality(B)
           g == [k \in 1 .. n |->
                   [node |-> Ordered(B)[k], selector |-> PathTo(d, Ordered(B)[k]),
                    kind |-> IF AttrHit(d, Ordered(B)[k], needle) THEN "attr" ELSE "text"]]
<1>1. Len(d) \in Nat /\ B \in SUBSET (1 .. Len(d))
  BY DocumentShape
<1>2. n \in Nat
  <2> HIDE DEF B
  <2> QED
    BY <1>1, FewNodes
<1>3. Locate(d, needle) = FlattenSeq([k \in 1 .. n |-> <<g[k]>>])
  BY DEF Locate, Gather
<1> HIDE DEF n, g
<1>4. QED
  BY <1>2, <1>3, SinglesAreListed

(* outline *)
LEMMA OutlineIsCounted ==
  ASSUME NEW d, IsDocument(d)
  PROVE  OutlineSize(d) \in Nat
<1> DEFINE D == {i \in DOMAIN d : IsElement(d, i) /\ d[i].tag \notin SkippedElements}
           E == {Noted(d, i) : i \in D}
           c == Cardinality(UNION E)
<1>1. IsFiniteSet(D)
  <2>1. Len(d) \in Nat /\ DOMAIN d = 1 .. Len(d)
    BY DocumentShape
  <2>2. D \in SUBSET (1 .. Len(d)) /\ IsFiniteSet(1 .. Len(d))
    BY <2>1, FS_Interval
  <2>3. QED
    BY <2>2, FS_Subset
<1>2. IsFiniteSet(E)
  <2> DEFINE f == [i \in D |-> Noted(d, i)]
  <2>1. f \in Surjection(D, E)
    BY DEF Surjection
  <2> HIDE DEF D, E, f
  <2>2. QED
    BY <1>1, <2>1, FS_Surjection
<1>3. ASSUME NEW S \in E PROVE IsFiniteSet(S)
  <2>1. PICK i \in D : S = Noted(d, i)
    OBVIOUS
  <2> HIDE DEF D, E
  <2> DEFINE P == IF d[i].tag \in OutlineTags THEN {<<d[i].tag, <<>>>>} ELSE {}
             Q == IF Attr(d, i, "class") # <<>> THEN {<<d[i].tag, d[i].attrs["class"]>>} ELSE {}
  <2>2. IsFiniteSet(P)
    BY FS_EmptySet, FS_Singleton
  <2>3. IsFiniteSet(Q)
    BY FS_EmptySet, FS_Singleton
  <2>4. S = P \cup Q
    BY <2>1 DEF Noted
  <2> HIDE DEF P, Q
  <2>5. QED
    BY <2>2, <2>3, <2>4, FS_Union
<1> HIDE DEF E, D
<1>4. IsFiniteSet(UNION E)
  BY <1>2, <1>3, FS_UNION
<1>5. c \in Nat
  BY <1>4, FS_CardinalityType
<1>6. OutlineSize(d) = c
  BY DEF OutlineSize, c, E, D
<1> HIDE DEF c
<1>7. QED
  BY <1>5, <1>6

-----------------------------------------------------------------------------
(* Sequences put together.                                                 *)

(* What holds at 0, and of a number if it holds of the one before.         *)
LEMMA FromTheStart ==
  ASSUME NEW N \in Nat, NEW P, 0 \in P, \A n \in 1 .. N : n - 1 \in P => n \in P
  PROVE  \A n \in 0 .. N : n \in P
<1> DEFINE Bad == {n \in 0 .. N : n \notin P}
<1>1. Bad = {}
  <2> SUFFICES ASSUME Bad # {} PROVE FALSE
    OBVIOUS
  <2>1. PICK m \in Bad : \A l \in Bad : m <= l
    <3>1. Bad \in SUBSET Nat
      OBVIOUS
    <3> HIDE DEF Bad
    <3>2. QED
      BY <3>1, LeastNumber
  <2>2. m \in 1 .. N /\ m - 1 \in 0 .. N /\ ~(m <= m - 1) /\ m \notin P
    OBVIOUS
  <2>3. m - 1 \in P
    BY <2>1, <2>2
  <2>4. QED
    BY <2>2, <2>3
<1>2. QED
  BY <1>1

(* Two sequences that begin alike are put together alike so far. *)
LEMMA BuildsAlike ==
  ASSUME NEW S, NEW s, NEW t, NEW N \in Nat, NEW M \in Nat, N <= M, NEW u, NEW v,
         Builds(u, s, N, S), Builds(v, t, M, S), \A n \in 1 .. N : t[n] = s[n]
  PROVE  \A n \in 0 .. N : v[n] = u[n]
<1> DEFINE P == {n \in 0 .. N : v[n] = u[n]}
<1>1. 0 \in P
  BY DEF Builds
<1>2. ASSUME NEW n \in 1 .. N, n - 1 \in P PROVE n \in P
  <2>1. n \in 1 .. M /\ v[n - 1] = u[n - 1] /\ n \in 0 .. N
    BY <1>2
  <2>2. u[n] = u[n - 1] \o s[n] /\ v[n] = v[n - 1] \o t[n] /\ t[n] = s[n]
    BY <2>1 DEF Builds
  <2>3. QED
    BY <2>1, <2>2
<1> HIDE DEF P
<1>3. \A n \in 0 .. N : n \in P
  BY <1>1, <1>2, FromTheStart
<1>4. QED
  BY <1>3 DEF P

LEMMA FlattenBuilds ==
  ASSUME NEW S, NEW s \in Seq(Seq(S))
  PROVE  /\ Len(s) \in Nat
         /\ \E u : Builds(u, s, Len(s), S) /\ FlattenSeq(s) = u[Len(s)]
<1>1. PICK u \in [0 .. Len(s) -> Seq(S)] :
        /\ u[0] = <<>>
        /\ \A n \in 1 .. Len(s) : u[n] = u[n - 1] \o s[n]
        /\ FlattenSeq(s) = u[Len(s)]
  BY FlattenSteps
<1>2. Len(s) \in Nat /\ \A n \in 1 .. Len(s) : s[n] \in Seq(S)
  OBVIOUS
<1>3. Builds(u, s, Len(s), S)
  BY <1>1, <1>2 DEF Builds
<1>4. QED
  BY <1>1, <1>2, <1>3

LEMMA FlattenEmpty == FlattenSeq(<<>>) = <<>>
<1>1. <<>> \in Seq(Seq({})) /\ Len(<<>>) = 0
  OBVIOUS
<1>2. QED
  BY <1>1, FlattenBuilds DEF Builds

LEMMA FlattenAppend ==
  ASSUME NEW S, NEW s \in Seq(Seq(S)), NEW x \in Seq(S)
  PROVE  FlattenSeq(Append(s, x)) = FlattenSeq(s) \o x
<1> DEFINE t == Append(s, x)
           n == Len(s)
<1>1. /\ t \in Seq(Seq(S)) /\ n \in Nat /\ Len(t) = n + 1
      /\ \A k \in 1 .. n : t[k] = s[k]
      /\ t[n + 1] = x
  OBVIOUS
<1> HIDE DEF t
<1>2. PICK u : Builds(u, s, n, S) /\ FlattenSeq(s) = u[n]
  BY FlattenBuilds
<1>3. PICK v : Builds(v, t, n + 1, S) /\ FlattenSeq(t) = v[n + 1]
  BY <1>1, FlattenBuilds
<1> HIDE DEF n
<1>4. v[n] = u[n]
  <2>1. n <= n + 1 /\ n + 1 \in Nat /\ n \in 0 .. n
    BY <1>1
  <2>2. QED
    BY <1>1, <1>2, <1>3, <2>1, BuildsAlike
<1>5. v[n + 1] = v[n] \o x
  <2>1. n + 1 \in 1 .. n + 1 /\ (n + 1) - 1 = n
    BY <1>1
  <2>2. v[n + 1] = v[(n + 1) - 1] \o t[n + 1]
    BY <1>3, <2>1 DEF Builds
  <2>3. QED
    BY <1>1, <2>1, <2>2
<1>6. QED
  BY <1>2, <1>3, <1>4, <1>5 DEF t

(* The first n of a sequence. *)
First(s, n) == SubSeq(s, 1, n)

LEMMA FirstGrows ==
  ASSUME NEW S, NEW s \in Seq(S)
  PROVE  /\ Len(s) \in Nat
         /\ First(s, 0) = <<>>
         /\ First(s, Len(s)) = s
         /\ \A n \in 1 .. Len(s) :
              /\ s[n] \in S
              /\ First(s, n - 1) \in Seq(S)
              /\ First(s, n) = Append(First(s, n - 1), s[n])
  BY DEF First

LEMMA AppendLast ==
  ASSUME NEW S, NEW s \in Seq(S), NEW t \in Seq(S), NEW x \in S
  PROVE  s \o Append(t, x) = Append(s \o t, x)
  OBVIOUS

LEMMA AppendOne ==
  ASSUME NEW S, NEW s \in Seq(S), NEW x \in S
  PROVE  Append(s, x) = s \o <<x>>
  OBVIOUS

Chained(a, b, c) == (a \o b) \o c = a \o (b \o c)

LEMMA Associative ==
  ASSUME NEW S, NEW a \in Seq(S), NEW b \in Seq(S), NEW c \in Seq(S)
  PROVE  Chained(a, b, c)
  BY DEF Chained

LEMMA NothingAdded ==
  ASSUME NEW S, NEW a \in Seq(S)
  PROVE  a \o <<>> = a /\ <<>> \o a = a
  OBVIOUS

LEMMA FlattenJoin ==
  ASSUME NEW S, NEW s \in Seq(Seq(S)), NEW t \in Seq(Seq(S))
  PROVE  FlattenSeq(s \o t) = FlattenSeq(s) \o FlattenSeq(t)
<1> DEFINE V == Seq(S)
           N == Len(t)
           P == {n \in 0 .. N :
                   FlattenSeq(s \o First(t, n)) = FlattenSeq(s) \o FlattenSeq(First(t, n))}
<1>1. /\ N \in Nat /\ First(t, 0) = <<>> /\ First(t, N) = t
      /\ \A n \in 1 .. N : /\ t[n] \in V /\ First(t, n - 1) \in Seq(V)
                           /\ First(t, n) = Append(First(t, n - 1), t[n])
  BY FirstGrows
<1>2. FlattenSeq(s) \in V
  BY FlattenIn
<1>3. 0 \in P
  <2>1. s \o <<>> = s /\ FlattenSeq(s) \o <<>> = FlattenSeq(s)
    BY <1>2
  <2>2. 0 \in 0 .. N /\ First(t, 0) = <<>>
    BY <1>1
  <2>3. FlattenSeq(s \o First(t, 0)) = FlattenSeq(s) \o FlattenSeq(First(t, 0))
    BY <2>1, <2>2, FlattenEmpty
  <2> HIDE DEF N
  <2>4. QED
    BY <2>2, <2>3
<1>4. ASSUME NEW n \in 1 .. N, n - 1 \in P PROVE n \in P
  <2> DEFINE b == First(t, n - 1)
             x == t[n]
  <2>1. b \in Seq(V) /\ x \in V /\ First(t, n) = Append(b, x) /\ n \in 0 .. N
    BY <1>1
  <2>2. FlattenSeq(s \o b) = FlattenSeq(s) \o FlattenSeq(b)
    BY <1>4
  <2> HIDE DEF b, x, P
  <2>3. s \o b \in Seq(V) /\ FlattenSeq(b) \in V
    BY <2>1, FlattenIn
  <2>4. s \o Append(b, x) = Append(s \o b, x)
    <3>1. s \in Seq(V)
      OBVIOUS
    <3>2. b \in Seq(V) /\ x \in V
      BY <2>1
    <3> HIDE DEF V
    <3>3. QED
      BY <3>1, <3>2, AppendLast
  <2>5. FlattenSeq(Append(s \o b, x)) = FlattenSeq(s \o b) \o x
    BY <2>1, <2>3, FlattenAppend
  <2>6. FlattenSeq(Append(b, x)) = FlattenSeq(b) \o x
    BY <2>1, FlattenAppend
  <2>7. (FlattenSeq(s) \o FlattenSeq(b)) \o x = FlattenSeq(s) \o (FlattenSeq(b) \o x)
    <3>1. Chained(FlattenSeq(s), FlattenSeq(b), x)
      BY <1>2, <2>1, <2>3, Associative
    <3>2. QED
      BY <3>1 DEF Chained
  <2>8. FlattenSeq(s \o First(t, n)) = FlattenSeq(s) \o FlattenSeq(First(t, n))
    BY <2>1, <2>2, <2>4, <2>5, <2>6, <2>7
  <2>9. QED
    BY <2>1, <2>8 DEF P
<1> HIDE DEF P, N
<1>5. N \in P
  <2>1. N \in Nat /\ N \in 0 .. N
    BY <1>1
  <2>2. \A n \in 0 .. N : n \in P
    BY <1>3, <1>4, <2>1, FromTheStart
  <2>3. QED
    BY <2>1, <2>2
<1>6. FlattenSeq(s \o First(t, N)) = FlattenSeq(s) \o FlattenSeq(First(t, N))
  BY <1>5 DEF P
<1>7. First(t, N) = t
  BY <1>1
<1>8. QED
  BY <1>6, <1>7

-----------------------------------------------------------------------------
(* Pieces of some nodes, put together in document order.                   *)
Pieces(f, B) == FlattenSeq([k \in 1 .. Cardinality(B) |-> f[Ordered(B)[k]]])

Spells(f, B, A) == \A i \in B : f[i] \in Seq(A)

LEMMA PiecesList ==
  ASSUME NEW N \in Nat, NEW B \in SUBSET (1 .. N), NEW A, NEW f, Spells(f, B, A)
  PROVE  /\ Cardinality(B) \in Nat
         /\ [k \in 1 .. Cardinality(B) |-> f[Ordered(B)[k]]] \in Seq(Seq(A))
         /\ Pieces(f, B) \in Seq(A)
<1>1. Cardinality(B) \in Nat /\ \A k \in 1 .. Cardinality(B) : Ordered(B)[k] \in B
  BY FewNodes
<1> DEFINE n == Cardinality(B)
           V == Seq(A)
<1>2. \A k \in 1 .. n : f[Ordered(B)[k]] \in V
  BY <1>1 DEF Spells
<1>3. [k \in 1 .. n |-> f[Ordered(B)[k]]] \in Seq(V)
  <2> HIDE DEF n, V
  <2> QED
    BY <1>1, <1>2 DEF n
<1>4. QED
  BY <1>1, <1>3, FlattenIn DEF Pieces

LEMMA PiecesAlike ==
  ASSUME NEW N \in Nat, NEW B \in SUBSET (1 .. N), NEW f, NEW g, \A i \in B : f[i] = g[i]
  PROVE  Pieces(f, B) = Pieces(g, B)
<1>1. \A k \in 1 .. Cardinality(B) : Ordered(B)[k] \in B
  BY FewNodes
<1>2. [k \in 1 .. Cardinality(B) |-> f[Ordered(B)[k]]]
      = [k \in 1 .. Cardinality(B) |-> g[Ordered(B)[k]]]
  BY <1>1
<1>3. QED
  BY <1>2 DEF Pieces

LEMMA NoPieces == \A f : Pieces(f, {}) = <<>>
<1>1. Cardinality({}) = 0
  BY FS_EmptySet
<1>2. \A f : [k \in 1 .. Cardinality({}) |-> f[Ordered({})[k]]] = <<>>
  BY <1>1
<1>3. QED
  BY <1>2, FlattenEmpty DEF Pieces

Comes(N, B, n, f, A) ==
  /\ N \in Nat /\ B \in SUBSET (1 .. N) /\ n \in 1 .. N
  /\ \A i \in B : i < n
  /\ Spells(f, B, A) /\ f[n] \in Seq(A)

Grows(f, B, n) == Pieces(f, B \cup {n}) = Pieces(f, B) \o f[n]

LEMMA OnePieceMore ==
  ASSUME NEW N, NEW B, NEW n, NEW f, NEW A, Comes(N, B, n, f, A)
  PROVE  Grows(f, B, n)
<1>0. /\ N \in Nat /\ B \in SUBSET (1 .. N) /\ n \in 1 .. N
      /\ \A i \in B : i < n
      /\ Spells(f, B, A) /\ f[n] \in Seq(A)
  BY DEF Comes
<1> SUFFICES ASSUME N \in Nat, B \in SUBSET (1 .. N), n \in 1 .. N, \A i \in B : i < n
             PROVE  Grows(f, B, n)
  BY <1>0
<1> DEFINE C == B \cup {n}
           m == Cardinality(B)
<1>1. IsFiniteSet(B) /\ IsFiniteSet(C) /\ B \in SUBSET Nat /\ C \in SUBSET Nat
  <2>1. IsFiniteSet(1 .. N)
    BY FS_Interval
  <2>2. B \in SUBSET (1 .. N) /\ C \in SUBSET (1 .. N)
    OBVIOUS
  <2>3. B \in SUBSET Nat /\ C \in SUBSET Nat
    BY <2>2
  <2> HIDE DEF C
  <2>4. IsFiniteSet(B) /\ IsFiniteSet(C)
    BY <2>1, <2>2, FS_Subset
  <2>5. QED
    BY <2>3, <2>4
<1>2. n \notin B
  OBVIOUS
<1>3. Cardinality(C) = m + 1 /\ m \in Nat
  BY <1>1, <1>2, FS_AddElement, FS_CardinalityType
<1>4. ASSUME NEW i \in B PROVE Rank(C, i) = Rank(B, i)
  <2>1. {j \in C : j <= i} = {j \in B : j <= i}
    OBVIOUS
  <2>2. QED
    BY <2>1 DEF Rank
<1>5. Rank(C, n) = m + 1
  <2>1. \A j \in C : j <= n
    <3>1. \A j \in B : j <= n
      OBVIOUS
    <3>2. QED
      BY <3>1
  <2>2. QED
    <3> HIDE DEF C
    <3>1. {j \in C : j <= n} = C
      BY <2>1
    <3>2. QED
      BY <1>3, <3>1 DEF Rank
<1>6. ASSUME NEW k \in 1 .. m PROVE Ordered(B)[k] \in B /\ Ordered(C)[k] = Ordered(B)[k]
  <2> DEFINE i == Ordered(B)[k]
  <2>1. i \in B /\ Rank(B, i) = k
    BY <1>1, OrderedCounts
  <2> HIDE DEF i
  <2>2. i \in C /\ Rank(C, i) = k
    BY <1>4, <2>1
  <2> HIDE DEF C
  <2>3. Ordered(C)[Rank(C, i)] = i
    BY <1>1, <2>2, OrderedCounts
  <2>4. QED
    BY <2>1, <2>2, <2>3 DEF i
<1>7. Ordered(C)[m + 1] = n
  <2>1. n \in C
    OBVIOUS
  <2> HIDE DEF C
  <2>2. Ordered(C)[Rank(C, n)] = n
    BY <1>1, <2>1, OrderedCounts
  <2>3. QED
    BY <1>5, <2>2
<1> DEFINE s == [k \in 1 .. m |-> f[Ordered(B)[k]]]
           t == [k \in 1 .. Cardinality(C) |-> f[Ordered(C)[k]]]
<1>8. s \in Seq(Seq(A)) /\ f[n] \in Seq(A)
  BY <1>0, PiecesList
<1>9. t = Append(s, f[n])
  <2>1. t = [k \in 1 .. m + 1 |-> IF k = m + 1 THEN f[n] ELSE f[Ordered(B)[k]]]
    <3> HIDE DEF m, C
    <3>1. \A k \in 1 .. m + 1 : k = m + 1 \/ k \in 1 .. m
      BY <1>3
    <3>2. QED
      BY <1>3, <1>6, <1>7, <3>1
  <2>2. Len(s) = m
    BY <1>3
  <2> DEFINE V == Seq(A)
  <2>3. Append(s, f[n]) = [k \in 1 .. m + 1 |-> IF k = m + 1 THEN f[n] ELSE s[k]]
    <3> HIDE DEF V, s
    <3> QED
      BY <1>3, <1>8, <2>2
  <2>4. \A k \in 1 .. m + 1 : k # m + 1 => s[k] = f[Ordered(B)[k]]
    <3> HIDE DEF m
    <3> QED
      BY <1>3
  <2> HIDE DEF m, s, t
  <2>5. QED
    BY <2>1, <2>3, <2>4
<1>10. FlattenSeq(t) = FlattenSeq(s) \o f[n]
  <2> HIDE DEF s, t
  <2> QED
    BY <1>8, <1>9, FlattenAppend
<1>11. QED
  BY <1>10 DEF Pieces, Grows

(* The nodes up to one. *)
Upto(B, n) == {i \in B : i <= n}

LEMMA UptoNothing ==
  ASSUME NEW N \in Nat, NEW B \in SUBSET (1 .. N)
  PROVE  Upto(B, 0) = {}
<1>1. \A i \in B : ~(i <= 0)
  OBVIOUS
<1>2. QED
  BY <1>1 DEF Upto

LEMMA UptoAll ==
  ASSUME NEW N \in Nat, NEW B \in SUBSET (1 .. N)
  PROVE  Upto(B, N) = B
<1>1. \A i \in B : i <= N
  OBVIOUS
<1>2. QED
  BY <1>1 DEF Upto

LEMMA UptoGrows ==
  ASSUME NEW N \in Nat, NEW B \in SUBSET (1 .. N)
  PROVE  /\ \A n \in 0 .. N : Upto(B, n) \in SUBSET (1 .. N)
         /\ \A n \in 1 .. N :
              /\ Upto(B, n) = IF n \in B THEN Upto(B, n - 1) \cup {n} ELSE Upto(B, n - 1)
              /\ Upto(B, n - 1) \in SUBSET (1 .. N)
              /\ \A i \in Upto(B, n - 1) : i < n
<1>1. \A i \in B : i \in Nat /\ 1 <= i /\ i <= N
  OBVIOUS
<1>2. \A n : Upto(B, n) \in SUBSET (1 .. N)
  BY DEF Upto
<1>3. ASSUME NEW n \in 1 .. N
      PROVE  /\ Upto(B, n) = IF n \in B THEN Upto(B, n - 1) \cup {n} ELSE Upto(B, n - 1)
             /\ \A i \in Upto(B, n - 1) : i < n
  <2>1. \A i \in B : i <= n <=> i <= n - 1 \/ i = n
    BY <1>1
  <2>2. \A i \in B : i <= n - 1 => i < n
    BY <1>1
  <2>3. \A i \in B : n \in B => n <= n
    OBVIOUS
  <2>4. QED
    BY <2>1, <2>2, <2>3 DEF Upto
<1>4. QED
  BY <1>2, <1>3

(* Pieces of nodes that come one after the other. *)
Precedes(B, C) == \A i \in B, j \in C : i < j

Adjoin(N, B, C, f, A) ==
  /\ N \in Nat
  /\ B \in SUBSET (1 .. N) /\ C \in SUBSET (1 .. N)
  /\ Precedes(B, C)
  /\ Spells(f, B, A) /\ Spells(f, C, A)

Splits(f, B, C) == Pieces(f, B \cup C) = Pieces(f, B) \o Pieces(f, C)

LEMMA PiecesJoin ==
  ASSUME NEW N, NEW B, NEW C, NEW A, NEW f, Adjoin(N, B, C, f, A)
  PROVE  Splits(f, B, C)
<1> DEFINE P == {n \in 0 .. N : Pieces(f, B \cup Upto(C, n)) = Pieces(f, B) \o Pieces(f, Upto(C, n))}
<1>1. /\ N \in Nat /\ B \in SUBSET (1 .. N) /\ C \in SUBSET (1 .. N)
      /\ \A i \in B, j \in C : i < j
      /\ Spells(f, B, A) /\ Spells(f, C, A)
  BY DEF Adjoin, Precedes
<1>2. Pieces(f, B) \in Seq(A)
  BY <1>1, PiecesList
<1>3. 0 \in P
  <2>1. Upto(C, 0) = {} /\ B \cup {} = B
    BY <1>1, UptoNothing
  <2>2. Pieces(f, B) \o <<>> = Pieces(f, B)
    BY <1>2
  <2>3. Pieces(f, B \cup Upto(C, 0)) = Pieces(f, B) \o Pieces(f, Upto(C, 0))
    BY <2>1, <2>2, NoPieces
  <2>4. 0 \in 0 .. N
    BY <1>1
  <2>5. QED
    BY <2>3, <2>4
<1>4. ASSUME NEW n \in 1 .. N, n - 1 \in P PROVE n \in P
  <2> DEFINE D == Upto(C, n - 1)
  <2>1. /\ Upto(C, n) = IF n \in C THEN D \cup {n} ELSE D
        /\ D \in SUBSET (1 .. N) /\ D \in SUBSET C /\ n \in 0 .. N
        /\ \A i \in D : i < n
    <3>1. D \in SUBSET C
      BY DEF Upto
    <3>2. C \in SUBSET (1 .. N) /\ N \in Nat
      BY <1>1
    <3> HIDE DEF D
    <3>3. /\ Upto(C, n) = IF n \in C THEN Upto(C, n - 1) \cup {n} ELSE Upto(C, n - 1)
          /\ Upto(C, n - 1) \in SUBSET (1 .. N)
          /\ \A i \in Upto(C, n - 1) : i < n
      BY <3>2, UptoGrows
    <3>4. QED
      BY <3>1, <3>3 DEF D
  <2>2. Pieces(f, B \cup D) = Pieces(f, B) \o Pieces(f, D)
    BY <1>4
  <2> HIDE DEF D, P
  <2>3. CASE n \in C
    <3>1. /\ B \cup D \in SUBSET (1 .. N) /\ \A i \in B \cup D : i < n
          /\ (B \cup D) \cup {n} = B \cup (D \cup {n})
      BY <1>1, <2>1, <2>3
    <3>2. Spells(f, B \cup D, A) /\ Spells(f, D, A) /\ f[n] \in Seq(A)
      BY <1>1, <2>1, <2>3 DEF Spells
    <3>3. Pieces(f, (B \cup D) \cup {n}) = Pieces(f, B \cup D) \o f[n]
      <4>1. Comes(N, B \cup D, n, f, A)
        BY <1>1, <3>1, <3>2 DEF Comes
      <4>2. Grows(f, B \cup D, n)
        BY <4>1, OnePieceMore
      <4>3. QED
        BY <4>2 DEF Grows
    <3>4. Pieces(f, D \cup {n}) = Pieces(f, D) \o f[n]
      <4>1. Comes(N, D, n, f, A)
        BY <1>1, <2>1, <3>2 DEF Comes
      <4>2. Grows(f, D, n)
        BY <4>1, OnePieceMore
      <4>3. QED
        BY <4>2 DEF Grows
    <3>5. Pieces(f, D) \in Seq(A)
      BY <1>1, <2>1, <3>2, PiecesList
    <3>6. (Pieces(f, B) \o Pieces(f, D)) \o f[n] = Pieces(f, B) \o (Pieces(f, D) \o f[n])
      <4>1. Chained(Pieces(f, B), Pieces(f, D), f[n])
        BY <1>2, <3>2, <3>5, Associative
      <4>2. QED
        BY <4>1 DEF Chained
    <3>7. Pieces(f, B \cup Upto(C, n)) = Pieces(f, B) \o Pieces(f, Upto(C, n))
      BY <2>1, <2>2, <2>3, <3>1, <3>3, <3>4, <3>6
    <3>8. QED
      BY <2>1, <3>7 DEF P
  <2>4. CASE n \notin C
    BY <2>1, <2>2, <2>4 DEF P
  <2>5. QED
    BY <2>3, <2>4
<1> HIDE DEF P
<1>5. N \in P
  BY <1>1, <1>3, <1>4, FromTheStart
<1>6. Upto(C, N) = C
  BY <1>1, UptoAll
<1>7. QED
  BY <1>5, <1>6 DEF P, Splits

(* Nodes without a piece do not count. *)
Silent(f, B) == \A i \in B : f[i] = <<>>

Covers(N, B, C, f, A) ==
  /\ N \in Nat /\ B \in SUBSET (1 .. N) /\ C \in SUBSET B
  /\ Spells(f, B, A) /\ Silent(f, B \ C)

LEMMA PiecesOver ==
  ASSUME NEW N, NEW B, NEW C, NEW A, NEW f, Covers(N, B, C, f, A)
  PROVE  Pieces(f, B) = Pieces(f, C)
<1> USE DEF Covers
<1> DEFINE P == {n \in 0 .. N : Pieces(f, Upto(B, n)) = Pieces(f, Upto(C, n))}
<1>1. 0 \in P
  <2>1. Upto(B, 0) = {}
    BY UptoNothing
  <2>2. C \in SUBSET (1 .. N)
    OBVIOUS
  <2>3. Upto(C, 0) = {}
    BY <2>2, UptoNothing
  <2>4. Pieces(f, Upto(B, 0)) = Pieces(f, Upto(C, 0))
    <3>1. Upto(B, 0) = Upto(C, 0)
      BY <2>1, <2>3
    <3>2. QED
      BY <3>1
  <2>5. 0 \in 0 .. N
    OBVIOUS
  <2>6. QED
    BY <2>4, <2>5
<1>2. ASSUME NEW n \in 1 .. N, n - 1 \in P PROVE n \in P
  <2> DEFINE D == Upto(B, n - 1)
             E == Upto(C, n - 1)
  <2>1. /\ Upto(B, n) = IF n \in B THEN D \cup {n} ELSE D
        /\ D \in SUBSET (1 .. N) /\ D \in SUBSET B
        /\ \A i \in D : i < n
    <3>1. D \in SUBSET B
      BY DEF Upto
    <3>2. QED
      BY <3>1, UptoGrows
  <2>2. /\ Upto(C, n) = IF n \in C THEN E \cup {n} ELSE E
        /\ E \in SUBSET (1 .. N) /\ E \in SUBSET C
        /\ \A i \in E : i < n
    <3>1. E \in SUBSET C /\ C \in SUBSET (1 .. N)
      BY DEF Upto
    <3> HIDE DEF D, E, P
    <3>2. /\ Upto(C, n) = IF n \in C THEN Upto(C, n - 1) \cup {n} ELSE Upto(C, n - 1)
          /\ \A i \in Upto(C, n - 1) : i < n
      <4>1. C \in SUBSET (1 .. N)
        BY <3>1
      <4>2. QED
        BY <4>1, UptoGrows
    <3>3. E \in SUBSET (1 .. N)
      BY <3>1
    <3>4. QED
      BY <3>1, <3>2, <3>3 DEF E
  <2>3. Pieces(f, D) = Pieces(f, E) /\ n \in 0 .. N
    BY <1>2
  <2> HIDE DEF D, E, P
  <2>4. CASE n \in B
    <3>1. Spells(f, D, A) /\ Spells(f, E, A) /\ f[n] \in Seq(A)
      BY <2>1, <2>2, <2>4 DEF Spells
    <3>2. Pieces(f, D \cup {n}) = Pieces(f, D) \o f[n]
      <4>1. Comes(N, D, n, f, A)
        BY <2>1, <3>1 DEF Comes
      <4>2. Grows(f, D, n)
        BY <4>1, OnePieceMore
      <4>3. QED
        BY <4>2 DEF Grows
    <3>3. Pieces(f, E \cup {n}) = Pieces(f, E) \o f[n]
      <4>1. Comes(N, E, n, f, A)
        BY <2>2, <3>1 DEF Comes
      <4>2. Grows(f, E, n)
        BY <4>1, OnePieceMore
      <4>3. QED
        BY <4>2 DEF Grows
    <3>4. Pieces(f, D) \o <<>> = Pieces(f, D)
      <4>1. Pieces(f, D) \in Seq(A)
        BY <2>1, <3>1, PiecesList
      <4>2. QED
        BY <4>1
    <3>5. n \notin C => f[n] = <<>>
      BY <2>4 DEF Silent
    <3>6. Pieces(f, Upto(B, n)) = Pieces(f, Upto(C, n))
      BY <2>1, <2>2, <2>3, <2>4, <3>2, <3>3, <3>4, <3>5
    <3>7. QED
      BY <2>3, <3>6 DEF P
  <2>5. CASE n \notin B
    BY <2>1, <2>2, <2>3, <2>5 DEF P
  <2>6. QED
    BY <2>4, <2>5
<1> HIDE DEF P
<1>3. N \in P
  BY <1>1, <1>2, FromTheStart
<1>4. C \in SUBSET (1 .. N)
  OBVIOUS
<1>5. QED
  BY <1>3, <1>4, UptoAll DEF P

(* Pieces of groups of nodes, the groups one after the other.              *)
Union(W, B) == UNION {W[c] : c \in B}

LEMMA UnionGrows ==
  ASSUME NEW W
  PROVE  /\ Union(W, {}) = {}
         /\ \A B, n : Union(W, B \cup {n}) = Union(W, B) \cup W[n]
         /\ \A B : \A i \in Union(W, B) : \E c \in B : i \in W[c]
         /\ \A B : \A c \in B : W[c] \in SUBSET Union(W, B)
<1>1. ASSUME NEW B, NEW n PROVE Union(W, B \cup {n}) = Union(W, B) \cup W[n]
  <2>1. \A i \in Union(W, B \cup {n}) : i \in Union(W, B) \cup W[n]
    BY DEF Union
  <2>2. \A i \in Union(W, B) \cup W[n] : i \in Union(W, B \cup {n})
    BY DEF Union
  <2>3. QED
    BY <2>1, <2>2
<1>2. Union(W, {}) = {}
  BY DEF Union
<1>3. \A B : \A i \in Union(W, B) : \E c \in B : i \in W[c]
  BY DEF Union
<1>4. \A B : \A c \in B : W[c] \in SUBSET Union(W, B)
  BY DEF Union
<1>5. QED
  BY <1>1, <1>2, <1>3, <1>4

Grouped(W, B, N) ==
  /\ \A c \in B : W[c] \in SUBSET (1 .. N)
  /\ \A b, c \in B : b < c => Precedes(W[b], W[c])

Says(g, f, W, B) == \A c \in B : g[c] = Pieces(f, W[c])

LEMMA PiecesGrouped ==
  ASSUME NEW N \in Nat, NEW B \in SUBSET (1 .. N), NEW W, Grouped(W, B, N),
         NEW A, NEW f, Spells(f, Union(W, B), A),
         NEW g, Says(g, f, W, B)
  PROVE  Pieces(f, Union(W, B)) = Pieces(g, B)
<1> DEFINE All(n) == Union(W, Upto(B, n))
           P == {n \in 0 .. N : Pieces(f, All(n)) = Pieces(g, Upto(B, n))}
<1>1. ASSUME NEW c \in B PROVE W[c] \in SUBSET (1 .. N) /\ Spells(f, W[c], A) /\ g[c] \in Seq(A)
  <2>1. W[c] \in SUBSET (1 .. N)
    BY DEF Grouped
  <2>2. Spells(f, W[c], A)
    BY UnionGrows DEF Spells
  <2>3. g[c] = Pieces(f, W[c])
    BY DEF Says
  <2>4. Pieces(f, W[c]) \in Seq(A)
    BY <2>1, <2>2, PiecesList
  <2>5. QED
    BY <2>1, <2>2, <2>3, <2>4
<1>2. 0 \in P
  <2>1. Upto(B, 0) = {} /\ All(0) = {}
    BY UptoNothing, UnionGrows
  <2>2. Pieces(f, All(0)) = Pieces(g, Upto(B, 0))
    BY <2>1, NoPieces
  <2>3. QED
    BY <2>2
<1>3. ASSUME NEW n \in 1 .. N, n - 1 \in P PROVE n \in P
  <2> DEFINE D == Upto(B, n - 1)
             E == All(n - 1)
  <2>1. /\ Upto(B, n) = IF n \in B THEN D \cup {n} ELSE D
        /\ D \in SUBSET (1 .. N) /\ D \in SUBSET B
        /\ \A i \in D : i < n
    <3>1. D \in SUBSET B
      BY DEF Upto
    <3>2. QED
      BY <3>1, UptoGrows
  <2>2. Pieces(f, E) = Pieces(g, D) /\ n \in 0 .. N
    BY <1>3
  <2>3. E \in SUBSET (1 .. N) /\ E \in SUBSET Union(W, B)
        /\ \A i \in E : \E c \in D : i \in W[c]
    <3>1. \A i \in E : \E c \in D : i \in W[c]
      BY UnionGrows
    <3>2. \A c \in D : c \in B /\ W[c] \in SUBSET Union(W, B)
      BY <2>1, UnionGrows
    <3> HIDE DEF D, E
    <3>3. QED
      BY <1>1, <3>1, <3>2
  <2>4. All(n) = IF n \in B THEN E \cup W[n] ELSE E
    <3> HIDE DEF D
    <3>1. Union(W, D \cup {n}) = Union(W, D) \cup W[n]
      BY UnionGrows
    <3>2. QED
      BY <2>1, <3>1 DEF D
  <2> HIDE DEF D, E, All, P
  <2>5. CASE n \in B
    <3>1. Precedes(E, W[n])
      BY <2>1, <2>3, <2>5 DEF Grouped, Precedes
    <3>2. Spells(f, E, A) /\ Spells(f, W[n], A)
      BY <1>1, <2>3, <2>5, UnionGrows DEF Spells
    <3>3. Pieces(f, E \cup W[n]) = Pieces(f, E) \o Pieces(f, W[n])
      <4>1. Adjoin(N, E, W[n], f, A)
        <5>1. W[n] \in SUBSET (1 .. N) /\ E \in SUBSET (1 .. N)
          BY <1>1, <2>3, <2>5
        <5>2. QED
          BY <3>1, <3>2, <5>1 DEF Adjoin
      <4>2. Splits(f, E, W[n])
        BY <4>1, PiecesJoin
      <4>3. QED
        BY <4>2 DEF Splits
    <3>4. Spells(g, D, A) /\ g[n] \in Seq(A)
      BY <1>1, <2>1, <2>5 DEF Spells
    <3>5. Pieces(g, D \cup {n}) = Pieces(g, D) \o g[n]
      <4>1. Comes(N, D, n, g, A)
        BY <2>1, <3>4 DEF Comes
      <4>2. Grows(g, D, n)
        BY <4>1, OnePieceMore
      <4>3. QED
        BY <4>2 DEF Grows
    <3>6. Pieces(f, All(n)) = Pieces(g, Upto(B, n))
      <4>1. g[n] = Pieces(f, W[n])
        BY <2>5 DEF Says
      <4>2. QED
        BY <2>1, <2>2, <2>4, <2>5, <3>3, <3>5, <4>1
    <3>7. QED
      BY <2>2, <3>6 DEF P
  <2>6. CASE n \notin B
    BY <2>1, <2>2, <2>4, <2>6 DEF P
  <2>7. QED
    BY <2>5, <2>6
<1> HIDE DEF P, All
<1>4. N \in P
  BY <1>2, <1>3, FromTheStart
<1>5. QED
  BY <1>4, UptoAll DEF P, All

-----------------------------------------------------------------------------
(* The letters of what is put together.                                    *)

Plain(text) == {k \in DOMAIN text : text[k] \notin Marks}

LEMMA LettersArePieces ==
  ASSUME NEW A, NEW text \in Seq(A)
  PROVE  /\ Len(text) \in Nat /\ Plain(text) \in SUBSET (1 .. Len(text))
         /\ Spells([k \in 1 .. Len(text) |-> <<text[k]>>], Plain(text), A)
         /\ LettersOf(text) = Pieces([k \in 1 .. Len(text) |-> <<text[k]>>], Plain(text))
         /\ LettersOf(text) \in Seq(A)
<1> DEFINE B == Plain(text)
           N == Len(text)
           f == [k \in 1 .. N |-> <<text[k]>>]
           n == Cardinality(B)
<1>1. N \in Nat /\ B \in SUBSET (1 .. N)
  BY DEF Plain
<1>2. \A k \in 1 .. N : f[k] = <<text[k]>> /\ <<text[k]>> \in Seq(A)
  OBVIOUS
<1>3. Spells(f, B, A)
  BY <1>1, <1>2 DEF Spells
<1>4. LettersOf(text) = FlattenSeq([k \in 1 .. n |-> <<text[Ordered(B)[k]]>>])
  BY DEF LettersOf, Gather, Plain
<1>5. [k \in 1 .. n |-> <<text[Ordered(B)[k]]>>] = [k \in 1 .. n |-> f[Ordered(B)[k]]]
  <2>1. \A k \in 1 .. n : Ordered(B)[k] \in 1 .. N
    <3> HIDE DEF B, N
    <3> QED
      BY <1>1, FewNodes
  <2> HIDE DEF B, N, f, n
  <2>2. QED
    BY <1>2, <2>1
<1>6. LettersOf(text) = Pieces(f, B)
  BY <1>4, <1>5 DEF Pieces
<1>7. Pieces(f, B) \in Seq(A)
  <2> HIDE DEF B, N, f
  <2> QED
    BY <1>1, <1>3, PiecesList
<1>8. QED
  BY <1>1, <1>3, <1>6, <1>7

LEMMA LettersAppend ==
  ASSUME NEW A, NEW a \in Seq(A), NEW x \in A
  PROVE  LettersOf(Append(a, x)) = LettersOf(a) \o (IF x \in Marks THEN <<>> ELSE <<x>>)
<1> DEFINE b == Append(a, x)
           N == Len(a)
           f == [k \in 1 .. N |-> <<a[k]>>]
           g == [k \in 1 .. Len(b) |-> <<b[k]>>]
<1>1. N \in Nat /\ b \in Seq(A) /\ Len(b) = N + 1 /\ b[N + 1] = x
      /\ DOMAIN a = 1 .. N /\ DOMAIN b = 1 .. N + 1
      /\ \A k \in 1 .. N : b[k] = a[k]
  OBVIOUS
<1> HIDE DEF b
<1>2. /\ Plain(a) \in SUBSET (1 .. N) /\ LettersOf(a) = Pieces(f, Plain(a))
      /\ LettersOf(a) \in Seq(A)
  BY LettersArePieces
<1>3. /\ Plain(b) \in SUBSET (1 .. N + 1) /\ LettersOf(b) = Pieces(g, Plain(b))
      /\ Spells(g, Plain(b), A)
  BY <1>1, LettersArePieces
<1>4. \A k \in 1 .. N : f[k] = g[k]
  BY <1>1
<1>5. g[N + 1] = <<x>>
  BY <1>1
<1> HIDE DEF f, g, N
<1>6. Pieces(f, Plain(a)) = Pieces(g, Plain(a))
  BY <1>1, <1>2, <1>4, PiecesAlike
<1>7. CASE x \in Marks
  <2>1. Plain(b) = Plain(a)
    <3>1. \A k \in 1 .. N + 1 : k = N + 1 \/ k \in 1 .. N
      BY <1>1
    <3>2. \A k \in 1 .. N : k \in 1 .. N + 1
      BY <1>1
    <3>3. QED
      BY <1>1, <1>7, <3>1, <3>2 DEF Plain
  <2>2. LettersOf(a) \o <<>> = LettersOf(a)
    BY <1>2
  <2>3. QED
    BY <1>2, <1>3, <1>6, <1>7, <2>1, <2>2 DEF b
<1>8. CASE x \notin Marks
  <2>1. Plain(b) = Plain(a) \cup {N + 1}
    <3>1. \A k \in 1 .. N + 1 : k = N + 1 \/ k \in 1 .. N
      BY <1>1
    <3>2. \A k \in 1 .. N : k \in 1 .. N + 1
      BY <1>1
    <3>3. N + 1 \in 1 .. N + 1
      BY <1>1
    <3>4. QED
      BY <1>1, <1>8, <3>1, <3>2, <3>3 DEF Plain
  <2>2. /\ Plain(a) \in SUBSET (1 .. N + 1) /\ N + 1 \in 1 .. N + 1 /\ N + 1 \in Nat
        /\ \A i \in Plain(a) : i < N + 1
        /\ Spells(g, Plain(a), A) /\ g[N + 1] \in Seq(A)
    BY <1>1, <1>2, <1>3, <2>1 DEF Spells
  <2>3. Pieces(g, Plain(a) \cup {N + 1}) = Pieces(g, Plain(a)) \o g[N + 1]
    <3>1. Comes(N + 1, Plain(a), N + 1, g, A)
      BY <2>2 DEF Comes
    <3>2. Grows(g, Plain(a), N + 1)
      BY <3>1, OnePieceMore
    <3>3. QED
      BY <3>2 DEF Grows
  <2>4. QED
    BY <1>2, <1>3, <1>5, <1>6, <1>8, <2>1, <2>3 DEF b
<1>9. QED
  BY <1>7, <1>8

LEMMA LettersOfNothing == LettersOf(<<>>) = <<>>
<1>1. <<>> \in Seq({}) /\ Plain(<<>>) = {}
  BY DEF Plain
<1>2. LettersOf(<<>>) = Pieces([k \in 1 .. Len(<<>>) |-> <<<<>>[k]>>], Plain(<<>>))
  BY <1>1, LettersArePieces
<1>3. QED
  BY <1>1, <1>2, NoPieces

LEMMA LettersIn ==
  ASSUME NEW A, NEW text \in Seq(A)
  PROVE  LettersOf(text) \in Seq(A)
  BY LettersArePieces

LEMMA LettersJoin ==
  ASSUME NEW A, NEW a \in Seq(A), NEW b \in Seq(A)
  PROVE  LettersOf(a \o b) = LettersOf(a) \o LettersOf(b)
<1> DEFINE N == Len(b)
           P == {n \in 0 .. N : LettersOf(a \o First(b, n)) = LettersOf(a) \o LettersOf(First(b, n))}
<1>1. /\ N \in Nat /\ First(b, 0) = <<>> /\ First(b, N) = b
      /\ \A n \in 1 .. N : /\ b[n] \in A /\ First(b, n - 1) \in Seq(A)
                           /\ First(b, n) = Append(First(b, n - 1), b[n])
  BY FirstGrows
<1>2. LettersOf(a) \in Seq(A)
  BY LettersArePieces
<1>3. 0 \in P
  <2>1. a \o <<>> = a /\ LettersOf(a) \o <<>> = LettersOf(a)
    BY <1>2
  <2>2. LettersOf(a \o First(b, 0)) = LettersOf(a) \o LettersOf(First(b, 0))
    BY <1>1, <2>1, LettersOfNothing
  <2>3. 0 \in 0 .. N
    BY <1>1
  <2>4. QED
    BY <2>2, <2>3
<1>4. ASSUME NEW n \in 1 .. N, n - 1 \in P PROVE n \in P
  <2> DEFINE c == First(b, n - 1)
             x == b[n]
             z == IF x \in Marks THEN <<>> ELSE <<x>>
  <2>1. c \in Seq(A) /\ x \in A /\ First(b, n) = Append(c, x) /\ n \in 0 .. N
    BY <1>1
  <2>2. LettersOf(a \o c) = LettersOf(a) \o LettersOf(c)
    BY <1>4
  <2>3. z \in Seq(A)
    BY <2>1
  <2> HIDE DEF c, x, P
  <2>4. a \o Append(c, x) = Append(a \o c, x)
    BY <2>1, AppendLast
  <2>5. a \o c \in Seq(A) /\ LettersOf(c) \in Seq(A)
    BY <2>1, LettersIn
  <2>6. LettersOf(Append(a \o c, x)) = LettersOf(a \o c) \o z
    BY <2>1, <2>5, LettersAppend
  <2>7. LettersOf(Append(c, x)) = LettersOf(c) \o z
    BY <2>1, LettersAppend
  <2> HIDE DEF z
  <2>8. (LettersOf(a) \o LettersOf(c)) \o z = LettersOf(a) \o (LettersOf(c) \o z)
    <3>1. Chained(LettersOf(a), LettersOf(c), z)
      BY <1>2, <2>3, <2>5, Associative
    <3>2. QED
      BY <3>1 DEF Chained
  <2>9. LettersOf(a \o First(b, n)) = LettersOf(a) \o LettersOf(First(b, n))
    BY <2>1, <2>2, <2>4, <2>6, <2>7, <2>8
  <2>10. QED
    BY <2>1, <2>9 DEF P
<1> HIDE DEF P, N
<1>5. N \in P
  <2>1. N \in Nat /\ N \in 0 .. N
    BY <1>1
  <2>2. \A n \in 0 .. N : n \in P
    BY <1>3, <1>4, <2>1, FromTheStart
  <2>3. QED
    BY <2>1, <2>2
<1>6. QED
  BY <1>1, <1>5 DEF P

(* Marks have no letters, and letters are their own. *)
LEMMA LettersOfMark ==
  ASSUME NEW x \in Marks
  PROVE  LettersOf(<<x>>) = <<>>
<1>1. <<>> \in Seq(Marks) /\ Append(<<>>, x) = <<x>>
  OBVIOUS
<1>2. LettersOf(<<x>>) = LettersOf(<<>>) \o (IF x \in Marks THEN <<>> ELSE <<x>>)
  BY <1>1, LettersAppend
<1>3. <<>> \o <<>> = <<>>
  OBVIOUS
<1>4. QED
  BY <1>2, <1>3, LettersOfNothing

LEMMA LettersOfPlain ==
  ASSUME NEW A, NEW a \in Seq(A), \A k \in DOMAIN a : a[k] \notin Marks
  PROVE  LettersOf(a) = a
<1> DEFINE N == Len(a)
           P == {n \in 0 .. N : LettersOf(First(a, n)) = First(a, n)}
<1>1. /\ N \in Nat /\ First(a, 0) = <<>> /\ First(a, N) = a
      /\ \A n \in 1 .. N : /\ a[n] \in A /\ First(a, n - 1) \in Seq(A)
                           /\ First(a, n) = Append(First(a, n - 1), a[n])
  BY FirstGrows
<1>2. 0 \in P
  BY <1>1, LettersOfNothing
<1>3. ASSUME NEW n \in 1 .. N, n - 1 \in P PROVE n \in P
  <2> DEFINE c == First(a, n - 1)
             x == a[n]
  <2>1. c \in Seq(A) /\ x \in A /\ First(a, n) = Append(c, x) /\ n \in 0 .. N /\ x \notin Marks
    BY <1>1
  <2>2. LettersOf(c) = c
    BY <1>3
  <2> HIDE DEF c, x, P
  <2>3. LettersOf(Append(c, x)) = c \o <<x>>
    BY <2>1, <2>2, LettersAppend
  <2>4. c \o <<x>> = Append(c, x)
    BY <2>1
  <2>5. QED
    BY <2>1, <2>3, <2>4 DEF P
<1> HIDE DEF P, N
<1>4. N \in P
  <2>1. N \in Nat /\ N \in 0 .. N
    BY <1>1
  <2>2. \A n \in 0 .. N : n \in P
    BY <1>2, <1>3, <2>1, FromTheStart
  <2>3. QED
    BY <2>1, <2>2
<1>5. QED
  BY <1>1, <1>4 DEF P

(* A mark in front, and one behind. *)
LEMMA LettersBehindMark ==
  ASSUME NEW A, Marks \subseteq A, NEW x \in Marks, NEW a \in Seq(A)
  PROVE  /\ <<x>> \o a \in Seq(A) /\ a \o <<x>> \in Seq(A)
         /\ LettersOf(<<x>> \o a) = LettersOf(a)
         /\ LettersOf(a \o <<x>>) = LettersOf(a)
<1>1. x \in A /\ <<x>> \in Seq(A) /\ LettersOf(a) \in Seq(A)
  BY LettersIn
<1>2. LettersOf(<<x>> \o a) = LettersOf(<<x>>) \o LettersOf(a)
  BY <1>1, LettersJoin
<1>3. LettersOf(a \o <<x>>) = LettersOf(a) \o LettersOf(<<x>>)
  BY <1>1, LettersJoin
<1>4. <<>> \o LettersOf(a) = LettersOf(a) /\ LettersOf(a) \o <<>> = LettersOf(a)
  BY <1>1
<1>5. <<x>> \o a \in Seq(A) /\ a \o <<x>> \in Seq(A)
  BY <1>1
<1>6. QED
  BY <1>2, <1>3, <1>4, <1>5, LettersOfMark

LEMMA LettersOfPieces ==
  ASSUME NEW N \in Nat, NEW B \in SUBSET (1 .. N), NEW A, NEW f, Spells(f, B, A),
         NEW g, \A i \in B : g[i] = LettersOf(f[i])
  PROVE  LettersOf(Pieces(f, B)) = Pieces(g, B)
<1> DEFINE P == {n \in 0 .. N : LettersOf(Pieces(f, Upto(B, n))) = Pieces(g, Upto(B, n))}
<1>1. ASSUME NEW i \in B PROVE f[i] \in Seq(A) /\ g[i] \in Seq(A)
  <2>1. f[i] \in Seq(A)
    BY DEF Spells
  <2>2. QED
    BY <2>1, LettersArePieces
<1>2. 0 \in P
  <2>1. Upto(B, 0) = {}
    BY UptoNothing
  <2>2. LettersOf(Pieces(f, Upto(B, 0))) = Pieces(g, Upto(B, 0))
    BY <2>1, NoPieces, LettersOfNothing
  <2>3. 0 \in 0 .. N
    OBVIOUS
  <2>4. QED
    BY <2>2, <2>3
<1>3. ASSUME NEW n \in 1 .. N, n - 1 \in P PROVE n \in P
  <2> DEFINE D == Upto(B, n - 1)
  <2>1. /\ Upto(B, n) = IF n \in B THEN D \cup {n} ELSE D
        /\ D \in SUBSET (1 .. N) /\ D \in SUBSET B
        /\ \A i \in D : i < n
    <3>1. D \in SUBSET B
      BY DEF Upto
    <3>2. QED
      BY <3>1, UptoGrows
  <2>2. LettersOf(Pieces(f, D)) = Pieces(g, D) /\ n \in 0 .. N
    BY <1>3
  <2> HIDE DEF D, P
  <2>3. CASE n \in B
    <3>1. /\ Spells(f, D, A) /\ f[n] \in Seq(A)
          /\ Spells(g, D, A) /\ g[n] \in Seq(A)
      BY <1>1, <2>1, <2>3 DEF Spells
    <3>2. Pieces(f, D \cup {n}) = Pieces(f, D) \o f[n]
      <4>1. Comes(N, D, n, f, A)
        BY <2>1, <3>1 DEF Comes
      <4>2. Grows(f, D, n)
        BY <4>1, OnePieceMore
      <4>3. QED
        BY <4>2 DEF Grows
    <3>3. Pieces(g, D \cup {n}) = Pieces(g, D) \o g[n]
      <4>1. Comes(N, D, n, g, A)
        BY <2>1, <3>1 DEF Comes
      <4>2. Grows(g, D, n)
        BY <4>1, OnePieceMore
      <4>3. QED
        BY <4>2 DEF Grows
    <3>4. Pieces(f, D) \in Seq(A)
      BY <2>1, <3>1, PiecesList
    <3>5. LettersOf(Pieces(f, D) \o f[n]) = LettersOf(Pieces(f, D)) \o LettersOf(f[n])
      BY <3>1, <3>4, LettersJoin
    <3>6. LettersOf(Pieces(f, Upto(B, n))) = Pieces(g, Upto(B, n))
      BY <2>1, <2>2, <2>3, <3>2, <3>3, <3>5
    <3>7. QED
      BY <2>2, <3>6 DEF P
  <2>4. CASE n \notin B
    BY <2>1, <2>2, <2>4 DEF P
  <2>5. QED
    BY <2>3, <2>4
<1> HIDE DEF P
<1>4. N \in P
  BY <1>2, <1>3, FromTheStart
<1>5. QED
  BY <1>4, UptoAll DEF P

LEMMA FlattenOfPieces ==
  ASSUME NEW N \in Nat, NEW B \in SUBSET (1 .. N), NEW A, NEW f, Spells(f, B, Seq(A)),
         NEW g, \A i \in B : g[i] = FlattenSeq(f[i])
  PROVE  FlattenSeq(Pieces(f, B)) = Pieces(g, B)
<1> DEFINE P == {n \in 0 .. N : FlattenSeq(Pieces(f, Upto(B, n))) = Pieces(g, Upto(B, n))}
<1>1. ASSUME NEW i \in B PROVE f[i] \in Seq(Seq(A)) /\ g[i] \in Seq(A)
  <2>1. f[i] \in Seq(Seq(A))
    BY DEF Spells
  <2>2. QED
    BY <2>1, FlattenIn
<1>2. 0 \in P
  <2>1. Upto(B, 0) = {}
    BY UptoNothing
  <2>2. FlattenSeq(Pieces(f, Upto(B, 0))) = Pieces(g, Upto(B, 0))
    BY <2>1, NoPieces, FlattenEmpty
  <2>3. 0 \in 0 .. N
    OBVIOUS
  <2>4. QED
    BY <2>2, <2>3
<1>3. ASSUME NEW n \in 1 .. N, n - 1 \in P PROVE n \in P
  <2> DEFINE D == Upto(B, n - 1)
  <2>1. /\ Upto(B, n) = IF n \in B THEN D \cup {n} ELSE D
        /\ D \in SUBSET (1 .. N) /\ D \in SUBSET B
        /\ \A i \in D : i < n
    <3>1. D \in SUBSET B
      BY DEF Upto
    <3>2. QED
      BY <3>1, UptoGrows
  <2>2. FlattenSeq(Pieces(f, D)) = Pieces(g, D) /\ n \in 0 .. N
    BY <1>3
  <2> HIDE DEF D, P
  <2>3. CASE n \in B
    <3>1. /\ Spells(f, D, Seq(A)) /\ f[n] \in Seq(Seq(A))
          /\ Spells(g, D, A) /\ g[n] \in Seq(A)
      BY <1>1, <2>1, <2>3 DEF Spells
    <3>2. Pieces(f, D \cup {n}) = Pieces(f, D) \o f[n]
      <4>1. Comes(N, D, n, f, Seq(A))
        BY <2>1, <3>1 DEF Comes
      <4>2. Grows(f, D, n)
        BY <4>1, OnePieceMore
      <4>3. QED
        BY <4>2 DEF Grows
    <3>3. Pieces(g, D \cup {n}) = Pieces(g, D) \o g[n]
      <4>1. Comes(N, D, n, g, A)
        BY <2>1, <3>1 DEF Comes
      <4>2. Grows(g, D, n)
        BY <4>1, OnePieceMore
      <4>3. QED
        BY <4>2 DEF Grows
    <3>4. Pieces(f, D) \in Seq(Seq(A))
      BY <2>1, <3>1, PiecesList
    <3>5. FlattenSeq(Pieces(f, D) \o f[n]) = FlattenSeq(Pieces(f, D)) \o FlattenSeq(f[n])
      BY <3>1, <3>4, FlattenJoin
    <3>6. FlattenSeq(Pieces(f, Upto(B, n))) = Pieces(g, Upto(B, n))
      BY <1>1, <2>1, <2>2, <2>3, <3>2, <3>3, <3>5
    <3>7. QED
      BY <2>2, <3>6 DEF P
  <2>4. CASE n \notin B
    BY <2>1, <2>2, <2>4 DEF P
  <2>5. QED
    BY <2>3, <2>4
<1> HIDE DEF P
<1>4. N \in P
  BY <1>2, <1>3, FromTheStart
<1>5. QED
  BY <1>4, UptoAll DEF P

(* The letters of paragraphs. *)
LEMMA LettersOfParagraph ==
  ASSUME NEW A, NEW text \in Seq(A)
  PROVE  /\ Letters(Paragraph(text)) = LettersOf(text)
         /\ Letters(<<text>>) = LettersOf(text)
         /\ Letters(<<>>) = <<>>
<1>1. Letters(<<>>) = <<>>
  BY FlattenEmpty, LettersOfNothing DEF Letters
<1>2. FlattenSeq(<<text>>) = text
  <2> DEFINE V == Seq(A)
  <2>1. <<>> \in Seq(V) /\ text \in V
    OBVIOUS
  <2> HIDE DEF V
  <2>2. Append(<<>>, text) = <<text>>
    OBVIOUS
  <2>3. FlattenSeq(Append(<<>>, text)) = FlattenSeq(<<>>) \o text
    BY <2>1, FlattenAppend DEF V
  <2>4. <<>> \o text = text
    OBVIOUS
  <2>5. QED
    BY <2>2, <2>3, <2>4, FlattenEmpty
<1>3. CASE text = <<>>
  BY <1>1, <1>2, <1>3, LettersOfNothing DEF Letters, Paragraph
<1>4. CASE text # <<>>
  BY <1>1, <1>2, <1>4 DEF Letters, Paragraph
<1>5. QED
  BY <1>3, <1>4

LEMMA BlockLettersJoin ==
  ASSUME NEW A, NEW a \in Seq(Seq(A)), NEW b \in Seq(Seq(A))
  PROVE  Letters(a \o b) = Letters(a) \o Letters(b)
<1>1. FlattenSeq(a) \in Seq(A) /\ FlattenSeq(b) \in Seq(A)
  BY FlattenIn
<1>2. FlattenSeq(a \o b) = FlattenSeq(a) \o FlattenSeq(b)
  BY FlattenJoin
<1>3. QED
  BY <1>1, <1>2, LettersJoin DEF Letters

LEMMA BlockLettersOfPieces ==
  ASSUME NEW N \in Nat, NEW B \in SUBSET (1 .. N), NEW A, NEW f, Spells(f, B, Seq(A)),
         NEW g, \A i \in B : g[i] = Letters(f[i])
  PROVE  Letters(Pieces(f, B)) = Pieces(g, B)
<1> DEFINE h == [i \in B |-> FlattenSeq(f[i])]
<1>1. \A i \in B : h[i] = FlattenSeq(f[i])
  OBVIOUS
<1> HIDE DEF h
<1>2. FlattenSeq(Pieces(f, B)) = Pieces(h, B)
  BY <1>1, FlattenOfPieces
<1>3. Spells(h, B, A)
  <2>1. ASSUME NEW i \in B PROVE h[i] \in Seq(A)
    <3>1. f[i] \in Seq(Seq(A))
      BY DEF Spells
    <3>2. QED
      BY <1>1, <3>1, FlattenIn
  <2>2. QED
    BY <2>1 DEF Spells
<1>4. \A i \in B : g[i] = LettersOf(h[i])
  BY <1>1 DEF Letters
<1>5. LettersOf(Pieces(h, B)) = Pieces(g, B)
  BY <1>3, <1>4, LettersOfPieces
<1>6. QED
  BY <1>2, <1>5 DEF Letters

-----------------------------------------------------------------------------
(* A page from its root down.                                              *)

LEMMA FromTheRoot ==
  ASSUME NEW N \in Nat, NEW P,
         \A j \in 1 .. N : (\A c \in 1 .. N : c < j => c \in P) => j \in P
  PROVE  \A j \in 1 .. N : j \in P
<1> DEFINE Bad == {j \in 1 .. N : j \notin P}
<1>1. Bad = {}
  <2> SUFFICES ASSUME Bad # {} PROVE FALSE
    OBVIOUS
  <2>1. PICK m \in Bad : \A l \in Bad : m <= l
    <3>1. Bad \in SUBSET Nat
      OBVIOUS
    <3> HIDE DEF Bad
    <3>2. QED
      BY <3>1, LeastNumber
  <2>2. \A c \in 1 .. N : c < m => c \in P
    BY <2>1
  <2>3. QED
    BY <2>2
<1>2. QED
  BY <1>1

(* What is below a node: itself, and what is below each node in it. *)
LEMMA BelowNode ==
  ASSUME NEW d, IsDocument(d), NEW i \in 1 .. Len(d)
  PROVE  /\ Within(d, i) \in SUBSET (1 .. Len(d))
         /\ i \in Within(d, i)
         /\ \A j \in Within(d, i) : j = i \/ (i \in Above(d, j) /\ i < j)
         /\ \A j \in 1 .. Len(d) : i \in Above(d, j) => j \in Within(d, i)
<1>1. Len(d) \in Nat
  BY DocumentShape
<1>2. \A j \in 1 .. Len(d) : i \in Above(d, j) => i < j
  BY DEF Above
<1>3. QED
  BY <1>1, <1>2 DEF Within

LEMMA ParentBelow ==
  ASSUME NEW d, IsDocument(d), NEW i \in 1 .. Len(d), NEW j \in Within(d, i), j # i
  PROVE  /\ d[j].up \in Within(d, i)
         /\ d[j].up \in 1 .. Len(d)
         /\ d[j].up < j
         /\ d[j].up \in Above(d, j)
         /\ j \in Nodes(d, d[j].up)
<1>1. Len(d) \in Nat /\ j \in 1 .. Len(d) /\ i \in Above(d, j) /\ i < j
  BY BelowNode, DocumentShape
<1>2. d[j].up \in Above(d, j)
  <2>1. j \in 2 .. Len(d)
    BY <1>1
  <2>2. QED
    BY <2>1, DocumentShape
<1> DEFINE p == d[j].up
<1>3. p \in 1 .. Len(d) /\ p < j /\ p >= i
  <2>1. p \in 1 .. j - 1
    BY <1>2 DEF Above
  <2>2. j \in i + 1 .. j
    BY <1>1
  <2>3. p >= i
    BY <1>1, <2>2 DEF Above
  <2>4. QED
    BY <1>1, <2>1, <2>3
<1>4. p # i => i \in Above(d, p)
  <2>1. i \in 1 .. p - 1 \/ p = i
    BY <1>3
  <2>2. \A k \in i + 1 .. p : k \in i + 1 .. j
    BY <1>1, <1>3
  <2>3. \A k \in i + 1 .. p : d[k].up >= i
    BY <1>1, <2>2 DEF Above
  <2>4. QED
    BY <2>1, <2>3 DEF Above
<1>5. j \in Nodes(d, p)
  BY <1>1, <1>3 DEF Nodes
<1> HIDE DEF p
<1>6. p \in Within(d, i)
  BY <1>3, <1>4, BelowNode
<1>7. QED
  BY <1>2, <1>3, <1>5, <1>6 DEF p

LEMMA NodesAreBelow ==
  ASSUME NEW d, IsDocument(d), NEW i \in 1 .. Len(d), NEW c \in Nodes(d, i)
  PROVE  /\ c \in 1 .. Len(d) /\ i < c /\ d[c].up = i
         /\ i \in Above(d, c)
         /\ Within(d, c) \in SUBSET Within(d, i)
         /\ \A j \in Within(d, c) : i < j
<1>1. Len(d) \in Nat /\ c \in 1 .. Len(d) /\ i < c /\ d[c].up = i /\ c \in 2 .. Len(d)
  BY DocumentShape DEF Nodes
<1>2. i \in Above(d, c)
  BY <1>1, DocumentShape
<1>3. ASSUME NEW j \in Within(d, c) PROVE j \in Within(d, i) /\ i < j
  <2>1. j \in 1 .. Len(d) /\ (j = c \/ (c \in Above(d, j) /\ c < j))
    BY <1>1, BelowNode
  <2>2. i \in Above(d, j)
    <3>1. CASE j = c
      BY <1>2, <3>1
    <3>2. CASE j # c
      <4>1. j \in Nat /\ j <= Len(d) /\ c \in Above(d, j)
        BY <1>1, <2>1, <3>2
      <4>2. QED
        BY <1>2, <4>1, AboveIsTransitive
    <3>3. QED
      BY <3>1, <3>2
  <2>3. QED
    BY <1>1, <2>1, <2>2, BelowNode
<1>4. QED
  BY <1>1, <1>2, <1>3

LEMMA BelowIsBelowOne ==
  ASSUME NEW d, IsDocument(d), NEW i \in 1 .. Len(d), NEW j \in Within(d, i), j # i
  PROVE  \E c \in Nodes(d, i) : j \in Within(d, c)
<1> DEFINE N == Len(d)
           P == {k \in 1 .. N : k \in Within(d, i) /\ k # i =>
                                  \E c \in Nodes(d, i) : k \in Within(d, c)}
<1>1. N \in Nat
  BY DocumentShape
<1>2. ASSUME NEW k \in 1 .. N, \A m \in 1 .. N : m < k => m \in P
      PROVE  k \in P
  <2> SUFFICES ASSUME k \in Within(d, i), k # i
               PROVE  \E c \in Nodes(d, i) : k \in Within(d, c)
    OBVIOUS
  <2> DEFINE p == d[k].up
  <2>1. /\ p \in Within(d, i) /\ p \in 1 .. N /\ p < k /\ p \in Above(d, k)
        /\ k \in Nodes(d, p)
    BY ParentBelow
  <2>2. CASE p = i
    <3>1. k \in Within(d, k)
      BY BelowNode
    <3>2. QED
      BY <2>1, <2>2, <3>1
  <2>3. CASE p # i
    <3>1. PICK c \in Nodes(d, i) : p \in Within(d, c)
      BY <1>2, <2>1, <2>3
    <3>2. c \in 1 .. N
      BY NodesAreBelow
    <3> HIDE DEF p, N
    <3>3. k \in Within(d, p)
      <4>1. p \in 1 .. Len(d) /\ k \in 1 .. Len(d)
        BY <2>1 DEF N
      <4>2. QED
        BY <2>1, <4>1, BelowNode
    <3>4. c \in Above(d, k)
      <4>1. p = c \/ c \in Above(d, p)
        BY <3>1, <3>2, BelowNode DEF N
      <4>2. k \in Nat /\ k <= Len(d)
        BY <1>1 DEF N
      <4>3. QED
        BY <2>1, <4>1, <4>2, AboveIsTransitive
    <3>5. k \in Within(d, c)
      BY <3>2, <3>4, BelowNode DEF N
    <3>6. QED
      BY <3>5
  <2>4. QED
    BY <2>2, <2>3
<1>3. j \in 1 .. N
  BY BelowNode
<1> HIDE DEF P, N
<1>4. j \in P
  BY <1>1, <1>2, <1>3, FromTheRoot
<1>5. QED
  BY <1>4 DEF P

(* Nodes neither above the other: all below the first is before all below  *)
(* the second.                                                             *)
LEMMA BelowInOrder ==
  ASSUME NEW d, IsDocument(d), NEW b \in 1 .. Len(d), NEW c \in 1 .. Len(d),
         b < c, b \notin Above(d, c),
         NEW i \in Within(d, b), NEW j \in Within(d, c)
  PROVE  i < j
<1>1. Len(d) \in Nat /\ i \in 1 .. Len(d) /\ j \in 1 .. Len(d) /\ c <= j
  BY BelowNode, DocumentShape
<1>2. i < c
  <2> SUFFICES ASSUME i >= c PROVE FALSE
    BY <1>1
  <2>1. b \in Above(d, i)
    BY <1>1, BelowNode
  <2>2. b \in 1 .. c - 1 /\ \A k \in b + 1 .. c : k \in b + 1 .. i
    BY <1>1
  <2>3. \A k \in b + 1 .. c : d[k].up >= b
    BY <2>1, <2>2 DEF Above
  <2>4. QED
    BY <2>2, <2>3 DEF Above
<1>3. QED
  BY <1>1, <1>2

LEMMA NodesInOrder ==
  ASSUME NEW d, IsDocument(d), NEW i \in 1 .. Len(d),
         NEW b \in Nodes(d, i), NEW c \in Nodes(d, i), b < c,
         NEW k \in Within(d, b), NEW l \in Within(d, c)
  PROVE  k < l
<1>1. b \in 1 .. Len(d) /\ c \in 1 .. Len(d) /\ i < b /\ d[c].up = i /\ Len(d) \in Nat
  BY NodesAreBelow, DocumentShape
<1>2. b \notin Above(d, c)
  <2> SUFFICES ASSUME b \in Above(d, c) PROVE FALSE
    OBVIOUS
  <2>1. c \in b + 1 .. c
    BY <1>1
  <2>2. d[c].up >= b
    BY <2>1 DEF Above
  <2>3. QED
    BY <1>1, <2>2
<1>3. QED
  BY <1>1, <1>2, BelowInOrder

(* Of two nodes above a third the first is above the second. *)
LEMMA AboveIsChain ==
  ASSUME NEW d, NEW j \in Nat, NEW s \in Above(d, j), NEW t \in Above(d, j), s < t
  PROVE  s \in Above(d, t)
<1>1. s \in 1 .. t - 1 /\ \A k \in s + 1 .. t : k \in s + 1 .. j
  BY DEF Above
<1>2. QED
  BY <1>1 DEF Above

LEMMA NothingInIt ==
  ASSUME NEW d, IsDocument(d), NEW i \in 1 .. Len(d), Nodes(d, i) = {}
  PROVE  Within(d, i) = {i}
<1>1. \A j \in Within(d, i) : j = i
  BY BelowIsBelowOne
<1>2. QED
  BY <1>1, BelowNode

-----------------------------------------------------------------------------
(* How a page is laid out.                                                 *)

Kinds == {"blocks", "inline", "raw", "items", "terms", "rows", "cells", "nothing"}

LEMMA LayoutIsKind == \A kind \in Kinds : \A tag : Layout(kind, tag) \in Kinds
<1>1. \A tag : BlockLayout(tag) \in Kinds
  BY DEF BlockLayout, Kinds
<1>2. \A tag : InlineLayout(tag) \in Kinds
  BY DEF InlineLayout, Kinds
<1>3. QED
  BY <1>1, <1>2 DEF Layout, Kinds

LaidOutBody(d, i, laid) ==
  IF d[i].up = 0 THEN "blocks"
  ELSE IF IsElement(d, i) THEN Layout(laid[d[i].up], d[i].tag)
  ELSE laid[d[i].up]

LEMMA LaidOutSteps ==
  ASSUME NEW d, IsDocument(d)
  PROVE  \E laid \in [1 .. Len(d) -> Kinds] :
           \A i \in 1 .. Len(d) : LaidOut(d, i) = laid[i] /\ laid[i] = LaidOutBody(d, i, laid)
<1> DEFINE N == Len(d)
           V == Kinds
           Turned(u) == [i \in 1 .. N |-> u[N + 1 - i]]
           G == [x \in (1 .. N) \X [1 .. N -> V] |->
                   LaidOutBody(d, N + 1 - x[1], Turned(x[2]))]
           Body(u) == [j \in DOMAIN d |->
             IF d[j].up = 0 THEN "blocks"
             ELSE IF IsElement(d, j) THEN Layout(u[d[j].up], d[j].tag)
             ELSE u[d[j].up]]
           laid == CHOOSE u : u = Body(u)
<1>1. N \in Nat /\ DOMAIN d = 1 .. N
  BY DocumentShape
<1>2. ASSUME NEW i \in 1 .. N
      PROVE  d[i].up = 0 \/ (d[i].up \in 1 .. N /\ d[i].up < i)
  <2>1. i = 1 \/ i \in 2 .. N
    OBVIOUS
  <2>2. i \in 2 .. N => d[i].up \in 1 .. N /\ d[i].up < i
    <3>1. i \in 2 .. N => d[i].up \in Above(d, i)
      BY DocumentShape
    <3>2. QED
      BY <1>1, <3>1 DEF Above
  <2>3. d[1].up = 0
    BY DocumentShape
  <2>4. QED
    BY <2>1, <2>2, <2>3
<1>3. ASSUME NEW i \in 1 .. N, NEW v \in [1 .. N -> V] PROVE LaidOutBody(d, i, v) \in V
  <2> HIDE DEF N
  <2>1. d[i].up # 0 => v[d[i].up] \in V
    BY <1>2
  <2>2. "blocks" \in V
    BY DEF Kinds
  <2> HIDE DEF V
  <2>3. QED
    BY <2>1, <2>2, LayoutIsKind DEF LaidOutBody, V
<1>4. ASSUME NEW u \in [1 .. N -> V]
      PROVE  /\ Turned(u) \in [1 .. N -> V]
             /\ \A j \in 1 .. N : N + 1 - j \in 1 .. N /\ N + 1 - (N + 1 - j) = j
             /\ \A j \in 1 .. N : Turned(u)[j] = u[N + 1 - j]
  <2>1. \A j \in 1 .. N : N + 1 - j \in 1 .. N /\ N + 1 - (N + 1 - j) = j
    BY <1>1
  <2> HIDE DEF N, V
  <2>2. QED
    BY <2>1
<1>5. G \in [(1 .. N) \X [1 .. N -> V] -> V]
  <2>1. ASSUME NEW x \in (1 .. N) \X [1 .. N -> V]
        PROVE  LaidOutBody(d, N + 1 - x[1], Turned(x[2])) \in V
    <3>1. x[1] \in 1 .. N /\ x[2] \in [1 .. N -> V]
      OBVIOUS
    <3> HIDE DEF V, N, Turned
    <3>2. QED
      BY <1>3, <1>4, <3>1
  <2> HIDE DEF V, N, Turned
  <2>2. QED
    BY <2>1
<1>6. ASSUME NEW j \in 1 .. N, NEW u \in [1 .. N -> V]
      PROVE  G[<<j, u>>] = LaidOutBody(d, N + 1 - j, Turned(u))
  <2> HIDE DEF V, N, Turned
  <2> QED
    OBVIOUS
<1>7. Forward(V, N, G)
  <2> SUFFICES ASSUME NEW j \in 1 .. N, NEW u \in [1 .. N -> V], NEW v \in [1 .. N -> V],
                      \A c \in 1 .. N : c > j => u[c] = v[c]
               PROVE  G[<<j, u>>] = G[<<j, v>>]
    BY DEF Forward
  <2> DEFINE i == N + 1 - j
             p == d[i].up
  <2>1. i \in 1 .. N
    BY <1>1
  <2>2. p # 0 => Turned(u)[p] = Turned(v)[p]
    <3>1. p # 0 => p \in 1 .. N /\ N + 1 - p \in 1 .. N /\ N + 1 - p > j
      <4>1. p # 0 => p \in 1 .. N /\ p < i
        BY <1>2, <2>1
      <4> HIDE DEF p
      <4>2. QED
        BY <1>1, <4>1
    <3> HIDE DEF V, N, Turned, i, p
    <3>2. QED
      BY <1>4, <3>1
  <2> HIDE DEF V, N, G, Turned
  <2>3. LaidOutBody(d, i, Turned(u)) = LaidOutBody(d, i, Turned(v))
    BY <2>2 DEF LaidOutBody
  <2>4. QED
    BY <1>6, <2>3
<1> HIDE DEF G
<1>8. PICK f \in [1 .. N -> V] : \A j \in 1 .. N : f[j] = G[<<j, f>>]
  <2> DEFINE a == "blocks"
  <2>1. a \in V
    BY DEF Kinds
  <2> HIDE DEF V, N, a
  <2>2. Settles(V, N, G)
    BY <1>1, <1>5, <1>7, <2>1, Downward
  <2>3. QED
    BY <2>2 DEF Settles
<1> DEFINE v == Turned(f)
<1>9. v \in [1 .. N -> V] /\ \A i \in 1 .. N : v[i] = LaidOutBody(d, i, v)
  <2> HIDE DEF V, N, Turned
  <2>1. v \in [1 .. N -> V]
    BY <1>4
  <2>2. ASSUME NEW i \in 1 .. N PROVE v[i] = LaidOutBody(d, i, v)
    <3>1. N + 1 - i \in 1 .. N /\ N + 1 - (N + 1 - i) = i /\ v[i] = f[N + 1 - i]
      BY <1>4
    <3>2. f[N + 1 - i] = G[<<N + 1 - i, f>>]
      BY <1>8, <3>1
    <3>3. G[<<N + 1 - i, f>>] = LaidOutBody(d, N + 1 - (N + 1 - i), v)
      BY <1>6, <3>1
    <3>4. QED
      BY <3>1, <3>2, <3>3
  <2>3. QED
    BY <2>1, <2>2
<1>10. v = Body(v)
  <2> HIDE DEF V, N, v
  <2>1. v = [j \in DOMAIN d |-> LaidOutBody(d, j, v)]
    BY <1>1, <1>9
  <2>2. QED
    BY <2>1 DEF LaidOutBody
<1> HIDE DEF v
<1>11. laid = Body(laid)
  BY <1>10
<1> HIDE DEF laid
<1>12. \A j \in 1 .. N : laid[j] = LaidOutBody(d, j, laid)
  <2>1. laid = [j \in DOMAIN d |-> LaidOutBody(d, j, laid)]
    BY <1>11 DEF LaidOutBody
  <2>2. QED
    BY <1>1, <2>1
<1>13. \A i \in 1 .. N : LaidOut(d, i) = laid[i]
  BY DEF LaidOut, laid, Body
<1>14. laid \in [1 .. N -> Kinds]
  <2> DEFINE P == {j \in 1 .. N : laid[j] \in V}
  <2>1. ASSUME NEW j \in 1 .. N, \A c \in 1 .. N : c < j => c \in P PROVE j \in P
    <3>1. d[j].up # 0 => laid[d[j].up] \in V
      BY <1>2, <2>1
    <3>2. "blocks" \in V
      BY DEF Kinds
    <3>3. LaidOutBody(d, j, laid) \in V
      <4> HIDE DEF V, N, Body
      <4> QED
        BY <3>1, <3>2, LayoutIsKind DEF LaidOutBody, V
    <3> HIDE DEF Body, V
    <3>4. QED
      BY <1>12, <3>3
  <2> HIDE DEF P, N, V, Body
  <2>2. \A j \in 1 .. N : j \in P
    BY <1>1, <2>1, FromTheRoot
  <2>3. \A j \in 1 .. N : laid[j] \in V
    BY <2>2 DEF P
  <2>4. laid = [j \in 1 .. N |-> laid[j]]
    BY <1>1, <1>11 DEF Body
  <2>5. QED
    BY <2>3, <2>4 DEF V
<1> HIDE DEF Body
<1>15. QED
  BY <1>12, <1>13, <1>14

-----------------------------------------------------------------------------
(* What is shown of what is below a node.                                  *)

Texts(d) == [i \in DOMAIN d |-> d[i].text]

ShownNodes(d) == {i \in DOMAIN d : LaidOut(d, i) \in {"blocks", "inline", "raw"}}

ShownIn(d, i) == Pieces(Texts(d), Within(d, i) \cap ShownNodes(d))
ShownFrom(d) == [i \in DOMAIN d |-> ShownIn(d, i)]

(* A page of letters of A. *)
Lettered(d, A) ==
  /\ IsDocument(d)
  /\ Worded(d, A)
  /\ \A i \in DOMAIN d : \A k \in DOMAIN d[i].text : d[i].text[k] \notin Marks

LEMMA TextsAreWorded ==
  ASSUME NEW d, NEW A, Lettered(d, A)
  PROVE  /\ Len(d) \in Nat /\ DOMAIN d = 1 .. Len(d)
         /\ \A i \in 1 .. Len(d) : Texts(d)[i] = d[i].text /\ d[i].text \in Seq(A)
         /\ \A B \in SUBSET (1 .. Len(d)) :
              /\ Spells(Texts(d), B, A)
              /\ Pieces(Texts(d), B) = TextOfAll(d, B)
              /\ Pieces(Texts(d), B) \in Seq(A)
<1>1. /\ Len(d) \in Nat /\ DOMAIN d = 1 .. Len(d)
      /\ \A i \in 1 .. Len(d) : Texts(d)[i] = d[i].text /\ d[i].text \in Seq(A)
  BY DEF Lettered, Worded, Texts
<1>2. ASSUME NEW B \in SUBSET (1 .. Len(d))
      PROVE  /\ Spells(Texts(d), B, A)
             /\ Pieces(Texts(d), B) = TextOfAll(d, B)
             /\ Pieces(Texts(d), B) \in Seq(A)
  <2>1. Spells(Texts(d), B, A)
    BY <1>1 DEF Spells
  <2>2. Pieces(Texts(d), B) \in Seq(A)
    BY <1>1, <2>1, PiecesList
  <2> DEFINE n == Cardinality(B)
  <2>3. \A k \in 1 .. n : Ordered(B)[k] \in B
    BY <1>1, FewNodes
  <2>4. \A k \in 1 .. n : Texts(d)[Ordered(B)[k]] = d[Ordered(B)[k]].text
    BY <1>1, <2>3
  <2>5. TextOfAll(d, B) = FlattenSeq([k \in 1 .. n |-> d[Ordered(B)[k]].text])
    BY DEF TextOfAll, Gather
  <2>6. [k \in 1 .. n |-> Texts(d)[Ordered(B)[k]]] = [k \in 1 .. n |-> d[Ordered(B)[k]].text]
    <3> HIDE DEF n
    <3> QED
      BY <2>4
  <2>7. QED
    BY <2>1, <2>2, <2>5, <2>6 DEF Pieces
<1>3. QED
  BY <1>1, <1>2

LEMMA WholeIsPlain ==
  ASSUME NEW d, NEW A, Lettered(d, A), NEW i \in 1 .. Len(d)
  PROVE  /\ LettersOf(d[i].text) = d[i].text
         /\ LettersOf(TextOf(d, i)) = TextOf(d, i)
         /\ TextOf(d, i) \in Seq(A)
<1>1. ASSUME NEW j \in 1 .. Len(d) PROVE LettersOf(d[j].text) = d[j].text
  <2>1. d[j].text \in Seq(A)
    BY TextsAreWorded
  <2>2. \A k \in DOMAIN d[j].text : d[j].text[k] \notin Marks
    BY TextsAreWorded DEF Lettered
  <2>3. QED
    BY <2>1, <2>2, LettersOfPlain
<1>2. /\ Within(d, i) \in SUBSET (1 .. Len(d)) /\ Len(d) \in Nat
      /\ TextOf(d, i) = Pieces(Texts(d), Within(d, i))
      /\ Pieces(Texts(d), Within(d, i)) \in Seq(A)
      /\ Spells(Texts(d), Within(d, i), A)
  <2>1. Within(d, i) \in SUBSET (1 .. Len(d))
    BY BelowNode DEF Lettered
  <2>2. QED
    BY <2>1, TextsAreWorded DEF TextOf
<1>3. \A j \in Within(d, i) : Texts(d)[j] = LettersOf(Texts(d)[j])
  BY <1>1, <1>2, TextsAreWorded
<1>4. LettersOf(Pieces(Texts(d), Within(d, i))) = Pieces(Texts(d), Within(d, i))
  BY <1>2, <1>3, LettersOfPieces
<1>5. QED
  BY <1>1, <1>2, <1>4

LEMMA ShownInSteps ==
  ASSUME NEW d, NEW A, Lettered(d, A), NEW i \in 1 .. Len(d)
  PROVE  /\ ShownIn(d, i) \in Seq(A)
         /\ ShownFrom(d)[i] = ShownIn(d, i)
         /\ ShownIn(d, i) = (IF i \in ShownNodes(d) THEN d[i].text ELSE <<>>)
                            \o Pieces(ShownFrom(d), Nodes(d, i))
<1> DEFINE N == Len(d)
           T == Texts(d)
           S == ShownNodes(d)
           W == [c \in 1 .. N |-> Within(d, c) \cap S]
           B == Nodes(d, i)
           own == {i} \cap S
           rest == Union(W, B)
<1>1. N \in Nat /\ DOMAIN d = 1 .. N /\ IsDocument(d) /\ \A c \in 1 .. N : T[c] = d[c].text
  BY TextsAreWorded DEF Lettered
<1>2. \A C \in SUBSET (1 .. N) : Spells(T, C, A) /\ Pieces(T, C) \in Seq(A)
  BY TextsAreWorded
<1>3. ASSUME NEW c \in 1 .. N
      PROVE  /\ W[c] = Within(d, c) \cap S
             /\ W[c] \in SUBSET (1 .. N)
             /\ ShownIn(d, c) = Pieces(T, W[c])
             /\ ShownIn(d, c) \in Seq(A)
             /\ ShownFrom(d)[c] = ShownIn(d, c)
  <2>1. Within(d, c) \in SUBSET (1 .. N)
    BY <1>1, BelowNode
  <2>2. W[c] = Within(d, c) \cap S /\ W[c] \in SUBSET (1 .. N)
    BY <2>1
  <2>3. ShownIn(d, c) = Pieces(T, W[c])
    BY <2>2 DEF ShownIn
  <2>4. ShownFrom(d)[c] = ShownIn(d, c)
    BY <1>1 DEF ShownFrom
  <2> HIDE DEF W
  <2>5. QED
    BY <1>2, <2>2, <2>3, <2>4
<1>4. ASSUME NEW c \in B
      PROVE  c \in 1 .. N /\ i < c /\ Within(d, c) \in SUBSET Within(d, i)
             /\ \A j \in Within(d, c) : i < j
  BY <1>1, NodesAreBelow
<1>5. B \in SUBSET (1 .. N)
  BY <1>4
<1>6. Within(d, i) \cap S = own \cup rest
  <2>1. ASSUME NEW j \in Within(d, i) \cap S PROVE j \in own \cup rest
    <3>1. CASE j = i
      BY <3>1
    <3>2. CASE j # i
      <4>1. PICK c \in B : j \in Within(d, c)
        BY <1>1, <3>2, BelowIsBelowOne
      <4>2. j \in W[c]
        BY <1>3, <1>4, <4>1
      <4> HIDE DEF W, own
      <4>3. j \in rest
        BY <4>2, UnionGrows
      <4>4. QED
        BY <4>3
    <3>3. QED
      BY <3>1, <3>2
  <2>2. ASSUME NEW j \in rest PROVE j \in Within(d, i) \cap S
    <3>1. PICK c \in B : j \in W[c]
      BY UnionGrows
    <3>2. QED
      BY <1>3, <1>4, <3>1
  <2>3. own \in SUBSET (Within(d, i) \cap S)
    BY <1>1, BelowNode
  <2> HIDE DEF own, rest
  <2>4. QED
    BY <2>1, <2>2, <2>3
<1>7. rest \in SUBSET (1 .. N) /\ \A j \in rest : i < j
  <2>1. ASSUME NEW j \in rest PROVE j \in 1 .. N /\ i < j
    <3>1. PICK c \in B : j \in W[c]
      BY UnionGrows
    <3>2. QED
      BY <1>3, <1>4, <3>1
  <2> HIDE DEF rest
  <2>2. QED
    BY <2>1
<1>8. Adjoin(N, own, rest, T, A)
  <2>1. own \in SUBSET (1 .. N) /\ Precedes(own, rest)
    BY <1>7 DEF Precedes
  <2> HIDE DEF own, rest, T
  <2>2. QED
    BY <1>1, <1>2, <1>7, <2>1 DEF Adjoin
<1>9. Grouped(W, B, N)
  <2>1. ASSUME NEW b \in B, NEW c \in B, b < c PROVE Precedes(W[b], W[c])
    <3>1. \A k \in Within(d, b), l \in Within(d, c) : k < l
      BY <1>1, <2>1, NodesInOrder
    <3>2. W[b] \in SUBSET Within(d, b) /\ W[c] \in SUBSET Within(d, c)
      BY <1>3, <1>4
    <3> HIDE DEF W
    <3>3. QED
      BY <3>1, <3>2 DEF Precedes
  <2> HIDE DEF W, B
  <2>2. QED
    BY <1>3, <1>5, <2>1 DEF Grouped
<1>10. Says(ShownFrom(d), T, W, B)
  <2> HIDE DEF W, B
  <2> QED
    BY <1>3, <1>5 DEF Says
<1>11. Pieces(T, rest) = Pieces(ShownFrom(d), B)
  <2>1. Spells(T, Union(W, B), A)
    <3> HIDE DEF W, B, T
    <3> QED
      BY <1>2, <1>7
  <2> HIDE DEF W, B, T
  <2>2. QED
    BY <1>1, <1>5, <1>9, <1>10, <2>1, PiecesGrouped
<1>12. Pieces(T, own) = IF i \in S THEN d[i].text ELSE <<>>
  <2>1. CASE i \in S
    <3>1. own = {} \cup {i}
      BY <2>1
    <3>2. Comes(N, {}, i, T, A)
      <4>1. T[i] \in Seq(A)
        BY TextsAreWorded
      <4> HIDE DEF T
      <4>2. QED
        BY <1>1, <4>1 DEF Comes, Spells
    <3>3. Grows(T, {}, i)
      BY <3>2, OnePieceMore
    <3>4. <<>> \o T[i] = T[i]
      <4>1. T[i] \in Seq(A)
        BY TextsAreWorded
      <4> HIDE DEF T
      <4>2. QED
        BY <4>1
    <3>5. T[i] = d[i].text
      BY <1>1
    <3> HIDE DEF T, own
    <3>6. Pieces(T, {} \cup {i}) = Pieces(T, {}) \o T[i]
      BY <3>3 DEF Grows
    <3>7. Pieces(T, {}) = <<>>
      BY NoPieces
    <3>8. QED
      BY <2>1, <3>1, <3>4, <3>5, <3>6, <3>7
  <2>2. CASE i \notin S
    <3>1. own = {}
      BY <2>2
    <3>2. QED
      BY <2>2, <3>1, NoPieces
  <2>3. QED
    BY <2>1, <2>2
<1>13. Splits(T, own, rest)
  <2> HIDE DEF own, rest, T
  <2> QED
    BY <1>8, PiecesJoin
<1>14. ShownIn(d, i) = Pieces(T, own \cup rest)
  BY <1>6 DEF ShownIn
<1> HIDE DEF own, rest, T
<1>15. QED
  BY <1>3, <1>11, <1>12, <1>13, <1>14 DEF Splits

-----------------------------------------------------------------------------
LEMMA KindOfNode ==
  ASSUME NEW d, IsDocument(d), NEW i \in 1 .. Len(d), NEW c \in Nodes(d, i)
  PROVE  LaidOut(d, c) = IF IsElement(d, c) THEN Layout(LaidOut(d, i), d[c].tag)
                         ELSE LaidOut(d, i)
<1>1. c \in 1 .. Len(d) /\ d[c].up = i /\ i # 0
  BY NodesAreBelow
<1>2. PICK laid \in [1 .. Len(d) -> Kinds] :
        \A j \in 1 .. Len(d) : LaidOut(d, j) = laid[j] /\ laid[j] = LaidOutBody(d, j, laid)
  BY LaidOutSteps
<1>3. QED
  BY <1>1, <1>2 DEF LaidOutBody

LEMMA SettledLayouts ==
  \A tag : Layout("raw", tag) = "raw" /\ Layout("nothing", tag) = "nothing"
  BY DEF Layout

LEMMA SameKindBelow ==
  ASSUME NEW d, IsDocument(d), NEW i \in 1 .. Len(d), LaidOut(d, i) \in {"raw", "nothing"},
         NEW j \in Within(d, i)
  PROVE  LaidOut(d, j) = LaidOut(d, i)
<1> DEFINE N == Len(d)
           P == {k \in 1 .. N : k \in Within(d, i) => LaidOut(d, k) = LaidOut(d, i)}
<1>1. N \in Nat /\ j \in 1 .. N
  BY DocumentShape, BelowNode
<1>2. ASSUME NEW k \in 1 .. N, \A m \in 1 .. N : m < k => m \in P PROVE k \in P
  <2> SUFFICES ASSUME k \in Within(d, i), k # i PROVE LaidOut(d, k) = LaidOut(d, i)
    OBVIOUS
  <2> DEFINE p == d[k].up
  <2>1. p \in Within(d, i) /\ p \in 1 .. N /\ p < k /\ k \in Nodes(d, p)
    BY ParentBelow
  <2>2. LaidOut(d, p) = LaidOut(d, i)
    BY <1>2, <2>1
  <2> HIDE DEF p, P
  <2>3. LaidOut(d, k) = IF IsElement(d, k) THEN Layout(LaidOut(d, p), d[k].tag)
                        ELSE LaidOut(d, p)
    BY <2>1, KindOfNode
  <2>4. QED
    BY <2>2, <2>3, SettledLayouts
<1> HIDE DEF P, N
<1>3. j \in P
  BY <1>1, <1>2, FromTheRoot
<1>4. QED
  BY <1>3 DEF P

LEMMA ShownOfKind ==
  ASSUME NEW d, NEW A, Lettered(d, A), NEW i \in 1 .. Len(d)
  PROVE  /\ LaidOut(d, i) = "raw" => ShownIn(d, i) = TextOf(d, i)
         /\ LaidOut(d, i) = "nothing" => ShownIn(d, i) = <<>>
         /\ Nodes(d, i) = {} =>
              ShownIn(d, i) = IF i \in ShownNodes(d) THEN d[i].text ELSE <<>>
<1>1. IsDocument(d) /\ DOMAIN d = 1 .. Len(d) /\ Within(d, i) \in SUBSET (1 .. Len(d))
  <2>1. IsDocument(d) /\ DOMAIN d = 1 .. Len(d)
    BY TextsAreWorded DEF Lettered
  <2>2. QED
    BY <2>1, BelowNode
<1>2. ASSUME LaidOut(d, i) = "raw" PROVE ShownIn(d, i) = TextOf(d, i)
  <2>1. \A j \in Within(d, i) : LaidOut(d, j) = "raw"
    BY <1>1, <1>2, SameKindBelow
  <2>2. Within(d, i) \cap ShownNodes(d) = Within(d, i)
    BY <1>1, <2>1 DEF ShownNodes
  <2>3. Pieces(Texts(d), Within(d, i)) = TextOfAll(d, Within(d, i))
    BY <1>1, TextsAreWorded
  <2>4. QED
    BY <2>2, <2>3 DEF ShownIn, TextOf
<1>3. ASSUME LaidOut(d, i) = "nothing" PROVE ShownIn(d, i) = <<>>
  <2>1. \A j \in Within(d, i) : LaidOut(d, j) = "nothing"
    BY <1>1, <1>3, SameKindBelow
  <2>2. Within(d, i) \cap ShownNodes(d) = {}
    BY <1>1, <2>1 DEF ShownNodes
  <2>3. QED
    BY <2>2, NoPieces DEF ShownIn
<1>4. ASSUME Nodes(d, i) = {}
      PROVE  ShownIn(d, i) = IF i \in ShownNodes(d) THEN d[i].text ELSE <<>>
  <2> DEFINE own == IF i \in ShownNodes(d) THEN d[i].text ELSE <<>>
  <2>1. ShownIn(d, i) = own \o Pieces(ShownFrom(d), {})
    BY <1>4, ShownInSteps
  <2>2. own \in Seq(A)
    BY TextsAreWorded
  <2>3. own \o <<>> = own
    <3> HIDE DEF own
    <3> QED
      BY <2>2
  <2>4. Pieces(ShownFrom(d), {}) = <<>>
    BY NoPieces
  <2>5. ShownIn(d, i) = own
    BY <2>1, <2>3, <2>4
  <2>6. QED
    BY <2>5
<1>5. QED
  BY <1>2, <1>3, <1>4

-----------------------------------------------------------------------------
(* Inline content is rendered exactly.                                     *)

(* The parser gives texts and rules no content. *)
Leafy(d) ==
  \A i \in DOMAIN d : /\ d[i].tag \in {"#text", "hr"} => Nodes(d, i) = {}
                      /\ d[i].tag = "hr" => d[i].text = <<>>

(* A node that is laid out as inline content is. *)
Inlined(d, c) ==
  IF IsElement(d, c) THEN LaidOut(d, c) = InlineLayout(d[c].tag)
  ELSE LaidOut(d, c) = "inline"

LEMMA LettersMarked ==
  ASSUME NEW A, Marks \subseteq A, NEW mode, NEW mark \in Marks, NEW x \in Seq(A)
  PROVE  Marked(mode, x, mark) \in Seq(A) /\ LettersOf(Marked(mode, x, mark)) = LettersOf(x)
<1>1. <<mark>> \o x \in Seq(A) /\ LettersOf(<<mark>> \o x) = LettersOf(x)
  BY LettersBehindMark
<1> DEFINE y == <<mark>> \o x
<1>2. y \o <<mark>> \in Seq(A) /\ LettersOf(y \o <<mark>>) = LettersOf(y)
  <2>1. y \in Seq(A)
    BY <1>1
  <2> HIDE DEF y
  <2>2. QED
    BY <2>1, LettersBehindMark
<1>3. LettersOf(y \o <<mark>>) = LettersOf(x)
  BY <1>1, <1>2
<1>4. Marked(mode, x, mark) = IF mode = "markdown" /\ x # <<>> THEN y \o <<mark>> ELSE x
  BY DEF Marked
<1> HIDE DEF y
<1>5. QED
  BY <1>2, <1>3, <1>4

LEMMA LettersOfCode ==
  ASSUME NEW d, NEW A, Lettered(d, A), NEW c \in 1 .. Len(d), NEW mode
  PROVE  LettersOf(Code(d, c, mode)) = TextOf(d, c)
<1> DEFINE t == TextOf(d, c)
           y == <<"tick">> \o t
<1>1. Marks \subseteq A /\ t \in Seq(A) /\ LettersOf(t) = t /\ "tick" \in Marks
  BY WholeIsPlain DEF Lettered, Worded, Marks
<1> HIDE DEF t
<1>2. y \in Seq(A) /\ LettersOf(y) = LettersOf(t)
  BY <1>1, LettersBehindMark
<1> HIDE DEF y
<1>3. LettersOf(y \o <<"tick">>) = LettersOf(y)
  BY <1>1, <1>2, LettersBehindMark
<1>4. Code(d, c, mode) = IF mode = "markdown" THEN y \o <<"tick">> ELSE t
  BY DEF Code, t, y
<1>5. QED
  BY <1>1, <1>2, <1>3, <1>4 DEF t

LEMMA LettersOfLink ==
  ASSUME NEW d, NEW A, Marks \subseteq A, NEW c, NEW mode, NEW x \in Seq(A)
  PROVE  LettersOf(Link(d, c, mode, x)) = LettersOf(x)
<1> DEFINE label == IF x = <<>> THEN <<"url">> ELSE x
           y == <<"[">> \o label
           z == y \o <<"]">>
<1>1. {"url", "[", "]"} \subseteq Marks
  BY DEF Marks
<1>2. label \in Seq(A) /\ LettersOf(label) = LettersOf(x)
  <2>1. CASE x = <<>>
    <3>1. LettersOf(<<"url">>) = <<>> /\ <<"url">> \in Seq(A)
      BY <1>1, LettersOfMark
    <3>2. QED
      BY <2>1, <3>1, LettersOfNothing
  <2>2. CASE x # <<>>
    BY <2>2
  <2>3. QED
    BY <2>1, <2>2
<1> HIDE DEF label
<1>3. y \in Seq(A) /\ LettersOf(y) = LettersOf(label)
  BY <1>1, <1>2, LettersBehindMark
<1> HIDE DEF y
<1>4. z \in Seq(A) /\ LettersOf(z) = LettersOf(y)
  BY <1>1, <1>3, LettersBehindMark
<1>5. y \o <<"]", "url">> = z \o <<"url">>
  <2>1. <<"]">> \in Seq(A) /\ <<"url">> \in Seq(A)
    BY <1>1
  <2>2. Chained(y, <<"]">>, <<"url">>)
    BY <1>3, <2>1, Associative
  <2>3. <<"]">> \o <<"url">> = <<"]", "url">>
    <3> DEFINE w == <<"]">> \o <<"url">>
    <3>1. w = [k \in 1 .. 2 |-> w[k]] /\ w[1] = "]" /\ w[2] = "url"
      BY <2>1
    <3> HIDE DEF w
    <3>2. w = <<"]", "url">>
      BY <3>1
    <3>3. QED
      BY <3>2 DEF w
  <2>4. QED
    BY <2>2, <2>3 DEF Chained
<1> HIDE DEF z
<1>6. LettersOf(z \o <<"url">>) = LettersOf(z)
  BY <1>1, <1>4, LettersBehindMark
<1>7. Link(d, c, mode, x)
      = IF mode = "markdown" /\ Has(d, c, "href") THEN y \o <<"]", "url">> ELSE x
  BY DEF Link, y, label
<1>8. QED
  BY <1>2, <1>3, <1>4, <1>5, <1>6, <1>7

LEMMA InlineNodeShown ==
  ASSUME NEW d, NEW A, Lettered(d, A), Leafy(d), NEW c \in 1 .. Len(d), Inlined(d, c),
         NEW mode, NEW x \in Seq(A),
         LaidOut(d, c) = "inline" => LettersOf(x) = ShownIn(d, c)
  PROVE  LettersOf(InlineNode(d, c, mode, x)) = ShownIn(d, c)
<1> DEFINE tag == d[c].tag
           kind == LaidOut(d, c)
           shown == ShownIn(d, c)
<1>1. /\ kind = "raw" => shown = TextOf(d, c)
      /\ kind = "nothing" => shown = <<>>
      /\ Nodes(d, c) = {} /\ kind = "inline" => shown = d[c].text
  <2>1. DOMAIN d = 1 .. Len(d)
    BY TextsAreWorded
  <2>2. kind = "inline" => c \in ShownNodes(d)
    BY <2>1 DEF ShownNodes
  <2>3. QED
    BY <2>2, ShownOfKind
<1>2. Marks \subseteq A /\ DOMAIN d = 1 .. Len(d)
  BY TextsAreWorded DEF Lettered, Worded
<1>3. CASE tag = "#text"
  <2>1. kind = "inline" /\ Nodes(d, c) = {}
    BY <1>2, <1>3 DEF Inlined, IsElement, Leafy
  <2>2. InlineNode(d, c, mode, x) = d[c].text
    BY <1>3 DEF InlineNode, SkippedElements
  <2>3. LettersOf(d[c].text) = d[c].text
    BY WholeIsPlain
  <2>4. QED
    BY <1>1, <2>1, <2>2, <2>3
<1>4. CASE tag # "#text"
  <2>1. kind = InlineLayout(tag)
    BY <1>4 DEF Inlined, IsElement
  <2> HIDE DEF kind, shown, tag
  <2>2. CASE tag \in Dropped \cup {"p", "div", "section", "article"}
    <3>1. shown = <<>>
      <4>1. InlineLayout(tag) = "nothing"
        BY <2>2 DEF InlineLayout, Dropped, Verbatim, SkippedElements
      <4>2. QED
        BY <1>1, <2>1, <4>1
    <3>2. InlineNode(d, c, mode, x) = <<>> \/ InlineNode(d, c, mode, x) = <<"url">>
      BY <2>2 DEF InlineNode, Dropped, SkippedElements, tag
    <3>3. LettersOf(<<"url">>) = <<>>
      BY LettersOfMark DEF Marks
    <3>4. QED
      BY <3>1, <3>2, <3>3, LettersOfNothing DEF shown
  <2>3. CASE tag \in Verbatim
    <3>1. kind = "raw"
      BY <2>1, <2>3 DEF InlineLayout, Verbatim, Dropped, SkippedElements
    <3>2. InlineNode(d, c, mode, x) = Code(d, c, mode)
      BY <2>3 DEF InlineNode, Verbatim, SkippedElements, tag
    <3>3. QED
      BY <1>1, <3>1, <3>2, LettersOfCode DEF shown
  <2>4. CASE tag \notin Verbatim \cup Dropped \cup {"p", "div", "section", "article"}
    <3>1. kind = "inline"
      BY <2>1, <2>4 DEF InlineLayout
    <3>2. \/ InlineNode(d, c, mode, x) = Marked(mode, x, "**")
          \/ InlineNode(d, c, mode, x) = Marked(mode, x, "*")
          \/ InlineNode(d, c, mode, x) = Link(d, c, mode, x)
          \/ InlineNode(d, c, mode, x) = x
      BY <1>4, <2>4 DEF InlineNode, Verbatim, Dropped, tag
    <3>3. "**" \in Marks /\ "*" \in Marks
      BY DEF Marks
    <3>4. LettersOf(InlineNode(d, c, mode, x)) = LettersOf(x)
      BY <1>2, <3>2, <3>3, LettersMarked, LettersOfLink
    <3>5. QED
      BY <3>1, <3>4 DEF shown, kind
  <2>5. QED
    BY <2>2, <2>3, <2>4
<1>5. QED
  BY <1>3, <1>4

LEMMA InlineShown ==
  ASSUME NEW d, NEW A, Lettered(d, A), Leafy(d), NEW mode, NEW i \in 1 .. Len(d),
         LaidOut(d, i) = "inline"
  PROVE  LettersOf(Inline(d, i, mode)) = ShownIn(d, i)
<1> DEFINE N == Len(d)
<1>1. N \in Nat /\ DOMAIN d = 1 .. N /\ IsDocument(d) /\ Worded(d, A)
  BY TextsAreWorded DEF Lettered
<1>2. PICK inline : InlineSolution(d, mode, A, inline)
  BY <1>1, InlineSteps
<1> HIDE DEF N
<1>3. inline \in [1 .. N -> Seq(A)] /\ \A j \in 1 .. N : inline[j] \in Seq(A)
  BY <1>2 DEF InlineSolution, N
<1>4. \A j \in 1 .. N : /\ inline[j] = InlineBody(d, mode, inline, j)
                        /\ Inline(d, j, mode) = inline[j]
  BY <1>2 DEF InlineSolution, N
<1> USE DEF N
<1> DEFINE P == {j \in 1 .. N : LaidOut(d, j) = "inline" => LettersOf(inline[j]) = ShownIn(d, j)}
           f == [c \in 1 .. N |-> InlineNode(d, c, mode, inline[c])]
<1>5. \A c \in 1 .. N : f[c] = InlineNode(d, c, mode, inline[c]) /\ f[c] \in Seq(A)
  <2>1. \A c \in 1 .. N : inline[c] \in Seq(A)
    BY <1>3
  <2>2. \A c \in 1 .. N : InlineNode(d, c, mode, inline[c]) \in Seq(A)
    <3> HIDE DEF N
    <3> QED
      BY <1>1, <2>1, InlineNodeIn
  <2>3. QED
    BY <2>2
<1> HIDE DEF f
<1>6. ASSUME NEW j \in 1 .. N, \A c \in 1 .. N : c > j => c \in P PROVE j \in P
  <2> SUFFICES ASSUME LaidOut(d, j) = "inline" PROVE LettersOf(inline[j]) = ShownIn(d, j)
    OBVIOUS
  <2> DEFINE B == Nodes(d, j)
  <2>1. B \in SUBSET (1 .. N) /\ \A c \in B : c > j
    BY <1>1, NodesAreBelow
  <2>2. inline[j] = d[j].text \o Pieces(f, B)
    <3>1. \A k \in 1 .. Cardinality(B) : Ordered(B)[k] \in 1 .. N
      <4> HIDE DEF B, N
      <4> QED
        BY <1>1, <2>1, FewNodes
    <3>2. [k \in 1 .. Cardinality(B) |-> f[Ordered(B)[k]]]
          = [k \in 1 .. Cardinality(B) |->
               InlineNode(d, Ordered(B)[k], mode, inline[Ordered(B)[k]])]
      <4> HIDE DEF B, N
      <4> QED
        BY <1>5, <3>1
    <3>3. inline[j] = InlineBody(d, mode, inline, j)
      BY <1>4
    <3>4. InlineBody(d, mode, inline, j)
          = d[j].text \o FlattenSeq([k \in 1 .. Cardinality(B) |->
               InlineNode(d, Ordered(B)[k], mode, inline[Ordered(B)[k]])])
      BY DEF InlineBody, Gather
    <3>5. QED
      BY <3>2, <3>3, <3>4 DEF Pieces
  <2>3. ASSUME NEW c \in B PROVE ShownFrom(d)[c] = LettersOf(f[c])
    <3>1. c \in 1 .. N /\ c \in P
      BY <1>6, <2>1
    <3>2. LaidOut(d, c) = "inline" => LettersOf(inline[c]) = ShownIn(d, c)
      BY <3>1
    <3>3. LaidOut(d, c) = IF IsElement(d, c) THEN Layout(LaidOut(d, j), d[c].tag)
                          ELSE LaidOut(d, j)
      BY <1>1, KindOfNode
    <3>4. Inlined(d, c)
      BY <3>3 DEF Inlined, Layout
    <3>5. inline[c] \in Seq(A)
      BY <1>3, <3>1
    <3> HIDE DEF P, B
    <3>6. LettersOf(InlineNode(d, c, mode, inline[c])) = ShownIn(d, c)
      <4>1. c \in 1 .. Len(d)
        BY <3>1
      <4> HIDE DEF N
      <4>2. QED
        BY <3>2, <3>4, <3>5, <4>1, InlineNodeShown
    <3>7. ShownFrom(d)[c] = ShownIn(d, c)
      BY <3>1, ShownInSteps
    <3>8. QED
      BY <1>5, <3>1, <3>6, <3>7
  <2>4. Spells(f, B, A)
    BY <1>5, <2>1 DEF Spells
  <2> HIDE DEF B, P
  <2>5. LettersOf(Pieces(f, B)) = Pieces(ShownFrom(d), B)
    <3> HIDE DEF N
    <3> QED
      BY <1>1, <2>1, <2>3, <2>4, LettersOfPieces
  <2>6. d[j].text \in Seq(A) /\ LettersOf(d[j].text) = d[j].text
    BY TextsAreWorded, WholeIsPlain
  <2>7. Pieces(f, B) \in Seq(A)
    BY <1>1, <2>1, <2>4, PiecesList
  <2>8. LettersOf(d[j].text \o Pieces(f, B)) = LettersOf(d[j].text) \o LettersOf(Pieces(f, B))
    BY <2>6, <2>7, LettersJoin
  <2>9. ShownIn(d, j) = d[j].text \o Pieces(ShownFrom(d), B)
    <3>1. j \in ShownNodes(d)
      BY <1>1 DEF ShownNodes
    <3>2. ShownIn(d, j) = (IF j \in ShownNodes(d) THEN d[j].text ELSE <<>>)
                            \o Pieces(ShownFrom(d), Nodes(d, j))
      BY ShownInSteps
    <3>3. QED
      BY <3>1, <3>2 DEF B
  <2>10. QED
    BY <2>2, <2>5, <2>6, <2>8, <2>9
<1>7. i \in P
  <2> HIDE DEF P, N
  <2>1. i \in 1 .. N
    BY DEF N
  <2>2. QED
    BY <1>1, <1>6, <2>1, FromTheEnd
<1>8. QED
  BY <1>7, <1>4

-----------------------------------------------------------------------------
(* Of what shows no text of its own only some elements show something.     *)
LEMMA ShownByParts ==
  ASSUME NEW d, NEW A, Lettered(d, A), Leafy(d), NEW i \in 1 .. Len(d),
         LaidOut(d, i) \notin {"blocks", "inline", "raw"},
         NEW C \in SUBSET Elements(d, i),
         \A c \in Elements(d, i) \ C : LaidOut(d, c) = "nothing"
  PROVE  ShownIn(d, i) = Pieces(ShownFrom(d), C)
<1> DEFINE B == Nodes(d, i)
           g == ShownFrom(d)
<1>1. Len(d) \in Nat /\ DOMAIN d = 1 .. Len(d) /\ IsDocument(d)
  BY TextsAreWorded DEF Lettered
<1>2. B \in SUBSET (1 .. Len(d)) /\ C \in SUBSET B
  <2>1. \A c \in B : c \in 1 .. Len(d)
    BY <1>1, NodesAreBelow
  <2>2. QED
    BY <2>1 DEF Elements
<1>3. ASSUME NEW c \in 1 .. Len(d) PROVE g[c] = ShownIn(d, c) /\ g[c] \in Seq(A)
  BY ShownInSteps
<1>4. ASSUME NEW c \in B \ C PROVE g[c] = <<>>
  <2>1. c \in 1 .. Len(d)
    BY <1>2
  <2>2. CASE IsElement(d, c)
    <3>1. LaidOut(d, c) = "nothing"
      BY <2>2 DEF Elements
    <3>2. QED
      BY <1>3, <2>1, <3>1, ShownOfKind
  <2>3. CASE ~IsElement(d, c)
    <3>1. LaidOut(d, c) = LaidOut(d, i)
      BY <1>1, <2>3, KindOfNode
    <3>2. Nodes(d, c) = {}
      BY <1>1, <2>1, <2>3 DEF Leafy, IsElement
    <3>3. c \notin ShownNodes(d)
      BY <3>1 DEF ShownNodes
    <3>4. ShownIn(d, c) = <<>>
      BY <2>1, <3>2, <3>3, ShownOfKind
    <3>5. QED
      BY <1>3, <2>1, <3>4
  <2>4. QED
    BY <2>2, <2>3
<1>5. Spells(g, B, A)
  BY <1>2, <1>3 DEF Spells
<1>6. i \notin ShownNodes(d)
  BY DEF ShownNodes
<1>7. ShownIn(d, i) = <<>> \o Pieces(g, B)
  BY <1>6, ShownInSteps
<1> HIDE DEF g, B
<1>8. Pieces(g, B) = Pieces(g, C)
  <2>1. Silent(g, B \ C)
    BY <1>4 DEF Silent
  <2>2. QED
    <3>1. Covers(Len(d), B, C, g, A)
      BY <1>1, <1>2, <1>5, <2>1 DEF Covers
    <3>2. QED
      BY <3>1, PiecesOver
<1>9. Pieces(g, B) \in Seq(A)
  BY <1>1, <1>2, <1>5, PiecesList
<1>10. <<>> \o Pieces(g, B) = Pieces(g, B)
  BY <1>9, NothingAdded
<1>11. QED
  BY <1>7, <1>8, <1>10 DEF g

-----------------------------------------------------------------------------
(* Headings, quotes and lists add marks and nothing else.                  *)
LEMMA LettersOfHeading ==
  ASSUME NEW d, NEW A, Worded(d, A), NEW i \in 1 .. Len(d), NEW mode
  PROVE  Letters(Heading(d, i, mode)) = LettersOf(Inline(d, i, mode))
<1> DEFINE text == Inline(d, i, mode)
           y == (IF mode = "markdown" /\ text # <<>> THEN <<"#">> ELSE <<>>) \o text
<1>1. text \in Seq(A) /\ Marks \subseteq A /\ "#" \in Marks
  BY InlineIn DEF Worded, Marks
<1>2. Heading(d, i, mode) = Paragraph(y)
  BY DEF Heading
<1> HIDE DEF text
<1>3. <<"#">> \o text \in Seq(A) /\ LettersOf(<<"#">> \o text) = LettersOf(text)
  BY <1>1, LettersBehindMark
<1>4. <<>> \o text = text
  BY <1>1, NothingAdded
<1>5. y \in Seq(A) /\ LettersOf(y) = LettersOf(text)
  BY <1>1, <1>3, <1>4
<1> HIDE DEF y
<1>6. Letters(Paragraph(y)) = LettersOf(y)
  BY <1>5, LettersOfParagraph
<1>7. QED
  BY <1>2, <1>5, <1>6 DEF text

LEMMA LettersBehindMarker ==
  ASSUME NEW A, Marks \subseteq A, NEW x \in Marks, NEW b \in Seq(Seq(A))
  PROVE  LET content == FlattenSeq(b)
             item == IF content = <<>> THEN <<>> ELSE <<x>> \o content
         IN  item \in Seq(A) /\ LettersOf(item) = Letters(b)
<1> DEFINE content == FlattenSeq(b)
           item == IF content = <<>> THEN <<>> ELSE <<x>> \o content
<1>1. content \in Seq(A)
  BY FlattenIn
<1>2. Letters(b) = LettersOf(content)
  BY DEF Letters
<1> HIDE DEF content
<1>3. <<x>> \o content \in Seq(A) /\ LettersOf(<<x>> \o content) = LettersOf(content)
  BY <1>1, LettersBehindMark
<1>4. item \in Seq(A) /\ LettersOf(item) = LettersOf(content)
  BY <1>3
<1>5. QED
  BY <1>2, <1>4 DEF content

LEMMA LettersOfQuote ==
  ASSUME NEW A, Marks \subseteq A, NEW b \in Seq(Seq(A))
  PROVE  Letters(Quote(b)) = Letters(b)
<1> DEFINE content == FlattenSeq(b)
           item == IF content = <<>> THEN <<>> ELSE <<">">> \o content
<1>1. item \in Seq(A) /\ LettersOf(item) = Letters(b)
  <2>1. ">" \in Marks
    BY DEF Marks
  <2>2. QED
    BY <2>1, LettersBehindMarker
<1>2. Quote(b) = IF content = <<>> THEN <<>> ELSE <<item>>
  BY DEF Quote
<1>3. Letters(<<item>>) = LettersOf(item) /\ Letters(<<>>) = <<>>
  <2> HIDE DEF item
  <2> QED
    BY <1>1, LettersOfParagraph
<1>4. content = <<>> => LettersOf(item) = <<>>
  BY LettersOfNothing
<1>5. QED
  <2> HIDE DEF content, item
  <2> QED
    BY <1>1, <1>2, <1>3, <1>4

LEMMA ListShown ==
  ASSUME NEW d, NEW A, Lettered(d, A), Leafy(d), NEW i \in 1 .. Len(d), LaidOut(d, i) = "items",
         NEW mode, NEW u,
         \A c \in Nodes(d, i) : /\ u[c] \in Seq(Seq(A))
                                /\ LaidOut(d, c) = "blocks" => Letters(u[c]) = ShownIn(d, c)
  PROVE  Letters(List(d, i, mode, u)) = ShownIn(d, i)
<1> DEFINE marker == IF d[i].tag = "ol" THEN "1." ELSE "-"
           Item(c) == LET content == FlattenSeq(u[c])
                      IN  IF content = <<>> THEN <<>> ELSE <<marker>> \o content
           C == {c \in Elements(d, i) : d[c].tag = "li"}
           f == [c \in 1 .. Len(d) |-> Item(c)]
           g == ShownFrom(d)
<1>1. /\ Len(d) \in Nat /\ DOMAIN d = 1 .. Len(d) /\ IsDocument(d) /\ Marks \subseteq A
      /\ marker \in Marks
  BY TextsAreWorded DEF Lettered, Worded, Marks
<1>2. ASSUME NEW c \in Elements(d, i)
      PROVE  /\ c \in Nodes(d, i) /\ c \in 1 .. Len(d)
             /\ LaidOut(d, c) = IF d[c].tag = "li" THEN "blocks" ELSE "nothing"
  <2>1. c \in Nodes(d, i) /\ IsElement(d, c)
    BY DEF Elements
  <2>2. c \in 1 .. Len(d)
    BY <1>1, <2>1, NodesAreBelow
  <2>3. LaidOut(d, c) = Layout("items", d[c].tag)
    BY <1>1, <2>1, KindOfNode
  <2>4. QED
    BY <2>1, <2>2, <2>3 DEF Layout
<1>3. C \in SUBSET Elements(d, i) /\ C \in SUBSET (1 .. Len(d))
  BY <1>2
<1>4. ASSUME NEW c \in C PROVE f[c] \in Seq(A) /\ g[c] = LettersOf(f[c])
  <2>1. c \in 1 .. Len(d) /\ u[c] \in Seq(Seq(A)) /\ Letters(u[c]) = ShownIn(d, c)
    BY <1>2
  <2>2. f[c] = Item(c)
    BY <2>1
  <2> HIDE DEF f, marker
  <2>3. Item(c) \in Seq(A) /\ LettersOf(Item(c)) = Letters(u[c])
    BY <1>1, <2>1, LettersBehindMarker
  <2>4. g[c] = ShownIn(d, c)
    BY <2>1, ShownInSteps
  <2>5. QED
    BY <2>1, <2>2, <2>3, <2>4
<1>5. List(d, i, mode, u) = Paragraph(Pieces(f, C))
  <2> DEFINE n == Cardinality(C)
  <2>1. List(d, i, mode, u) = Paragraph(FlattenSeq([k \in 1 .. n |-> Item(Ordered(C)[k])]))
    BY DEF List, Gather
  <2>2. \A k \in 1 .. n : Ordered(C)[k] \in C
    <3> HIDE DEF C
    <3> QED
      BY <1>1, <1>3, FewNodes
  <2>3. \A k \in 1 .. n : Ordered(C)[k] \in 1 .. Len(d)
    BY <1>3, <2>2
  <2>4. [k \in 1 .. n |-> Item(Ordered(C)[k])] = [k \in 1 .. n |-> f[Ordered(C)[k]]]
    <3> HIDE DEF Item, n, C
    <3> QED
      BY <2>3
  <2>5. QED
    BY <2>1, <2>4 DEF Pieces
<1>6. ShownIn(d, i) = Pieces(g, C)
  <2>1. \A c \in Elements(d, i) \ C : LaidOut(d, c) = "nothing"
    BY <1>2
  <2> HIDE DEF C
  <2>2. QED
    BY <1>3, <2>1, ShownByParts
<1> HIDE DEF f, g, C
<1>7. Spells(f, C, A)
  BY <1>4 DEF Spells
<1>8. Pieces(f, C) \in Seq(A)
  BY <1>1, <1>3, <1>7, PiecesList
<1>9. LettersOf(Pieces(f, C)) = Pieces(g, C)
  BY <1>1, <1>3, <1>4, <1>7, LettersOfPieces
<1>10. QED
  BY <1>5, <1>6, <1>8, <1>9, LettersOfParagraph

LEMMA TermsShown ==
  ASSUME NEW d, NEW A, Lettered(d, A), Leafy(d), NEW i \in 1 .. Len(d), LaidOut(d, i) = "terms",
         NEW mode
  PROVE  Letters(Definitions(d, i, mode)) = ShownIn(d, i)
<1> DEFINE Item(c) == CASE d[c].tag = "dt" -> Paragraph(Inline(d, c, mode))
                        [] d[c].tag = "dd" -> <<<<":">> \o Inline(d, c, mode)>>
                        [] OTHER -> <<>>
           B == Elements(d, i)
           f == [c \in 1 .. Len(d) |-> Item(c)]
           g == ShownFrom(d)
<1>1. /\ Len(d) \in Nat /\ DOMAIN d = 1 .. Len(d) /\ IsDocument(d) /\ Marks \subseteq A
      /\ Worded(d, A) /\ ":" \in Marks
  BY TextsAreWorded DEF Lettered, Worded, Marks
<1>2. ASSUME NEW c \in B
      PROVE  /\ c \in 1 .. Len(d)
             /\ LaidOut(d, c) = IF d[c].tag \in {"dt", "dd"} THEN "inline" ELSE "nothing"
  <2>1. c \in Nodes(d, i) /\ IsElement(d, c)
    BY DEF Elements
  <2>2. c \in 1 .. Len(d)
    BY <1>1, <2>1, NodesAreBelow
  <2>3. LaidOut(d, c) = Layout("terms", d[c].tag)
    BY <1>1, <2>1, KindOfNode
  <2>4. QED
    BY <2>2, <2>3 DEF Layout
<1>3. B \in SUBSET (1 .. Len(d))
  BY <1>2
<1>4. ASSUME NEW c \in B PROVE Item(c) \in Seq(Seq(A)) /\ ShownIn(d, c) = Letters(Item(c))
  <2> DEFINE x == Inline(d, c, mode)
             y == <<":">> \o x
  <2>1. x \in Seq(A)
    BY <1>1, <1>2, InlineIn
  <2>2. d[c].tag \in {"dt", "dd"} => LettersOf(x) = ShownIn(d, c)
    BY <1>2, InlineShown
  <2> HIDE DEF x
  <2>3. y \in Seq(A) /\ LettersOf(y) = LettersOf(x)
    BY <1>1, <2>1, LettersBehindMark
  <2> HIDE DEF y
  <2>4. CASE d[c].tag = "dt"
    <3>1. Item(c) = Paragraph(x)
      BY <2>4 DEF x
    <3>2. Paragraph(x) \in Seq(Seq(A)) /\ Letters(Paragraph(x)) = LettersOf(x)
      BY <2>1, ParagraphIn, LettersOfParagraph
    <3> HIDE DEF Item
    <3>3. QED
      BY <2>2, <2>4, <3>1, <3>2
  <2>5. CASE d[c].tag = "dd"
    <3>1. Item(c) = <<y>>
      BY <2>5 DEF x, y
    <3>2. <<y>> \in Seq(Seq(A)) /\ Letters(<<y>>) = LettersOf(y)
      BY <2>3, LettersOfParagraph
    <3> HIDE DEF Item
    <3>3. QED
      BY <2>2, <2>3, <2>5, <3>1, <3>2
  <2>6. CASE d[c].tag \notin {"dt", "dd"}
    <3>1. Item(c) = <<>>
      BY <2>6
    <3>2. ShownIn(d, c) = <<>>
      BY <1>2, <2>6, ShownOfKind
    <3>3. Letters(<<>>) = <<>> /\ <<>> \in Seq(Seq(A))
      <4>1. Letters(<<>>) = <<>>
        BY <2>1, LettersOfParagraph
      <4>2. <<>> \in Seq(Seq(A))
        OBVIOUS
      <4>3. QED
        BY <4>1, <4>2
    <3> HIDE DEF Item
    <3>4. QED
      BY <3>1, <3>2, <3>3
  <2>7. QED
    BY <2>4, <2>5, <2>6
<1>5. Definitions(d, i, mode) = Pieces(f, B)
  <2> DEFINE n == Cardinality(B)
  <2>1. Definitions(d, i, mode) = FlattenSeq([k \in 1 .. n |-> Item(Ordered(B)[k])])
    BY DEF Definitions, Gather
  <2>2. \A k \in 1 .. n : Ordered(B)[k] \in B
    <3> HIDE DEF B
    <3> QED
      BY <1>1, <1>3, FewNodes
  <2>3. \A k \in 1 .. n : Ordered(B)[k] \in 1 .. Len(d)
    BY <1>3, <2>2
  <2>4. [k \in 1 .. n |-> Item(Ordered(B)[k])] = [k \in 1 .. n |-> f[Ordered(B)[k]]]
    <3> HIDE DEF Item, n, B
    <3> QED
      BY <2>3
  <2>5. QED
    BY <2>1, <2>4 DEF Pieces
<1>6. ShownIn(d, i) = Pieces(g, B)
  <2> HIDE DEF B
  <2>1. ShownIn(d, i) = Pieces(ShownFrom(d), Elements(d, i))
    BY ShownByParts
  <2>2. QED
    BY <2>1 DEF B
<1>7. ASSUME NEW c \in B PROVE f[c] \in Seq(Seq(A)) /\ g[c] = Letters(f[c])
  <2>1. c \in 1 .. Len(d)
    BY <1>2
  <2>2. f[c] = Item(c)
    BY <2>1
  <2>3. g[c] = ShownIn(d, c)
    BY <2>1, ShownInSteps
  <2> HIDE DEF Item, f
  <2>4. QED
    BY <1>4, <2>2, <2>3
<1> HIDE DEF f, g, B
<1>8. Spells(f, B, Seq(A))
  BY <1>7 DEF Spells
<1>9. Letters(Pieces(f, B)) = Pieces(g, B)
  BY <1>1, <1>3, <1>7, <1>8, BlockLettersOfPieces
<1>10. QED
  BY <1>5, <1>6, <1>9

-----------------------------------------------------------------------------
(* Tables.                                                                 *)

LEMMA PiecesOfAll ==
  ASSUME NEW A, NEW s \in Seq(Seq(A))
  PROVE  /\ Len(s) \in Nat /\ Spells(s, 1 .. Len(s), A)
         /\ Pieces(s, 1 .. Len(s)) = FlattenSeq(s)
<1> DEFINE N == Len(s)
           P == {n \in 0 .. N : Pieces(s, 1 .. n) = FlattenSeq(First(s, n))}
<1>1. /\ N \in Nat
      /\ First(s, 0) = <<>> /\ First(s, N) = s
      /\ \A n \in 1 .. N : /\ s[n] \in Seq(A)
                           /\ First(s, n - 1) \in Seq(Seq(A))
                           /\ First(s, n) = Append(First(s, n - 1), s[n])
  BY FirstGrows
<1> HIDE DEF N
<1>2. 0 \in P
  <2>1. 1 .. 0 = {} /\ 0 \in 0 .. N
    BY <1>1
  <2>2. QED
    BY <1>1, <2>1, NoPieces, FlattenEmpty
<1>3. ASSUME NEW n \in 1 .. N, n - 1 \in P PROVE n \in P
  <2> DEFINE B == 1 .. n - 1
  <2>1. /\ 1 .. n = B \cup {n} /\ n \in 0 .. N
        /\ B \in SUBSET (1 .. N) /\ \A i \in B : i < n
    BY <1>1
  <2> HIDE DEF B
  <2>2. Spells(s, B, A) /\ s[n] \in Seq(A)
    BY <1>1, <2>1 DEF Spells
  <2>3. Comes(N, B, n, s, A)
    BY <1>1, <2>1, <2>2 DEF Comes
  <2>4. Grows(s, B, n)
    BY <2>3, OnePieceMore
  <2>5. Pieces(s, B) = FlattenSeq(First(s, n - 1))
    BY <1>3 DEF B
  <2>6. FlattenSeq(First(s, n)) = FlattenSeq(First(s, n - 1)) \o s[n]
    BY <1>1, FlattenAppend
  <2>7. Pieces(s, 1 .. n) = FlattenSeq(First(s, n))
    BY <2>1, <2>4, <2>5, <2>6 DEF Grows
  <2>8. QED
    BY <2>1, <2>7
<1> HIDE DEF P
<1>4. N \in P
  <2>1. N \in Nat /\ N \in 0 .. N
    BY <1>1
  <2>2. \A n \in 0 .. N : n \in P
    BY <1>2, <1>3, <2>1, FromTheStart
  <2>3. QED
    BY <2>1, <2>2
<1>5. Spells(s, 1 .. N, A)
  BY <1>1 DEF Spells
<1>6. Pieces(s, 1 .. N) = FlattenSeq(s)
  BY <1>1, <1>4 DEF P
<1>7. QED
  BY <1>1, <1>5, <1>6 DEF N

Distributes(f, n) ==
  LettersOf(FlattenSeq([k \in 1 .. n |-> f[k]])) = FlattenSeq([k \in 1 .. n |-> LettersOf(f[k])])

LEMMA LettersOfFlatten ==
  ASSUME NEW A, NEW n \in Nat, NEW f, \A k \in 1 .. n : f[k] \in Seq(A)
  PROVE  Distributes(f, n)
<1> DEFINE s == [k \in 1 .. n |-> f[k]]
           g == [k \in 1 .. n |-> LettersOf(f[k])]
<1>1. \A k \in 1 .. n : s[k] \in Seq(A) /\ g[k] = LettersOf(s[k]) /\ g[k] \in Seq(A)
  BY LettersIn
<1>2. s \in Seq(Seq(A)) /\ Len(s) = n
  OBVIOUS
<1>3. g \in Seq(Seq(A)) /\ Len(g) = n
  <2>1. g = [k \in 1 .. n |-> g[k]]
    OBVIOUS
  <2> HIDE DEF g
  <2>2. g \in [1 .. n -> Seq(A)]
    BY <1>1, <2>1
  <2>3. QED
    BY <2>2
<1> HIDE DEF s, g
<1>4. Pieces(s, 1 .. n) = FlattenSeq(s) /\ Pieces(g, 1 .. n) = FlattenSeq(g)
  BY <1>2, <1>3, PiecesOfAll
<1>5. LettersOf(Pieces(s, 1 .. n)) = Pieces(g, 1 .. n)
  <2> DEFINE B == 1 .. n
  <2>1. B \in SUBSET (1 .. n) /\ \A k \in B : g[k] = LettersOf(s[k])
    BY <1>1
  <2>2. Spells(s, B, A)
    BY <1>1 DEF Spells
  <2> HIDE DEF B
  <2>3. LettersOf(Pieces(s, B)) = Pieces(g, B)
    BY <2>1, <2>2, LettersOfPieces
  <2>4. QED
    BY <2>3 DEF B
<1>6. QED
  BY <1>4, <1>5 DEF s, g, Distributes

(* A row that is no longer than the first loses no cell. *)
LEMMA LettersOfRow ==
  ASSUME NEW A, Marks \subseteq A, NEW row \in Seq(Seq(A)), NEW n \in Nat, Len(row) <= n,
         \A c \in DOMAIN row : LettersOf(row[c]) = row[c]
  PROVE  LET line == [c \in 1 .. n |-> <<"|">> \o IF c \in DOMAIN row THEN row[c] ELSE <<>>]
         IN  /\ FlattenSeq(line) \in Seq(A)
             /\ LettersOf(FlattenSeq(line)) = FlattenSeq(row)
<1> DEFINE Cell(c) == IF c \in DOMAIN row THEN row[c] ELSE <<>>
           g == [c \in 1 .. n |-> Cell(c)]
           line == [c \in 1 .. n |-> <<"|">> \o Cell(c)]
           m == Len(row)
<1>1. m \in Nat /\ DOMAIN row = 1 .. m /\ m <= n /\ "|" \in Marks
  BY DEF Marks
<1>2. ASSUME NEW c \in 1 .. n
      PROVE  Cell(c) \in Seq(A) /\ LettersOf(Cell(c)) = Cell(c)
  BY LettersOfNothing
<1>3. ASSUME NEW c \in 1 .. n
      PROVE  line[c] \in Seq(A) /\ LettersOf(line[c]) = g[c] /\ g[c] \in Seq(A)
  <2>1. line[c] = <<"|">> \o Cell(c) /\ g[c] = Cell(c)
    OBVIOUS
  <2> HIDE DEF Cell, line, g
  <2>2. <<"|">> \o Cell(c) \in Seq(A) /\ LettersOf(<<"|">> \o Cell(c)) = LettersOf(Cell(c))
    BY <1>1, <1>2, LettersBehindMark
  <2>3. QED
    BY <1>2, <2>1, <2>2
<1>4. line = [c \in 1 .. n |-> line[c]]
  OBVIOUS
<1>5. \A c \in 1 .. m : c \in 1 .. n /\ g[c] = row[c]
  BY <1>1
<1>6. \A c \in (1 .. n) \ (1 .. m) : g[c] = <<>>
  BY <1>1
<1>7. g = [c \in 1 .. n |-> g[c]]
  OBVIOUS
<1> HIDE DEF line, g, m, Cell
<1>8. line \in [1 .. n -> Seq(A)] /\ g \in [1 .. n -> Seq(A)]
  BY <1>3, <1>4, <1>7
<1>9. line \in Seq(Seq(A)) /\ g \in Seq(Seq(A)) /\ Len(g) = n
  BY <1>8
<1>10. LettersOf(FlattenSeq(line)) = FlattenSeq(g)
  <2>1. LettersOf(FlattenSeq([c \in 1 .. n |-> line[c]]))
        = FlattenSeq([c \in 1 .. n |-> LettersOf(line[c])])
    <3>1. Distributes(line, n)
      BY <1>3, LettersOfFlatten
    <3>2. QED
      BY <3>1 DEF Distributes
  <2>2. [c \in 1 .. n |-> LettersOf(line[c])] = g
    BY <1>3, <1>7
  <2>3. QED
    BY <1>4, <2>1, <2>2
<1>11. FlattenSeq(g) = Pieces(g, 1 .. n) /\ FlattenSeq(row) = Pieces(row, 1 .. m)
  BY <1>9, PiecesOfAll DEF m
<1>12. Pieces(g, 1 .. n) = Pieces(g, 1 .. m)
  <2> DEFINE B == 1 .. n
             C == 1 .. m
  <2>1. B \in SUBSET (1 .. n) /\ C \in SUBSET B
    BY <1>5
  <2>2. Spells(g, B, A)
    BY <1>3 DEF Spells
  <2>3. Silent(g, B \ C)
    BY <1>6 DEF Silent
  <2> HIDE DEF B, C, g
  <2>4. Pieces(g, B) = Pieces(g, C)
    <3>1. Covers(n, B, C, g, A)
      BY <2>1, <2>2, <2>3 DEF Covers
    <3>2. QED
      BY <3>1, PiecesOver
  <2>5. QED
    BY <2>4 DEF B, C
<1>13. Pieces(g, 1 .. m) = Pieces(row, 1 .. m)
  <2> DEFINE C == 1 .. m
  <2>1. C \in SUBSET (1 .. m) /\ \A c \in C : g[c] = row[c]
    BY <1>5
  <2> HIDE DEF C
  <2>2. Pieces(g, C) = Pieces(row, C)
    BY <1>1, <2>1, PiecesAlike
  <2>3. QED
    BY <2>2 DEF C
<1>14. FlattenSeq(line) \in Seq(A)
  BY <1>9, FlattenIn
<1>15. LettersOf(FlattenSeq(line)) = FlattenSeq(row)
  BY <1>10, <1>11, <1>12, <1>13
<1>16. QED
  BY <1>14, <1>15 DEF line, Cell

LEMMA LettersOfTable ==
  ASSUME NEW A, Marks \subseteq A, NEW rows \in Seq(Seq(Seq(A))), rows # <<>>,
         \A r \in DOMAIN rows : Len(rows[r]) <= Len(rows[1]),
         \A r \in DOMAIN rows : \A c \in DOMAIN rows[r] : LettersOf(rows[r][c]) = rows[r][c]
  PROVE  LettersOf(TableBlock(rows)) = FlattenSeq([r \in DOMAIN rows |-> FlattenSeq(rows[r])])
<1> DEFINE n == Len(rows)
           Line(r) == [c \in DOMAIN rows[1] |->
                         <<"|">> \o IF c \in DOMAIN rows[r] THEN rows[r][c] ELSE <<>>]
           s == [r \in DOMAIN rows |-> FlattenSeq(Line(r))]
<1>1. n \in Nat /\ DOMAIN rows = 1 .. n /\ 1 \in 1 .. n
  OBVIOUS
<1>2. ASSUME NEW r \in 1 .. n
      PROVE  s[r] \in Seq(A) /\ LettersOf(s[r]) = FlattenSeq(rows[r])
  <2>1. rows[r] \in Seq(Seq(A)) /\ rows[1] \in Seq(Seq(A)) /\ Len(rows[r]) <= Len(rows[1])
    <3>1. r \in DOMAIN rows /\ 1 \in DOMAIN rows
      BY <1>1
    <3>2. \A k \in DOMAIN rows : rows[k] \in Seq(Seq(A))
      OBVIOUS
    <3>3. QED
      BY <3>1, <3>2
  <2>2. \A c \in DOMAIN rows[r] : LettersOf(rows[r][c]) = rows[r][c]
    BY <1>1
  <2> DEFINE row == rows[r]
             m == Len(rows[1])
             line == [c \in 1 .. m |-> <<"|">> \o IF c \in DOMAIN row THEN row[c] ELSE <<>>]
  <2>3. m \in Nat /\ DOMAIN rows[1] = 1 .. m
    BY <2>1
  <2>4. s[r] = FlattenSeq(Line(r))
    BY <1>1
  <2>5. Line(r) = line
    BY <2>3
  <2> HIDE DEF row, m, s, Line
  <2>6. FlattenSeq(line) \in Seq(A) /\ LettersOf(FlattenSeq(line)) = FlattenSeq(row)
    <3>1. row \in Seq(Seq(A)) /\ Len(row) <= m
          /\ \A c \in DOMAIN row : LettersOf(row[c]) = row[c]
      BY <2>1, <2>2 DEF row, m
    <3>2. QED
      BY <2>3, <3>1, LettersOfRow
  <2> HIDE DEF line
  <2>7. QED
    BY <2>4, <2>5, <2>6 DEF row
<1>3. TableBlock(rows) = FlattenSeq(s)
  BY DEF TableBlock
<1>4. s = [r \in 1 .. n |-> s[r]]
  BY <1>1
<1> HIDE DEF s, n
<1>5. LettersOf(FlattenSeq([r \in 1 .. n |-> s[r]]))
      = FlattenSeq([r \in 1 .. n |-> LettersOf(s[r])])
  <2>1. n \in Nat /\ \A r \in 1 .. n : s[r] \in Seq(A)
    BY <1>1, <1>2
  <2>2. Distributes(s, n)
    BY <2>1, LettersOfFlatten
  <2>3. QED
    BY <2>2 DEF Distributes
<1>6. [r \in 1 .. n |-> LettersOf(s[r])] = [r \in DOMAIN rows |-> FlattenSeq(rows[r])]
  BY <1>1, <1>2
<1>7. QED
  BY <1>3, <1>4, <1>5, <1>6

LEMMA WithinIsTransitive ==
  ASSUME NEW d, IsDocument(d), NEW i \in 1 .. Len(d), NEW j \in Within(d, i),
         NEW k \in Within(d, j)
  PROVE  k \in Within(d, i)
<1>1. /\ Len(d) \in Nat
      /\ j \in 1 .. Len(d) /\ (j = i \/ i \in Above(d, j))
      /\ k \in 1 .. Len(d) /\ (k = j \/ j \in Above(d, k))
  <2>1. Len(d) \in Nat /\ j \in 1 .. Len(d) /\ (j = i \/ i \in Above(d, j))
    BY DocumentShape, BelowNode
  <2>2. k \in 1 .. Len(d) /\ (k = j \/ j \in Above(d, k))
    BY <2>1, BelowNode
  <2>3. QED
    BY <2>1, <2>2
<1>2. CASE k = j
  BY <1>2
<1>3. CASE j = i
  BY <1>3
<1>4. CASE j \in Above(d, k) /\ i \in Above(d, j)
  <2>1. k \in Nat /\ k <= Len(d)
    BY <1>1
  <2>2. i \in Above(d, k)
    BY <1>4, <2>1, AboveIsTransitive
  <2>3. QED
    BY <1>1, <2>2, BelowNode
<1>5. QED
  BY <1>1, <1>2, <1>3, <1>4

Trs(d, t) == {i \in Within(d, t) \ {t} : d[i].tag = "tr"}
CellsOf(d, r) == {c \in Elements(d, r) : d[c].tag \in {"td", "th"}}

(* No row of the table is in another. *)
Unnested(d, t) ==
  \A i \in {i \in Within(d, t) : d[i].tag = "tr"} :
    \A j \in Above(d, i) : d[j].tag = "tr" => j < t

LEMMA TrsAreBelow ==
  ASSUME NEW d, IsDocument(d), NEW t \in 1 .. Len(d), NEW r \in Trs(d, t)
  PROVE  /\ r \in 1 .. Len(d) /\ r \in Within(d, t) /\ t < r /\ d[r].tag = "tr"
         /\ Within(d, r) \in SUBSET Within(d, t)
<1>1. r \in Within(d, t) /\ r # t /\ d[r].tag = "tr"
  BY DEF Trs
<1>2. r \in 1 .. Len(d) /\ t < r
  BY <1>1, BelowNode
<1>3. \A k \in Within(d, r) : k \in Within(d, t)
  BY <1>1, WithinIsTransitive
<1>4. QED
  BY <1>1, <1>2, <1>3

LEMMA TrsAreApart ==
  ASSUME NEW d, IsDocument(d), NEW t \in 1 .. Len(d), Unnested(d, t),
         NEW r \in Trs(d, t), NEW s \in Trs(d, t)
  PROVE  r \notin Above(d, s)
<1>1. s \in Within(d, t) /\ d[s].tag = "tr" /\ t < r /\ d[r].tag = "tr"
      /\ t \in 1 .. Len(d) /\ r \in 1 .. Len(d)
  BY TrsAreBelow
<1>2. r \in Above(d, s) => r < t
  BY <1>1 DEF Unnested
<1>3. QED
  BY <1>1, <1>2

LEMMA TableLaidOut ==
  ASSUME NEW d, IsDocument(d), NEW t \in 1 .. Len(d), LaidOut(d, t) = "rows", Unnested(d, t)
  PROVE  /\ \A j \in Within(d, t) :
              LaidOut(d, j) = "rows" \/ \E r \in Trs(d, t) : j \in Within(d, r)
         /\ \A r \in Trs(d, t) : LaidOut(d, r) = "cells"
<1> DEFINE N == Len(d)
           Q(j) == LaidOut(d, j) = "rows" \/ \E r \in Trs(d, t) : j \in Within(d, r)
           P == {j \in 1 .. N : j \in Within(d, t) => Q(j)}
<1>1. N \in Nat
  BY DocumentShape
<1>2. ASSUME NEW j \in 1 .. N, \A c \in 1 .. N : c < j => c \in P PROVE j \in P
  <2> SUFFICES ASSUME j \in Within(d, t), j # t PROVE Q(j)
    OBVIOUS
  <2> DEFINE p == d[j].up
  <2>1. p \in Within(d, t) /\ p \in 1 .. N /\ p < j /\ p \in Above(d, j) /\ j \in Nodes(d, p)
    BY ParentBelow
  <2>2. Q(p)
    BY <1>2, <2>1
  <2> HIDE DEF p, P
  <2>3. CASE \E r \in Trs(d, t) : p \in Within(d, r)
    <3>1. PICK r \in Trs(d, t) : p \in Within(d, r)
      BY <2>3
    <3>2. r \in 1 .. Len(d)
      BY TrsAreBelow
    <3>3. j \in Within(d, p)
      BY <2>1, BelowNode
    <3>4. j \in Within(d, r)
      BY <3>1, <3>2, <3>3, WithinIsTransitive
    <3>5. QED
      BY <3>4
  <2>4. CASE LaidOut(d, p) = "rows"
    <3>1. LaidOut(d, j) = IF IsElement(d, j) THEN Layout("rows", d[j].tag) ELSE "rows"
      BY <2>1, <2>4, KindOfNode
    <3>2. CASE d[j].tag = "tr"
      <4>1. j \in Trs(d, t)
        BY <3>2 DEF Trs
      <4>2. j \in Within(d, j)
        BY BelowNode
      <4>3. QED
        BY <4>1, <4>2
    <3>3. CASE d[j].tag # "tr"
      <4>1. LaidOut(d, j) = "rows"
        BY <3>1, <3>3 DEF Layout
      <4>2. QED
        BY <4>1
    <3>4. QED
      BY <3>2, <3>3
  <2>5. QED
    BY <2>2, <2>3, <2>4
<1> HIDE DEF P
<1>3. \A j \in 1 .. N : j \in P
  <2> HIDE DEF N
  <2> QED
    BY <1>1, <1>2, FromTheRoot
<1>4. ASSUME NEW j \in Within(d, t) PROVE Q(j)
  <2>1. j \in 1 .. N
    BY BelowNode
  <2>2. QED
    BY <1>3, <2>1 DEF P
<1>5. ASSUME NEW r \in Trs(d, t) PROVE LaidOut(d, r) = "cells"
  <2> DEFINE p == d[r].up
  <2>1. r \in Within(d, t) /\ r # t /\ d[r].tag = "tr" /\ r \in 1 .. N
    BY TrsAreBelow
  <2>2. p \in Within(d, t) /\ p \in 1 .. N /\ p \in Above(d, r) /\ r \in Nodes(d, p)
    BY <2>1, ParentBelow
  <2> HIDE DEF p
  <2>3. ASSUME NEW s \in Trs(d, t), p \in Within(d, s) PROVE FALSE
    <3>1. s \in 1 .. Len(d)
      BY TrsAreBelow
    <3>2. p = s \/ s \in Above(d, p)
      BY <2>3, <3>1, BelowNode
    <3>3. s \in Above(d, r)
      <4>1. r \in Nat /\ r <= Len(d)
        BY <1>1, <2>1
      <4>2. QED
        BY <2>2, <3>2, <4>1, AboveIsTransitive
    <3>4. QED
      BY <3>3, TrsAreApart
  <2>4. LaidOut(d, p) = "rows"
    BY <1>4, <2>2, <2>3
  <2>5. LaidOut(d, r) = IF IsElement(d, r) THEN Layout("rows", d[r].tag) ELSE "rows"
    BY <2>2, <2>4, KindOfNode
  <2>6. QED
    BY <2>1, <2>5 DEF IsElement, Layout
<1>6. QED
  BY <1>4, <1>5

(* A table shows what its rows show. *)
LEMMA ShownByRows ==
  ASSUME NEW d, NEW A, Lettered(d, A), NEW t \in 1 .. Len(d), LaidOut(d, t) = "rows",
         Unnested(d, t)
  PROVE  ShownIn(d, t) = Pieces(ShownFrom(d), Trs(d, t))
<1> DEFINE N == Len(d)
           T == Texts(d)
           S == ShownNodes(d)
           B == Trs(d, t)
           W == [r \in 1 .. N |-> Within(d, r) \cap S]
           g == ShownFrom(d)
<1>1. N \in Nat /\ DOMAIN d = 1 .. N /\ IsDocument(d)
  BY TextsAreWorded DEF Lettered
<1>2. ASSUME NEW r \in B
      PROVE  r \in 1 .. N /\ Within(d, r) \in SUBSET Within(d, t) /\ W[r] = Within(d, r) \cap S
  BY <1>1, TrsAreBelow
<1>3. B \in SUBSET (1 .. N) /\ Within(d, t) \in SUBSET (1 .. N)
  <2>1. \A r \in B : r \in 1 .. N
    BY <1>2
  <2>2. Within(d, t) \in SUBSET (1 .. N)
    BY <1>1, BelowNode
  <2> HIDE DEF B
  <2>3. QED
    BY <2>1, <2>2
<1>4. Within(d, t) \cap S = Union(W, B)
  <2>1. ASSUME NEW j \in Within(d, t) \cap S PROVE j \in Union(W, B)
    <3>1. LaidOut(d, j) # "rows"
      BY DEF ShownNodes
    <3>2. PICK r \in B : j \in Within(d, r)
      BY <1>1, <3>1, TableLaidOut
    <3>3. j \in W[r]
      BY <1>2, <3>2
    <3> HIDE DEF W, B
    <3>4. QED
      BY <3>3, UnionGrows
  <2>2. ASSUME NEW j \in Union(W, B) PROVE j \in Within(d, t) \cap S
    <3> HIDE DEF W, B
    <3>1. PICK r \in B : j \in W[r]
      BY UnionGrows
    <3>2. QED
      BY <1>2, <3>1
  <2> HIDE DEF W, B
  <2>3. QED
    BY <2>1, <2>2
<1>5. ASSUME NEW b \in B, NEW c \in B, b < c PROVE Precedes(W[b], W[c])
  <2>1. b \in 1 .. N /\ c \in 1 .. N /\ b \notin Above(d, c)
    BY <1>1, <1>2, TrsAreApart
  <2>2. \A k \in Within(d, b), l \in Within(d, c) : k < l
    BY <1>1, <1>5, <2>1, BelowInOrder
  <2>3. W[b] \in SUBSET Within(d, b) /\ W[c] \in SUBSET Within(d, c)
    BY <1>2
  <2> HIDE DEF W
  <2>4. QED
    BY <2>2, <2>3 DEF Precedes
<1>6. \A r \in B : W[r] \in SUBSET (1 .. N)
  <2> HIDE DEF W, B
  <2> QED
    BY <1>2, <1>3
<1>7. Grouped(W, B, N)
  <2> HIDE DEF W, B
  <2> QED
    BY <1>5, <1>6 DEF Grouped
<1>8. Says(g, T, W, B)
  <2>1. ASSUME NEW r \in B PROVE g[r] = Pieces(T, W[r])
    <3>1. g[r] = ShownIn(d, r)
      BY <1>2, ShownInSteps
    <3> HIDE DEF g
    <3>2. QED
      BY <1>2, <3>1 DEF ShownIn
  <2> HIDE DEF g, T, W, B
  <2>2. QED
    BY <2>1 DEF Says
<1>9. Spells(T, Union(W, B), A)
  <2> HIDE DEF W, B, S
  <2>1. Union(W, B) \in SUBSET (1 .. Len(d))
    BY <1>3, <1>4
  <2>2. QED
    BY <2>1, TextsAreWorded
<1> HIDE DEF W, B, T, g, S, N
<1>10. Pieces(T, Union(W, B)) = Pieces(g, B)
  BY <1>1, <1>3, <1>7, <1>8, <1>9, PiecesGrouped
<1>11. ShownIn(d, t) = Pieces(T, Within(d, t) \cap S)
  BY DEF ShownIn, T, S
<1>12. QED
  BY <1>4, <1>10, <1>11 DEF g, B

(* A row shows the whole of its cells. *)
LEMMA ShownByCells ==
  ASSUME NEW d, NEW A, Lettered(d, A), Leafy(d), NEW r \in 1 .. Len(d), LaidOut(d, r) = "cells"
  PROVE  /\ CellsOf(d, r) \in SUBSET (1 .. Len(d))
         /\ ShownIn(d, r) = Pieces([c \in 1 .. Len(d) |-> TextOf(d, c)], CellsOf(d, r))
<1> DEFINE C == CellsOf(d, r)
           f == [c \in 1 .. Len(d) |-> TextOf(d, c)]
           g == ShownFrom(d)
<1>1. Len(d) \in Nat /\ IsDocument(d)
  BY TextsAreWorded DEF Lettered
<1>2. ASSUME NEW c \in Elements(d, r)
      PROVE  /\ c \in 1 .. Len(d)
             /\ LaidOut(d, c) = IF d[c].tag \in {"td", "th"} THEN "raw" ELSE "nothing"
  <2>1. c \in Nodes(d, r) /\ IsElement(d, c)
    BY DEF Elements
  <2>2. c \in 1 .. Len(d)
    BY <1>1, <2>1, NodesAreBelow
  <2>3. LaidOut(d, c) = Layout("cells", d[c].tag)
    BY <1>1, <2>1, KindOfNode
  <2>4. QED
    BY <2>2, <2>3 DEF Layout
<1>3. C \in SUBSET Elements(d, r) /\ C \in SUBSET (1 .. Len(d))
  BY <1>2 DEF CellsOf
<1>4. \A c \in Elements(d, r) \ C : LaidOut(d, c) = "nothing"
  BY <1>2 DEF CellsOf
<1>5. ASSUME NEW c \in C PROVE g[c] = f[c]
  <2>1. c \in 1 .. Len(d) /\ LaidOut(d, c) = "raw"
    BY <1>2 DEF CellsOf
  <2>2. ShownIn(d, c) = TextOf(d, c)
    BY <2>1, ShownOfKind
  <2>3. g[c] = ShownIn(d, c)
    BY <2>1, ShownInSteps
  <2> HIDE DEF g
  <2>4. QED
    BY <2>1, <2>2, <2>3
<1>6. ShownIn(d, r) = Pieces(g, C)
  <2> HIDE DEF C
  <2> QED
    BY <1>3, <1>4, ShownByParts
<1>7. Pieces(g, C) = Pieces(f, C)
  <2> HIDE DEF C, f, g
  <2> QED
    BY <1>1, <1>3, <1>5, PiecesAlike
<1>8. QED
  BY <1>3, <1>6, <1>7

RowOf(d, r) == Gather(CellsOf(d, r), LAMBDA c : <<TextOf(d, c)>>)
Filled(d, t) == {r \in Trs(d, t) : CellsOf(d, r) # {}}

LEMMA RowIsCells ==
  ASSUME NEW d, NEW A, Lettered(d, A), NEW r \in 1 .. Len(d)
  PROVE  /\ FlattenSeq(RowOf(d, r)) = Pieces([c \in 1 .. Len(d) |-> TextOf(d, c)], CellsOf(d, r))
         /\ \A k \in DOMAIN RowOf(d, r) : LettersOf(RowOf(d, r)[k]) = RowOf(d, r)[k]
<1> DEFINE C == CellsOf(d, r)
           n == Cardinality(C)
           g == [k \in 1 .. n |-> TextOf(d, Ordered(C)[k])]
           f == [c \in 1 .. Len(d) |-> TextOf(d, c)]
           s == FlattenSeq([k \in 1 .. n |-> <<g[k]>>])
<1>1. Len(d) \in Nat /\ DOMAIN d = 1 .. Len(d) /\ IsDocument(d)
  BY TextsAreWorded DEF Lettered
<1>2. C \in SUBSET (1 .. Len(d))
  <2>1. \A c \in C : c \in 1 .. Len(d)
    BY <1>1, NodesAreBelow DEF CellsOf, Elements
  <2> HIDE DEF C
  <2>2. QED
    BY <2>1
<1>3. n \in Nat /\ \A k \in 1 .. n : Ordered(C)[k] \in 1 .. Len(d)
  <2> HIDE DEF C
  <2> QED
    BY <1>1, <1>2, FewNodes
<1>4. RowOf(d, r) = FlattenSeq([k \in 1 .. n |-> <<TextOf(d, Ordered(C)[k])>>])
  BY DEF RowOf, Gather
<1>5. RowOf(d, r) = s
  BY <1>4
<1>6. g = [k \in 1 .. n |-> g[k]]
  OBVIOUS
<1>7. \A k \in 1 .. n : g[k] = TextOf(d, Ordered(C)[k])
  OBVIOUS
<1>8. [k \in 1 .. n |-> f[Ordered(C)[k]]] = [k \in 1 .. n |-> g[k]]
  <2> HIDE DEF C, n
  <2> QED
    BY <1>3
<1>9. s = [k \in 1 .. n |-> g[k]]
  <2> HIDE DEF g, n
  <2> QED
    BY <1>3, FlattenSingles
<1>10. FlattenSeq(RowOf(d, r)) = Pieces(f, C)
  BY <1>5, <1>8, <1>9 DEF Pieces
<1> HIDE DEF s, g, C, n
<1>11. ASSUME NEW k \in 1 .. n PROVE LettersOf(s[k]) = s[k]
  <2>1. s[k] = TextOf(d, Ordered(C)[k])
    BY <1>7, <1>9
  <2>2. Ordered(C)[k] \in 1 .. Len(d)
    BY <1>3
  <2>3. LettersOf(TextOf(d, Ordered(C)[k])) = TextOf(d, Ordered(C)[k])
    BY <2>2, WholeIsPlain
  <2>4. QED
    BY <2>1, <2>3
<1>12. DOMAIN s = 1 .. n
  BY <1>9
<1>13. \A k \in DOMAIN RowOf(d, r) : LettersOf(RowOf(d, r)[k]) = RowOf(d, r)[k]
  BY <1>5, <1>11, <1>12
<1>14. QED
  BY <1>10, <1>13 DEF C

LEMMA RowsAreFilled ==
  ASSUME NEW d, NEW A, Lettered(d, A), NEW t \in 1 .. Len(d)
  PROVE  /\ Filled(d, t) \in SUBSET (1 .. Len(d))
         /\ Cardinality(Filled(d, t)) \in Nat
         /\ \A k \in 1 .. Cardinality(Filled(d, t)) : Ordered(Filled(d, t))[k] \in Filled(d, t)
         /\ Rows(d, t) = [k \in 1 .. Cardinality(Filled(d, t)) |->
                            RowOf(d, Ordered(Filled(d, t))[k])]
<1> DEFINE F == Filled(d, t)
           n == Cardinality(F)
           g == [k \in 1 .. n |-> RowOf(d, Ordered(F)[k])]
<1>1. Len(d) \in Nat /\ IsDocument(d)
  BY TextsAreWorded DEF Lettered
<1>2. F \in SUBSET (1 .. Len(d))
  <2>1. \A r \in Trs(d, t) : r \in 1 .. Len(d)
    BY <1>1, TrsAreBelow
  <2>2. QED
    BY <2>1 DEF Filled
<1>3. n \in Nat /\ \A k \in 1 .. n : Ordered(F)[k] \in F
  <2> HIDE DEF F
  <2> QED
    BY <1>1, <1>2, FewNodes
<1>4. Rows(d, t) = FlattenSeq([k \in 1 .. n |-> <<RowOf(d, Ordered(F)[k])>>])
  BY DEF Rows, Gather, Filled, Trs, CellsOf, RowOf
<1>5. Rows(d, t) = FlattenSeq([k \in 1 .. n |-> <<g[k]>>])
  BY <1>4
<1>6. g = [k \in 1 .. n |-> g[k]]
  OBVIOUS
<1>7. FlattenSeq([k \in 1 .. n |-> <<g[k]>>]) = [k \in 1 .. n |-> g[k]]
  <2> HIDE DEF g, n
  <2> QED
    BY <1>3, FlattenSingles
<1>8. QED
  BY <1>2, <1>3, <1>5, <1>6, <1>7

LEMMA TableShown ==
  ASSUME NEW d, NEW A, Lettered(d, A), Leafy(d), NEW t \in 1 .. Len(d), LaidOut(d, t) = "rows",
         Unnested(d, t),
         \A k \in DOMAIN Rows(d, t) : Len(Rows(d, t)[k]) <= Len(Rows(d, t)[1])
  PROVE  Letters(IF Rows(d, t) = <<>> THEN <<>> ELSE <<TableBlock(Rows(d, t))>>) = ShownIn(d, t)
<1> DEFINE rows == Rows(d, t)
           F == Filled(d, t)
           B == Trs(d, t)
           n == Cardinality(F)
           g == ShownFrom(d)
<1>1. /\ Len(d) \in Nat /\ DOMAIN d = 1 .. Len(d) /\ IsDocument(d) /\ Marks \subseteq A
      /\ Worded(d, A)
  BY TextsAreWorded DEF Lettered, Worded
<1>2. /\ F \in SUBSET (1 .. Len(d)) /\ n \in Nat
      /\ \A k \in 1 .. n : Ordered(F)[k] \in F
      /\ rows = [k \in 1 .. n |-> RowOf(d, Ordered(F)[k])]
  BY RowsAreFilled
<1>3. B \in SUBSET (1 .. Len(d)) /\ F \in SUBSET B
  <2>1. \A r \in B : r \in 1 .. Len(d)
    BY <1>1, TrsAreBelow
  <2> HIDE DEF B
  <2>2. B \in SUBSET (1 .. Len(d))
    BY <2>1
  <2>3. F \in SUBSET B
    BY DEF Filled, B
  <2>4. QED
    BY <2>2, <2>3
<1>4. ASSUME NEW r \in B
      PROVE  /\ g[r] \in Seq(A)
             /\ g[r] = Pieces([c \in 1 .. Len(d) |-> TextOf(d, c)], CellsOf(d, r))
             /\ g[r] = FlattenSeq(RowOf(d, r))
  <2>1. r \in 1 .. Len(d)
    BY <1>3
  <2>2. LaidOut(d, r) = "cells"
    BY <1>1, TableLaidOut
  <2>3. ShownIn(d, r) = Pieces([c \in 1 .. Len(d) |-> TextOf(d, c)], CellsOf(d, r))
    BY <2>1, <2>2, ShownByCells
  <2>4. FlattenSeq(RowOf(d, r)) = Pieces([c \in 1 .. Len(d) |-> TextOf(d, c)], CellsOf(d, r))
    BY <2>1, RowIsCells
  <2>5. g[r] = ShownIn(d, r) /\ ShownIn(d, r) \in Seq(A)
    BY <2>1, ShownInSteps
  <2> HIDE DEF g
  <2>6. QED
    BY <2>3, <2>4, <2>5
<1>5. ASSUME NEW r \in B \ F PROVE g[r] = <<>>
  <2>1. CellsOf(d, r) = {}
    BY DEF Filled
  <2> HIDE DEF g
  <2>2. QED
    BY <1>4, <2>1, NoPieces
<1>6. ShownIn(d, t) = Pieces(g, B)
  BY ShownByRows
<1>7. Pieces(g, B) = Pieces(g, F)
  <2> HIDE DEF g, B, F
  <2>1. Spells(g, B, A)
    BY <1>4 DEF Spells
  <2>2. Silent(g, B \ F)
    BY <1>5 DEF Silent
  <2>3. Len(d) \in Nat
    BY <1>1
  <2>4. QED
    <3>1. Covers(Len(d), B, F, g, A)
      BY <1>3, <2>1, <2>2, <2>3 DEF Covers
    <3>2. QED
      BY <3>1, PiecesOver
<1>8. Pieces(g, F) = FlattenSeq([k \in 1 .. n |-> FlattenSeq(rows[k])])
  <2>1. ASSUME NEW k \in 1 .. n PROVE g[Ordered(F)[k]] = FlattenSeq(rows[k])
    <3>1. Ordered(F)[k] \in B
      BY <1>2, <1>3
    <3>2. rows[k] = RowOf(d, Ordered(F)[k])
      BY <1>2
    <3> HIDE DEF g, rows, B, F, n
    <3>3. QED
      BY <1>4, <3>1, <3>2
  <2>2. [k \in 1 .. n |-> g[Ordered(F)[k]]] = [k \in 1 .. n |-> FlattenSeq(rows[k])]
    <3> HIDE DEF g, rows, F, n
    <3> QED
      BY <2>1
  <2>3. QED
    BY <2>2 DEF Pieces
<1>9. DOMAIN rows = 1 .. n
  BY <1>2
<1>10. ASSUME NEW k \in 1 .. n
       PROVE  \A c \in DOMAIN rows[k] : LettersOf(rows[k][c]) = rows[k][c]
  <2>1. Ordered(F)[k] \in 1 .. Len(d)
    BY <1>2, <1>3
  <2>2. rows[k] = RowOf(d, Ordered(F)[k])
    BY <1>2
  <2> DEFINE r == Ordered(F)[k]
  <2> HIDE DEF r, rows, F, B, n, g
  <2>3. \A c \in DOMAIN RowOf(d, r) : LettersOf(RowOf(d, r)[c]) = RowOf(d, r)[c]
    <3>1. r \in 1 .. Len(d)
      BY <2>1 DEF r
    <3>2. QED
      BY <3>1, RowIsCells
  <2>4. QED
    BY <2>2, <2>3 DEF r
<1>11. rows \in Seq(Seq(Seq(A)))
  BY <1>1, RowsIn
<1>12. \A k \in DOMAIN rows : Len(rows[k]) <= Len(rows[1])
  OBVIOUS
<1>13. Letters(<<>>) = <<>>
  <2>1. <<>> \in Seq(A)
    OBVIOUS
  <2>2. QED
    BY <2>1, LettersOfParagraph
<1> HIDE DEF rows, g, B, F, n
<1>14. ShownIn(d, t) = FlattenSeq([k \in DOMAIN rows |-> FlattenSeq(rows[k])])
  BY <1>6, <1>7, <1>8, <1>9
<1>15. CASE rows = <<>>
  <2>1. [k \in DOMAIN rows |-> FlattenSeq(rows[k])] = <<>>
    BY <1>15
  <2>2. ShownIn(d, t) = <<>>
    BY <1>14, <2>1, FlattenEmpty
  <2>3. QED
    BY <1>13, <1>15, <2>2 DEF rows
<1>16. CASE rows # <<>>
  <2>1. LettersOf(TableBlock(rows)) = FlattenSeq([k \in DOMAIN rows |-> FlattenSeq(rows[k])])
    BY <1>1, <1>9, <1>10, <1>11, <1>12, <1>16, LettersOfTable
  <2>2. TableBlock(rows) \in Seq(A)
    BY <1>1, <1>11, <1>16, TableBlockIn
  <2>3. Letters(<<TableBlock(rows)>>) = LettersOf(TableBlock(rows))
    BY <2>2, LettersOfParagraph
  <2>4. QED
    BY <1>14, <1>16, <2>1, <2>3 DEF rows
<1>17. QED
  BY <1>15, <1>16

BlockTags ==
  Headings \cup BlockContainers
  \cup {"#text", "p", "ul", "ol", "pre", "blockquote", "table", "hr", "dl"}

LEMMA BlockLayouts ==
  ASSUME NEW tag
  PROVE  /\ tag \in SkippedElements => BlockLayout(tag) = "nothing"
         /\ tag \in Headings \cup {"p", "hr"} => BlockLayout(tag) = "inline"
         /\ tag \in {"ul", "ol"} => BlockLayout(tag) = "items"
         /\ tag = "pre" => BlockLayout(tag) = "raw"
         /\ tag \in BlockContainers \cup {"blockquote"} => BlockLayout(tag) = "blocks"
         /\ tag = "table" => BlockLayout(tag) = "rows"
         /\ tag = "dl" => BlockLayout(tag) = "terms"
         /\ tag \notin BlockTags \cup SkippedElements => BlockLayout(tag) = InlineLayout(tag)
<1> USE DEF SkippedElements, Headings, BlockContainers, Dropped, Verbatim
<1>1. tag \in SkippedElements => BlockLayout(tag) = "nothing"
  BY DEF BlockLayout
<1>2. tag \in Headings \cup {"p", "hr"} => BlockLayout(tag) = "inline"
  BY DEF BlockLayout
<1>3. tag \in {"ul", "ol"} => BlockLayout(tag) = "items"
  BY DEF BlockLayout
<1>4. tag = "pre" => BlockLayout(tag) = "raw"
  BY DEF BlockLayout
<1>5. tag \in BlockContainers \cup {"blockquote"} => BlockLayout(tag) = "blocks"
  BY DEF BlockLayout
<1>6. tag = "table" => BlockLayout(tag) = "rows"
  BY DEF BlockLayout
<1>7. tag = "dl" => BlockLayout(tag) = "terms"
  BY DEF BlockLayout
<1>8. tag \notin BlockTags \cup SkippedElements => BlockLayout(tag) = InlineLayout(tag)
  BY DEF BlockLayout, InlineLayout, BlockTags
<1>9. QED
  BY <1>1, <1>2, <1>3, <1>4, <1>5, <1>6, <1>7, <1>8

LEMMA BlockByTag ==
  ASSUME NEW d, NEW c, NEW mode, NEW u
  PROVE  LET tag == d[c].tag
             block == Block(d, c, mode, u)
         IN  /\ tag = "#text" => block = Paragraph(d[c].text)
             /\ tag \in SkippedElements => block = <<>>
             /\ tag \in Headings => block = Heading(d, c, mode)
             /\ tag = "p" => block = Paragraph(Inline(d, c, mode))
             /\ tag \in {"ul", "ol"} => block = List(d, c, mode, u)
             /\ tag = "pre" => block = Paragraph(Marked(mode, TextOf(d, c), "fence"))
             /\ tag = "blockquote" => block = Quote(u[c])
             /\ tag = "table" =>
                  block = IF Rows(d, c) = <<>> THEN <<>> ELSE <<TableBlock(Rows(d, c))>>
             /\ tag = "hr" => block = IF mode = "markdown" THEN <<<<"---">>>> ELSE <<>>
             /\ tag = "dl" => block = Definitions(d, c, mode)
             /\ tag \in BlockContainers => block = u[c]
             /\ tag \notin BlockTags \cup SkippedElements =>
                  block = Paragraph(InlineNode(d, c, mode, Inline(d, c, mode)))
<1> DEFINE tag == d[c].tag
           block == Block(d, c, mode, u)
<1> USE DEF SkippedElements, Headings, BlockContainers
<1>1. tag = "#text" => block = Paragraph(d[c].text)
  BY DEF Block
<1>2. tag \in SkippedElements => block = <<>>
  BY DEF Block
<1>3. tag \in Headings => block = Heading(d, c, mode)
  BY DEF Block
<1>4. tag = "p" => block = Paragraph(Inline(d, c, mode))
  BY DEF Block
<1>5. tag \in {"ul", "ol"} => block = List(d, c, mode, u)
  BY DEF Block
<1>6. tag = "pre" => block = Paragraph(Marked(mode, TextOf(d, c), "fence"))
  BY DEF Block
<1>7. tag = "blockquote" => block = Quote(u[c])
  BY DEF Block
<1>8. tag = "table" => block = IF Rows(d, c) = <<>> THEN <<>> ELSE <<TableBlock(Rows(d, c))>>
  BY DEF Block
<1>9. tag = "hr" => block = IF mode = "markdown" THEN <<<<"---">>>> ELSE <<>>
  BY DEF Block
<1>10. tag = "dl" => block = Definitions(d, c, mode)
  BY DEF Block
<1>11. tag \in BlockContainers => block = u[c]
  BY DEF Block
<1>12. tag \notin BlockTags \cup SkippedElements =>
         block = Paragraph(InlineNode(d, c, mode, Inline(d, c, mode)))
  BY DEF Block, BlockTags
<1>13. QED
  <2> HIDE DEF block, SkippedElements, Headings, BlockContainers
  <2> QED
    BY <1>1, <1>2, <1>3, <1>4, <1>5, <1>6, <1>7, <1>8, <1>9, <1>10, <1>11, <1>12 DEF block

(* What is rendered of a node before the others is what it shows. *)
LEMMA BlockShown ==
  ASSUME NEW d, NEW A, Lettered(d, A), Leafy(d), Regular(d), NEW c \in 1 .. Len(d), NEW mode,
         NEW u,
         \A e \in 1 .. Len(d) : e >= c =>
           /\ u[e] \in Seq(Seq(A))
           /\ LaidOut(d, e) = "blocks" => Letters(u[e]) = ShownIn(d, e),
         LaidOut(d, c) = IF IsElement(d, c) THEN BlockLayout(d[c].tag) ELSE "blocks"
  PROVE  Letters(Block(d, c, mode, u)) = ShownIn(d, c)
<1> DEFINE tag == d[c].tag
           kind == LaidOut(d, c)
           shown == ShownIn(d, c)
           block == Block(d, c, mode, u)
           x == Inline(d, c, mode)
<1>1. /\ Len(d) \in Nat /\ DOMAIN d = 1 .. Len(d) /\ IsDocument(d) /\ Marks \subseteq A
      /\ Worded(d, A)
  BY TextsAreWorded DEF Lettered, Worded
<1>2. tag # "#text" => kind = BlockLayout(tag)
  BY DEF IsElement
<1>3. u[c] \in Seq(Seq(A)) /\ (kind = "blocks" => Letters(u[c]) = shown)
  <2>1. c >= c
    BY <1>1
  <2>2. QED
    BY <2>1
<1>4. x \in Seq(A) /\ (kind = "inline" => LettersOf(x) = shown)
  BY <1>1, InlineIn, InlineShown
<1>5. Letters(<<>>) = <<>> /\ Letters(Paragraph(x)) = LettersOf(x)
  BY <1>4, LettersOfParagraph
<1>6. kind = "nothing" => shown = <<>>
  BY ShownOfKind
<1>7. CASE tag = "#text"
  <2>1. kind = "blocks" /\ Nodes(d, c) = {}
    BY <1>1, <1>7 DEF IsElement, Leafy
  <2>2. shown = d[c].text
    <3>1. c \in ShownNodes(d)
      BY <1>1, <2>1 DEF ShownNodes
    <3>2. QED
      BY <2>1, <3>1, ShownOfKind
  <2>3. Letters(Paragraph(d[c].text)) = LettersOf(d[c].text)
    <3>1. d[c].text \in Seq(A)
      BY TextsAreWorded
    <3>2. QED
      BY <3>1, LettersOfParagraph
  <2>4. block = Paragraph(d[c].text)
    BY <1>7, BlockByTag
  <2>5. QED
    BY <2>2, <2>3, <2>4, WholeIsPlain
<1>8. CASE tag \in SkippedElements
  <2>1. block = <<>>
    BY <1>8, BlockByTag
  <2>2. kind = "nothing"
    <3>1. tag # "#text"
      BY <1>8 DEF SkippedElements
    <3>2. QED
      BY <1>2, <1>8, <3>1, BlockLayouts
  <2>3. QED
    BY <1>5, <1>6, <2>1, <2>2
<1>9. CASE tag \in Headings
  <2>1. block = Heading(d, c, mode)
    BY <1>9, BlockByTag
  <2>2. kind = "inline"
    <3>1. tag # "#text"
      BY <1>9 DEF Headings
    <3>2. QED
      BY <1>2, <1>9, <3>1, BlockLayouts
  <2>3. Letters(Heading(d, c, mode)) = LettersOf(x)
    BY <1>1, LettersOfHeading
  <2>4. QED
    BY <1>4, <2>1, <2>2, <2>3
<1>10. CASE tag = "p"
  <2>1. block = Paragraph(x)
    BY <1>10, BlockByTag
  <2>2. kind = "inline"
    BY <1>2, <1>10, BlockLayouts
  <2>3. QED
    BY <1>4, <1>5, <2>1, <2>2
<1>11. CASE tag \in {"ul", "ol"}
  <2>1. block = List(d, c, mode, u)
    BY <1>11, BlockByTag
  <2>2. kind = "items"
    BY <1>2, <1>11, BlockLayouts
  <2>3. ASSUME NEW e \in Nodes(d, c)
        PROVE  u[e] \in Seq(Seq(A)) /\ (LaidOut(d, e) = "blocks" => Letters(u[e]) = ShownIn(d, e))
    <3>1. e \in 1 .. Len(d) /\ c < e
      BY <1>1, NodesAreBelow
    <3>2. QED
      BY <1>1, <3>1
  <2>4. Letters(List(d, c, mode, u)) = ShownIn(d, c)
    BY <2>2, <2>3, ListShown
  <2>5. QED
    BY <2>1, <2>4
<1>12. CASE tag = "pre"
  <2> DEFINE y == Marked(mode, TextOf(d, c), "fence")
  <2>1. block = Paragraph(y)
    BY <1>12, BlockByTag
  <2>2. kind = "raw"
    BY <1>2, <1>12, BlockLayouts
  <2>3. shown = TextOf(d, c)
    BY <2>2, ShownOfKind
  <2>4. TextOf(d, c) \in Seq(A) /\ LettersOf(TextOf(d, c)) = TextOf(d, c) /\ "fence" \in Marks
    BY WholeIsPlain DEF Marks
  <2>5. y \in Seq(A) /\ LettersOf(y) = LettersOf(TextOf(d, c))
    BY <1>1, <2>4, LettersMarked
  <2> HIDE DEF y
  <2>6. Letters(Paragraph(y)) = LettersOf(y)
    BY <2>5, LettersOfParagraph
  <2>7. QED
    BY <2>1, <2>3, <2>4, <2>5, <2>6
<1>13. CASE tag = "blockquote"
  <2>1. block = Quote(u[c])
    BY <1>13, BlockByTag
  <2>2. kind = "blocks"
    BY <1>2, <1>13, BlockLayouts
  <2>3. Letters(Quote(u[c])) = Letters(u[c])
    BY <1>1, <1>3, LettersOfQuote
  <2>4. QED
    BY <1>3, <2>1, <2>2, <2>3
<1>14. CASE tag = "table"
  <2>1. block = IF Rows(d, c) = <<>> THEN <<>> ELSE <<TableBlock(Rows(d, c))>>
    BY <1>14, BlockByTag
  <2>2. kind = "rows"
    BY <1>2, <1>14, BlockLayouts
  <2>3. /\ \A r \in DOMAIN Rows(d, c) : Len(Rows(d, c)[r]) <= Len(Rows(d, c)[1])
        /\ Unnested(d, c)
    BY <1>1, <1>14 DEF Regular, Unnested
  <2>4. Letters(IF Rows(d, c) = <<>> THEN <<>> ELSE <<TableBlock(Rows(d, c))>>) = ShownIn(d, c)
    BY <2>2, <2>3, TableShown
  <2>5. QED
    BY <2>1, <2>4
<1>15. CASE tag = "hr"
  <2>1. block = IF mode = "markdown" THEN <<<<"---">>>> ELSE <<>>
    BY <1>15, BlockByTag
  <2>2. Nodes(d, c) = {} /\ d[c].text = <<>>
    BY <1>1, <1>15 DEF Leafy
  <2>3. shown = <<>>
    BY <2>2, ShownOfKind
  <2>4. Letters(<<<<"---">>>>) = <<>>
    <3>1. LettersOf(<<"---">>) = <<>> /\ <<"---">> \in Seq(A)
      BY <1>1, LettersOfMark DEF Marks
    <3>2. Letters(<<<<"---">>>>) = LettersOf(<<"---">>)
      BY <3>1, LettersOfParagraph
    <3>3. QED
      BY <3>1, <3>2
  <2>5. QED
    BY <1>5, <2>1, <2>3, <2>4
<1>16. CASE tag = "dl"
  <2>1. block = Definitions(d, c, mode)
    BY <1>16, BlockByTag
  <2>2. kind = "terms"
    BY <1>2, <1>16, BlockLayouts
  <2>3. QED
    BY <2>1, <2>2, TermsShown
<1>17. CASE tag \in BlockContainers
  <2>1. block = u[c]
    BY <1>17, BlockByTag
  <2>2. kind = "blocks"
    <3>1. tag # "#text"
      BY <1>17 DEF BlockContainers
    <3>2. QED
      BY <1>2, <1>17, <3>1, BlockLayouts
  <2>3. QED
    BY <1>3, <2>1, <2>2
<1>18. CASE tag \notin BlockTags \cup SkippedElements
  <2> DEFINE y == InlineNode(d, c, mode, x)
  <2>1. block = Paragraph(y)
    BY <1>18, BlockByTag
  <2>2. tag # "#text"
    BY <1>18 DEF BlockTags
  <2>3. Inlined(d, c)
    BY <1>2, <1>18, <2>2, BlockLayouts DEF Inlined, IsElement
  <2>4. LettersOf(y) = shown
    BY <1>4, <2>3, InlineNodeShown
  <2>5. y \in Seq(A)
    BY <1>1, <1>4, InlineNodeIn
  <2> HIDE DEF y
  <2>6. Letters(Paragraph(y)) = LettersOf(y)
    BY <2>5, LettersOfParagraph
  <2>7. QED
    BY <2>1, <2>4, <2>6
<1>19. QED
  BY <1>7, <1>8, <1>9, <1>10, <1>11, <1>12, <1>13, <1>14, <1>15, <1>16, <1>17, <1>18
     DEF BlockTags

LEMMA BlocksShown ==
  ASSUME NEW d, NEW A, Lettered(d, A), Leafy(d), Regular(d), NEW mode, NEW i \in 1 .. Len(d),
         LaidOut(d, i) = "blocks"
  PROVE  Letters(BlocksOf(d, i, mode)) = ShownIn(d, i)
<1> DEFINE N == Len(d)
<1>1. N \in Nat /\ DOMAIN d = 1 .. N /\ IsDocument(d) /\ Worded(d, A)
  BY TextsAreWorded DEF Lettered
<1>2. PICK blocks : BlocksSolution(d, mode, A, blocks)
  BY <1>1, BlocksSteps
<1> DEFINE P == {j \in 1 .. N : LaidOut(d, j) = "blocks" => Letters(blocks[j]) = ShownIn(d, j)}
           f == [c \in 1 .. N |-> Block(d, c, mode, blocks)]
           g == ShownFrom(d)
<1> HIDE DEF N
<1>3. \A j \in 1 .. N : /\ blocks[j] \in Seq(Seq(A))
                        /\ blocks[j] = BlocksBody(d, mode, blocks, j)
                        /\ BlocksOf(d, j, mode) = blocks[j]
  BY <1>2 DEF BlocksSolution, N
<1>4. \A c \in 1 .. N : f[c] = Block(d, c, mode, blocks) /\ f[c] \in Seq(Seq(A))
  <2>1. ASSUME NEW c \in 1 .. N PROVE Block(d, c, mode, blocks) \in Seq(Seq(A))
    <3>1. \A e \in DOMAIN d : e >= c => blocks[e] \in Seq(Seq(A))
      BY <1>1, <1>3
    <3>2. QED
      BY <1>1, <3>1, BlockIn
  <2>2. QED
    BY <2>1
<1> HIDE DEF f
<1>5. ASSUME NEW j \in 1 .. N, \A c \in 1 .. N : c > j => c \in P PROVE j \in P
  <2> SUFFICES ASSUME LaidOut(d, j) = "blocks" PROVE Letters(blocks[j]) = ShownIn(d, j)
    OBVIOUS
  <2> DEFINE B == Nodes(d, j)
  <2>1. B \in SUBSET (1 .. N) /\ (\A c \in B : c > j) /\ j \in 1 .. Len(d)
    <3>1. j \in 1 .. Len(d)
      BY DEF N
    <3>2. \A c \in B : c \in 1 .. Len(d) /\ j < c
      BY <1>1, <3>1, NodesAreBelow
    <3>3. QED
      BY <1>1, <3>1, <3>2 DEF N
  <2>2. blocks[j] = Paragraph(d[j].text) \o Pieces(f, B)
    <3>1. \A k \in 1 .. Cardinality(B) : Ordered(B)[k] \in 1 .. N
      <4> HIDE DEF B
      <4> QED
        BY <1>1, <2>1, FewNodes
    <3>2. [k \in 1 .. Cardinality(B) |-> f[Ordered(B)[k]]]
          = [k \in 1 .. Cardinality(B) |-> Block(d, Ordered(B)[k], mode, blocks)]
      <4> HIDE DEF B
      <4> QED
        BY <1>4, <3>1
    <3>3. blocks[j] = BlocksBody(d, mode, blocks, j)
      BY <1>3
    <3>4. BlocksBody(d, mode, blocks, j)
          = Paragraph(d[j].text) \o FlattenSeq([k \in 1 .. Cardinality(B) |->
               Block(d, Ordered(B)[k], mode, blocks)])
      BY DEF BlocksBody, Gather
    <3>5. QED
      BY <3>2, <3>3, <3>4 DEF Pieces
  <2>3. ASSUME NEW c \in B PROVE g[c] = Letters(f[c])
    <3>1. c \in 1 .. N /\ c > j
      BY <2>1
    <3>2. ASSUME NEW e \in 1 .. N, e >= c
          PROVE  /\ blocks[e] \in Seq(Seq(A))
                 /\ LaidOut(d, e) = "blocks" => Letters(blocks[e]) = ShownIn(d, e)
      <4>1. e \in P
        <5> HIDE DEF P
        <5> QED
          BY <1>1, <1>5, <3>1, <3>2
      <4>2. QED
        BY <1>3, <4>1
    <3>3. LaidOut(d, c) = IF IsElement(d, c) THEN Layout(LaidOut(d, j), d[c].tag)
                          ELSE LaidOut(d, j)
      BY <1>1, <2>1, KindOfNode
    <3>4. LaidOut(d, c) = IF IsElement(d, c) THEN BlockLayout(d[c].tag) ELSE "blocks"
      BY <3>3 DEF Layout
    <3>5. Letters(Block(d, c, mode, blocks)) = ShownIn(d, c)
      <4>1. c \in 1 .. Len(d)
        BY <3>1 DEF N
      <4>2. \A e \in 1 .. Len(d) : e >= c =>
              /\ blocks[e] \in Seq(Seq(A))
              /\ LaidOut(d, e) = "blocks" => Letters(blocks[e]) = ShownIn(d, e)
        BY <3>2 DEF N
      <4> HIDE DEF P, B
      <4>3. QED
        BY <3>4, <4>1, <4>2, BlockShown
    <3>6. g[c] = ShownIn(d, c)
      BY <3>1, ShownInSteps DEF N
    <3>7. QED
      BY <1>4, <3>1, <3>5, <3>6
  <2>4. Spells(f, B, Seq(A))
    BY <1>4, <2>1 DEF Spells
  <2> HIDE DEF B, P, g
  <2>5. Letters(Pieces(f, B)) = Pieces(g, B)
    BY <1>1, <2>1, <2>3, <2>4, BlockLettersOfPieces
  <2>6. /\ d[j].text \in Seq(A) /\ LettersOf(d[j].text) = d[j].text
        /\ Paragraph(d[j].text) \in Seq(Seq(A))
        /\ Letters(Paragraph(d[j].text)) = LettersOf(d[j].text)
    <3>1. d[j].text \in Seq(A) /\ LettersOf(d[j].text) = d[j].text
      BY <2>1, TextsAreWorded, WholeIsPlain
    <3>2. QED
      BY <3>1, ParagraphIn, LettersOfParagraph
  <2>7. Pieces(f, B) \in Seq(Seq(A))
    BY <1>1, <2>1, <2>4, PiecesList
  <2>8. Letters(Paragraph(d[j].text) \o Pieces(f, B))
        = Letters(Paragraph(d[j].text)) \o Letters(Pieces(f, B))
    BY <2>6, <2>7, BlockLettersJoin
  <2>9. ShownIn(d, j) = d[j].text \o Pieces(g, B)
    <3>1. j \in ShownNodes(d)
      BY <1>1 DEF ShownNodes
    <3>2. ShownIn(d, j) = (IF j \in ShownNodes(d) THEN d[j].text ELSE <<>>)
                            \o Pieces(ShownFrom(d), Nodes(d, j))
      BY <2>1, ShownInSteps
    <3>3. QED
      BY <3>1, <3>2 DEF B, g
  <2>10. QED
    BY <2>2, <2>5, <2>6, <2>8, <2>9
<1> HIDE DEF P
<1>6. i \in P
  <2>1. i \in 1 .. N
    BY DEF N
  <2>2. QED
    BY <1>1, <1>5, <2>1, FromTheEnd
<1>7. LaidOut(d, i) = "blocks" => Letters(blocks[i]) = ShownIn(d, i)
  BY <1>6 DEF P
<1>8. i \in 1 .. N
  BY DEF N
<1>9. QED
  BY <1>3, <1>7, <1>8

(* Every letter of the texts that are shown, and no other, in their order. *)
LEMMA RenderedExactly ==
  ASSUME NEW d, IsDocument(d), Leafy(d), Regular(d),
         \A i \in DOMAIN d : Range(d[i].text) \cap Marks = {}, NEW mode
  PROVE  Letters(RenderHtml(d, mode)) = ShownText(d)
<1> DEFINE A == Atoms(d)
           S == ShownNodes(d)
<1>1. Len(d) \in Nat \ {0} /\ DOMAIN d = 1 .. Len(d) /\ Worded(d, A) /\ d[1].up = 0
  BY DocumentShape, DocumentIsWorded
<1>2. Lettered(d, A)
  BY <1>1 DEF Lettered, Range
<1> HIDE DEF A
<1>3. 1 \in 1 .. Len(d)
  BY <1>1
<1>4. LaidOut(d, 1) = "blocks"
  <2>1. PICK laid \in [1 .. Len(d) -> Kinds] :
          \A i \in 1 .. Len(d) : LaidOut(d, i) = laid[i] /\ laid[i] = LaidOutBody(d, i, laid)
    BY LaidOutSteps
  <2>2. QED
    BY <1>1, <1>3, <2>1 DEF LaidOutBody
<1>5. Letters(BlocksOf(d, 1, mode)) = ShownIn(d, 1)
  BY <1>2, <1>3, <1>4, BlocksShown
<1>6. Within(d, 1) = 1 .. Len(d)
  <2> DEFINE P == {j \in 1 .. Len(d) : j \in Within(d, 1)}
  <2>1. ASSUME NEW j \in 1 .. Len(d), \A c \in 1 .. Len(d) : c < j => c \in P PROVE j \in P
    <3>1. CASE j = 1
      BY <1>3, <3>1, BelowNode
    <3>2. CASE j # 1
      <4>1. d[j].up \in Above(d, j) /\ j \in 2 .. Len(d)
        BY <1>1, <3>2, DocumentShape
      <4> DEFINE p == d[j].up
      <4>2. p \in 1 .. Len(d) /\ p < j
        BY <4>1 DEF Above
      <4> HIDE DEF p
      <4>3. p \in Within(d, 1)
        BY <2>1, <4>2
      <4>4. j \in Within(d, p)
        BY <4>1, <4>2, BelowNode DEF p
      <4>5. j \in Within(d, 1)
        BY <1>3, <4>3, <4>4, WithinIsTransitive
      <4>6. QED
        BY <4>5
    <3>3. QED
      BY <3>1, <3>2
  <2> HIDE DEF P
  <2>2. \A j \in 1 .. Len(d) : j \in P
    BY <1>1, <2>1, FromTheRoot
  <2>3. Within(d, 1) \in SUBSET (1 .. Len(d))
    BY <1>3, BelowNode
  <2>4. QED
    BY <2>2, <2>3 DEF P
<1>7. S \in SUBSET (1 .. Len(d)) /\ Within(d, 1) \cap S = S
  BY <1>1, <1>6 DEF ShownNodes
<1>8. ShownIn(d, 1) = Pieces(Texts(d), S)
  BY <1>7 DEF ShownIn
<1>9. Pieces(Texts(d), S) = TextOfAll(d, S)
  BY <1>2, <1>7, TextsAreWorded
<1>10. QED
  BY <1>5, <1>8, <1>9 DEF ShownText, RenderHtml, ShownNodes
=================================================================================
