------------------------- MODULE EmbeddedSearchProofs -------------------------
EXTENDS EmbeddedSearch, NaturalsInduction, WellFoundedInduction, FiniteSetTheorems, TLAPS

(* A set of numbers has a least one. *)
LEMMA LeastNumber ==
  ASSUME NEW S \in SUBSET Nat, S # {}
  PROVE  \E m \in S : \A l \in S : m <= l
<1>1. PICK m \in S : \A l \in S : ~ (<<l, m>> \in OpToRel(<, Nat))
  BY NatLessThanWellFounded, WFMin
<1>2. \A l \in S : ~ (l < m)
  BY <1>1 DEF OpToRel
<1> QED
  BY <1>2

(* What Select and FlattenSeq compute, one element at a time.              *)
PickStep(s, I, u, n) == IF n \in I THEN Append(u[n - 1], s[n]) ELSE u[n - 1]

LEMMA SelectSteps ==
  ASSUME NEW S, NEW s \in Seq(S), NEW I
  PROVE  \E u : /\ u[0] = <<>>
                /\ \A n \in 1 .. Len(s) : u[n] = PickStep(s, I, u, n)
                /\ Select(s, I) = u[Len(s)]
<1> DEFINE Value(u, n) == IF n = 0 THEN <<>>
                          ELSE IF n \in I THEN Append(u[n - 1], s[n]) ELSE u[n - 1]
           Upto(u, N) == \A n \in 0 .. N : u[n] = Value(u, n)
           Bad == {N \in Nat : ~ \E u : Upto(u, N)}
<1>1. Bad = {}
  <2> SUFFICES ASSUME Bad # {} PROVE FALSE
    OBVIOUS
  <2>1. PICK N \in Bad : \A M \in Bad : N <= M
    BY LeastNumber
  <2>2. N \in Nat /\ ~ \E u : Upto(u, N)
    BY <2>1
  <2>3. CASE N = 0
    <3> DEFINE u == [n \in 0 .. 0 |-> <<>>]
    <3>1. Upto(u, 0)
      BY SMT
    <3>2. QED
      BY <2>2, <2>3, <3>1
  <2>4. CASE N # 0
    <3>1. N - 1 \in Nat /\ ~(N <= N - 1)
      BY <2>2, <2>4
    <3>2. N - 1 \notin Bad
      BY <2>1, <3>1
    <3>3. PICK v : Upto(v, N - 1)
      BY <3>1, <3>2
    <3> DEFINE u == [n \in 0 .. N |-> IF n = N THEN Value(v, N) ELSE v[n]]
    <3>4. \A n \in 0 .. N - 1 : u[n] = v[n]
      BY <3>1
    <3>5. u[N] = Value(v, N)
      BY <2>2
    <3> HIDE DEF u
    <3>6. \A n \in 0 .. N : u[n] = Value(u, n)
      <4> TAKE n \in 0 .. N
      <4>1. CASE n = N
        <5>1. u[N - 1] = v[N - 1]
          BY <3>1, <3>4
        <5>2. QED
          BY <2>4, <3>5, <4>1, <5>1
      <4>2. CASE n # N
        <5>1. n \in 0 .. N - 1 /\ (n # 0 => n - 1 \in 0 .. N - 1)
          BY <3>1, <4>2
        <5>2. u[n] = v[n] /\ v[n] = Value(v, n) /\ (n # 0 => u[n - 1] = v[n - 1])
          BY <3>3, <3>4, <5>1
        <5>3. QED
          BY <5>2
      <4>3. QED
        BY <4>1, <4>2
    <3>7. QED
      BY <2>2, <3>6
  <2>5. QED
    BY <2>3, <2>4
<1> DEFINE Body(u) == [n \in 0 .. Len(s) |-> Value(u, n)]
           w == CHOOSE u : u = Body(u)
<1>2. Len(s) \in Nat
  OBVIOUS
<1>3. PICK v : Upto(v, Len(s))
  BY <1>1, <1>2
<1>4. \E u : u = Body(u)
  <2> DEFINE u == [n \in 0 .. Len(s) |-> v[n]]
  <2>1. ASSUME NEW n \in 0 .. Len(s) PROVE v[n] = Value(u, n)
    <3>1. n # 0 => u[n - 1] = v[n - 1]
      BY <1>2
    <3>2. v[n] = Value(v, n)
      BY <1>3
    <3> HIDE DEF u
    <3>3. QED
      BY <3>1, <3>2
  <2>2. u = Body(u)
    BY <2>1
  <2>3. QED
    BY <2>2
<1>5. w = Body(w)
  BY <1>4
<1>6. Select(s, I) = w[Len(s)]
  BY DEF Select
<1> HIDE DEF w
<1>7. ASSUME NEW n \in 0 .. Len(s) PROVE w[n] = Value(w, n)
  <2>1. Body(w)[n] = Value(w, n)
    OBVIOUS
  <2> HIDE DEF Body
  <2>2. QED
    BY <1>5, <2>1
<1>8. w[0] = <<>>
  BY <1>2, <1>7
<1>9. \A n \in 1 .. Len(s) : w[n] = PickStep(s, I, w, n)
  BY <1>2, <1>7 DEF PickStep
<1>10. QED
  BY <1>6, <1>8, <1>9

-----------------------------------------------------------------------------
(* f names the elements of a set of positions I in increasing order.       *)
Picks(f, k, I) ==
  /\ f \in [1 .. k -> I]
  /\ \A a, b \in 1 .. k : a < b => f[a] < f[b]
  /\ \A i \in I : \E a \in 1 .. k : f[a] = i

LEMMA PicksAgree ==
  ASSUME NEW I \in SUBSET Nat, NEW k \in Nat, NEW l \in Nat, NEW f, NEW g,
         Picks(f, k, I), Picks(g, l, I)
  PROVE  \A a \in 1 .. k : a \in 1 .. l /\ f[a] = g[a]
<1> DEFINE Bad == {a \in 1 .. k : a \notin 1 .. l \/ f[a] # g[a]}
<1> SUFFICES ASSUME Bad # {} PROVE FALSE
  OBVIOUS
<1>1. PICK a \in Bad : \A b \in Bad : a <= b
  <2>1. Bad \in SUBSET Nat
    OBVIOUS
  <2>2. QED
    BY <2>1, LeastNumber
<1>2. a \in 1 .. k /\ (a \notin 1 .. l \/ f[a] # g[a])
  BY <1>1
<1>3. ASSUME NEW b \in 1 .. k, b < a PROVE b \in 1 .. l /\ f[b] = g[b]
  BY <1>1, <1>2, <1>3
<1> HIDE DEF Bad
<1>4. \A b \in 1 .. k : f[b] \in I /\ f[b] \in Nat
  BY DEF Picks
<1>5. \A b \in 1 .. l : g[b] \in I /\ g[b] \in Nat
  BY DEF Picks
<1>6. PICK c \in 1 .. l : g[c] = f[a]
  BY <1>2, <1>4 DEF Picks
<1>7. a <= c
  <2> SUFFICES ASSUME c < a PROVE FALSE
    BY <1>2
  <2>1. c \in 1 .. k
    BY <1>2
  <2>2. f[c] = f[a] /\ f[c] < f[a]
    BY <1>2, <1>3, <1>6, <2>1 DEF Picks
  <2>3. QED
    BY <1>2, <1>4, <2>2
<1>8. a \in 1 .. l /\ g[a] <= f[a]
  <2>1. a \in 1 .. l
    BY <1>2, <1>7
  <2>2. a = c \/ g[a] < g[c]
    BY <1>7, <2>1 DEF Picks
  <2>3. QED
    BY <1>5, <1>6, <2>1, <2>2
<1>9. PICK d \in 1 .. k : f[d] = g[a]
  BY <1>5, <1>8 DEF Picks
<1>10. a <= d
  <2> SUFFICES ASSUME d < a PROVE FALSE
    BY <1>2
  <2>1. d \in 1 .. l /\ f[d] = g[d]
    BY <1>3
  <2>2. g[d] < g[a]
    BY <1>8, <2>1 DEF Picks
  <2>3. QED
    BY <1>5, <1>8, <1>9, <2>1, <2>2
<1>11. f[a] <= g[a]
  <2>1. a = d \/ f[a] < f[d]
    BY <1>2, <1>10 DEF Picks
  <2>2. QED
    BY <1>2, <1>4, <1>9, <2>1
<1>12. QED
  BY <1>2, <1>4, <1>5, <1>8, <1>11

LEMMA PicksUnique ==
  ASSUME NEW I \in SUBSET Nat, NEW k \in Nat, NEW l \in Nat, NEW f, NEW g,
         Picks(f, k, I), Picks(g, l, I)
  PROVE  k = l /\ f = g
<1>1. \A a \in 1 .. k : a \in 1 .. l /\ f[a] = g[a]
  BY PicksAgree
<1>2. \A a \in 1 .. l : a \in 1 .. k
  BY PicksAgree
<1>3. k = l
  <2>1. k # 0 => k \in 1 .. k
    OBVIOUS
  <2>2. l # 0 => l \in 1 .. l
    OBVIOUS
  <2>3. QED
    BY <1>1, <1>2, <2>1, <2>2
<1>4. QED
  BY <1>1, <1>3 DEF Picks

LEMMA PicksExtend ==
  ASSUME NEW I \in SUBSET Nat, NEW N \in Nat, \A i \in I : i < N,
         NEW k \in Nat, NEW f, Picks(f, k, I)
  PROVE  Picks([n \in 1 .. k + 1 |-> IF n = k + 1 THEN N ELSE f[n]], k + 1, I \cup {N})
<1> DEFINE g == [n \in 1 .. k + 1 |-> IF n = k + 1 THEN N ELSE f[n]]
<1>1. g[k + 1] = N
  OBVIOUS
<1>2. ASSUME NEW n \in 1 .. k PROVE n \in 1 .. k + 1 /\ g[n] = f[n] /\ f[n] \in I
  BY DEF Picks
<1>3. ASSUME NEW n \in 1 .. k + 1, n # k + 1 PROVE n \in 1 .. k
  BY <1>3
<1>4. k + 1 \in 1 .. k + 1
  OBVIOUS
<1>5. g = [n \in 1 .. k + 1 |-> g[n]]
  OBVIOUS
<1> HIDE DEF g
<1>6. ASSUME NEW n \in 1 .. k + 1 PROVE g[n] \in I \cup {N}
  BY <1>1, <1>2, <1>3
<1>7. g \in [1 .. k + 1 -> I \cup {N}]
  BY <1>5, <1>6
<1>8. ASSUME NEW a \in 1 .. k + 1, NEW b \in 1 .. k + 1, a < b PROVE g[a] < g[b]
  <2>1. a \in 1 .. k
    BY <1>8
  <2>2. CASE b = k + 1
    BY <1>1, <1>2, <2>1, <2>2
  <2>3. CASE b # k + 1
    <3>1. b \in 1 .. k
      BY <2>3, <1>3
    <3>2. f[a] < f[b]
      BY <1>8, <2>1, <3>1 DEF Picks
    <3>3. QED
      BY <1>2, <2>1, <3>1, <3>2
  <2>4. QED
    BY <2>2, <2>3
<1>9. ASSUME NEW i \in I \cup {N} PROVE \E a \in 1 .. k + 1 : g[a] = i
  <2>1. CASE i = N
    BY <1>1, <1>4, <2>1
  <2>2. CASE i # N
    <3>1. PICK a \in 1 .. k : f[a] = i
      BY <2>2 DEF Picks
    <3>2. QED
      BY <1>2, <3>1
  <2>3. QED
    BY <2>1, <2>2
<1>10. Picks(g, k + 1, I \cup {N})
  BY <1>7, <1>8, <1>9 DEF Picks
<1>11. QED
  BY <1>10 DEF g

LEMMA AppendPicked ==
  ASSUME NEW S, NEW s \in Seq(S), NEW k \in Nat, NEW f, \A n \in 1 .. k : f[n] \in DOMAIN s,
         NEW N \in DOMAIN s
  PROVE  Append([n \in 1 .. k |-> s[f[n]]], s[N])
           = [n \in 1 .. k + 1 |-> s[IF n = k + 1 THEN N ELSE f[n]]]
<1> DEFINE t == [n \in 1 .. k |-> s[f[n]]]
           r == [n \in 1 .. k + 1 |-> s[IF n = k + 1 THEN N ELSE f[n]]]
<1>1. s[N] \in S /\ \A n \in 1 .. k : s[f[n]] \in S
  OBVIOUS
<1>2. t \in Seq(S) /\ Len(t) = k
  BY <1>1
<1>3. \A n \in 1 .. k : t[n] = s[f[n]]
  OBVIOUS
<1>4. r \in Seq(S) /\ Len(r) = k + 1
  <2>1. \A n \in 1 .. k + 1 : s[IF n = k + 1 THEN N ELSE f[n]] \in S
    BY <1>1
  <2>2. QED
    BY <2>1
<1>5. r[k + 1] = s[N] /\ \A n \in 1 .. k : r[n] = s[f[n]]
  OBVIOUS
<1> HIDE DEF t, r
<1>6. /\ Append(t, s[N]) \in Seq(S)
      /\ Len(Append(t, s[N])) = k + 1
  BY <1>1, <1>2
<1>7. /\ Append(t, s[N])[k + 1] = s[N]
      /\ \A n \in 1 .. k : Append(t, s[N])[n] = t[n]
  BY <1>1, <1>2
<1>8. ASSUME NEW n \in 1 .. k + 1 PROVE Append(t, s[N])[n] = r[n]
  <2>1. CASE n = k + 1
    BY <1>5, <1>7, <2>1
  <2>2. CASE n # k + 1
    <3>1. n \in 1 .. k
      BY <2>2
    <3>2. QED
      BY <1>3, <1>5, <1>7, <3>1
  <2>3. QED
    BY <2>1, <2>2
<1>9. Append(t, s[N]) = r
  BY <1>4, <1>6, <1>8
<1>10. QED
  BY <1>9 DEF t, r

(* Select goes through its positions in increasing order.                  *)
LEMMA SelectPicks ==
  ASSUME NEW S, NEW s \in Seq(S), NEW I \in SUBSET DOMAIN s
  PROVE  \E k \in Nat : \E f : Picks(f, k, I) /\ Select(s, I) = [n \in 1 .. k |-> s[f[n]]]
<1>1. Len(s) \in Nat /\ DOMAIN s = 1 .. Len(s)
  OBVIOUS
<1>2. PICK u : /\ u[0] = <<>>
               /\ \A n \in 1 .. Len(s) : u[n] = PickStep(s, I, u, n)
               /\ Select(s, I) = u[Len(s)]
  BY SelectSteps
<1> DEFINE To(N) == {i \in I : i <= N}
           Good(N) == \E k \in Nat : \E f : /\ Picks(f, k, To(N))
                                            /\ u[N] = [n \in 1 .. k |-> s[f[n]]]
           Bad == {N \in 0 .. Len(s) : ~ Good(N)}
<1>3. To(0) = {} /\ To(Len(s)) = I /\ \A N : To(N) \in SUBSET I
  BY <1>1
<1>4. ASSUME NEW N \in 1 .. Len(s) PROVE To(N) = IF N \in I THEN To(N - 1) \cup {N} ELSE To(N - 1)
  BY <1>1
<1>5. ASSUME NEW N \in 1 .. Len(s), NEW i \in To(N - 1) PROVE i < N
  BY <1>1
<1> HIDE DEF To
<1>6. Good(0)
  <2> DEFINE f == [n \in 1 .. 0 |-> n]
  <2>1. Picks(f, 0, {})
    <3>1. 1 .. 0 = {}
      OBVIOUS
    <3>2. QED
      BY <3>1 DEF Picks
  <2>2. [n \in 1 .. 0 |-> s[f[n]]] = <<>>
    OBVIOUS
  <2> HIDE DEF f
  <2>3. Picks(f, 0, To(0)) /\ u[0] = [n \in 1 .. 0 |-> s[f[n]]]
    BY <1>2, <1>3, <2>1, <2>2
  <2>4. 0 \in Nat
    OBVIOUS
  <2>5. QED
    BY <2>3, <2>4
<1>7. ASSUME NEW N \in 1 .. Len(s), Good(N - 1) PROVE Good(N)
  <2>1. PICK k \in Nat : \E f : /\ Picks(f, k, To(N - 1))
                                /\ u[N - 1] = [n \in 1 .. k |-> s[f[n]]]
    BY <1>7
  <2>2. k \in Nat /\ k + 1 \in Nat
    BY <2>1
  <2>3. PICK f : /\ Picks(f, k, To(N - 1))
                 /\ u[N - 1] = [n \in 1 .. k |-> s[f[n]]]
    BY <2>1
  <2>4. u[N] = IF N \in I THEN Append(u[N - 1], s[N]) ELSE u[N - 1]
    BY <1>2 DEF PickStep
  <2>5. CASE N \notin I
    <3>1. To(N) = To(N - 1) /\ u[N] = u[N - 1]
      BY <1>4, <2>4, <2>5
    <3>2. QED
      BY <2>2, <2>3, <3>1
  <2>6. CASE N \in I
    <3> DEFINE g == [n \in 1 .. k + 1 |-> IF n = k + 1 THEN N ELSE f[n]]
    <3>1. N \in Nat /\ N \in DOMAIN s /\ To(N - 1) \in SUBSET Nat
      BY <1>1, <1>3
    <3>2. Picks(g, k + 1, To(N - 1) \cup {N})
      BY <1>5, <2>2, <2>3, <3>1, PicksExtend
    <3>3. \A n \in 1 .. k : f[n] \in DOMAIN s
      BY <1>3, <2>3 DEF Picks
    <3>4. u[N] = [n \in 1 .. k + 1 |-> s[IF n = k + 1 THEN N ELSE f[n]]]
      BY <2>2, <2>3, <2>4, <2>6, <3>1, <3>3, AppendPicked
    <3>5. [n \in 1 .. k + 1 |-> s[IF n = k + 1 THEN N ELSE f[n]]] = [n \in 1 .. k + 1 |-> s[g[n]]]
      OBVIOUS
    <3>6. To(N) = To(N - 1) \cup {N}
      BY <1>4, <2>6
    <3> HIDE DEF g
    <3>7. Picks(g, k + 1, To(N)) /\ u[N] = [n \in 1 .. k + 1 |-> s[g[n]]]
      BY <3>2, <3>4, <3>5, <3>6
    <3>8. QED
      BY <2>2, <3>7
  <2>7. QED
    BY <2>5, <2>6
<1> HIDE DEF Good
<1>8. Bad = {}
  <2> SUFFICES ASSUME Bad # {} PROVE FALSE
    OBVIOUS
  <2>1. Bad \in SUBSET Nat
    BY <1>1
  <2>2. PICK N \in Bad : \A M \in Bad : N <= M
    BY <2>1, LeastNumber
  <2>3. N \in 0 .. Len(s) /\ ~ Good(N)
    BY <2>2
  <2>4. N # 0
    BY <1>6, <2>3
  <2>5. N \in 1 .. Len(s) /\ N - 1 \in 0 .. Len(s) /\ ~(N <= N - 1)
    BY <1>1, <2>3, <2>4
  <2>6. Good(N - 1)
    BY <2>2, <2>5
  <2>7. QED
    BY <1>7, <2>3, <2>5, <2>6
<1>9. Good(Len(s))
  <2>1. Len(s) \in 0 .. Len(s)
    BY <1>1
  <2>2. QED
    BY <1>8, <2>1
<1>10. QED
  BY <1>2, <1>3, <1>9 DEF Good

(* Whoever names the positions in increasing order has what Select does.   *)
LEMMA SelectIs ==
  ASSUME NEW S, NEW s \in Seq(S), NEW I \in SUBSET DOMAIN s, NEW k \in Nat, NEW f,
         Picks(f, k, I)
  PROVE  Select(s, I) = [n \in 1 .. k |-> s[f[n]]]
<1>1. PICK l \in Nat : \E g : Picks(g, l, I) /\ Select(s, I) = [n \in 1 .. l |-> s[g[n]]]
  BY SelectPicks
<1>2. PICK g : Picks(g, l, I) /\ Select(s, I) = [n \in 1 .. l |-> s[g[n]]]
  BY <1>1
<1>3. I \in SUBSET Nat /\ l \in Nat
  BY <1>1
<1>4. k = l /\ f = g
  BY <1>2, <1>3, PicksUnique
<1>5. QED
  BY <1>2, <1>4

LEMMA FlattenSteps ==
  ASSUME NEW T, NEW s \in Seq(T), Len(s) # 0
  PROVE  \E u : /\ u[1] = s[1]
                /\ \A n \in 2 .. Len(s) : u[n] = u[n - 1] \o s[n]
                /\ FlattenSeq(s) = u[Len(s)]
<1> DEFINE Value(u, n) == IF n = 1 THEN s[n] ELSE u[n - 1] \o s[n]
           Upto(u, N) == \A n \in 1 .. N : u[n] = Value(u, n)
           Bad == {N \in Nat : ~ \E u : Upto(u, N)}
<1>1. Bad = {}
  <2> SUFFICES ASSUME Bad # {} PROVE FALSE
    OBVIOUS
  <2>1. PICK N \in Bad : \A M \in Bad : N <= M
    BY LeastNumber
  <2>2. N \in Nat /\ ~ \E u : Upto(u, N)
    BY <2>1
  <2>3. CASE N = 0
    <3>1. Upto(<<>>, 0)
      BY SMT
    <3>2. QED
      BY <2>2, <2>3, <3>1
  <2>4. CASE N # 0
    <3>1. N - 1 \in Nat /\ ~(N <= N - 1)
      BY <2>2, <2>4
    <3>2. N - 1 \notin Bad
      BY <2>1, <3>1
    <3>3. PICK v : Upto(v, N - 1)
      BY <3>1, <3>2
    <3> DEFINE u == [n \in 1 .. N |-> IF n = N THEN Value(v, N) ELSE v[n]]
    <3>4. \A n \in 1 .. N - 1 : u[n] = v[n]
      BY <3>1
    <3>5. u[N] = Value(v, N)
      BY <2>2, <2>4
    <3> HIDE DEF u
    <3>6. \A n \in 1 .. N : u[n] = Value(u, n)
      <4> TAKE n \in 1 .. N
      <4>1. CASE n = N
        <5>1. n # 1 => u[N - 1] = v[N - 1]
          BY <3>1, <3>4, <4>1
        <5>2. QED
          BY <2>4, <3>5, <4>1, <5>1
      <4>2. CASE n # N
        <5>1. n \in 1 .. N - 1 /\ (n # 1 => n - 1 \in 1 .. N - 1)
          BY <3>1, <4>2
        <5>2. u[n] = v[n] /\ v[n] = Value(v, n) /\ (n # 1 => u[n - 1] = v[n - 1])
          BY <3>3, <3>4, <5>1
        <5>3. QED
          BY <5>2
      <4>3. QED
        BY <4>1, <4>2
    <3>7. QED
      BY <2>2, <3>6
  <2>5. QED
    BY <2>3, <2>4
<1> DEFINE Body(u) == [n \in 1 .. Len(s) |-> Value(u, n)]
           w == CHOOSE u : u = Body(u)
<1>2. Len(s) \in Nat \ {0}
  OBVIOUS
<1>3. PICK v : Upto(v, Len(s))
  BY <1>1, <1>2
<1>4. \E u : u = Body(u)
  <2> DEFINE u == [n \in 1 .. Len(s) |-> v[n]]
  <2>1. ASSUME NEW n \in 1 .. Len(s) PROVE v[n] = Value(u, n)
    <3>1. n # 1 => u[n - 1] = v[n - 1]
      BY <1>2
    <3>2. v[n] = Value(v, n)
      BY <1>3
    <3> HIDE DEF u
    <3>3. QED
      BY <3>1, <3>2
  <2>2. u = Body(u)
    BY <2>1
  <2>3. QED
    BY <2>2
<1>5. w = Body(w)
  BY <1>4
<1>6. FlattenSeq(s) = w[Len(s)]
  BY <1>2 DEF FlattenSeq
<1> HIDE DEF w
<1>7. ASSUME NEW n \in 1 .. Len(s) PROVE w[n] = Value(w, n)
  <2>1. Body(w)[n] = Value(w, n)
    OBVIOUS
  <2> HIDE DEF Body
  <2>2. QED
    BY <1>5, <2>1
<1>8. w[1] = s[1]
  BY <1>2, <1>7
<1>9. ASSUME NEW n \in 2 .. Len(s) PROVE w[n] = w[n - 1] \o s[n]
  <2>1. n \in 1 .. Len(s) /\ n # 1
    OBVIOUS
  <2>2. w[n] = Value(w, n)
    BY <1>7, <2>1
  <2>3. QED
    BY <2>1, <2>2
<1>10. QED
  BY <1>6, <1>8, <1>9

(* t is the concatenation of the first N sequences of s, v says from which *)
(* of them each of its elements comes.                                     *)
Places(v, t, s, N) ==
  /\ v \in [DOMAIN t -> 1 .. N]
  /\ \A a, b \in DOMAIN t : a < b => v[a] <= v[b]
  /\ \A a \in DOMAIN t : \E j \in DOMAIN s[v[a]] : t[a] = s[v[a]][j]
  /\ \A i \in 1 .. N : \A j \in DOMAIN s[i] : \E a \in DOMAIN t : v[a] = i /\ t[a] = s[i][j]

LEMMA PlacesStart ==
  ASSUME NEW S, NEW s \in Seq(Seq(S)), Len(s) # 0
  PROVE  Places([a \in DOMAIN s[1] |-> 1], s[1], s, 1)
<1>1. s[1] \in Seq(S)
  OBVIOUS
<1>2. 1 .. 1 = {1}
  OBVIOUS
<1>3. QED
  BY <1>1, <1>2 DEF Places

LEMMA PlacesExtend ==
  ASSUME NEW S, NEW s \in Seq(Seq(S)), NEW N \in Nat, N + 1 \in DOMAIN s,
         NEW t \in Seq(S), NEW v, Places(v, t, s, N)
  PROVE  Places([a \in DOMAIN (t \o s[N + 1]) |-> IF a <= Len(t) THEN v[a] ELSE N + 1],
                t \o s[N + 1], s, N + 1)
<1> DEFINE x == s[N + 1]
           r == t \o x
           w == [a \in DOMAIN r |-> IF a <= Len(t) THEN v[a] ELSE N + 1]
<1>1. x \in Seq(S) /\ Len(x) \in Nat /\ DOMAIN x = 1 .. Len(x)
  OBVIOUS
<1>2. Len(t) \in Nat /\ DOMAIN t = 1 .. Len(t)
  OBVIOUS
<1> HIDE DEF x
<1>3. r \in Seq(S) /\ Len(r) = Len(t) + Len(x) /\ DOMAIN r = 1 .. Len(t) + Len(x)
  BY <1>1, <1>2
<1>4. ASSUME NEW a \in DOMAIN t PROVE a \in DOMAIN r /\ r[a] = t[a]
  BY <1>1, <1>2, <1>3
<1>5. ASSUME NEW j \in DOMAIN x PROVE Len(t) + j \in DOMAIN r /\ r[Len(t) + j] = x[j]
  BY <1>1, <1>2, <1>3
<1> HIDE DEF r
<1>6. ASSUME NEW a \in DOMAIN r, a <= Len(t)
      PROVE  a \in DOMAIN t /\ w[a] = v[a] /\ v[a] \in 1 .. N
  <2>1. a \in DOMAIN t
    BY <1>2, <1>3, <1>6
  <2>2. QED
    BY <1>6, <2>1 DEF Places
<1>7. ASSUME NEW a \in DOMAIN r, ~(a <= Len(t))
      PROVE  a - Len(t) \in DOMAIN x /\ Len(t) + (a - Len(t)) = a /\ w[a] = N + 1
  BY <1>1, <1>2, <1>3, <1>7
<1>8. w = [a \in DOMAIN r |-> w[a]]
  OBVIOUS
<1> HIDE DEF w
<1>9. w \in [DOMAIN r -> 1 .. N + 1]
  <2>1. ASSUME NEW a \in DOMAIN r PROVE w[a] \in 1 .. N + 1
    <3>1. CASE a <= Len(t)
      BY <1>6, <3>1
    <3>2. CASE ~(a <= Len(t))
      BY <1>7, <3>2
    <3>3. QED
      BY <3>1, <3>2
  <2>2. QED
    BY <1>8, <2>1
<1>10. ASSUME NEW a \in DOMAIN r, NEW b \in DOMAIN r, a < b PROVE w[a] <= w[b]
  <2>1. CASE b <= Len(t)
    <3>1. a <= Len(t)
      BY <1>2, <1>3, <1>10, <2>1
    <3>2. v[a] <= v[b]
      BY <1>6, <1>10, <2>1, <3>1 DEF Places
    <3>3. QED
      BY <1>6, <2>1, <3>1, <3>2
  <2>2. CASE ~(b <= Len(t))
    <3>1. w[b] = N + 1
      BY <1>7, <2>2
    <3>2. w[a] \in 1 .. N + 1
      BY <1>9
    <3>3. QED
      BY <3>1, <3>2
  <2>3. QED
    BY <2>1, <2>2
<1>11. ASSUME NEW a \in DOMAIN r PROVE \E j \in DOMAIN s[w[a]] : r[a] = s[w[a]][j]
  <2>1. CASE a <= Len(t)
    <3>1. a \in DOMAIN t /\ w[a] = v[a]
      BY <1>6, <2>1
    <3>2. PICK j \in DOMAIN s[v[a]] : t[a] = s[v[a]][j]
      BY <3>1 DEF Places
    <3>3. QED
      BY <1>4, <3>1, <3>2
  <2>2. CASE ~(a <= Len(t))
    <3>1. a - Len(t) \in DOMAIN x /\ Len(t) + (a - Len(t)) = a /\ w[a] = N + 1
      BY <1>7, <2>2
    <3>2. r[Len(t) + (a - Len(t))] = x[a - Len(t)]
      BY <1>5, <3>1
    <3>3. s[w[a]] = x
      BY <3>1 DEF x
    <3>4. QED
      BY <3>1, <3>2, <3>3
  <2>3. QED
    BY <2>1, <2>2
<1>12. ASSUME NEW i \in 1 .. N + 1, NEW j \in DOMAIN s[i]
       PROVE  \E a \in DOMAIN r : w[a] = i /\ r[a] = s[i][j]
  <2>1. CASE i = N + 1
    <3>1. x = s[i]
      BY <2>1 DEF x
    <3>2. j \in DOMAIN x
      BY <3>1
    <3>3. Len(t) + j \in DOMAIN r /\ r[Len(t) + j] = x[j] /\ ~(Len(t) + j <= Len(t))
      BY <1>1, <1>2, <1>5, <3>2
    <3>4. w[Len(t) + j] = N + 1
      BY <1>7, <3>3
    <3>5. QED
      BY <2>1, <3>1, <3>3, <3>4
  <2>2. CASE i # N + 1
    <3>1. i \in 1 .. N
      BY <2>2
    <3>2. PICK a \in DOMAIN t : v[a] = i /\ t[a] = s[i][j]
      BY <3>1 DEF Places
    <3>3. a \in DOMAIN r /\ r[a] = t[a] /\ a <= Len(t)
      BY <1>2, <1>4, <3>2
    <3>4. QED
      BY <1>6, <3>2, <3>3
  <2>3. QED
    BY <2>1, <2>2
<1>13. Places(w, r, s, N + 1)
  BY <1>9, <1>10, <1>11, <1>12 DEF Places
<1>14. QED
  BY <1>13 DEF w, r, x

LEMMA FlattenPlaces ==
  ASSUME NEW S, NEW s \in Seq(Seq(S))
  PROVE  FlattenSeq(s) \in Seq(S) /\ \E v : Places(v, FlattenSeq(s), s, Len(s))
<1>1. CASE Len(s) = 0
  <2>1. FlattenSeq(s) = <<>> /\ s = <<>>
    BY <1>1 DEF FlattenSeq
  <2>2. DOMAIN <<>> = {}
    OBVIOUS
  <2>3. 1 .. 0 = {}
    OBVIOUS
  <2>4. Places(<<>>, <<>>, s, 0)
    <3>1. <<>> \in [{} -> 1 .. 0]
      OBVIOUS
    <3>2. QED
      BY <2>2, <2>3, <3>1 DEF Places
  <2>5. QED
    BY <1>1, <2>1, <2>4
<1>2. CASE Len(s) # 0
  <2>1. Len(s) \in Nat \ {0} /\ DOMAIN s = 1 .. Len(s)
    BY <1>2
  <2>2. PICK u : /\ u[1] = s[1]
                 /\ \A n \in 2 .. Len(s) : u[n] = u[n - 1] \o s[n]
                 /\ FlattenSeq(s) = u[Len(s)]
    BY <1>2, FlattenSteps
  <2> DEFINE Good(N) == u[N] \in Seq(S) /\ \E v : Places(v, u[N], s, N)
             Bad == {N \in 1 .. Len(s) : ~ Good(N)}
  <2>3. Good(1)
    <3>1. s[1] \in Seq(S)
      BY <2>1
    <3>2. \E v : Places(v, s[1], s, 1)
      BY <1>2, PlacesStart
    <3>3. QED
      BY <2>2, <3>1, <3>2
  <2>4. ASSUME NEW N \in Nat, N \in 1 .. Len(s) - 1, Good(N) PROVE Good(N + 1)
    <3>1. PICK v : Places(v, u[N], s, N)
      BY <2>4
    <3>2. N + 1 \in DOMAIN s /\ N + 1 \in 2 .. Len(s) /\ (N + 1) - 1 = N
      BY <2>1, <2>4
    <3>3. u[N + 1] = u[N] \o s[N + 1]
      BY <2>2, <3>2
    <3>4. \E w : Places(w, u[N + 1], s, N + 1)
      BY <2>4, <3>1, <3>2, <3>3, PlacesExtend
    <3>5. s[N + 1] \in Seq(S)
      BY <3>2
    <3>6. u[N + 1] \in Seq(S)
      BY <2>4, <3>3, <3>5
    <3>7. QED
      BY <3>4, <3>6
  <2> HIDE DEF Good
  <2>5. Bad = {}
    <3> SUFFICES ASSUME Bad # {} PROVE FALSE
      OBVIOUS
    <3>1. Bad \in SUBSET Nat
      BY <2>1
    <3>2. PICK N \in Bad : \A M \in Bad : N <= M
      BY <3>1, LeastNumber
    <3>3. N \in 1 .. Len(s) /\ ~ Good(N)
      BY <3>2
    <3>4. N # 1
      BY <2>3, <3>3
    <3> DEFINE M == N - 1
    <3>5. M \in Nat /\ M \in 1 .. Len(s) - 1 /\ M \in 1 .. Len(s) /\ M + 1 = N /\ ~(N <= M)
      BY <2>1, <3>3, <3>4
    <3> HIDE DEF M
    <3>6. Good(M)
      BY <3>2, <3>5
    <3>7. Good(M + 1)
      BY <2>4, <3>5, <3>6
    <3>8. QED
      BY <3>3, <3>5, <3>7
  <2>6. Good(Len(s))
    <3>1. Len(s) \in 1 .. Len(s)
      BY <2>1
    <3>2. QED
      BY <2>5, <3>1
  <2>7. QED
    BY <2>2, <2>6 DEF Good
<1>3. QED
  BY <1>1, <1>2

LEMMA SelectElements ==
  ASSUME NEW S, NEW s \in Seq(S), NEW I \in SUBSET DOMAIN s
  PROVE  /\ Select(s, I) \in Seq(S)
         /\ \A n \in DOMAIN Select(s, I) : \E i \in I : Select(s, I)[n] = s[i]
         /\ \A i \in I : \E n \in DOMAIN Select(s, I) : Select(s, I)[n] = s[i]
<1>1. PICK k \in Nat : \E f : Picks(f, k, I) /\ Select(s, I) = [n \in 1 .. k |-> s[f[n]]]
  BY SelectPicks
<1>2. k \in Nat
  BY <1>1
<1>3. PICK f : Picks(f, k, I) /\ Select(s, I) = [n \in 1 .. k |-> s[f[n]]]
  BY <1>1
<1>4. \A n \in 1 .. k : f[n] \in I /\ f[n] \in DOMAIN s /\ s[f[n]] \in S
  BY <1>3 DEF Picks
<1> DEFINE t == [n \in 1 .. k |-> s[f[n]]]
<1>5. t \in Seq(S) /\ DOMAIN t = 1 .. k
  BY <1>2, <1>4
<1>6. \A n \in 1 .. k : t[n] = s[f[n]]
  OBVIOUS
<1>7. Select(s, I) = t
  BY <1>3
<1> HIDE DEF t
<1>8. \A i \in I : \E n \in 1 .. k : f[n] = i
  BY <1>3 DEF Picks
<1>9. \A n \in DOMAIN t : \E i \in I : t[n] = s[i]
  BY <1>4, <1>5, <1>6
<1>10. \A i \in I : \E n \in DOMAIN t : t[n] = s[i]
  BY <1>5, <1>6, <1>8
<1>11. QED
  BY <1>5, <1>7, <1>9, <1>10

LEMMA SelectNothing ==
  ASSUME NEW S, NEW s \in Seq(S)
  PROVE  Select(s, {}) = <<>>
<1> DEFINE t == Select(s, {})
<1>1. t \in Seq(S) /\ \A n \in DOMAIN t : FALSE
  BY SelectElements
<1> HIDE DEF t
<1>2. Len(t) \in Nat /\ DOMAIN t = 1 .. Len(t)
  BY <1>1
<1>3. Len(t) = 0
  <2>1. Len(t) # 0 => 1 \in DOMAIN t
    BY <1>2
  <2>2. QED
    BY <1>1, <2>1
<1>4. t = <<>>
  BY <1>1, <1>3
<1>5. QED
  BY <1>4 DEF t

LEMMA DistinctElements ==
  ASSUME NEW S, NEW s \in Seq(S)
  PROVE  /\ Distinct(s) \in Seq(S)
         /\ \A a, b \in DOMAIN Distinct(s) : Distinct(s)[a] = Distinct(s)[b] => a = b
         /\ \A i \in DOMAIN s : \E a \in DOMAIN Distinct(s) : Distinct(s)[a] = s[i]
<1> DEFINE I == {i \in DOMAIN s : \A j \in 1 .. i - 1 : s[j] # s[i]}
<1>1. Distinct(s) = Select(s, I)
  BY DEF Distinct
<1>2. I \in SUBSET DOMAIN s /\ DOMAIN s = 1 .. Len(s) /\ Len(s) \in Nat
  OBVIOUS
<1>3. \A a, b \in I : s[a] = s[b] => a = b
  <2> SUFFICES ASSUME NEW a \in I, NEW b \in I, s[a] = s[b], a # b PROVE FALSE
    OBVIOUS
  <2>1. a \in 1 .. b - 1 \/ b \in 1 .. a - 1
    BY <1>2
  <2>2. QED
    BY <2>1
<1>4. ASSUME NEW i \in DOMAIN s PROVE \E j \in I : s[j] = s[i]
  <2> DEFINE Same == {j \in DOMAIN s : s[j] = s[i]}
  <2>1. Same \in SUBSET Nat /\ Same # {}
    BY <1>2
  <2>2. PICK m \in Same : \A l \in Same : m <= l
    BY <2>1, LeastNumber
  <2>3. \A j \in 1 .. m - 1 : s[j] # s[m]
    <3> SUFFICES ASSUME NEW j \in 1 .. m - 1, s[j] = s[m] PROVE FALSE
      OBVIOUS
    <3>1. j \in Same /\ ~(m <= j)
      BY <1>2, <2>2
    <3>2. QED
      BY <2>2, <3>1
  <2>4. QED
    BY <2>2, <2>3
<1> HIDE DEF I
<1>5. PICK k \in Nat : \E f : Picks(f, k, I) /\ Select(s, I) = [n \in 1 .. k |-> s[f[n]]]
  BY <1>2, SelectPicks
<1>6. PICK f : Picks(f, k, I) /\ Select(s, I) = [n \in 1 .. k |-> s[f[n]]]
  BY <1>5
<1>7. \A a, b \in 1 .. k : f[a] = f[b] => a = b
  <2> SUFFICES ASSUME NEW a \in 1 .. k, NEW b \in 1 .. k, f[a] = f[b], a # b PROVE FALSE
    OBVIOUS
  <2>1. k \in Nat
    BY <1>5
  <2>2. f[a] \in Nat /\ f[b] \in Nat
    BY <1>2, <1>6 DEF Picks
  <2>3. a < b \/ b < a
    BY <2>1
  <2>4. f[a] < f[b] \/ f[b] < f[a]
    BY <1>6, <2>3 DEF Picks
  <2>5. QED
    BY <2>2, <2>4
<1>8. \A a \in 1 .. k : f[a] \in I
  BY <1>6 DEF Picks
<1> DEFINE t == [n \in 1 .. k |-> s[f[n]]]
<1>9. DOMAIN t = 1 .. k /\ \A n \in 1 .. k : t[n] = s[f[n]]
  OBVIOUS
<1>10. Distinct(s) = t
  BY <1>1, <1>6
<1> HIDE DEF t
<1>11. \A a, b \in DOMAIN t : t[a] = t[b] => a = b
  BY <1>3, <1>7, <1>8, <1>9
<1>12. t \in Seq(S) /\ \A i \in I : \E n \in DOMAIN t : t[n] = s[i]
  <2>1. /\ Select(s, I) \in Seq(S)
        /\ \A i \in I : \E n \in DOMAIN Select(s, I) : Select(s, I)[n] = s[i]
    BY <1>2, SelectElements
  <2>2. Select(s, I) = t
    BY <1>1, <1>10
  <2>3. QED
    BY <2>1, <2>2
<1>13. \A i \in DOMAIN s : \E a \in DOMAIN t : t[a] = s[i]
  BY <1>4, <1>12
<1>14. QED
  BY <1>10, <1>11, <1>12, <1>13

-----------------------------------------------------------------------------
(* What a query selects.                                                   *)
LEMMA NameHasSource ==
  ASSUME NEW name, Known(name)
  PROVE  FromName(name) \in Sources
<1>1. FromName(name) \in Matching(name)
  BY DEF Known, FromName
<1>2. QED
  BY <1>1 DEF Matching

LEMMA CategoryHasSource ==
  ASSUME NEW category
  PROVE  FromCategory(category) \in Sources
BY Zenon DEF FromCategory, Sources

Selected(r) ==
  /\ r \in Seq(Sources)
  /\ r # <<>>
  /\ \A a, b \in DOMAIN r : r[a] = r[b] => a = b

LEMMA RequestedSelected ==
  ASSUME NEW q \in QueryRecords
  PROVE  Selected(RequestedProviders(q))
<1>1. q.engines \in Seq(Seq(STRING)) /\ q.categories \in Seq(STRING)
  BY DEF QueryRecords
<1> DEFINE I == {i \in DOMAIN q.engines : Known(q.engines[i])}
           known == Select(q.engines, I)
           named == [i \in DOMAIN known |-> FromName(known[i])]
<1>2. /\ known \in Seq(Seq(STRING))
      /\ \A n \in DOMAIN known : \E i \in I : known[n] = q.engines[i]
  <2>1. I \in SUBSET DOMAIN q.engines
    OBVIOUS
  <2> HIDE DEF I
  <2>2. QED
    BY <1>1, <2>1, SelectElements
<1>3. \A n \in DOMAIN known : Known(known[n])
  BY <1>2
<1>4. NamedProviders(q) = Distinct(named)
  BY DEF NamedProviders
<1> HIDE DEF known
<1>5. named \in Seq(Sources)
  <2>1. \A n \in DOMAIN known : FromName(known[n]) \in Sources
    BY <1>3, NameHasSource
  <2>2. DOMAIN known = 1 .. Len(known) /\ Len(known) \in Nat
    BY <1>2
  <2>3. QED
    BY <2>1, <2>2
<1> HIDE DEF named
<1>6. NamedProviders(q) # <<>> => Selected(NamedProviders(q))
  BY <1>4, <1>5, DistinctElements DEF Selected
<1> DEFINE categories == IF q.categories = <<>> THEN <<"general">> ELSE q.categories
           sources == [i \in DOMAIN categories |-> FromCategory(categories[i])]
<1>7. CategoryProviders(q) = Distinct(sources)
  BY DEF CategoryProviders
<1>8. DOMAIN categories = 1 .. Len(categories) /\ Len(categories) \in Nat \ {0}
  <2>1. CASE q.categories = <<>>
    <3>1. categories = <<"general">>
      BY <2>1
    <3> HIDE DEF categories
    <3>2. Len(<<"general">>) = 1
      OBVIOUS
    <3>3. DOMAIN <<"general">> = 1 .. 1
      OBVIOUS
    <3>4. Len(categories) = 1 /\ DOMAIN categories = 1 .. 1
      BY <3>1, <3>2, <3>3
    <3>5. QED
      BY <3>4
  <2>2. CASE q.categories # <<>>
    <3>1. categories = q.categories
      BY <2>2
    <3> HIDE DEF categories
    <3>2. QED
      BY <1>1, <2>2, <3>1
  <2>3. QED
    BY <2>1, <2>2
<1> HIDE DEF categories
<1>9. sources \in Seq(Sources) /\ 1 \in DOMAIN sources
  <2>1. \A n \in DOMAIN categories : FromCategory(categories[n]) \in Sources
    BY CategoryHasSource
  <2>2. QED
    BY <1>8, <2>1
<1> HIDE DEF sources
<1>10. Selected(CategoryProviders(q))
  <2>1. \E a \in DOMAIN Distinct(sources) : Distinct(sources)[a] = sources[1]
    BY ZenonT(60), <1>9, DistinctElements
  <2>2. Distinct(sources) # <<>>
    BY <2>1
  <2>3. QED
    BY <1>7, <1>9, <2>2, DistinctElements DEF Selected
<1>11. QED
  BY <1>6, <1>10 DEF RequestedProviders

LEMMA LimitPositive ==
  ASSUME NEW q \in QueryRecords
  PROVE  ProviderLimit[q.mode] \in Nat \ {0}
<1>1. q.mode \in Modes
  BY DEF QueryRecords
<1>2. QED
  BY <1>1 DEF Modes, ProviderLimit

LEMMA ProvidersSelected ==
  ASSUME NEW q \in QueryRecords
  PROVE  /\ Selected(Providers(q))
         /\ \A i \in DOMAIN Providers(q) : Providers(q)[i] = RequestedProviders(q)[i]
         /\ DOMAIN Providers(q)
              = {i \in DOMAIN RequestedProviders(q) : i <= ProviderLimit[q.mode]}
<1> DEFINE r == RequestedProviders(q)
           limit == ProviderLimit[q.mode]
<1>1. Selected(r)
  BY RequestedSelected
<1>2. limit \in Nat \ {0}
  BY LimitPositive
<1>3. Providers(q) = IF Len(r) > limit THEN SubSeq(r, 1, limit) ELSE r
  BY DEF Providers
<1> HIDE DEF r, limit
<1>4. r \in Seq(Sources) /\ Len(r) \in Nat /\ DOMAIN r = 1 .. Len(r) /\ r # <<>>
  BY <1>1 DEF Selected
<1>5. CASE Len(r) > limit
  <2> DEFINE t == SubSeq(r, 1, limit)
  <2>1. t \in Seq(Sources) /\ Len(t) = limit /\ DOMAIN t = 1 .. limit
    BY <1>2, <1>4, <1>5
  <2>2. \A i \in 1 .. limit : t[i] = r[i] /\ i \in DOMAIN r
    BY <1>2, <1>4, <1>5
  <2>3. t = Providers(q)
    BY <1>3, <1>5
  <2> HIDE DEF t
  <2>4. t # <<>>
    BY <1>2, <2>1
  <2>5. Selected(t)
    BY <1>1, <2>1, <2>2, <2>4 DEF Selected
  <2>6. DOMAIN t = {i \in DOMAIN r : i <= limit}
    BY <1>2, <1>4, <1>5, <2>1
  <2>7. QED
    BY <2>1, <2>2, <2>3, <2>5, <2>6 DEF r, limit
<1>6. CASE ~(Len(r) > limit)
  <2>1. Providers(q) = r
    BY <1>3, <1>6
  <2>2. DOMAIN r = {i \in DOMAIN r : i <= limit}
    BY <1>2, <1>4, <1>6
  <2>3. QED
    BY <1>1, <2>1, <2>2 DEF r, limit
<1>7. QED
  BY <1>5, <1>6

(* A coverage lists the unknown names first, the requested providers after *)
(* them; which of these were attempted follows from their places.          *)
LEMMA CoverageShape ==
  ASSUME NEW q \in QueryRecords, NEW statuses, NEW blocked \in BOOLEAN
  PROVE  \E m, S :
           /\ m \in Nat
           /\ Coverage(q, statuses, blocked) \in Seq(S)
           /\ DOMAIN Coverage(q, statuses, blocked) = 1 .. m + Len(RequestedProviders(q))
           /\ \A n \in 1 .. m :
                Coverage(q, statuses, blocked)[n].selection = "unknown_engine"
           /\ \A n \in DOMAIN RequestedProviders(q) :
                /\ Coverage(q, statuses, blocked)[m + n].provider = RequestedProviders(q)[n]
                /\ Coverage(q, statuses, blocked)[m + n].selection = Selection(q, n, blocked)
<1> DEFINE I == {i \in DOMAIN q.engines : ~Known(q.engines[i])}
           unknown == Select(q.engines, I)
           r == RequestedProviders(q)
           u == UnknownEngine(q)
           S == {u} \cup {ProviderCoverage(q, i, statuses, blocked) : i \in DOMAIN r}
           U == [i \in DOMAIN unknown |-> u]
           R == [i \in DOMAIN r |-> ProviderCoverage(q, i, statuses, blocked)]
           m == Len(unknown)
<1>1. unknown \in Seq(Seq(STRING))
  <2>1. q.engines \in Seq(Seq(STRING)) /\ I \in SUBSET DOMAIN q.engines
    BY DEF QueryRecords
  <2> HIDE DEF I
  <2>2. QED
    BY <2>1, SelectElements
<1>2. r \in Seq(Sources)
  BY RequestedSelected DEF Selected
<1>3. u.selection = "unknown_engine"
  BY DEF UnknownEngine
<1>4. \A i \in DOMAIN r : /\ ProviderCoverage(q, i, statuses, blocked).provider = r[i]
                          /\ ProviderCoverage(q, i, statuses, blocked).selection
                               = Selection(q, i, blocked)
  BY DEF ProviderCoverage
<1>5. Coverage(q, statuses, blocked) = U \o R
  BY DEF Coverage
<1> HIDE DEF unknown, r, u
<1>6. m \in Nat /\ DOMAIN unknown = 1 .. m
  BY <1>1
<1>7. Len(r) \in Nat /\ DOMAIN r = 1 .. Len(r)
  BY <1>2
<1>8. U \in Seq(S) /\ Len(U) = m
  BY <1>6
<1>9. R \in Seq(S) /\ Len(R) = Len(r)
  BY <1>7
<1>10. \A n \in 1 .. m : U[n] = u
  BY <1>6
<1>11. \A n \in DOMAIN r : R[n] = ProviderCoverage(q, n, statuses, blocked)
  OBVIOUS
<1> HIDE DEF U, R, S, m
<1> DEFINE t == U \o R
<1>12. t \in Seq(S) /\ Len(t) = m + Len(r)
  BY <1>8, <1>9
<1>13. \A n \in 1 .. m : t[n] = u
  BY <1>6, <1>7, <1>8, <1>9, <1>10
<1>14. \A n \in DOMAIN r : t[m + n] = R[n]
  BY <1>6, <1>7, <1>8, <1>9
<1> HIDE DEF t
<1>15. DOMAIN t = 1 .. m + Len(r)
  BY <1>12
<1>16. \A n \in 1 .. m : t[n].selection = "unknown_engine"
  BY <1>3, <1>13
<1>17. \A n \in DOMAIN r : t[m + n].provider = r[n] /\ t[m + n].selection = Selection(q, n, blocked)
  BY <1>4, <1>11, <1>14
<1>18. Coverage(q, statuses, blocked) = t
  BY <1>5 DEF t
<1>19. QED
  BY <1>6, <1>12, <1>15, <1>16, <1>17, <1>18 DEF r

(* The attempts a coverage reports are the providers that were selected. *)
LEMMA AttemptsAreProviders ==
  ASSUME NEW q \in QueryRecords, NEW statuses
  PROVE  /\ DOMAIN Attempts(Coverage(q, statuses, FALSE)) = DOMAIN Providers(q)
         /\ Len(Attempts(Coverage(q, statuses, FALSE))) = Len(Providers(q))
         /\ \A n \in DOMAIN Providers(q) :
              Attempts(Coverage(q, statuses, FALSE))[n].provider = Providers(q)[n]
<1> DEFINE c == Coverage(q, statuses, FALSE)
           r == RequestedProviders(q)
           ps == Providers(q)
           limit == ProviderLimit[q.mode]
           I == {i \in DOMAIN c : c[i].selection = "attempted"}
<1>1. PICK m, S :
        /\ m \in Nat
        /\ c \in Seq(S)
        /\ DOMAIN c = 1 .. m + Len(r)
        /\ \A n \in 1 .. m : c[n].selection = "unknown_engine"
        /\ \A n \in DOMAIN r : c[m + n].provider = r[n]
                               /\ c[m + n].selection = Selection(q, n, FALSE)
  BY CoverageShape
<1>2. m \in Nat
  BY <1>1
<1>3. limit \in Nat \ {0}
  BY LimitPositive
<1>4. \A n \in DOMAIN r : Selection(q, n, FALSE) = IF n <= limit THEN "attempted" ELSE "mode_limit"
  <2>1. DOMAIN r = 1 .. Len(r)
    BY RequestedSelected DEF Selected
  <2>2. QED
    BY <1>3, <2>1 DEF Selection
<1>5. r \in Seq(Sources) /\ ps \in Seq(Sources)
  BY RequestedSelected, ProvidersSelected DEF Selected
<1>6. \A i \in DOMAIN ps : ps[i] = r[i]
  BY ProvidersSelected
<1>7. DOMAIN ps = {i \in DOMAIN r : i <= limit}
  BY ProvidersSelected
<1>8. Attempts(c) = Select(c, I)
  BY DEF Attempts
<1> HIDE DEF c, r, ps, limit
<1>9. /\ Len(r) \in Nat /\ DOMAIN r = 1 .. Len(r)
      /\ Len(ps) \in Nat /\ DOMAIN ps = 1 .. Len(ps)
  BY <1>5
<1> DEFINE k == Len(ps)
           f == [n \in 1 .. k |-> m + n]
<1>10. ASSUME NEW n \in 1 .. k PROVE m + n \in I
  <2>1. n \in DOMAIN r /\ n <= limit
    BY <1>7, <1>9
  <2>2. m + n \in DOMAIN c
    BY <1>1, <1>2, <1>9, <2>1
  <2>3. QED
    BY <1>1, <1>4, <2>1, <2>2
<1>11. ASSUME NEW i \in I PROVE \E n \in 1 .. k : m + n = i
  <2>1. i \in 1 .. m + Len(r) /\ c[i].selection = "attempted"
    BY <1>1
  <2>2. i \notin 1 .. m
    BY <1>1, <2>1
  <2> DEFINE n == i - m
  <2>3. n \in 1 .. Len(r) /\ m + n = i
    BY <1>2, <1>9, <2>1, <2>2
  <2> HIDE DEF n
  <2>4. Selection(q, n, FALSE) = "attempted"
    BY <1>1, <1>9, <2>1, <2>3
  <2>5. n <= limit
    BY <1>4, <1>9, <2>3, <2>4
  <2>6. n \in 1 .. k
    BY <1>7, <1>9, <2>3, <2>5
  <2>7. QED
    BY <2>3, <2>6
<1>12. I \in SUBSET DOMAIN c
  OBVIOUS
<1> HIDE DEF I
<1>13. Picks(f, k, I)
  <2>1. f \in [1 .. k -> I]
    BY <1>10
  <2>2. \A a, b \in 1 .. k : a < b => f[a] < f[b]
    BY <1>2, <1>9
  <2>3. \A i \in I : \E a \in 1 .. k : f[a] = i
    BY <1>11
  <2>4. QED
    BY <2>1, <2>2, <2>3 DEF Picks
<1>14. k \in Nat
  BY <1>9
<1> HIDE DEF f
<1>15. Select(c, I) = [n \in 1 .. k |-> c[f[n]]]
  BY <1>1, <1>12, <1>13, <1>14, SelectIs
<1>16. DOMAIN Select(c, I) = 1 .. k /\ Len(Select(c, I)) = k
  BY <1>14, <1>15
<1>17. ASSUME NEW n \in 1 .. k PROVE Select(c, I)[n].provider = ps[n]
  <2>1. Select(c, I)[n] = c[m + n]
    BY <1>15 DEF f
  <2>2. n \in DOMAIN r /\ n \in DOMAIN ps
    BY <1>7, <1>9
  <2>3. QED
    BY <1>1, <1>6, <2>1, <2>2
<1>18. QED
  BY <1>8, <1>9, <1>16, <1>17 DEF c, ps

LEMMA NoAttemptsWhenBlocked ==
  ASSUME NEW q \in QueryRecords, NEW statuses
  PROVE  Attempts(Coverage(q, statuses, TRUE)) = <<>>
<1> DEFINE c == Coverage(q, statuses, TRUE)
           r == RequestedProviders(q)
           I == {i \in DOMAIN c : c[i].selection = "attempted"}
<1>1. PICK m, S :
        /\ m \in Nat
        /\ c \in Seq(S)
        /\ DOMAIN c = 1 .. m + Len(r)
        /\ \A n \in 1 .. m : c[n].selection = "unknown_engine"
        /\ \A n \in DOMAIN r : c[m + n].provider = r[n]
                               /\ c[m + n].selection = Selection(q, n, TRUE)
  BY CoverageShape
<1>2. m \in Nat
  BY <1>1
<1>3. r \in Seq(Sources)
  BY RequestedSelected DEF Selected
<1>4. Attempts(c) = Select(c, I)
  BY DEF Attempts
<1>5. \A n \in DOMAIN r : Selection(q, n, TRUE) # "attempted"
  <2>1. ProviderLimit[q.mode] \in Nat \ {0} /\ DOMAIN r = 1 .. Len(r)
    BY <1>3, LimitPositive
  <2> HIDE DEF r
  <2>2. QED
    BY <2>1 DEF Selection
<1> HIDE DEF c, r
<1>6. Len(r) \in Nat /\ DOMAIN r = 1 .. Len(r)
  BY <1>3
<1>7. ASSUME NEW i \in I PROVE FALSE
  <2>1. i \in 1 .. m + Len(r) /\ c[i].selection = "attempted"
    BY <1>1
  <2>2. i \notin 1 .. m
    BY <1>1, <2>1
  <2> DEFINE n == i - m
  <2>3. n \in DOMAIN r /\ m + n = i
    BY <1>2, <1>6, <2>1, <2>2
  <2> HIDE DEF n
  <2>4. QED
    BY <1>1, <1>5, <2>1, <2>3
<1>8. I = {}
  BY <1>7
<1> HIDE DEF I
<1>9. QED
  BY <1>1, <1>4, <1>8, SelectNothing DEF c

-----------------------------------------------------------------------------
(* The outcomes of a search and what is collected from them.               *)
Results == [url : Urls, content : Nat]

OutcomeSet == [ok : BOOLEAN, page : Seq(Results)]

Collectable == [provider : Sources, result : Results]

StatusOf(p, os) ==
  IF p \in DOMAIN os /\ os[p].ok
  THEN [provider |-> p, status |-> "success", count |-> Len(os[p].page)]
  ELSE [provider |-> p, status |-> "failed", count |-> 0]

StatusesOf(ps, os) == [i \in DOMAIN ps |-> StatusOf(ps[i], os)]

(* Response with the statuses st. *)
ReportOf(q, c, st) ==
  [results |-> {[url |-> u, content |-> Merged(c)[u].content,
                 engines |-> Merged(c)[u].engines] : u \in Kept(q, Merged(c))},
   number_of_results |-> Cardinality(Kept(q, Merged(c))),
   provider_status |-> st,
   coverage |-> Coverage(q, st, FALSE),
   filtered |-> Kept(q, Merged(c)) # DOMAIN Merged(c),
   disallowed |-> FALSE]

(* c holds the results of the pages in os, provider by provider in the     *)
(* order of ps; g says which provider each of them comes from.             *)
Brings(c, g, ps, os) ==
  /\ c \in Seq(Collectable)
  /\ g \in [DOMAIN c -> DOMAIN ps]
  /\ \A a, b \in DOMAIN c : a < b => g[a] <= g[b]
  /\ \A a \in DOMAIN c :
       /\ os[ps[g[a]]].ok
       /\ c[a].provider = ps[g[a]]
       /\ \E j \in DOMAIN os[ps[g[a]]].page : c[a].result = os[ps[g[a]]].page[j]
  /\ \A i \in DOMAIN ps : os[ps[i]].ok =>
       \A j \in DOMAIN os[ps[i]].page :
         \E a \in DOMAIN c : g[a] = i /\ c[a].result = os[ps[i]].page[j]

(* What a search that got through leaves behind. *)
Reported(q, ps, os, as, r) ==
  /\ as = ToSet(ps)
  /\ DOMAIN os = as
  /\ \E p \in as : os[p].ok
  /\ \E c, g : Brings(c, g, ps, os) /\ r = ReportOf(q, c, StatusesOf(ps, os))

SearchInv ==
  /\ query \in Queries
  /\ providers = Providers(query)
  /\ pc \in {"called", "waiting", "done", "failed", "dropped"}
  /\ outcomes \in [DOMAIN outcomes -> OutcomeSet]
  /\ DOMAIN outcomes \subseteq asked
  /\ pc = "called" => outcomes = <<>> /\ asked = {}
  /\ pc # "called" /\ pc # "done" => asked = ToSet(providers)
  /\ pc = "failed" => DOMAIN outcomes = asked /\ \A p \in asked : ~outcomes[p].ok
  /\ pc = "done" =>
       \/ asked = {} /\ response = DisallowedResponse(query)
       \/ Reported(query, providers, outcomes, asked, response)

LEMMA QueriesAreRecords == Queries \subseteq QueryRecords
BY SearchAssumption

LEMMA CollectedBrings ==
  ASSUME Selected(providers), outcomes \in [DOMAIN outcomes -> OutcomeSet],
         DOMAIN outcomes = ToSet(providers)
  PROVE  \E g : Brings(Collected, g, providers, outcomes)
<1> DEFINE I == {i \in DOMAIN providers : Answered(providers[i])}
           answered == Select(providers, I)
           Part(p) == [j \in DOMAIN outcomes[p].page |->
                         [provider |-> p, result |-> outcomes[p].page[j]]]
           parts == [i \in DOMAIN answered |-> Part(answered[i])]
           c == FlattenSeq(parts)
<1>1. Collected = c
  BY DEF Collected
<1>2. /\ providers \in Seq(Sources)
      /\ Len(providers) \in Nat /\ DOMAIN providers = 1 .. Len(providers)
  BY DEF Selected
<1>3. \A i \in DOMAIN providers : providers[i] \in DOMAIN outcomes /\ providers[i] \in Sources
  BY <1>2 DEF ToSet
<1>4. \A i \in DOMAIN providers : i \in I <=> outcomes[providers[i]].ok
  BY <1>3 DEF Answered
<1>5. I \in SUBSET DOMAIN providers
  OBVIOUS
<1> HIDE DEF I
<1>6. PICK k \in Nat : \E f : Picks(f, k, I) /\ answered = [n \in 1 .. k |-> providers[f[n]]]
  BY <1>2, <1>5, SelectPicks
<1>7. k \in Nat
  BY <1>6
<1>8. PICK f : Picks(f, k, I) /\ answered = [n \in 1 .. k |-> providers[f[n]]]
  BY <1>6
<1>9. DOMAIN answered = 1 .. k /\ \A n \in 1 .. k : answered[n] = providers[f[n]]
  BY <1>8
<1> HIDE DEF answered
<1>10. /\ \A n \in 1 .. k : f[n] \in I /\ f[n] \in DOMAIN providers
       /\ \A i \in I : \E n \in 1 .. k : f[n] = i
       /\ \A a, b \in 1 .. k : a < b => f[a] < f[b]
  BY <1>5, <1>8 DEF Picks
<1>11. \A n \in 1 .. k : /\ outcomes[providers[f[n]]] \in OutcomeSet
                         /\ providers[f[n]] \in Sources
  BY <1>3, <1>10
<1>12. ASSUME NEW n \in 1 .. k PROVE Part(answered[n]) \in Seq(Collectable)
  <2> DEFINE p == answered[n]
             page == outcomes[p].page
  <2>1. page \in Seq(Results) /\ p \in Sources
    BY <1>9, <1>11 DEF OutcomeSet
  <2> HIDE DEF page, p
  <2>2. Len(page) \in Nat /\ DOMAIN page = 1 .. Len(page)
    BY <2>1
  <2>3. \A j \in DOMAIN page : [provider |-> p, result |-> page[j]] \in Collectable
    BY <2>1 DEF Collectable
  <2>4. [j \in DOMAIN page |-> [provider |-> p, result |-> page[j]]] \in Seq(Collectable)
    BY <2>2, <2>3
  <2>5. QED
    BY <2>4 DEF page, p
<1> HIDE DEF Part
<1>13. /\ parts \in Seq(Seq(Collectable)) /\ Len(parts) = k
       /\ \A n \in 1 .. k : parts[n] = Part(answered[n])
  <2>1. parts = [n \in 1 .. k |-> Part(answered[n])]
    BY <1>9
  <2> HIDE DEF parts
  <2>2. QED
    BY <1>7, <1>12, <2>1
<1> HIDE DEF parts
<1>14. /\ c \in Seq(Collectable)
       /\ \E v : Places(v, c, parts, Len(parts))
  BY <1>13, FlattenPlaces
<1>15. PICK v : Places(v, c, parts, k)
  BY <1>13, <1>14
<1> HIDE DEF c
<1>16. /\ \A a \in DOMAIN c : v[a] \in 1 .. k
       /\ \A a, b \in DOMAIN c : a < b => v[a] <= v[b]
       /\ \A a \in DOMAIN c : \E j \in DOMAIN parts[v[a]] : c[a] = parts[v[a]][j]
       /\ \A n \in 1 .. k : \A j \in DOMAIN parts[n] :
            \E a \in DOMAIN c : v[a] = n /\ c[a] = parts[n][j]
  BY <1>15 DEF Places
<1>17. ASSUME NEW n \in 1 .. k
       PROVE  /\ DOMAIN parts[n] = DOMAIN outcomes[providers[f[n]]].page
              /\ \A j \in DOMAIN parts[n] :
                   /\ parts[n][j].provider = providers[f[n]]
                   /\ parts[n][j].result = outcomes[providers[f[n]]].page[j]
  BY <1>9, <1>13 DEF Part
<1> DEFINE g == [a \in DOMAIN c |-> f[v[a]]]
<1>18. \A a \in DOMAIN c : g[a] = f[v[a]] /\ g[a] \in I /\ g[a] \in DOMAIN providers
  BY <1>10, <1>16
<1>19. g \in [DOMAIN c -> DOMAIN providers]
  BY <1>10, <1>16
<1> HIDE DEF g
<1>20. ASSUME NEW a \in DOMAIN c, NEW b \in DOMAIN c, a < b PROVE g[a] <= g[b]
  <2>1. /\ v[a] \in 1 .. k /\ v[b] \in 1 .. k /\ v[a] <= v[b]
        /\ g[a] = f[v[a]] /\ g[b] = f[v[b]] /\ g[a] \in Nat /\ g[b] \in Nat
    BY <1>2, <1>16, <1>18, <1>20
  <2>2. v[a] = v[b] \/ v[a] < v[b]
    BY <2>1
  <2>3. QED
    BY <1>10, <2>1, <2>2
<1>21. ASSUME NEW a \in DOMAIN c
       PROVE  /\ outcomes[providers[g[a]]].ok
              /\ c[a].provider = providers[g[a]]
              /\ \E j \in DOMAIN outcomes[providers[g[a]]].page :
                   c[a].result = outcomes[providers[g[a]]].page[j]
  <2>1. outcomes[providers[g[a]]].ok
    BY <1>4, <1>18
  <2>2. PICK j \in DOMAIN parts[v[a]] : c[a] = parts[v[a]][j]
    BY <1>16
  <2>3. v[a] \in 1 .. k /\ g[a] = f[v[a]]
    BY <1>16, <1>18
  <2>4. /\ c[a].provider = providers[g[a]]
        /\ c[a].result = outcomes[providers[g[a]]].page[j]
        /\ j \in DOMAIN outcomes[providers[g[a]]].page
    BY <1>17, <2>2, <2>3
  <2>5. QED
    BY <2>1, <2>4
<1>22. ASSUME NEW i \in DOMAIN providers, outcomes[providers[i]].ok,
              NEW j \in DOMAIN outcomes[providers[i]].page
       PROVE  \E a \in DOMAIN c : g[a] = i /\ c[a].result = outcomes[providers[i]].page[j]
  <2>1. PICK n \in 1 .. k : f[n] = i
    BY <1>4, <1>10, <1>22
  <2>2. j \in DOMAIN parts[n] /\ parts[n][j].result = outcomes[providers[i]].page[j]
    BY <1>17, <2>1
  <2>3. PICK a \in DOMAIN c : v[a] = n /\ c[a] = parts[n][j]
    BY <1>16, <2>2
  <2>4. QED
    BY <1>18, <2>1, <2>2, <2>3
<1>23. Brings(c, g, providers, outcomes)
  BY <1>14, <1>19, <1>20, <1>21, <1>22 DEF Brings
<1>24. QED
  BY <1>1, <1>23

LEMMA ResponseIsReport ==
  ASSUME NEW q, NEW c
  PROVE  Response(q, c) = ReportOf(q, c, StatusesOf(providers, outcomes))
<1>1. \A p : Status(p) = StatusOf(p, outcomes)
  BY DEF Status, StatusOf, Answered
<1>2. Statuses = StatusesOf(providers, outcomes)
  BY <1>1 DEF Statuses, StatusesOf
<1>3. QED
  BY <1>2 DEF Response, ReportOf

LEMMA SameStatuses ==
  ASSUME NEW a, NEW b, NEW st, NEW d, NEW e, NEW f, NEW r,
         r = [results |-> a, number_of_results |-> b, provider_status |-> st,
              coverage |-> d, filtered |-> e, disallowed |-> f]
  PROVE  [r EXCEPT !.provider_status = st] = r
OBVIOUS

(* Every provider has its status already: nothing is left to append. *)
LEMMA WithFailuresAddsNone ==
  ASSUME NEW q, NEW c, Selected(providers)
  PROVE  LET r == ReportOf(q, c, StatusesOf(providers, outcomes)) IN WithFailures(r) = r
<1> DEFINE st == StatusesOf(providers, outcomes)
           r == ReportOf(q, c, st)
           I == {i \in DOMAIN providers :
                   /\ ~Answered(providers[i])
                   /\ \A j \in DOMAIN r.provider_status :
                        r.provider_status[j].provider # providers[i]}
           unreported == Select(providers, I)
           added == [i \in DOMAIN unreported |-> Status(unreported[i])]
<1>1. r.provider_status = st
  BY DEF ReportOf
<1>2. DOMAIN st = DOMAIN providers /\ \A i \in DOMAIN providers : st[i].provider = providers[i]
  BY DEF StatusesOf, StatusOf
<1>3. I = {}
  BY <1>1, <1>2
<1>4. providers \in Seq(Sources)
  BY DEF Selected
<1>5. unreported = <<>>
  BY <1>3, <1>4, SelectNothing
<1>6. WithFailures(r) = [r EXCEPT !.provider_status = st \o added]
  BY <1>1 DEF WithFailures
<1> HIDE DEF unreported
<1>7. added = <<>>
  BY <1>5
<1>8. st \in Seq({st[i] : i \in DOMAIN providers})
  <2>1. st = [i \in DOMAIN providers |-> StatusOf(providers[i], outcomes)]
    BY DEF StatusesOf
  <2> HIDE DEF st
  <2>2. QED
    BY <1>2, <1>4, <2>1
<1> HIDE DEF added, st
<1>9. st \o added = st
  BY <1>7, <1>8
<1>10. [r EXCEPT !.provider_status = st] = r
  <2> DEFINE a == {[url |-> u, content |-> Merged(c)[u].content,
                    engines |-> Merged(c)[u].engines] : u \in Kept(q, Merged(c))}
             b == Cardinality(Kept(q, Merged(c)))
             d == Coverage(q, st, FALSE)
             e == Kept(q, Merged(c)) # DOMAIN Merged(c)
             f == FALSE
  <2>1. r = [results |-> a, number_of_results |-> b, provider_status |-> st,
             coverage |-> d, filtered |-> e, disallowed |-> f]
    BY DEF ReportOf
  <2> HIDE DEF a, b, d, e, f, r
  <2>2. QED
    BY <2>1, SameStatuses
<1>11. QED
  BY <1>6, <1>9, <1>10 DEF st

LEMMA SearchInvInit == SearchInit => SearchInv
<1> SUFFICES ASSUME SearchInit PROVE SearchInv
  OBVIOUS
<1>1. DOMAIN outcomes = {} /\ outcomes \in [{} -> OutcomeSet]
  BY DEF SearchInit
<1>2. QED
  BY <1>1 DEF SearchInit, SearchInv

LEMMA PagesAreCut ==
  ASSUME NEW q \in QueryRecords, NEW page \in Pages
  PROVE  Ok(Cut(page, PageLimit[q.mode])) \in OutcomeSet
<1>1. page \in Seq(Results)
  BY SearchAssumption DEF Results
<1>2. PageLimit[q.mode] \in Nat
  BY SearchAssumption DEF QueryRecords
<1>3. Cut(page, PageLimit[q.mode]) \in Seq(Results)
  <2> DEFINE n == PageLimit[q.mode]
  <2> HIDE DEF n
  <2>1. CASE Len(page) > n
    <3>1. SubSeq(page, 1, n) \in Seq(Results)
      BY <1>1, <1>2, <2>1 DEF n
    <3>2. Cut(page, n) = SubSeq(page, 1, n)
      BY <2>1 DEF Cut
    <3>3. QED
      BY <3>1, <3>2 DEF n
  <2>2. CASE ~(Len(page) > n)
    <3>1. Cut(page, n) = page
      BY <2>2 DEF Cut
    <3>2. QED
      BY <1>1, <3>1 DEF n
  <2>3. QED
    BY <2>1, <2>2
<1> DEFINE cut == Cut(page, PageLimit[q.mode])
<1> HIDE DEF cut
<1>4. [ok |-> TRUE, page |-> cut] \in OutcomeSet
  BY <1>3 DEF OutcomeSet, cut
<1>5. QED
  BY <1>4 DEF Ok, cut

LEMMA ErrIsOutcome == Err \in OutcomeSet
BY DEF Err, OutcomeSet

LEMMA ResolveKeeps ==
  ASSUME SearchInv, NEW p \in Sources, NEW o \in OutcomeSet, Resolve(p, o)
  PROVE  SearchInv'
<1>1. /\ outcomes \in [DOMAIN outcomes -> OutcomeSet] /\ p \in asked
      /\ pc = "waiting" /\ pc' = "waiting" /\ asked' = asked
  BY DEF SearchInv, Resolve, Outstanding
<1>2. outcomes' = [s \in DOMAIN outcomes \cup {p} |-> IF s = p THEN o ELSE outcomes[s]]
  BY DEF Resolve
<1>3. DOMAIN outcomes' = DOMAIN outcomes \cup {p}
  BY <1>2
<1>4. outcomes' \in [DOMAIN outcomes' -> OutcomeSet]
  BY <1>1, <1>2
<1>5. DOMAIN outcomes' \subseteq asked'
  BY <1>1, <1>3 DEF SearchInv
<1>6. QED
  BY <1>1, <1>4, <1>5 DEF SearchInv, Resolve

LEMMA FinishKeeps ==
  ASSUME SearchInv, Finish
  PROVE  SearchInv'
<1>1. /\ pc = "waiting" /\ asked = ToSet(providers) /\ DOMAIN outcomes = asked
      /\ query \in QueryRecords /\ outcomes \in [DOMAIN outcomes -> OutcomeSet]
  BY QueriesAreRecords DEF SearchInv, Finish, Outstanding
<1>2. Selected(providers)
  BY <1>1, ProvidersSelected DEF SearchInv
<1>3. UNCHANGED <<query, providers, outcomes, asked>>
  BY DEF Finish
<1>4. CASE AllFailed /\ pc' = "failed" /\ UNCHANGED response
  <2>1. \A p \in asked : ~outcomes[p].ok
    BY <1>1, <1>4 DEF AllFailed, Answered, ToSet
  <2>2. QED
    BY <1>1, <1>3, <1>4, <2>1 DEF SearchInv
<1>5. CASE /\ ~AllFailed
           /\ pc' = "done"
           /\ \E c \in {Collected} : response' = WithFailures(Response(query, c))
  <2>1. \E p \in asked : outcomes[p].ok
    BY <1>1, <1>2, <1>5 DEF AllFailed, Answered, ToSet, Selected
  <2>2. response' = ReportOf(query, Collected, StatusesOf(providers, outcomes))
    BY <1>2, <1>5, ResponseIsReport, WithFailuresAddsNone
  <2>3. \E g : Brings(Collected, g, providers, outcomes)
    BY <1>1, <1>2, CollectedBrings
  <2>4. Reported(query, providers, outcomes, asked, response')
    BY <1>1, <2>1, <2>2, <2>3 DEF Reported
  <2>5. Reported(query', providers', outcomes', asked', response')
    BY <1>3, <2>4
  <2>6. QED
    BY <1>3, <1>5, <2>5 DEF SearchInv
<1>6. QED
  BY <1>4, <1>5 DEF Finish

LEMMA SearchInvStep == SearchInv /\ [SearchNext]_searchVars => SearchInv'
<1> SUFFICES ASSUME SearchInv, [SearchNext]_searchVars PROVE SearchInv'
  OBVIOUS
<1>1. query \in QueryRecords
  BY QueriesAreRecords DEF SearchInv
<1>2. CASE Refuse
  <2>1. asked' = {} /\ response' = DisallowedResponse(query) /\ query' = query
    BY <1>2 DEF Refuse, SearchInv
  <2>2. response' = DisallowedResponse(query')
    BY <2>1
  <2>3. QED
    BY <1>2, <2>1, <2>2 DEF Refuse, SearchInv
<1>3. CASE Ask
  <2>1. outcomes = <<>> /\ DOMAIN outcomes = {}
    BY <1>3 DEF Ask, SearchInv
  <2>2. QED
    BY <1>3, <2>1 DEF Ask, SearchInv
<1>4. ASSUME NEW p \in Sources, Answer(p) PROVE SearchInv'
  <2>1. PICK page \in Pages : Resolve(p, Ok(Cut(page, PageLimit[query.mode])))
    BY <1>4 DEF Answer
  <2>2. QED
    BY <1>1, <2>1, PagesAreCut, ResolveKeeps
<1>5. ASSUME NEW p \in Sources, Fail(p) PROVE SearchInv'
  BY <1>5, ErrIsOutcome, ResolveKeeps DEF Fail
<1>6. CASE Finish
  BY <1>6, FinishKeeps
<1>7. CASE Drop
  BY <1>7 DEF Drop, SearchInv
<1>8. CASE UNCHANGED searchVars
  <2>1. /\ query' = query /\ providers' = providers /\ pc' = pc /\ outcomes' = outcomes
        /\ asked' = asked /\ response' = response
    BY <1>8 DEF searchVars
  <2>2. QED
    BY <2>1 DEF SearchInv
<1>9. QED
  BY <1>2, <1>3, <1>4, <1>5, <1>6, <1>7, <1>8 DEF SearchNext, Ended

THEOREM SearchInvariant == SearchSpec => []SearchInv
<1>1. QED
  BY SearchInvInit, SearchInvStep, PTL DEF SearchSpec

-----------------------------------------------------------------------------
LEMMA RefusedResponse ==
  ASSUME NEW q
  PROVE  LET r == DisallowedResponse(q) IN
         /\ r.results = {}
         /\ r.provider_status = <<>>
         /\ r.coverage = Coverage(q, <<>>, TRUE)
         /\ r.filtered = FALSE
         /\ r.disallowed = TRUE
BY DEF DisallowedResponse

LEMMA DistinctCardinality ==
  ASSUME NEW ps, Selected(ps)
  PROVE  IsFiniteSet(ToSet(ps)) /\ Cardinality(ToSet(ps)) = Len(ps)
<1>1. Len(ps) \in Nat /\ DOMAIN ps = 1 .. Len(ps) /\ ps = [i \in 1 .. Len(ps) |-> ps[i]]
  BY DEF Selected
<1>2. ps \in Bijection(1 .. Len(ps), ToSet(ps))
  <2>1. ps \in [1 .. Len(ps) -> ToSet(ps)]
    BY <1>1 DEF ToSet
  <2>2. \A a, b \in 1 .. Len(ps) : ps[a] = ps[b] => a = b
    BY <1>1 DEF Selected
  <2>3. \A t \in ToSet(ps) : \E a \in 1 .. Len(ps) : ps[a] = t
    BY <1>1 DEF ToSet
  <2>4. QED
    BY <2>1, <2>2, <2>3 DEF Bijection, Injection, Surjection, IsInjective
<1>3. ExistsBijection(1 .. Len(ps), ToSet(ps))
  BY <1>2 DEF ExistsBijection
<1>4. IsFiniteSet(1 .. Len(ps)) /\ Cardinality(1 .. Len(ps)) = Len(ps)
  <2>1. 1 \in Int /\ Len(ps) \in Int /\ (1 > Len(ps) => Len(ps) = 0)
    BY <1>1
  <2>2. /\ IsFiniteSet(1 .. Len(ps))
        /\ Cardinality(1 .. Len(ps)) = IF 1 > Len(ps) THEN 0 ELSE Len(ps) - 1 + 1
    BY <2>1, FS_Interval
  <2>3. Len(ps) - 1 + 1 = Len(ps)
    BY <1>1
  <2>4. QED
    BY <2>1, <2>2, <2>3
<1>5. QED
  BY <1>3, <1>4, FS_Bijection

LEMMA FailsOnlyFromInv == SearchInv => FailsOnlyWhenAllFail
<1> SUFFICES ASSUME SearchInv PROVE FailsOnlyWhenAllFail
  OBVIOUS
<1>1. pc = "failed" => \A p \in asked : ~outcomes[p].ok
  BY DEF SearchInv
<1>2. ASSUME Done, ~response.disallowed
      PROVE  /\ \E p \in asked : outcomes[p].ok
             /\ \A i \in DOMAIN response.provider_status :
                  LET s == response.provider_status[i]
                  IN  s.status = "success" <=> outcomes[s.provider].ok
  <2>1. Reported(query, providers, outcomes, asked, response)
    BY <1>2, RefusedResponse DEF SearchInv, Done
  <2>2. response.provider_status = StatusesOf(providers, outcomes)
    <3>1. PICK c : response = ReportOf(query, c, StatusesOf(providers, outcomes))
      BY <2>1 DEF Reported
    <3>2. QED
      BY <3>1 DEF ReportOf
  <2>3. ASSUME NEW i \in DOMAIN response.provider_status
        PROVE  LET s == response.provider_status[i]
               IN  s.status = "success" <=> outcomes[s.provider].ok
    <3>1. i \in DOMAIN providers /\ response.provider_status[i] = StatusOf(providers[i], outcomes)
      BY <2>2 DEF StatusesOf
    <3>2. providers[i] \in DOMAIN outcomes
      BY <2>1, <3>1 DEF Reported, ToSet
    <3>3. QED
      BY <3>1, <3>2 DEF StatusOf
  <2>4. QED
    BY <2>1, <2>3 DEF Reported
<1>3. QED
  BY <1>1, <1>2 DEF FailsOnlyWhenAllFail

(* A failed search had only failures, a successful one at least one answer *)
(* and a status for each provider as it fared.                             *)
THEOREM FailuresCostTheirResultsOnly == SearchSpec => []FailsOnlyWhenAllFail
<1>1. QED
  BY SearchInvariant, FailsOnlyFromInv, PTL

LEMMA ContactsFromInv == SearchInv => CoverageMatchesContacts
<1> SUFFICES ASSUME SearchInv, Done PROVE CoverageMatchesContacts
  BY DEF CoverageMatchesContacts
<1> DEFINE attempts == Attempts(response.coverage)
<1>1. query \in QueryRecords /\ providers = Providers(query)
  BY QueriesAreRecords DEF SearchInv
<1>2. Selected(providers)
  BY <1>1, ProvidersSelected
<1>3. CASE asked = {} /\ response = DisallowedResponse(query)
  <2>1. /\ response.coverage = Coverage(query, <<>>, TRUE)
        /\ response.provider_status = <<>>
        /\ response.disallowed = TRUE
    BY <1>3, RefusedResponse
  <2>2. attempts = <<>>
    BY <1>1, <2>1, NoAttemptsWhenBlocked
  <2> HIDE DEF attempts
  <2>3. [i \in DOMAIN attempts |-> attempts[i].provider]
          = [i \in DOMAIN response.provider_status |-> response.provider_status[i].provider]
    BY <2>1, <2>2
  <2>4. {attempts[i].provider : i \in DOMAIN attempts} = asked
    BY <1>3, <2>2
  <2>5. Len(attempts) = Cardinality(asked)
    BY <1>3, <2>2, FS_EmptySet
  <2>6. response.disallowed <=> asked = {}
    BY <1>3, <2>1
  <2>7. QED
    BY <2>3, <2>4, <2>5, <2>6 DEF CoverageMatchesContacts, attempts
<1>4. CASE Reported(query, providers, outcomes, asked, response)
  <2> DEFINE st == StatusesOf(providers, outcomes)
  <2>1. /\ response.coverage = Coverage(query, st, FALSE)
        /\ response.provider_status = st
        /\ response.disallowed = FALSE
        /\ asked = ToSet(providers)
    <3>1. PICK c : response = ReportOf(query, c, st)
      BY <1>4 DEF Reported
    <3> HIDE DEF st
    <3>2. asked = ToSet(providers)
      BY <1>4 DEF Reported
    <3>3. QED
      BY <3>1, <3>2 DEF ReportOf
  <2>2. DOMAIN st = DOMAIN providers /\ \A i \in DOMAIN providers : st[i].provider = providers[i]
    BY DEF StatusesOf, StatusOf
  <2> HIDE DEF st
  <2>3. /\ DOMAIN attempts = DOMAIN providers
        /\ Len(attempts) = Len(providers)
        /\ \A n \in DOMAIN providers : attempts[n].provider = providers[n]
    BY <1>1, <2>1, AttemptsAreProviders
  <2> HIDE DEF attempts
  <2>4. [i \in DOMAIN attempts |-> attempts[i].provider]
          = [i \in DOMAIN response.provider_status |-> response.provider_status[i].provider]
    BY <2>1, <2>2, <2>3
  <2>5. {attempts[i].provider : i \in DOMAIN attempts} = asked
    BY <2>1, <2>3 DEF ToSet
  <2>6. Len(attempts) = Cardinality(asked)
    BY <1>2, <2>1, <2>3, DistinctCardinality
  <2>7. asked # {}
    <3>1. 1 \in DOMAIN providers
      BY <1>2 DEF Selected
    <3>2. QED
      BY <2>1, <3>1 DEF ToSet
  <2>8. QED
    BY <2>1, <2>4, <2>5, <2>6, <2>7 DEF CoverageMatchesContacts, attempts
<1>5. QED
  BY <1>3, <1>4 DEF SearchInv, Done

(* The attempts in the coverage, the statuses and the requests sent agree. *)
THEOREM CoverageIsTruthful == SearchSpec => []CoverageMatchesContacts
<1>1. QED
  BY SearchInvariant, ContactsFromInv, PTL

(* The URLs collected are those some provider that answered returned. *)
LEMMA CollectedUrls ==
  ASSUME NEW ps, NEW os, NEW as, NEW c, NEW g, Brings(c, g, ps, os), as = ToSet(ps)
  PROVE  {c[i].result.url : i \in DOMAIN c}
           = {u \in Urls : \E p \in as : /\ os[p].ok
                                         /\ \E j \in DOMAIN os[p].page : os[p].page[j].url = u}
<1>1. ASSUME NEW i \in DOMAIN c
      PROVE  /\ c[i].result.url \in Urls
             /\ \E p \in as : /\ os[p].ok
                              /\ \E j \in DOMAIN os[p].page : os[p].page[j].url = c[i].result.url
  <2>1. c[i] \in Collectable
    BY DEF Brings
  <2>2. c[i].result.url \in Urls
    BY <2>1 DEF Collectable, Results
  <2>3. g[i] \in DOMAIN ps /\ ps[g[i]] \in as
    BY DEF Brings, ToSet
  <2>4. PICK j \in DOMAIN os[ps[g[i]]].page : c[i].result = os[ps[g[i]]].page[j]
    BY DEF Brings
  <2>5. os[ps[g[i]]].ok
    BY DEF Brings
  <2>6. QED
    BY <2>2, <2>3, <2>4, <2>5
<1>2. ASSUME NEW u \in Urls, NEW p \in as, os[p].ok,
             NEW j \in DOMAIN os[p].page, os[p].page[j].url = u
      PROVE  \E i \in DOMAIN c : c[i].result.url = u
  <2>1. PICK n \in DOMAIN ps : ps[n] = p
    BY DEF ToSet
  <2>2. PICK i \in DOMAIN c : c[i].result = os[p].page[j]
    BY <1>2, <2>1 DEF Brings
  <2>3. QED
    BY <1>2, <2>2
<1>3. QED
  BY <1>1, <1>2

LEMMA FilterFromInv == SearchInv => FilterTellsTheTruth
<1> SUFFICES ASSUME SearchInv, Done PROVE FilterTellsTheTruth
  BY DEF FilterTellsTheTruth
<1> DEFINE shown == {r.url : r \in response.results}
           returned == {u \in Urls : \E p \in asked : Holds(p, u)}
<1>1. CASE asked = {} /\ response = DisallowedResponse(query)
  <2>1. response.results = {} /\ response.filtered = FALSE
    BY <1>1, RefusedResponse
  <2>2. shown = {} /\ returned = {}
    BY <1>1, <2>1
  <2>3. QED
    BY <2>1, <2>2 DEF FilterTellsTheTruth
<1>2. CASE Reported(query, providers, outcomes, asked, response)
  <2>1. asked = ToSet(providers)
    BY <1>2 DEF Reported
  <2>2. PICK c, g : /\ Brings(c, g, providers, outcomes)
                    /\ response = ReportOf(query, c, StatusesOf(providers, outcomes))
    BY <1>2 DEF Reported
  <2> DEFINE found == Merged(c)
             kept == Kept(query, found)
  <2>3. /\ response.results = {[url |-> u, content |-> found[u].content,
                                engines |-> found[u].engines] : u \in kept}
        /\ response.filtered <=> kept # DOMAIN found
    BY <2>2 DEF ReportOf
  <2>4. DOMAIN found = returned
    <3>1. DOMAIN found = {c[i].result.url : i \in DOMAIN c}
      BY DEF Merged
    <3>2. \A u : \A p \in asked : Holds(p, u) <=>
            /\ outcomes[p].ok
            /\ \E j \in DOMAIN outcomes[p].page : outcomes[p].page[j].url = u
      BY DEF Holds
    <3>3. {c[i].result.url : i \in DOMAIN c}
            = {u \in Urls : \E p \in asked :
                 /\ outcomes[p].ok
                 /\ \E j \in DOMAIN outcomes[p].page : outcomes[p].page[j].url = u}
      BY <2>1, <2>2, CollectedUrls
    <3>4. QED
      BY <3>1, <3>2, <3>3
  <2>5. kept \subseteq DOMAIN found
    BY DEF Kept
  <2>6. \A u \in kept : query.safe_search >= 3 =>
          found[u].content \notin BlockedText \/ found[u].content \in AllowedText
    <3>1. query.safe_search \in Nat
      BY QueriesAreRecords DEF SearchInv, QueryRecords
    <3>2. QED
      BY <3>1 DEF Kept
  <2>7. query.safe_search < 3 => kept = DOMAIN found
    BY DEF Kept
  <2> HIDE DEF kept, found
  <2>8. shown = kept
    <3> DEFINE Shown(u) == [url |-> u, content |-> found[u].content, engines |-> found[u].engines]
    <3>1. response.results = {Shown(u) : u \in kept}
      BY <2>3
    <3>2. \A u : Shown(u).url = u
      OBVIOUS
    <3> HIDE DEF Shown
    <3>3. QED
      BY <3>1, <3>2
  <2>9. \A r \in response.results : query.safe_search >= 3 =>
          r.content \notin BlockedText \/ r.content \in AllowedText
    BY <2>3, <2>6
  <2>10. query.safe_search < 3 => shown = returned
    BY <2>4, <2>7, <2>8
  <2>11. response.filtered <=> shown # returned
    BY <2>3, <2>4, <2>8
  <2>12. QED
    BY <2>9, <2>10, <2>11 DEF FilterTellsTheTruth
<1>3. QED
  BY <1>1, <1>2 DEF SearchInv, Done

(* The safe-search filter withholds what it must and owns up to it. *)
THEOREM FilterIsHonest == SearchSpec => []FilterTellsTheTruth
<1>1. QED
  BY SearchInvariant, FilterFromInv, PTL

(* The longest content of a result that several pages have. *)
LEMMA LargestNumber ==
  ASSUME NEW n \in Nat \ {0}, NEW f \in [1 .. n -> Nat]
  PROVE  \E m \in 1 .. n : \A i \in 1 .. n : f[i] <= f[m]
<1> DEFINE Good(k) == \E m \in 1 .. k : \A i \in 1 .. k : f[i] <= f[m]
           Bad == {k \in 1 .. n : ~ Good(k)}
<1>1. Good(1)
  BY SMT
<1>2. ASSUME NEW k \in Nat, k \in 1 .. n - 1, Good(k) PROVE Good(k + 1)
  <2>1. PICK m \in 1 .. k : \A i \in 1 .. k : f[i] <= f[m]
    BY <1>2
  <2>2. k + 1 \in 1 .. n /\ m \in 1 .. n /\ m \in 1 .. k + 1
    BY <1>2, <2>1
  <2>3. f[k + 1] \in Nat /\ f[m] \in Nat
    BY <2>2
  <2>4. \A i \in 1 .. k + 1 : i = k + 1 \/ i \in 1 .. k
    BY <1>2
  <2>5. CASE f[k + 1] <= f[m]
    BY <2>1, <2>2, <2>4, <2>5
  <2>6. CASE ~(f[k + 1] <= f[m])
    <3>1. \A i \in 1 .. k + 1 : f[i] <= f[k + 1]
      <4> TAKE i \in 1 .. k + 1
      <4>1. CASE i = k + 1
        BY <2>3, <4>1
      <4>2. CASE i # k + 1
        <5>1. i \in 1 .. k /\ i \in 1 .. n
          BY <1>2, <2>4, <4>2
        <5>2. f[i] \in Nat /\ f[i] <= f[m]
          BY <2>1, <5>1
        <5>3. QED
          BY <2>3, <2>6, <5>2
      <4>3. QED
        BY <4>1, <4>2
    <3>2. k + 1 \in 1 .. k + 1
      BY <1>2
    <3>3. QED
      BY <3>1, <3>2
  <2>7. QED
    BY <2>5, <2>6
<1> HIDE DEF Good
<1>3. Bad = {}
  <2> SUFFICES ASSUME Bad # {} PROVE FALSE
    OBVIOUS
  <2>1. Bad \in SUBSET Nat
    OBVIOUS
  <2>2. PICK k \in Bad : \A l \in Bad : k <= l
    BY <2>1, LeastNumber
  <2>3. k \in 1 .. n /\ ~ Good(k)
    BY <2>2
  <2>4. k # 1
    BY <1>1, <2>3
  <2> DEFINE l == k - 1
  <2>5. l \in Nat /\ l \in 1 .. n - 1 /\ l \in 1 .. n /\ l + 1 = k /\ ~(k <= l)
    BY <2>3, <2>4
  <2> HIDE DEF l
  <2>6. Good(l)
    BY <2>2, <2>5
  <2>7. QED
    BY <1>2, <2>3, <2>5, <2>6
<1>4. Good(n)
  <2>1. n \in 1 .. n
    OBVIOUS
  <2>2. QED
    BY <1>3, <2>1
<1>5. QED
  BY <1>4 DEF Good

LEMMA MaxOfContents ==
  ASSUME NEW n \in Nat \ {0}, NEW f \in [1 .. n -> Nat]
  PROVE  \A i \in 1 .. n : f[i] <= Max({f[j] : j \in 1 .. n})
<1> DEFINE T == {f[j] : j \in 1 .. n}
<1>1. PICK m \in 1 .. n : \A i \in 1 .. n : f[i] <= f[m]
  BY LargestNumber
<1>2. \A i \in 1 .. n : f[i] \in Nat
  OBVIOUS
<1>3. \E x \in T : \A y \in T : x >= y
  BY <1>1, <1>2
<1>4. Max(T) = CHOOSE x \in T : \A y \in T : x >= y
  BY DEF Max
<1>5. Max(T) \in T /\ \A y \in T : Max(T) >= y
  BY <1>3, <1>4
<1> DEFINE top == Max(T)
<1> HIDE DEF top
<1>6. top \in T /\ \A y \in T : top >= y
  BY <1>5 DEF top
<1>7. top \in Nat
  BY <1>2, <1>6
<1>8. \A i \in 1 .. n : f[i] <= top
  BY <1>2, <1>6, <1>7
<1>9. QED
  BY <1>8 DEF top

Carries(p, u, os) ==
  /\ os[p].ok
  /\ \E j \in DOMAIN os[p].page : os[p].page[j].url = u

(* The engines of a merged result are the providers that carry its URL, in *)
(* the order of selection: the positions Distinct keeps among the results  *)
(* of a URL pick these providers' positions in increasing order.           *)
LEMMA MergedEngines ==
  ASSUME NEW ps, Selected(ps), NEW os, NEW c, NEW g, Brings(c, g, ps, os), NEW u
  PROVE  MergedResult(c, u).engines = Select(ps, {i \in DOMAIN ps : Carries(ps[i], u, os)})
<1> DEFINE J == {a \in DOMAIN c : c[a].result.url = u}
           same == Select(c, J)
           names == [n \in DOMAIN same |-> same[n].provider]
           D == {n \in DOMAIN names : \A j \in 1 .. n - 1 : names[j] # names[n]}
           C == {i \in DOMAIN ps : Carries(ps[i], u, os)}
<1>1. /\ c \in Seq(Collectable) /\ Len(c) \in Nat /\ DOMAIN c = 1 .. Len(c)
      /\ ps \in Seq(Sources) /\ Len(ps) \in Nat /\ DOMAIN ps = 1 .. Len(ps)
  BY DEF Brings, Selected
<1>2. \A a \in DOMAIN c : g[a] \in DOMAIN ps /\ c[a].provider = ps[g[a]]
  BY DEF Brings
<1>3. \A a \in J : a \in DOMAIN c /\ Carries(ps[g[a]], u, os)
  BY DEF Brings, Carries
<1>4. ASSUME NEW i \in C PROVE \E a \in J : g[a] = i
  <2>1. PICK j \in DOMAIN os[ps[i]].page : os[ps[i]].page[j].url = u
    BY DEF Carries
  <2>2. PICK a \in DOMAIN c : g[a] = i /\ c[a].result = os[ps[i]].page[j]
    BY DEF Brings, Carries
  <2>3. QED
    BY <2>1, <2>2
<1>5. MergedResult(c, u).engines = Distinct(names)
  BY DEF MergedResult
<1>6. J \in SUBSET DOMAIN c /\ C \in SUBSET DOMAIN ps
  OBVIOUS
<1>7. \A i \in DOMAIN ps : i \in C <=> Carries(ps[i], u, os)
  OBVIOUS
<1> HIDE DEF J, C
<1>8. PICK l \in Nat : \E h : Picks(h, l, J) /\ same = [n \in 1 .. l |-> c[h[n]]]
  BY <1>1, <1>6, SelectPicks
<1>9. l \in Nat
  BY <1>8
<1>10. PICK h : Picks(h, l, J) /\ same = [n \in 1 .. l |-> c[h[n]]]
  BY <1>8
<1>11. DOMAIN same = 1 .. l /\ \A n \in 1 .. l : same[n] = c[h[n]]
  BY <1>10
<1> HIDE DEF same
<1>12. /\ \A n \in 1 .. l : h[n] \in J /\ h[n] \in DOMAIN c
       /\ \A a, b \in 1 .. l : a < b => h[a] < h[b]
       /\ \A a \in J : \E n \in 1 .. l : h[n] = a
  BY <1>6, <1>10 DEF Picks
<1>13. DOMAIN names = 1 .. l /\ \A n \in 1 .. l : names[n] = ps[g[h[n]]]
  BY <1>2, <1>11, <1>12
<1>14. names \in Seq(Sources)
  <2>1. ASSUME NEW n \in 1 .. l PROVE names[n] \in Sources
    <3>1. g[h[n]] \in DOMAIN ps
      BY <1>2, <1>12
    <3> DEFINE i == g[h[n]]
    <3> HIDE DEF i, names
    <3>2. ps[i] \in Sources
      BY <1>1, <3>1 DEF i
    <3>3. QED
      BY <1>13, <3>2 DEF i
  <2>2. names = [n \in 1 .. l |-> names[n]]
    BY <1>11
  <2> HIDE DEF names
  <2>3. QED
    BY <1>9, <2>1, <2>2
<1>15. Distinct(names) = Select(names, D)
  BY DEF Distinct
<1> HIDE DEF names
<1>16. D \in SUBSET DOMAIN names
  OBVIOUS
<1>17. \A n \in D : n \in 1 .. l /\ \A j \in 1 .. n - 1 : names[j] # names[n]
  BY <1>13
<1>18. ASSUME NEW n \in 1 .. l PROVE \E d \in D : names[d] = names[n]
  <2> DEFINE Same == {j \in 1 .. l : names[j] = names[n]}
  <2>1. Same \in SUBSET Nat /\ n \in Same
    OBVIOUS
  <2>2. PICK d \in Same : \A e \in Same : d <= e
    BY <2>1, LeastNumber
  <2>3. d \in 1 .. l /\ names[d] = names[n]
    BY <2>2
  <2>4. \A j \in 1 .. d - 1 : names[j] # names[d]
    <3> SUFFICES ASSUME NEW j \in 1 .. d - 1, names[j] = names[d] PROVE FALSE
      OBVIOUS
    <3>1. j \in Same /\ ~(d <= j)
      BY <1>9, <2>3
    <3>2. QED
      BY <2>2, <3>1
  <2>5. QED
    BY <1>13, <2>3, <2>4
<1> HIDE DEF D
<1>19. PICK k \in Nat : \E e : Picks(e, k, D) /\ Select(names, D) = [n \in 1 .. k |-> names[e[n]]]
  BY <1>14, <1>16, SelectPicks
<1>20. k \in Nat
  BY <1>19
<1>21. PICK e : Picks(e, k, D) /\ Select(names, D) = [n \in 1 .. k |-> names[e[n]]]
  BY <1>19
<1>22. /\ \A n \in 1 .. k : e[n] \in D /\ e[n] \in 1 .. l
       /\ \A a, b \in 1 .. k : a < b => e[a] < e[b]
       /\ \A d \in D : \E n \in 1 .. k : e[n] = d
  BY <1>17, <1>21 DEF Picks
<1> DEFINE w == [n \in 1 .. k |-> g[h[e[n]]]]
<1>23. ASSUME NEW n \in 1 .. k
       PROVE  /\ w[n] = g[h[e[n]]]
              /\ w[n] \in DOMAIN ps /\ w[n] \in C
              /\ names[e[n]] = ps[w[n]]
  <2>1. e[n] \in 1 .. l /\ h[e[n]] \in J /\ h[e[n]] \in DOMAIN c
    BY <1>12, <1>22
  <2>2. QED
    BY <1>2, <1>3, <1>7, <1>13, <2>1
<1>24. w = [n \in 1 .. k |-> w[n]]
  OBVIOUS
<1> HIDE DEF w
<1>25. ASSUME NEW a \in 1 .. k, NEW b \in 1 .. k, a < b PROVE w[a] < w[b]
  <2>1. e[a] \in 1 .. l /\ e[b] \in 1 .. l /\ e[a] < e[b] /\ e[b] \in D
    BY <1>22, <1>25
  <2>2. h[e[a]] < h[e[b]] /\ h[e[a]] \in DOMAIN c /\ h[e[b]] \in DOMAIN c
    BY <1>12, <2>1
  <2>3. w[a] <= w[b]
    BY <1>23, <2>2 DEF Brings
  <2>4. names[e[a]] # names[e[b]]
    <3>1. e[a] \in 1 .. e[b] - 1
      BY <1>9, <2>1
    <3>2. QED
      BY <1>17, <2>1, <3>1
  <2>5. w[a] # w[b]
    BY <1>23, <2>4
  <2>6. w[a] \in Nat /\ w[b] \in Nat
    BY <1>1, <1>23
  <2>7. QED
    BY <2>3, <2>5, <2>6
<1>26. ASSUME NEW i \in C PROVE \E a \in 1 .. k : w[a] = i
  <2>1. PICK a \in J : g[a] = i
    BY <1>4
  <2>2. PICK n \in 1 .. l : h[n] = a
    BY <1>12
  <2>3. PICK d \in D : names[d] = names[n]
    BY <1>18
  <2>4. PICK x \in 1 .. k : e[x] = d
    BY <1>22
  <2>5. ps[w[x]] = ps[i] /\ w[x] \in DOMAIN ps /\ i \in DOMAIN ps
    BY <1>6, <1>13, <1>23, <2>1, <2>2, <2>3, <2>4
  <2>6. w[x] = i
    BY <2>5 DEF Selected
  <2>7. QED
    BY <2>6
<1>27. Picks(w, k, C)
  <2>1. w \in [1 .. k -> C]
    BY <1>23, <1>24
  <2>2. QED
    BY <1>25, <1>26, <2>1 DEF Picks
<1>28. Select(ps, C) = [n \in 1 .. k |-> ps[w[n]]]
  BY <1>1, <1>6, <1>20, <1>27, SelectIs
<1>29. Select(names, D) = [n \in 1 .. k |-> ps[w[n]]]
  BY <1>21, <1>23
<1>30. QED
  BY <1>5, <1>15, <1>28, <1>29 DEF C

LEMMA MergedContent ==
  ASSUME NEW ps, NEW os, NEW c, NEW g, Brings(c, g, ps, os),
         NEW i \in DOMAIN ps, os[ps[i]].ok,
         NEW j \in DOMAIN os[ps[i]].page
  PROVE  os[ps[i]].page[j].content <= MergedResult(c, os[ps[i]].page[j].url).content
<1> DEFINE u == os[ps[i]].page[j].url
           J == {a \in DOMAIN c : c[a].result.url = u}
           same == Select(c, J)
           f == [n \in DOMAIN same |-> same[n].result.content]
<1>1. MergedResult(c, u).content = Max({same[n].result.content : n \in DOMAIN same})
  BY DEF MergedResult
<1>2. PICK a \in DOMAIN c : c[a].result = os[ps[i]].page[j]
  BY DEF Brings
<1>3. a \in J /\ J \in SUBSET DOMAIN c
  BY <1>2
<1> HIDE DEF J
<1>4. c \in Seq(Collectable)
  BY DEF Brings
<1>5. same \in Seq(Collectable) /\ \E n \in DOMAIN same : same[n] = c[a]
  BY <1>3, <1>4, SelectElements
<1> HIDE DEF same
<1>6. PICK n \in DOMAIN same : same[n] = c[a]
  BY <1>5
<1>7. Len(same) \in Nat \ {0} /\ DOMAIN same = 1 .. Len(same)
  BY <1>5, <1>6
<1>8. f \in [1 .. Len(same) -> Nat]
  <2>1. ASSUME NEW m \in DOMAIN same PROVE same[m].result.content \in Nat
    <3>1. same[m] \in Collectable
      BY <1>5
    <3>2. same[m].result \in Results
      BY <3>1 DEF Collectable
    <3>3. QED
      BY <3>2 DEF Results
  <2>2. QED
    BY <1>7, <2>1
<1>9. \A m \in DOMAIN same : f[m] = same[m].result.content
  OBVIOUS
<1>10. {same[m].result.content : m \in DOMAIN same} = {f[m] : m \in 1 .. Len(same)}
  BY <1>7, <1>9
<1> HIDE DEF f
<1>11. f[n] <= Max({f[m] : m \in 1 .. Len(same)})
  BY <1>6, <1>7, <1>8, MaxOfContents
<1>12. f[n] = os[ps[i]].page[j].content
  BY <1>2, <1>6, <1>9
<1>13. QED
  BY <1>1, <1>10, <1>11, <1>12

LEMMA MergedFromInv == SearchInv => MergedFaithfully
<1> SUFFICES ASSUME SearchInv, Done, NEW r \in response.results
             PROVE  /\ r.engines = Select(providers,
                         {i \in DOMAIN providers : Holds(providers[i], r.url)})
                    /\ \A p \in asked : Holds(p, r.url) =>
                         \A j \in DOMAIN outcomes[p].page :
                           outcomes[p].page[j].url = r.url
                             => outcomes[p].page[j].content <= r.content
  BY DEF MergedFaithfully
<1>1. Reported(query, providers, outcomes, asked, response)
  BY RefusedResponse DEF SearchInv, Done
<1>2. Selected(providers)
  BY QueriesAreRecords, ProvidersSelected DEF SearchInv
<1>3. asked = ToSet(providers)
  BY <1>1 DEF Reported
<1>4. PICK c, g : /\ Brings(c, g, providers, outcomes)
                  /\ response = ReportOf(query, c, StatusesOf(providers, outcomes))
  BY <1>1 DEF Reported
<1>5. PICK u \in Kept(query, Merged(c)) :
        r = [url |-> u, content |-> Merged(c)[u].content, engines |-> Merged(c)[u].engines]
  BY <1>4 DEF ReportOf
<1>6. u \in DOMAIN Merged(c)
  BY <1>5 DEF Kept
<1>7. Merged(c)[u] = MergedResult(c, u)
  BY <1>6 DEF Merged
<1>8. /\ r.url = u
      /\ r.content = MergedResult(c, u).content
      /\ r.engines = MergedResult(c, u).engines
  BY <1>5, <1>7
<1>9. r.engines = Select(providers, {i \in DOMAIN providers : Holds(providers[i], r.url)})
  <2>1. \A i \in DOMAIN providers :
          Holds(providers[i], r.url) <=> Carries(providers[i], u, outcomes)
    BY <1>3, <1>8 DEF Holds, Carries, ToSet
  <2>2. {i \in DOMAIN providers : Holds(providers[i], r.url)}
          = {i \in DOMAIN providers : Carries(providers[i], u, outcomes)}
    BY <2>1
  <2>3. QED
    BY <1>2, <1>4, <1>8, <2>2, MergedEngines
<1>10. ASSUME NEW p \in asked, Holds(p, r.url), NEW j \in DOMAIN outcomes[p].page,
              outcomes[p].page[j].url = r.url
       PROVE  outcomes[p].page[j].content <= r.content
  <2>1. PICK i \in DOMAIN providers : providers[i] = p
    BY <1>3 DEF ToSet
  <2>2. outcomes[providers[i]].ok
    BY <1>10, <2>1 DEF Holds
  <2>3. outcomes[providers[i]].page[j].content
          <= MergedResult(c, outcomes[providers[i]].page[j].url).content
    BY <1>4, <2>1, <2>2, MergedContent
  <2>4. QED
    BY <1>8, <1>10, <2>1, <2>3
<1>11. QED
  BY <1>9, <1>10

(* Whatever the order of the answers, a result credits the providers that  *)
(* returned its URL, in order of selection, and has the longest content.   *)
THEOREM MergingLosesNothing == SearchSpec => []MergedFaithfully
<1>1. QED
  BY SearchInvariant, MergedFromInv, PTL
=============================================================================
