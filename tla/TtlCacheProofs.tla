--------------------------- MODULE TtlCacheProofs ---------------------------
(***************************************************************************)
(* Proofs about TtlCache, for every set of keys and values, every          *)
(* capacity, lifetime and range of the clock.                              *)
(***************************************************************************)
EXTENDS TtlCache, TLAPS, FiniteSetTheorems, SequenceTheorems,
        WellFoundedInduction

(* No key twice in a queue. *)
Distinct(s) == \A i, j \in 1 .. Len(s) : s[i] = s[j] => i = j

(* k is somewhere in front of l. *)
Before(s, k, l) ==
  \E i, j \in 1 .. Len(s) : i < j /\ s[i] = k /\ s[j] = l

-----------------------------------------------------------------------------
(* A set of numbers has a least one. *)
LEMMA LeastNumber ==
  ASSUME NEW S \in SUBSET Nat, S # {}
  PROVE  \E m \in S : \A l \in S : m <= l
<1>1. PICK m \in S : \A l \in S : ~ (<<l, m>> \in OpToRel(<, Nat))
  BY NatLessThanWellFounded, WFMin
<1>2. \A l \in S : ~ (l < m)
  BY <1>1 DEF OpToRel
<1> QED
  BY <1>2

(* Every set of positions up to n has an increasing enumeration: if not,   *)
(* take the least n for which it fails; dropping n itself leaves a set     *)
(* that has one, which n extends.                                          *)
LEMMA AscendingExists ==
  \A n \in Nat : \A T \in SUBSET (1 .. n) : Ascending(T, n) # {}
<1> DEFINE Bad == {n \in Nat : \E T \in SUBSET (1 .. n) : Ascending(T, n) = {}}
<1> SUFFICES ASSUME Bad # {} PROVE FALSE
  OBVIOUS
<1>1. PICK m \in Bad : \A l \in Bad : m <= l
  BY LeastNumber
<1>2. PICK T \in SUBSET (1 .. m) : Ascending(T, m) = {}
  OBVIOUS
<1> HIDE DEF Bad
<1>3. m \in Nat
  BY DEF Bad
<1>4. CASE m = 0
  <2> DEFINE f == [i \in 1 .. 0 |-> i]
  <2>1. T = {}
    BY <1>4
  <2>2. f \in [1 .. 0 -> T]
    BY <2>1
  <2>3. f \in Ascending(T, m)
    BY <1>4, <2>1, <2>2 DEF Ascending
  <2> QED
    BY <2>3, <1>2
<1>5. CASE m # 0
  <2> DEFINE n == m - 1
             U == T \ {m}
  <2>1. n \in Nat /\ n < m
    BY <1>3, <1>5
  <2>2. n \notin Bad
    BY <1>1, <2>1, <1>3 DEF Bad
  <2>3. U \in SUBSET (1 .. n)
    BY <1>3
  <2>4. PICK f \in Ascending(U, n) : TRUE
    BY <2>1, <2>2, <2>3 DEF Bad
  <2> HIDE DEF n, U
  <2>5. PICK k \in 0 .. n : f \in [1 .. k -> U]
    BY <2>4 DEF Ascending
  <2>6. /\ \A i, j \in 1 .. k : i < j => f[i] < f[j]
        /\ \A t \in U : \E i \in 1 .. k : f[i] = t
    BY <2>4, <2>5 DEF Ascending
  <2>7. CASE m \notin T
    <3>1. U = T
      BY <2>7 DEF U
    <3>2. f \in [1 .. k -> T] /\ k \in 0 .. m
      BY <3>1, <2>1, <2>5, <1>3
    <3>3. DOMAIN f = 1 .. k
      BY <2>5
    <3>4. f \in Ascending(T, m)
      BY <3>1, <3>2, <3>3, <2>6 DEF Ascending
    <3> QED
      BY <3>4, <1>2
  <2>8. CASE m \in T
    <3> DEFINE g == [i \in 1 .. k + 1 |-> IF i = k + 1 THEN m ELSE f[i]]
    <3>1. k \in Nat /\ k + 1 \in 0 .. m
      BY <2>1, <2>5, <1>3 DEF n
    <3>2. g \in [1 .. k + 1 -> T]
      BY <2>5, <2>8, <3>1 DEF U
    <3>3. \A i \in 1 .. k : f[i] \in 1 .. n
      BY <2>3, <2>5
    <3>4. \A i, j \in 1 .. k + 1 : i < j => g[i] < g[j]
      BY <2>1, <2>6, <3>1, <3>3, <1>3
    <3>5. \A t \in T : \E i \in 1 .. k + 1 : g[i] = t
      <4> TAKE t \in T
      <4>1. CASE t = m
        BY <4>1, <3>1
      <4>2. CASE t # m
        <5>1. PICK i \in 1 .. k : f[i] = t
          BY <4>2, <2>6 DEF U
        <5> QED
          BY <5>1, <3>1
      <4> QED
        BY <4>1, <4>2
    <3>6. DOMAIN g = 1 .. k + 1
      OBVIOUS
    <3> HIDE DEF g
    <3>7. g \in Ascending(T, m)
      BY <3>1, <3>2, <3>4, <3>5, <3>6 DEF Ascending
    <3> QED
      BY <3>7, <1>2
  <2> QED
    BY <2>7, <2>8
<1> QED
  BY <1>4, <1>5

(* retain keeps the keys asked for, once each, in the order they were in. *)
LEMMA RetainProperties ==
  ASSUME NEW S, NEW s \in Seq(S), Distinct(s), NEW K
  PROVE  /\ Retain(s, K) \in Seq(S)
         /\ Distinct(Retain(s, K))
         /\ Ranks(Retain(s, K)) = Ranks(s) \cap K
         /\ \A k, l : Before(Retain(s, K), k, l) <=>
                        Before(s, k, l) /\ k \in K /\ l \in K
<1> DEFINE kept == {i \in 1 .. Len(s) : s[i] \in K}
           pick == CHOOSE f \in Ascending(kept, Len(s)) : TRUE
           r == Retain(s, K)
<1>1. Len(s) \in Nat /\ s \in [1 .. Len(s) -> S]
  BY LenProperties
<1>2. pick \in Ascending(kept, Len(s))
  BY <1>1, AscendingExists
<1>3. r = [j \in DOMAIN pick |-> s[pick[j]]]
  BY DEF Retain
<1> HIDE DEF pick, r
<1>4. PICK n \in 0 .. Len(s) : pick \in [1 .. n -> kept]
  BY <1>2 DEF Ascending
<1>5. /\ \A i, j \in 1 .. n : i < j => pick[i] < pick[j]
      /\ \A t \in kept : \E i \in 1 .. n : pick[i] = t
  BY <1>2, <1>4 DEF Ascending
<1> HIDE DEF kept
<1>6. n \in Nat /\ r = [j \in 1 .. n |-> s[pick[j]]]
  BY <1>1, <1>3, <1>4
<1>7. \A j \in 1 .. n : /\ pick[j] \in 1 .. Len(s)
                        /\ r[j] = s[pick[j]]
                        /\ r[j] \in S \cap K
  BY <1>1, <1>4, <1>6 DEF kept
<1>8. r \in Seq(S)
  BY <1>6, <1>7
<1>9. Len(r) = n
  BY <1>6
<1>10. \A i, j \in 1 .. n : r[i] = r[j] => i = j
  <2> SUFFICES ASSUME NEW i \in 1 .. n, NEW j \in 1 .. n, r[i] = r[j], i < j
               PROVE  FALSE
    BY <1>6
  <2>1. pick[i] < pick[j]
    BY <1>5
  <2>2. pick[i] = pick[j]
    BY <1>7 DEF Distinct
  <2> QED
    BY <2>1, <2>2, <1>7
<1>11. Ranks(r) = Ranks(s) \cap K
  <2>1. ASSUME NEW x \in Ranks(r) PROVE x \in Ranks(s) \cap K
    <3>1. PICK j \in 1 .. n : r[j] = x
      BY <1>9 DEF Ranks
    <3> QED
      BY <3>1, <1>7 DEF Ranks
  <2>2. ASSUME NEW x \in Ranks(s) \cap K PROVE x \in Ranks(r)
    <3>1. PICK i \in 1 .. Len(s) : s[i] = x
      BY DEF Ranks
    <3>2. PICK j \in 1 .. n : pick[j] = i
      BY <3>1, <1>5 DEF kept
    <3> QED
      BY <3>1, <3>2, <1>7, <1>9 DEF Ranks
  <2> QED
    BY <2>1, <2>2
<1>12. ASSUME NEW k, NEW l
       PROVE  Before(r, k, l) <=> Before(s, k, l) /\ k \in K /\ l \in K
  <2>1. ASSUME Before(r, k, l)
        PROVE  Before(s, k, l) /\ k \in K /\ l \in K
    <3>1. PICK i, j \in 1 .. n : i < j /\ r[i] = k /\ r[j] = l
      BY <2>1, <1>9 DEF Before
    <3> QED
      BY <3>1, <1>5, <1>7 DEF Before
  <2>2. ASSUME Before(s, k, l), k \in K, l \in K
        PROVE  Before(r, k, l)
    <3>1. PICK i, j \in 1 .. Len(s) : i < j /\ s[i] = k /\ s[j] = l
      BY <2>2 DEF Before
    <3>2. PICK a, b \in 1 .. n : pick[a] = i /\ pick[b] = j
      BY <2>2, <3>1, <1>5 DEF kept
    <3>3. a < b
      <4>1. a # b
        BY <3>1, <3>2
      <4>2. ~ (b < a)
        BY <3>1, <3>2, <1>5
      <4> QED
        BY <4>1, <4>2, <1>6
    <3> QED
      BY <3>1, <3>2, <3>3, <1>7, <1>9 DEF Before
  <2> QED
    BY <2>1, <2>2
<1> QED
  BY <1>8, <1>9, <1>10, <1>11, <1>12 DEF r, Distinct

(* move_to_back keeps the keys and changes the place of one only. *)
LEMMA MoveToBackProperties ==
  ASSUME NEW S, NEW s \in Seq(S), Distinct(s), NEW k \in Ranks(s)
  PROVE  /\ MoveToBack(s, k) \in Seq(S)
         /\ Distinct(MoveToBack(s, k))
         /\ Ranks(MoveToBack(s, k)) = Ranks(s)
         /\ \A x, y : Before(MoveToBack(s, k), x, y) <=>
               /\ x \in Ranks(s) \ {k}
               /\ y = k \/ (y # k /\ Before(s, x, y))
<1> DEFINE m == MoveToBack(s, k)
<1>0. PICK n \in Nat : n = Len(s)
  BY LenProperties
<1>1. /\ n \in Nat /\ s \in [1 .. n -> S]
      /\ \A i, j \in 1 .. n : s[i] = s[j] => i = j
  BY <1>0, LenProperties DEF Distinct
<1>2. PICK p \in 1 .. n : s[p] = k
  BY <1>0 DEF Ranks
<1>3. Positions(s, k) = {p}
  BY <1>0, <1>1, <1>2 DEF Positions
<1>4. p = CHOOSE i \in Positions(s, k) : \A j \in Positions(s, k) : i <= j
  BY <1>3, <1>2, <1>1
<1>5. m = [i \in 1 .. n |-> IF i < p THEN s[i]
                            ELSE IF i < n THEN s[i + 1] ELSE k]
  BY <1>0, <1>3, <1>4 DEF MoveToBack
<1> HIDE DEF m
<1>6. \A i \in 1 .. n : m[i] \in S
  BY <1>1, <1>2, <1>5
<1>7. m \in Seq(S) /\ Len(m) = n
  BY <1>1, <1>5, <1>6
<1>8. \A i \in 1 .. n : /\ i < p => m[i] = s[i]
                        /\ p <= i /\ i < n => m[i] = s[i + 1]
                        /\ i = n => m[i] = k
  <2> TAKE i \in 1 .. n
  <2>1. m[i] = IF i < p THEN s[i] ELSE IF i < n THEN s[i + 1] ELSE k
    BY <1>5
  <2> QED
    BY <2>1, <1>1, <1>2
<1>9. Distinct(m)
  <2> SUFFICES ASSUME NEW i \in 1 .. n, NEW j \in 1 .. n, m[i] = m[j], i < j
               PROVE  FALSE
    BY <1>1, <1>7 DEF Distinct
  <2>1. CASE j = n
    <3>1. PICK q \in 1 .. n : q # p /\ m[i] = s[q]
      BY <2>1, <1>1, <1>8
    <3> QED
      BY <3>1, <2>1, <1>1, <1>8, <1>2
  <2>2. CASE j < n
    <3>1. PICK a \in 1 .. n : m[i] = s[a] /\ (i < p => a = i) /\ (p <= i => a = i + 1)
      BY <2>2, <1>1, <1>8
    <3>2. PICK b \in 1 .. n : m[j] = s[b] /\ (j < p => b = j) /\ (p <= j => b = j + 1)
      BY <2>2, <1>1, <1>8
    <3>3. a = b
      BY <1>1, <3>1, <3>2
    <3> QED
      BY <3>1, <3>2, <3>3, <1>1
  <2> QED
    BY <2>1, <2>2, <1>1
<1>10. Ranks(m) = Ranks(s)
  <2>1. ASSUME NEW x \in Ranks(m) PROVE x \in Ranks(s)
    <3>1. PICK i \in 1 .. n : m[i] = x
      BY <1>7 DEF Ranks
    <3>2. \E q \in 1 .. n : s[q] = x
      BY <3>1, <1>1, <1>2, <1>8
    <3> QED
      BY <1>0, <3>2 DEF Ranks
  <2>2. ASSUME NEW x \in Ranks(s) PROVE x \in Ranks(m)
    <3>1. PICK i \in 1 .. n : s[i] = x
      BY <1>0 DEF Ranks
    <3>2. \E q \in 1 .. n : m[q] = x
      <4>1. CASE i < p
        BY <4>1, <3>1, <1>8
      <4>2. CASE i = p
        BY <4>2, <3>1, <1>1, <1>2, <1>8
      <4>3. CASE i > p
        <5>1. i - 1 \in 1 .. n /\ p <= i - 1 /\ i - 1 < n
          BY <4>3, <1>1, <1>2
        <5>2. m[i - 1] = s[i]
          BY <5>1, <1>8
        <5> QED
          BY <5>1, <5>2, <3>1
      <4> QED
        BY <4>1, <4>2, <4>3, <1>1
    <3> QED
      BY <3>2, <1>7 DEF Ranks
  <2> QED
    BY <2>1, <2>2
<1>11. ASSUME NEW x, NEW y
       PROVE  Before(m, x, y) <=> /\ x \in Ranks(s) \ {k}
                                  /\ y = k \/ (y # k /\ Before(s, x, y))
  <2>1. ASSUME Before(m, x, y)
        PROVE  /\ x \in Ranks(s) \ {k}
               /\ y = k \/ (y # k /\ Before(s, x, y))
    <3>1. PICK i, j \in 1 .. n : i < j /\ m[i] = x /\ m[j] = y
      BY <2>1, <1>7 DEF Before
    <3>2. i # n
      BY <3>1, <1>1
    <3>3. PICK a \in 1 .. n : s[a] = x /\ a # p /\ (i < p => a = i) /\ (p <= i => a = i + 1)
      BY <3>1, <3>2, <1>1, <1>8
    <3>4. x \in Ranks(s) \ {k}
      BY <3>3, <1>0, <1>1, <1>2 DEF Ranks
    <3>5. CASE j = n
      BY <3>5, <3>4, <3>1, <1>8
    <3>6. CASE j < n
      <4>1. PICK b \in 1 .. n : s[b] = y /\ a < b
        BY <3>6, <3>1, <3>3, <1>1, <1>8
      <4> QED
        BY <4>1, <3>3, <3>4, <1>0 DEF Before
    <3> QED
      BY <3>5, <3>6, <1>1
  <2>2. ASSUME x \in Ranks(s) \ {k}, y = k \/ (y # k /\ Before(s, x, y))
        PROVE  Before(m, x, y)
    <3>1. CASE y = k
      <4>1. PICK i \in 1 .. n : m[i] = x
        BY <2>2, <1>7, <1>10 DEF Ranks
      <4>2. i < n
        BY <4>1, <2>2, <1>1, <1>8
      <4>3. n \in 1 .. n /\ m[n] = y
        BY <3>1, <1>1, <1>2, <1>8
      <4> QED
        BY <4>1, <4>2, <4>3, <1>7 DEF Before
    <3>2. CASE y # k /\ Before(s, x, y)
      <4>1. PICK a, b \in 1 .. n : a < b /\ s[a] = x /\ s[b] = y
        BY <1>0, <3>2 DEF Before
      <4>2. a # p /\ b # p
        BY <4>1, <3>2, <2>2, <1>2
      <4> DEFINE i == IF a < p THEN a ELSE a - 1
                 j == IF b < p THEN b ELSE b - 1
      <4>3. i \in 1 .. n /\ j \in 1 .. n /\ i < j
        BY <4>1, <4>2, <1>1, <1>2
      <4>4. m[i] = s[a] /\ m[j] = s[b]
        BY <4>1, <4>2, <1>1, <1>2, <1>8
      <4> QED
        BY <4>1, <4>3, <4>4, <1>7 DEF Before
    <3> QED
      BY <3>1, <3>2, <2>2
  <2> QED
    BY <2>1, <2>2
<1> QED
  BY <1>7, <1>9, <1>10, <1>11 DEF m

(* Popping n keys off the front and pushing a new one to the back. *)
LEMMA PopAndPushProperties ==
  ASSUME NEW S, NEW s \in Seq(S), Distinct(s), NEW n \in 0 .. Len(s),
         NEW k \in S, k \notin Ranks(s)
  PROVE  LET t    == Append(SubSeq(s, n + 1, Len(s)), k)
             stay == Ranks(s) \ {s[i] : i \in 1 .. n}
         IN  /\ t \in Seq(S)
             /\ Distinct(t)
             /\ Ranks(t) = stay \cup {k}
             /\ \A x, y : Before(t, x, y) <=>
                   /\ x \in stay
                   /\ y = k \/ (y # k /\ Before(s, x, y))
<1> DEFINE t    == Append(SubSeq(s, n + 1, Len(s)), k)
           stay == Ranks(s) \ {s[i] : i \in 1 .. n}
<1>0. PICK l \in Nat : l = Len(s)
  BY LenProperties
<1>1. /\ n \in 0 .. l /\ s \in [1 .. l -> S]
      /\ \A i, j \in 1 .. l : s[i] = s[j] => i = j
      /\ \A i \in 1 .. l : s[i] # k
  BY <1>0, LenProperties DEF Distinct, Ranks
<1>2. /\ SubSeq(s, n + 1, l) \in Seq(S)
      /\ Len(SubSeq(s, n + 1, l)) = l - n
      /\ \A i \in 1 .. l - n : SubSeq(s, n + 1, l)[i] = s[n + i]
  BY <1>1, SubSeqProperties
<1>3. /\ t \in Seq(S)
      /\ Len(t) = l - n + 1
      /\ \A i \in 1 .. l - n : t[i] = s[n + i]
      /\ t[l - n + 1] = k
  BY <1>0, <1>1, <1>2, AppendProperties
<1> HIDE DEF t
<1>4. \A x : x \in stay <=> \E i \in 1 .. l : n < i /\ s[i] = x
  <2> TAKE x
  <2>1. ASSUME x \in stay PROVE \E i \in 1 .. l : n < i /\ s[i] = x
    BY <1>0, <2>1, <1>1 DEF Ranks
  <2>2. ASSUME NEW i \in 1 .. l, n < i, s[i] = x PROVE x \in stay
    BY <1>0, <2>2, <1>1 DEF Ranks
  <2> QED
    BY <2>1, <2>2
<1> HIDE DEF stay
<1>5. Distinct(t)
  BY SMTT(30), <1>1, <1>3 DEF Distinct
<1>6. Ranks(t) = stay \cup {k}
  <2>1. ASSUME NEW x \in Ranks(t) PROVE x \in stay \cup {k}
    <3>1. PICK i \in 1 .. l - n + 1 : t[i] = x
      BY <1>3 DEF Ranks
    <3>2. CASE i = l - n + 1
      BY <3>1, <3>2, <1>3
    <3>3. CASE i # l - n + 1
      BY <3>1, <3>3, <1>1, <1>3, <1>4
    <3> QED
      BY <3>2, <3>3
  <2>2. ASSUME NEW x \in stay PROVE x \in Ranks(t)
    <3>1. PICK i \in 1 .. l : n < i /\ s[i] = x
      BY <1>4
    <3>2. i - n \in 1 .. l - n /\ t[i - n] = x
      BY <3>1, <1>1, <1>3
    <3>3. i - n \in 1 .. Len(t)
      BY <3>2, <1>1, <1>3
    <3> QED
      BY <3>2, <3>3 DEF Ranks
  <2>3. k \in Ranks(t)
    <3>1. Len(t) \in 1 .. Len(t) /\ t[Len(t)] = k
      BY <1>1, <1>3
    <3> QED
      BY <3>1 DEF Ranks
  <2> QED
    BY <2>1, <2>2, <2>3
<1>7. ASSUME NEW x, NEW y
      PROVE  Before(t, x, y) <=> /\ x \in stay
                                 /\ y = k \/ (y # k /\ Before(s, x, y))
  <2>1. ASSUME Before(t, x, y)
        PROVE  x \in stay /\ (y = k \/ (y # k /\ Before(s, x, y)))
    <3>1. PICK i, j \in 1 .. l - n + 1 : i < j /\ t[i] = x /\ t[j] = y
      BY <2>1, <1>3 DEF Before
    <3>2. n + i \in 1 .. l /\ n < n + i /\ s[n + i] = x
      BY <3>1, <1>1, <1>3
    <3>3. CASE j = l - n + 1
      BY <3>1, <3>2, <3>3, <1>3, <1>4
    <3>4. CASE j # l - n + 1
      <4>1. n + j \in 1 .. l /\ s[n + j] = y /\ n + i < n + j
        BY <3>1, <3>4, <1>1, <1>3
      <4> QED
        BY <4>1, <3>2, <1>0, <1>4 DEF Before
    <3> QED
      BY <3>3, <3>4
  <2>2. ASSUME x \in stay, y = k \/ (y # k /\ Before(s, x, y))
        PROVE  Before(t, x, y)
    <3>1. PICK i \in 1 .. l : n < i /\ s[i] = x
      BY <2>2, <1>4
    <3>2. i - n \in 1 .. l - n /\ t[i - n] = x
      BY <3>1, <1>1, <1>3
    <3>3. CASE y = k
      <4>1. l - n + 1 \in 1 .. Len(t) /\ i - n \in 1 .. Len(t) /\ i - n < l - n + 1
        BY <3>2, <1>1, <1>3
      <4> QED
        BY <4>1, <3>2, <3>3, <1>3 DEF Before
    <3>4. CASE y # k /\ Before(s, x, y)
      <4>1. PICK a, b \in 1 .. l : a < b /\ s[a] = x /\ s[b] = y
        BY <3>4, <1>0 DEF Before
      <4>2. a = i
        BY <4>1, <3>1, <1>1
      <4>3. b - n \in 1 .. l - n /\ t[b - n] = y /\ i - n < b - n
        BY <4>1, <4>2, <3>1, <1>1, <1>3
      <4>4. i - n \in 1 .. Len(t) /\ b - n \in 1 .. Len(t)
        BY <4>3, <3>2, <1>1, <1>3
      <4> QED
        BY <4>3, <4>4, <3>2 DEF Before
    <3> QED
      BY <3>3, <3>4, <2>2
  <2> QED
    BY <2>1, <2>2
<1> QED
  BY <1>3, <1>5, <1>6, <1>7 DEF t, stay

(* A queue holds finitely many keys. *)
LEMMA RanksFinite ==
  ASSUME NEW S, NEW s \in Seq(S)
  PROVE  IsFiniteSet(Ranks(s))
<1>1. PICK l \in Nat : l = Len(s)
  BY LenProperties
<1>2. s \in [1 .. l -> S]
  BY <1>1, LenProperties
<1>3. s \in Surjection(1 .. l, Ranks(s))
  BY <1>1, <1>2 DEF Surjection, Ranks
<1> QED
  BY <1>3, FS_Surjection, FS_Interval

(* The eviction loop of a cache within its capacity runs at most once:     *)
(* not at all while there is room, once when it is full.                   *)
LEMMA EvictedProperties ==
  ASSUME Capacity \in Nat \ {0},
         NEW S, NEW s \in Seq(S), NEW E, DOMAIN E = Ranks(s),
         Cardinality(Ranks(s)) <= Capacity
  PROVE  /\ Evicted(s, E) \in 0 .. Len(s)
         /\ Evicted(s, E) = IF Cardinality(Ranks(s)) < Capacity THEN 0 ELSE 1
<1> DEFINE rest(n) == Ranks(s) \ {s[i] : i \in 1 .. n}
           stops == {n \in 0 .. Len(s) :
                       Cardinality(rest(n)) < Capacity \/ n = Len(s)}
<1>0. Len(s) \in Nat /\ IsFiniteSet(Ranks(s)) /\ Cardinality(Ranks(s)) \in Nat
  BY LenProperties, RanksFinite, FS_CardinalityType
<1>1. Evicted(s, E) = CHOOSE n \in stops : \A m \in stops : n <= m
  BY DEF Evicted
<1>2. rest(0) = Ranks(s)
  <2>1. {s[i] : i \in 1 .. 0} = {}
    OBVIOUS
  <2> QED
    BY <2>1
<1>3. rest(1) = Ranks(s) \ {s[1]}
  <2>1. {s[i] : i \in 1 .. 1} = {s[1]}
    OBVIOUS
  <2> QED
    BY <2>1
<1> HIDE DEF rest
<1>4. \A n : n \in stops <=>
        n \in 0 .. Len(s) /\ (Cardinality(rest(n)) < Capacity \/ n = Len(s))
  OBVIOUS
<1> HIDE DEF stops
<1>5. \A n \in stops : n \in Nat
  BY <1>0, <1>4
<1>6. CASE Cardinality(Ranks(s)) < Capacity
  <2>1. 0 \in stops
    BY <1>0, <1>2, <1>4, <1>6
  <2>2. \A n \in stops : (\A m \in stops : n <= m) <=> n = 0
    BY <2>1, <1>5
  <2> QED
    BY <2>1, <2>2, <1>0, <1>1, <1>6
<1>7. CASE ~ (Cardinality(Ranks(s)) < Capacity)
  <2>1. Cardinality(Ranks(s)) = Capacity /\ Ranks(s) # {}
    BY <1>0, <1>7, FS_EmptySet
  <2>2. PICK i \in 1 .. Len(s) : TRUE
    BY <2>1 DEF Ranks
  <2>3. 1 \in 1 .. Len(s) /\ s[1] \in Ranks(s)
    BY <2>2, <1>0 DEF Ranks
  <2>4. Cardinality(rest(1)) = Capacity - 1
    BY <2>1, <2>3, <1>0, <1>3, FS_RemoveElement
  <2>5. 1 \in stops
    BY <2>3, <2>4, <1>0, <1>4
  <2>6. 0 \notin stops
    BY <2>1, <2>3, <1>0, <1>2, <1>4
  <2>7. \A n \in stops : (\A m \in stops : n <= m) <=> n = 1
    BY <2>5, <2>6, <1>5
  <2> QED
    BY <2>3, <2>5, <2>7, <1>0, <1>1, <1>7
<1> QED
  BY <1>6, <1>7

-----------------------------------------------------------------------------
(* The inductive invariant. Bounded needs the agreement of map and queue:  *)
(* the loop that makes room pops keys off the queue and counts the map.    *)
CacheInv == CacheTypeOK /\ OrderMatchesEntries /\ Bounded

(* What an operation finds after remove_expired. *)
LEMMA LiveProperties ==
  ASSUME CacheInv
  PROVE  /\ Live \in SUBSET Cached
         /\ IsFiniteSet(Live) /\ Cardinality(Live) <= Capacity
         /\ DOMAIN LiveEntries = Live
         /\ \A k \in Live : LiveEntries[k] = entries[k] /\ entries[k] \in Entry
         /\ LiveOrder \in Seq(Keys)
         /\ Distinct(LiveOrder)
         /\ Ranks(LiveOrder) = Live
         /\ \A k, l : Before(LiveOrder, k, l) <=>
                        Before(order, k, l) /\ k \in Live /\ l \in Live
<1>1. Live \in SUBSET Cached
  BY DEF Live
<1>2. order \in Seq(Keys) /\ Distinct(order) /\ Ranks(order) = Cached
  BY DEF CacheInv, CacheTypeOK, OrderMatchesEntries, Distinct
<1>3. IsFiniteSet(Cached) /\ Cardinality(Cached) \in Nat
  BY <1>2, RanksFinite, FS_CardinalityType
<1>4. IsFiniteSet(Live) /\ Cardinality(Live) <= Cardinality(Cached)
  BY <1>1, <1>3, FS_Subset
<1>5. Cardinality(Live) \in Nat
  BY <1>4, FS_CardinalityType
<1>6. Cardinality(Live) <= Capacity
  BY <1>3, <1>4, <1>5, CacheAssumption DEF CacheInv, Bounded
<1>7. \A k \in Live : entries[k] \in Entry
  BY <1>1 DEF CacheInv, CacheTypeOK
<1>8. /\ LiveOrder \in Seq(Keys)
      /\ Distinct(LiveOrder)
      /\ Ranks(LiveOrder) = Cached \cap Live
      /\ \A k, l : Before(LiveOrder, k, l) <=>
                     Before(order, k, l) /\ k \in Live /\ l \in Live
  BY <1>2, RetainProperties DEF LiveOrder
<1> QED
  BY <1>1, <1>4, <1>6, <1>7, <1>8 DEF LiveEntries

(* A new entry is well formed whatever the clock says. *)
LEMMA NewEntryType ==
  ASSUME now \in 0 .. MaxInstant, NEW v \in Values
  PROVE  NewEntry(v) \in Entry
BY CacheAssumption DEF NewEntry, ExpiresAt, Entry

(* A state whose map and queue hold the same keys, within capacity. *)
LEMMA CacheInvIntro ==
  ASSUME now' \in 0 .. MaxInstant,
         NEW K \in SUBSET Keys, IsFiniteSet(K), Cardinality(K) <= Capacity,
         DOMAIN entries' = K,
         entries' = [k \in K |-> entries'[k]],
         \A k \in K : entries'[k] \in Entry,
         order' \in Seq(Keys), Distinct(order'), Ranks(order') = K
  PROVE  CacheInv'
BY DEF CacheInv, CacheTypeOK, OrderMatchesEntries, Bounded, Cached, Distinct

(* The empty cache satisfies the invariant. *)
LEMMA CacheInvInit == CacheInit => CacheInv
<1> SUFFICES ASSUME CacheInit PROVE CacheInv
  OBVIOUS
<1>1. /\ now \in 0 .. MaxInstant
      /\ order = <<>> /\ entries = <<>>
  BY CacheAssumption DEF CacheInit
<1>2. Cached = {}
  BY <1>1 DEF Cached
<1>3. Len(order) = 0 /\ order \in Seq(Keys)
  BY <1>1
<1>4. Ranks(order) = {}
  BY <1>3 DEF Ranks
<1>5. entries = [k \in Cached |-> entries[k]]
  BY <1>1, <1>2
<1>6. Cardinality(Cached) <= Capacity
  BY <1>2, FS_EmptySet, CacheAssumption
<1> QED
  BY <1>1, <1>2, <1>3, <1>4, <1>5, <1>6
  DEF CacheInv, CacheTypeOK, OrderMatchesEntries, Bounded

(* get reclaims and moves one key, both within the invariant. *)
LEMMA GetInv ==
  ASSUME CacheInv, NEW k \in Keys, Get(k)
  PROVE  CacheInv'
<1>1. now' \in 0 .. MaxInstant
  BY DEF CacheInv, CacheTypeOK, Get
<1>2. entries' = LiveEntries
  BY DEF Get
<1>3. order' \in Seq(Keys) /\ Distinct(order') /\ Ranks(order') = Live
  BY LiveProperties, MoveToBackProperties DEF Get
<1>4. Live \in SUBSET Keys
  BY LiveProperties DEF CacheInv, CacheTypeOK
<1> QED
  BY <1>1, <1>2, <1>3, <1>4, LiveProperties, CacheInvIntro DEF LiveEntries

(* len reclaims and changes nothing else. *)
LEMMA CountInv ==
  ASSUME CacheInv, Count
  PROVE  CacheInv'
<1>1. now' \in 0 .. MaxInstant /\ entries' = LiveEntries /\ order' = LiveOrder
  BY DEF CacheInv, CacheTypeOK, Count
<1>2. Live \in SUBSET Keys
  BY LiveProperties DEF CacheInv, CacheTypeOK
<1> QED
  BY <1>1, <1>2, LiveProperties, CacheInvIntro DEF LiveEntries

(* Replacing the value of a readable key keeps map and queue in step. *)
LEMMA OverwriteInv ==
  ASSUME CacheInv, NEW k \in Keys, NEW v \in Values, Overwrite(k, v),
         UNCHANGED now
  PROVE  CacheInv'
<1>1. now' \in 0 .. MaxInstant /\ NewEntry(v) \in Entry
  BY NewEntryType DEF CacheInv, CacheTypeOK
<1>2. k \in Live /\ entries' = [LiveEntries EXCEPT ![k] = NewEntry(v)]
  BY DEF Overwrite
<1>3. /\ DOMAIN entries' = Live
      /\ entries' = [x \in Live |-> entries'[x]]
      /\ \A x \in Live : entries'[x] \in Entry
  BY <1>1, <1>2, LiveProperties DEF LiveEntries
<1>4. order' \in Seq(Keys) /\ Distinct(order') /\ Ranks(order') = Live
  BY <1>2, LiveProperties, MoveToBackProperties DEF Overwrite
<1>5. Live \in SUBSET Keys
  BY LiveProperties DEF CacheInv, CacheTypeOK
<1> QED
  BY <1>1, <1>3, <1>4, <1>5, LiveProperties, CacheInvIntro

(* Who had to go for those of stay to remain: nobody while there is room,  *)
(* otherwise the front of the queue.                                       *)
RoomMade(stay) ==
  \/ stay = Live /\ Cardinality(Live) < Capacity
  \/ /\ Cardinality(Live) = Capacity
     /\ \E victim \in Live :
          /\ stay = Live \ {victim}
          /\ \A other \in Live \ {victim} : Before(LiveOrder, victim, other)

(* What the loop of insert leaves. *)
LEMMA InsertNewProperties ==
  ASSUME CacheInv, NEW k \in Keys, NEW v \in Values, InsertNew(k, v)
  PROVE  \E stay \in SUBSET Live :
           /\ k \notin stay
           /\ entries' = [x \in stay \cup {k} |->
                            IF x = k THEN NewEntry(v) ELSE entries[x]]
           /\ order' \in Seq(Keys) /\ Distinct(order')
           /\ Ranks(order') = stay \cup {k}
           /\ \A x, y : Before(order', x, y) <=>
                 /\ x \in stay
                 /\ y = k \/ (y # k /\ Before(LiveOrder, x, y))
           /\ Cardinality(stay \cup {k}) <= Capacity
           /\ RoomMade(stay)
<1> DEFINE n == Evicted(LiveOrder, LiveEntries)
           gone == {LiveOrder[i] : i \in 1 .. n}
           stay == Live \ gone
<1>1. /\ ~Disabled /\ k \notin Live
      /\ entries' = [x \in stay \cup {k} |->
                       IF x = k THEN NewEntry(v) ELSE entries[x]]
      /\ order' = Append(SubSeq(LiveOrder, n + 1, Len(LiveOrder)), k)
  BY DEF InsertNew
<1>2. Capacity \in Nat \ {0}
  BY <1>1, CacheAssumption DEF Disabled
<1>3. /\ IsFiniteSet(Live) /\ Cardinality(Live) <= Capacity
      /\ DOMAIN LiveEntries = Ranks(LiveOrder)
      /\ LiveOrder \in Seq(Keys) /\ Distinct(LiveOrder)
      /\ Ranks(LiveOrder) = Live
  BY LiveProperties
<1>4. Cardinality(Live) \in Nat
  BY <1>3, FS_CardinalityType
<1>5. /\ n \in 0 .. Len(LiveOrder)
      /\ n = IF Cardinality(Live) < Capacity THEN 0 ELSE 1
  BY <1>2, <1>3, EvictedProperties
<1> HIDE DEF n
<1>6. /\ order' \in Seq(Keys)
      /\ Distinct(order')
      /\ Ranks(order') = stay \cup {k}
      /\ \A x, y : Before(order', x, y) <=>
            /\ x \in stay
            /\ y = k \/ (y # k /\ Before(LiveOrder, x, y))
  BY ZenonT(60), <1>1, <1>3, <1>5, PopAndPushProperties
<1>7. CASE Cardinality(Live) < Capacity
  <2>1. gone = {}
    BY <1>5, <1>7
  <2>2. stay = Live
    BY <2>1
  <2>3. Cardinality(Live \cup {k}) <= Capacity
    <3>1. Cardinality(Live \cup {k}) = Cardinality(Live) + 1
      BY <1>1, <1>3, FS_AddElement
    <3> HIDE DEF gone
    <3> QED
      BY <3>1, <1>2, <1>4, <1>7
  <2> HIDE DEF gone
  <2> QED
    BY <2>2, <2>3, <1>1, <1>6, <1>7 DEF RoomMade
<1>8. CASE ~ (Cardinality(Live) < Capacity)
  <2>1. Cardinality(Live) = Capacity
    BY <1>2, <1>3, <1>4, <1>8
  <2>2. n = 1 /\ 1 \in 1 .. Len(LiveOrder)
    BY <1>5, <1>8, <1>3, LenProperties
  <2> DEFINE victim == LiveOrder[1]
  <2>3. gone = {victim}
    BY <2>2
  <2>4. stay = Live \ {victim}
    BY <2>3
  <2>5. victim \in Live
    BY <2>2, <1>3 DEF Ranks
  <2>6. Cardinality(Live \ {victim}) = Capacity - 1 /\ IsFiniteSet(Live \ {victim})
    BY <2>1, <2>5, <1>3, FS_RemoveElement
  <2> HIDE DEF gone, victim
  <2>7. Cardinality((Live \ {victim}) \cup {k}) <= Capacity
    <3>1. Cardinality((Live \ {victim}) \cup {k}) = Cardinality(Live \ {victim}) + 1
      BY <2>6, <1>1, FS_AddElement
    <3> QED
      BY <3>1, <2>6, <1>2
  <2> USE DEF victim
  <2>8. \A other \in Live \ {victim} : Before(LiveOrder, victim, other)
    <3> TAKE other \in Live \ {victim}
    <3>1. PICK j \in 1 .. Len(LiveOrder) : LiveOrder[j] = other
      BY <1>3 DEF Ranks
    <3>2. 1 < j
      BY <3>1, <2>2, <1>3, LenProperties
    <3> QED
      BY <3>1, <3>2, <2>2 DEF Before
  <2> HIDE DEF gone, victim
  <2> QED
    BY <2>1, <2>4, <2>5, <2>7, <2>8, <1>1, <1>6 DEF RoomMade
<1> QED
  BY <1>7, <1>8

(* Filing a new key after making room keeps them in step and in bounds. *)
LEMMA InsertNewInv ==
  ASSUME CacheInv, NEW k \in Keys, NEW v \in Values, InsertNew(k, v),
         UNCHANGED now
  PROVE  CacheInv'
<1>1. now' \in 0 .. MaxInstant /\ NewEntry(v) \in Entry
  BY NewEntryType DEF CacheInv, CacheTypeOK
<1>2. PICK stay \in SUBSET Live :
        /\ entries' = [x \in stay \cup {k} |->
                         IF x = k THEN NewEntry(v) ELSE entries[x]]
        /\ order' \in Seq(Keys) /\ Distinct(order')
        /\ Ranks(order') = stay \cup {k}
        /\ Cardinality(stay \cup {k}) <= Capacity
  BY InsertNewProperties
<1>3. IsFiniteSet(stay \cup {k})
  BY LiveProperties, FS_Subset, FS_AddElement
<1>4. stay \cup {k} \in SUBSET Keys
  BY LiveProperties DEF CacheInv, CacheTypeOK
<1>5. /\ DOMAIN entries' = stay \cup {k}
      /\ entries' = [x \in stay \cup {k} |-> entries'[x]]
      /\ \A x \in stay \cup {k} : entries'[x] \in Entry
  BY <1>1, <1>2, LiveProperties
<1> QED
  BY <1>1, <1>2, <1>3, <1>4, <1>5, CacheInvIntro

(* clear leaves the empty cache. *)
LEMMA ClearInv ==
  ASSUME CacheInv, Clear
  PROVE  CacheInv'
<1>1. now' \in 0 .. MaxInstant /\ entries' = <<>> /\ order' = <<>>
  BY DEF CacheInv, CacheTypeOK, Clear
<1>2. /\ DOMAIN entries' = {}
      /\ entries' = [x \in {} |-> entries'[x]]
      /\ Len(order') = 0 /\ order' \in Seq(Keys)
  BY <1>1
<1>3. Ranks(order') = {} /\ Distinct(order')
  BY <1>2 DEF Ranks, Distinct
<1>4. IsFiniteSet({}) /\ Cardinality({}) <= Capacity
  BY FS_EmptySet, CacheAssumption
<1> QED
  BY <1>1, <1>2, <1>3, <1>4, CacheInvIntro

(* The invariant is kept by every operation and by the clock. *)
LEMMA CacheInvStep ==
  ASSUME CacheInv, [CacheNext]_cacheVars
  PROVE  CacheInv'
<1>1. ASSUME NEW k \in Keys, Get(k) PROVE CacheInv'
  BY <1>1, GetInv
<1>2. ASSUME NEW k \in Keys, NEW v \in Values, Insert(k, v) PROVE CacheInv'
  <2>1. CASE Overwrite(k, v)
    BY <2>1, <1>2, OverwriteInv DEF Insert
  <2>2. CASE InsertNew(k, v)
    BY <2>2, <1>2, InsertNewInv DEF Insert
  <2>3. CASE InsertIgnored
    BY <2>3, <1>2 DEF Insert, InsertIgnored, CacheInv, CacheTypeOK,
         OrderMatchesEntries, Bounded, Cached
  <2> QED
    BY <2>1, <2>2, <2>3, <1>2 DEF Insert
<1>3. CASE Count
  BY <1>3, CountInv
<1>4. CASE Clear
  BY <1>4, ClearInv
<1>5. CASE Tick
  BY <1>5, CacheAssumption DEF Tick, CacheInv, CacheTypeOK,
       OrderMatchesEntries, Bounded, Cached
<1>6. CASE UNCHANGED cacheVars
  BY <1>6 DEF cacheVars, CacheInv, CacheTypeOK, OrderMatchesEntries,
       Bounded, Cached
<1> QED
  BY <1>1, <1>2, <1>3, <1>4, <1>5, <1>6 DEF CacheNext

(* The invariant holds throughout. *)
THEOREM CacheInvariant == CacheSpec => []CacheInv
<1>1. CacheInv /\ [CacheNext]_cacheVars => CacheInv'
  BY CacheInvStep
<1> QED
  BY <1>1, CacheInvInit, PTL DEF CacheSpec

(* The state of src/src/cache.rs is always well formed. *)
THEOREM CacheTypeCorrect == CacheSpec => []CacheTypeOK
<1>1. CacheInv => CacheTypeOK
  BY DEF CacheInv
<1> QED
  BY <1>1, CacheInvariant, PTL

(* Map and queue agree after every operation, for any capacity and ttl. *)
THEOREM OrderAlwaysMatchesEntries == CacheSpec => []OrderMatchesEntries
<1>1. CacheInv => OrderMatchesEntries
  BY DEF CacheInv
<1> QED
  BY <1>1, CacheInvariant, PTL

(* The cache never holds more entries than its capacity. *)
THEOREM CacheAlwaysBounded == CacheSpec => []Bounded
<1>1. CacheInv => Bounded
  BY DEF CacheInv
<1> QED
  BY <1>1, CacheInvariant, PTL

-----------------------------------------------------------------------------
(* The recency of LruCache in the terms of the lemmas about queues. *)
LEMMA RecencyIsBefore ==
  ASSUME NEW x, NEW y
  PROVE  <<x, y>> \in LiveRecency <=> x \in Live /\ y \in Live /\ Before(order, x, y)
BY DEF LiveRecency, Before


(* One step loses a readable value for a reason insert or clear can give. *)
LEMMA LiveLossStep ==
  ASSUME CacheInv, [CacheNext]_cacheVars,
         NEW k \in Live \ DOMAIN entries'
  PROVE  \/ entries' = <<>>
         \/ /\ Cardinality(Live) = Capacity
            /\ DOMAIN entries' \ Live # {}
            /\ \A other \in Live \ {k} : <<k, other>> \in LiveRecency
<1>1. /\ Live \in SUBSET Cached
      /\ DOMAIN LiveEntries = Live
      /\ \A x, y : Before(LiveOrder, x, y) =>
            Before(order, x, y) /\ x \in Live /\ y \in Live
  BY LiveProperties
<1>2. entries' # entries /\ entries' # LiveEntries
  BY <1>1 DEF Cached
<1>3. CASE Clear
  BY <1>3 DEF Clear
<1>4. ASSUME NEW key \in Keys, NEW v \in Values, InsertNew(key, v)
      PROVE  /\ Cardinality(Live) = Capacity
             /\ DOMAIN entries' \ Live # {}
             /\ \A other \in Live \ {k} : <<k, other>> \in LiveRecency
  <2>1. PICK stay \in SUBSET Live :
          /\ key \notin stay
          /\ entries' = [x \in stay \cup {key} |->
                           IF x = key THEN NewEntry(v) ELSE entries[x]]
          /\ order' \in Seq(Keys) /\ Distinct(order')
          /\ Ranks(order') = stay \cup {key}
          /\ \A x, y : Before(order', x, y) <=>
                /\ x \in stay
                /\ y = key \/ (y # key /\ Before(LiveOrder, x, y))
          /\ Cardinality(stay \cup {key}) <= Capacity
          /\ RoomMade(stay)
    BY <1>4, InsertNewProperties
  <2>2. DOMAIN entries' = stay \cup {key} /\ key \notin Live
    BY <2>1, <1>4 DEF InsertNew
  <2>3. stay # Live
    BY <2>2
  <2>4. PICK victim \in Live :
          /\ Cardinality(Live) = Capacity
          /\ stay = Live \ {victim}
          /\ \A other \in Live \ {victim} : Before(LiveOrder, victim, other)
    BY <2>1, <2>3 DEF RoomMade
  <2>5. victim = k
    BY <2>2, <2>4
  <2>6. \A other \in Live \ {k} : <<k, other>> \in LiveRecency
    BY <2>4, <2>5, <1>1, RecencyIsBefore
  <2> QED
    BY <2>2, <2>4, <2>6
<1>5. ASSUME NEW key \in Keys, NEW v \in Values, Overwrite(key, v)
      PROVE  FALSE
  <2>1. entries' = [LiveEntries EXCEPT ![key] = NewEntry(v)]
    BY <1>5 DEF Overwrite
  <2> QED
    BY <2>1, <1>1
<1>6. Clear \/ \E key \in Keys, v \in Values : InsertNew(key, v)
  BY <1>2, <1>5 DEF CacheNext, Get, Insert, InsertIgnored, Count, Tick, cacheVars
<1> QED
  BY <1>3, <1>4, <1>6

(* For every capacity and ttl, a readable value is lost only to clear, or  *)
(* as the least recently used of Capacity readable values when a new key   *)
(* arrives: what has expired is reclaimed before anything live is evicted. *)
THEOREM OnlyLeastRecentEvicted == CacheSpec => LiveLossJustified
<1>1. CacheInv /\ [CacheNext]_cacheVars =>
        [ \A k \in Live \ DOMAIN entries' :
            \/ entries' = <<>>
            \/ /\ Cardinality(Live) = Capacity
               /\ DOMAIN entries' \ Live # {}
               /\ \A other \in Live \ {k} : <<k, other>> \in LiveRecency ]_cacheVars
  BY LiveLossStep
<1> QED
  BY <1>1, CacheInvariant, PTL DEF CacheSpec, LiveLossJustified

-----------------------------------------------------------------------------
(* TtlCache implements LruCache: the lazy cache of src/src/cache.rs answers *)
(* as an eager one would, in which an expired value never is.               *)

(* RecencyIsBefore, after a step. *)
LEMMA RecencyIsBeforeNext ==
  ASSUME NEW x, NEW y
  PROVE  <<x, y>> \in LiveRecency' <=>
           x \in Live' /\ y \in Live' /\ Before(order', x, y)
BY DEF LiveRecency, Before

(* Two relations on a set are equal when they relate the same pairs. *)
LEMMA SamePairs ==
  \A S : \A A, B \in SUBSET (S \X S) :
    (\A x, y \in S : <<x, y>> \in A <=> <<x, y>> \in B) => A = B
<1> SUFFICES ASSUME NEW S, NEW A \in SUBSET (S \X S), NEW B \in SUBSET (S \X S),
                    \A x, y \in S : <<x, y>> \in A <=> <<x, y>> \in B
             PROVE  A = B
  OBVIOUS
<1>1. \A p \in S \X S : p \in A <=> p \in B
  <2> TAKE p \in S \X S
  <2>1. PICK x \in S, y \in S : p = <<x, y>>
    OBVIOUS
  <2> QED
    BY <2>1
<1> QED
  BY <1>1

(* Both modules count with the same definition of Cardinality. *)
LEMMA SameCardinality == \A S : Abs!Cardinality(S) = Cardinality(S)
BY DEF Cardinality, IsFiniteSet, Abs!Cardinality, Abs!IsFiniteSet

(* Recency relates readable keys only, before a step and after it. *)
LEMMA RecencyTypes ==
  LiveRecency \in SUBSET (Live \X Live) /\ LiveRecency' \in SUBSET (Live' \X Live')
BY DEF LiveRecency

(* An operation that files nothing leaves the readable values alone. *)
LEMMA LiveAfterReclaim ==
  ASSUME CacheInv, entries' = LiveEntries, UNCHANGED now
  PROVE  Live' = Live /\ LiveEntries' = LiveEntries
<1>1. DOMAIN LiveEntries = Live /\ \A k \in Live : LiveEntries[k] = entries[k]
  BY LiveProperties
<1>2. Cached' = Live
  BY <1>1 DEF Cached
<1>3. Live' = Live
  BY <1>1, <1>2 DEF Live
<1> QED
  BY <1>1, <1>3 DEF LiveEntries

(* get, a hit or a miss, is the eager get. *)
LEMMA GetRefines ==
  ASSUME CacheInv, NEW k \in Keys, Get(k)
  PROVE  Abs!Get(k)
<1>1. Live' = Live /\ LiveEntries' = LiveEntries /\ now' = now
  BY LiveAfterReclaim DEF Get
<1>2. Abs!Stored = Live
  BY LiveProperties DEF Abs!Stored
<1>3. CASE k \in Live
  <2>1. reply' = LiveEntries[k].value
    BY <1>3, LiveProperties DEF Get
  <2>2. \A x, y : Before(order', x, y) <=>
           /\ x \in Live \ {k}
           /\ y = k \/ (y # k /\ Before(LiveOrder, x, y))
    BY <1>3, LiveProperties, MoveToBackProperties DEF Get
  <2>3. LiveRecency' = Abs!UsedLast(Live, k)
    <3>1. Abs!UsedLast(Live, k) \in SUBSET (Live \X Live)
      BY <1>3 DEF Abs!UsedLast, Abs!Among
    <3>2. \A x, y \in Live : <<x, y>> \in Abs!UsedLast(Live, k) <=>
            /\ x # k
            /\ y = k \/ (y # k /\ <<x, y>> \in LiveRecency)
      BY <1>3 DEF Abs!UsedLast, Abs!Among
    <3>3. \A x, y \in Live : <<x, y>> \in LiveRecency' <=>
            /\ x # k
            /\ y = k \/ (y # k /\ <<x, y>> \in LiveRecency)
      BY <1>1, <2>2, LiveProperties, RecencyIsBefore, RecencyIsBeforeNext
    <3> QED
      BY <3>1, <3>2, <3>3, <1>1, RecencyTypes, SamePairs
  <2> QED
    BY <1>1, <1>2, <1>3, <2>1, <2>3 DEF Abs!Get
<1>4. CASE k \notin Live
  <2>1. reply' = NoValue /\ order' = LiveOrder
    BY <1>4 DEF Get
  <2>2. LiveRecency' = LiveRecency
    <3>1. \A x, y \in Live : <<x, y>> \in LiveRecency' <=> <<x, y>> \in LiveRecency
      BY <1>1, <2>1, LiveProperties, RecencyIsBefore, RecencyIsBeforeNext
    <3> QED
      BY <3>1, <1>1, RecencyTypes, SamePairs
  <2> QED
    BY <1>1, <1>2, <1>4, <2>1, <2>2 DEF Abs!Get
<1> QED
  BY <1>3, <1>4

(* len counts what the eager store holds. *)
LEMMA CountRefines ==
  ASSUME CacheInv, Count
  PROVE  Abs!Count
<1>1. /\ Live' = Live /\ LiveEntries' = LiveEntries /\ now' = now
      /\ order' = LiveOrder /\ reply' = [count |-> Cardinality(Live)]
  BY LiveAfterReclaim DEF Count
<1>2. Abs!Stored = Live
  BY LiveProperties DEF Abs!Stored
<1>3. \A x, y \in Live : <<x, y>> \in LiveRecency' <=> <<x, y>> \in LiveRecency
  BY <1>1, LiveProperties, RecencyIsBefore, RecencyIsBeforeNext
<1>4. LiveRecency' = LiveRecency
  BY <1>1, <1>3, RecencyTypes, SamePairs
<1> QED
  BY <1>1, <1>2, <1>4, SameCardinality DEF Abs!Count

(* Filing v under k beside the keys of K, in both caches. *)
LEMMA PutRefines ==
  ASSUME CacheInv, ~Disabled, UNCHANGED now,
         NEW k \in Keys, NEW v \in Values, NEW K \in SUBSET Live,
         entries' = [x \in K \cup {k} |->
                       IF x = k THEN NewEntry(v) ELSE entries[x]],
         \A x, y : Before(order', x, y) <=>
           /\ x \in K \ {k}
           /\ y = k \/ (y # k /\ Before(LiveOrder, x, y))
  PROVE  Abs!PutAmong(K, k, v)
<1>1. /\ Cached' = K \cup {k}
      /\ entries'[k] = NewEntry(v)
      /\ \A x \in K \ {k} : entries'[x] = entries[x]
  BY DEF Cached
<1>2. \A x \in K : entries[x].expires_at > now /\ LiveEntries[x] = entries[x]
  BY LiveProperties DEF Live
<1>3. now \in Nat /\ Ttl \in Nat \ {0} /\ MaxInstant \in Nat
  BY CacheAssumption DEF CacheInv, CacheTypeOK, Disabled
<1>4. \A x, y \in K \ {k} : <<x, y>> \in LiveRecency <=> Before(LiveOrder, x, y)
  BY RecencyIsBefore, LiveProperties
<1>5. CASE Abs!Outlives
  <2>1. NewEntry(v) = [value |-> v, expires_at |-> now + Ttl]
    BY <1>5 DEF NewEntry, ExpiresAt, Abs!Outlives
  <2>2. NewEntry(v).expires_at > now
    BY <2>1, <1>3
  <2>3. Live' = K \cup {k}
    BY <1>1, <1>2, <2>2 DEF Live
  <2>4. LiveEntries' = [x \in K \cup {k} |->
                          IF x = k THEN [value |-> v, expires_at |-> now + Ttl]
                          ELSE LiveEntries[x]]
    BY <1>1, <1>2, <2>1, <2>3 DEF LiveEntries
  <2>5. LiveRecency' = Abs!UsedLast(K \cup {k}, k)
    <3> DEFINE S == K \cup {k}
    <3>1. /\ Abs!UsedLast(S, k) \in SUBSET (S \X S)
          /\ LiveRecency' \in SUBSET (S \X S)
      BY <2>3, RecencyTypes DEF Abs!UsedLast, Abs!Among
    <3>2. \A x, y \in S : <<x, y>> \in Abs!UsedLast(S, k) <=>
            /\ x # k
            /\ y = k \/ (y # k /\ <<x, y>> \in LiveRecency)
      BY DEF Abs!UsedLast, Abs!Among
    <3>3. \A x, y \in S : <<x, y>> \in LiveRecency' <=>
            /\ x # k
            /\ y = k \/ (y # k /\ <<x, y>> \in LiveRecency)
      BY <2>3, <1>4, RecencyIsBeforeNext
    <3>4. \A x, y \in S :
            <<x, y>> \in LiveRecency' <=> <<x, y>> \in Abs!UsedLast(S, k)
      BY <3>2, <3>3
    <3> HIDE DEF S
    <3>5. LiveRecency' = Abs!UsedLast(S, k)
      <4>1. SUFFICES ASSUME NEW A, A = LiveRecency', NEW B, B = Abs!UsedLast(S, k)
                     PROVE  A = B
        OBVIOUS
      <4>2. A \in SUBSET (S \X S) /\ B \in SUBSET (S \X S)
        BY <3>1, <4>1
      <4>3. \A x, y \in S : <<x, y>> \in A <=> <<x, y>> \in B
        BY <3>4, <4>1
      <4> QED
        BY ONLY <4>2, <4>3, SamePairs, Zenon
    <3> QED
      BY <3>5 DEF S
  <2> QED
    BY <1>5, <2>4, <2>5 DEF Abs!PutAmong
<1>6. CASE ~Abs!Outlives
  <2>1. NewEntry(v).expires_at = now
    BY <1>6 DEF NewEntry, ExpiresAt, Abs!Outlives
  <2>2. ~ (NewEntry(v).expires_at > now)
    BY <2>1, <1>3
  <2>3. Live' = K \ {k}
    BY <1>1, <1>2, <2>2 DEF Live
  <2>4. LiveEntries' = [x \in K \ {k} |->
                          IF x = k THEN [value |-> v, expires_at |-> now + Ttl]
                          ELSE LiveEntries[x]]
    BY <1>1, <1>2, <2>3 DEF LiveEntries
  <2>5. LiveRecency' = Abs!Among(K \ {k})
    <3> DEFINE S == K \ {k}
    <3>1. /\ Abs!Among(S) \in SUBSET (S \X S)
          /\ LiveRecency' \in SUBSET (S \X S)
      BY <2>3, RecencyTypes DEF Abs!Among
    <3>2. \A x, y \in S : <<x, y>> \in Abs!Among(S) <=> <<x, y>> \in LiveRecency
      BY DEF Abs!Among
    <3>3. \A x, y \in S : <<x, y>> \in LiveRecency' <=> <<x, y>> \in LiveRecency
      BY <2>3, <1>4, RecencyIsBeforeNext
    <3>4. \A x, y \in S : <<x, y>> \in LiveRecency' <=> <<x, y>> \in Abs!Among(S)
      BY <3>2, <3>3
    <3> HIDE DEF S
    <3>5. LiveRecency' = Abs!Among(S)
      <4>1. SUFFICES ASSUME NEW A, A = LiveRecency', NEW B, B = Abs!Among(S)
                     PROVE  A = B
        OBVIOUS
      <4>2. A \in SUBSET (S \X S) /\ B \in SUBSET (S \X S)
        BY <3>1, <4>1
      <4>3. \A x, y \in S : <<x, y>> \in A <=> <<x, y>> \in B
        BY <3>4, <4>1
      <4> QED
        BY ONLY <4>2, <4>3, SamePairs, Zenon
    <3> QED
      BY <3>5 DEF S
  <2> QED
    BY <1>6, <2>4, <2>5 DEF Abs!PutAmong
<1> QED
  BY <1>5, <1>6

(* insert, in each of its three cases, is the eager insert. *)
LEMMA InsertRefines ==
  ASSUME CacheInv, NEW k \in Keys, NEW v \in Values, Insert(k, v)
  PROVE  Abs!Insert(k, v)
<1>1. reply' = NoValue /\ UNCHANGED now
  BY DEF Insert
<1>2. Abs!Stored = Live
  BY LiveProperties DEF Abs!Stored
<1>3. CASE Overwrite(k, v)
  <2>1. ~Disabled /\ k \in Live
    BY <1>3 DEF Overwrite
  <2>2. entries' = [x \in Live \cup {k} |->
                      IF x = k THEN NewEntry(v) ELSE entries[x]]
    BY <1>3, <2>1 DEF Overwrite, LiveEntries
  <2>3. \A x, y : Before(order', x, y) <=>
           /\ x \in Live \ {k}
           /\ y = k \/ (y # k /\ Before(LiveOrder, x, y))
    BY <1>3, <2>1, LiveProperties, MoveToBackProperties DEF Overwrite
  <2>4. Abs!PutAmong(Live, k, v)
    BY <1>1, <2>1, <2>2, <2>3, PutRefines
  <2> QED
    BY <1>1, <1>2, <2>1, <2>4, CacheAssumption DEF Abs!Insert, Disabled
<1>4. CASE InsertNew(k, v)
  <2>1. ~Disabled /\ k \notin Live
    BY <1>4 DEF InsertNew
  <2>2. PICK stay \in SUBSET Live :
          /\ k \notin stay
          /\ entries' = [x \in stay \cup {k} |->
                           IF x = k THEN NewEntry(v) ELSE entries[x]]
          /\ order' \in Seq(Keys) /\ Distinct(order')
          /\ Ranks(order') = stay \cup {k}
          /\ \A x, y : Before(order', x, y) <=>
                /\ x \in stay
                /\ y = k \/ (y # k /\ Before(LiveOrder, x, y))
          /\ Cardinality(stay \cup {k}) <= Capacity
          /\ RoomMade(stay)
    BY <1>4, InsertNewProperties
  <2>3. stay \ {k} = stay
    BY <2>2
  <2>4. Abs!PutAmong(stay, k, v)
    BY <1>1, <2>1, <2>2, <2>3, PutRefines
  <2>5. Capacity > 0 /\ Ttl > 0
    BY <2>1, CacheAssumption DEF Disabled
  <2>6. CASE stay = Live /\ Cardinality(Live) < Capacity
    BY <2>4, <2>5, <2>6, <1>1, <1>2, SameCardinality DEF Abs!Insert
  <2>7. CASE Cardinality(Live) = Capacity /\ \E victim \in Live :
                 /\ stay = Live \ {victim}
                 /\ \A other \in Live \ {victim} :
                       Before(LiveOrder, victim, other)
    <3>1. PICK victim \in Live :
             /\ stay = Live \ {victim}
             /\ \A other \in Live \ {victim} : Before(LiveOrder, victim, other)
      BY <2>7
    <3>2. Abs!LeastRecent(victim)
      BY <3>1, <1>2, LiveProperties, RecencyIsBefore DEF Abs!LeastRecent
    <3> QED
      BY <2>1, <2>4, <2>5, <2>7, <3>1, <3>2, <1>1, <1>2, SameCardinality
      DEF Abs!Insert
  <2> QED
    BY <2>2, <2>6, <2>7 DEF RoomMade
<1>5. CASE InsertIgnored
  <2>1. UNCHANGED <<LiveEntries, LiveRecency>>
    BY <1>1, <1>5 DEF InsertIgnored, LiveEntries, LiveRecency, Live, Cached
  <2> QED
    BY <2>1, <1>1, <1>5 DEF InsertIgnored, Disabled, Abs!Insert
<1> QED
  BY <1>3, <1>4, <1>5 DEF Insert

(* clear is the eager clear. *)
LEMMA ClearRefines ==
  ASSUME CacheInv, Clear
  PROVE  Abs!Clear
<1>1. entries' = <<>> /\ order' = <<>> /\ reply' = NoValue /\ now' = now
  BY DEF Clear
<1>2. Live' = {}
  BY <1>1 DEF Live, Cached
<1>3. LiveEntries' = <<>>
  BY <1>2 DEF LiveEntries
<1>4. LiveRecency' = {}
  BY <1>2 DEF LiveRecency
<1> QED
  BY <1>1, <1>3, <1>4 DEF Abs!Clear

(* As the clock moves, what expires leaves the eager store. *)
LEMMA TickRefines ==
  ASSUME CacheInv, Tick
  PROVE  Abs!Tick
<1>1. /\ now < MaxInstant /\ now' = now + 1
      /\ UNCHANGED <<entries, order, reply>>
  BY DEF Tick
<1>2. now \in Nat
  BY CacheAssumption DEF CacheInv, CacheTypeOK
<1>3. \A k \in Cached : entries[k].expires_at \in Int
  BY CacheAssumption DEF CacheInv, CacheTypeOK, Entry
<1> DEFINE alive == {k \in Live : LiveEntries[k].expires_at > now'}
<1>4. \A k \in Live : LiveEntries[k] = entries[k]
  BY LiveProperties
<1>5. Live' = alive
  BY <1>1, <1>2, <1>3, <1>4 DEF Live, Cached
<1>6. LiveEntries' = [k \in alive |-> LiveEntries[k]]
  BY <1>1, <1>4, <1>5 DEF LiveEntries
<1>7. LiveRecency' = Abs!Among(alive)
  <2>1. \A x, y \in alive : <<x, y>> \in LiveRecency' <=> <<x, y>> \in LiveRecency
    BY <1>1, <1>5, RecencyIsBefore, RecencyIsBeforeNext
  <2>2. LiveRecency' \in SUBSET (alive \X alive)
    BY <1>5, RecencyTypes
  <2> HIDE DEF alive
  <2>3. /\ Abs!Among(alive) \in SUBSET (alive \X alive)
        /\ \A x, y \in alive :
             <<x, y>> \in Abs!Among(alive) <=> <<x, y>> \in LiveRecency
    BY DEF Abs!Among
  <2>4. \A x, y \in alive : <<x, y>> \in LiveRecency' <=> <<x, y>> \in Abs!Among(alive)
    BY <2>1, <2>3
  <2>5. SUFFICES ASSUME NEW A, A = LiveRecency', NEW B, B = Abs!Among(alive)
                 PROVE  A = B
    OBVIOUS
  <2>6. A \in SUBSET (alive \X alive) /\ B \in SUBSET (alive \X alive)
    BY <2>2, <2>3, <2>5
  <2>7. \A x, y \in alive : <<x, y>> \in A <=> <<x, y>> \in B
    BY <2>4, <2>5
  <2> QED
    BY ONLY <2>6, <2>7, SamePairs, Zenon
<1>8. Abs!Stored = Live
  BY LiveProperties DEF Abs!Stored
<1> QED
  BY <1>1, <1>6, <1>7, <1>8 DEF Abs!Tick

(* Every step of the lazy cache is a step of the eager one, or none. *)
LEMMA NextRefines ==
  ASSUME CacheInv, [CacheNext]_cacheVars
  PROVE  [Abs!Next]_(Abs!vars)
<1>1. ASSUME NEW k \in Keys, Get(k) PROVE Abs!Next
  BY <1>1, GetRefines DEF Abs!Next
<1>2. ASSUME NEW k \in Keys, NEW v \in Values, Insert(k, v) PROVE Abs!Next
  BY <1>2, InsertRefines DEF Abs!Next
<1>3. CASE Count
  BY <1>3, CountRefines DEF Abs!Next
<1>4. CASE Clear
  BY <1>4, ClearRefines DEF Abs!Next
<1>5. CASE Tick
  BY <1>5, TickRefines DEF Abs!Next
<1>6. CASE UNCHANGED cacheVars
  BY <1>6 DEF cacheVars, Abs!vars, LiveEntries, LiveRecency, Live, Cached
<1> QED
  BY <1>1, <1>2, <1>3, <1>4, <1>5, <1>6 DEF CacheNext

(* The empty cache shows the empty eager store. *)
LEMMA InitRefines == CacheInit => Abs!Init
<1> SUFFICES ASSUME CacheInit PROVE Abs!Init
  OBVIOUS
<1>1. now = 0 /\ entries = <<>> /\ reply = NoValue
  BY DEF CacheInit
<1>2. Live = {}
  BY <1>1 DEF Live, Cached
<1>3. LiveEntries = <<>> /\ LiveRecency = {}
  BY <1>2 DEF LiveEntries, LiveRecency
<1> QED
  BY <1>1, <1>3 DEF Abs!Init

(* The cache of src/src/cache.rs, which reclaims expired entries only when *)
(* it is next used, keeps the promise of LruCache: no answer is older than *)
(* the ttl, only the least recently used readable value gives way to a new *)
(* one, and only when Capacity values are readable.                        *)
THEOREM LazyCacheImplementsEager == CacheSpec => ImplementsLruCache
<1>1. CacheInv /\ [CacheNext]_cacheVars => [Abs!Next]_(Abs!vars)
  BY NextRefines
<1> QED
  BY <1>1, InitRefines, CacheInvariant, PTL
  DEF CacheSpec, ImplementsLruCache, Abs!Spec
=============================================================================
