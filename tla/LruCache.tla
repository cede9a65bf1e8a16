------------------------------ MODULE LruCache ------------------------------
(***************************************************************************)
(* What the response cache of darash promises (src/src/cache.rs), without  *)
(* saying how: a store of at most Capacity values, each readable for less  *)
(* than Ttl after it was inserted, from which only the least recently used *)
(* value is ever displaced, and only when every place is taken by a value  *)
(* that is still readable.                                                 *)
(*                                                                         *)
(* The promise is eager: a value leaves the store at the instant it        *)
(* expires. TtlCache, which reclaims lazily, is shown to implement it.     *)
(***************************************************************************)
EXTENDS Naturals, FiniteSets

CONSTANTS
  Keys,        \* what values are filed under
  Values,      \* what is stored
  NoValue,     \* the answer of a miss, and of operations that answer nothing
  Capacity,    \* places in the store; 0 disables it
  Ttl,         \* lifetime of a value; 0 disables the store
  MaxInstant   \* the last instant the clock can represent

VARIABLES
  now,         \* the monotonic clock
  store,       \* the readable values: key -> [value, expires_at]
  recency,     \* <<a, b>> : b was used after a
  reply        \* what the last operation returned

vars == <<now, store, recency, reply>>

Stored == DOMAIN store

(* The recency of the keys in K alone, and the same with k used last. *)
Among(K) == recency \cap (K \X K)
UsedLast(K, k) == Among(K \ {k}) \cup ((K \ {k}) \X {k})

(* A deadline the clock cannot represent has passed already. *)
Outlives == now + Ttl <= MaxInstant

Init ==
  /\ now = 0
  /\ store = <<>>
  /\ recency = {}
  /\ reply = NoValue

Get(k) ==
  /\ \/ /\ k \in Stored
        /\ reply' = store[k].value
        /\ recency' = UsedLast(Stored, k)
     \/ /\ k \notin Stored
        /\ reply' = NoValue
        /\ UNCHANGED recency
  /\ UNCHANGED <<now, store>>

(* The store after k -> v arrives and only the keys of K stay beside it. *)
PutAmong(K, k, v) ==
  LET kept == IF Outlives THEN K \cup {k} ELSE K \ {k} IN
  /\ store' = [x \in kept |-> IF x = k
                              THEN [value |-> v, expires_at |-> now + Ttl]
                              ELSE store[x]]
  /\ recency' = IF Outlives THEN UsedLast(kept, k) ELSE Among(kept)

LeastRecent(k) == \A other \in Stored \ {k} : <<k, other>> \in recency

Insert(k, v) ==
  /\ \/ /\ Capacity = 0 \/ Ttl = 0
        /\ UNCHANGED <<store, recency>>
     \/ /\ Capacity > 0 /\ Ttl > 0
        /\ k \in Stored \/ Cardinality(Stored) < Capacity
        /\ PutAmong(Stored, k, v)
     \/ /\ Capacity > 0 /\ Ttl > 0
        /\ k \notin Stored /\ Cardinality(Stored) = Capacity
        /\ \E victim \in Stored :
              LeastRecent(victim) /\ PutAmong(Stored \ {victim}, k, v)
  /\ reply' = NoValue
  /\ UNCHANGED now

Count ==
  /\ reply' = [count |-> Cardinality(Stored)]
  /\ UNCHANGED <<now, store, recency>>

Clear ==
  /\ store' = <<>>
  /\ recency' = {}
  /\ reply' = NoValue
  /\ UNCHANGED now

(* Time passes, and what it takes with it. *)
Tick ==
  /\ now < MaxInstant
  /\ now' = now + 1
  /\ LET alive == {k \in Stored : store[k].expires_at > now'} IN
       /\ store' = [k \in alive |-> store[k]]
       /\ recency' = Among(alive)
  /\ UNCHANGED reply

Next ==
  \/ \E k \in Keys : Get(k) \/ \E v \in Values : Insert(k, v)
  \/ Count
  \/ Clear
  \/ Tick

Spec == Init /\ [][Next]_vars
=============================================================================
