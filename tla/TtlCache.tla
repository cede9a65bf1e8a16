------------------------------ MODULE TtlCache ------------------------------
(***************************************************************************)
(* The cache of search responses: src/src/cache.rs.                        *)
(*                                                                         *)
(* A HashMap of entries and a VecDeque of the same keys, oldest use first, *)
(* behind one mutex. Each operation takes the mutex, reads the clock while *)
(* it holds it, reclaims what has expired and does its work, so an         *)
(* operation is one action. Clones of the cache share the state.           *)
(***************************************************************************)
EXTENDS Naturals, Sequences, FiniteSets

CONSTANTS
  Keys, Values,
  NoValue,     \* None
  Capacity,    \* capacity; 0 disables the cache
  Ttl,         \* ttl in ticks of the clock; 0 disables the cache
  MaxInstant   \* the last representable Instant; bounds the clock

ASSUME CacheAssumption ==
  /\ Capacity \in Nat
  /\ Ttl \in Nat
  /\ MaxInstant \in Nat

VARIABLES
  now,         \* Instant::now()
  entries,     \* State::entries, a partial function on Keys
  order,       \* State::order, the front is the oldest use
  reply        \* the value the last operation returned

cacheVars == <<now, entries, order, reply>>

Entry == [value : Values, expires_at : 0 .. MaxInstant]

Cached == DOMAIN entries

-----------------------------------------------------------------------------
(* VecDeque operations.                                                    *)

(* Every increasing enumeration of T, a set of positions up to n.          *)
Ascending(T, n) ==
  { f \in UNION {[1 .. k -> T] : k \in 0 .. n} :
      /\ \A i, j \in DOMAIN f : i < j => f[i] < f[j]
      /\ \A t \in T : \E i \in DOMAIN f : f[i] = t }

(* order.retain(|key| key in K). MCTtlCache checks that it is SelectSeq;   *)
(* written without recursion it can be reasoned about.                     *)
Retain(s, K) ==
  LET kept == {i \in 1 .. Len(s) : s[i] \in K}
      pick == CHOOSE f \in Ascending(kept, Len(s)) : TRUE
  IN  [j \in DOMAIN pick |-> s[pick[j]]]

Positions(s, k) == {i \in 1 .. Len(s) : s[i] = k}

(* What move_to_back must not do: push the key without taking its old place *)
(* out, or leave the order alone, which makes the cache first in first out. *)
PushedTwice(s, k) == IF Positions(s, k) = {} THEN s ELSE Append(s, k)
FirstInFirstOut(s, k) == s

(* move_to_back: the first position of k, if any, goes to the back. *)
MoveToBack(s, k) ==
  IF Positions(s, k) = {} THEN s
  ELSE LET p == CHOOSE i \in Positions(s, k) :
                  \A j \in Positions(s, k) : i <= j
       IN  [i \in 1 .. Len(s) |-> IF i < p THEN s[i]
                                  ELSE IF i < Len(s) THEN s[i + 1] ELSE k]

(* What the loop must not do: stop while the cache is exactly full. *)
EvictedOneShort(s, E) ==
  LET stops == {n \in 0 .. Len(s) :
                  \/ Cardinality(DOMAIN E \ {s[i] : i \in 1 .. n}) <= Capacity
                  \/ n = Len(s)}
  IN  CHOOSE n \in stops : \A m \in stops : n <= m

(* How often the eviction loop pops: until there is room, or nothing left. *)
Evicted(s, E) ==
  LET stops == {n \in 0 .. Len(s) :
                  \/ Cardinality(DOMAIN E \ {s[i] : i \in 1 .. n}) < Capacity
                  \/ n = Len(s)}
  IN  CHOOSE n \in stops : \A m \in stops : n <= m

-----------------------------------------------------------------------------
(* remove_expired: what an operation sees once it holds the mutex.         *)
Live == {k \in Cached : entries[k].expires_at > now}
LiveEntries == [k \in Live |-> entries[k]]
LiveOrder == Retain(order, Live)

(* What ExpiresAt must not be: a deadline past the end of the clock. *)
UncheckedDeadline == now + Ttl

(* now.checked_add(ttl).unwrap_or(now) *)
ExpiresAt == IF now + Ttl <= MaxInstant THEN now + Ttl ELSE now

NewEntry(v) == [value |-> v, expires_at |-> ExpiresAt]

Disabled == Capacity = 0 \/ Ttl = 0

CacheInit ==
  /\ now = 0
  /\ entries = <<>>
  /\ order = <<>>
  /\ reply = NoValue

Get(k) ==
  /\ entries' = LiveEntries
  /\ order' = IF k \in Live THEN MoveToBack(LiveOrder, k) ELSE LiveOrder
  /\ reply' = IF k \in Live THEN entries[k].value ELSE NoValue
  /\ UNCHANGED now

(* insert on a key that is present: new value, new deadline, last used. *)
Overwrite(k, v) ==
  /\ ~Disabled
  /\ k \in Live
  /\ entries' = [LiveEntries EXCEPT ![k] = NewEntry(v)]
  /\ order' = MoveToBack(LiveOrder, k)

(* What InsertNew must not do: count expired entries, and evict for them.   *)
InsertBeforeReclaim(k, v) ==
  /\ ~Disabled
  /\ k \notin Live
  /\ LET n == Evicted(order, entries)
         stay == Live \ {order[i] : i \in 1 .. n}
     IN  /\ entries' = [x \in stay \cup {k} |->
                          IF x = k THEN NewEntry(v) ELSE entries[x]]
         /\ order' = Append(Retain(order, stay), k)

(* insert on a key that is not: make room from the front, push to the back. *)
InsertNew(k, v) ==
  /\ ~Disabled
  /\ k \notin Live
  /\ LET n == Evicted(LiveOrder, LiveEntries)
         stay == Live \ {LiveOrder[i] : i \in 1 .. n}
     IN  /\ entries' = [x \in stay \cup {k} |->
                          IF x = k THEN NewEntry(v) ELSE entries[x]]
         /\ order' = Append(SubSeq(LiveOrder, n + 1, Len(LiveOrder)), k)

InsertIgnored == Disabled /\ UNCHANGED <<entries, order>>

Insert(k, v) ==
  /\ Overwrite(k, v) \/ InsertNew(k, v) \/ InsertIgnored
  /\ reply' = NoValue
  /\ UNCHANGED now

Count ==
  /\ entries' = LiveEntries
  /\ order' = LiveOrder
  /\ reply' = [count |-> Cardinality(Live)]
  /\ UNCHANGED now

Clear ==
  /\ entries' = <<>>
  /\ order' = <<>>
  /\ reply' = NoValue
  /\ UNCHANGED now

Tick ==
  /\ now < MaxInstant
  /\ now' = now + 1
  /\ UNCHANGED <<entries, order, reply>>

CacheNext ==
  \/ \E k \in Keys : Get(k)
  \/ \E k \in Keys, v \in Values : Insert(k, v)
  \/ Count
  \/ Clear
  \/ Tick

CacheSpec == CacheInit /\ [][CacheNext]_cacheVars

-----------------------------------------------------------------------------
Ranks(s) == {s[i] : i \in 1 .. Len(s)}

CacheTypeOK ==
  /\ now \in 0 .. MaxInstant
  /\ Cached \in SUBSET Keys
  /\ entries = [k \in Cached |-> entries[k]]
  /\ \A k \in Cached : entries[k] \in Entry
  /\ order \in Seq(Keys)

(* The map and the queue are kept by separate calls (retain twice, remove  *)
(* and pop_front, insert and push_back): between operations the queue      *)
(* holds exactly the keys of the map, each once. A key in the map alone    *)
(* could never be evicted, one in the queue alone would be evicted in vain.*)
OrderMatchesEntries ==
  /\ Ranks(order) = Cached
  /\ \A i, j \in 1 .. Len(order) : order[i] = order[j] => i = j

(* insert never leaves more than capacity entries, however the evictions,  *)
(* replacements and reclamations before it fell.                           *)
Bounded == Cardinality(Cached) <= Capacity

(* The order in which live keys were last used, read off the queue. *)
LiveRecency ==
  { pair \in Live \X Live :
      \E i, j \in 1 .. Len(order) :
         i < j /\ pair = <<order[i], order[j]>> }

(* A readable value is lost only to clear, or, when Capacity readable      *)
(* values fill the cache and a new key arrives, to being the least         *)
(* recently used of them: insert reclaims what has expired before it       *)
(* evicts anything live.                                                   *)
LiveLossJustified ==
  [][ \A k \in Live \ DOMAIN entries' :
        \/ entries' = <<>>
        \/ /\ Cardinality(Live) = Capacity
           /\ DOMAIN entries' \ Live # {}
           /\ \A other \in Live \ {k} : <<k, other>> \in LiveRecency ]_cacheVars

(* The lazy cache implements the eager one: what has expired but is not    *)
(* yet reclaimed is out of the abstract store already.                     *)
Abs == INSTANCE LruCache WITH store <- LiveEntries, recency <- LiveRecency
ImplementsLruCache == Abs!Spec
=============================================================================
