-------------------------- MODULE SearchClientProofs --------------------------
(***************************************************************************)
(* Proofs about SearchClient, for any tasks, queries, capacity, lifetime   *)
(* and answers of the backend.                                             *)
(*                                                                         *)
(* They rest on where an answer can be: a task that is about to store one  *)
(* holds it alone, and nothing of it is in the cache, so a store adds what *)
(* nobody has seen before, to a cache that otherwise only forgets. Whom an *)
(* answer is from needs a second invariant and what the key can tell.      *)
(***************************************************************************)
EXTENDS SearchClient, NaturalsInduction, WellFoundedInduction, TLAPS

Pcs == {"idle", "lookup", "fetching", "storing", "done", "failed"}

Task ==
  [pc : Pcs, api : Apis \cup {"none"}, query : ClientQueries \cup {NoValue},
   reply : Responses \cup {NoValue}, before : SUBSET Nat]

ClientTypes ==
  /\ tasks \in [Tasks -> Task]
  /\ fetches \in Nat /\ now \in Nat
  /\ stored \subseteq 1 .. fetches
  /\ cleared \subseteq stored

(* What is cached is whole, was stored, and was in no cache that was cleared. *)
EntryOK(e) ==
  /\ e.value \in Responses /\ Whole(e.value)
  /\ e.value.id \in stored \ cleared
  /\ e.expires_at \in Nat

EntriesOK == \A k \in DOMAIN entries : EntryOK(entries[k])

(* The reply to a call, cut or whole.                                      *)
ReplyOK(api, q, r) ==
  IF api = "search_request"
  THEN r.size <= ResultLimit[q.mode] /\ (r.number <= ResultLimit[q.mode] => Whole(r))
  ELSE Whole(r)

(* No readable answer was there when the search was called.                *)
Needed(t) ==
  KeyOf(tasks[t].query) \in Cache!Live =>
    entries[KeyOf(tasks[t].query)].value.id \notin tasks[t].before

TaskOK(t) ==
  /\ tasks[t].before \subseteq stored
  /\ tasks[t].pc \in {"lookup", "fetching", "storing", "done"} =>
       tasks[t].api \in Apis /\ tasks[t].query \in ClientQueries
  /\ tasks[t].pc = "storing" =>
       /\ tasks[t].reply \in Responses /\ Whole(tasks[t].reply)
       /\ tasks[t].reply.id \in (1 .. fetches) \ stored
  /\ tasks[t].pc = "done" =>
       tasks[t].reply \in Responses /\ ReplyOK(tasks[t].api, tasks[t].query, tasks[t].reply)
  /\ tasks[t].pc \in {"fetching", "storing"} /\ tasks[t].api # "search_websurfx" => Needed(t)

(* No two tasks are about to store the same answer.                        *)
OwnAnswers ==
  \A t, u \in Tasks :
    tasks[t].pc = "storing" /\ tasks[u].pc = "storing" /\ t # u =>
      tasks[t].reply.id # tasks[u].reply.id

ClientInv == ClientTypes /\ EntriesOK /\ (\A t \in Tasks : TaskOK(t)) /\ OwnAnswers

-----------------------------------------------------------------------------
LEMMA Constants ==
  /\ MaxFetches \in Nat /\ Ttl \in Nat /\ MaxInstant \in Nat /\ Sizes \subseteq Nat
  /\ Rejected \subseteq ClientQueries
  /\ \A q \in ClientQueries : q.mode \in Modes
BY ClientAssumption DEF QueryRecords

LEMMA ResponseFields ==
  ASSUME NEW r \in Responses
  PROVE  r.number \in Nat /\ r.size \in Nat /\ r.id \in Nat
<1> DEFINE asked == {AskedFor(api, q) : api \in Apis, q \in ClientQueries}
<1>1. r \in [asked : asked, number : Sizes, size : Nat, id : 1 .. MaxFetches]
  BY DEF Responses
<1> HIDE DEF asked
<1>2. r.number \in Sizes /\ r.size \in Nat /\ r.id \in 1 .. MaxFetches
  BY <1>1
<1>3. MaxFetches \in Nat /\ Sizes \subseteq Nat
  BY Constants
<1>4. \A i \in 1 .. MaxFetches : i \in Nat
  BY <1>3
<1>5. QED
  BY <1>2, <1>3, <1>4, Zenon

LEMMA IdleIsTask == Idle \in Task
BY DEF Idle, Task, Pcs

LEMMA GivenUpIsTask == GivenUp \in Task /\ GivenUp.pc = "failed" /\ GivenUp.before = {}
<1>1. GivenUp = [pc |-> "failed", api |-> "none", query |-> NoValue, reply |-> NoValue,
                 before |-> {}]
  BY DEF GivenUp, Idle
<1>2. QED
  BY <1>1 DEF Task, Pcs

LEMMA ClientInvInit == ClientInit => ClientInv
<1> SUFFICES ASSUME ClientInit PROVE ClientInv
  OBVIOUS
<1>1. tasks \in [Tasks -> Task] /\ \A t \in Tasks : tasks[t] = Idle
  BY IdleIsTask DEF ClientInit
<1>2. now = 0 /\ entries = <<>>
  BY DEF ClientInit, Cache!CacheInit
<1>3. DOMAIN entries = {}
  BY <1>2
<1>4. ClientTypes
  BY <1>1, <1>2 DEF ClientInit, ClientTypes
<1>5. EntriesOK
  BY <1>3 DEF EntriesOK
<1>6. OwnAnswers /\ \A t \in Tasks : TaskOK(t)
  BY <1>1 DEF OwnAnswers, TaskOK, Idle
<1>7. QED
  BY <1>4, <1>5, <1>6 DEF ClientInv

-----------------------------------------------------------------------------
(* The cache forgets, but does not change what it keeps.                   *)
Forgets ==
  \A k \in DOMAIN entries' : k \in DOMAIN entries /\ entries'[k] = entries[k]

LEMMA CacheForgets ==
  ASSUME (\E k : Cache!Get(k)) \/ Cache!Count \/ Cache!Clear \/ Cache!Tick \/ cacheUntouched
  PROVE  Forgets
<1>1. CASE (\E k : Cache!Get(k)) \/ Cache!Count
  BY <1>1 DEF Forgets, Cache!Get, Cache!Count, Cache!LiveEntries, Cache!Live, Cache!Cached
<1>2. CASE Cache!Clear
  <2>1. entries' = <<>>
    BY <1>2 DEF Cache!Clear
  <2>2. DOMAIN entries' = {}
    BY <2>1
  <2>3. QED
    BY <2>2 DEF Forgets
<1>3. CASE Cache!Tick \/ cacheUntouched
  BY <1>3 DEF Forgets, Cache!Tick, cacheUntouched
<1>4. QED
  BY <1>1, <1>2, <1>3

(* Or it gets one new entry.                                               *)
LEMMA InsertAdds ==
  ASSUME ClientTypes, NEW k, NEW v, Cache!Insert(k, v)
  PROVE  /\ \A j \in DOMAIN entries' :
              \/ /\ j = k /\ entries'[j].value = v
                 /\ entries'[j].expires_at \in Nat
              \/ j \in DOMAIN entries /\ entries'[j] = entries[j]
         /\ now' = now
<1> DEFINE e == Cache!NewEntry(v)
<1>1. e.value = v /\ e.expires_at \in Nat
  BY Constants DEF ClientTypes, Cache!NewEntry, Cache!ExpiresAt
<1> HIDE DEF e
<1>2. CASE Cache!Overwrite(k, v)
  <2>1. entries' = [Cache!LiveEntries EXCEPT ![k] = e]
    BY <1>2 DEF Cache!Overwrite, e
  <2>2. QED
    BY <1>1, <2>1 DEF Cache!LiveEntries, Cache!Live, Cache!Cached, Cache!Insert
<1>3. CASE Cache!InsertNew(k, v)
  <2>1. PICK stay \in SUBSET Cache!Live :
          entries' = [x \in stay \cup {k} |-> IF x = k THEN e ELSE entries[x]]
    BY <1>3 DEF Cache!InsertNew, e
  <2>2. QED
    BY <1>1, <2>1 DEF Cache!Live, Cache!Cached, Cache!Insert
<1>4. CASE Cache!InsertIgnored
  BY <1>4 DEF Cache!InsertIgnored, Cache!Insert
<1>5. QED
  BY <1>2, <1>3, <1>4 DEF Cache!Insert

-----------------------------------------------------------------------------
(* Only one task changes.                                                  *)
OnlyTask(t) ==
  tasks' \in [Tasks -> Task] /\ \A u \in Tasks \ {t} : tasks'[u] = tasks[u]

LEMMA TaskChange ==
  ASSUME ClientInv, NEW t \in Tasks, NEW r \in Task, tasks' = [tasks EXCEPT ![t] = r]
  PROVE  OnlyTask(t) /\ tasks'[t] = r
BY DEF ClientInv, ClientTypes, OnlyTask

(* A readable answer was readable before, in a cache that forgets.         *)
LEMMA NeededStays ==
  ASSUME ClientInv, Forgets, now' \in Nat, now' >= now, NEW t \in Tasks,
         NEW u \in Tasks, Needed(u),
         tasks'[t].query = tasks[u].query, tasks'[t].before = tasks[u].before
  PROVE  Needed(t)'
<1> DEFINE k == KeyOf(tasks[u].query)
<1>1. KeyOf(tasks'[t].query) = k
  OBVIOUS
<1> SUFFICES ASSUME k \in Cache!Live' PROVE entries'[k].value.id \notin tasks[u].before
  BY <1>1 DEF Needed
<1> HIDE DEF k
<1>2. k \in DOMAIN entries' /\ entries'[k].expires_at > now'
  BY DEF Cache!Live, Cache!Cached
<1>3. k \in DOMAIN entries /\ entries'[k] = entries[k] /\ entries[k].expires_at \in Nat
  BY <1>2 DEF Forgets, ClientInv, EntriesOK, EntryOK
<1>4. k \in Cache!Live
  BY <1>2, <1>3 DEF Cache!Live, Cache!Cached, ClientInv, ClientTypes
<1>5. QED
  BY <1>3, <1>4 DEF Needed, k

LEMMA EntriesForgotten ==
  ASSUME ClientInv, Forgets, UNCHANGED <<stored, cleared>>
  PROVE  EntriesOK'
BY DEF ClientInv, EntriesOK, EntryOK, Forgets, Whole

(* Who does not move keeps what it has, as long as nothing is stored.      *)
LEMMA OthersKeep ==
  ASSUME ClientInv, Forgets, now' \in Nat, now' >= now, UNCHANGED stored,
         fetches' \in Nat, fetches' >= fetches,
         NEW u \in Tasks, tasks'[u] = tasks[u]
  PROVE  TaskOK(u)'
<1>1. TaskOK(u)
  BY DEF ClientInv
<1>2. Needed(u) => Needed(u)'
  BY NeededStays
<1>3. 1 .. fetches \subseteq 1 .. fetches'
  BY DEF ClientInv, ClientTypes
<1>4. QED
  BY <1>1, <1>2, <1>3 DEF TaskOK, ReplyOK, Whole

(* A step of one task that stores nothing, and fetches nothing to store.   *)
LEMMA QuietStep ==
  ASSUME ClientInv, NEW t \in Tasks, OnlyTask(t), TaskOK(t)', Forgets,
         UNCHANGED <<now, stored, cleared>>, fetches' \in Nat, fetches' >= fetches,
         tasks'[t].pc # "storing"
  PROVE  ClientInv'
<1>1. \A u \in Tasks \ {t} : tasks'[u] = tasks[u]
  BY DEF OnlyTask
<1>2. now \in Nat /\ now >= now
  BY DEF ClientInv, ClientTypes
<1>3. \A u \in Tasks : TaskOK(u)'
  BY <1>1, <1>2, OthersKeep
<1>4. OwnAnswers'
  BY <1>1 DEF ClientInv, OwnAnswers
<1>5. ClientTypes'
  BY DEF ClientInv, ClientTypes, OnlyTask
<1>6. QED
  BY <1>3, <1>4, <1>5, EntriesForgotten DEF ClientInv

(* What the caller is given follows from a whole response.                 *)
LEMMA DeliveredOK ==
  ASSUME NEW api \in Apis, NEW q \in ClientQueries, NEW r \in Responses, Whole(r)
  PROVE  Delivered(api, q, r) \in Responses /\ ReplyOK(api, q, Delivered(api, q, r))
<1> DEFINE limit == ResultLimit[q.mode]
<1>1. limit \in Nat
  BY Constants DEF ResultLimit, Modes
<1>2. r.size \in Nat /\ r.number = r.size
  BY ResponseFields DEF Whole
<1> HIDE DEF limit
<1>3. CASE api = "search_request"
  <2> DEFINE cut == [r EXCEPT !.size = IF r.size > limit THEN limit ELSE r.size]
  <2>1. Delivered(api, q, r) = cut
    BY <1>3 DEF Delivered, Limited, limit
  <2>2. cut \in Responses
    BY <1>1, <1>2 DEF Responses
  <2>3. cut.size = (IF r.size > limit THEN limit ELSE r.size) /\ cut.number = r.number
    BY DEF Responses
  <2> HIDE DEF cut
  <2>4. cut.size <= limit /\ (cut.number <= limit => cut.size = cut.number)
    BY <1>1, <1>2, <2>3
  <2>5. QED
    BY <1>3, <2>1, <2>2, <2>4 DEF ReplyOK, Whole, limit
<1>4. CASE api # "search_request"
  BY <1>4 DEF Delivered, ReplyOK
<1>5. QED
  BY <1>3, <1>4

-----------------------------------------------------------------------------
LEMMA CallKeeps ==
  ASSUME ClientInv, NEW t \in Tasks, NEW api \in Apis, NEW q \in ClientQueries,
         Call(t, api, q)
  PROVE  ClientInv'
<1> DEFINE first == IF api = "search_websurfx" THEN "fetching" ELSE "lookup"
           r == [pc |-> first, api |-> api, query |-> q, reply |-> NoValue,
                 before |-> stored]
<1>1. UNCHANGED <<fetches, stored, cleared>> /\ cacheUntouched /\ Forgets
  BY CacheForgets DEF Call
<1>2. stored \subseteq Nat /\ fetches \in Nat /\ fetches >= fetches /\ UNCHANGED now
  BY <1>1 DEF ClientInv, ClientTypes, cacheUntouched
<1>3. CASE tasks' = [tasks EXCEPT ![t] = GivenUp]
  <2>1. OnlyTask(t) /\ tasks'[t] = GivenUp
    BY <1>3, GivenUpIsTask, TaskChange
  <2>2. TaskOK(t)' /\ tasks'[t].pc # "storing"
    BY <2>1, GivenUpIsTask DEF TaskOK
  <2>3. QED
    BY <1>1, <1>2, <2>1, <2>2, QuietStep
<1>4. CASE tasks' = [tasks EXCEPT ![t] = r]
  <2>1. r \in Task
    BY <1>2 DEF Task, Pcs
  <2>2. OnlyTask(t) /\ tasks'[t] = r
    BY <1>4, <2>1, TaskChange
  <2>3. /\ tasks'[t].pc \in {"fetching", "lookup"}
        /\ tasks'[t].pc = "fetching" => tasks'[t].api = "search_websurfx"
        /\ tasks'[t].api = api /\ tasks'[t].query = q /\ tasks'[t].before = stored
    BY <2>2
  <2>4. TaskOK(t)' /\ tasks'[t].pc # "storing"
    BY <1>1, <2>3 DEF TaskOK
  <2>5. QED
    BY <1>1, <1>2, <2>2, <2>4, QuietStep
<1>5. QED
  BY <1>3, <1>4 DEF Call

LEMMA LookupKeeps ==
  ASSUME ClientInv, NEW t \in Tasks, Lookup(t) PROVE ClientInv'
<1> DEFINE me == tasks[t]
           k == KeyOf(me.query)
<1>1. /\ me.pc = "lookup" /\ Cache!Get(k) /\ UNCHANGED <<fetches, stored, cleared, now>>
      /\ Forgets
  BY CacheForgets DEF Lookup, Cache!Get
<1>2. /\ me \in Task /\ tasks \in [Tasks -> Task] /\ me.before \subseteq stored
      /\ me.api \in Apis /\ me.query \in ClientQueries
      /\ fetches \in Nat /\ fetches >= fetches
  BY <1>1 DEF ClientInv, ClientTypes, TaskOK
<1>3. /\ k \in Cache!Live => /\ reply' = entries[k].value
                             /\ reply' \in Responses /\ Whole(reply')
      /\ k \notin Cache!Live => reply' = NoValue
  <2>1. reply' = IF k \in Cache!Live THEN entries[k].value ELSE NoValue
    BY <1>1 DEF Cache!Get
  <2>2. k \in Cache!Live => EntryOK(entries[k])
    BY DEF ClientInv, EntriesOK, Cache!Live, Cache!Cached
  <2>3. QED
    BY <2>1, <2>2 DEF EntryOK
<1> HIDE DEF k
<1>4. CASE reply' # NoValue /\ Deliver(t, reply')
  <2> DEFINE d == Delivered(me.api, me.query, reply')
             r == [me EXCEPT !.pc = "done", !.reply = d]
  <2>1. d \in Responses /\ ReplyOK(me.api, me.query, d)
    BY <1>2, <1>3, <1>4, DeliveredOK
  <2>2. tasks' = [tasks EXCEPT ![t] = r]
    BY <1>2, <1>4 DEF Deliver
  <2> HIDE DEF d
  <2>3. r \in Task
    BY <1>2, <2>1 DEF Task, Pcs
  <2>4. /\ r.pc = "done" /\ r.reply = d
        /\ r.api = me.api /\ r.query = me.query /\ r.before = me.before
    BY <1>2 DEF Task
  <2> HIDE DEF r
  <2>5. OnlyTask(t) /\ tasks'[t] = r
    BY <2>2, <2>3, TaskChange
  <2>6. TaskOK(t)'
    BY <1>1, <1>2, <2>1, <2>4, <2>5 DEF TaskOK, ReplyOK, Whole
  <2>7. QED
    BY <1>1, <1>2, <2>4, <2>5, <2>6, QuietStep
<1>5. CASE reply' = NoValue /\ Move(t, "fetching")
  <2> DEFINE r == [me EXCEPT !.pc = "fetching"]
  <2>1. k \notin Cache!Live
    BY <1>3, <1>5, NoneAssumption
  <2>2. tasks' = [tasks EXCEPT ![t] = r]
    BY <1>2, <1>5 DEF Move
  <2>3. r \in Task
    BY <1>2 DEF Task, Pcs
  <2>4. /\ r.pc = "fetching" /\ r.api = me.api /\ r.query = me.query
        /\ r.before = me.before
    BY <1>2 DEF Task
  <2> HIDE DEF r
  <2>5. OnlyTask(t) /\ tasks'[t] = r
    BY <2>2, <2>3, TaskChange
  <2>6. Needed(t)
    BY <2>1 DEF Needed, k
  <2>7. Needed(t)'
    BY <1>1, <2>4, <2>5, <2>6, NeededStays DEF ClientInv, ClientTypes
  <2>8. TaskOK(t)'
    BY <1>1, <1>2, <2>4, <2>5, <2>7 DEF TaskOK
  <2>9. QED
    BY <1>1, <1>2, <2>4, <2>5, <2>8, QuietStep
<1>6. QED
  BY <1>4, <1>5 DEF Lookup

LEMMA EndKeeps ==
  ASSUME ClientInv, NEW t \in Tasks, Failed(t) \/ Abandon(t) PROVE ClientInv'
<1>1. UNCHANGED <<fetches, stored, cleared>> /\ cacheUntouched /\ Forgets
  BY CacheForgets DEF Failed, Abandon
<1>2. fetches \in Nat /\ fetches >= fetches /\ UNCHANGED now
  BY <1>1 DEF ClientInv, ClientTypes, cacheUntouched
<1>3. PICK r \in {Idle, GivenUp} : tasks' = [tasks EXCEPT ![t] = r]
  BY DEF Failed, Abandon
<1>4. r \in Task /\ r.pc \in {"idle", "failed"} /\ r.before = {}
  BY <1>3, IdleIsTask, GivenUpIsTask DEF Idle
<1>5. OnlyTask(t) /\ tasks'[t] = r
  BY <1>3, <1>4, TaskChange
<1>6. TaskOK(t)' /\ tasks'[t].pc # "storing"
  BY <1>4, <1>5 DEF TaskOK
<1>7. QED
  BY <1>1, <1>2, <1>5, <1>6, QuietStep

-----------------------------------------------------------------------------
(* A new answer has an id of its own.                                      *)
LEMMA AnsweredKeeps ==
  ASSUME ClientInv, NEW t \in Tasks, NEW n \in Sizes, Answered(t, n)
  PROVE  ClientInv'
<1> DEFINE me == tasks[t]
           asked == AskedFor(me.api, me.query)
           a == [asked |-> asked, number |-> n, size |-> n, id |-> fetches + 1]
           to == IF me.api = "search_websurfx" THEN "done" ELSE "storing"
           r == [me EXCEPT !.pc = to, !.reply = a]
<1>1. /\ me.pc = "fetching" /\ fetches < MaxFetches /\ fetches' = fetches + 1
      /\ UNCHANGED <<stored, cleared>> /\ cacheUntouched /\ Forgets
  BY CacheForgets DEF Answered
<1>2. /\ me \in Task /\ tasks \in [Tasks -> Task] /\ me.before \subseteq stored
      /\ me.api \in Apis /\ me.query \in ClientQueries
      /\ fetches \in Nat /\ now \in Nat /\ stored \subseteq 1 .. fetches
      /\ UNCHANGED now
  BY <1>1 DEF ClientInv, ClientTypes, TaskOK, cacheUntouched
<1>3. a \in Responses
  <2> DEFINE all == {AskedFor(api, q) : api \in Apis, q \in ClientQueries}
  <2>1. asked \in all
    BY <1>2
  <2>2. n \in Nat /\ fetches + 1 \in 1 .. MaxFetches
    BY <1>1, <1>2, Constants
  <2> HIDE DEF all, asked
  <2>3. a \in [asked : all, number : Sizes, size : Nat, id : 1 .. MaxFetches]
    BY <2>1, <2>2
  <2>4. QED
    BY <2>3 DEF Responses, all
<1>4. a.id = fetches + 1 /\ Whole(a)
  BY DEF Whole
<1>5. tasks' = [tasks EXCEPT ![t] = r]
  BY <1>1, <1>2 DEF Answered
<1> HIDE DEF a
<1>6. r \in Task
  BY <1>2, <1>3 DEF Task, Pcs
<1>7. /\ r.pc = to /\ r.reply = a /\ r.api = me.api /\ r.query = me.query
      /\ r.before = me.before
  BY <1>2 DEF Task
<1> HIDE DEF r
<1>8. OnlyTask(t) /\ tasks'[t] = r
  BY <1>5, <1>6, TaskChange
<1>9. /\ to = "done" => me.api = "search_websurfx"
      /\ to = "storing" => me.api # "search_websurfx"
      /\ to \in {"done", "storing"}
  OBVIOUS
<1> HIDE DEF to
<1>10. to = "storing" => Needed(t)'
  <2>1. to = "storing" => Needed(t)
    BY <1>1, <1>9 DEF ClientInv, TaskOK
  <2>2. now' \in Nat /\ now' >= now
    BY <1>2
  <2>3. QED
    BY <1>1, <1>7, <1>8, <2>1, <2>2, NeededStays
<1>11. a.id \in (1 .. fetches') \ stored
  BY <1>1, <1>2, <1>4
<1>12. ReplyOK("search_websurfx", me.query, a)
  BY <1>4 DEF ReplyOK
<1>13. TaskOK(t)'
  BY <1>1, <1>2, <1>3, <1>4, <1>7, <1>8, <1>9, <1>10, <1>11, <1>12
  DEF TaskOK, ReplyOK, Whole
<1>14. \A u \in Tasks \ {t} : tasks'[u] = tasks[u]
  BY <1>8 DEF OnlyTask
<1>15. \A u \in Tasks \ {t} : TaskOK(u)'
  <2>1. fetches' \in Nat /\ fetches' >= fetches /\ now' \in Nat /\ now' >= now
    BY <1>1, <1>2
  <2>2. QED
    BY <1>1, <1>14, <2>1, OthersKeep
<1>16. OwnAnswers'
  <2>1. \A u \in Tasks \ {t} : tasks[u].pc = "storing" => tasks[u].reply.id \in 1 .. fetches
    BY DEF ClientInv, TaskOK
  <2>2. \A u \in Tasks \ {t} : tasks'[u].pc = "storing" => tasks'[u].reply.id # a.id
    BY <1>2, <1>4, <1>14, <2>1
  <2>3. QED
    BY <1>7, <1>8, <1>14, <2>2 DEF ClientInv, OwnAnswers
<1>17. ClientTypes'
  BY <1>1, <1>2, <1>8 DEF ClientInv, ClientTypes, OnlyTask
<1>18. QED
  BY <1>1, <1>13, <1>15, <1>16, <1>17, EntriesForgotten DEF ClientInv

-----------------------------------------------------------------------------
(* What is stored is in no task's before, and was never cleared.           *)
LEMMA StoreKeeps ==
  ASSUME ClientInv, NEW t \in Tasks, Store(t) PROVE ClientInv'
<1> DEFINE me == tasks[t]
           a == me.reply
           k == KeyOf(me.query)
           d == Delivered(me.api, me.query, a)
           r == [me EXCEPT !.pc = "done", !.reply = d]
<1>1. /\ me.pc = "storing" /\ Cache!Insert(k, a) /\ Deliver(t, a)
      /\ stored' = stored \cup {a.id} /\ UNCHANGED <<fetches, cleared>>
  BY DEF Store
<1>2. /\ me \in Task /\ tasks \in [Tasks -> Task] /\ me.before \subseteq stored
      /\ me.api \in Apis /\ me.query \in ClientQueries
      /\ a \in Responses /\ Whole(a) /\ a.id \in (1 .. fetches) \ stored
      /\ fetches \in Nat /\ now \in Nat /\ stored \subseteq 1 .. fetches
      /\ cleared \subseteq stored
  BY <1>1 DEF ClientInv, ClientTypes, TaskOK
<1>3. d \in Responses /\ ReplyOK(me.api, me.query, d)
  BY <1>2, DeliveredOK
<1>4. tasks' = [tasks EXCEPT ![t] = r]
  BY <1>1, <1>2 DEF Deliver
<1>5. /\ \A j \in DOMAIN entries' :
           \/ /\ j = k /\ entries'[j].value = a
              /\ entries'[j].expires_at \in Nat
           \/ j \in DOMAIN entries /\ entries'[j] = entries[j]
      /\ now' = now
  BY <1>1, InsertAdds DEF ClientInv
<1> HIDE DEF d
<1>6. r \in Task
  BY <1>2, <1>3 DEF Task, Pcs
<1>7. /\ r.pc = "done" /\ r.reply = d /\ r.api = me.api /\ r.query = me.query
      /\ r.before = me.before
  BY <1>2 DEF Task
<1> HIDE DEF r, k
<1>8. OnlyTask(t) /\ tasks'[t] = r
  BY <1>4, <1>6, TaskChange
<1>9. \A u \in Tasks \ {t} : tasks'[u] = tasks[u]
  BY <1>8 DEF OnlyTask
<1>10. EntriesOK'
  <2>1. ASSUME NEW j \in DOMAIN entries'
        PROVE  /\ entries'[j].value \in Responses /\ Whole(entries'[j].value)
               /\ entries'[j].value.id \in stored' \ cleared'
               /\ entries'[j].expires_at \in Nat
    <3>1. CASE entries'[j].value = a /\ entries'[j].expires_at \in Nat
      BY <1>1, <1>2, <3>1
    <3>2. CASE j \in DOMAIN entries /\ entries'[j] = entries[j]
      <4>1. EntryOK(entries[j])
        BY <3>2 DEF ClientInv, EntriesOK
      <4>2. QED
        BY <1>1, <3>2, <4>1 DEF EntryOK
    <3>3. QED
      BY <1>5, <3>1, <3>2
  <2>2. QED
    BY <2>1 DEF EntriesOK, EntryOK, Whole
<1>11. TaskOK(t)'
  BY <1>1, <1>2, <1>3, <1>7, <1>8 DEF TaskOK, ReplyOK, Whole
<1>12. ASSUME NEW u \in Tasks \ {t} PROVE TaskOK(u)'
  <2>1. TaskOK(u) /\ tasks'[u] = tasks[u]
    BY <1>9 DEF ClientInv
  <2>2. tasks[u].pc = "storing" => tasks[u].reply.id # a.id
    BY <1>1 DEF ClientInv, OwnAnswers
  <2>3. ASSUME Needed(u) PROVE Needed(u)'
    <3> DEFINE j == KeyOf(tasks[u].query)
    <3>1. KeyOf(tasks'[u].query) = j
      BY <2>1
    <3> SUFFICES ASSUME j \in Cache!Live' PROVE entries'[j].value.id \notin tasks[u].before
      BY <2>1, <3>1 DEF Needed
    <3> HIDE DEF j
    <3>2. j \in DOMAIN entries' /\ entries'[j].expires_at > now
      BY <1>5 DEF Cache!Live, Cache!Cached
    <3>3. CASE entries'[j].value = a
      BY <1>2, <2>1, <3>3 DEF TaskOK
    <3>4. CASE j \in DOMAIN entries /\ entries'[j] = entries[j]
      <4>1. j \in Cache!Live
        BY <3>2, <3>4 DEF Cache!Live, Cache!Cached
      <4>2. QED
        BY <2>3, <3>4, <4>1 DEF Needed, j
    <3>5. QED
      BY <1>5, <3>2, <3>3, <3>4
  <2>4. QED
    BY <1>1, <2>1, <2>2, <2>3 DEF TaskOK, ReplyOK, Whole
<1>13. OwnAnswers'
  BY <1>7, <1>8, <1>9 DEF ClientInv, OwnAnswers
<1>14. ClientTypes'
  BY <1>1, <1>2, <1>5, <1>8 DEF ClientTypes, OnlyTask
<1>15. QED
  BY <1>10, <1>11, <1>12, <1>13, <1>14 DEF ClientInv

-----------------------------------------------------------------------------
LEMMA SameTasks ==
  ASSUME ClientInv, Forgets, now' \in Nat, now' >= now, UNCHANGED <<tasks, fetches, stored>>
  PROVE  OwnAnswers' /\ \A u \in Tasks : TaskOK(u)'
<1>1. fetches' \in Nat /\ fetches' >= fetches
  BY DEF ClientInv, ClientTypes
<1>2. QED
  BY <1>1, OthersKeep DEF ClientInv, OwnAnswers

LEMMA ClearKeeps == ASSUME ClientInv, ClearCache PROVE ClientInv'
<1>1. /\ Cache!Clear /\ UNCHANGED <<tasks, fetches, stored, now>> /\ Forgets
      /\ cleared' = {entries[k].value.id : k \in DOMAIN entries} \cup cleared
  BY CacheForgets DEF ClearCache, Cache!Clear
<1>2. now' \in Nat /\ now' >= now
  BY <1>1 DEF ClientInv, ClientTypes
<1>3. \A k \in DOMAIN entries : entries[k].value.id \in stored
  BY DEF ClientInv, EntriesOK, EntryOK
<1>4. cleared' \subseteq stored
  BY <1>1, <1>3 DEF ClientInv, ClientTypes
<1>5. DOMAIN entries' = {}
  <2>1. entries' = <<>>
    BY <1>1 DEF Cache!Clear
  <2>2. QED
    BY <2>1
<1>6. EntriesOK'
  BY <1>5 DEF EntriesOK
<1>7. ClientTypes'
  BY <1>1, <1>2, <1>4 DEF ClientInv, ClientTypes
<1>8. QED
  BY <1>1, <1>2, <1>6, <1>7, SameTasks DEF ClientInv

LEMMA OtherKeeps ==
  ASSUME ClientInv, CachedEntries \/ Wait \/ UNCHANGED clientVars PROVE ClientInv'
<1>1. UNCHANGED <<tasks, fetches, stored, cleared>> /\ Forgets
  BY CacheForgets DEF CachedEntries, Wait, clientVars, cacheUntouched
<1>2. now' \in Nat /\ now' >= now
  BY DEF ClientInv, ClientTypes, CachedEntries, Wait, clientVars, Cache!Count, Cache!Tick
<1>3. ClientTypes'
  BY <1>1, <1>2 DEF ClientInv, ClientTypes
<1>4. QED
  BY <1>1, <1>2, <1>3, SameTasks, EntriesForgotten DEF ClientInv

LEMMA ClientInvNext == ClientInv /\ [ClientNext]_clientVars => ClientInv'
<1> SUFFICES ASSUME ClientInv, [ClientNext]_clientVars PROVE ClientInv'
  OBVIOUS
<1>1. ASSUME NEW t \in Tasks, TaskNext(t) PROVE ClientInv'
  BY <1>1, CallKeeps, LookupKeeps, AnsweredKeeps, EndKeeps, StoreKeeps DEF TaskNext
<1>2. QED
  BY <1>1, ClearKeeps, OtherKeeps DEF ClientNext

LEMMA ClientInvAlways == ClientSpec => []ClientInv
BY ClientInvInit, ClientInvNext, PTL DEF ClientSpec

(* clear_cache: whatever searches are under way when it is called, and     *)
(* however they end, nothing that was cached then is ever cached again.    *)
THEOREM ClearedAlwaysGone == ClientSpec => []ClearedStaysGone
<1>1. ClientInv => ClearedStaysGone
  BY DEF ClientInv, EntriesOK, EntryOK, ClearedStaysGone, CachedResponses
<1>2. QED
  BY <1>1, ClientInvAlways, PTL

(* search_request limits its copy: the cache and the callers of search     *)
(* have responses as the backend gave them, whoever asked first.           *)
THEOREM RepliesAlwaysFromWhole == ClientSpec => []RepliesFromWholeResponses
<1>1. ClientInv => RepliesFromWholeResponses
  BY DEF ClientInv, EntriesOK, EntryOK, TaskOK, ReplyOK, RepliesFromWholeResponses,
     CachedResponses, Replied
<1>2. QED
  BY <1>1, ClientInvAlways, PTL

(* search: a search that fetches could not have read its answer when it    *)
(* was called, for any number of tasks, capacity and lifetime.             *)
THEOREM NoFetchIsNeedless == ClientSpec => []NoNeedlessFetch
<1>1. ClientInv => NoNeedlessFetch
  BY DEF ClientInv, TaskOK, Needed, NoNeedlessFetch
<1>2. QED
  BY <1>1, ClientInvAlways, PTL

-----------------------------------------------------------------------------
(* What the key tells of the engines. Joined by commas, the names are told *)
(* apart as long as there is no comma in any of them.                      *)
LEMMA LeastNumber ==
  ASSUME NEW S \in SUBSET Nat, S # {}
  PROVE  \E m \in S : \A l \in S : m <= l
<1>1. PICK m \in S : \A l \in S : ~ (<<l, m>> \in OpToRel(<, Nat))
  BY NatLessThanWellFounded, WFMin
<1>2. \A l \in S : ~ (l < m)
  BY <1>1 DEF OpToRel
<1> QED
  BY <1>2

(* FlattenSeq joins from left to right: were the joined names not the       *)
(* names, take the first place where the result differs.                   *)
LEMMA FlattenOfSingles ==
  ASSUME NEW N, NEW s \in Seq({<<n>> : n \in N}), Len(s) # 0
  PROVE  FlattenSeq(s) = [j \in 1 .. Len(s) |-> s[j][1]]
<1> DEFINE len == Len(s)
           F(f) == [i \in 1 .. len |-> IF i = 1 THEN s[i] ELSE f[i-1] \o s[i]]
           g == [i \in 1 .. len |-> [j \in 1 .. i |-> s[j][1]]]
           flat == CHOOSE f : f = F(f)
<1>1. len \in Nat \ {0} /\ \A i \in 1 .. len : s[i] \in {<<n>> : n \in N}
  OBVIOUS
<1>2. \A i \in 1 .. len : s[i] = <<s[i][1]>> /\ s[i][1] \in N
  BY <1>1
<1>3. g = F(g)
  <2>1. ASSUME NEW i \in 1 .. len, i # 1
        PROVE  g[i-1] \o s[i] = [j \in 1 .. i |-> s[j][1]]
    <3>1. i - 1 \in 1 .. len
      BY <1>1, <2>1
    <3>2. g[i-1] = [j \in 1 .. i-1 |-> s[j][1]]
      BY <3>1
    <3>3. g[i-1] \in Seq(N) /\ Len(g[i-1]) = i - 1
      BY <1>1, <1>2, <3>1, <3>2
    <3>4. PICK n \in N : s[i] = <<n>>
      BY <1>1
    <3> HIDE DEF g
    <3>5. g[i-1] \o <<n>> = [j \in 1 .. i |-> IF j <= i - 1 THEN g[i-1][j] ELSE n]
      BY SMTT(30), <1>1, <3>3
    <3>6. \A j \in 1 .. i : (IF j <= i - 1 THEN g[i-1][j] ELSE n) = s[j][1]
      BY <1>1, <3>1, <3>2, <3>4
    <3>7. QED
      BY <3>4, <3>5, <3>6
  <2>2. [j \in 1 .. 1 |-> s[j][1]] = s[1]
    BY <1>1, <1>2
  <2>3. \A i \in 1 .. len : g[i] = IF i = 1 THEN s[i] ELSE g[i-1] \o s[i]
    BY <1>1, <2>1, <2>2
  <2> HIDE DEF g
  <2>4. g = [i \in 1 .. len |-> g[i]]
    BY DEF g
  <2>5. QED
    BY <2>3, <2>4
<1>4. flat = F(flat)
  BY <1>3
<1>5. FlattenSeq(s) = flat[len]
  BY <1>1 DEF FlattenSeq
<1> HIDE DEF flat, g
<1>6. \A i \in 1 .. len : flat[i] = IF i = 1 THEN s[i] ELSE flat[i-1] \o s[i]
  BY <1>4
<1>7. \A i \in 1 .. len : g[i] = IF i = 1 THEN s[i] ELSE g[i-1] \o s[i]
  BY <1>3
<1>8. flat[len] = g[len]
  <2> DEFINE Bad == {i \in 1 .. len : flat[i] # g[i]}
  <2> SUFFICES ASSUME Bad # {} PROVE FALSE
    BY <1>1
  <2>1. PICK m \in Bad : \A l \in Bad : m <= l
    <3>1. Bad \in SUBSET Nat
      BY <1>1
    <3>2. QED
      BY <3>1, LeastNumber
  <2>2. m \in 1 .. len /\ flat[m] # g[m]
    OBVIOUS
  <2>3. m # 1 => m - 1 \in 1 .. len /\ m - 1 \notin Bad
    BY <1>1, <2>1, <2>2
  <2>4. m # 1 => flat[m - 1] = g[m - 1]
    BY <2>3
  <2>5. QED
    BY <1>6, <1>7, <2>2, <2>4
<1>9. QED
  BY <1>1, <1>5, <1>8 DEF g

LEMMA SinglesFlattenApart ==
  ASSUME NEW N, NEW s \in Seq({<<n>> : n \in N}), NEW t \in Seq({<<n>> : n \in N}),
         FlattenSeq(s) = FlattenSeq(t)
  PROVE  s = t
<1>1. /\ Len(s) \in Nat /\ \A i \in 1 .. Len(s) : s[i] \in {<<n>> : n \in N}
      /\ Len(t) \in Nat /\ \A i \in 1 .. Len(t) : t[i] \in {<<n>> : n \in N}
  OBVIOUS
<1>2. /\ \A i \in 1 .. Len(s) : s[i] = <<s[i][1]>>
      /\ \A i \in 1 .. Len(t) : t[i] = <<t[i][1]>>
  BY <1>1
<1>3. DOMAIN FlattenSeq(s) = 1 .. Len(s)
  <2>1. CASE Len(s) = 0
    BY <2>1 DEF FlattenSeq
  <2>2. CASE Len(s) # 0
    BY <2>2, FlattenOfSingles
  <2>3. QED
    BY <2>1, <2>2
<1>4. DOMAIN FlattenSeq(t) = 1 .. Len(t)
  <2>1. CASE Len(t) = 0
    BY <2>1 DEF FlattenSeq
  <2>2. CASE Len(t) # 0
    BY <2>2, FlattenOfSingles
  <2>3. QED
    BY <2>1, <2>2
<1>5. Len(s) = Len(t)
  BY <1>1, <1>3, <1>4
<1>6. ASSUME NEW i \in 1 .. Len(s) PROVE s[i] = t[i]
  <2>1. Len(s) # 0 /\ Len(t) # 0 /\ i \in 1 .. Len(t)
    BY <1>1, <1>5
  <2>2. FlattenSeq(s)[i] = s[i][1]
    BY <2>1, FlattenOfSingles
  <2>3. FlattenSeq(t)[i] = t[i][1]
    BY <2>1, FlattenOfSingles
  <2>4. s[i] = <<s[i][1]>> /\ t[i] = <<t[i][1]>>
    BY <1>2, <2>1
  <2>5. QED
    BY <2>2, <2>3, <2>4
<1>7. QED
  BY SMTT(30), <1>1, <1>5, <1>6

LEMMA OnePiece ==
  ASSUME NEW S, NEW x \in Seq(S), Len(x) = 1
  PROVE  x = <<x[1]>> /\ x[1] \in S
<1>1. x[1] \in S /\ DOMAIN x = 1 .. 1
  OBVIOUS
<1> DEFINE y == <<x[1]>>
<1>2. y \in Seq(S) /\ Len(y) = 1 /\ y[1] = x[1]
  BY <1>1
<1> HIDE DEF y
<1>3. x = y
  BY <1>2
<1>4. QED
  BY <1>1, <1>3 DEF y

CommaFree ==
  \A q \in ClientQueries : \A i \in DOMAIN q.engines : Len(q.engines[i]) = 1

(* The key leaves out what decides neither whom a search asks nor for what,*)
(* and nothing that does.                                                  *)
KeyTells ==
  \A p, q \in ClientQueries : KeyOf(p) = KeyOf(q) =>
    \A api \in Apis : AskedFor(api, p) = AskedFor(api, q)

LEMMA CommaFreeKeyTells ==
  ASSUME Embedded => CommaFree PROVE KeyTells
<1> SUFFICES ASSUME NEW p \in ClientQueries, NEW q \in ClientQueries,
                    KeyOf(p) = KeyOf(q), NEW api \in Apis
             PROVE  AskedFor(api, p) = AskedFor(api, q)
  BY DEF KeyTells
<1>1. /\ p.mode = q.mode /\ p.text = q.text /\ p.categories = q.categories
      /\ FlattenSeq(p.engines) = FlattenSeq(q.engines)
      /\ p.language = q.language /\ p.page = q.page
      /\ p.safe_search = q.safe_search /\ p.time_range = q.time_range
  BY DEF KeyOf, QueryString
<1>2. CASE Embedded
  <2>1. ASSUME NEW o \in ClientQueries
        PROVE  o.engines \in Seq({<<n>> : n \in STRING})
    <3> DEFINE e == o.engines
               Singles == {<<n>> : n \in STRING}
    <3>1. e \in Seq(Seq(STRING))
      BY ClientAssumption DEF QueryRecords
    <3>2. \A i \in DOMAIN e : Len(e[i]) = 1
      BY <1>2 DEF CommaFree
    <3> HIDE DEF e
    <3>3. ASSUME NEW i \in DOMAIN e PROVE e[i] \in Singles
      <4>1. e[i] \in Seq(STRING) /\ Len(e[i]) = 1
        BY <3>1, <3>2
      <4>2. e[i] = <<e[i][1]>> /\ e[i][1] \in STRING
        BY <4>1, OnePiece
      <4>3. QED
        BY <4>2
    <3> HIDE DEF Singles
    <3>4. e \in Seq(Singles)
      BY <3>1, <3>3
    <3>5. QED
      BY <3>4 DEF e, Singles
  <2>2. p.engines = q.engines
    BY <1>1, <2>1, SinglesFlattenApart
  <2>3. Providers(p) = Providers(q)
    BY <1>1, <2>2 DEF Providers, RequestedProviders, NamedProviders, CategoryProviders
  <2>4. QED
    BY <1>1, <2>3 DEF AskedFor
<1>3. CASE ~Embedded
  BY <1>1, <1>3 DEF AskedFor
<1>4. QED
  BY <1>2, <1>3

(* A task knows whom its answer is from.                                   *)
TaskAsked(t) ==
  /\ tasks[t].pc \in {"lookup", "storing"} => tasks[t].api # "search_websurfx"
  /\ tasks[t].pc \in {"storing", "done"} =>
       tasks[t].reply.asked = AskedFor(tasks[t].api, tasks[t].query)

(* So does an entry, for each query that would find it.                    *)
EntriesAsked ==
  \A q \in ClientQueries : KeyOf(q) \in DOMAIN entries =>
    entries[KeyOf(q)].value.asked = AskedFor("search", q)

AskedInv == ClientInv /\ EntriesAsked /\ \A t \in Tasks : TaskAsked(t)

LEMMA AskedInit == ClientInit => AskedInv
<1> SUFFICES ASSUME ClientInit PROVE AskedInv
  OBVIOUS
<1>1. entries = <<>> /\ \A t \in Tasks : tasks[t] = Idle
  BY DEF ClientInit, Cache!CacheInit
<1>2. DOMAIN entries = {}
  BY <1>1
<1>3. QED
  BY <1>1, <1>2, ClientInvInit DEF AskedInv, EntriesAsked, TaskAsked, Idle

LEMMA AnyApi ==
  ASSUME NEW api, api # "search_websurfx", NEW q
  PROVE  AskedFor(api, q) = AskedFor("search", q)
BY DEF AskedFor

LEMMA AskedStep ==
  ASSUME AskedInv, ClientInv', NEW t \in Tasks, Forgets,
         \A u \in Tasks \ {t} : tasks'[u] = tasks[u], TaskAsked(t)'
  PROVE  AskedInv'
<1>1. EntriesAsked'
  BY DEF AskedInv, EntriesAsked, Forgets
<1>2. \A u \in Tasks : TaskAsked(u)'
  BY DEF AskedInv, TaskAsked
<1>3. QED
  BY <1>1, <1>2 DEF AskedInv

LEMMA AskedQuiet ==
  ASSUME AskedInv, ClientInv', NEW t \in Tasks,
         \/ \E api \in Apis, q \in ClientQueries : Call(t, api, q)
         \/ Failed(t) \/ Abandon(t)
         \/ \E n \in Sizes : Answered(t, n)
  PROVE  AskedInv'
<1> DEFINE me == tasks[t]
<1>1. Forgets
  BY CacheForgets DEF Call, Failed, Abandon, Answered
<1>2. tasks \in [Tasks -> Task] /\ me \in Task
  BY DEF AskedInv, ClientInv, ClientTypes
<1>3. \A u \in Tasks \ {t} : tasks'[u] = tasks[u]
  BY <1>2 DEF Call, Failed, Abandon, Answered
<1>4. ASSUME NEW api \in Apis, NEW q \in ClientQueries, Call(t, api, q)
      PROVE  TaskAsked(t)'
  <2>1. \/ tasks'[t] = GivenUp
        \/ tasks'[t] = [pc |-> IF api = "search_websurfx" THEN "fetching" ELSE "lookup",
                        api |-> api, query |-> q, reply |-> NoValue, before |-> stored]
    BY <1>2, <1>4 DEF Call
  <2>2. QED
    BY <2>1, GivenUpIsTask DEF TaskAsked
<1>5. ASSUME Failed(t) \/ Abandon(t) PROVE TaskAsked(t)'
  <2>1. tasks'[t].pc \in {"idle", "failed"}
    BY <1>2, <1>5, GivenUpIsTask DEF Failed, Abandon, Idle
  <2>2. tasks'[t].pc \notin {"lookup", "storing"} /\ tasks'[t].pc \notin {"storing", "done"}
    BY <2>1
  <2>3. QED
    BY <2>2 DEF TaskAsked
<1>6. ASSUME NEW n \in Sizes, Answered(t, n) PROVE TaskAsked(t)'
  <2> DEFINE a == [asked |-> AskedFor(me.api, me.query), number |-> n, size |-> n,
                   id |-> fetches + 1]
             to == IF me.api = "search_websurfx" THEN "done" ELSE "storing"
  <2>1. tasks' = [tasks EXCEPT ![t] = [me EXCEPT !.pc = to, !.reply = a]]
    BY <1>2, <1>6 DEF Answered
  <2>2. a.asked = AskedFor(me.api, me.query)
    OBVIOUS
  <2>3. to = "storing" => me.api # "search_websurfx"
    OBVIOUS
  <2> HIDE DEF a, to
  <2>4. /\ tasks'[t].pc = to /\ tasks'[t].reply = a
        /\ tasks'[t].api = me.api /\ tasks'[t].query = me.query
    BY <1>2, <2>1 DEF Task
  <2>5. to # "lookup"
    BY DEF to
  <2>6. QED
    BY <2>2, <2>3, <2>4, <2>5 DEF TaskAsked
<1>7. QED
  BY <1>1, <1>3, <1>4, <1>5, <1>6, AskedStep

LEMMA DeliveredAsked ==
  ASSUME NEW api, NEW q, NEW r \in Responses
  PROVE  Delivered(api, q, r).asked = r.asked
BY DEF Delivered, Limited, Responses

LEMMA AskedLookup ==
  ASSUME AskedInv, ClientInv', NEW t \in Tasks, Lookup(t) PROVE AskedInv'
<1> DEFINE me == tasks[t]
           k == KeyOf(me.query)
<1>1. Cache!Get(k) /\ Forgets /\ me.pc = "lookup"
  BY CacheForgets DEF Lookup
<1>2. /\ tasks \in [Tasks -> Task] /\ me \in Task
      /\ me.query \in ClientQueries /\ me.api # "search_websurfx"
  BY <1>1 DEF AskedInv, ClientInv, ClientTypes, TaskOK, TaskAsked
<1>3. CASE reply' # NoValue /\ Deliver(t, reply')
  <2>1. k \in DOMAIN entries /\ reply' = entries[k].value
    BY <1>1, <1>3 DEF Cache!Get, Cache!Live, Cache!Cached
  <2>2. reply' \in Responses /\ reply'.asked = AskedFor("search", me.query)
    BY <1>2, <2>1 DEF AskedInv, EntriesAsked, ClientInv, EntriesOK, EntryOK
  <2> DEFINE d == Delivered(me.api, me.query, reply')
  <2>3. d.asked = AskedFor(me.api, me.query)
    BY <1>2, <2>2, DeliveredAsked, AnyApi
  <2>4. tasks' = [tasks EXCEPT ![t] = [me EXCEPT !.pc = "done", !.reply = d]]
    BY <1>2, <1>3 DEF Deliver
  <2> HIDE DEF d
  <2>5. /\ tasks'[t].pc = "done" /\ tasks'[t].reply = d
        /\ tasks'[t].api = me.api /\ tasks'[t].query = me.query
        /\ \A u \in Tasks \ {t} : tasks'[u] = tasks[u]
    BY <1>2, <2>4 DEF Task
  <2>6. TaskAsked(t)'
    BY <2>3, <2>5 DEF TaskAsked
  <2>7. QED
    BY <1>1, <2>5, <2>6, AskedStep
<1>4. CASE Move(t, "fetching")
  <2>1. tasks'[t].pc = "fetching" /\ \A u \in Tasks \ {t} : tasks'[u] = tasks[u]
    BY <1>2, <1>4 DEF Move, Task
  <2>2. QED
    BY <1>1, <2>1, AskedStep DEF TaskAsked
<1>5. QED
  BY <1>3, <1>4 DEF Lookup

LEMMA AskedStore ==
  ASSUME KeyTells, AskedInv, ClientInv', NEW t \in Tasks, Store(t) PROVE AskedInv'
<1> DEFINE me == tasks[t]
           a == me.reply
           d == Delivered(me.api, me.query, a)
<1>1. Cache!Insert(KeyOf(me.query), a) /\ Deliver(t, a) /\ me.pc = "storing"
  BY DEF Store
<1>2. /\ tasks \in [Tasks -> Task] /\ me \in Task
      /\ me.query \in ClientQueries /\ me.api # "search_websurfx"
      /\ a \in Responses /\ a.asked = AskedFor(me.api, me.query)
  BY <1>1 DEF AskedInv, ClientInv, ClientTypes, TaskOK, TaskAsked
<1>3. EntriesAsked'
  <2> SUFFICES ASSUME NEW q \in ClientQueries, KeyOf(q) \in DOMAIN entries'
               PROVE  entries'[KeyOf(q)].value.asked = AskedFor("search", q)
    BY DEF EntriesAsked
  <2>1. CASE KeyOf(q) = KeyOf(me.query) /\ entries'[KeyOf(q)].value = a
    <3>1. AskedFor("search", q) = AskedFor("search", me.query)
      BY <1>2, <2>1 DEF KeyTells, Apis
    <3>2. QED
      BY <1>2, <2>1, <3>1, AnyApi
  <2>2. CASE KeyOf(q) \in DOMAIN entries /\ entries'[KeyOf(q)] = entries[KeyOf(q)]
    BY <2>2 DEF AskedInv, EntriesAsked
  <2>3. QED
    BY <1>1, <2>1, <2>2, InsertAdds DEF AskedInv, ClientInv
<1>4. d.asked = AskedFor(me.api, me.query)
  BY <1>2, DeliveredAsked
<1>5. tasks' = [tasks EXCEPT ![t] = [me EXCEPT !.pc = "done", !.reply = d]]
  BY <1>1, <1>2 DEF Deliver
<1> HIDE DEF d
<1>6. /\ tasks'[t].pc = "done" /\ tasks'[t].reply = d
      /\ tasks'[t].api = me.api /\ tasks'[t].query = me.query
      /\ \A u \in Tasks \ {t} : tasks'[u] = tasks[u]
  BY <1>2, <1>5 DEF Task
<1>7. \A u \in Tasks : TaskAsked(u)'
  BY <1>4, <1>6 DEF AskedInv, TaskAsked
<1>8. QED
  BY <1>3, <1>7 DEF AskedInv

LEMMA AskedNext ==
  ASSUME KeyTells PROVE AskedInv /\ [ClientNext]_clientVars => AskedInv'
<1> SUFFICES ASSUME AskedInv, [ClientNext]_clientVars PROVE AskedInv'
  OBVIOUS
<1>1. ClientInv'
  BY ClientInvNext DEF AskedInv
<1>2. ASSUME NEW t \in Tasks, TaskNext(t) PROVE AskedInv'
  BY <1>1, <1>2, AskedQuiet, AskedLookup, AskedStore DEF TaskNext
<1>3. CASE ClearCache \/ CachedEntries \/ Wait \/ UNCHANGED clientVars
  <2>1. UNCHANGED tasks /\ Forgets
    BY <1>3, CacheForgets DEF ClearCache, CachedEntries, Wait, clientVars, cacheUntouched
  <2>2. EntriesAsked' /\ \A t \in Tasks : TaskAsked(t)'
    BY <2>1 DEF AskedInv, EntriesAsked, TaskAsked, Forgets
  <2>3. QED
    BY <1>1, <2>2 DEF AskedInv
<1>4. QED
  BY <1>2, <1>3 DEF ClientNext

(* search: whoever filled the cache, the answer is from the backend the    *)
(* query itself would have asked, to what it asks, page, language, level   *)
(* and time range included: always at a server, and in this process        *)
(* as long as no engine is named with a comma in it.                       *)
THEOREM AnswersAlwaysOwnSelection ==
  ASSUME Embedded => CommaFree PROVE ClientSpec => []AnswersOwnSelection
<1>1. AskedInv => AnswersOwnSelection
  BY DEF AskedInv, TaskAsked, AnswersOwnSelection, Replied
<1>2. KeyTells
  BY CommaFreeKeyTells
<1>3. QED
  BY <1>1, <1>2, AskedInit, AskedNext, PTL DEF ClientSpec
=============================================================================
