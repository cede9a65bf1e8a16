---------------------------- MODULE SearchClient ----------------------------
(***************************************************************************)
(* The search client, src/src/lib.rs: searches of several tasks that share *)
(* one client and through it one response cache.                           *)
(*                                                                         *)
(* search looks its key up, and on a miss lets go of the cache, waits for  *)
(* the backend and then inserts what came back. Between those two steps    *)
(* other tasks search, the cache is cleared, time passes, or the caller    *)
(* drops the future. The cache itself is TtlCache.                         *)
(***************************************************************************)
EXTENDS ProviderSelection

CONSTANTS
  Tasks,        \* the callers
  ClientQueries,\* the queries they search for
  Rejected,     \* those of them the checks at the top of search refuse
  Embedded,     \* local() rather than new(): providers in this process
  Sizes,        \* how many results the backend may return
  MaxFetches,   \* bound on the backend's successful answers
  NoValue, Capacity, Ttl, MaxInstant

ASSUME ClientAssumption ==
  /\ Rejected \subseteq ClientQueries
  /\ ClientQueries \subseteq QueryRecords
  /\ Embedded \in BOOLEAN
  /\ Sizes \subseteq Nat
  /\ {MaxFetches, Capacity, Ttl, MaxInstant} \subseteq Nat

VARIABLES
  tasks,        \* task -> [pc, api, query, reply, before]; before is a
                \* ghost: the fetches stored when the search was called
  fetches,      \* how many answers the backend has given
  stored,       \* ghost: the fetches handed to insert
  cleared,      \* ghost: those of them in a cache that was cleared
  now, entries, order, reply

clientVars == <<tasks, fetches, stored, cleared, now, entries, order, reply>>

(* to_query_string: the names of the engines reach the string joined by    *)
(* commas, the other fields as pairs of their own.                         *)
QueryString(q) ==
  [text |-> q.text, categories |-> q.categories, engines |-> FlattenSeq(q.engines),
   language |-> q.language, page |-> q.page, safe_search |-> q.safe_search,
   time_range |-> q.time_range]

(* What the key must not be: without the mode, which is not in the string. *)
KeyWithoutMode(q) == [string |-> QueryString(q)]

(* (self.embedded, query.mode(), query.to_query_string()) *)
KeyOf(q) == [mode |-> q.mode, string |-> QueryString(q)]

Apis == {"search", "search_request", "search_websurfx"}

(* A SearchRequest has a text, a mode and sources, which become categories. *)
Askable(api, q) ==
  api = "search_request" =>
    /\ q.engines = <<>> /\ q.page = 0 /\ q.safe_search = 0
    /\ ~q.language /\ ~q.time_range

(* Whom a search asks, and for what: the providers the embedded backend    *)
(* selects, with the constraints it forwards to them or reports in the     *)
(* coverage; or the server. A local client has an endpoint too, and        *)
(* search_websurfx always asks it, for what a WebsurfxQuery can say.       *)
AskedFor(api, q) ==
  CASE api = "search_websurfx" ->
         [server |-> "websurfx", text |-> q.text, page |-> q.page,
          safe_search |-> q.safe_search]
    [] api # "search_websurfx" /\ Embedded ->
         [providers |-> Providers(q), text |-> q.text, page |-> q.page,
          safe_search |-> q.safe_search, language |-> q.language,
          time_range |-> q.time_range]
    [] api # "search_websurfx" /\ ~Embedded ->
         [server |-> "searxng", text |-> q.text, page |-> q.page,
          safe_search |-> q.safe_search, language |-> q.language,
          time_range |-> q.time_range, categories |-> q.categories,
          engines |-> FlattenSeq(q.engines)]

(* number is how many results the backend gave, size how many there are in *)
(* results and sources.                                                    *)
Responses ==
  [asked : {AskedFor(api, q) : api \in Apis, q \in ClientQueries},
   number : Sizes, size : Nat, id : 1 .. MaxFetches]

(* None is not Some of a response. *)
ASSUME NoneAssumption == NoValue \notin Responses

Cache == INSTANCE TtlCache WITH
           Keys <- {KeyOf(q) : q \in ClientQueries}, Values <- Responses

cacheUntouched == UNCHANGED <<now, entries, order, reply>>

Idle == [pc |-> "idle", api |-> "none", query |-> NoValue, reply |-> NoValue,
         before |-> {}]

(* An Err: nothing of the call is left. *)
GivenUp == [Idle EXCEPT !.pc = "failed"]

ResultLimit == [speed |-> 5, balanced |-> 10, quality |-> 20]

(* limit_response: search_request cuts its copy, after the cache. *)
Limited(r, mode) ==
  [r EXCEPT !.size = IF @ > ResultLimit[mode] THEN ResultLimit[mode] ELSE @]

Delivered(api, q, r) == IF api = "search_request" THEN Limited(r, q.mode) ELSE r

Move(t, to) == tasks' = [tasks EXCEPT ![t].pc = to]

Deliver(t, r) ==
  tasks' = [tasks EXCEPT
    ![t].pc = "done",
    ![t].reply = Delivered(tasks[t].api, tasks[t].query, r)]

-----------------------------------------------------------------------------
ClientInit ==
  /\ Cache!CacheInit
  /\ tasks = [t \in Tasks |-> Idle]
  /\ fetches = 0
  /\ stored = {}
  /\ cleared = {}

(* What search_request must not do: go to the backend past the cache. *)
CallPastCache(t, api, q) ==
  /\ tasks[t].pc \in {"idle", "done", "failed"}
  /\ Askable(api, q)
  /\ tasks' = [tasks EXCEPT ![t] =
       IF q \in Rejected THEN GivenUp
       ELSE [pc |-> IF api = "search" THEN "lookup" ELSE "fetching",
             api |-> api, query |-> q, reply |-> NoValue, before |-> stored]]
  /\ UNCHANGED <<fetches, stored, cleared>>
  /\ cacheUntouched

(* The checks of search and search_websurfx come before anything else;     *)
(* search_websurfx goes to its backend without looking at the cache.       *)
Call(t, api, q) ==
  /\ tasks[t].pc \in {"idle", "done", "failed"}
  /\ Askable(api, q)
  /\ tasks' = [tasks EXCEPT ![t] =
       IF q \in Rejected THEN GivenUp
       ELSE [pc |-> IF api = "search_websurfx" THEN "fetching" ELSE "lookup",
             api |-> api, query |-> q, reply |-> NoValue, before |-> stored]]
  /\ UNCHANGED <<fetches, stored, cleared>>
  /\ cacheUntouched

Lookup(t) ==
  /\ tasks[t].pc = "lookup"
  /\ Cache!Get(KeyOf(tasks[t].query))
  /\ \/ reply' # NoValue /\ Deliver(t, reply')
     \/ reply' = NoValue /\ Move(t, "fetching")
  /\ UNCHANGED <<fetches, stored, cleared>>

(* The backend answers. No other await lies between this and the insert,   *)
(* but other threads run.                                                  *)
Answered(t, n) ==
  /\ tasks[t].pc = "fetching"
  /\ fetches < MaxFetches
  /\ LET r == [asked |-> AskedFor(tasks[t].api, tasks[t].query), number |-> n, size |-> n,
               id |-> fetches + 1]
     IN  tasks' = [tasks EXCEPT
           ![t].pc = IF tasks[t].api = "search_websurfx" THEN "done" ELSE "storing",
           ![t].reply = r]
  /\ fetches' = fetches + 1
  /\ UNCHANGED <<stored, cleared>>
  /\ cacheUntouched

(* What a failure must not depend on: a server that still answers. *)
FailedByServer(t) ==
  /\ tasks[t].pc = "fetching"
  /\ fetches < MaxFetches
  /\ tasks' = [tasks EXCEPT ![t] = GivenUp]
  /\ UNCHANGED <<fetches, stored, cleared>>
  /\ cacheUntouched

(* A refused connection, an HTTP status, an oversized or undecodable body, *)
(* every provider failing, or the client's timeout: the ? leaves search.   *)
Failed(t) ==
  /\ tasks[t].pc = "fetching"
  /\ tasks' = [tasks EXCEPT ![t] = GivenUp]
  /\ UNCHANGED <<fetches, stored, cleared>>
  /\ cacheUntouched

(* What Store must not do: cut the response before it is cached. *)
StoreLimited(t) ==
  /\ tasks[t].pc = "storing"
  /\ LET cut == Delivered(tasks[t].api, tasks[t].query, tasks[t].reply)
     IN  Cache!Insert(KeyOf(tasks[t].query), cut) /\ Deliver(t, cut)
  /\ stored' = stored \cup {tasks[t].reply.id}
  /\ UNCHANGED <<fetches, cleared>>

Store(t) ==
  /\ tasks[t].pc = "storing"
  /\ Cache!Insert(KeyOf(tasks[t].query), tasks[t].reply)
  /\ Deliver(t, tasks[t].reply)
  /\ stored' = stored \cup {tasks[t].reply.id}
  /\ UNCHANGED <<fetches, cleared>>

(* The future is dropped where it waits. *)
Abandon(t) ==
  /\ tasks[t].pc = "fetching"
  /\ tasks' = [tasks EXCEPT ![t] = Idle]
  /\ UNCHANGED <<fetches, stored, cleared>>
  /\ cacheUntouched

(* What ClearCache must not do: reclaim what has expired and stop there. *)
ClearExpiredOnly ==
  /\ Cache!Count
  /\ cleared' = {entries[k].value.id : k \in DOMAIN entries} \cup cleared
  /\ UNCHANGED <<tasks, fetches, stored>>

ClearCache ==
  /\ Cache!Clear
  /\ cleared' = {entries[k].value.id : k \in DOMAIN entries} \cup cleared
  /\ UNCHANGED <<tasks, fetches, stored>>

CachedEntries ==
  /\ Cache!Count
  /\ UNCHANGED <<tasks, fetches, stored, cleared>>

Wait ==
  /\ Cache!Tick
  /\ UNCHANGED <<tasks, fetches, stored, cleared>>

TaskNext(t) ==
  \/ \E api \in Apis, q \in ClientQueries : Call(t, api, q)
  \/ Lookup(t)
  \/ \E n \in Sizes : Answered(t, n)
  \/ Failed(t)
  \/ Store(t)
  \/ Abandon(t)

ClientNext ==
  \/ \E t \in Tasks : TaskNext(t)
  \/ ClearCache
  \/ CachedEntries
  \/ Wait

(* The runtime polls every task, and reqwest's timeout ends every request  *)
(* a server does not answer. Nobody has to call, drop or clear anything.   *)
ClientFairness ==
  \A t \in Tasks :
    /\ WF_clientVars(Lookup(t))
    /\ WF_clientVars(Failed(t) \/ \E n \in Sizes : Answered(t, n))
    /\ WF_clientVars(Store(t))

ClientSpec == ClientInit /\ [][ClientNext]_clientVars

FairClientSpec == ClientSpec /\ ClientFairness

-----------------------------------------------------------------------------
Replied(t) == tasks[t].pc = "done"

CachedResponses == {entries[k].value : k \in DOMAIN entries}

(* A search is answered by the backend it would have asked itself, and     *)
(* with the answer to what it asked: what the key leaves out of the query  *)
(* must decide neither whom the search asks nor for what.                  *)
(* README: "SearchQuery::with_engines selects the local provider names".   *)
(* (A name with a comma in it reads like two in the key: README, Known.)   *)
AnswersOwnSelection ==
  \A t \in Tasks : Replied(t) =>
    tasks[t].reply.asked = AskedFor(tasks[t].api, tasks[t].query)

Whole(r) == r.size = r.number

(* What search_request cuts off is cut from its own copy: the cache holds  *)
(* responses as the backend gave them, each caller of search gets one of   *)
(* them whole, each caller of search_request its first results only.       *)
RepliesFromWholeResponses ==
  /\ \A r \in CachedResponses : Whole(r)
  /\ \A t \in Tasks : Replied(t) =>
       LET r == tasks[t].reply
           limit == ResultLimit[tasks[t].query.mode]
       IN  IF tasks[t].api = "search_request"
           THEN r.size <= limit /\ (r.number <= limit => Whole(r))
           ELSE Whole(r)

(* No answer that was in the cache when it was cleared is ever in it again:*)
(* only searches that were still under way can put back something old.     *)
ClearedStaysGone ==
  \A r \in CachedResponses : r.id \notin cleared

(* While a search waits for the backend, a readable answer to it in the    *)
(* cache was stored after the search was called. Searches of one key do    *)
(* overlap, and each fetches; none fetches what it could have read.        *)
NoNeedlessFetch ==
  \A t \in Tasks :
    tasks[t].pc \in {"fetching", "storing"} /\ tasks[t].api # "search_websurfx" =>
      LET k == KeyOf(tasks[t].query)
      IN  k \in Cache!Live => entries[k].value.id \notin tasks[t].before

(* Every search that is called returns, unless its caller drops it.        *)
SearchReturns ==
  \A t \in Tasks :
    (tasks[t].pc \in {"lookup", "fetching", "storing"})
      ~> (tasks[t].pc \in {"done", "failed", "idle"})
=============================================================================
