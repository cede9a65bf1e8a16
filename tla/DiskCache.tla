------------------------------ MODULE DiskCache ------------------------------
(***************************************************************************)
(* The on-disk cache of fetched pages, src/src/disk_cache.rs, as the CLI   *)
(* uses it in fetch_report of src/src/bin/darash.rs.                       *)
(*                                                                         *)
(* Every invocation of darash is a process of its own and they share one   *)
(* directory with no lock. A step here is one call to the file system: an  *)
(* unlink, a rename, opening a file, writing one block. Between two steps  *)
(* of one process any other process runs, or the process is killed.        *)
(*                                                                         *)
(* Names and files are kept apart, as the file system does: a process that *)
(* has opened a file goes on writing to it after its name was removed or   *)
(* given to another file. A report is one or two blocks; what a reader     *)
(* parses as JSON is a file whose last block ends a report and no other    *)
(* block does.                                                             *)
(***************************************************************************)
EXTENDS Naturals, Sequences, FiniteSets

CONSTANTS
  Procs,        \* process slots
  Urls,
  Sizes,        \* the blocks a serialised report may take
  Ttl,          \* CACHE_TTL_SECS, in ticks
  MaxActive,    \* how many processes run at the same time
  MaxLaunches,  \* bound on the invocations
  MaxTime       \* bound on the clock

ASSUME DiskAssumption ==
  /\ IsFiniteSet(Procs)
  /\ Sizes \subseteq Nat \ {0}
  /\ Ttl \in Nat
  /\ MaxActive \in Nat
  /\ MaxLaunches \in Nat
  /\ MaxTime \in Nat

VARIABLES
  now,          \* now_secs()
  launches,     \* invocations so far; the last one is its process's id
  procs,        \* process -> its state
  dir,          \* name -> file, the directory
  files,        \* file -> its blocks
  origin,       \* ghost: id -> [url, no_store] of the responses received by
                \* invocations that use the cache
  stored        \* ghost: URL -> what the last store put in place, <<>> since
                \* the URL was asked for again

diskVars == <<now, launches, procs, dir, files, origin, stored>>

Json(u) == <<"json", u>>

(* What the temporary name must not be: the entry itself, or one name for  *)
(* all URLs.                                                               *)
InPlace(u) == Json(u)
OneTmpForAll(u) == <<"tmp", CHOOSE v \in Urls : TRUE>>

Tmp(u) == <<"tmp", u>>

(* A file some other version left: its blocks, like the zeros in a hole of *)
(* a file, belong to no report of this one. Either serde does not accept   *)
(* it, or it is a whole entry with a fetched_at and another cache_version. *)
Legacy == 0
Hole == [id |-> Legacy, last |-> FALSE, at |-> 0]
Foreign == [id |-> Legacy, last |-> TRUE, at |-> 0]

Parses(c) ==
  /\ c # <<>>
  /\ \A i \in DOMAIN c : c[i].id # Legacy /\ (c[i].last <=> i = Len(c))

(* The header with fetched_at is in the first block. *)
FetchedAt(c) == c[1].at

(* What Expired must not be: true already at the last moment. *)
ExpiredEarly(c, t) == t >= FetchedAt(c) + Ttl

(* now.saturating_sub(fetched_at) > CACHE_TTL_SECS *)
Expired(c, t) == t > FetchedAt(c) + Ttl

Exists(name) == name \in DOMAIN dir
Bytes(name) == files[dir[name]]

(* The bytes could be read, and are a report. *)
Readable(name) == Exists(name) /\ Parses(Bytes(name))

(* A report that is still fresh at time t. *)
Servable(name, t) == Readable(name) /\ ~Expired(Bytes(name), t)

(* What a sweep at time t leaves: it does not look at the cache_version.   *)
SweepKeeps(name, t) ==
  /\ Exists(name)
  /\ Parses(Bytes(name)) \/ Bytes(name) = <<Foreign>>
  /\ ~Expired(Bytes(name), t)

Off == [pc |-> "off", url |-> "none", cached |-> FALSE, id |-> Legacy, size |-> 0,
        todo |-> {}, clock |-> 0, victim |-> <<>>, file |-> Legacy, pos |-> 0,
        reply |-> <<>>]

Active == {p \in Procs : procs[p].pc # "off"}

At(p, label) == procs[p].pc = label

Go(p, label) == procs' = [procs EXCEPT ![p].pc = label]

(* fs::remove_file, its error ignored. *)
Unlink(name) == dir' = [n \in DOMAIN dir \ {name} |-> dir[n]]

Unchanged == UNCHANGED <<now, launches, files, origin>>

-----------------------------------------------------------------------------
DiskInit ==
  /\ now = 0
  /\ launches = 0
  /\ procs = [p \in Procs |-> Off]
  /\ origin = <<>>
  /\ stored = [u \in Urls |-> <<>>]
  /\ \E b \in {Hole, Foreign} : files = [f \in {Legacy} |-> <<b>>]
  /\ \/ dir = <<>>
     \/ \E u \in Urls : dir = [n \in {Json(u)} |-> Legacy]

(* cacheable is decided before anything is read: --no-cache, credentials,  *)
(* headers, other methods. --fresh skips the load.                         *)
Launch(p, u, mode) ==
  /\ At(p, "off")
  /\ Cardinality(Active) < MaxActive
  /\ launches < MaxLaunches
  /\ launches' = launches + 1
  /\ procs' = [procs EXCEPT ![p] =
       [Off EXCEPT !.pc = CASE mode = "plain"  -> "load"
                            [] mode = "fresh"  -> "remove"
                            [] mode = "bypass" -> "fetch",
                   !.url = u, !.cached = mode # "bypass", !.id = launches']]
  /\ UNCHANGED <<now, dir, files, origin, stored>>

(* What load must not do: wait for an entry it cannot parse to become one. *)
LoadInsists(p) ==
  LET name == Json(procs[p].url) IN
  /\ At(p, "load")
  /\ \/ /\ ~Exists(name)
        /\ Go(p, "remove")
     \/ /\ Readable(name)
        /\ Expired(Bytes(name), now)
        /\ Go(p, "load_unlink")
     \/ /\ Servable(name, now)
        /\ procs' = [procs EXCEPT ![p].pc = "done", ![p].reply = Bytes(name)]
  /\ UNCHANGED <<dir, stored>>
  /\ Unchanged

(* load: a miss, an expired entry, a hit, or a hit larger than --max-bytes. *)
Load(p) ==
  LET name == Json(procs[p].url) IN
  /\ At(p, "load")
  /\ \/ /\ ~Readable(name)
        /\ Go(p, "remove")
     \/ /\ Readable(name)
        /\ Expired(Bytes(name), now)
        /\ Go(p, "load_unlink")
     \/ /\ Servable(name, now)
        /\ procs' = [procs EXCEPT ![p].pc = "done", ![p].reply = Bytes(name)]
     \/ /\ Servable(name, now)
        /\ Go(p, "remove")
  /\ UNCHANGED <<dir, stored>>
  /\ Unchanged

LoadUnlink(p) ==
  /\ At(p, "load_unlink")
  /\ Unlink(Json(procs[p].url))
  /\ Go(p, "remove")
  /\ UNCHANGED stored
  /\ Unchanged

(* What RemoveOld must not do: leave the old entry for store to replace. *)
KeepOld(p) ==
  /\ At(p, "remove")
  /\ Go(p, "fetch")
  /\ UNCHANGED <<dir, stored>>
  /\ Unchanged

Forgotten(u) == stored' = [stored EXCEPT ![u] = <<>>]

(* remove, before the request: a refetch invalidates first. *)
RemoveOld(p) ==
  /\ At(p, "remove")
  /\ Unlink(Json(procs[p].url))
  /\ Forgotten(procs[p].url)
  /\ Go(p, "fetch")
  /\ Unchanged

Received(p, no_store) ==
  origin' = [i \in DOMAIN origin \cup {procs[p].id} |->
               IF i = procs[p].id
               THEN [url |-> procs[p].url, no_store |-> no_store]
               ELSE origin[i]]

FetchOk(p, no_store) ==
  /\ At(p, "fetch")
  /\ IF procs[p].cached THEN Received(p, no_store) ELSE UNCHANGED origin
  /\ procs' = [procs EXCEPT
       ![p].pc = CASE ~procs[p].cached            -> "done"
                   [] procs[p].cached /\ no_store  -> "forget"
                   [] procs[p].cached /\ ~no_store -> "sweep_open"]
  /\ UNCHANGED <<now, launches, dir, files, stored>>

(* No connection, a timeout, a body over the cap. *)
FetchFails(p) ==
  /\ At(p, "fetch")
  /\ Go(p, "failed")
  /\ UNCHANGED <<dir, stored>>
  /\ Unchanged

(* remove, after a response that says no-store. *)
Forget(p) ==
  /\ At(p, "forget")
  /\ Unlink(Json(procs[p].url))
  /\ Forgotten(procs[p].url)
  /\ Go(p, "done")
  /\ Unchanged

-----------------------------------------------------------------------------
(* store: sweep the directory, write beside the entry, rename over it.     *)

SweepOpen(p) ==
  /\ At(p, "sweep_open")
  /\ procs' = [procs EXCEPT ![p].pc = "sweep", ![p].todo = DOMAIN dir,
                            ![p].clock = now]
  /\ UNCHANGED <<dir, stored>>
  /\ Unchanged

Swept(p, name) == procs' = [procs EXCEPT ![p].todo = @ \ {name}]

(* What SweepTmp must not do: pass over what a killed process left. *)
SkipTmp(p, name) ==
  /\ At(p, "sweep")
  /\ name \in procs[p].todo
  /\ name[1] = "tmp"
  /\ Swept(p, name)
  /\ UNCHANGED <<dir, stored>>
  /\ Unchanged

SweepTmp(p, name) ==
  /\ At(p, "sweep")
  /\ name \in procs[p].todo
  /\ name[1] = "tmp"
  /\ Unlink(name)
  /\ Swept(p, name)
  /\ UNCHANGED stored
  /\ Unchanged

SweepRead(p, name) ==
  /\ At(p, "sweep")
  /\ name \in procs[p].todo
  /\ name[1] = "json"
  /\ \/ /\ Exists(name) => SweepKeeps(name, procs[p].clock)
        /\ Swept(p, name)
     \/ /\ Exists(name)
        /\ ~SweepKeeps(name, procs[p].clock)
        /\ procs' = [procs EXCEPT ![p].pc = "sweep_unlink", ![p].victim = name]
  /\ UNCHANGED <<dir, stored>>
  /\ Unchanged

SweepUnlink(p) ==
  /\ At(p, "sweep_unlink")
  /\ Unlink(procs[p].victim)
  /\ procs' = [procs EXCEPT ![p].pc = "sweep", ![p].victim = <<>>,
                            ![p].todo = @ \ {procs[p].victim}]
  /\ UNCHANGED stored
  /\ Unchanged

(* The sweep is over, fetched_at is read and the report serialised. *)
Stamp(p, size) ==
  /\ At(p, "sweep")
  /\ procs[p].todo = {}
  /\ procs' = [procs EXCEPT ![p].pc = "create", ![p].clock = now,
                            ![p].size = size]
  /\ UNCHANGED <<dir, stored>>
  /\ Unchanged

(* File::create: an existing file of that name is emptied and shared. *)
Create(p) ==
  LET name == Tmp(procs[p].url)
      file == IF Exists(name) THEN dir[name] ELSE procs[p].id
  IN  /\ At(p, "create")
      /\ dir' = [n \in DOMAIN dir \cup {name} |-> IF n = name THEN file ELSE dir[n]]
      /\ files' = [f \in DOMAIN files \cup {file} |->
                     IF f = file THEN <<>> ELSE files[f]]
      /\ procs' = [procs EXCEPT ![p].pc = "write", ![p].file = file, ![p].pos = 1]
      /\ UNCHANGED <<now, launches, origin, stored>>

(* c with block b at position i; writing past the end leaves a hole. *)
WriteAt(c, i, b) ==
  [j \in 1 .. (IF Len(c) > i THEN Len(c) ELSE i) |->
     IF j = i THEN b ELSE IF j <= Len(c) THEN c[j] ELSE Hole]

Write(p) ==
  LET me == procs[p]
      block == [id |-> me.id, last |-> me.pos = me.size, at |-> me.clock]
  IN  /\ At(p, "write")
      /\ files' = [files EXCEPT ![me.file] = WriteAt(@, me.pos, block)]
      /\ procs' = [procs EXCEPT ![p].pc = IF block.last THEN "rename" ELSE "write",
                                ![p].pos = @ + 1]
      /\ UNCHANGED <<now, launches, dir, origin, stored>>

(* A full disk, a missing permission: store gives up where it is, and its  *)
(* caller ignores it.                                                      *)
StoreFails(p) ==
  /\ procs[p].pc \in {"sweep_open", "create", "write", "rename"}
  /\ Go(p, "gave_up")
  /\ UNCHANGED <<dir, stored>>
  /\ Unchanged

(* rename names whatever file the temporary name stands for by now. *)
Rename(p) ==
  LET name == Tmp(procs[p].url)
      entry == Json(procs[p].url)
  IN  /\ At(p, "rename")
      /\ IF Exists(name)
         THEN /\ dir' = [n \in (DOMAIN dir \ {name}) \cup {entry} |->
                           IF n = entry THEN dir[name] ELSE dir[n]]
              /\ stored' = [stored EXCEPT ![procs[p].url] = Bytes(name)]
         ELSE UNCHANGED <<dir, stored>>
      /\ Go(p, "done")
      /\ Unchanged

-----------------------------------------------------------------------------
(* The fetch is over: with a report, without one, with one nobody stored. *)
Over == {"done", "failed", "gave_up"}

Exit(p) ==
  /\ procs[p].pc \in Over
  /\ procs' = [procs EXCEPT ![p] = Off]
  /\ UNCHANGED <<dir, stored>>
  /\ Unchanged

(* Killed, in the middle of anything. *)
Kill(p) ==
  /\ procs[p].pc \notin Over \cup {"off"}
  /\ procs' = [procs EXCEPT ![p] = Off]
  /\ UNCHANGED <<dir, stored>>
  /\ Unchanged

Pass ==
  /\ now < MaxTime
  /\ now' = now + 1
  /\ UNCHANGED <<launches, procs, dir, files, origin, stored>>

(* What a process that is left to itself does. *)
Step(p) ==
  \/ Load(p) \/ LoadUnlink(p) \/ RemoveOld(p)
  \/ \E no_store \in BOOLEAN : FetchOk(p, no_store)
  \/ FetchFails(p) \/ Forget(p)
  \/ SweepOpen(p)
  \/ \E name \in procs[p].todo : SweepTmp(p, name) \/ SweepRead(p, name)
  \/ SweepUnlink(p)
  \/ \E size \in Sizes : Stamp(p, size)
  \/ Create(p) \/ Write(p) \/ StoreFails(p) \/ Rename(p)

DiskNext ==
  \/ \E p \in Procs :
       \/ \E u \in Urls, mode \in {"plain", "fresh", "bypass"} : Launch(p, u, mode)
       \/ Step(p)
       \/ Exit(p)
       \/ Kill(p)
  \/ Pass

DiskSpec == DiskInit /\ [][DiskNext]_diskVars

(* The kernel schedules every process and the request has a timeout. *)
FairDiskSpec == DiskSpec /\ \A p \in Procs : WF_diskVars(Step(p))

-----------------------------------------------------------------------------
FromOneFetch(c) == \A i \in DOMAIN c : c[i].id = c[1].id

(* "Store a report for `url`, atomically": whoever opens the entry of a    *)
(* URL finds one whole report, whatever was killed before.                 *)
EntryAlwaysWhole ==
  \A u \in Urls : Exists(Json(u)) /\ dir[Json(u)] # Legacy =>
    Readable(Json(u)) /\ FromOneFetch(Bytes(Json(u)))

(* "Stores each fetched report for a couple of minutes": what a store put  *)
(* in place stays readable for its whole lifetime, until somebody asks for *)
(* that URL again: not a sweep nor a failed store for another URL, nor a   *)
(* kill anywhere, nor a load that finds the entry at the last moment of    *)
(* its life takes it away.                                                 *)
StoredIsKept ==
  \A u \in Urls :
    stored[u] # <<>> /\ now <= FetchedAt(stored[u]) + Ttl =>
      Readable(Json(u)) /\ Bytes(Json(u)) = stored[u]

(* A store that ran to its end leaves no temporary file of anybody behind, *)
(* also after others were killed while they wrote theirs.                  *)
StoreLeavesNoTmp ==
  [][ \A p \in Procs :
        procs[p].pc = "rename" /\ procs'[p].pc = "done" =>
          \A n \in DOMAIN dir' : n[1] = "json" ]_diskVars

(* A refetch invalidates before it asks: when the request then fails, the  *)
(* next invocation does not find what the failed one was to replace.       *)
FailedFetchLeavesNoEntry ==
  \A p \in Procs : At(p, "failed") /\ procs[p].cached =>
    ~Exists(Json(procs[p].url))

(* A hit is what the server sent for that URL, to a request whose response *)
(* did not forbid storing it, however stores, sweeps and kills interleave. *)
HitIsForItsUrl ==
  \A p \in Procs : \A i \in DOMAIN procs[p].reply :
    LET id == procs[p].reply[i].id IN
    /\ id \in DOMAIN origin
    /\ origin[id].url = procs[p].url
    /\ ~origin[id].no_store

(* A hit is the newest of the responses that invocations which use the     *)
(* cache received for its URL: once a refetch has seen a newer page, no    *)
(* later invocation is shown the old one, also when the newer could not be *)
(* stored, was not to be stored, or its process was killed before.         *)
HitIsNewest ==
  \A p \in Procs : procs[p].reply # <<>> =>
    \A i \in DOMAIN origin :
      origin[i].url = procs[p].url => i <= procs[p].reply[1].id

(* Every invocation ends, whatever the others leave in the directory. *)
EveryFetchEnds ==
  \A p \in Procs : (procs[p].pc # "off") ~> (procs[p].pc \in Over \cup {"off"})
=============================================================================
