--------------------------- MODULE DiskCacheProofs ---------------------------
(***************************************************************************)
(* Proofs about DiskCache, for any processes, URLs, sizes and lifetime.    *)
(*                                                                         *)
(* However many processes run, a hit is what the server sent for its URL   *)
(* and allowed to store. No name decides that alone. Two stores of one URL *)
(* share a temporary file, and a file outlives its name, so the invariant  *)
(* says of each file for which URL it was first created, and of each       *)
(* writer and each name that it agrees with that, whatever blocks the file *)
(* holds by then.                                                          *)
(*                                                                         *)
(* That entries are whole, that a failed refetch leaves none, that what is *)
(* stored stays for its lifetime, that a hit is the newest response and    *)
(* that a store clears up holds as long as one process at a time uses the  *)
(* directory; the second half assumes that. Processes are still killed     *)
(* anywhere and others follow them.                                        *)
(***************************************************************************)
EXTENDS DiskCache, FiniteSetTheorems, TLAPS

Names == {"json", "tmp"} \X Urls
Block == [id : Nat, last : BOOLEAN, at : Nat]
Response == [url : Urls, no_store : BOOLEAN]

Asking == {"load", "load_unlink", "remove", "fetch"}
Storing == {"sweep_open", "sweep", "sweep_unlink", "create", "write", "rename"}

Process ==
  [pc : Asking \cup Storing \cup Over \cup {"forget", "off"},
   url : Urls \cup {"none"}, cached : BOOLEAN, id : Nat, size : Nat,
   todo : SUBSET Names, clock : Nat, victim : Names \cup {<<>>}, file : Nat,
   pos : Nat, reply : Seq(Block)]

DiskTypes ==
  /\ now \in Nat /\ launches \in Nat
  /\ procs \in [Procs -> Process]
  /\ DOMAIN dir \subseteq Names
  /\ DOMAIN files \subseteq Nat
  /\ files \in [DOMAIN files -> Seq(Block)]
  /\ DOMAIN origin \subseteq 1 .. launches
  /\ origin \in [DOMAIN origin -> Response]

(* A response for url that may be stored.                                  *)
Storable(id, url) ==
  id \in DOMAIN origin /\ origin[id].url = url /\ ~origin[id].no_store

(* Each file but the legacy one was created for one URL, and what is in it *)
(* are blocks of reports for that URL and holes.                           *)
Content(f) ==
  \A i \in DOMAIN files[f] :
    files[f][i].id = Legacy \/ Storable(files[f][i].id, origin[f].url)

FilesOK ==
  \A f \in DOMAIN files :
    IF f = Legacy THEN \A i \in DOMAIN files[f] : files[f][i].id = Legacy
                  ELSE f \in DOMAIN origin /\ Content(f)

(* A name is the name of a file of its URL. *)
NameOK(n) ==
  /\ dir[n] \in DOMAIN files
  /\ IF dir[n] = Legacy THEN n[1] = "json" ELSE origin[dir[n]].url = n[2]

DirOK == \A n \in DOMAIN dir : NameOK(n)

ProcOK(p) ==
  /\ ~At(p, "off") => procs[p].url \in Urls /\ procs[p].id \in 1 .. launches
  /\ procs[p].pc \in Asking => procs[p].id \notin DOMAIN origin
  /\ procs[p].pc \in Storing => Storable(procs[p].id, procs[p].url)
  /\ At(p, "write") =>
       /\ procs[p].file \in DOMAIN files /\ procs[p].file # Legacy
       /\ origin[procs[p].file].url = procs[p].url
  /\ \A i \in DOMAIN procs[p].reply : Storable(procs[p].reply[i].id, procs[p].url)

OwnIds ==
  \A p, q \in Procs : ~At(p, "off") /\ ~At(q, "off") /\ p # q => procs[p].id # procs[q].id

DiskInv == DiskTypes /\ FilesOK /\ DirOK /\ (\A p \in Procs : ProcOK(p)) /\ OwnIds

-----------------------------------------------------------------------------
LEMMA OffIsProcess == Off \in Process
<1>1. <<>> \in Seq(Block)
  OBVIOUS
<1>2. QED
  BY <1>1 DEF Off, Process, Asking, Storing, Over, Legacy

LEMMA HoleIsBlock == <<Hole>> \in Seq(Block) /\ <<Foreign>> \in Seq(Block)
BY DEF Hole, Foreign, Block, Legacy

LEMMA DiskInvInit == DiskInit => DiskInv
<1> SUFFICES ASSUME DiskInit PROVE DiskInv
  OBVIOUS
<1>1. DOMAIN origin = {} /\ origin \in [DOMAIN origin -> Response]
  <2>1. origin = [i \in {} |-> i]
    BY DEF DiskInit
  <2>2. QED
    BY <2>1
<1>2. procs \in [Procs -> Process] /\ \A p \in Procs : procs[p] = Off
  BY OffIsProcess DEF DiskInit
<1>3. /\ DOMAIN files = {Legacy} /\ files[Legacy] \in {<<Hole>>, <<Foreign>>}
      /\ files \in [DOMAIN files -> Seq(Block)]
  BY HoleIsBlock DEF DiskInit
<1>4. \A n \in DOMAIN dir : n \in Names /\ n[1] = "json" /\ dir[n] = Legacy
  <2>1. CASE dir = <<>>
    <3>1. DOMAIN dir = {}
      BY <2>1
    <3>2. QED
      BY <3>1
  <2>2. ASSUME NEW u \in Urls, dir = [n \in {Json(u)} |-> Legacy]
        PROVE  \A n \in DOMAIN dir : n \in Names /\ n[1] = "json" /\ dir[n] = Legacy
    <3>1. DOMAIN dir = {<<"json", u>>} /\ dir[<<"json", u>>] = Legacy
      BY <2>2 DEF Json
    <3>2. <<"json", u>> \in Names
      BY DEF Names
    <3>3. QED
      BY <3>1, <3>2
  <2>3. QED
    BY <2>1, <2>2 DEF DiskInit
<1>5. DiskTypes
  BY <1>1, <1>2, <1>3, <1>4 DEF DiskInit, DiskTypes, Legacy
<1>6. FilesOK
  BY <1>3 DEF FilesOK, Hole, Foreign
<1>7. DirOK
  BY <1>3, <1>4 DEF DirOK, NameOK
<1>8. OwnIds /\ \A p \in Procs : ProcOK(p)
  BY <1>2 DEF OwnIds, ProcOK, At, Off, Asking, Storing
<1>9. QED
  BY <1>5, <1>6, <1>7, <1>8 DEF DiskInv

-----------------------------------------------------------------------------
(* One process moves on, under its URL and id, or is gone.                 *)
Moves(p) ==
  /\ procs' \in [Procs -> Process]
  /\ \A q \in Procs \ {p} : procs'[q] = procs[q]
  /\ \/ procs'[p] = Off
     \/ /\ ~At(p, "off")
        /\ procs'[p].url = procs[p].url /\ procs'[p].id = procs[p].id

LEMMA OwnIdsKept ==
  ASSUME DiskInv, NEW p \in Procs, Moves(p) PROVE OwnIds'
BY DEF DiskInv, Moves, OwnIds, At, Off

(* The others keep theirs as long as responses and files stay.             *)
LEMMA OthersKeep ==
  ASSUME DiskInv, NEW p \in Procs, Moves(p), ProcOK(p)',
         UNCHANGED <<launches, origin>>, DOMAIN files \subseteq DOMAIN files'
  PROVE  \A q \in Procs : ProcOK(q)'
<1> SUFFICES ASSUME NEW q \in Procs, q # p PROVE ProcOK(q)'
  OBVIOUS
<1>1. procs'[q] = procs[q] /\ ProcOK(q)
  BY DEF Moves, DiskInv
<1>2. QED
  BY <1>1 DEF ProcOK, Storable, At

LEMMA DirKept ==
  ASSUME DiskInv, UNCHANGED <<files, origin>>,
         dir' = dir \/ \E name : Unlink(name)
  PROVE  DOMAIN dir' \subseteq Names /\ DirOK'
<1>1. \A n \in DOMAIN dir' : n \in DOMAIN dir /\ dir'[n] = dir[n]
  BY DEF Unlink
<1>2. QED
  BY <1>1 DEF DiskInv, DiskTypes, DirOK, NameOK

(* A step that writes no file.                                             *)
LEMMA QuietStep ==
  ASSUME DiskInv, NEW p \in Procs, Moves(p), ProcOK(p)', Unchanged,
         dir' = dir \/ \E name : Unlink(name)
  PROVE  DiskInv'
<1>1. DOMAIN dir' \subseteq Names /\ DirOK'
  BY DirKept DEF Unchanged
<1>2. OwnIds' /\ \A q \in Procs : ProcOK(q)'
  BY OwnIdsKept, OthersKeep DEF Unchanged
<1>3. FilesOK'
  BY DEF DiskInv, FilesOK, Content, Storable, Unchanged
<1>4. DiskTypes'
  BY <1>1 DEF DiskInv, DiskTypes, Moves, Unchanged
<1>5. QED
  BY <1>1, <1>2, <1>3, <1>4 DEF DiskInv

(* What a process with the same URL, id, file and reply goes on to be.     *)
LEMMA SameProcess ==
  ASSUME DiskInv, NEW p \in Procs, Moves(p), Unchanged, ~At(p, "off"),
         procs'[p].reply = procs[p].reply,
         procs'[p].pc \in Asking => procs[p].pc \in Asking,
         procs'[p].pc \in Storing => procs[p].pc \in Storing,
         procs'[p].pc # "write"
  PROVE  ProcOK(p)'
<1>1. ProcOK(p) /\ procs[p].url \in Urls /\ procs[p].id \in 1 .. launches
  BY DEF DiskInv, ProcOK
<1>2. CASE procs'[p] = Off
  <2>1. procs'[p].pc = "off" /\ procs'[p].reply = <<>>
    BY <1>2 DEF Off
  <2>2. QED
    BY <2>1 DEF ProcOK, At, Asking, Storing
<1>3. CASE procs'[p].url = procs[p].url /\ procs'[p].id = procs[p].id
  BY <1>1, <1>3 DEF ProcOK, Storable, At, Unchanged
<1>4. QED
  BY <1>2, <1>3 DEF Moves

(* Steps that change only the stage, and what the sweep keeps.             *)
LEMMA GoMoves ==
  ASSUME DiskInv, NEW p \in Procs, ~At(p, "off"),
         NEW label \in Asking \cup Storing \cup Over \cup {"forget"}, Go(p, label)
  PROVE  /\ Moves(p) /\ procs'[p].pc = label
         /\ procs'[p].reply = procs[p].reply
<1>1. procs[p] \in Process /\ procs \in [Procs -> Process]
  BY DEF DiskInv, DiskTypes
<1>2. [procs[p] EXCEPT !.pc = label] \in Process
  BY <1>1 DEF Process
<1>3. procs' = [procs EXCEPT ![p] = [procs[p] EXCEPT !.pc = label]]
  BY DEF Go
<1>4. procs'[p] = [procs[p] EXCEPT !.pc = label]
  BY <1>1, <1>3
<1>5. QED
  BY <1>1, <1>2, <1>3, <1>4 DEF Moves, Process

LEMMA GoneMoves ==
  ASSUME DiskInv, NEW p \in Procs, procs' = [procs EXCEPT ![p] = Off]
  PROVE  Moves(p) /\ ProcOK(p)'
<1>1. procs \in [Procs -> Process]
  BY DEF DiskInv, DiskTypes
<1>2. procs'[p] = Off /\ Moves(p)
  BY <1>1, OffIsProcess DEF Moves
<1>3. procs'[p].pc = "off" /\ procs'[p].reply = <<>>
  BY <1>2 DEF Off
<1>4. QED
  BY <1>2, <1>3 DEF ProcOK, At, Asking, Storing

(* A stage follows another and the directory loses at most one name.       *)
LEMMA GoStep ==
  ASSUME DiskInv, NEW p \in Procs, Unchanged, dir' = dir \/ (\E name : Unlink(name)),
         NEW from, At(p, from),
         NEW label \in Asking \cup Storing \cup Over \cup {"forget"}, Go(p, label),
         label \in Asking => from \in Asking,
         label \in Storing => from \in Storing,
         from # "off", label # "write"
  PROVE  DiskInv'
<1>1. ~At(p, "off") /\ procs[p].pc = from
  BY DEF At
<1>2. /\ Moves(p) /\ procs'[p].pc = label
      /\ procs'[p].reply = procs[p].reply
  BY <1>1, GoMoves
<1>3. QED
  BY <1>1, <1>2, SameProcess, QuietStep

-----------------------------------------------------------------------------
LEMMA BytesOK ==
  ASSUME DiskInv, NEW u \in Urls, Readable(Json(u))
  PROVE  /\ Bytes(Json(u)) \in Seq(Block)
         /\ \A i \in DOMAIN Bytes(Json(u)) : Storable(Bytes(Json(u))[i].id, u)
<1> DEFINE f == dir[Json(u)]
<1>1. NameOK(Json(u)) /\ Json(u)[2] = u
  BY DEF Readable, Exists, DiskInv, DirOK, Json
<1>2. f \in DOMAIN files /\ files[f] \in Seq(Block) /\ Bytes(Json(u)) = files[f]
  BY <1>1 DEF NameOK, DiskInv, DiskTypes, Bytes
<1>3. \A i \in DOMAIN files[f] : files[f][i].id # Legacy
  BY <1>2 DEF Readable, Parses
<1>4. f # Legacy
  <2>1. files[f] # <<>>
    BY <1>2 DEF Readable, Parses
  <2>2. 1 \in DOMAIN files[f]
    BY <1>2, <2>1
  <2>3. QED
    BY <1>2, <1>3, <2>2 DEF DiskInv, FilesOK
<1>5. Content(f) /\ origin[f].url = u
  BY <1>1, <1>2, <1>4 DEF NameOK, DiskInv, FilesOK
<1>6. QED
  BY <1>2, <1>3, <1>5 DEF Content

LEMMA LoadKeeps == ASSUME DiskInv, NEW p \in Procs, Load(p) PROVE DiskInv'
<1> DEFINE name == Json(procs[p].url)
<1>1. At(p, "load") /\ UNCHANGED dir /\ Unchanged
  BY DEF Load
<1>2. CASE Go(p, "remove") \/ Go(p, "load_unlink")
  BY <1>1, <1>2, GoStep DEF Asking, Storing
<1>3. CASE /\ Servable(name, now)
           /\ procs' = [procs EXCEPT ![p].pc = "done", ![p].reply = Bytes(name)]
  <2>1. procs[p].url \in Urls /\ procs[p].id \in 1 .. launches
    BY <1>1 DEF DiskInv, ProcOK, At
  <2>2. /\ Bytes(name) \in Seq(Block)
        /\ \A i \in DOMAIN Bytes(name) : Storable(Bytes(name)[i].id, procs[p].url)
    BY <1>3, <2>1, BytesOK DEF Servable
  <2> HIDE DEF name
  <2>3. procs[p] \in Process /\ procs \in [Procs -> Process]
    BY DEF DiskInv, DiskTypes
  <2>4. procs' = [procs EXCEPT ![p] = [procs[p] EXCEPT !.pc = "done", !.reply = Bytes(name)]]
    BY <1>3
  <2>5. [procs[p] EXCEPT !.pc = "done", !.reply = Bytes(name)] \in Process
    BY <2>2, <2>3 DEF Process, Over
  <2>6. procs'[p] = [procs[p] EXCEPT !.pc = "done", !.reply = Bytes(name)]
    BY <2>3, <2>4
  <2>7. /\ procs'[p].pc = "done" /\ procs'[p].reply = Bytes(name)
        /\ procs'[p].url = procs[p].url /\ procs'[p].id = procs[p].id
    BY <2>3, <2>6 DEF Process
  <2>8. Moves(p)
    BY <1>1, <2>3, <2>4, <2>5, <2>7 DEF Moves, At
  <2>9. ProcOK(p)'
    BY <1>1, <2>1, <2>2, <2>7 DEF ProcOK, At, Asking, Storing, Storable, Unchanged
  <2>10. QED
    BY <1>1, <2>8, <2>9, QuietStep
<1>4. QED
  BY <1>2, <1>3 DEF Load

LEMMA SimpleSteps ==
  ASSUME DiskInv, NEW p \in Procs,
         LoadUnlink(p) \/ RemoveOld(p) \/ FetchFails(p) \/ Forget(p) \/ StoreFails(p)
  PROVE  DiskInv'
<1>1. CASE LoadUnlink(p)
  BY <1>1, GoStep DEF LoadUnlink, Asking, Storing
<1>2. CASE RemoveOld(p)
  BY <1>2, GoStep DEF RemoveOld, Asking, Storing
<1>3. CASE FetchFails(p)
  BY <1>3, GoStep DEF FetchFails, Asking, Storing, Over
<1>4. CASE Forget(p)
  BY <1>4, GoStep DEF Forget, Asking, Storing, Over
<1>5. CASE StoreFails(p)
  BY <1>5, GoStep DEF StoreFails, At, Asking, Storing, Over
<1>6. QED
  BY <1>1, <1>2, <1>3, <1>4, <1>5

(* The steps of the sweep: what it keeps of the directory is nobody's      *)
(* business but its own.                                                   *)
LEMMA SweepStep ==
  ASSUME DiskInv, NEW p \in Procs, Unchanged, dir' = dir \/ (\E name : Unlink(name)),
         procs[p].pc \in Storing,
         NEW label \in {"sweep", "sweep_unlink", "create"},
         NEW todo \in SUBSET Names, NEW clock \in Nat, NEW size \in Nat,
         NEW victim \in Names \cup {<<>>},
         procs' = [procs EXCEPT ![p] =
           [procs[p] EXCEPT !.pc = label, !.todo = todo, !.clock = clock,
                            !.size = size, !.victim = victim]]
  PROVE  DiskInv'
<1> DEFINE r == [procs[p] EXCEPT !.pc = label, !.todo = todo, !.clock = clock,
                                 !.size = size, !.victim = victim]
<1>1. procs[p] \in Process /\ procs \in [Procs -> Process]
  BY DEF DiskInv, DiskTypes
<1>2. r \in Process
  BY <1>1 DEF Process, Storing
<1>3. /\ r.pc = label /\ r.reply = procs[p].reply
      /\ r.url = procs[p].url /\ r.id = procs[p].id
  BY <1>1 DEF Process
<1>4. procs'[p] = r /\ procs' = [procs EXCEPT ![p] = r]
  BY <1>1
<1> HIDE DEF r
<1>5. Moves(p) /\ ~At(p, "off")
  BY <1>1, <1>2, <1>3, <1>4 DEF Moves, At, Storing
<1>6. ProcOK(p)'
  BY <1>3, <1>4, <1>5, SameProcess DEF Asking, Storing
<1>7. QED
  BY <1>5, <1>6, QuietStep

LEMMA SweepSteps ==
  ASSUME DiskInv, NEW p \in Procs,
         \/ SweepOpen(p) \/ SweepUnlink(p)
         \/ \E name \in procs[p].todo : SweepTmp(p, name) \/ SweepRead(p, name)
         \/ \E size \in Sizes : Stamp(p, size)
  PROVE  DiskInv'
<1> DEFINE me == procs[p]
<1>1. /\ me \in Process /\ procs \in [Procs -> Process] /\ now \in Nat
      /\ DOMAIN dir \subseteq Names
  BY DEF DiskInv, DiskTypes
<1>2. /\ me.todo \subseteq Names /\ me.clock \in Nat /\ me.size \in Nat
      /\ me.victim \in Names \cup {<<>>}
  BY <1>1 DEF Process
<1>3. CASE SweepOpen(p)
  <2>1. procs' = [procs EXCEPT ![p] =
          [me EXCEPT !.pc = "sweep", !.todo = DOMAIN dir, !.clock = now,
                     !.size = me.size, !.victim = me.victim]]
    <3>1. procs' = [procs EXCEPT ![p] =
            [me EXCEPT !.pc = "sweep", !.todo = DOMAIN dir, !.clock = now]]
      BY <1>1, <1>3 DEF SweepOpen
    <3>2. [me EXCEPT !.pc = "sweep", !.todo = DOMAIN dir, !.clock = now] =
            [me EXCEPT !.pc = "sweep", !.todo = DOMAIN dir, !.clock = now,
                     !.size = me.size, !.victim = me.victim]
      BY <1>1 DEF Process
    <3>3. QED
      BY <3>1, <3>2
  <2>2. Unchanged /\ dir' = dir /\ me.pc \in Storing /\ DOMAIN dir \in SUBSET Names
    BY <1>1, <1>3 DEF SweepOpen, At, Storing
  <2>3. QED
    BY <1>1, <1>2, <2>1, <2>2, SweepStep
<1>4. CASE SweepUnlink(p)
  <2>1. procs' = [procs EXCEPT ![p] =
          [me EXCEPT !.pc = "sweep", !.todo = me.todo \ {me.victim}, !.clock = me.clock,
                     !.size = me.size, !.victim = <<>>]]
    <3>1. procs' = [procs EXCEPT ![p] =
            [me EXCEPT !.pc = "sweep", !.victim = <<>>, !.todo = me.todo \ {me.victim}]]
      BY <1>1, <1>4 DEF SweepUnlink
    <3>2. [me EXCEPT !.pc = "sweep", !.victim = <<>>, !.todo = me.todo \ {me.victim}] =
            [me EXCEPT !.pc = "sweep", !.todo = me.todo \ {me.victim}, !.clock = me.clock,
                     !.size = me.size, !.victim = <<>>]
      BY <1>1 DEF Process
    <3>3. QED
      BY <3>1, <3>2
  <2>2. Unchanged /\ me.pc \in Storing /\ \E n : Unlink(n)
    BY <1>4 DEF SweepUnlink, At, Storing
  <2>3. me.todo \ {me.victim} \in SUBSET Names
    BY <1>2
  <2>4. QED
    BY <1>1, <1>2, <2>1, <2>2, <2>3, SweepStep
<1>5. ASSUME NEW name \in me.todo, At(p, "sweep"), Swept(p, name), Unchanged,
             dir' = dir \/ \E n : Unlink(n)
      PROVE  DiskInv'
  <2>1. me.pc = "sweep"
    BY <1>5 DEF At
  <2>2. procs' = [procs EXCEPT ![p] =
          [me EXCEPT !.pc = "sweep", !.todo = me.todo \ {name}, !.clock = me.clock,
                     !.size = me.size, !.victim = me.victim]]
    <3>1. procs' = [procs EXCEPT ![p] = [me EXCEPT !.todo = me.todo \ {name}]]
      BY <1>1, <1>5 DEF Swept
    <3>2. [me EXCEPT !.todo = me.todo \ {name}] =
            [me EXCEPT !.pc = "sweep", !.todo = me.todo \ {name}, !.clock = me.clock,
                       !.size = me.size, !.victim = me.victim]
      BY <1>1, <2>1 DEF Process
    <3>3. QED
      BY <3>1, <3>2
  <2>3. QED
    BY <1>1, <1>2, <1>5, <2>1, <2>2, SweepStep DEF Storing
<1>6. ASSUME NEW name \in me.todo, SweepTmp(p, name) PROVE DiskInv'
  BY <1>5, <1>6 DEF SweepTmp
<1>7. ASSUME NEW name \in me.todo, SweepRead(p, name) PROVE DiskInv'
  <2>1. At(p, "sweep") /\ Unchanged /\ dir' = dir
    BY <1>7 DEF SweepRead
  <2>2. CASE Swept(p, name)
    BY <1>5, <2>1, <2>2
  <2>3. CASE procs' = [procs EXCEPT ![p].pc = "sweep_unlink", ![p].victim = name]
    <3>1. procs' = [procs EXCEPT ![p] =
            [me EXCEPT !.pc = "sweep_unlink", !.todo = me.todo, !.clock = me.clock,
                       !.size = me.size, !.victim = name]]
      <4>1. procs' = [procs EXCEPT ![p] = [me EXCEPT !.pc = "sweep_unlink", !.victim = name]]
        BY <1>1, <2>3
      <4>2. [me EXCEPT !.pc = "sweep_unlink", !.victim = name] =
              [me EXCEPT !.pc = "sweep_unlink", !.todo = me.todo, !.clock = me.clock,
                         !.size = me.size, !.victim = name]
        BY <1>1 DEF Process
      <4>3. QED
        BY <4>1, <4>2
    <3>2. QED
      BY <1>1, <1>2, <2>1, <3>1, SweepStep DEF At, Storing
  <2>4. QED
    BY <1>7, <2>2, <2>3 DEF SweepRead
<1>8. ASSUME NEW size \in Sizes, Stamp(p, size) PROVE DiskInv'
  <2>1. procs' = [procs EXCEPT ![p] =
          [me EXCEPT !.pc = "create", !.todo = me.todo, !.clock = now,
                     !.size = size, !.victim = me.victim]]
    <3>1. procs' = [procs EXCEPT ![p] = [me EXCEPT !.pc = "create", !.clock = now, !.size = size]]
      BY <1>1, <1>8 DEF Stamp
    <3>2. [me EXCEPT !.pc = "create", !.clock = now, !.size = size] =
            [me EXCEPT !.pc = "create", !.todo = me.todo, !.clock = now,
                     !.size = size, !.victim = me.victim]
      BY <1>1 DEF Process
    <3>3. QED
      BY <3>1, <3>2
  <2>2. size \in Nat
    BY DiskAssumption
  <2>3. Unchanged /\ dir' = dir /\ me.pc \in Storing
    BY <1>8 DEF Stamp, At, Storing
  <2>4. QED
    BY <1>1, <1>2, <2>1, <2>2, <2>3, SweepStep
<1>9. QED
  BY <1>3, <1>4, <1>6, <1>7, <1>8

LEMMA FetchOkKeeps ==
  ASSUME DiskInv, NEW p \in Procs, NEW no_store \in BOOLEAN, FetchOk(p, no_store)
  PROVE  DiskInv'
<1> DEFINE id == procs[p].id
           answer == [url |-> procs[p].url, no_store |-> no_store]
           label == CASE ~procs[p].cached             -> "done"
                      [] procs[p].cached /\ no_store  -> "forget"
                      [] procs[p].cached /\ ~no_store -> "sweep_open"
<1>1. /\ procs[p] \in Process /\ procs \in [Procs -> Process]
      /\ origin \in [DOMAIN origin -> Response]
  BY DEF DiskInv, DiskTypes
<1>0. CASE ~procs[p].cached
  <2>1. At(p, "fetch") /\ Go(p, "done") /\ Unchanged /\ dir' = dir
    BY <1>0 DEF FetchOk, Go, Unchanged
  <2>2. QED
    BY <2>1, GoStep DEF Asking, Storing, Over
<1> SUFFICES ASSUME procs[p].cached PROVE DiskInv'
  BY <1>0
<1>2. /\ At(p, "fetch") /\ Received(p, no_store) /\ Go(p, label)
      /\ UNCHANGED <<now, launches, dir, files>>
  BY DEF FetchOk, Go
<1>3. procs[p].url \in Urls /\ id \in 1 .. launches /\ id \notin DOMAIN origin
  BY <1>2 DEF DiskInv, ProcOK, At, Asking
<1>4. procs[p].cached \in BOOLEAN
  BY <1>1 DEF Process
<1>5. label \in {"done", "forget", "sweep_open"} /\ (label = "sweep_open" => ~no_store)
  BY <1>4
<1> HIDE DEF label
<1>6. /\ Moves(p) /\ procs'[p].pc = label
      /\ procs'[p].reply = procs[p].reply
  BY <1>2, <1>5, GoMoves DEF At, Storing, Over
<1>7. /\ DOMAIN origin' = DOMAIN origin \cup {id}
      /\ origin'[id] = answer
      /\ \A i \in DOMAIN origin : origin'[i] = origin[i]
  BY <1>2, <1>3 DEF Received
<1>8. answer \in Response
  BY <1>3 DEF Response
<1>9. origin' \in [DOMAIN origin' -> Response]
  <2>1. \A i \in DOMAIN origin : origin[i] \in Response
    BY <1>1
  <2>2. \A i \in DOMAIN origin' : origin'[i] \in Response
    BY <1>7, <1>8, <2>1
  <2>3. origin' = [i \in DOMAIN origin' |-> origin'[i]]
    BY <1>2 DEF Received
  <2>4. QED
    BY <2>2, <2>3
<1>10. /\ answer.url = procs[p].url /\ answer.no_store = no_store
  OBVIOUS
<1> HIDE DEF answer
<1>11. \A i, u : Storable(i, u) => Storable(i, u)'
  BY <1>7 DEF Storable
<1>12. DiskTypes'
  BY <1>2, <1>3, <1>6, <1>7, <1>9 DEF DiskInv, DiskTypes, Moves
<1>13. FilesOK'
  <2>1. ASSUME NEW f \in DOMAIN files, f # Legacy
        PROVE  f \in DOMAIN origin' /\ Content(f)'
    <3>1. f \in DOMAIN origin /\ Content(f) /\ origin'[f].url = origin[f].url
      BY <1>7, <2>1 DEF DiskInv, FilesOK
    <3>2. QED
      BY <1>2, <1>7, <1>11, <3>1 DEF Content
  <2>2. QED
    BY <1>2, <2>1 DEF DiskInv, FilesOK
<1>14. DirOK'
  <2>1. ASSUME NEW n \in DOMAIN dir PROVE NameOK(n)'
    <3>1. NameOK(n)
      BY <2>1 DEF DiskInv, DirOK
    <3>2. dir[n] # Legacy => dir[n] \in DOMAIN origin
      BY <3>1 DEF NameOK, DiskInv, FilesOK
    <3>3. QED
      BY <1>2, <1>7, <3>1, <3>2 DEF NameOK
  <2>2. QED
    BY <1>2, <2>1 DEF DirOK
<1>15. ProcOK(p)'
  <2>1. procs'[p].url = procs[p].url /\ procs'[p].id = id
    BY <1>1, <1>2 DEF Go, Process
  <2>2. procs'[p].pc \in Storing => Storable(id, procs[p].url)'
    BY <1>5, <1>6, <1>7, <1>10, <2>1 DEF Storable, Storing
  <2>3. procs'[p].pc \notin Asking /\ procs'[p].pc # "write"
    BY <1>5, <1>6 DEF Asking
  <2>4. \A i \in DOMAIN procs[p].reply : Storable(procs[p].reply[i].id, procs[p].url)'
    <3>1. \A i \in DOMAIN procs[p].reply : Storable(procs[p].reply[i].id, procs[p].url)
      BY DEF DiskInv, ProcOK
    <3>2. QED
      BY <1>6, <1>7, <2>1, <3>1 DEF Storable
  <2>5. QED
    BY <1>2, <1>3, <1>6, <2>1, <2>2, <2>3, <2>4 DEF ProcOK, At, Storable
<1>16. ASSUME NEW q \in Procs, q # p PROVE ProcOK(q)'
  <2>1. procs'[q] = procs[q] /\ ProcOK(q)
    BY <1>6, <1>16 DEF Moves, DiskInv
  <2>2. ~At(q, "off") => procs[q].id # id
    BY <1>2, <1>16 DEF DiskInv, OwnIds, At
  <2>3. procs[q].pc \in Asking => procs[q].id \notin DOMAIN origin'
    BY <1>7, <2>1, <2>2 DEF ProcOK, At, Asking
  <2>4. procs[q].pc \in Storing => Storable(procs[q].id, procs[q].url)'
    BY <1>7, <2>1 DEF ProcOK, Storable
  <2>5. At(q, "write") => procs[q].file \in DOMAIN origin
    BY <2>1 DEF ProcOK, DiskInv, FilesOK
  <2>6. \A i \in DOMAIN procs[q].reply : Storable(procs[q].reply[i].id, procs[q].url)'
    BY <1>7, <2>1 DEF ProcOK, Storable
  <2>7. QED
    BY <1>2, <1>7, <2>1, <2>3, <2>4, <2>5, <2>6 DEF ProcOK, At, Storable
<1>17. QED
  BY <1>6, <1>12, <1>13, <1>14, <1>15, <1>16, OwnIdsKept DEF DiskInv

-----------------------------------------------------------------------------
(* A store goes on with a file of its URL.                                 *)
LEMMA StoreGoesOn ==
  ASSUME DiskInv, NEW p \in Procs, UNCHANGED <<launches, origin>>,
         procs[p].pc \in Storing, procs'[p].pc \in Storing,
         procs'[p].reply = procs[p].reply,
         procs'[p].url = procs[p].url, procs'[p].id = procs[p].id,
         procs'[p].file \in DOMAIN files', procs'[p].file # Legacy,
         origin[procs'[p].file].url = procs[p].url
  PROVE  ProcOK(p)'
<1>1. procs'[p].pc \notin Asking /\ ~At(p, "off")
  BY DEF Asking, Storing, At
<1>2. ProcOK(p)
  BY DEF DiskInv
<1>3. QED
  BY <1>1, <1>2 DEF ProcOK, Storable, At

(* A temporary file is created for the URL of its name.                    *)
LEMMA CreateKeeps == ASSUME DiskInv, NEW p \in Procs, Create(p) PROVE DiskInv'
<1> DEFINE me == procs[p]
           name == Tmp(me.url)
           file == IF Exists(name) THEN dir[name] ELSE me.id
<1>1. /\ me \in Process /\ procs \in [Procs -> Process]
      /\ DOMAIN files \subseteq Nat /\ files \in [DOMAIN files -> Seq(Block)]
      /\ DOMAIN origin \subseteq 1 .. launches
  BY DEF DiskInv, DiskTypes
<1>2. /\ At(p, "create") /\ UNCHANGED <<now, launches, origin>>
      /\ dir' = [n \in DOMAIN dir \cup {name} |-> IF n = name THEN file ELSE dir[n]]
      /\ files' = [f \in DOMAIN files \cup {file} |-> IF f = file THEN <<>> ELSE files[f]]
      /\ procs' = [procs EXCEPT ![p].pc = "write", ![p].file = file, ![p].pos = 1]
  BY DEF Create
<1>3. /\ me.url \in Urls /\ me.id \in 1 .. launches
      /\ Storable(me.id, me.url) /\ me.pc = "create"
  BY <1>2 DEF DiskInv, ProcOK, At, Storing
<1>4. name \in Names /\ name[1] = "tmp" /\ name[2] = me.url
  BY <1>3 DEF Tmp, Names
<1> HIDE DEF name
<1>5. file # Legacy /\ file \in DOMAIN origin /\ origin[file].url = me.url
  <2>1. CASE Exists(name)
    <3>1. NameOK(name)
      BY <2>1 DEF Exists, DiskInv, DirOK
    <3>2. dir[name] # Legacy /\ origin[dir[name]].url = me.url
      BY <1>4, <3>1 DEF NameOK
    <3>3. dir[name] \in DOMAIN origin
      BY <3>1, <3>2 DEF NameOK, DiskInv, FilesOK
    <3>4. QED
      BY <2>1, <3>2, <3>3
  <2>2. CASE ~Exists(name)
    BY <1>3, <2>2 DEF Storable, Legacy
  <2>3. QED
    BY <2>1, <2>2
<1> HIDE DEF file
<1>6. file \in Nat
  BY <1>1, <1>5
<1>7. /\ DOMAIN files' = DOMAIN files \cup {file} /\ files'[file] = <<>>
      /\ \A f \in DOMAIN files : f # file => files'[f] = files[f]
  BY <1>2
<1>8. /\ DOMAIN dir' = DOMAIN dir \cup {name} /\ dir'[name] = file
      /\ \A n \in DOMAIN dir : n # name => dir'[n] = dir[n]
  BY <1>2
<1> DEFINE r == [me EXCEPT !.pc = "write", !.file = file, !.pos = 1]
<1>9. r \in Process
  BY <1>1, <1>6 DEF Process, Storing
<1>10. /\ r.pc = "write" /\ r.reply = me.reply /\ r.file = file
       /\ r.url = me.url /\ r.id = me.id
  BY <1>1 DEF Process
<1>11. procs' = [procs EXCEPT ![p] = r] /\ procs'[p] = r
  BY <1>1, <1>2
<1> HIDE DEF r
<1>12. Moves(p)
  BY <1>1, <1>3, <1>9, <1>10, <1>11 DEF Moves, At
<1>13. ProcOK(p)'
  <2>1. me.pc \in Storing /\ procs'[p].pc \in Storing /\ procs'[p].file = file
    BY <1>3, <1>10, <1>11 DEF Storing
  <2>2. QED
    BY <1>2, <1>5, <1>7, <1>10, <1>11, <2>1, StoreGoesOn
<1>14. \A q \in Procs : ProcOK(q)'
  BY <1>2, <1>7, <1>12, <1>13, OthersKeep
<1>15. FilesOK'
  BY <1>2, <1>5, <1>7 DEF DiskInv, FilesOK, Content, Storable
<1>16. DirOK'
  BY <1>2, <1>4, <1>5, <1>7, <1>8 DEF DiskInv, DirOK, NameOK
<1>17. files' \in [DOMAIN files' -> Seq(Block)]
  <2>1. \A f \in DOMAIN files' : files'[f] \in Seq(Block)
    <3>1. <<>> \in Seq(Block)
      OBVIOUS
    <3>2. \A f \in DOMAIN files : files[f] \in Seq(Block)
      BY <1>1
    <3>3. QED
      BY <1>7, <3>1, <3>2
  <2>2. files' = [f \in DOMAIN files' |-> files'[f]]
    BY <1>2
  <2>3. QED
    BY <2>1, <2>2
<1>18. DiskTypes'
  BY <1>1, <1>2, <1>4, <1>6, <1>7, <1>8, <1>12, <1>17 DEF DiskInv, DiskTypes, Moves
<1>19. QED
  BY <1>12, <1>14, <1>15, <1>16, <1>18, OwnIdsKept DEF DiskInv

(* A block or a hole at its place is what is new in a file.                *)
LEMMA WriteAtIs ==
  ASSUME NEW c \in Seq(Block), NEW i \in Nat, NEW b \in Block
  PROVE  /\ WriteAt(c, i, b) \in Seq(Block)
         /\ \A j \in DOMAIN WriteAt(c, i, b) :
              \/ WriteAt(c, i, b)[j] = b
              \/ WriteAt(c, i, b)[j] = Hole
              \/ j \in DOMAIN c /\ WriteAt(c, i, b)[j] = c[j]
<1> DEFINE n == IF Len(c) > i THEN Len(c) ELSE i
<1>1. n \in Nat
  OBVIOUS
<1>2. WriteAt(c, i, b) = [j \in 1 .. n |-> IF j = i THEN b ELSE IF j <= Len(c) THEN c[j] ELSE Hole]
  BY DEF WriteAt
<1> HIDE DEF n
<1>3. Hole \in Block
  BY DEF Hole, Block, Legacy
<1>4. \A j \in 1 .. n : (IF j = i THEN b ELSE IF j <= Len(c) THEN c[j] ELSE Hole) \in Block
  BY <1>1, <1>3
<1>5. QED
  BY <1>1, <1>2, <1>4

LEMMA WriteKeeps == ASSUME DiskInv, NEW p \in Procs, Write(p) PROVE DiskInv'
<1> DEFINE me == procs[p]
           block == [id |-> me.id, last |-> me.pos = me.size, at |-> me.clock]
           label == IF block.last THEN "rename" ELSE "write"
           new == WriteAt(files[me.file], me.pos, block)
<1>1. /\ me \in Process /\ procs \in [Procs -> Process]
      /\ DOMAIN files \subseteq Nat /\ files \in [DOMAIN files -> Seq(Block)]
  BY DEF DiskInv, DiskTypes
<1>2. /\ At(p, "write") /\ UNCHANGED <<now, launches, dir, origin>>
      /\ files' = [files EXCEPT ![me.file] = new]
      /\ procs' = [procs EXCEPT ![p].pc = label, ![p].pos = me.pos + 1]
  BY DEF Write
<1>3. /\ me.url \in Urls /\ me.id \in 1 .. launches /\ Storable(me.id, me.url)
      /\ me.file \in DOMAIN files /\ me.file # Legacy /\ origin[me.file].url = me.url
      /\ me.pc = "write"
  BY <1>2 DEF DiskInv, ProcOK, At, Storing
<1>4. me.pos \in Nat /\ me.clock \in Nat /\ me.id \in Nat
  BY <1>1 DEF Process
<1>5. block \in Block /\ block.id = me.id /\ label \in {"rename", "write"}
  BY <1>4 DEF Block
<1> HIDE DEF block, label
<1>6. /\ new \in Seq(Block)
      /\ \A j \in DOMAIN new : \/ new[j] = block \/ new[j] = Hole
                               \/ j \in DOMAIN files[me.file] /\ new[j] = files[me.file][j]
  BY <1>1, <1>3, <1>4, <1>5, WriteAtIs
<1> HIDE DEF new
<1>7. /\ DOMAIN files' = DOMAIN files /\ files'[me.file] = new
      /\ \A f \in DOMAIN files : f # me.file => files'[f] = files[f]
  BY <1>2, <1>3
<1> DEFINE r == [me EXCEPT !.pc = label, !.pos = me.pos + 1]
<1>8. r \in Process
  <2>1. label \in Storing /\ me.pos + 1 \in Nat
    BY <1>4, <1>5 DEF Storing
  <2>2. QED
    BY <1>1, <2>1 DEF Process
<1>9. /\ r.pc = label /\ r.reply = me.reply /\ r.file = me.file
      /\ r.url = me.url /\ r.id = me.id
  BY <1>1 DEF Process
<1>10. procs' = [procs EXCEPT ![p] = r] /\ procs'[p] = r
  BY <1>1, <1>2
<1> HIDE DEF r
<1>11. Moves(p)
  BY <1>1, <1>3, <1>8, <1>9, <1>10 DEF Moves, At
<1>12. ProcOK(p)'
  <2>1. me.pc \in Storing /\ procs'[p].pc \in Storing /\ procs'[p].file = me.file
    BY <1>3, <1>5, <1>9, <1>10 DEF Storing
  <2>2. QED
    BY <1>2, <1>3, <1>7, <1>9, <1>10, <2>1, StoreGoesOn
<1>13. \A q \in Procs : ProcOK(q)'
  BY <1>2, <1>7, <1>11, <1>12, OthersKeep
<1>14. FilesOK'
  <2>1. me.file \in DOMAIN origin /\ Content(me.file)
    BY <1>3 DEF DiskInv, FilesOK
  <2>2. \A j \in DOMAIN new : new[j].id = Legacy \/ Storable(new[j].id, me.url)
    BY <1>3, <1>5, <1>6, <2>1 DEF Content, Hole
  <2>3. Content(me.file)'
    <3>1. \A j \in DOMAIN new : new[j].id = Legacy
            \/ (new[j].id \in DOMAIN origin' /\ origin'[new[j].id].url = origin'[me.file].url
                /\ ~origin'[new[j].id].no_store)
      BY <1>2, <1>3, <2>2 DEF Storable
    <3>2. me.file = procs'[p].file
      BY <1>9, <1>10
    <3>3. QED
      BY <1>7, <3>1, <3>2 DEF Content, Storable
  <2>4. ASSUME NEW f \in DOMAIN files, f # me.file
        PROVE  IF f = Legacy THEN \A i \in DOMAIN files'[f] : files'[f][i].id = Legacy
               ELSE f \in DOMAIN origin' /\ Content(f)'
    BY <1>2, <1>7, <2>4 DEF DiskInv, FilesOK, Content, Storable
  <2>5. me.file = procs'[p].file
    BY <1>9, <1>10
  <2>6. QED
    BY ZenonT(60), <1>2, <1>3, <1>7, <2>1, <2>3, <2>4, <2>5 DEF FilesOK
<1>15. DirOK'
  BY <1>2, <1>7 DEF DiskInv, DirOK, NameOK
<1>16. files' \in [DOMAIN files' -> Seq(Block)]
  BY <1>1, <1>2, <1>6
<1>17. DiskTypes'
  BY <1>2, <1>7, <1>11, <1>16 DEF DiskInv, DiskTypes, Moves
<1>18. QED
  BY <1>11, <1>13, <1>14, <1>15, <1>17, OwnIdsKept DEF DiskInv

(* The file that takes the entry's place was created for the same URL.     *)
LEMMA RenameKeeps == ASSUME DiskInv, NEW p \in Procs, Rename(p) PROVE DiskInv'
<1> DEFINE name == Tmp(procs[p].url)
           entry == Json(procs[p].url)
<1>1. At(p, "rename") /\ Go(p, "done") /\ Unchanged
  BY DEF Rename
<1>2. /\ Moves(p) /\ procs'[p].pc = "done"
      /\ procs'[p].reply = procs[p].reply
  BY <1>1, GoMoves DEF At, Over
<1>3. ProcOK(p)'
  BY <1>1, <1>2, SameProcess DEF At, Asking, Storing
<1>4. CASE ~Exists(name)
  BY <1>1, <1>2, <1>3, <1>4, QuietStep DEF Rename
<1>5. CASE Exists(name)
  <2>1. procs[p].url \in Urls
    BY <1>1 DEF DiskInv, ProcOK, At
  <2>2. /\ name \in Names /\ entry \in Names /\ name # entry
        /\ name[1] = "tmp" /\ name[2] = procs[p].url
        /\ entry[1] = "json" /\ entry[2] = procs[p].url
    BY <2>1 DEF Names, Tmp, Json
  <2>3. dir' = [n \in (DOMAIN dir \ {name}) \cup {entry} |->
                  IF n = entry THEN dir[name] ELSE dir[n]]
    BY <1>5 DEF Rename
  <2> HIDE DEF name, entry
  <2>4. /\ DOMAIN dir' = (DOMAIN dir \ {name}) \cup {entry} /\ dir'[entry] = dir[name]
        /\ \A n \in DOMAIN dir' : n # entry => n \in DOMAIN dir /\ dir'[n] = dir[n]
    BY <2>3
  <2>5. NameOK(name)
    BY <1>5 DEF Exists, DiskInv, DirOK
  <2>6. dir[name] \in DOMAIN files /\ dir[name] # Legacy /\ origin[dir[name]].url = entry[2]
    BY <2>2, <2>5 DEF NameOK
  <2>7. ASSUME NEW n \in DOMAIN dir' PROVE NameOK(n)'
    <3>1. CASE n = entry
      BY <1>1, <2>4, <2>6, <3>1 DEF NameOK, Unchanged
    <3>2. CASE n # entry
      BY <1>1, <2>4, <3>2 DEF DiskInv, DirOK, NameOK, Unchanged
    <3>3. QED
      BY <3>1, <3>2
  <2>8. DirOK'
    BY <2>7 DEF DirOK
  <2>9. DiskTypes'
    BY <1>1, <1>2, <2>2, <2>4 DEF DiskInv, DiskTypes, Moves, Unchanged
  <2>10. FilesOK'
    BY <1>1 DEF DiskInv, FilesOK, Content, Storable, Unchanged
  <2>11. \A q \in Procs : ProcOK(q)'
    BY <1>1, <1>2, <1>3, OthersKeep DEF Unchanged
  <2>12. QED
    BY <1>2, <2>8, <2>9, <2>10, <2>11, OwnIdsKept DEF DiskInv
<1>6. QED
  BY <1>4, <1>5

-----------------------------------------------------------------------------
(* The new process has an id nobody has had.                               *)
LEMMA LaunchKeeps ==
  ASSUME DiskInv, NEW p \in Procs, NEW u \in Urls,
         NEW mode \in {"plain", "fresh", "bypass"}, Launch(p, u, mode)
  PROVE  DiskInv'
<1> DEFINE first == CASE mode = "plain"  -> "load"
                      [] mode = "fresh"  -> "remove"
                      [] mode = "bypass" -> "fetch"
           r == [Off EXCEPT !.pc = first, !.url = u, !.cached = mode # "bypass",
                            !.id = launches']
<1>1. /\ procs \in [Procs -> Process] /\ launches \in Nat
      /\ launches' = launches + 1 /\ UNCHANGED <<now, dir, files, origin>>
      /\ procs' = [procs EXCEPT ![p] = r]
  BY DEF Launch, DiskInv, DiskTypes
<1>2. first \in Asking
  BY DEF Asking
<1> HIDE DEF first
<1>3. r = [Off EXCEPT !.pc = first, !.url = u, !.cached = mode # "bypass",
                      !.id = launches + 1]
  BY <1>1
<1>4. /\ r.pc = first /\ r.url = u /\ r.id = launches + 1
      /\ DOMAIN r.reply = {}
  <2>1. r.pc = first /\ r.url = u /\ r.id = launches + 1 /\ r.reply = <<>>
    BY <1>3 DEF Off
  <2>2. DOMAIN <<>> = {}
    OBVIOUS
  <2>3. QED
    BY <2>1, <2>2
<1>5. r \in Process
  <2>1. launches + 1 \in Nat /\ u \in Urls \cup {"none"} /\ (mode # "bypass") \in BOOLEAN
    BY <1>1
  <2>2. first \in Asking \cup Storing \cup Over \cup {"forget", "off"}
    BY <1>2
  <2>3. QED
    BY ZenonT(60), <1>3, <2>1, <2>2, OffIsProcess DEF Process
<1> HIDE DEF r
<1>6. /\ procs' \in [Procs -> Process] /\ procs'[p] = r
      /\ \A q \in Procs \ {p} : procs'[q] = procs[q]
  BY <1>1, <1>5
<1>7. launches + 1 \notin DOMAIN origin
  BY <1>1 DEF DiskInv, DiskTypes
<1>8. ProcOK(p)'
  BY <1>1, <1>2, <1>4, <1>6, <1>7 DEF ProcOK, At, Asking, Storing
<1>9. ASSUME NEW q \in Procs, q # p
      PROVE  ProcOK(q)' /\ (~At(q, "off")' => procs'[q].id \in 1 .. launches)
  <2>1. procs'[q] = procs[q] /\ ProcOK(q)
    BY <1>6, <1>9 DEF DiskInv
  <2>2. ~At(q, "off") => procs[q].id \in 1 .. launches'
    BY <1>1, <2>1 DEF ProcOK
  <2>3. QED
    BY <1>1, <2>1, <2>2 DEF ProcOK, Storable, At
<1>10. OwnIds'
  <2>1. \A q \in Procs : q # p /\ procs'[q].pc # "off" => procs'[q].id # procs'[p].id
    BY <1>1, <1>4, <1>6, <1>9 DEF At
  <2>2. QED
    BY <1>6, <2>1 DEF DiskInv, OwnIds, At
<1>11. DiskTypes'
  <2>1. DOMAIN origin' \subseteq 1 .. launches'
    BY <1>1 DEF DiskInv, DiskTypes
  <2>2. QED
    BY <1>1, <1>6, <2>1 DEF DiskInv, DiskTypes
<1>12. FilesOK' /\ DirOK'
  BY <1>1 DEF DiskInv, FilesOK, Content, Storable, DirOK, NameOK
<1>13. QED
  BY <1>8, <1>9, <1>10, <1>11, <1>12 DEF DiskInv

LEMMA NobodyMoves ==
  ASSUME DiskInv, UNCHANGED <<launches, procs, dir, files, origin>>, now' \in Nat
  PROVE  DiskInv'
<1>1. DiskTypes' /\ FilesOK' /\ DirOK' /\ OwnIds'
  BY DEF DiskInv, DiskTypes, FilesOK, Content, Storable, DirOK, NameOK, OwnIds, At
<1>2. \A p \in Procs : ProcOK(p)'
  BY DEF DiskInv, ProcOK, Storable, At
<1>3. QED
  BY <1>1, <1>2 DEF DiskInv

LEMMA DiskInvNext == DiskInv /\ [DiskNext]_diskVars => DiskInv'
<1> SUFFICES ASSUME DiskInv, [DiskNext]_diskVars PROVE DiskInv'
  OBVIOUS
<1>1. now \in Nat
  BY DEF DiskInv, DiskTypes
<1>2. ASSUME NEW p \in Procs, Step(p) PROVE DiskInv'
  BY <1>2, LoadKeeps, SimpleSteps, SweepSteps, FetchOkKeeps, CreateKeeps, WriteKeeps,
     RenameKeeps DEF Step
<1>3. ASSUME NEW p \in Procs, Exit(p) \/ Kill(p) PROVE DiskInv'
  <2>1. procs' = [procs EXCEPT ![p] = Off] /\ UNCHANGED dir /\ Unchanged
    BY <1>3 DEF Exit, Kill
  <2>2. QED
    BY <2>1, GoneMoves, QuietStep
<1>4. CASE Pass
  BY <1>1, <1>4, NobodyMoves DEF Pass
<1>5. CASE UNCHANGED diskVars
  BY <1>1, <1>5, NobodyMoves DEF diskVars
<1>6. QED
  BY <1>2, <1>3, <1>4, <1>5, LaunchKeeps DEF DiskNext

(* However the stores, sweeps and kills of any number of processes         *)
(* interleave, what load returns for a URL was answered for that URL, and  *)
(* never by a response that forbids storing it.                            *)
THEOREM HitsAreForTheirUrl == DiskSpec => []HitIsForItsUrl
<1>1. DiskInv => HitIsForItsUrl
  BY DEF DiskInv, ProcOK, Storable, HitIsForItsUrl
<1>2. QED
  BY <1>1, DiskInvInit, DiskInvNext, PTL DEF DiskSpec

-----------------------------------------------------------------------------
(* One process at a time.                                                  *)
(*                                                                         *)
(* What the documentation promises of store, sweep and remove holds when   *)
(* no two processes run at the same time, whenever they are killed. (Run   *)
(* disk_cache_atomic shows how two of them break the first promise.)       *)
Whole(c) == Parses(c) /\ FromOneFetch(c)

(* What was written of a report, without its end.                          *)
Draft(c, id, pos) ==
  Len(c) + 1 = pos /\ \A i \in DOMAIN c : c[i].id = id /\ ~c[i].last

OneActive == \A p, q \in Procs : ~At(p, "off") /\ ~At(q, "off") => p = q

(* There are no hard links: a file that is written has no other name.      *)
OneName == \A m, n \in DOMAIN dir : dir[m] = dir[n] => m = n

EntriesWhole ==
  \A n \in DOMAIN dir : n[1] = "json" /\ dir[n] # Legacy => Whole(files[dir[n]])

OnlyTmp(names) == \A n \in DOMAIN dir : n[1] = "tmp" => n \in names

(* The process has not created its file yet.                               *)
Fileless == Asking \cup {"sweep_open", "sweep", "sweep_unlink", "create"}

(* What the one process relies on from its earlier steps.                  *)
SerialProc(p) ==
  LET me == procs[p] IN
  /\ me.pc \in Fileless => me.id \notin DOMAIN files
  /\ me.pc \in {"fetch", "failed"} /\ me.cached => ~Exists(Json(me.url))
  /\ me.pc \in {"sweep", "sweep_unlink"} => me.clock <= now /\ OnlyTmp(me.todo)
  /\ me.pc = "sweep_unlink" => me.victim[1] = "json" /\ ~Servable(me.victim, me.clock)
  /\ me.pc = "create" => OnlyTmp({})
  /\ me.pc \in {"write", "rename"} =>
       /\ Exists(Tmp(me.url)) /\ dir[Tmp(me.url)] = me.file
       /\ OnlyTmp({Tmp(me.url)})
  /\ me.pc = "write" => Draft(files[me.file], me.id, me.pos)
  /\ me.pc = "rename" => Whole(files[me.file])

SerialInv ==
  /\ DiskInv
  /\ DOMAIN files \subseteq 0 .. launches
  /\ OneActive /\ OneName /\ EntriesWhole
  /\ \A p \in Procs : SerialProc(p)

LEMMA OffSerial ==
  ASSUME NEW p \in Procs, At(p, "off") PROVE SerialProc(p)
BY DEF SerialProc, At, Fileless, Asking

LEMMA SerialInit == DiskInit => SerialInv
<1> SUFFICES ASSUME DiskInit PROVE SerialInv
  OBVIOUS
<1>1. DiskInv
  BY DiskInvInit
<1>2. \A p \in Procs : At(p, "off")
  BY DEF DiskInit, At, Off
<1>3. \A n \in DOMAIN dir : dir[n] = Legacy
  <2>1. CASE dir = <<>>
    <3>1. DOMAIN dir = {}
      BY <2>1
    <3>2. QED
      BY <3>1
  <2>2. CASE \E u \in Urls : dir = [n \in {Json(u)} |-> Legacy]
    BY <2>2
  <2>3. QED
    BY <2>1, <2>2 DEF DiskInit
<1>4. \A m, n \in DOMAIN dir : m = n
  <2>1. CASE dir = <<>>
    <3>1. DOMAIN dir = {}
      BY <2>1
    <3>2. QED
      BY <3>1
  <2>2. CASE \E u \in Urls : dir = [n \in {Json(u)} |-> Legacy]
    BY <2>2
  <2>3. QED
    BY <2>1, <2>2 DEF DiskInit
<1>5. DOMAIN files \subseteq 0 .. launches
  BY DEF DiskInit, Legacy
<1>6. OneName /\ EntriesWhole /\ OneActive
  BY <1>2, <1>3, <1>4 DEF OneName, EntriesWhole, OneActive
<1>7. QED
  BY <1>1, <1>2, <1>5, <1>6, OffSerial DEF SerialInv

(* Nobody else is there to disturb.                                        *)
LEMMA AloneSerial ==
  ASSUME SerialInv, NEW p \in Procs, Moves(p), ~At(p, "off"), SerialProc(p)'
  PROVE  OneActive' /\ \A q \in Procs : SerialProc(q)'
<1>1. \A q \in Procs \ {p} : At(q, "off")'
  BY DEF SerialInv, OneActive, Moves, At
<1>2. \A q \in Procs \ {p} : SerialProc(q)'
  BY <1>1 DEF SerialProc, At, Fileless, Asking
<1>3. QED
  BY <1>1, <1>2 DEF OneActive

LEMMA QuietSerial ==
  ASSUME SerialInv, DiskInv', NEW p \in Procs, Moves(p), ~At(p, "off"), SerialProc(p)',
         Unchanged, dir' = dir \/ \E name : Unlink(name)
  PROVE  SerialInv'
<1>1. \A n \in DOMAIN dir' : n \in DOMAIN dir /\ dir'[n] = dir[n]
  BY DEF Unlink
<1>2. OneName' /\ EntriesWhole'
  BY <1>1 DEF SerialInv, OneName, EntriesWhole, Unchanged, Whole, Parses, FromOneFetch
<1>3. QED
  BY <1>2, AloneSerial DEF SerialInv, Unchanged

LEMMA GoKeeps ==
  ASSUME DiskInv, NEW p \in Procs, NEW label, Go(p, label)
  PROVE  /\ procs'[p].pc = label
         /\ procs'[p].url = procs[p].url /\ procs'[p].id = procs[p].id
         /\ procs'[p].cached = procs[p].cached /\ procs'[p].file = procs[p].file
<1>1. procs[p] \in Process /\ procs \in [Procs -> Process]
  BY DEF DiskInv, DiskTypes
<1>2. procs'[p] = [procs[p] EXCEPT !.pc = label]
  BY <1>1 DEF Go
<1>3. QED
  BY <1>1, <1>2 DEF Process

(* The steps after which there is little to rely on.                       *)
LEMMA GoSerial ==
  ASSUME SerialInv, DiskInv', NEW p \in Procs, ~At(p, "off"), Unchanged,
         dir' = dir \/ (\E name : Unlink(name)),
         NEW label \in Asking \cup Over \cup {"forget"}, Go(p, label),
         label \in Asking => procs[p].pc \in Asking,
         label \in {"fetch", "failed"} /\ procs[p].cached => ~Exists(Json(procs[p].url))'
  PROVE  SerialInv'
<1>1. Moves(p)
  BY GoMoves DEF SerialInv
<1>2. /\ procs'[p].pc = label /\ procs'[p].url = procs[p].url
      /\ procs'[p].id = procs[p].id /\ procs'[p].cached = procs[p].cached
  BY GoKeeps DEF SerialInv
<1>3. label \in Asking => procs[p].id \notin DOMAIN files
  BY DEF SerialInv, SerialProc, Fileless
<1>4. SerialProc(p)'
  BY <1>2, <1>3 DEF SerialProc, Fileless, Asking, Over, Unchanged, Exists, Json
<1>5. QED
  BY <1>1, <1>4, QuietSerial

LEMMA LoadSerial ==
  ASSUME SerialInv, DiskInv', NEW p \in Procs, Load(p) PROVE SerialInv'
<1> DEFINE name == Json(procs[p].url)
<1>1. /\ At(p, "load") /\ UNCHANGED dir /\ Unchanged /\ ~At(p, "off")
      /\ procs[p].pc \in Asking
  BY DEF Load, At, Asking
<1>2. CASE Go(p, "remove") \/ Go(p, "load_unlink")
  BY <1>1, <1>2, GoSerial DEF Asking
<1>3. CASE procs' = [procs EXCEPT ![p].pc = "done", ![p].reply = Bytes(name)]
  <2>1. procs[p] \in Process /\ procs \in [Procs -> Process]
    BY DEF SerialInv, DiskInv, DiskTypes
  <2>2. /\ procs'[p].pc = "done" /\ procs'[p].url = procs[p].url
        /\ procs'[p].id = procs[p].id /\ \A q \in Procs \ {p} : procs'[q] = procs[q]
    BY <1>3, <2>1 DEF Process
  <2>3. Moves(p)
    BY <1>1, <2>2 DEF Moves, DiskInv, DiskTypes
  <2>4. SerialProc(p)'
    BY <2>2 DEF SerialProc, Fileless, Asking
  <2>5. QED
    BY <1>1, <2>3, <2>4, QuietSerial
<1>4. QED
  BY <1>2, <1>3 DEF Load

LEMMA AskingSerial ==
  ASSUME SerialInv, DiskInv', NEW p \in Procs,
         LoadUnlink(p) \/ RemoveOld(p) \/ FetchFails(p) \/ Forget(p) \/ StoreFails(p)
  PROVE  SerialInv'
<1>1. ~At(p, "off") /\ Unchanged
  BY DEF LoadUnlink, RemoveOld, FetchFails, Forget, StoreFails, At
<1>2. CASE LoadUnlink(p)
  BY <1>1, <1>2, GoSerial DEF LoadUnlink, At, Asking
<1>3. CASE RemoveOld(p)
  <2>1. /\ Unlink(Json(procs[p].url)) /\ Go(p, "fetch") /\ procs[p].pc \in Asking
        /\ "fetch" \in Asking
    BY <1>3 DEF RemoveOld, At, Asking
  <2>2. ~(Json(procs[p].url) \in DOMAIN dir')
    BY <2>1 DEF Unlink
  <2>3. procs'[p].url = procs[p].url
    BY <2>1, GoKeeps DEF SerialInv
  <2>4. ~Exists(Json(procs[p].url))'
    BY <2>2, <2>3 DEF Exists, Json
  <2>5. QED
    BY <1>1, <2>1, <2>4, GoSerial
<1>4. CASE FetchFails(p)
  <2>1. procs[p].pc = "fetch" /\ Go(p, "failed") /\ dir' = dir /\ "failed" \in Over
    BY <1>4 DEF FetchFails, At, Over
  <2>2. procs[p].cached => ~(Json(procs[p].url) \in DOMAIN dir')
    BY <2>1 DEF SerialInv, SerialProc, Exists
  <2>3. procs'[p].url = procs[p].url
    BY <2>1, GoKeeps DEF SerialInv
  <2>4. procs[p].cached => ~Exists(Json(procs[p].url))'
    BY <2>2, <2>3 DEF Exists, Json
  <2>5. QED
    BY <1>1, <2>1, <2>4, GoSerial DEF Asking
<1>5. CASE Forget(p)
  BY <1>1, <1>5, GoSerial DEF Forget, Over, Asking
<1>6. CASE StoreFails(p)
  BY <1>1, <1>6, GoSerial DEF StoreFails, Over, Asking
<1>7. QED
  BY <1>2, <1>3, <1>4, <1>5, <1>6

LEMMA FetchOkSerial ==
  ASSUME SerialInv, DiskInv', NEW p \in Procs, NEW no_store \in BOOLEAN,
         FetchOk(p, no_store)
  PROVE  SerialInv'
<1> DEFINE label == CASE ~procs[p].cached             -> "done"
                      [] procs[p].cached /\ no_store  -> "forget"
                      [] procs[p].cached /\ ~no_store -> "sweep_open"
<1>1. At(p, "fetch") /\ Go(p, label) /\ UNCHANGED <<now, launches, dir, files>>
  BY DEF FetchOk, Go
<1>2. procs[p].cached \in BOOLEAN
  BY DEF SerialInv, DiskInv, DiskTypes, Process
<1>3. label \in {"done", "forget", "sweep_open"}
  BY <1>2
<1> HIDE DEF label
<1>4. Moves(p) /\ ~At(p, "off")
  BY <1>1, <1>3, GoMoves DEF SerialInv, At, Storing, Over
<1>5. procs'[p].pc = label /\ procs'[p].id = procs[p].id
  BY <1>1, GoKeeps DEF SerialInv
<1>6. procs[p].id \notin DOMAIN files
  BY <1>1 DEF SerialInv, SerialProc, At, Fileless, Asking
<1>7. SerialProc(p)'
  BY <1>1, <1>3, <1>5, <1>6 DEF SerialProc, Fileless, Asking
<1>8. OneName' /\ EntriesWhole'
  BY <1>1 DEF SerialInv, OneName, EntriesWhole, Whole, Parses, FromOneFetch
<1>9. QED
  BY <1>1, <1>4, <1>7, <1>8, AloneSerial DEF SerialInv

-----------------------------------------------------------------------------
(* The sweep has looked at every temporary name that is not on its list.   *)
LEMMA SweepingOn ==
  ASSUME SerialInv, DiskInv', NEW p \in Procs, Unchanged,
         dir' = dir \/ (\E name : Unlink(name)),
         procs[p].pc \in {"sweep_open", "sweep", "sweep_unlink"},
         \A q \in Procs \ {p} : procs'[q] = procs[q],
         procs'[p].url = procs[p].url, procs'[p].id = procs[p].id,
         procs'[p].pc \in {"sweep", "sweep_unlink", "create"},
         procs'[p].pc # "create" => procs'[p].clock <= now /\ OnlyTmp(procs[p].todo)',
         procs'[p].pc = "sweep_unlink" =>
           /\ procs'[p].victim[1] = "json"
           /\ ~Servable(procs[p].victim, procs[p].clock)',
         procs'[p].pc = "create" => OnlyTmp({})'
  PROVE  SerialInv'
<1>1. Moves(p) /\ ~At(p, "off")
  BY DEF Moves, DiskInv, DiskTypes, At
<1>2. procs[p].id \notin DOMAIN files
  BY DEF SerialInv, SerialProc, Fileless
<1>3. SerialProc(p)'
  BY <1>2 DEF SerialProc, Fileless, Asking, Unchanged
<1>4. QED
  BY <1>1, <1>3, QuietSerial

LEMMA SweepSerial ==
  ASSUME SerialInv, DiskInv', NEW p \in Procs,
         \/ SweepOpen(p) \/ SweepUnlink(p)
         \/ \E name \in procs[p].todo : SweepTmp(p, name) \/ SweepRead(p, name)
         \/ \E size \in Sizes : Stamp(p, size)
  PROVE  SerialInv'
<1> DEFINE me == procs[p]
           new == procs'[p]
<1>1. me \in Process /\ procs \in [Procs -> Process] /\ now \in Nat
  BY DEF SerialInv, DiskInv, DiskTypes
<1>2. me.pc \in {"sweep", "sweep_unlink"} => me.clock <= now /\ OnlyTmp(me.todo)
  BY DEF SerialInv, SerialProc
<1>3. CASE SweepOpen(p)
  <2>1. /\ new.pc = "sweep" /\ new.todo = DOMAIN dir /\ new.clock = now
        /\ new.url = me.url /\ new.id = me.id
        /\ \A q \in Procs \ {p} : procs'[q] = procs[q]
    BY <1>1, <1>3 DEF SweepOpen, Process
  <2>2. Unchanged /\ dir' = dir /\ me.pc = "sweep_open"
    BY <1>3 DEF SweepOpen, At
  <2>3. OnlyTmp(procs[p].todo)'
    BY <2>1, <2>2 DEF OnlyTmp
  <2>4. QED
    BY <1>1, <2>1, <2>2, <2>3, SweepingOn
<1>4. CASE SweepUnlink(p)
  <2>1. /\ new.pc = "sweep" /\ new.todo = me.todo \ {me.victim} /\ new.clock = me.clock
        /\ new.url = me.url /\ new.id = me.id
        /\ \A q \in Procs \ {p} : procs'[q] = procs[q]
    BY <1>1, <1>4 DEF SweepUnlink, Process
  <2>2. Unchanged /\ Unlink(me.victim) /\ me.pc = "sweep_unlink"
    BY <1>4 DEF SweepUnlink, At
  <2>3. OnlyTmp(procs[p].todo)'
    BY <1>2, <2>1, <2>2 DEF OnlyTmp, Unlink
  <2>4. QED
    BY <1>2, <2>1, <2>2, <2>3, SweepingOn
<1>5. ASSUME NEW name \in me.todo, At(p, "sweep"), Swept(p, name), Unchanged,
             \/ dir' = dir /\ name[1] = "json"
             \/ Unlink(name)
      PROVE  SerialInv'
  <2>1. /\ new.pc = "sweep" /\ new.todo = me.todo \ {name} /\ new.clock = me.clock
        /\ new.url = me.url /\ new.id = me.id
        /\ \A q \in Procs \ {p} : procs'[q] = procs[q]
    BY <1>1, <1>5 DEF Swept, At, Process
  <2>2. me.pc = "sweep"
    BY <1>5 DEF At
  <2>3. OnlyTmp(procs[p].todo)'
    <3>1. CASE dir' = dir /\ name[1] = "json"
      BY <1>2, <2>1, <2>2, <3>1 DEF OnlyTmp
    <3>2. CASE Unlink(name)
      BY <1>2, <2>1, <2>2, <3>2 DEF OnlyTmp, Unlink
    <3>3. QED
      BY <1>5, <3>1, <3>2
  <2>4. dir' = dir \/ \E n : Unlink(n)
    BY <1>5
  <2>5. QED
    BY <1>2, <1>5, <2>1, <2>2, <2>3, <2>4, SweepingOn
<1>6. ASSUME NEW name \in me.todo, SweepTmp(p, name) PROVE SerialInv'
  BY <1>5, <1>6 DEF SweepTmp
<1>7. ASSUME NEW name \in me.todo, SweepRead(p, name) PROVE SerialInv'
  <2>1. At(p, "sweep") /\ Unchanged /\ dir' = dir /\ name[1] = "json" /\ me.pc = "sweep"
    BY <1>7 DEF SweepRead, At
  <2>2. CASE Swept(p, name)
    BY <1>5, <2>1, <2>2
  <2>3. CASE /\ ~SweepKeeps(name, procs[p].clock)
             /\ procs' = [procs EXCEPT ![p].pc = "sweep_unlink", ![p].victim = name]
    <3>1. /\ new.pc = "sweep_unlink" /\ new.todo = me.todo /\ new.clock = me.clock
          /\ new.url = me.url /\ new.id = me.id /\ new.victim = name
          /\ \A q \in Procs \ {p} : procs'[q] = procs[q]
      BY <1>1, <2>3 DEF Process
    <3>2. OnlyTmp(procs[p].todo)'
      BY <1>2, <2>1, <3>1 DEF OnlyTmp
    <3>3. ~Servable(me.victim, me.clock)'
      BY <2>1, <2>3, <3>1 DEF SweepKeeps, Servable, Readable, Exists, Bytes, Unchanged
    <3>4. QED
      BY <1>2, <2>1, <3>1, <3>2, <3>3, SweepingOn
  <2>4. QED
    BY <1>7, <2>2, <2>3 DEF SweepRead
<1>8. ASSUME NEW size \in Sizes, Stamp(p, size) PROVE SerialInv'
  <2>1. /\ new.pc = "create" /\ new.url = me.url /\ new.id = me.id
        /\ \A q \in Procs \ {p} : procs'[q] = procs[q]
    BY <1>1, <1>8 DEF Stamp, Process
  <2>2. Unchanged /\ dir' = dir /\ me.pc = "sweep" /\ me.todo = {}
    BY <1>8 DEF Stamp, At
  <2>3. OnlyTmp({})'
    BY <1>2, <2>2 DEF OnlyTmp
  <2>4. QED
    BY <2>1, <2>2, <2>3, SweepingOn
<1>9. QED
  BY <1>3, <1>4, <1>6, <1>7, <1>8

-----------------------------------------------------------------------------
(* After a sweep the temporary name is free, and so is the file.           *)
LEMMA CreateSerial ==
  ASSUME SerialInv, DiskInv', NEW p \in Procs, Create(p) PROVE SerialInv'
<1> DEFINE me == procs[p]
           new == procs'[p]
           name == Tmp(me.url)
<1>1. /\ me \in Process /\ procs \in [Procs -> Process] /\ me.pc = "create"
      /\ ProcOK(p) /\ \A n \in DOMAIN dir : dir[n] \in DOMAIN files
  BY DEF Create, At, SerialInv, DiskInv, DiskTypes, DirOK, NameOK
<1>2. OnlyTmp({}) /\ me.id \notin DOMAIN files
  BY <1>1 DEF SerialInv, SerialProc, Fileless
<1>3. me.url \in Urls /\ me.id \in 1 .. launches /\ launches \in Nat
  BY <1>1 DEF ProcOK, At, SerialInv, DiskInv, DiskTypes
<1>4. name[1] = "tmp" /\ ~Exists(name)
  BY <1>2 DEF Tmp, OnlyTmp, Exists
<1>5. /\ dir' = [n \in DOMAIN dir \cup {name} |-> IF n = name THEN me.id ELSE dir[n]]
      /\ files' = [f \in DOMAIN files \cup {me.id} |-> IF f = me.id THEN <<>> ELSE files[f]]
      /\ procs' = [procs EXCEPT ![p].pc = "write", ![p].file = me.id, ![p].pos = 1]
      /\ UNCHANGED <<now, launches, origin>>
  BY <1>4 DEF Create
<1>6. /\ new.pc = "write" /\ new.file = me.id /\ new.pos = 1
      /\ new.url = me.url /\ new.id = me.id
      /\ \A q \in Procs \ {p} : procs'[q] = procs[q]
  BY <1>1, <1>5 DEF Process
<1>7. /\ DOMAIN dir' = DOMAIN dir \cup {name} /\ dir'[name] = me.id
      /\ \A n \in DOMAIN dir : dir'[n] = dir[n]
  BY <1>4, <1>5 DEF Exists
<1>8. /\ DOMAIN files' = DOMAIN files \cup {me.id} /\ files'[me.id] = <<>>
      /\ \A f \in DOMAIN files : files'[f] = files[f]
  BY <1>2, <1>5
<1>9. OneName'
  BY <1>1, <1>2, <1>7 DEF SerialInv, OneName
<1>10. EntriesWhole'
  <2>1. ASSUME NEW n \in DOMAIN dir, n[1] = "json", dir[n] # Legacy
        PROVE  Whole(files'[dir'[n]])
    BY <1>1, <1>7, <1>8, <2>1 DEF SerialInv, EntriesWhole
  <2> HIDE DEF name
  <2>2. ASSUME NEW n \in DOMAIN dir', n[1] = "json", dir'[n] # Legacy
        PROVE  Whole(files'[dir'[n]])
    BY <1>4, <1>7, <2>1, <2>2
  <2>3. QED
    BY <2>2 DEF EntriesWhole, Whole, Parses, FromOneFetch
<1>11. SerialProc(p)'
  <2>1. (Exists(Tmp(procs[p].url)) /\ dir[Tmp(procs[p].url)] = procs[p].file)'
    BY <1>6, <1>7 DEF Exists, Tmp
  <2>2. OnlyTmp({Tmp(procs[p].url)})'
    BY <1>2, <1>6, <1>7 DEF OnlyTmp, Tmp
  <2>3. Len(<<>>) = 0 /\ DOMAIN <<>> = {}
    OBVIOUS
  <2>4. Draft(files[procs[p].file], procs[p].id, procs[p].pos)'
    BY <1>6, <1>8, <2>3 DEF Draft
  <2>5. QED
    BY <1>6, <2>1, <2>2, <2>4 DEF SerialProc, Fileless, Asking
<1>12. Moves(p) /\ ~At(p, "off")
  BY <1>1, <1>6 DEF Moves, DiskInv, DiskTypes, At
<1>13. DOMAIN files' \subseteq 0 .. launches'
  BY <1>3, <1>5, <1>8 DEF SerialInv
<1>14. QED
  BY <1>9, <1>10, <1>11, <1>12, <1>13, AloneSerial DEF SerialInv

LEMMA DraftGrows ==
  ASSUME NEW c \in Seq(Block), NEW id \in Nat \ {0}, NEW pos \in Nat, NEW b \in Block,
         Draft(c, id, pos), b.id = id
  PROVE  /\ WriteAt(c, pos, b) \in Seq(Block)
         /\ ~b.last => Draft(WriteAt(c, pos, b), id, pos + 1)
         /\ b.last => Whole(WriteAt(c, pos, b))
         /\ WriteAt(c, pos, b)[1].id = id
<1> DEFINE d == WriteAt(c, pos, b)
<1>1. Len(c) \in Nat /\ pos = Len(c) + 1 /\ DOMAIN c = 1 .. Len(c)
  BY DEF Draft
<1>2. d = [j \in 1 .. pos |-> IF j = pos THEN b ELSE IF j <= Len(c) THEN c[j] ELSE Hole]
  BY <1>1 DEF WriteAt
<1>3. DOMAIN d = 1 .. pos /\ \A j \in 1 .. pos : d[j] = IF j = pos THEN b ELSE c[j]
  BY <1>1, <1>2
<1>4. d \in Seq(Block) /\ Len(d) = pos
  <2>1. \A j \in 1 .. pos : (IF j = pos THEN b ELSE IF j <= Len(c) THEN c[j] ELSE Hole) \in Block
    BY <1>1
  <2>2. QED
    BY <1>1, <1>2, <2>1
<1> HIDE DEF d
<1>5. \A j \in 1 .. Len(c) : c[j].id = id /\ ~c[j].last
  BY <1>1 DEF Draft
<1>6. CASE ~b.last
  BY <1>1, <1>3, <1>4, <1>5, <1>6 DEF Draft, d
<1>7. CASE b.last
  <2>1. \A j \in 1 .. pos : d[j].id = id /\ (d[j].last <=> j = pos)
    BY <1>1, <1>3, <1>5, <1>7
  <2>2. 1 \in 1 .. pos /\ d # <<>>
    BY <1>1, <1>4
  <2>3. QED
    BY <1>3, <1>4, <1>7, <2>1, <2>2 DEF Whole, Parses, FromOneFetch, Legacy, d
<1>8. d[1].id = id
  BY <1>1, <1>3, <1>5
<1>9. QED
  BY <1>4, <1>6, <1>7, <1>8 DEF d

(* The file that is written is nobody's entry.                             *)
LEMMA WriteSerial ==
  ASSUME SerialInv, DiskInv', NEW p \in Procs, Write(p) PROVE SerialInv'
<1> DEFINE me == procs[p]
           new == procs'[p]
           block == [id |-> me.id, last |-> me.pos = me.size, at |-> me.clock]
<1>1. /\ me \in Process /\ procs \in [Procs -> Process] /\ me.pc = "write"
      /\ ProcOK(p) /\ files \in [DOMAIN files -> Seq(Block)]
      /\ \A n \in DOMAIN dir : n \in Names
  BY DEF Write, At, SerialInv, DiskInv, DiskTypes
<1>2. /\ Exists(Tmp(me.url)) /\ dir[Tmp(me.url)] = me.file
      /\ OnlyTmp({Tmp(me.url)})
      /\ Draft(files[me.file], me.id, me.pos)
  BY <1>1 DEF SerialInv, SerialProc
<1>3. /\ me.file \in DOMAIN files /\ me.file # Legacy /\ me.id \in Nat \ {0}
      /\ me.pos \in Nat /\ me.clock \in Nat
  BY <1>1 DEF ProcOK, At, Process
<1>4. block \in Block /\ block.id = me.id /\ (block.last <=> me.pos = me.size)
  BY <1>3 DEF Block
<1> HIDE DEF block
<1> DEFINE c == WriteAt(files[me.file], me.pos, block)
<1>5. /\ UNCHANGED <<now, launches, dir, origin>>
      /\ files' = [files EXCEPT ![me.file] = c]
      /\ procs' = [procs EXCEPT ![p].pc = IF block.last THEN "rename" ELSE "write",
                                ![p].pos = @ + 1]
  BY DEF Write, block
<1>6. /\ new.pc = (IF block.last THEN "rename" ELSE "write") /\ new.pos = me.pos + 1
      /\ new.file = me.file /\ new.url = me.url /\ new.id = me.id
      /\ \A q \in Procs \ {p} : procs'[q] = procs[q]
  BY <1>1, <1>5 DEF Process
<1>7. /\ ~block.last => Draft(c, me.id, me.pos + 1)
      /\ block.last => Whole(c)
  BY <1>1, <1>2, <1>3, <1>4, DraftGrows
<1> HIDE DEF c
<1>8. /\ DOMAIN files' = DOMAIN files /\ files'[me.file] = c
      /\ \A f \in DOMAIN files : f # me.file => files'[f] = files[f]
  BY <1>1, <1>3, <1>5
<1>9. OneName'
  BY <1>5 DEF SerialInv, OneName
<1>10. EntriesWhole'
  <2>1. ASSUME NEW n \in DOMAIN dir, n[1] = "json", dir[n] # Legacy
        PROVE  Whole(files'[dir[n]])
    <3>1. dir[n] # me.file
      <4>1. n # Tmp(me.url)
        BY <2>1 DEF Tmp
      <4>2. QED
        BY <1>2, <4>1 DEF SerialInv, OneName, Exists
    <3>2. dir[n] \in DOMAIN files
      BY DEF SerialInv, DiskInv, DirOK, NameOK
    <3>3. QED
      BY <1>8, <2>1, <3>1, <3>2 DEF SerialInv, EntriesWhole
  <2>2. QED
    BY <1>5, <2>1 DEF EntriesWhole, Whole, Parses, FromOneFetch
<1>11. SerialProc(p)'
  <2>1. (Exists(Tmp(procs[p].url)) /\ dir[Tmp(procs[p].url)] = procs[p].file)'
    BY <1>2, <1>5, <1>6 DEF Exists, Tmp
  <2>2. OnlyTmp({Tmp(procs[p].url)})'
    BY <1>2, <1>5, <1>6 DEF OnlyTmp, Tmp
  <2>3. (procs[p].pc = "write" => Draft(files[procs[p].file], procs[p].id, procs[p].pos))'
    BY <1>6, <1>7, <1>8 DEF Draft
  <2>4. (procs[p].pc = "rename" => Whole(files[procs[p].file]))'
    BY <1>6, <1>7, <1>8 DEF Whole, Parses, FromOneFetch
  <2>5. new.pc \in {"write", "rename"}
    BY <1>6
  <2>6. QED
    BY <2>1, <2>2, <2>3, <2>4, <2>5 DEF SerialProc, Fileless, Asking
<1>12. Moves(p) /\ ~At(p, "off")
  BY <1>1, <1>6 DEF Moves, DiskInv, DiskTypes, At
<1>13. DOMAIN files' \subseteq 0 .. launches'
  BY <1>5, <1>8 DEF SerialInv
<1>14. QED
  BY <1>9, <1>10, <1>11, <1>12, <1>13, AloneSerial DEF SerialInv

LEMMA RenameSerial ==
  ASSUME SerialInv, DiskInv', NEW p \in Procs, Rename(p)
  PROVE  SerialInv' /\ OnlyTmp({})'
<1> DEFINE me == procs[p]
           name == Tmp(me.url)
           entry == Json(me.url)
<1>1. me.pc = "rename" /\ Unchanged /\ Go(p, "done")
  BY DEF Rename, At
<1>2. Exists(name) /\ dir[name] = me.file /\ OnlyTmp({name}) /\ Whole(files[me.file])
  BY <1>1 DEF SerialInv, SerialProc
<1>3. name[1] = "tmp" /\ entry[1] = "json"
  BY DEF Tmp, Json
<1>4. dir' = [n \in (DOMAIN dir \ {name}) \cup {entry} |->
                IF n = entry THEN dir[name] ELSE dir[n]]
  BY <1>2 DEF Rename
<1> HIDE DEF name, entry
<1>5. /\ DOMAIN dir' = (DOMAIN dir \ {name}) \cup {entry} /\ dir'[entry] = me.file
      /\ \A n \in DOMAIN dir' : n # entry => n \in DOMAIN dir /\ n # name /\ dir'[n] = dir[n]
  BY <1>2, <1>3, <1>4
<1>6. OneName'
  BY <1>2, <1>5 DEF SerialInv, OneName, Exists
<1>7. EntriesWhole'
  <2>1. ASSUME NEW n \in DOMAIN dir', n[1] = "json", dir'[n] # Legacy
        PROVE  Whole(files[dir'[n]])
    BY <1>2, <1>5, <2>1 DEF SerialInv, EntriesWhole
  <2>2. QED
    BY <1>1, <2>1 DEF EntriesWhole, Whole, Parses, FromOneFetch, Unchanged
<1>8. OnlyTmp({})'
  BY <1>2, <1>3, <1>5 DEF OnlyTmp
<1>9. procs'[p].pc = "done" /\ ~At(p, "off")
  BY <1>1, GoKeeps DEF SerialInv, At
<1>10. Moves(p)
  BY <1>1, <1>9, GoMoves DEF SerialInv, Over
<1>11. SerialProc(p)'
  BY <1>9 DEF SerialProc, Fileless, Asking
<1>12. QED
  BY <1>1, <1>6, <1>7, <1>8, <1>9, <1>10, <1>11, AloneSerial DEF SerialInv, Unchanged

-----------------------------------------------------------------------------
LEMMA GoneSerial ==
  ASSUME SerialInv, DiskInv', NEW p \in Procs, Exit(p) \/ Kill(p) PROVE SerialInv'
<1>1. /\ procs' = [procs EXCEPT ![p] = Off] /\ UNCHANGED dir /\ Unchanged
      /\ ~At(p, "off")
  BY DEF Exit, Kill, Over, At
<1>2. Moves(p) /\ procs'[p].pc = "off"
  BY <1>1, GoneMoves DEF SerialInv, DiskInv, DiskTypes, Off
<1>3. SerialProc(p)'
  BY <1>2 DEF SerialProc, Fileless, Asking
<1>4. QED
  BY <1>1, <1>2, <1>3, QuietSerial

(* Nobody runs when a process is started, and its id names no file.        *)
LEMMA LaunchSerial ==
  ASSUME MaxActive = 1, SerialInv, DiskInv', NEW p \in Procs, NEW u \in Urls,
         NEW mode \in {"plain", "fresh", "bypass"}, Launch(p, u, mode)
  PROVE  SerialInv'
<1> DEFINE first == CASE mode = "plain"  -> "load"
                      [] mode = "fresh"  -> "remove"
                      [] mode = "bypass" -> "fetch"
<1>1. Active = {}
  <2>1. IsFiniteSet(Active)
    BY DiskAssumption, FS_Subset DEF Active
  <2>2. Cardinality(Active) \in Nat /\ Cardinality(Active) < 1
    BY <2>1, FS_CardinalityType DEF Launch
  <2>3. QED
    BY <2>1, <2>2, FS_EmptySet
<1>2. \A q \in Procs : At(q, "off")
  BY <1>1 DEF Active, At
<1>3. /\ procs \in [Procs -> Process] /\ launches \in Nat /\ launches' = launches + 1
      /\ UNCHANGED <<now, dir, files, origin>>
      /\ procs' = [procs EXCEPT ![p] =
           [Off EXCEPT !.pc = first, !.url = u, !.cached = mode # "bypass",
                       !.id = launches + 1]]
  BY DEF Launch, SerialInv, DiskInv, DiskTypes
<1>4. first \in {"load", "remove", "fetch"} /\ (first = "fetch" => mode = "bypass")
  OBVIOUS
<1> HIDE DEF first
<1>5. /\ procs'[p].pc = first /\ procs'[p].id = launches + 1
      /\ procs'[p].cached = (mode # "bypass")
      /\ \A q \in Procs \ {p} : procs'[q] = procs[q]
  BY <1>3 DEF Off
<1>6. launches + 1 \notin DOMAIN files
  BY <1>3 DEF SerialInv
<1>7. SerialProc(p)'
  BY <1>3, <1>4, <1>5, <1>6 DEF SerialProc, Fileless, Asking
<1>8. \A q \in Procs \ {p} : At(q, "off")'
  BY <1>2, <1>5 DEF At
<1>9. OneActive' /\ \A q \in Procs : SerialProc(q)'
  BY <1>7, <1>8 DEF OneActive, SerialProc, At, Fileless, Asking
<1>10. OneName' /\ EntriesWhole' /\ DOMAIN files' \subseteq 0 .. launches'
  BY <1>3 DEF SerialInv, OneName, EntriesWhole, Whole, Parses, FromOneFetch
<1>11. QED
  BY <1>9, <1>10 DEF SerialInv

LEMMA NobodySerial ==
  ASSUME SerialInv, DiskInv', UNCHANGED <<launches, procs, dir, files, origin>>,
         now' \in Nat, now <= now'
  PROVE  SerialInv'
<1>1. OneActive' /\ OneName' /\ EntriesWhole' /\ DOMAIN files' \subseteq 0 .. launches'
  BY DEF SerialInv, OneActive, OneName, EntriesWhole, Whole, Parses, FromOneFetch, At
<1>2. ASSUME NEW p \in Procs PROVE SerialProc(p)'
  <2>1. SerialProc(p) /\ procs[p].clock \in Nat /\ now \in Nat
    BY DEF SerialInv, DiskInv, DiskTypes, Process
  <2>2. QED
    BY <2>1 DEF SerialProc, Exists, OnlyTmp, Servable, Readable, Bytes, Draft, Whole,
                Parses, FromOneFetch
<1>3. QED
  BY <1>1, <1>2 DEF SerialInv

LEMMA SerialNext ==
  ASSUME MaxActive = 1 PROVE SerialInv /\ [DiskNext]_diskVars => SerialInv'
<1> SUFFICES ASSUME SerialInv, [DiskNext]_diskVars PROVE SerialInv'
  OBVIOUS
<1>1. DiskInv' /\ now \in Nat
  BY DiskInvNext DEF SerialInv, DiskInv, DiskTypes
<1>2. ASSUME NEW p \in Procs, Step(p) PROVE SerialInv'
  BY <1>1, <1>2, LoadSerial, AskingSerial, FetchOkSerial, SweepSerial, CreateSerial,
     WriteSerial, RenameSerial DEF Step
<1>3. CASE Pass
  BY <1>1, <1>3, NobodySerial DEF Pass
<1>4. CASE UNCHANGED diskVars
  BY <1>1, <1>4, NobodySerial DEF diskVars
<1>5. QED
  BY <1>1, <1>2, <1>3, <1>4, LaunchSerial, GoneSerial DEF DiskNext

(* "Store a report for `url`, atomically": the entry of a URL is one whole *)
(* report, wherever in a sweep, a write or a rename the last process was   *)
(* killed.                                                                 *)
THEOREM SerialEntriesAreWhole ==
  ASSUME MaxActive = 1 PROVE DiskSpec => []EntryAlwaysWhole
<1>1. SerialInv => EntryAlwaysWhole
  <2> SUFFICES ASSUME SerialInv, NEW u \in Urls, Exists(Json(u)), dir[Json(u)] # Legacy
               PROVE  Readable(Json(u)) /\ FromOneFetch(Bytes(Json(u)))
    BY DEF EntryAlwaysWhole
  <2>1. Json(u)[1] = "json"
    BY DEF Json
  <2>2. QED
    BY <2>1 DEF SerialInv, EntriesWhole, Exists, Readable, Bytes, Whole
<1>2. QED
  BY <1>1, SerialInit, SerialNext, PTL DEF DiskSpec

(* remove before the request: where it failed, nothing is left to find.    *)
THEOREM SerialFailedFetchLeavesNothing ==
  ASSUME MaxActive = 1 PROVE DiskSpec => []FailedFetchLeavesNoEntry
<1>1. SerialInv => FailedFetchLeavesNoEntry
  BY DEF SerialInv, SerialProc, FailedFetchLeavesNoEntry, At
<1>2. QED
  BY <1>1, SerialInit, SerialNext, PTL DEF DiskSpec

(* Who goes on is the one process there is.                                *)
LEMMA OneActs ==
  ASSUME SerialInv, DiskNext, NEW p \in Procs, ~At(p, "off"), ~At(p, "off")',
         procs'[p].pc # procs[p].pc
  PROVE  Step(p)
<1>1. procs \in [Procs -> Process] /\ procs'[p] # procs[p]
  BY DEF SerialInv, DiskInv, DiskTypes
<1>2. ASSUME NEW q \in Procs, ~At(q, "off") PROVE q = p
  BY <1>2 DEF SerialInv, OneActive
<1>3. ASSUME NEW q \in Procs, NEW u \in Urls,
             NEW mode \in {"plain", "fresh", "bypass"}, Launch(q, u, mode)
      PROVE  FALSE
  <2>1. q # p /\ \E r : procs' = [procs EXCEPT ![q] = r]
    BY <1>3 DEF Launch, At
  <2>2. QED
    BY <1>1, <2>1
<1>4. ASSUME NEW q \in Procs, Exit(q) \/ Kill(q) PROVE FALSE
  <2>1. ~At(q, "off") /\ procs' = [procs EXCEPT ![q] = Off]
    BY <1>4 DEF Exit, Kill, Over, At
  <2>2. At(p, "off")'
    BY <1>1, <1>2, <2>1 DEF At, Off
  <2>3. QED
    BY <2>2
<1>5. ASSUME NEW q \in Procs, Step(q) PROVE ~At(q, "off")
  BY <1>5 DEF Step, Load, LoadUnlink, RemoveOld, FetchOk, FetchFails, Forget, SweepOpen,
              SweepTmp, SweepRead, SweepUnlink, Stamp, Create, Write, StoreFails, Rename, At
<1>6. ~Pass
  BY <1>1 DEF Pass
<1>7. PICK q \in Procs : Step(q)
  BY <1>3, <1>4, <1>6 DEF DiskNext
<1>8. QED
  BY <1>2, <1>5, <1>7

(* A store that ran to its end leaves no temporary file of anybody behind. *)
THEOREM SerialStoreLeavesNoTmp ==
  ASSUME MaxActive = 1 PROVE DiskSpec => StoreLeavesNoTmp
<1> DEFINE Clean ==
      \A p \in Procs :
        procs[p].pc = "rename" /\ procs'[p].pc = "done" =>
          \A n \in DOMAIN dir' : n[1] = "json"
<1>1. SerialInv /\ SerialInv' /\ [DiskNext]_diskVars => [Clean]_diskVars
  <2> SUFFICES ASSUME SerialInv, SerialInv', DiskNext, NEW p \in Procs,
                      procs[p].pc = "rename", procs'[p].pc = "done"
               PROVE  \A n \in DOMAIN dir' : n[1] = "json"
    BY DEF Clean
  <2>1. Step(p)
    BY OneActs DEF At
  <2>2. Rename(p)
    <3>1. procs \in [Procs -> Process]
      BY DEF SerialInv, DiskInv, DiskTypes
    <3>2. ~StoreFails(p)
      BY <3>1 DEF StoreFails, Go, Process
    <3>3. QED
      BY <2>1, <3>2 DEF Step, Load, LoadUnlink, RemoveOld, FetchOk, FetchFails, Forget,
                        SweepOpen, SweepTmp, SweepRead, SweepUnlink, Stamp, Create, Write, At
  <2>3. OnlyTmp({})' /\ \A n \in DOMAIN dir' : n[1] \in {"json", "tmp"}
    <3>1. OnlyTmp({})'
      BY <2>2, RenameSerial DEF SerialInv
    <3>2. DOMAIN dir' \subseteq Names
      BY DEF SerialInv, DiskInv, DiskTypes
    <3>3. QED
      BY <3>1, <3>2 DEF Names
  <2>4. QED
    BY <2>3 DEF OnlyTmp
<1>2. QED
  BY <1>1, SerialInit, SerialNext, PTL DEF DiskSpec, StoreLeavesNoTmp

-----------------------------------------------------------------------------
(* What was stored stays, and is the newest there is. The two need each    *)
(* other's facts of the one process: its id is the last, and what load     *)
(* wants to remove has expired.                                            *)
EntriesNewest ==
  \A u \in Urls : Readable(Json(u)) =>
    \A i \in DOMAIN origin : origin[i].url = u => i <= Bytes(Json(u))[1].id

LifeProc(p) ==
  LET me == procs[p] IN
  /\ me.pc # "off" => me.id = launches
  /\ me.pc # "done" => me.reply = <<>>
  /\ me.reply # <<>> =>
       \A i \in DOMAIN origin : origin[i].url = me.url => i <= me.reply[1].id
  /\ me.pc = "load_unlink" => ~Servable(Json(me.url), now)
  /\ me.pc = "rename" => files[me.file][1].id = me.id

LifeInv ==
  /\ SerialInv
  /\ stored \in [Urls -> Seq(Block)]
  /\ StoredIsKept /\ EntriesNewest
  /\ \A p \in Procs : LifeProc(p)

LEMMA LifeInit == DiskInit => LifeInv
<1> SUFFICES ASSUME DiskInit PROVE LifeInv
  OBVIOUS
<1>1. SerialInv
  BY SerialInit
<1>2. stored \in [Urls -> Seq(Block)] /\ \A u \in Urls : stored[u] = <<>>
  <2>1. <<>> \in Seq(Block)
    OBVIOUS
  <2>2. QED
    BY <2>1 DEF DiskInit
<1>3. DOMAIN origin = {}
  BY DEF DiskInit
<1>4. \A p \in Procs : LifeProc(p)
  BY DEF DiskInit, LifeProc, Off
<1>5. QED
  BY <1>1, <1>2, <1>3, <1>4 DEF LifeInv, StoredIsKept, EntriesNewest

LEMMA JsonNames ==
  ASSUME NEW u, NEW v
  PROVE  /\ Json(u) = Json(v) => u = v
         /\ Json(u)[1] = "json" /\ Tmp(u)[1] = "tmp" /\ Json(u) # Tmp(v)
BY DEF Json, Tmp

(* A report is in a file of a name, and not in the legacy one.             *)
LEMMA ReadableIs ==
  ASSUME DiskInv, NEW u \in Urls, Readable(Json(u))
  PROVE  /\ Json(u) \in DOMAIN dir /\ dir[Json(u)] \in DOMAIN files
         /\ dir[Json(u)] # Legacy /\ Bytes(Json(u)) = files[dir[Json(u)]]
         /\ Bytes(Json(u)) \in Seq(Block) /\ Bytes(Json(u)) # <<>>
         /\ FetchedAt(Bytes(Json(u))) \in Nat
<1>1. Bytes(Json(u)) \in Seq(Block) /\ Bytes(Json(u)) # <<>>
  BY BytesOK DEF Readable, Parses
<1>2. Bytes(Json(u))[1] \in Block /\ 1 \in DOMAIN Bytes(Json(u))
  BY <1>1
<1>3. Json(u) \in DOMAIN dir /\ dir[Json(u)] \in DOMAIN files
  BY DEF Readable, Exists, DiskInv, DirOK, NameOK
<1>4. dir[Json(u)] # Legacy
  <2>1. Bytes(Json(u))[1].id # Legacy
    BY <1>2 DEF Readable, Parses
  <2>2. QED
    BY <1>2, <1>3, <2>1 DEF Bytes, DiskInv, FilesOK
<1>5. QED
  BY <1>1, <1>2, <1>3, <1>4 DEF Bytes, FetchedAt, Block

(* The others are gone, whatever the one process does.                     *)
LEMMA AloneLife ==
  ASSUME LifeInv, NEW p \in Procs, ~At(p, "off"), LifeProc(p)',
         \A q \in Procs \ {p} : procs'[q] = procs[q]
  PROVE  \A q \in Procs : LifeProc(q)'
<1> SUFFICES ASSUME NEW q \in Procs, q # p PROVE LifeProc(q)'
  OBVIOUS
<1>1. procs[q].pc = "off" /\ procs'[q] = procs[q] /\ LifeProc(q)
  BY DEF LifeInv, SerialInv, OneActive, At
<1>2. QED
  BY <1>1 DEF LifeProc

LEMMA BusyLife ==
  ASSUME LifeInv, NEW p \in Procs, procs'[p].id = launches', procs'[p].reply = <<>>,
         procs'[p].pc \notin {"load_unlink", "rename"}
  PROVE  LifeProc(p)'
BY DEF LifeProc

(* The entries load would serve are left alone, and time goes on.          *)
LEMMA StoredStays ==
  ASSUME LifeInv, now' \in Nat, now <= now', stored' = stored,
         \A u \in Urls : Servable(Json(u), now) =>
           Readable(Json(u))' /\ Bytes(Json(u))' = Bytes(Json(u))
  PROVE  StoredIsKept'
<1> SUFFICES ASSUME NEW u \in Urls, stored[u] # <<>>, now' <= FetchedAt(stored[u]) + Ttl
             PROVE  Readable(Json(u))' /\ Bytes(Json(u))' = stored[u]
  BY DEF StoredIsKept
<1>1. FetchedAt(stored[u]) \in Nat /\ now \in Nat
  <2>1. stored[u][1] \in Block
    BY DEF LifeInv
  <2>2. QED
    BY <2>1 DEF FetchedAt, Block, LifeInv, SerialInv, DiskInv, DiskTypes
<1>2. now <= FetchedAt(stored[u]) + Ttl
  BY <1>1, DiskAssumption
<1>3. Readable(Json(u)) /\ Bytes(Json(u)) = stored[u]
  BY <1>2 DEF LifeInv, StoredIsKept
<1>4. Servable(Json(u), now)
  BY <1>1, <1>2, <1>3, DiskAssumption DEF Servable, Expired
<1>5. QED
  BY <1>3, <1>4

(* A step after which a name may be gone that nobody would be served.      *)
LEMMA QuietLife ==
  ASSUME LifeInv, SerialInv', NEW p \in Procs, ~At(p, "off"), LifeProc(p)',
         \A q \in Procs \ {p} : procs'[q] = procs[q],
         Unchanged, stored' = stored,
         \/ dir' = dir
         \/ \E name : Unlink(name) /\ \A u \in Urls : name = Json(u) => ~Servable(name, now)
  PROVE  LifeInv'
<1>1. \A q \in Procs : LifeProc(q)'
  BY AloneLife
<1>2. \A n \in DOMAIN dir' : n \in DOMAIN dir /\ dir'[n] = dir[n]
  BY DEF Unlink
<1>3. ASSUME NEW u \in Urls, Servable(Json(u), now)
      PROVE  Readable(Json(u))' /\ Bytes(Json(u))' = Bytes(Json(u))
  <2>1. Json(u) \in DOMAIN dir' /\ dir'[Json(u)] = dir[Json(u)]
    <3>1. Json(u) \in DOMAIN dir
      BY <1>3 DEF Servable, Readable, Exists
    <3>2. QED
      BY <1>3, <3>1 DEF Unlink
  <2>2. QED
    BY <1>3, <2>1 DEF Servable, Readable, Exists, Bytes, Json, Unchanged
<1>4. StoredIsKept'
  BY <1>3, StoredStays DEF Unchanged, LifeInv, SerialInv, DiskInv, DiskTypes
<1>5. EntriesNewest'
  <2>1. ASSUME NEW u \in Urls, Readable(Json(u))'
        PROVE  Readable(Json(u)) /\ Bytes(Json(u))' = Bytes(Json(u))
    BY <1>2, <2>1 DEF Readable, Exists, Bytes, Json, Unchanged
  <2>2. QED
    BY <2>1 DEF LifeInv, EntriesNewest, Unchanged, Json, Bytes
<1>6. QED
  BY <1>1, <1>4, <1>5 DEF LifeInv

LEMMA GoFacts ==
  ASSUME LifeInv, NEW p \in Procs, ~At(p, "off"), ~At(p, "done"), NEW label, Go(p, label)
  PROVE  /\ procs'[p].pc = label /\ procs'[p].url = procs[p].url
         /\ procs'[p].id = launches /\ procs'[p].reply = <<>>
         /\ procs'[p].file = procs[p].file
         /\ \A q \in Procs \ {p} : procs'[q] = procs[q]
<1>1. procs[p] \in Process /\ procs \in [Procs -> Process]
  BY DEF LifeInv, SerialInv, DiskInv, DiskTypes
<1>2. procs'[p] = [procs[p] EXCEPT !.pc = label] /\ \A q \in Procs \ {p} : procs'[q] = procs[q]
  BY <1>1 DEF Go
<1>3. procs[p].reply = <<>> /\ procs[p].id = launches
  BY DEF LifeInv, LifeProc, At
<1>4. QED
  BY <1>1, <1>2, <1>3 DEF Process

(* A stage follows another and nothing is put in place or forgotten.       *)
LEMMA GoLife ==
  ASSUME LifeInv, SerialInv', NEW p \in Procs, ~At(p, "off"), ~At(p, "done"),
         NEW label, Go(p, label), label \notin {"load_unlink", "rename"},
         Unchanged, stored' = stored,
         \/ dir' = dir
         \/ \E name : Unlink(name) /\ \A u \in Urls : name = Json(u) => ~Servable(name, now)
  PROVE  LifeInv'
<1>1. /\ procs'[p].pc = label /\ procs'[p].id = launches /\ procs'[p].reply = <<>>
      /\ \A q \in Procs \ {p} : procs'[q] = procs[q]
  BY GoFacts
<1>2. LifeProc(p)'
  BY <1>1, BusyLife DEF Unchanged
<1>3. QED
  BY <1>1, <1>2, QuietLife

LEMMA LoadLife ==
  ASSUME LifeInv, SerialInv', NEW p \in Procs, Load(p) PROVE LifeInv'
<1> DEFINE name == Json(procs[p].url)
<1>1. /\ At(p, "load") /\ dir' = dir /\ stored' = stored /\ Unchanged
      /\ ~At(p, "off") /\ ~At(p, "done")
  BY DEF Load, At
<1>2. CASE Go(p, "remove")
  BY <1>1, <1>2, GoLife
<1>3. CASE Readable(name) /\ Expired(Bytes(name), now) /\ Go(p, "load_unlink")
  <2>1. /\ procs'[p].pc = "load_unlink" /\ procs'[p].id = launches
        /\ procs'[p].reply = <<>> /\ procs'[p].url = procs[p].url
        /\ \A q \in Procs \ {p} : procs'[q] = procs[q]
    BY <1>1, <1>3, GoFacts
  <2>2. ~Servable(name, now)
    BY <1>3 DEF Servable
  <2>3. ~Servable(Json(procs[p].url), now)'
    BY <1>1, <2>1, <2>2 DEF Servable, Readable, Exists, Bytes, Json, Unchanged
  <2>4. LifeProc(p)'
    BY <1>1, <2>1, <2>3 DEF LifeProc, Unchanged
  <2>5. QED
    BY <1>1, <2>1, <2>4, QuietLife
<1>4. CASE /\ Servable(name, now)
           /\ procs' = [procs EXCEPT ![p].pc = "done", ![p].reply = Bytes(name)]
  <2>1. procs[p] \in Process /\ procs \in [Procs -> Process] /\ procs[p].url \in Urls
    BY <1>1 DEF LifeInv, SerialInv, DiskInv, DiskTypes, ProcOK, At
  <2>2. /\ procs'[p].pc = "done" /\ procs'[p].reply = Bytes(name)
        /\ procs'[p].url = procs[p].url /\ procs'[p].id = procs[p].id
        /\ \A q \in Procs \ {p} : procs'[q] = procs[q]
    BY <1>4, <2>1 DEF Process
  <2>3. \A i \in DOMAIN origin : origin[i].url = procs[p].url => i <= Bytes(name)[1].id
    BY <1>4, <2>1 DEF LifeInv, EntriesNewest, Servable
  <2>4. procs[p].id = launches
    BY <1>1 DEF LifeInv, LifeProc, At
  <2> HIDE DEF name
  <2>5. LifeProc(p)'
    BY <1>1, <2>2, <2>3, <2>4 DEF LifeProc, Unchanged
  <2>6. QED
    BY <1>1, <2>2, <2>5, QuietLife
<1>5. QED
  BY <1>2, <1>3, <1>4 DEF Load

(* The URL is asked for again, or must not be kept: its entry goes, and    *)
(* nothing is stored for it any more.                                      *)
LEMMA ForgetLife ==
  ASSUME LifeInv, SerialInv', NEW p \in Procs, RemoveOld(p) \/ Forget(p) PROVE LifeInv'
<1> DEFINE url == procs[p].url
<1>1. /\ ~At(p, "off") /\ ~At(p, "done") /\ Unlink(Json(url)) /\ Unchanged
      /\ Forgotten(url) /\ (Go(p, "fetch") \/ Go(p, "done"))
  BY DEF RemoveOld, Forget, At
<1>2. url \in Urls /\ stored \in [Urls -> Seq(Block)]
  BY <1>1 DEF LifeInv, SerialInv, DiskInv, ProcOK
<1>3. /\ procs'[p].pc \in {"fetch", "done"} /\ procs'[p].id = launches
      /\ procs'[p].reply = <<>> /\ \A q \in Procs \ {p} : procs'[q] = procs[q]
  BY <1>1, GoFacts
<1>4. \A q \in Procs : LifeProc(q)'
  <2>1. LifeProc(p)'
    BY <1>1, <1>3, BusyLife DEF Unchanged
  <2>2. QED
    BY <1>1, <1>3, <2>1, AloneLife
<1> HIDE DEF url
<1>5. /\ DOMAIN dir' = DOMAIN dir \ {Json(url)}
      /\ \A n \in DOMAIN dir' : dir'[n] = dir[n]
  BY <1>1 DEF Unlink
<1>6. /\ stored' \in [Urls -> Seq(Block)] /\ stored'[url] = <<>>
      /\ \A u \in Urls \ {url} : stored'[u] = stored[u]
  <2>1. <<>> \in Seq(Block)
    OBVIOUS
  <2>2. QED
    BY <1>1, <1>2, <2>1 DEF Forgotten
<1>7. ASSUME NEW u \in Urls, u # url
      PROVE  Readable(Json(u))' = Readable(Json(u))
             /\ (Readable(Json(u)) => Bytes(Json(u))' = Bytes(Json(u)))
  BY <1>1, <1>5, <1>7, JsonNames DEF Readable, Exists, Bytes, Json, Unchanged
<1>8. StoredIsKept'
  <2>1. now' = now
    BY <1>1 DEF Unchanged
  <2>2. ASSUME NEW u \in Urls, stored'[u] # <<>>, now <= FetchedAt(stored'[u]) + Ttl
        PROVE  Readable(Json(u))' /\ Bytes(Json(u))' = stored'[u]
    BY <1>6, <1>7, <2>2 DEF LifeInv, StoredIsKept
  <2>3. QED
    BY <2>1, <2>2 DEF StoredIsKept, FetchedAt
<1>9. EntriesNewest'
  <2>2. ASSUME NEW u \in Urls, u # url, Readable(Json(u))',
               NEW i \in DOMAIN origin, origin[i].url = u
        PROVE  i <= Bytes(Json(u))'[1].id
    BY <1>7, <2>2 DEF LifeInv, EntriesNewest
  <2>3. ASSUME NEW u \in Urls, Readable(Json(u))' PROVE u # url
    BY <1>5, <2>3 DEF Readable, Exists, Json
  <2>4. QED
    BY <1>1, <2>2, <2>3 DEF EntriesNewest, Unchanged
<1>10. QED
  BY <1>4, <1>6, <1>8, <1>9 DEF LifeInv

(* Of the URL that is answered there is no entry any more.                 *)
LEMMA FetchOkLife ==
  ASSUME LifeInv, SerialInv', NEW p \in Procs, NEW no_store \in BOOLEAN,
         FetchOk(p, no_store)
  PROVE  LifeInv'
<1> DEFINE me == procs[p]
           label == CASE ~procs[p].cached             -> "done"
                      [] procs[p].cached /\ no_store  -> "forget"
                      [] procs[p].cached /\ ~no_store -> "sweep_open"
<1>1. /\ At(p, "fetch") /\ Go(p, label) /\ UNCHANGED <<now, launches, dir, files, stored>>
      /\ ~At(p, "off") /\ ~At(p, "done") /\ me.cached \in BOOLEAN /\ me.url \in Urls
  BY DEF FetchOk, Go, At, LifeInv, SerialInv, DiskInv, DiskTypes, Process, ProcOK
<1>2. label \in {"done", "forget", "sweep_open"}
  BY <1>1
<1> HIDE DEF label
<1>3. /\ procs'[p].pc = label /\ procs'[p].id = launches /\ procs'[p].reply = <<>>
      /\ \A q \in Procs \ {p} : procs'[q] = procs[q]
  BY <1>1, GoFacts
<1>4. CASE ~me.cached
  <2>1. Unchanged
    BY <1>4 DEF FetchOk, Unchanged
  <2>2. QED
    BY <1>1, <1>2, <2>1, GoLife
<1>5. CASE me.cached
  <2>1. \A q \in Procs : LifeProc(q)'
    <3>1. LifeProc(p)'
      BY <1>1, <1>2, <1>3, BusyLife
    <3>2. QED
      BY <1>1, <1>3, <3>1, AloneLife
  <2>2. /\ DOMAIN origin' = DOMAIN origin \cup {me.id}
        /\ origin'[me.id].url = me.url
        /\ \A i \in DOMAIN origin \ {me.id} : origin'[i] = origin[i]
    BY <1>5 DEF FetchOk, Received
  <2>3. ~Readable(Json(me.url))
    BY <1>1, <1>5 DEF LifeInv, SerialInv, SerialProc, At, Readable
  <2>4. StoredIsKept'
    BY <1>1 DEF LifeInv, StoredIsKept, Readable, Exists, Bytes, Json
  <2>5. EntriesNewest'
    <3>1. ASSUME NEW u \in Urls, Readable(Json(u)), NEW i \in DOMAIN origin', origin'[i].url = u
          PROVE  i <= Bytes(Json(u))[1].id
      <4>1. u # me.url
        BY <2>3, <3>1
      <4>2. i \in DOMAIN origin \ {me.id} /\ origin[i].url = u
        BY <2>2, <3>1, <4>1
      <4>3. QED
        BY <3>1, <4>2 DEF LifeInv, EntriesNewest
    <3>2. QED
      BY <1>1, <3>1 DEF EntriesNewest, Readable, Exists, Bytes, Json
  <2>6. QED
    BY <1>1, <2>1, <2>4, <2>5 DEF LifeInv
<1>6. QED
  BY <1>1, <1>4, <1>5

(* What a sweep removes had expired by the time it began, and it removes   *)
(* temporary names.                                                        *)
LEMMA SweepLife ==
  ASSUME LifeInv, SerialInv', NEW p \in Procs,
         \/ SweepOpen(p) \/ SweepUnlink(p)
         \/ \E name \in procs[p].todo : SweepTmp(p, name) \/ SweepRead(p, name)
         \/ \E size \in Sizes : Stamp(p, size)
  PROVE  LifeInv'
<1> DEFINE me == procs[p]
           new == procs'[p]
<1>1. /\ me \in Process /\ procs \in [Procs -> Process]
      /\ me.pc \in {"sweep_open", "sweep", "sweep_unlink"}
      /\ Unchanged /\ stored' = stored
  BY DEF LifeInv, SerialInv, DiskInv, DiskTypes, SweepOpen, SweepUnlink, SweepTmp,
         SweepRead, Stamp, At
<1>2. ~At(p, "off") /\ me.id = launches /\ me.reply = <<>>
  BY <1>1 DEF LifeInv, LifeProc, At
<1>3. /\ new.pc \in {"sweep", "sweep_unlink", "create"} /\ new.id = me.id
      /\ new.reply = me.reply /\ \A q \in Procs \ {p} : procs'[q] = procs[q]
  <2>1. CASE SweepOpen(p)
    BY <1>1, <2>1 DEF SweepOpen, Process
  <2>2. CASE SweepUnlink(p)
    BY <1>1, <2>2 DEF SweepUnlink, Process
  <2>3. ASSUME NEW name \in me.todo, SweepTmp(p, name) \/ SweepRead(p, name)
        PROVE  /\ new.pc \in {"sweep", "sweep_unlink", "create"} /\ new.id = me.id
               /\ new.reply = me.reply /\ \A q \in Procs \ {p} : procs'[q] = procs[q]
    <3>1. CASE Swept(p, name) /\ At(p, "sweep")
      BY <1>1, <3>1 DEF Swept, At, Process
    <3>2. CASE procs' = [procs EXCEPT ![p].pc = "sweep_unlink", ![p].victim = name]
      BY <1>1, <3>2 DEF Process
    <3>3. QED
      BY <2>3, <3>1, <3>2 DEF SweepTmp, SweepRead
  <2>4. ASSUME NEW size \in Sizes, Stamp(p, size)
        PROVE  /\ new.pc \in {"sweep", "sweep_unlink", "create"} /\ new.id = me.id
               /\ new.reply = me.reply /\ \A q \in Procs \ {p} : procs'[q] = procs[q]
    BY <1>1, <2>4 DEF Stamp, Process
  <2>5. QED
    BY <2>1, <2>2, <2>3, <2>4
<1>4. LifeProc(p)'
  BY <1>1, <1>2, <1>3, BusyLife DEF Unchanged
<1>5. \/ dir' = dir
      \/ \E name : Unlink(name) /\ \A u \in Urls : name = Json(u) => ~Servable(name, now)
  <2>1. ASSUME NEW name \in me.todo, SweepTmp(p, name)
        PROVE  Unlink(name) /\ \A u \in Urls : name # Json(u)
    BY <2>1, JsonNames DEF SweepTmp
  <2>2. CASE SweepUnlink(p)
    <3>1. Unlink(me.victim) /\ me.pc = "sweep_unlink"
      BY <2>2 DEF SweepUnlink, At
    <3>2. ~Servable(me.victim, me.clock) /\ me.clock <= now
      BY <3>1 DEF LifeInv, SerialInv, SerialProc
    <3>3. ASSUME NEW u \in Urls, me.victim = Json(u), Servable(Json(u), now) PROVE FALSE
      <4>1. Readable(Json(u)) /\ FetchedAt(Bytes(Json(u))) \in Nat
        BY <3>3, ReadableIs DEF Servable, LifeInv, SerialInv
      <4>2. me.clock \in Nat /\ now \in Nat
        BY <1>1 DEF Process, LifeInv, SerialInv, DiskInv, DiskTypes
      <4> DEFINE at == FetchedAt(Bytes(Json(u)))
      <4>3. me.clock > at + Ttl /\ ~(now > at + Ttl)
        BY <3>2, <3>3, <4>1 DEF Servable, Expired
      <4> HIDE DEF at
      <4>4. at \in Nat
        BY <4>1 DEF at
      <4>5. QED
        BY <3>2, <4>2, <4>3, <4>4, DiskAssumption
    <3>4. QED
      BY <3>1, <3>3
  <2>3. QED
    BY <2>1, <2>2 DEF SweepOpen, SweepRead, Stamp
<1>6. QED
  BY <1>1, <1>2, <1>3, <1>4, <1>5, QuietLife

LEMMA OtherSteps ==
  ASSUME LifeInv, SerialInv', NEW p \in Procs,
         LoadUnlink(p) \/ FetchFails(p) \/ StoreFails(p)
  PROVE  LifeInv'
<1>1. CASE LoadUnlink(p)
  <2>1. /\ Unlink(Json(procs[p].url)) /\ Go(p, "remove") /\ Unchanged /\ stored' = stored
        /\ procs[p].pc = "load_unlink"
    BY <1>1 DEF LoadUnlink, At
  <2>2. ~Servable(Json(procs[p].url), now)
    BY <2>1 DEF LifeInv, LifeProc
  <2>3. QED
    BY <2>1, <2>2, GoLife DEF At
<1>2. CASE FetchFails(p)
  BY <1>2, GoLife DEF FetchFails, At
<1>3. CASE StoreFails(p)
  BY <1>3, GoLife DEF StoreFails, At
<1>4. QED
  BY <1>1, <1>2, <1>3

(* What is written is not yet the file of an entry.                        *)
LEMMA EntriesStay ==
  ASSUME LifeInv, UNCHANGED <<now, origin, stored>>,
         \A u \in Urls : Readable(Json(u))' => Readable(Json(u)),
         \A u \in Urls : Readable(Json(u)) =>
           Readable(Json(u))' /\ Bytes(Json(u))' = Bytes(Json(u))
  PROVE  stored' \in [Urls -> Seq(Block)] /\ StoredIsKept' /\ EntriesNewest'
<1>1. StoredIsKept'
  BY DEF LifeInv, StoredIsKept, FetchedAt
<1>2. EntriesNewest'
  <2>1. ASSUME NEW u \in Urls, Readable(Json(u))', NEW i \in DOMAIN origin, origin[i].url = u
        PROVE  i <= Bytes(Json(u))'[1].id
    BY <2>1 DEF LifeInv, EntriesNewest
  <2>2. QED
    BY <2>1 DEF EntriesNewest
<1>3. QED
  BY <1>1, <1>2 DEF LifeInv

LEMMA CreateLife ==
  ASSUME LifeInv, SerialInv', NEW p \in Procs, Create(p) PROVE LifeInv'
<1> DEFINE me == procs[p]
           name == Tmp(me.url)
<1>1. /\ me \in Process /\ procs \in [Procs -> Process] /\ me.pc = "create"
      /\ \A n \in DOMAIN dir : dir[n] \in DOMAIN files
  BY DEF Create, At, LifeInv, SerialInv, DiskInv, DiskTypes, DirOK, NameOK
<1>2. OnlyTmp({}) /\ me.id \notin DOMAIN files
  BY <1>1 DEF LifeInv, SerialInv, SerialProc, Fileless
<1>3. name[1] = "tmp" /\ ~Exists(name)
  BY <1>2 DEF Tmp, OnlyTmp, Exists
<1>4. /\ dir' = [n \in DOMAIN dir \cup {name} |-> IF n = name THEN me.id ELSE dir[n]]
      /\ files' = [f \in DOMAIN files \cup {me.id} |-> IF f = me.id THEN <<>> ELSE files[f]]
      /\ procs' = [procs EXCEPT ![p].pc = "write", ![p].file = me.id, ![p].pos = 1]
      /\ UNCHANGED <<now, launches, origin, stored>>
  BY <1>3 DEF Create
<1>5. /\ procs'[p].pc = "write" /\ procs'[p].id = me.id /\ procs'[p].reply = me.reply
      /\ \A q \in Procs \ {p} : procs'[q] = procs[q]
  BY <1>1, <1>4 DEF Process
<1>6. \A q \in Procs : LifeProc(q)'
  <2>1. me.id = launches /\ me.reply = <<>> /\ ~At(p, "off")
    BY <1>1 DEF LifeInv, LifeProc, At
  <2>2. LifeProc(p)'
    BY <1>4, <1>5, <2>1, BusyLife
  <2>3. QED
    BY <1>5, <2>1, <2>2, AloneLife
<1> HIDE DEF name
<1>7. \A n : n # name =>
        /\ n \in DOMAIN dir' <=> n \in DOMAIN dir
        /\ n \in DOMAIN dir => dir'[n] = dir[n] /\ files'[dir'[n]] = files[dir[n]]
  BY <1>1, <1>2, <1>4
<1>8. ASSUME NEW u \in Urls
      PROVE  /\ Readable(Json(u))' <=> Readable(Json(u))
             /\ Readable(Json(u)) => Bytes(Json(u))' = Bytes(Json(u))
  <2>1. Json(u) # name
    BY JsonNames DEF name
  <2>2. QED
    BY <1>7, <2>1 DEF Readable, Exists, Bytes, Json
<1>9. QED
  BY <1>4, <1>6, <1>8, EntriesStay DEF LifeInv

LEMMA WriteLife ==
  ASSUME LifeInv, SerialInv', NEW p \in Procs, Write(p) PROVE LifeInv'
<1> DEFINE me == procs[p]
           block == [id |-> me.id, last |-> me.pos = me.size, at |-> me.clock]
           c == WriteAt(files[me.file], me.pos, block)
<1>1. /\ me \in Process /\ procs \in [Procs -> Process] /\ me.pc = "write"
      /\ ProcOK(p) /\ files \in [DOMAIN files -> Seq(Block)]
  BY DEF Write, At, LifeInv, SerialInv, DiskInv, DiskTypes
<1>2. /\ Exists(Tmp(me.url)) /\ dir[Tmp(me.url)] = me.file
      /\ Draft(files[me.file], me.id, me.pos)
  BY <1>1 DEF LifeInv, SerialInv, SerialProc
<1>3. /\ me.file \in DOMAIN files /\ me.id \in Nat \ {0} /\ me.pos \in Nat
      /\ me.clock \in Nat /\ files[me.file] \in Seq(Block)
  BY <1>1 DEF ProcOK, At, Process
<1>4. block \in Block /\ block.id = me.id
  BY <1>3 DEF Block
<1>5. c[1].id = me.id
  <2> HIDE DEF block
  <2>1. QED
    BY <1>2, <1>3, <1>4, DraftGrows
<1>6. /\ UNCHANGED <<now, launches, dir, origin, stored>>
      /\ files' = [files EXCEPT ![me.file] = c]
      /\ procs' = [procs EXCEPT ![p].pc = IF block.last THEN "rename" ELSE "write",
                                ![p].pos = @ + 1]
  BY DEF Write
<1>7. /\ procs'[p].pc \in {"write", "rename"} /\ procs'[p].id = me.id
      /\ procs'[p].file = me.file /\ procs'[p].reply = me.reply
      /\ \A q \in Procs \ {p} : procs'[q] = procs[q]
  BY <1>1, <1>6 DEF Process
<1> HIDE DEF c, block
<1>8. /\ files'[me.file] = c
      /\ \A f \in DOMAIN files : f # me.file => files'[f] = files[f]
  BY <1>1, <1>3, <1>6
<1>9. \A q \in Procs : LifeProc(q)'
  <2>1. me.id = launches /\ me.reply = <<>> /\ ~At(p, "off")
    BY <1>1 DEF LifeInv, LifeProc, At
  <2>2. LifeProc(p)'
    BY <1>5, <1>6, <1>7, <1>8, <2>1 DEF LifeProc
  <2>3. QED
    BY <1>7, <2>1, <2>2, AloneLife
<1>10. ASSUME NEW u \in Urls, Exists(Json(u))
       PROVE  files'[dir[Json(u)]] = files[dir[Json(u)]]
  <2>1. Json(u) # Tmp(me.url)
    BY JsonNames
  <2>2. dir[Json(u)] # me.file
    BY <1>2, <1>10, <2>1 DEF LifeInv, SerialInv, OneName, Exists
  <2>3. dir[Json(u)] \in DOMAIN files
    BY <1>10 DEF Exists, LifeInv, SerialInv, DiskInv, DirOK, NameOK
  <2>4. QED
    BY <1>8, <2>2, <2>3
<1>11. \A u \in Urls : /\ Readable(Json(u))' <=> Readable(Json(u))
                       /\ Readable(Json(u)) => Bytes(Json(u))' = Bytes(Json(u))
  BY <1>6, <1>10 DEF Readable, Exists, Bytes, Json
<1>12. QED
  BY <1>6, <1>9, <1>11, EntriesStay DEF LifeInv

(* What is put in place is whole, and from the last invocation there was.  *)
LEMMA RenameLife ==
  ASSUME LifeInv, SerialInv', NEW p \in Procs, Rename(p) PROVE LifeInv'
<1> DEFINE me == procs[p]
           url == procs[p].url
           name == Tmp(url)
           file == procs[p].file
<1>1. /\ me.pc = "rename" /\ Unchanged /\ Go(p, "done") /\ ~At(p, "off") /\ ~At(p, "done")
      /\ url \in Urls /\ \A n \in DOMAIN dir : dir[n] \in DOMAIN files
  BY DEF Rename, At, LifeInv, SerialInv, DiskInv, ProcOK, DirOK, NameOK
<1>2. Exists(name) /\ dir[name] = file /\ Whole(files[file])
  BY <1>1 DEF LifeInv, SerialInv, SerialProc
<1>3. files[file][1].id = launches /\ files[file] \in Seq(Block) /\ files[file] # <<>>
  <2>1. files[file][1].id = me.id /\ me.id = launches
    BY <1>1 DEF LifeInv, LifeProc
  <2>2. file \in DOMAIN files /\ files \in [DOMAIN files -> Seq(Block)]
    BY <1>1, <1>2 DEF Exists, LifeInv, SerialInv, DiskInv, DiskTypes
  <2>3. QED
    BY <1>2, <2>1, <2>2 DEF Whole, Parses
<1>4. /\ dir' = [n \in (DOMAIN dir \ {name}) \cup {Json(url)} |->
                   IF n = Json(url) THEN dir[name] ELSE dir[n]]
      /\ stored' = [stored EXCEPT ![url] = files[file]]
  BY <1>2 DEF Rename, Bytes
<1>5. \A q \in Procs : LifeProc(q)'
  <2>1. /\ procs'[p].pc = "done" /\ procs'[p].id = launches /\ procs'[p].reply = <<>>
        /\ \A q \in Procs \ {p} : procs'[q] = procs[q]
    BY <1>1, GoFacts
  <2>2. LifeProc(p)'
    BY <1>1, <2>1, BusyLife DEF Unchanged
  <2>3. QED
    BY <1>1, <2>1, <2>2, AloneLife
<1>6. now' = now /\ origin' = origin /\ files' = files
  BY <1>1 DEF Unchanged
<1>7. DOMAIN origin \subseteq 1 .. launches /\ launches \in Nat
  BY DEF LifeInv, SerialInv, DiskInv, DiskTypes
<1> HIDE DEF url, file
<1>8. ASSUME NEW u \in Urls, u = url
      PROVE  /\ Readable(Json(u))' /\ Bytes(Json(u))' = files[file]
  <2>1. Json(u) \in DOMAIN dir' /\ dir'[Json(u)] = file
    BY <1>2, <1>4, <1>8
  <2>2. QED
    BY <1>2, <1>6, <2>1 DEF Readable, Exists, Bytes, Json, Whole, Parses
<1>9. ASSUME NEW u \in Urls, u # url
      PROVE  /\ Readable(Json(u))' <=> Readable(Json(u))
             /\ Readable(Json(u)) => Bytes(Json(u))' = Bytes(Json(u))
  <2>1. Json(u) # Json(url) /\ Json(u) # name
    BY <1>9, JsonNames
  <2>2. /\ Json(u) \in DOMAIN dir' <=> Json(u) \in DOMAIN dir
        /\ Json(u) \in DOMAIN dir => dir'[Json(u)] = dir[Json(u)]
    BY <1>4, <2>1
  <2>3. QED
    BY <1>6, <2>2 DEF Readable, Exists, Bytes, Json
<1>10. /\ stored' \in [Urls -> Seq(Block)] /\ stored'[url] = files[file]
       /\ \A u \in Urls \ {url} : stored'[u] = stored[u]
  BY <1>1, <1>3, <1>4 DEF LifeInv
<1>11. StoredIsKept'
  <2>1. ASSUME NEW u \in Urls, stored'[u] # <<>>, now <= FetchedAt(stored'[u]) + Ttl
        PROVE  Readable(Json(u))' /\ Bytes(Json(u))' = stored'[u]
    BY <1>8, <1>9, <1>10, <2>1 DEF LifeInv, StoredIsKept
  <2>2. QED
    BY <1>6, <2>1 DEF StoredIsKept, FetchedAt
<1>12. EntriesNewest'
  <2>1. ASSUME NEW u \in Urls, Readable(Json(u))', NEW i \in DOMAIN origin, origin[i].url = u
        PROVE  i <= Bytes(Json(u))'[1].id
    <3>1. CASE u = url
      BY <1>3, <1>7, <1>8, <3>1
    <3>2. CASE u # url
      BY <1>9, <2>1, <3>2 DEF LifeInv, EntriesNewest
    <3>3. QED
      BY <3>1, <3>2
  <2>2. QED
    BY <1>6, <2>1 DEF EntriesNewest
<1>13. QED
  BY <1>5, <1>10, <1>11, <1>12 DEF LifeInv

LEMMA GoneLife ==
  ASSUME LifeInv, SerialInv', NEW p \in Procs, Exit(p) \/ Kill(p) PROVE LifeInv'
<1>1. /\ procs' = [procs EXCEPT ![p] = Off] /\ Unchanged /\ dir' = dir /\ stored' = stored
      /\ ~At(p, "off") /\ procs \in [Procs -> Process]
  BY DEF Exit, Kill, Over, At, LifeInv, SerialInv, DiskInv, DiskTypes
<1>2. procs'[p] = Off /\ \A q \in Procs \ {p} : procs'[q] = procs[q]
  BY <1>1
<1>3. LifeProc(p)'
  BY <1>2 DEF LifeProc, Off
<1>4. QED
  BY <1>1, <1>2, <1>3, QuietLife

LEMMA LaunchLife ==
  ASSUME MaxActive = 1, LifeInv, SerialInv', NEW p \in Procs, NEW u \in Urls,
         NEW mode \in {"plain", "fresh", "bypass"}, Launch(p, u, mode)
  PROVE  LifeInv'
<1> DEFINE first == CASE mode = "plain"  -> "load"
                      [] mode = "fresh"  -> "remove"
                      [] mode = "bypass" -> "fetch"
<1>1. /\ procs \in [Procs -> Process] /\ UNCHANGED <<now, dir, files, origin, stored>>
      /\ procs' = [procs EXCEPT ![p] =
           [Off EXCEPT !.pc = first, !.url = u, !.cached = mode # "bypass",
                       !.id = launches']]
  BY DEF Launch, LifeInv, SerialInv, DiskInv, DiskTypes
<1>2. first \in {"load", "remove", "fetch"}
  OBVIOUS
<1> HIDE DEF first
<1>3. /\ procs'[p].pc = first /\ procs'[p].id = launches' /\ procs'[p].reply = <<>>
      /\ \A q \in Procs \ {p} : procs'[q] = procs[q]
  BY <1>1 DEF Off
<1>4. LifeProc(p)'
  BY <1>2, <1>3, BusyLife
<1>5. ASSUME NEW q \in Procs, q # p PROVE LifeProc(q)'
  <2>1. procs'[q] = procs[q] /\ procs'[p].pc # "off"
    BY <1>2, <1>3, <1>5
  <2>2. procs'[q].pc = "off"
    BY <1>5, <2>1 DEF SerialInv, OneActive, At
  <2>3. procs'[q].reply = <<>>
    BY <2>1, <2>2 DEF LifeInv, LifeProc
  <2>4. QED
    BY <2>2, <2>3 DEF LifeProc
<1>6. stored' \in [Urls -> Seq(Block)] /\ StoredIsKept' /\ EntriesNewest'
  BY <1>1, EntriesStay DEF Readable, Exists, Bytes, Json
<1>7. QED
  BY <1>4, <1>5, <1>6 DEF LifeInv

LEMMA NobodyLife ==
  ASSUME LifeInv, SerialInv', UNCHANGED <<launches, procs, dir, files, origin, stored>>,
         now' \in Nat, now <= now'
  PROVE  LifeInv'
<1>1. \A u \in Urls : /\ Readable(Json(u))' <=> Readable(Json(u))
                      /\ Bytes(Json(u))' = Bytes(Json(u))
  BY DEF Readable, Exists, Bytes, Json
<1>2. StoredIsKept'
  BY <1>1, StoredStays DEF Servable
<1>3. EntriesNewest'
  BY <1>1 DEF LifeInv, EntriesNewest, Json, Bytes
<1>4. ASSUME NEW p \in Procs PROVE LifeProc(p)'
  <2>1. LifeProc(p) /\ now \in Nat
    BY DEF LifeInv, SerialInv, DiskInv, DiskTypes
  <2>2. ASSUME procs[p].pc = "load_unlink", Readable(Json(procs[p].url))
        PROVE  Expired(Bytes(Json(procs[p].url)), now')
    <3> DEFINE u == procs[p].url
               at == FetchedAt(Bytes(Json(u)))
    <3>1. u \in Urls
      BY <2>2 DEF LifeInv, SerialInv, DiskInv, ProcOK, At
    <3>2. at \in Nat
      BY <2>2, <3>1, ReadableIs DEF LifeInv, SerialInv
    <3>3. now > at + Ttl
      BY <2>1, <2>2 DEF LifeProc, Servable, Expired
    <3> HIDE DEF at
    <3>4. now' > at + Ttl
      BY <2>1, <3>2, <3>3, DiskAssumption
    <3>5. QED
      BY <3>4 DEF Expired, at
  <2>3. procs[p].pc = "load_unlink" => ~Servable(Json(procs[p].url), now)'
    BY <2>2 DEF Servable, Readable, Exists, Bytes, Json, Parses, Expired, FetchedAt
  <2>4. QED
    BY <2>1, <2>3 DEF LifeProc
<1>5. QED
  BY <1>2, <1>3, <1>4 DEF LifeInv

LEMMA LifeNext ==
  ASSUME MaxActive = 1 PROVE LifeInv /\ [DiskNext]_diskVars => LifeInv'
<1> SUFFICES ASSUME LifeInv, [DiskNext]_diskVars PROVE LifeInv'
  OBVIOUS
<1>1. SerialInv' /\ now \in Nat
  BY SerialNext DEF LifeInv, SerialInv, DiskInv, DiskTypes
<1>2. ASSUME NEW p \in Procs, Step(p) PROVE LifeInv'
  BY <1>1, <1>2, LoadLife, OtherSteps, ForgetLife, FetchOkLife, SweepLife, CreateLife,
     WriteLife, RenameLife DEF Step
<1>3. CASE Pass
  BY <1>1, <1>3, NobodyLife DEF Pass
<1>4. CASE UNCHANGED diskVars
  BY <1>1, <1>4, NobodyLife DEF diskVars
<1>5. QED
  BY <1>1, <1>2, <1>3, <1>4, LaunchLife, GoneLife DEF DiskNext

(* What a store put in place can be read for its whole lifetime, until the *)
(* URL is asked for again: no sweep, no failed store and no kill takes it. *)
THEOREM SerialStoredIsKept ==
  ASSUME MaxActive = 1 PROVE DiskSpec => []StoredIsKept
<1>1. LifeInv => StoredIsKept
  BY DEF LifeInv
<1>2. QED
  BY <1>1, LifeInit, LifeNext, PTL DEF DiskSpec

(* What load returns is the newest response an invocation that uses the    *)
(* cache received for the URL, whichever refetches failed to store theirs. *)
THEOREM SerialHitsAreNewest ==
  ASSUME MaxActive = 1 PROVE DiskSpec => []HitIsNewest
<1>1. LifeInv => HitIsNewest
  BY DEF LifeInv, LifeProc, HitIsNewest
<1>2. QED
  BY <1>1, LifeInit, LifeNext, PTL DEF DiskSpec
=============================================================================
