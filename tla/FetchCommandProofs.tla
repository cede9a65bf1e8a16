--------------------------- MODULE FetchCommandProofs ---------------------------
(***************************************************************************)
(* Proofs about FetchCommand, for all invocations, pages, numbers of       *)
(* records, writers and blocks.                                            *)
(*                                                                         *)
(* Three arguments side by side. A temporary file and the writer that      *)
(* holds its name belong to each other: who made it holds the name, and    *)
(* who holds a name finds its own file there. A page's metadata says where *)
(* it ends, what is kept never exceeds it, and what the reader has seen    *)
(* reaches up to the page under way, or to the end of what it showed once  *)
(* it is printed; that the records of a page are the same ones whenever    *)
(* they are asked for is what makes this an invariant of several           *)
(* invocations. And what is taken of a page, located in it or rendered of  *)
(* it depends on the page alone (PageProofs).                              *)
(***************************************************************************)
EXTENDS FetchCommand, PageProofs

-----------------------------------------------------------------------------
(* --output.                                                               *)

Contents == [by : Writers \cup {Before}, size : 0 .. Blocks]
Holding == {"writing", "synced", "killed"}

Singles ==
  /\ \A n \in TempNames : \A f, g \in files[n] : f = g
  /\ \A w \in Writers : \A m, n \in tmp[w] : m = n

Owned == \A n \in TempNames : \A f \in files[n] : f.by \in Writers /\ n \in tmp[f.by]

Held ==
  \A w \in Writers : \A n \in tmp[w] :
    /\ pc[w] \in Holding
    /\ files[n] # {}
    /\ \A f \in files[n] : f.by = w /\ (pc[w] = "synced" => f.size = Blocks)

WriteInv == WriteTypeOK /\ Singles /\ Owned /\ Held /\ OutputWhole

-----------------------------------------------------------------------------
(* Before anything is written there is only the old output. *)
LEMMA WriteInvInit == WriteInit => WriteInv
<1> SUFFICES ASSUME WriteInit PROVE WriteInv
  OBVIOUS
<1> USE WriteAssumption DEF WriteInit, File
<1>1. WriteTypeOK
  BY DEF WriteTypeOK
<1>2. Singles /\ Owned /\ Held
  BY DEF Singles, Owned, Held
<1>3. OutputWhole
  BY DEF OutputWhole
<1>4. QED
  BY <1>1, <1>2, <1>3 DEF WriteInv

(* A step that leaves files and names alone, of a writer that has not      *)
(* returned, does not reach "synced" without a full file, and is not       *)
(* "done", keeps the invariant.                                            *)
LEMMA StagePreserves ==
  ASSUME WriteInv, NEW w \in Writers, NEW now, Become(w, now),
         UNCHANGED <<files, tmp>>, tries' \in [Writers -> 0 .. Tries],
         pc[w] \in {"idle", "naming", "writing", "synced"},
         now \in {"naming", "synced", "failed", "killed"},
         tmp[w] # {} => now \in Holding,
         now = "synced" => \A n \in tmp[w] : \A f \in files[n] : f.size = Blocks
  PROVE  WriteInv'
<1> USE DEF WriteInv, Become
<1>1. WriteTypeOK'
  BY DEF WriteTypeOK
<1>2. Singles' /\ Owned'
  BY DEF Singles, Owned
<1>3. Held'
  BY DEF Held, Holding, WriteTypeOK
<1>4. OutputWhole'
  BY DEF OutputWhole, WriteTypeOK
<1>5. QED
  BY <1>1, <1>2, <1>3, <1>4

(* A new file belongs to who made it: nobody else holds a free name. *)
LEMMA CreatePreserves ==
  ASSUME WriteInv, NEW w \in Writers, NEW n \in TempNames, Create(w, n)
  PROVE  WriteInv'
<1> USE WriteAssumption DEF WriteInv, Create, Become, File
<1>1. tmp[w] = {}
  BY DEF Held, Holding, WriteTypeOK
<1>2. WriteTypeOK'
  BY DEF WriteTypeOK
<1>3. Singles'
  BY DEF Singles, WriteTypeOK
<1>4. Owned'
  BY <1>1 DEF Owned, WriteTypeOK
<1>5. Held'
  <2> SUFFICES ASSUME NEW v \in Writers, NEW m \in tmp'[v]
               PROVE  /\ pc'[v] \in Holding
                      /\ files'[m] # {}
                      /\ \A g \in files'[m] :
                           g.by = v /\ (pc'[v] = "synced" => g.size = Blocks)
    BY DEF Held
  <2>1. CASE v = w
    <3>1. m = n /\ pc'[v] = "writing" /\ files'[m] = {File(w, 0)}
      BY <2>1 DEF WriteTypeOK
    <3>2. pc'[v] \in Holding /\ pc'[v] # "synced"
      BY <3>1 DEF Holding
    <3>3. File(w, 0).by = v
      BY <2>1
    <3>4. files'[m] # {} /\ \A g \in files'[m] : g.by = v
      <4> HIDE DEF WriteInv, Create, File
      <4> QED
        BY <3>1, <3>3, Zenon
    <3>5. QED
      BY <3>2, <3>4, Zenon
  <2>2. CASE v # w
    <3>1. m \in tmp[v] /\ pc'[v] = pc[v]
      BY <2>2 DEF WriteTypeOK
    <3>2. m # n
      BY <3>1 DEF Held
    <3>3. files'[m] = files[m]
      BY <3>1, <3>2 DEF WriteTypeOK
    <3>4. QED
      BY <3>1, <3>3 DEF Held
  <2>3. QED
    BY <2>1, <2>2
<1>6. OutputWhole'
  BY DEF OutputWhole, WriteTypeOK
<1>7. QED
  BY <1>2, <1>3, <1>4, <1>5, <1>6

(* Only the file of the name that is held grows, and that is one's own. *)
LEMMA WriteBlockPreserves ==
  ASSUME WriteInv, NEW w \in Writers, NEW n \in TempNames, WriteBlock(w, n)
  PROVE  WriteInv'
<1> USE WriteAssumption DEF WriteInv, WriteBlock
<1>1. PICK f \in files[n] : f.size < Blocks /\ files' = [files EXCEPT ![n] = {Grown(f)}]
  OBVIOUS
<1>2. f \in Contents /\ f.by = w
  BY DEF WriteTypeOK, Held, Contents
<1>3. Grown(f) \in Contents /\ Grown(f).by = w
  BY <1>1, <1>2 DEF Grown, Contents
<1>4. WriteTypeOK'
  BY <1>1, <1>3 DEF WriteTypeOK, Contents
<1>5. Singles' /\ Owned'
  BY <1>1, <1>3 DEF Singles, Owned, WriteTypeOK
<1>6. Held'
  <2> SUFFICES ASSUME NEW v \in Writers, NEW m \in tmp[v]
               PROVE  /\ pc[v] \in Holding
                      /\ files'[m] # {}
                      /\ \A g \in files'[m] :
                           g.by = v /\ (pc[v] = "synced" => g.size = Blocks)
    BY DEF Held
  <2>1. CASE m = n
    <3>1. v = w
      BY <1>2, <2>1 DEF Held
    <3>2. QED
      BY <1>1, <1>3, <2>1, <3>1 DEF Held, WriteTypeOK
  <2>2. CASE m # n
    BY <1>1, <2>2 DEF Held, WriteTypeOK
  <2>3. QED
    BY <2>1, <2>2
<1>7. OutputWhole'
  BY <1>1 DEF OutputWhole, WriteTypeOK
<1>8. QED
  BY <1>4, <1>5, <1>6, <1>7

(* Giving the name up together with its file leaves no file of the writer. *)
LEMMA ReleasePreserves ==
  ASSUME WriteInv, NEW w \in Writers, NEW n \in TempNames, n \in tmp[w],
         NEW content \in SUBSET Contents,
         files' = [files EXCEPT ![Output] = content, ![n] = {}],
         tmp' = [tmp EXCEPT ![w] = {}],
         pc[w] \in {"writing", "synced"},
         Become(w, "done") \/ Become(w, "failed"),
         \A f \in content : f \in files[Output] \/ (f.by = w /\ f.size = Blocks /\ pc'[w] = "done"),
         UNCHANGED tries
  PROVE  WriteInv'
<1> USE WriteAssumption DEF WriteInv, Become
<1>1. WriteTypeOK'
  BY DEF WriteTypeOK, Contents
<1>2. Singles'
  BY DEF Singles, WriteTypeOK
<1>3. Owned'
  <2> SUFFICES ASSUME NEW m \in TempNames, NEW f \in files'[m]
               PROVE  f.by \in Writers /\ m \in tmp'[f.by]
    BY DEF Owned
  <2>1. m # n /\ f \in files[m]
    BY DEF WriteTypeOK
  <2>2. f.by # w
    BY <2>1 DEF Owned, Singles
  <2>3. QED
    BY <2>1, <2>2 DEF Owned, WriteTypeOK
<1>4. Held'
  <2> SUFFICES ASSUME NEW v \in Writers, NEW m \in tmp'[v]
               PROVE  /\ pc'[v] \in Holding
                      /\ files'[m] # {}
                      /\ \A g \in files'[m] :
                           g.by = v /\ (pc'[v] = "synced" => g.size = Blocks)
    BY DEF Held
  <2>1. v # w /\ m \in tmp[v]
    BY DEF WriteTypeOK
  <2>2. m # n
    BY <2>1 DEF Held
  <2>3. m \in TempNames
    BY <2>1 DEF WriteTypeOK
  <2>4. files'[m] = files[m] /\ pc'[v] = pc[v]
    BY <2>1, <2>2, <2>3 DEF WriteTypeOK
  <2>5. /\ pc[v] \in Holding
        /\ files[m] # {}
        /\ \A g \in files[m] : g.by = v /\ (pc[v] = "synced" => g.size = Blocks)
    BY <2>1 DEF Held
  <2>6. QED
    BY <2>4, <2>5, Zenon
<1>5. OutputWhole'
  <2> SUFFICES ASSUME NEW f \in files'[Output]
               PROVE  f.size = Blocks /\ (f.by # Before => pc'[f.by] = "done")
    BY DEF OutputWhole
  <2>1. f \in content
    BY DEF WriteTypeOK
  <2>2. CASE f \in files[Output]
    <3>1. f.by \in Writers \cup {Before}
      BY <2>2 DEF WriteTypeOK
    <3>2. f.by # w
      BY <2>2, <3>1 DEF OutputWhole
    <3>3. QED
      BY <2>2, <3>1, <3>2 DEF OutputWhole, WriteTypeOK
  <2>3. CASE f.by = w /\ f.size = Blocks /\ pc'[w] = "done"
    BY <2>3
  <2>4. QED
    BY <2>1, <2>2, <2>3
<1>6. QED
  BY <1>1, <1>2, <1>3, <1>4, <1>5

-----------------------------------------------------------------------------
(* Every step keeps the invariant. *)
LEMMA WriteInvStep == WriteInv /\ [WriteNext]_fileVars => WriteInv'
<1> SUFFICES ASSUME WriteInv, [WriteNext]_fileVars PROVE WriteInv'
  OBVIOUS
<1> USE WriteAssumption DEF WriteInv
<1>1. CASE UNCHANGED fileVars
  BY <1>1 DEF fileVars, WriteTypeOK, Singles, Owned, Held, OutputWhole
<1>2. CASE WriteNext
  <2>1. PICK w \in Writers : WriteStep(w)
    BY <1>2 DEF WriteNext
  <2>2. pc[w] \in {"idle", "naming"} => tmp[w] = {}
    BY DEF Held, Holding, WriteTypeOK
  <2>3. tries \in [Writers -> 0 .. Tries]
    BY DEF WriteTypeOK
  <2>4. CASE Start(w)
    BY <2>2, <2>3, <2>4, StagePreserves DEF Start
  <2>5. CASE NoFileName(w)
    BY <2>2, <2>3, <2>5, StagePreserves DEF NoFileName
  <2>6. CASE CreateFails(w)
    BY <2>2, <2>3, <2>6, StagePreserves DEF CreateFails
  <2>7. CASE Kill(w)
    BY <2>3, <2>7, StagePreserves DEF Kill, Holding
  <2>8. ASSUME NEW n \in TempNames, Create(w, n) PROVE WriteInv'
    BY <2>8, CreatePreserves
  <2>9. ASSUME NEW n \in TempNames, Collide(w, n) PROVE WriteInv'
    BY <2>9 DEF Collide, WriteTypeOK, Singles, Owned, Held, OutputWhole
  <2>10. ASSUME NEW n \in TempNames, WriteBlock(w, n) PROVE WriteInv'
    BY <2>10, WriteBlockPreserves
  <2>11. ASSUME NEW n \in TempNames, Sync(w, n) PROVE WriteInv'
    <3>1. \A m \in tmp[w] : \A f \in files[m] : f.size = Blocks
      BY <2>11 DEF Sync, Singles
    <3>2. QED
      BY <2>3, <2>11, <3>1, StagePreserves DEF Sync, Holding
  <2>12. ASSUME NEW n \in TempNames, WriteFails(w, n) \/ RenameFails(w, n)
         PROVE  WriteInv'
    <3>1. files' = [files EXCEPT ![Output] = files[Output], ![n] = {}]
      BY <2>12 DEF WriteFails, RenameFails, Drop, WriteTypeOK
    <3>2. files[Output] \in SUBSET Contents
      BY DEF WriteTypeOK, Contents
    <3>3. QED
      BY <2>12, <3>1, <3>2, ReleasePreserves DEF WriteFails, RenameFails, Drop
  <2>13. ASSUME NEW n \in TempNames, Rename(w, n) PROVE WriteInv'
    <3>1. files[n] \in SUBSET Contents
      BY DEF WriteTypeOK, Contents
    <3>2. pc'[w] = "done"
      BY <2>13 DEF Rename, Become, WriteTypeOK
    <3>3. \A f \in files[n] : f.by = w /\ f.size = Blocks
      BY <2>13 DEF Rename, Held
    <3>4. QED
      BY <2>13, <3>1, <3>2, <3>3, ReleasePreserves DEF Rename
  <2>14. QED
    BY <2>1, <2>4, <2>5, <2>6, <2>7, <2>8, <2>9, <2>10, <2>11, <2>12, <2>13
    DEF WriteStep
<1>3. QED
  BY <1>1, <1>2

(* The invariant holds whenever the output is looked at. *)
LEMMA WriteInvAlways == WriteSpec => []WriteInv
  BY WriteInvInit, WriteInvStep, PTL DEF WriteSpec

-----------------------------------------------------------------------------
(* Pages.                                                                  *)

Total == req.total
Exact == req.json \/ req.budget = {}
Ready == {"printing", "printed"}
Paged == {"fitting"} \cup Ready

WalkTypes ==
  /\ Total \in Nat /\ req.limit \in Nat /\ req.json \in BOOLEAN
  /\ req.envelope \in BOOLEAN /\ (req.envelope => req.json)
  /\ start \in Nat /\ offset \in Nat /\ start <= offset
  /\ kept \in Nat
  /\ seen \in [1 .. Total -> Nat]

(* What the metadata of a page from an offset on says. *)
PageFacts(m, total, from) ==
  /\ m.total = total /\ m.offset = from
  /\ m.returned \in Nat
  /\ \/ /\ m.state = "past_end" /\ m.next = {}
        /\ m.returned = 0 /\ from >= total
     \/ /\ m.state = "more" /\ m.next = {from + m.returned}
        /\ m.returned > 0 /\ from + m.returned < total
     \/ /\ m.state = "complete" /\ m.next = {}
        /\ from + m.returned = total

MetaOK == PageFacts(meta, Total, offset)

FitOK ==
  /\ kept <= Items
  /\ stage \in Ready =>
       /\ Items > 0 => kept > 0
       /\ Exact => kept = Items
       /\ told = Announced(meta, Items - kept)

Reach == IF stage = "printed" THEN offset + Shown ELSE offset

SeenOK ==
  \A r \in 1 .. Total :
    /\ seen[r] <= 1
    /\ r > Reach => seen[r] = 0
    /\ Exact /\ start < r /\ r <= Reach => seen[r] = 1

WalkInv == WalkTypes /\ (stage \in Paged => MetaOK /\ FitOK) /\ SeenOK

-----------------------------------------------------------------------------
(* paginate. *)

(* A page lies inside the result, its successor is named if there is one,  *)
(* and it is empty only where nothing is left.                             *)
LEMMA PaginateMeta ==
  ASSUME NEW total \in Nat, NEW from \in Nat, NEW limit \in Nat,
         NEW m, m = Paginate(total, from, limit)
  PROVE  PageFacts(m, total, from)
<1> USE DEF PageFacts
<1>1. CASE from >= total /\ from > 0
  BY <1>1 DEF Paginate
<1>2. CASE ~(from >= total /\ from > 0)
  <2> DEFINE returned == Least(total - from, IF limit = 0 THEN 1 ELSE limit)
  <2>1. /\ from <= total
        /\ returned \in Nat
        /\ from + returned <= total
        /\ from + returned < total => returned > 0
    BY <1>2 DEF Least
  <2>2. m = [state |-> IF from + returned < total THEN "more" ELSE "complete",
             total |-> total, offset |-> from, returned |-> returned,
             next |-> IF from + returned < total THEN {from + returned} ELSE {}]
    BY <1>2 DEF Paginate
  <2> HIDE DEF returned
  <2>3. /\ m.state = IF from + returned < total THEN "more" ELSE "complete"
        /\ m.next = IF from + returned < total THEN {from + returned} ELSE {}
        /\ m.total = total /\ m.offset = from /\ m.returned = returned
    BY <2>2
  <2>4. QED
    BY <2>1, <2>3
<1>3. QED
  BY <1>1, <1>2

(* A page made again with as many records as a page of it kept holds just  *)
(* those, provided it kept one.                                            *)
LEMMA PaginateKept ==
  ASSUME NEW total \in Nat, NEW from \in Nat, NEW n \in Nat,
         n > 0, from + n <= total
  PROVE  Paginate(total, from, n).returned = n
  BY DEF Paginate, Least

-----------------------------------------------------------------------------
(* Before there are pages nothing has been seen. *)
LEMMA WalkInvInit == CommandInit /\ start \in Nat => WalkInv
  BY DEF CommandInit, WalkInv, WalkTypes, SeenOK, Reach, Total, Paged, Ready

(* Every page begins with the metadata of its offset and nothing kept. *)
LEMMA PagePreserves == WalkInv /\ Page => WalkInv'
<1> SUFFICES ASSUME WalkInv, Page PROVE WalkInv'
  OBVIOUS
<1> USE DEF WalkInv, Page, Total
<1>1. Total \in Nat /\ req.limit \in Nat
  BY DEF WalkTypes
<1>2. WalkTypes'
  BY DEF WalkTypes
<1>3. MetaOK'
  <2>1. meta' = Paginate(Total, offset, req.limit) /\ Total' = Total /\ offset' = offset
    OBVIOUS
  <2>2. offset \in Nat
    BY DEF WalkTypes
  <2>3. PageFacts(meta', Total, offset)
    BY <1>1, <2>1, <2>2, PaginateMeta
  <2>4. QED
    BY <2>1, <2>3 DEF MetaOK
<1>4. FitOK'
  BY <1>3 DEF FitOK, Items, Heads, MetaOK, PageFacts, Ready
<1>5. SeenOK'
  BY DEF SeenOK, Reach, Exact
<1>6. QED
  BY <1>2, <1>3, <1>4, <1>5

(* Keeping one more item, or all there are, keeps the invariant. *)
LEMMA FitPreserves == WalkInv /\ (Fit \/ AllFit) => WalkInv'
<1> SUFFICES ASSUME WalkInv, Fit \/ AllFit PROVE WalkInv'
  OBVIOUS
<1> USE DEF WalkInv, Total
<1>1. WalkTypes' /\ MetaOK' /\ SeenOK'
  <2>1. /\ stage \in Paged /\ stage # "printed" /\ stage' # "printed"
        /\ UNCHANGED <<req, start, offset, meta, seen>>
    BY DEF Fit, AllFit, Paged, Ready
  <2>2. kept' = kept + 1 \/ kept' = kept
    BY DEF Fit, AllFit
  <2>3. WalkTypes'
    BY <2>1, <2>2 DEF WalkTypes
  <2>4. MetaOK'
    BY <2>1 DEF MetaOK, PageFacts
  <2>5. SeenOK'
    BY <2>1 DEF SeenOK, Reach, Exact
  <2>6. QED
    BY <2>3, <2>4, <2>5
<1>2. Items \in Nat /\ Hidden(meta) \in Nat
  BY DEF Items, Heads, Hidden, MetaOK, PageFacts, Fit, AllFit, WalkTypes, Paged
<1>3. /\ Items' = Items /\ Exact' = Exact /\ Hidden(meta)' = Hidden(meta)
      /\ req'.envelope = req.envelope
  BY DEF Items, Heads, Exact, Hidden, Fit, AllFit
<1>4. FitOK'
  <2>1. CASE Fit
    BY <1>2, <1>3, <2>1 DEF Fit, FitOK, Ready, WalkTypes
  <2>2. CASE AllFit
    BY <1>2, <1>3, <2>2 DEF AllFit, FitOK, WalkTypes, Announced
  <2>3. QED
    BY <2>1, <2>2
<1>5. QED
  BY <1>1, <1>4

(* Cutting for the budget: something was kept, JSON's metadata is made for *)
(* what is left, and what goes is counted.                                 *)
LEMMA CutPreserves == WalkInv /\ Cut => WalkInv'
<1> SUFFICES ASSUME WalkInv, Cut PROVE WalkInv'
  OBVIOUS
<1> USE DEF WalkInv, Total
<1>1. WalkTypes' /\ SeenOK'
  BY DEF WalkTypes, SeenOK, Reach, Exact, Cut
<1>2. kept \in Nat /\ kept > 0 /\ kept < Items /\ req.budget # {} /\ MetaOK /\ offset \in Nat
      /\ Total \in Nat /\ req.json \in BOOLEAN
  BY DEF WalkTypes, Cut, Fits, Paged
<1>3. kept' = kept /\ req' = req /\ offset' = offset /\ stage' = "printing"
  BY DEF Cut
<1>4. CASE req.json
  <2>1. Items = meta.returned /\ offset + kept <= Total
    BY <1>2, <1>4 DEF Items, Heads, MetaOK, PageFacts
  <2>2. meta' = Paginate(Total, offset, kept)
    BY <1>4 DEF Cut
  <2>3. meta'.returned = kept
    BY <1>2, <2>1, <2>2, PaginateKept
  <2>4. MetaOK'
    <3>1. PageFacts(meta', Total, offset)
      BY <1>2, <2>2, PaginateMeta
    <3>2. QED
      BY <1>3, <3>1 DEF MetaOK
  <2>5. Hidden(meta') \in Nat
    BY <2>4, <1>1, <1>3 DEF Hidden, MetaOK, PageFacts, WalkTypes
  <2>6. Items' = kept /\ told' = Announced(meta, 0)'
    <3>1. Heads' = 0
      BY <1>3, <1>4 DEF Heads
    <3>2. told' = Announced(meta', 0)
      BY <1>4 DEF Cut
    <3>3. Announced(meta', 0) = Announced(meta, 0)'
      BY <1>3 DEF Announced, Hidden
    <3>4. QED
      BY <1>2, <2>3, <3>1, <3>2, <3>3 DEF Items
  <2>7. FitOK'
    <3>1. (Items - kept)' = 0
      BY <1>2, <1>3, <2>6
    <3>2. QED
      BY <1>2, <1>3, <2>6, <3>1 DEF FitOK, Announced
  <2>8. QED
    BY <1>1, <2>4, <2>7
<1>5. CASE ~req.json
  <2>1. meta' = meta
    BY <1>5 DEF Cut
  <2>2. MetaOK'
    BY <1>2, <1>3, <2>1 DEF MetaOK, PageFacts
  <2>3. Items' = Items /\ ~Exact' /\ Items \in Nat
    BY <1>2, <1>3, <1>5, <2>1 DEF Items, Heads, Exact, MetaOK, PageFacts
  <2>4. told' = Announced(meta, Items - kept)'
    <3>1. told' = Announced(meta', Items - kept)
      BY <1>5 DEF Cut
    <3>2. Announced(meta', Items - kept) = Announced(meta, Items - kept)'
      BY <1>3, <2>3 DEF Announced, Hidden
    <3>3. QED
      BY <3>1, <3>2
  <2>5. FitOK'
    BY <1>2, <1>3, <2>3, <2>4 DEF FitOK
  <2>6. QED
    BY <1>1, <2>2, <2>5
<1>6. QED
  BY <1>4, <1>5

(* What is shown is no more than the page holds, and all of it where the   *)
(* output is exact.                                                        *)
LEMMA ShownBounds ==
  ASSUME WalkInv, stage \in Ready
  PROVE  /\ Shown \in Nat /\ Shown <= meta.returned
         /\ Exact => Shown = meta.returned
<1>1. kept \in Nat /\ meta.returned \in Nat /\ MetaOK /\ FitOK
  BY DEF WalkInv, WalkTypes, MetaOK, PageFacts, Paged, Ready
<1>2. Heads \in {0, 1} /\ (Heads = 1 => meta.returned > 0)
  BY DEF Heads
<1>3. QED
  BY <1>1, <1>2 DEF Shown, FitOK, Items

(* Printing shows what lies beyond everything seen before. *)
LEMMA PrintPreserves == WalkInv /\ PrintPage => WalkInv'
<1> SUFFICES ASSUME WalkInv, PrintPage PROVE WalkInv'
  OBVIOUS
<1> USE DEF WalkInv, Total
<1>1. Shown \in Nat /\ Shown' = Shown /\ Exact' = Exact
  BY ShownBounds DEF PrintPage, Ready, Shown, Heads, Exact
<1>2. MetaOK' /\ FitOK'
  BY DEF PrintPage, MetaOK, PageFacts, FitOK, Items, Heads, Hidden, Announced, Paged, Ready,
         Exact
<1>3. WalkTypes'
  BY DEF PrintPage, WalkTypes
<1>4. SeenOK'
  <2>1. /\ stage = "printing" /\ stage' = "printed" /\ offset' = offset
        /\ start' = start /\ req' = req /\ offset \in Nat /\ start \in Nat
        /\ start <= offset
    BY DEF PrintPage, WalkTypes
  <2>2. Reach = offset /\ Reach' = offset + Shown
    BY <1>1, <2>1 DEF Reach
  <2>3. SUFFICES ASSUME NEW r \in 1 .. Total
                 PROVE  /\ seen'[r] <= 1
                        /\ r > Reach' => seen'[r] = 0
                        /\ Exact' /\ start < r /\ r <= Reach' => seen'[r] = 1
    BY <2>1 DEF SeenOK
  <2>4. seen'[r] = IF offset < r /\ r <= offset + Shown THEN seen[r] + 1 ELSE seen[r]
    BY DEF PrintPage, WalkTypes
  <2>5. /\ r \in Nat /\ seen[r] \in Nat
        /\ seen[r] <= 1
        /\ r > offset => seen[r] = 0
        /\ Exact /\ start < r /\ r <= offset => seen[r] = 1
    BY <2>2 DEF SeenOK, WalkTypes
  <2>6. QED
    BY <1>1, <2>1, <2>2, <2>4, <2>5
<1>5. QED
  BY <1>2, <1>3, <1>4 DEF PrintPage

(* The next page begins where this one ends. *)
LEMMA TurnPreserves == WalkInv /\ Turn /\ stage' = "called" => WalkInv'
<1> SUFFICES ASSUME WalkInv, Turn, stage' = "called" PROVE WalkInv'
  OBVIOUS
<1> USE DEF WalkInv, Total
<1>1. Shown \in Nat /\ Shown <= meta.returned /\ (Exact => Shown = meta.returned)
  BY ShownBounds DEF Turn, Ready
<1>2. /\ offset' = offset + meta.returned /\ meta.returned \in Nat
      /\ stage = "printed" /\ stage' = "called" /\ start' = start /\ req' = req
      /\ seen' = seen /\ kept' = kept
  BY DEF Turn, MetaOK, PageFacts, Paged, Ready
<1>3. WalkTypes'
  BY <1>2 DEF WalkTypes
<1>4. SeenOK'
  <2>1. Reach = offset + Shown /\ Reach' = offset + meta.returned /\ Exact' = Exact
    BY <1>2 DEF Reach, Exact
  <2>2. SUFFICES ASSUME NEW r \in 1 .. Total
                 PROVE  /\ seen[r] <= 1
                        /\ r > Reach' => seen[r] = 0
                        /\ Exact /\ start < r /\ r <= Reach' => seen[r] = 1
    BY <1>2, <2>1 DEF SeenOK
  <2>3. /\ r \in Nat /\ offset \in Nat
        /\ seen[r] <= 1
        /\ r > Reach => seen[r] = 0
        /\ Exact /\ start < r /\ r <= Reach => seen[r] = 1
    BY DEF SeenOK, WalkTypes
  <2>4. QED
    BY <1>1, <1>2, <2>1, <2>3
<1>5. QED
  BY <1>2, <1>3, <1>4 DEF Paged, Ready

(* What is offered the first time, or again, is cut into pages: it begins  *)
(* with the metadata of its offset and nothing kept.                       *)
LEMMA OfferPreserves ==
  ASSUME WalkInv, stage \notin Paged,
         NEW asked, asked.total \in Nat, asked.limit \in Nat,
         asked.json \in BOOLEAN, asked.envelope \in BOOLEAN, asked.envelope => asked.json,
         NEW next \in {"paging", "fitting"}, Offer(asked, next),
         (seen = <<>> /\ offset = start) \/ req' = req
  PROVE  WalkInv'
<1> DEFINE total == asked.total
           limit == asked.limit
<1> USE DEF WalkInv, Total
<1>1. /\ req' = asked
      /\ start' = start /\ offset' = offset /\ kept' = 0 /\ stage' = next
      /\ meta' = Paginate(total, offset, limit)
      /\ seen' = IF DOMAIN seen = 1 .. total THEN seen ELSE [r \in 1 .. total |-> 0]
  BY DEF Offer
<1>2. offset \in Nat /\ start \in Nat /\ start <= offset
  BY DEF WalkTypes
<1>3. Reach = offset /\ Reach' = offset
  BY <1>1 DEF Reach, Paged, Ready
<1>4. ASSUME seen = <<>>, offset = start PROVE WalkTypes' /\ SeenOK'
  <2>1. seen' \in [1 .. total -> Nat] /\ \A r \in 1 .. total : seen'[r] = 0
    <3>1. CASE total = 0
      BY <1>1, <1>4, <3>1
    <3>2. CASE total # 0
      <4>1. DOMAIN seen # 1 .. total
        <5>1. 1 \in 1 .. total /\ 1 \notin DOMAIN seen
          BY <1>4, <3>2
        <5>2. QED
          BY <5>1
      <4>2. QED
        BY <1>1, <4>1
    <3>3. QED
      BY <3>1, <3>2
  <2>2. WalkTypes'
    BY <1>1, <1>2, <2>1 DEF WalkTypes
  <2>3. SeenOK'
    BY <1>1, <1>2, <1>3, <1>4, <2>1 DEF SeenOK
  <2>4. QED
    BY <2>2, <2>3
<1>5. ASSUME req' = req PROVE WalkTypes' /\ SeenOK'
  <2>1. req.total = total
    BY <1>1, <1>5
  <2>2. seen' = seen
    BY <1>1, <2>1 DEF WalkTypes
  <2>3. WalkTypes'
    BY <1>1, <1>2, <1>5, <2>2 DEF WalkTypes
  <2>4. SeenOK'
    BY <1>1, <1>3, <1>5, <2>2 DEF SeenOK, Exact
  <2>5. QED
    BY <2>3, <2>4
<1>6. WalkTypes' /\ SeenOK'
  BY <1>4, <1>5
<1>7. MetaOK'
  <2>1. PageFacts(meta', total, offset)
    BY <1>1, <1>2, PaginateMeta
  <2>2. QED
    BY <1>1, <2>1 DEF MetaOK
<1>8. FitOK'
  <2>1. Items' \in Nat
    BY <1>7 DEF Items, Heads, MetaOK, PageFacts
  <2>2. QED
    BY <1>1, <2>1 DEF FitOK, Ready
<1>9. QED
  BY <1>6, <1>7, <1>8

(* What else an invocation does leaves its pages alone. *)
LEMMA AwayPreserves ==
  ASSUME WalkInv, stage \notin Paged, stage' \notin Paged,
         UNCHANGED <<req, start, offset, meta, kept, used, told, seen>>
  PROVE  WalkInv'
<1> USE DEF WalkInv
<1>1. WalkTypes'
  BY DEF WalkTypes, Total
<1>2. Reach = offset /\ Reach' = offset
  BY DEF Reach, Paged, Ready
<1>3. SeenOK'
  BY <1>2 DEF SeenOK, Total, Exact
<1>4. QED
  BY <1>1, <1>3

-----------------------------------------------------------------------------
(* The invocation.                                                         *)

(* The rows that are offered, and what is asked of them. *)
Offers(records, rows) ==
  IF Given("where") THEN \E tree \in Compiled : rows = Filtered(records, tree)
  ELSE rows = records.rows

Asks(q) == \E records \in Records : \E rows : Offers(records, rows) /\ q = RowsAsked(records, rows)

Walking == {"paging"} \cup Paged

CommandInv ==
  /\ call \in Calls
  /\ WalkInv
  /\ stage = "built" => found = Records /\ Mode \in Structured
  /\ stage = "rendering" => Mode \notin Structured
  /\ \/ seen = <<>> /\ offset = start /\ stage \notin Walking
     \/ Mode \in Structured /\ Asks(req)
     \/ Mode \notin Structured /\ stage \in Paged

(* An invocation is what it is. *)
LEMMA SameCall ==
  call' = call => /\ Mode' = Mode
                  /\ Records' = Records
                  /\ \A q : Asks(q)' <=> Asks(q)
<1> SUFFICES ASSUME call' = call
             PROVE  /\ Mode' = Mode
                    /\ Records' = Records
                    /\ \A q : Asks(q)' <=> Asks(q)
  OBVIOUS
<1>1. Mode' = Mode
  BY DEF Mode
<1>2. Records' = Records
  BY DEF Records, Mode, Given
<1>3. ASSUME NEW records, NEW rows
      PROVE  (Offers(records, rows)' <=> Offers(records, rows))
             /\ RowsAsked(records, rows)' = RowsAsked(records, rows)
  <2>1. Given("where")' = Given("where") /\ Compiled' = Compiled
    BY DEF Given, Compiled, Expression
  <2>2. Offers(records, rows)' <=> Offers(records, rows)
    BY <2>1 DEF Offers
  <2>3. RowsAsked(records, rows)' = RowsAsked(records, rows)
    BY DEF RowsAsked, Given, LimitOr
  <2>4. QED
    BY <2>2, <2>3
<1>4. ASSUME NEW q PROVE Asks(q)' <=> Asks(q)
  BY <1>2, <1>3 DEF Asks
<1>5. QED
  BY <1>1, <1>2, <1>4

(* There is one way to understand --where, and one result. *)
LEMMA AsksOnce ==
  ASSUME CommandInv, Mode \in Structured, NEW p, NEW q, Asks(p), Asks(q)
  PROVE  p = q
<1>1. PICK a \in Records : \E rows : Offers(a, rows) /\ p = RowsAsked(a, rows)
  BY DEF Asks
<1>2. PICK v : Offers(a, v) /\ p = RowsAsked(a, v)
  BY <1>1
<1>3. PICK b \in Records : \E rows : Offers(b, rows) /\ q = RowsAsked(b, rows)
  BY DEF Asks
<1>4. PICK w : Offers(b, w) /\ q = RowsAsked(b, w)
  BY <1>3
<1>5. a = b
  <2>1. ASSUME Mode = "select" PROVE a = b
    BY <2>1 DEF Records
  <2>2. ASSUME Mode = "row" PROVE a = b
    BY <2>2 DEF Records
  <2>3. ASSUME Mode = "table" PROVE a = b
    <3> DEFINE tables == TablesOf(call.page)
               As(headers, rows, force) == [headers |-> headers, rows |-> rows, force |-> force]
               several == As(<<>>, [t \in DOMAIN tables |-> tables[t].headers], tables # <<>>)
    <3>1. Records = IF Len(tables) = 1
                    THEN {As(tables[1].headers, tables[1].rows, FALSE)}
                    ELSE IF Given("where") /\ tables # <<>> THEN {} ELSE {several}
      BY <2>3 DEF Records
    <3> HIDE DEF tables, As, several
    <3>2. QED
      BY <3>1
  <2>4. ASSUME Mode = "locate" PROVE a = b
    BY <2>4 DEF Records
  <2>5. QED
    BY <2>1, <2>2, <2>3, <2>4 DEF Structured
<1>6. v = w
  <2>1. CASE Given("where")
    <3>1. Expression \in call.where
      BY <2>1, CallsAssumption DEF CommandInv, Given, Expression
    <3>2. \A s, t \in Compiled : s = t
      BY <3>1, CallsAssumption DEF CommandInv, Compiled
    <3>3. PICK s \in Compiled : v = Filtered(a, s)
      BY <1>2, <2>1 DEF Offers
    <3>4. PICK t \in Compiled : w = Filtered(b, t)
      BY <1>4, <2>1 DEF Offers
    <3>5. s = t
      BY <3>2
    <3>6. QED
      BY <1>5, <3>3, <3>4, <3>5
  <2>2. CASE ~Given("where")
    BY <1>2, <1>4, <1>5, <2>2 DEF Offers
  <2>3. QED
    BY <2>1, <2>2
<1>7. QED
  BY <1>2, <1>4, <1>5, <1>6

(* build_records gives sequences of rows. *)
LEMMA RecordsAreListed ==
  ASSUME CommandInv, Mode \in Structured, NEW records \in Records
  PROVE  Listed(records.rows)
<1> DEFINE d == call.page
           Single(texts) == [r \in DOMAIN texts |-> <<texts[r]>>]
<1>1. /\ IsDocument(d)
      /\ call.select \in Seq(Range(call.select))
  BY CallsAssumption DEF CommandInv
<1>2. ASSUME NEW texts, Listed(texts) PROVE Listed(Single(texts))
  <2> DEFINE n == Len(texts)
             S == {<<texts[r]>> : r \in 1 .. n}
  <2>1. Single(texts) = [r \in 1 .. n |-> <<texts[r]>>] /\ n \in Nat
    BY <1>2 DEF Listed
  <2>2. \A r \in 1 .. n : <<texts[r]>> \in S
    OBVIOUS
  <2> HIDE DEF Single, n, S
  <2>3. Single(texts) \in [1 .. n -> S]
    BY <2>1, <2>2
  <2>4. Single(texts) \in Seq(S) /\ Len(Single(texts)) = n
    BY <2>1, <2>3
  <2>5. QED
    BY <2>4 DEF Listed
<1>3. Listed(<<>>)
  BY DEF Listed
<1>4. CASE Mode = "select"
  <2>1. Valid(call.select)
        /\ records.rows = Single(SelectTexts(d, call.select))
    BY <1>4 DEF Records
  <2> HIDE DEF Single, d
  <2>2. QED
    BY <1>1, <1>2, <2>1, TextsAreListed
<1>5. CASE Mode = "row"
  <2>1. Valid(call.select)
        /\ records.rows = RowsOf(d, call.select, call.fields)
    BY <1>5 DEF Records
  <2> HIDE DEF d
  <2>2. QED
    BY <1>1, <2>1, RowsAreListed
<1>6. CASE Mode = "table"
  <2> DEFINE tables == TablesOf(d)
             Headers == [t \in DOMAIN tables |-> tables[t].headers]
  <2>1. \/ Len(tables) = 1 /\ records.rows = tables[1].rows
        \/ records.rows = Headers
    BY <1>6 DEF Records
  <2>2. /\ Listed(tables)
        /\ \A t \in DOMAIN tables : Listed(tables[t].rows)
    <3> HIDE DEF d
    <3> QED
      BY <1>1, TablesAreListed
  <2>3. Listed(Headers)
    <3> DEFINE n == Len(tables)
               S == {tables[t].headers : t \in 1 .. n}
    <3> HIDE DEF tables
    <3>1. Headers = [t \in 1 .. n |-> tables[t].headers] /\ n \in Nat
      BY <2>2 DEF Listed
    <3>2. \A t \in 1 .. n : tables[t].headers \in S
      OBVIOUS
    <3> HIDE DEF Headers, n, S
    <3>3. Headers \in [1 .. n -> S]
      BY <3>1, <3>2
    <3>4. Headers \in Seq(S) /\ Len(Headers) = n
      BY <3>1, <3>3
    <3>5. QED
      BY <3>4 DEF Listed
  <2>4. Len(tables) = 1 => 1 \in DOMAIN tables
    BY <2>2 DEF Listed
  <2> HIDE DEF tables, Headers
  <2>5. QED
    BY <2>1, <2>2, <2>3, <2>4
<1>7. CASE Mode = "locate"
  <2> DEFINE hits == Locate(d, call.needle)
             texts == [h \in DOMAIN hits |-> TextOf(d, hits[h].node)]
  <2>1. records.rows = Single(texts)
    BY <1>7 DEF Records
  <2>2. Listed(hits)
    <3> HIDE DEF d
    <3> QED
      BY <1>1, HitsAreListed
  <2>3. Listed(texts)
    <3> DEFINE n == Len(hits)
               S == {TextOf(d, hits[h].node) : h \in 1 .. n}
    <3> HIDE DEF hits
    <3>1. texts = [h \in 1 .. n |-> TextOf(d, hits[h].node)] /\ n \in Nat
      BY <2>2 DEF Listed
    <3>2. \A h \in 1 .. n : TextOf(d, hits[h].node) \in S
      OBVIOUS
    <3> HIDE DEF texts, n, S
    <3>3. texts \in [1 .. n -> S]
      BY <3>1, <3>2
    <3>4. texts \in Seq(S) /\ Len(texts) = n
      BY <3>1, <3>3
    <3>5. QED
      BY <3>4 DEF Listed
  <2> HIDE DEF Single, texts, hits
  <2>4. QED
    BY <1>2, <2>1, <2>3
<1>8. QED
  BY <1>4, <1>5, <1>6, <1>7 DEF Structured

(* ... and so does --where. *)
LEMMA FilteredIsListed ==
  ASSUME NEW records, Listed(records.rows), NEW tree
  PROVE  Listed(Filtered(records, tree))
<1> DEFINE B == {r \in DOMAIN records.rows :
                   Matches(tree, Object(records.headers, records.rows[r]))}
           n == Cardinality(B)
           g == [k \in 1 .. n |-> records.rows[Ordered(B)[k]]]
<1>1. Len(records.rows) \in Nat /\ B \in SUBSET (1 .. Len(records.rows))
  BY DEF Listed
<1>2. n \in Nat
  <2> HIDE DEF B
  <2> QED
    BY <1>1, FewNodes
<1>3. Filtered(records, tree) = FlattenSeq([k \in 1 .. n |-> <<g[k]>>])
  BY DEF Filtered, Gather
<1> HIDE DEF n, g
<1>4. QED
  BY <1>2, <1>3, SinglesAreListed

-----------------------------------------------------------------------------
LEMMA CommandInvInit == CommandInit => CommandInv
<1> SUFFICES ASSUME CommandInit PROVE CommandInv
  OBVIOUS
<1>1. call \in Calls /\ start \in Nat /\ offset = start /\ seen = <<>> /\ stage = "called"
  BY CallsAssumption DEF CommandInit
<1>2. WalkInv
  BY <1>1, WalkInvInit
<1>3. QED
  BY <1>1, <1>2 DEF CommandInv, Walking, Paged, Ready

(* A step that has to do with pages neither before nor after it. *)
LEMMA AwayKeeps ==
  ASSUME CommandInv, call' = call, stage \notin Walking, stage' \notin Walking,
         UNCHANGED <<req, start, offset, meta, kept, used, told, seen>>,
         stage' = "built" => found' = Records /\ Mode \in Structured,
         stage' = "rendering" => Mode \notin Structured
  PROVE  CommandInv'
<1>1. WalkInv'
  BY AwayPreserves DEF CommandInv, Walking
<1>2. Mode' = Mode /\ Records' = Records /\ (Asks(req)' <=> Asks(req))
  BY SameCall DEF Asks
<1>3. QED
  BY <1>1, <1>2 DEF CommandInv, Walking, Paged, Ready

(* Nothing but the files changes. *)
LEMMA ElsewhereKeeps ==
  ASSUME CommandInv, UNCHANGED <<call, got, main, found, walkVars>>
  PROVE  CommandInv'
<1> USE DEF walkVars, pageVars
<1>1. WalkInv'
  BY DEF CommandInv, WalkInv, WalkTypes, MetaOK, PageFacts, FitOK, SeenOK, Total, Exact,
         Reach, Shown, Items, Heads, Hidden, Announced, Paged, Ready
<1>2. Mode' = Mode /\ Records' = Records /\ (Asks(req)' <=> Asks(req))
  BY SameCall DEF Asks
<1>3. QED
  BY <1>1, <1>2 DEF CommandInv, Walking, Paged, Ready

(* emit_document and the outline, which are offered once. *)
LEMMA DocumentKeeps ==
  ASSUME CommandInv, stage \notin Walking, Mode \notin Structured,
         NEW total \in Nat, NEW dropped, NEW limit \in Nat, NEW cost,
         Offer(ItemsAsked(total, dropped, limit, cost), "fitting")
  PROVE  CommandInv'
<1> DEFINE asked == ItemsAsked(total, dropped, limit, cost)
<1>1. call' = call /\ found' = found /\ stage' = "fitting"
  BY DEF Offer
<1>2. seen = <<>> /\ offset = start
  BY DEF CommandInv, Walking
<1>3. WalkInv'
  <2>1. /\ asked.total = total /\ asked.limit = limit
        /\ asked.json = FALSE /\ asked.envelope = FALSE
    BY DEF ItemsAsked
  <2>2. Offer(asked, "fitting")
    OBVIOUS
  <2> HIDE DEF asked
  <2>3. /\ asked.total \in Nat /\ asked.limit \in Nat
        /\ asked.json \in BOOLEAN /\ asked.envelope \in BOOLEAN
        /\ (asked.envelope => asked.json)
    BY <2>1
  <2>4. WalkInv /\ stage \notin Paged
    BY DEF CommandInv, Walking, Paged
  <2>5. QED
    BY <1>2, <2>2, <2>3, <2>4, OfferPreserves
<1>4. Mode' = Mode
  BY <1>1, SameCall
<1>5. QED
  BY <1>1, <1>3, <1>4 DEF CommandInv, Walking, Paged, Ready

(* Records are offered again with every page, and are the same each time. *)
LEMMA RecordsKeep == CommandInv /\ OfferRecords => CommandInv'
<1> SUFFICES ASSUME CommandInv, OfferRecords PROVE CommandInv'
  OBVIOUS
<1>1. Mode \in Structured /\ found = Records /\ stage = "built"
  BY DEF CommandInv, OfferRecords
<1>2. PICK records \in Records :
        IF Given("where")
        THEN \E tree \in Compiled : \E rows \in {Filtered(records, tree)} :
               Offer(RowsAsked(records, rows), "paging")
        ELSE Offer(RowsAsked(records, records.rows), "paging")
  BY <1>1 DEF OfferRecords
<1>3. Listed(records.rows)
  BY <1>1, RecordsAreListed
<1>4. PICK rows : Offers(records, rows) /\ Offer(RowsAsked(records, rows), "paging")
                  /\ Listed(rows)
  <2>1. CASE Given("where")
    BY <1>2, <1>3, <2>1, FilteredIsListed DEF Offers
  <2>2. CASE ~Given("where")
    BY <1>2, <1>3, <2>2 DEF Offers
  <2>3. QED
    BY <2>1, <2>2
<1> DEFINE asked == RowsAsked(records, rows)
           limit == LimitOr(DefaultLimit)
<1>5. Offer(asked, "paging")
  BY <1>4
<1>6. req' = RowsAsked(records, rows) /\ call' = call /\ stage' = "paging"
  BY <1>4 DEF Offer
<1>7. Asks(req')
  BY <1>4, <1>6 DEF Asks
<1>8. (seen = <<>> /\ offset = start) \/ req' = req
  BY <1>1, <1>7, AsksOnce DEF CommandInv, Paged, Ready
<1>9. /\ asked.total \in Nat /\ asked.limit \in Nat /\ asked.json \in BOOLEAN
      /\ asked.envelope \in BOOLEAN /\ (asked.envelope => asked.json)
  <2>1. Len(rows) \in Nat
    BY <1>4 DEF Listed
  <2>2. limit \in Nat
    BY CallsAssumption, CommandAssumption DEF CommandInv, LimitOr
  <2>3. /\ asked.total = Len(rows) /\ asked.limit = limit
        /\ asked.json = (Given("json") \/ Given("json_envelope") \/ records.force)
        /\ asked.envelope = Given("json_envelope")
    BY DEF RowsAsked
  <2> HIDE DEF asked, limit
  <2>4. asked.total \in Nat /\ asked.limit \in Nat
    BY <2>1, <2>2, <2>3
  <2>5. Given("json_envelope") \in BOOLEAN /\ asked.envelope \in BOOLEAN
    BY <2>3 DEF Given
  <2>6. asked.json \in BOOLEAN
    BY Zenon, <2>3
  <2>7. asked.envelope => asked.json
    BY Zenon, <2>3
  <2>8. QED
    BY <2>4, <2>5, <2>6, <2>7
<1>10. WalkInv'
  <2> HIDE DEF asked
  <2> QED
    BY <1>1, <1>5, <1>8, <1>9, OfferPreserves DEF CommandInv, Paged, Ready
<1>11. Mode' = Mode /\ Asks(req)'
  <2>1. \A q : Asks(q)' <=> Asks(q)
    BY <1>6, SameCall
  <2>2. QED
    BY <1>6, <1>7, <2>1, SameCall
<1>12. QED
  BY <1>1, <1>6, <1>10, <1>11 DEF CommandInv

(* A page is cut and printed. *)
LEMMA PagingKeeps == CommandInv /\ Paging => CommandInv'
<1> SUFFICES ASSUME CommandInv, Paging PROVE CommandInv'
  OBVIOUS
<1>1. WalkInv'
  BY PagePreserves, FitPreserves, CutPreserves, PrintPreserves
  DEF CommandInv, Paging, PageNext
<1>2. call' = call /\ req' = req /\ stage' \in Paged
      /\ stage \in Walking
  BY DEF Paging, PageNext, Page, Fit, Cut, AllFit, PrintPage, Walking, Paged, Ready
<1>3. Mode' = Mode /\ (Asks(req)' <=> Asks(req))
  BY <1>2, SameCall DEF Asks
<1>4. QED
  BY <1>1, <1>2, <1>3 DEF CommandInv, Paged, Ready

(* The reader goes on. *)
LEMMA AgainKeeps == CommandInv /\ Again => CommandInv'
<1> SUFFICES ASSUME CommandInv, Again PROVE CommandInv'
  OBVIOUS
<1>1. WalkInv'
  BY TurnPreserves DEF CommandInv, Again
<1>2. call' = call /\ req' = req /\ stage' = "called" /\ stage = "printed"
      /\ Mode \in Structured
  BY DEF Again, Turn
<1>3. Mode' = Mode /\ (Asks(req)' <=> Asks(req))
  BY <1>2, SameCall DEF Asks
<1>4. QED
  BY <1>1, <1>2, <1>3 DEF CommandInv, Walking, Paged, Ready

(* Every step keeps the invariant. *)
LEMMA CommandInvStep == CommandInv /\ [CommandNext]_commandVars => CommandInv'
<1> SUFFICES ASSUME CommandInv, [CommandNext]_commandVars PROVE CommandInv'
  OBVIOUS
<1>1. CASE Validate
  BY <1>1, AwayKeeps DEF Validate, Walking, Paged, Ready
<1>2. CASE RequestFails \/ Receive \/ TooLarge \/ Received
  BY <1>2, AwayKeeps DEF RequestFails, Receive, TooLarge, Received, Goto, Walking, Paged, Ready
<1>3. CASE WriteOutput \/ Written \/ PrintWhole
  BY <1>3, AwayKeeps DEF WriteOutput, Written, PrintWhole, Goto, Walking, Paged, Ready
<1>4. CASE Write \/ Others
  BY <1>4, ElsewhereKeeps DEF Write, Others
<1>5. CASE TakeContent
  BY <1>5, AwayKeeps DEF TakeContent, Structured, Walking, Paged, Ready
<1>6. CASE RenderDocument
  <2>1. stage \notin Walking /\ Mode \notin Structured
    BY <1>6 DEF RenderDocument, CommandInv, Walking, Paged, Ready
  <2>2. IsDocument(call.page)
    BY CallsAssumption DEF CommandInv
  <2> DEFINE blocks == RenderHtml(Taken(call.page, main), Mode)
             total == Len(blocks)
             cost == [b \in DOMAIN blocks |-> Len(blocks[b])]
  <2>3. Offer(ItemsAsked(total, 0, total, cost), "fitting")
    BY <1>6 DEF RenderDocument
  <2>4. total \in Nat
    BY <2>2, BlocksAreCounted
  <2> HIDE DEF total, cost
  <2>5. QED
    BY <2>1, <2>3, <2>4, DocumentKeeps
<1>7. CASE Outline
  <2>1. stage \notin Walking /\ Mode \notin Structured
    BY <1>7 DEF Outline, Structured, Walking, Paged, Ready
  <2>2. IsDocument(call.page)
    BY CallsAssumption DEF CommandInv
  <2> DEFINE size == OutlineSize(call.page)
             total == Least(OutlineMost, size)
             limit == LimitOr(DefaultLimit)
             cost == [r \in 1 .. total |-> 1]
  <2>3. Offer(ItemsAsked(total, size - total, limit, cost), "fitting")
    BY <1>7 DEF Outline
  <2>4. total \in Nat
    BY <2>2, OutlineIsCounted, OutlineAssumption DEF Least
  <2>5. limit \in Nat
    BY CallsAssumption, CommandAssumption DEF CommandInv, LimitOr
  <2> HIDE DEF total, limit, cost
  <2>6. QED
    BY <2>1, <2>3, <2>4, <2>5, DocumentKeeps
<1>8. CASE BuildRecords
  BY <1>8, AwayKeeps DEF BuildRecords, Walking, Paged, Ready
<1>9. CASE Count \/ NoExpression
  BY <1>9, AwayKeeps DEF Count, NoExpression, Goto, Walking, Paged, Ready
<1>10. CASE OfferRecords
  BY <1>10, RecordsKeep
<1>11. CASE Paging
  BY <1>11, PagingKeeps
<1>12. CASE Again
  BY <1>12, AgainKeeps
<1>13. CASE UNCHANGED commandVars
  BY <1>13, ElsewhereKeeps DEF commandVars
<1>14. QED
  BY <1>1, <1>2, <1>3, <1>4, <1>5, <1>6, <1>7, <1>8, <1>9, <1>10, <1>11, <1>12, <1>13
  DEF CommandNext, CommandStep

LEMMA CommandInvAlways == CommandSpec => []CommandInv
  BY CommandInvInit, CommandInvStep, PTL DEF CommandSpec

-----------------------------------------------------------------------------
(* --offset as the hint names it: however often the reader goes on,        *)
(* nothing is printed twice, and where the output is exact nothing from    *)
(* the first offset on is left out.                                        *)
THEOREM PagesDoNotOverlap == CommandSpec => []EachShownOnce
<1>1. CommandInv => EachShownOnce
  <2> SUFFICES ASSUME WalkInv, NEW r \in DOMAIN seen
               PROVE  /\ seen[r] <= 1
                      /\ /\ req.json \/ req.budget = {}
                         /\ stage = "printed" /\ meta.next = {}
                         /\ start < r
                         => seen[r] = 1
    BY DEF CommandInv, EachShownOnce
  <2>1. r \in 1 .. Total /\ Total \in Nat /\ offset \in Nat
    BY DEF WalkInv, WalkTypes
  <2>2. seen[r] <= 1
    BY <2>1 DEF WalkInv, SeenOK
  <2>3. ASSUME Exact, stage = "printed", meta.next = {}, start < r
        PROVE  seen[r] = 1
    <3>1. Shown \in Nat /\ Shown = meta.returned
      BY <2>3, ShownBounds DEF Ready
    <3>2. offset + meta.returned >= Total
      BY <2>1, <2>3 DEF WalkInv, MetaOK, PageFacts, Paged, Ready
    <3>3. r <= Reach
      BY <2>1, <2>3, <3>1, <3>2 DEF Reach
    <3>4. QED
      BY <2>1, <2>3, <3>3 DEF WalkInv, SeenOK
  <2>4. QED
    BY <2>2, <2>3 DEF Exact
<1>2. QED
  BY <1>1, CommandInvAlways, PTL

(* README: omissions are announced, never silent: what is shown and what   *)
(* stderr announces are together everything from the page's offset on, or  *)
(* the envelope's metadata is that of what is shown. (Entries an outline   *)
(* dropped before counting are the exception: README, Known.)              *)
THEOREM NothingGoesUnannounced == CommandSpec => []OmissionsAnnounced
<1>1. CommandInv => OmissionsAnnounced
  <2> SUFFICES ASSUME WalkInv, stage = "printed", offset <= req.total
               PROVE  IF req.envelope
                      THEN /\ told = 0
                           /\ meta.total = req.total /\ meta.offset = offset
                           /\ meta.returned = Shown
                           /\ meta.next = IF offset + Shown < req.total
                                          THEN {offset + Shown} ELSE {}
                      ELSE offset + Shown + told = req.total
    BY DEF CommandInv, OmissionsAnnounced
  <2>1. Total \in Nat /\ offset \in Nat /\ kept \in Nat
    BY DEF WalkInv, WalkTypes
  <2>2. MetaOK /\ FitOK /\ stage \in Ready
    BY DEF WalkInv, Paged, Ready
  <2>3. Heads \in {0, 1}
    BY DEF Heads
  <2>4. Hidden(meta) + meta.returned + offset = Total /\ Hidden(meta) \in Nat
    <3>1. PageFacts(meta, Total, offset) /\ offset <= Total
      BY <2>2 DEF MetaOK, Total
    <3>2. meta.total = Total /\ meta.offset = offset /\ meta.returned \in Nat
      BY <3>1 DEF PageFacts
    <3>3. CASE meta.state = "more"
      <4>1. Hidden(meta) = Total - (offset + meta.returned) /\ offset + meta.returned < Total
        BY <3>1, <3>2, <3>3 DEF PageFacts, Hidden
      <4>2. QED
        BY <2>1, <3>2, <4>1
    <3>4. CASE meta.state # "more"
      <4>1. Hidden(meta) = 0
        BY <3>4 DEF Hidden
      <4>2. \/ meta.returned = 0 /\ offset >= Total
            \/ offset + meta.returned = Total
        BY <3>1, <3>4 DEF PageFacts
      <4>3. QED
        BY <2>1, <3>1, <3>2, <4>1, <4>2
    <3>5. QED
      BY <3>3, <3>4
  <2>5. told = Announced(meta, Items - kept)
    BY <2>2 DEF FitOK
  <2>6. CASE req.envelope
    <3>1. Shown = meta.returned /\ Shown \in Nat
      BY <2>2, <2>6, ShownBounds DEF WalkInv, WalkTypes, Exact
    <3>2. PageFacts(meta, Total, offset)
      BY <2>2 DEF MetaOK
    <3>3. meta.next = IF offset + Shown < Total THEN {offset + Shown} ELSE {}
      BY <2>1, <3>1, <3>2 DEF PageFacts
    <3>4. meta.total = Total /\ meta.offset = offset
      BY <3>2 DEF PageFacts
    <3>5. told = 0
      BY <2>5, <2>6 DEF Announced
    <3>6. QED
      BY <2>6, <3>1, <3>3, <3>4, <3>5 DEF Total
  <2>7. CASE ~req.envelope
    <3>1. told = Hidden(meta) + (Items - kept)
      BY <2>5, <2>7 DEF Announced
    <3>2. QED
      BY <2>1, <2>2, <2>3, <2>4, <2>7, <3>1 DEF Items, Shown, MetaOK, PageFacts, Total
  <2>8. QED
    BY <2>6, <2>7
<1>2. QED
  BY <1>1, CommandInvAlways, PTL

(* The next page the hint names begins behind the start of this one and    *)
(* before the end, so a reader who follows the hints comes to an end; and  *)
(* where the output is exact it begins with the first record not shown.    *)
THEOREM HintsGoForward == CommandSpec => []HintsLeadOn
<1>1. CommandInv => HintsLeadOn
  <2> SUFFICES ASSUME WalkInv, stage = "printed", meta.state = "more"
               PROVE  \E n \in meta.next :
                        /\ offset < n /\ n < req.total
                        /\ req.json \/ req.budget = {} => n = offset + Shown
    BY DEF CommandInv, HintsLeadOn
  <2>1. Total \in Nat /\ offset \in Nat /\ meta.returned \in Nat
    BY DEF WalkInv, WalkTypes, MetaOK, PageFacts, Paged, Ready
  <2>2. /\ meta.next = {offset + meta.returned}
        /\ meta.returned > 0 /\ offset + meta.returned < Total
    BY DEF WalkInv, MetaOK, PageFacts, Paged, Ready
  <2>3. Exact => Shown = meta.returned
    BY ShownBounds DEF Ready
  <2> DEFINE n == offset + meta.returned
  <2>4. n \in meta.next
    BY <2>2
  <2>5. offset < n /\ n < req.total
    BY <2>1, <2>2 DEF Total
  <2>6. req.json \/ req.budget = {} => n = offset + Shown
    BY <2>3 DEF Exact
  <2>7. QED
    BY <2>4, <2>5, <2>6
<1>2. QED
  BY <1>1, CommandInvAlways, PTL

-----------------------------------------------------------------------------
(* --output writes as atomic_write does, whatever else the command does    *)
(* and whoever else writes the same file.                                  *)
THEOREM CommandsWriteAtomically == CommandSpec => WriteSpec
<1>1. CommandInit => WriteInit
  BY DEF CommandInit
<1>2. [CommandNext]_commandVars => [WriteNext]_fileVars
  <2> SUFFICES ASSUME CommandNext \/ UNCHANGED commandVars
               PROVE  WriteNext \/ UNCHANGED fileVars
    OBVIOUS
  <2>1. CASE Write
    BY <2>1, CommandAssumption DEF Write, WriteNext
  <2>2. CASE Others
    BY <2>2 DEF Others, WriteNext
  <2>3. CASE CommandStep /\ ~Write
    BY <2>3 DEF CommandStep, Validate, RequestFails, Receive, TooLarge, Received,
                WriteOutput, Written, PrintWhole, TakeContent, RenderDocument, Outline,
                BuildRecords, Count, NoExpression, OfferRecords, Offer, Paging,
                Again, Goto
  <2>4. CASE UNCHANGED commandVars
    BY <2>4 DEF commandVars
  <2>5. QED
    BY <2>1, <2>2, <2>3, <2>4 DEF CommandNext
<1>3. QED
  BY <1>1, <1>2, PTL DEF CommandSpec, WriteSpec

(* --output: at every moment the output is the old one or the whole work   *)
(* of a command that returned Ok, however many write it and whoever dies.  *)
THEOREM OutputIsWhole == CommandSpec => []OutputWhole
<1>1. WriteInv => OutputWhole
  BY DEF WriteInv
<1>2. QED
  BY <1>1, WriteInvAlways, CommandsWriteAtomically, PTL

(* "On any failure the destination is left untouched": a command that      *)
(* returns leaves no temporary file either.                                *)
THEOREM FailuresLeaveNothing == CommandSpec => []FailureLeavesNothing
<1>1. WriteInv => FailureLeavesNothing
  BY DEF WriteInv, FailureLeavesNothing, Owned, Held, Holding
<1>2. QED
  BY <1>1, WriteInvAlways, CommandsWriteAtomically, PTL

-----------------------------------------------------------------------------
(* extract_main_content takes the same from a page whether or not what it  *)
(* is to ignore is there, for every page.                                  *)
THEOREM ClutterIsIgnored == CommandSpec => []ClutterHasNoInfluence
<1>1. CommandInv => ClutterHasNoInfluence
  <2> SUFFICES ASSUME CommandInv PROVE ClutterHasNoInfluence
    OBVIOUS
  <2>1. IsDocument(call.page)
    BY CallsAssumption DEF CommandInv
  <2>2. QED
    BY <2>1, ClutterDoesNotMatter DEF ClutterHasNoInfluence
<1>2. QED
  BY <1>1, CommandInvAlways, PTL

(* What --locate prints --select finds, for every page and needle.         *)
THEOREM LocatedIsSelected == CommandSpec => []LocatedSelects
<1>1. CommandInv => LocatedSelects
  <2> SUFFICES ASSUME CommandInv,
                      NEW h \in Range(Locate(call.page, call.needle))
               PROVE  /\ h.kind = "text" => TextHit(call.page, h.node, call.needle)
                      /\ h.selector # <<>> /\ Valid(h.selector) =>
                           h.node \in Selected(call.page, h.selector)
                      /\ Valid(h.selector) \/ call.page[h.node].tag \in {"html", "body"}
                         \/ \E p \in Range(h.selector) : \E name \in p.id \cup p.class :
                              name = <<>> \/ name[1] = "-"
    BY DEF LocatedSelects
  <2>1. IsDocument(call.page) /\ IsHtml(call.page)
    BY CallsAssumption DEF CommandInv
  <2>2. QED
    BY <2>1, HitsCanBeSelected
<1>2. QED
  BY <1>1, CommandInvAlways, PTL

(* render_html: whatever the page and its nesting, in both formats the     *)
(* letters that come out are those of the texts its layout shows, each     *)
(* once and in the order of the page; marks are all that is added.         *)
THEOREM RenderingIsExact == CommandSpec => []RendersExactly
<1>1. CommandInv => RendersExactly
  <2> SUFFICES ASSUME CommandInv, Regular(call.page), NEW mode
               PROVE  Letters(RenderHtml(call.page, mode)) = ShownText(call.page)
    BY DEF RendersExactly
  <2>1. /\ IsDocument(call.page) /\ IsHtml(call.page)
        /\ \A i \in DOMAIN call.page : Range(call.page[i].text) \cap Marks = {}
    BY CallsAssumption DEF CommandInv
  <2>2. Leafy(call.page)
    BY <2>1 DEF Leafy, IsHtml
  <2>3. QED
    BY <2>1, <2>2, RenderedExactly
<1>2. QED
  BY <1>1, CommandInvAlways, PTL

-----------------------------------------------------------------------------
(* The comparisons of --where.                                             *)

(* A value that can be placed: its text has an order, and it does not read *)
(* as NaN.                                                                 *)
Placeable(v) == v.text \in Range(ByteOrder) /\ ToNumber(v) # {NaN}

LEMMA SidesAreIntegers ==
  ASSUME NEW l, NEW r, Placeable(l), Placeable(r)
  PROVE  \E m, n \in Int : Sides(l, r) = <<m, n>>
<1>1. ASSUME NEW v, Placeable(v), ToNumber(v) # {}
      PROVE  (CHOOSE n \in ToNumber(v) : TRUE) \in Int
  <2>1. /\ ToNumber(v) = Reads[v.text]
        /\ v.text \in DOMAIN Reads
    BY <1>1, ValuesAssumption DEF ToNumber, Placeable
  <2>2. PICK n \in ToNumber(v) : \A k \in ToNumber(v) : k = n
    BY <1>1, <2>1, ValuesAssumption
  <2>3. n \in Int
    <3>1. n # NaN
      BY <1>1, <2>2 DEF Placeable
    <3>2. QED
      BY <2>1, <2>2, <3>1, ValuesAssumption
  <2>4. QED
    BY <2>2, <2>3
<1>2. ASSUME NEW v, Placeable(v) PROVE Place(v) \in Int
  <2>1. \E i \in DOMAIN ByteOrder : ByteOrder[i] = v.text
    BY <1>2 DEF Placeable, Range
  <2>2. Place(v) \in DOMAIN ByteOrder
    BY <2>1 DEF Place
  <2>3. DOMAIN ByteOrder \subseteq Int
    BY ValuesAssumption
  <2>4. QED
    BY <2>2, <2>3
<1>3. CASE ToNumber(l) # {} /\ ToNumber(r) # {}
  BY <1>1, <1>3 DEF Sides
<1>4. CASE ~(ToNumber(l) # {} /\ ToNumber(r) # {})
  BY <1>2, <1>4 DEF Sides
<1>5. QED
  BY <1>3, <1>4

LEMMA ComparedAsOrdered ==
  ASSUME NEW l, NEW r, NEW m \in Int, NEW n \in Int, Sides(l, r) = <<m, n>>
  PROVE  /\ (Compare("eq", l, r) <=> (m = n)) /\ (Compare("ne", l, r) <=> (m # n))
         /\ (Compare("gt", l, r) <=> (m > n)) /\ (Compare("le", l, r) <=> (m <= n))
         /\ (Compare("lt", l, r) <=> (m < n)) /\ (Compare("ge", l, r) <=> (m >= n))
<1>1. NaN \notin Range(Sides(l, r)) /\ Sides(l, r)[1] = m /\ Sides(l, r)[2] = n
  <2>1. Range(Sides(l, r)) = {m, n}
    BY DEF Range
  <2>2. QED
    BY <2>1, ValuesAssumption
<1>2. (LooseEq(l, r) <=> (m = n))
  BY <1>1 DEF LooseEq
<1>3. /\ (OrderedAs("gt", l, r) <=> (m > n)) /\ (OrderedAs("le", l, r) <=> (m <= n))
      /\ (OrderedAs("lt", l, r) <=> (m < n)) /\ (OrderedAs("ge", l, r) <=> (m >= n))
  <2> DEFINE s == Sides(l, r)
  <2>1. NaN \notin Range(s) /\ s[1] = m /\ s[2] = n
    BY <1>1
  <2> HIDE DEF s
  <2>2. (OrderedAs("gt", l, r) <=> (s[1] > s[2])) /\ (OrderedAs("le", l, r) <=> (s[1] <= s[2]))
    BY <2>1, Zenon DEF OrderedAs, s
  <2>3. (OrderedAs("lt", l, r) <=> (s[1] < s[2])) /\ (OrderedAs("ge", l, r) <=> (s[1] >= s[2]))
    BY <2>1, Zenon DEF OrderedAs, s
  <2>4. QED
    BY <2>1, <2>2, <2>3
<1>4. QED
  BY <1>2, <1>3 DEF Compare

Tells(op, l, r) == Truthy(Bool(Compare(op, l, r)))

LEMMA HoldsAsOrdered ==
  ASSUME NEW l, NEW r, NEW m \in Int, NEW n \in Int, Sides(l, r) = <<m, n>>
  PROVE  /\ (Tells("eq", l, r) <=> (m = n)) /\ (Tells("ne", l, r) <=> (m # n))
         /\ (Tells("gt", l, r) <=> (m > n)) /\ (Tells("le", l, r) <=> (m <= n))
         /\ (Tells("lt", l, r) <=> (m < n)) /\ (Tells("ge", l, r) <=> (m >= n))
<1>1. ASSUME NEW op PROVE Tells(op, l, r) <=> Compare(op, l, r)
  <2> DEFINE v == Bool(Compare(op, l, r))
  <2>1. v = [kind |-> "bool", text |-> IF Compare(op, l, r) THEN "true" ELSE "false"]
    BY DEF Bool
  <2> HIDE DEF v
  <2>2. v.kind = "bool" /\ v.text = IF Compare(op, l, r) THEN "true" ELSE "false"
    BY <2>1
  <2>3. Truthy(v) <=> Compare(op, l, r)
    BY <2>2 DEF Truthy
  <2>4. QED
    BY <2>3 DEF Tells, v
<1>2. QED
  BY <1>1, ComparedAsOrdered

LEMMA ValuesAreOrdered ==
  ASSUME NEW l, NEW r, Placeable(l), Placeable(r)
  PROVE  /\ Cardinality({op \in {"eq", "lt", "gt"} : Tells(op, l, r)}) = 1
         /\ (Tells("ne", l, r) <=> ~Tells("eq", l, r))
         /\ (Tells("le", l, r) <=> ~Tells("gt", l, r))
         /\ (Tells("ge", l, r) <=> ~Tells("lt", l, r))
<1> DEFINE ops == {op \in {"eq", "lt", "gt"} : Tells(op, l, r)}
<1>1. PICK m, n \in Int : Sides(l, r) = <<m, n>>
  BY SidesAreIntegers
<1>2. /\ (Tells("eq", l, r) <=> (m = n)) /\ (Tells("ne", l, r) <=> (m # n))
      /\ (Tells("gt", l, r) <=> (m > n)) /\ (Tells("le", l, r) <=> (m <= n))
      /\ (Tells("lt", l, r) <=> (m < n)) /\ (Tells("ge", l, r) <=> (m >= n))
  BY <1>1, HoldsAsOrdered
<1>3. \E one \in {"eq", "lt", "gt"} : ops = {one}
  <2>1. CASE m = n
    <3>1. Tells("eq", l, r) /\ ~Tells("lt", l, r) /\ ~Tells("gt", l, r)
      BY <1>2, <2>1
    <3>2. ops = {"eq"}
      BY <3>1
    <3>3. QED
      BY <3>2
  <2>2. CASE m < n
    <3>1. ~Tells("eq", l, r) /\ Tells("lt", l, r) /\ ~Tells("gt", l, r)
      BY <1>2, <2>2
    <3>2. ops = {"lt"}
      BY <3>1
    <3>3. QED
      BY <3>2
  <2>3. CASE m > n
    <3>1. ~Tells("eq", l, r) /\ ~Tells("lt", l, r) /\ Tells("gt", l, r)
      BY <1>2, <2>3
    <3>2. ops = {"gt"}
      BY <3>1
    <3>3. QED
      BY <3>2
  <2>4. QED
    BY <2>1, <2>2, <2>3
<1>4. Cardinality(ops) = 1
  BY <1>3, FS_Singleton
<1>5. ((m <= n) <=> ~(m > n)) /\ ((m >= n) <=> ~(m < n))
  OBVIOUS
<1>6. QED
  BY <1>2, <1>4, <1>5

(* Whatever the expressions and the pages: of two texts that can be        *)
(* compared at all exactly one of ==, < and > holds, and the others are    *)
(* their opposites.                                                        *)
THEOREM ComparingIsAnOrder == CommandSpec => []ComparisonsAgree
<1>1. ComparisonsAgree
  <2> DEFINE Value(tree, records, r, k) ==
               ValueWhere(tree.args[k], Object(records.headers, records.rows[r]))
             Is(op, tree, records, r) ==
               Truthy(Bool(Compare(op, Value(tree, records, r, 1), Value(tree, records, r, 2))))
             Agreeing(tree, records, r) ==
               (\A k \in {1, 2} : /\ Value(tree, records, r, k).text \in Range(ByteOrder)
                                  /\ ToNumber(Value(tree, records, r, k)) # {NaN}) =>
                 /\ Cardinality({op \in {"eq", "lt", "gt"} : Is(op, tree, records, r)}) = 1
                 /\ Is("ne", tree, records, r) <=> ~Is("eq", tree, records, r)
                 /\ Is("le", tree, records, r) <=> ~Is("gt", tree, records, r)
                 /\ Is("ge", tree, records, r) <=> ~Is("lt", tree, records, r)
  <2>1. ASSUME NEW tree, NEW records, NEW r PROVE Agreeing(tree, records, r)
    <3> SUFFICES ASSUME \A k \in {1, 2} : Placeable(Value(tree, records, r, k))
                 PROVE  /\ Cardinality({op \in {"eq", "lt", "gt"} : Is(op, tree, records, r)}) = 1
                        /\ Is("ne", tree, records, r) <=> ~Is("eq", tree, records, r)
                        /\ Is("le", tree, records, r) <=> ~Is("gt", tree, records, r)
                        /\ Is("ge", tree, records, r) <=> ~Is("lt", tree, records, r)
      BY Zenon DEF Placeable
    <3>1. Placeable(Value(tree, records, r, 1)) /\ Placeable(Value(tree, records, r, 2))
      OBVIOUS
    <3> HIDE DEF Value
    <3>2. QED
      BY <3>1, ValuesAreOrdered DEF Tells
  <2> HIDE DEF Agreeing
  <2>2. \A tree \in {t \in Compiled : t.op \in Comparisons}, records \in found :
          \A r \in DOMAIN records.rows : Agreeing(tree, records, r)
    BY <2>1
  <2>3. QED
    BY <2>2, Zenon DEF ComparisonsAgree, Agreeing
<1>2. QED
  BY <1>1, PTL
=================================================================================
