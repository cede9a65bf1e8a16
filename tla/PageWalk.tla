------------------------------- MODULE PageWalk -------------------------------
(***************************************************************************)
(* Paging of structured output: paginate and apply_budget of               *)
(* src/src/fetch.rs as run_fetch of src/src/bin/darash.rs combines them,   *)
(* and a reader who goes on with --offset as the hint says.                *)
(*                                                                         *)
(* A page is first cut at the limit, then at the budget. Records are       *)
(* 1 .. total, an offset is how many of them lie before the page.          *)
(***************************************************************************)
EXTENDS Naturals

VARIABLES
  req,          \* what is asked for: total, limit; budget and header (the
                \* cost of the header line), each {} when there is none;
                \* json, and envelope for the metadata around it; cost of
                \* each record; how many were dropped before they were
                \* counted; the same along a walk
  stage,        \* "paging", "fitting", "printing" or "printed"
  start,        \* the first offset of the walk
  offset,       \* that of the page under way
  meta,         \* PageMeta; next is {} for None
  kept,         \* how many items of the page are kept
  used,         \* the tokens they take
  told,         \* how many records stderr announces that the page leaves out
  seen          \* record -> how often it has been printed

pageVars == <<stage, offset, meta, kept, used, told, seen>>
walkVars == <<req, start, pageVars>>

Least(a, b) == IF a < b THEN a ELSE b

(* What paginate must not do: take a limit of 0 at its word. *)
PaginateFromZero(total, from, limit) ==
  IF from >= total /\ from > 0
  THEN [state |-> "past_end", total |-> total, offset |-> from, returned |-> 0,
        next |-> {}]
  ELSE LET returned == Least(total - from, limit)
       IN  [state |-> IF from + returned < total THEN "more" ELSE "complete",
            total |-> total, offset |-> from, returned |-> returned,
            next |-> IF from + returned < total THEN {from + returned} ELSE {}]

(* paginate: an offset at the end is past it, unless it is 0. *)
Paginate(total, from, limit) ==
  IF from >= total /\ from > 0
  THEN [state |-> "past_end", total |-> total, offset |-> from, returned |-> 0,
        next |-> {}]
  ELSE LET returned == Least(total - from, IF limit = 0 THEN 1 ELSE limit)
       IN  [state |-> IF from + returned < total THEN "more" ELSE "complete",
            total |-> total, offset |-> from, returned |-> returned,
            next |-> IF from + returned < total THEN {from + returned} ELSE {}]

(* plain_lines puts a header line before rows, if there are any. *)
Heads == IF ~req.json /\ req.header # {} /\ meta.returned > 0 THEN 1 ELSE 0

Items == Heads + meta.returned

CostOf(i) ==
  IF i <= Heads THEN CHOOSE c \in req.header : TRUE ELSE req.cost[offset + i - Heads]

Hidden(m) == IF m.state = "more" THEN m.total - (m.offset + m.returned) ELSE 0

(* On stderr, unless the metadata is printed with the page. *)
Announced(m, lines) == IF req.envelope THEN 0 ELSE Hidden(m) + lines

-----------------------------------------------------------------------------
Page ==
  /\ stage = "paging"
  /\ meta' = Paginate(req.total, offset, req.limit)
  /\ stage' = "fitting"
  /\ kept' = 0
  /\ used' = 0
  /\ told' = 0
  /\ UNCHANGED <<req, start, offset, seen>>

(* One round of apply_budget: the first item is kept whatever it costs. *)
Fits ==
  \/ req.budget = {}
  \/ kept = 0
  \/ \A b \in req.budget : used + CostOf(kept + 1) <= b

Fit ==
  /\ stage = "fitting"
  /\ kept < Items
  /\ Fits
  /\ kept' = kept + 1
  /\ used' = used + CostOf(kept + 1)
  /\ UNCHANGED <<req, start, stage, offset, meta, told, seen>>

(* What Cut must not do: leave the metadata as it was before the budget. *)
CutAsPaged ==
  /\ stage = "fitting"
  /\ kept < Items
  /\ ~Fits
  /\ told' = Announced(meta, IF req.json THEN 0 ELSE Items - kept)
  /\ stage' = "printing"
  /\ UNCHANGED <<req, start, offset, meta, kept, used, seen>>

(* The rest is omitted. In JSON the page is made again with the length the *)
(* budget left; plain output keeps its metadata and counts the lines that  *)
(* go.                                                                     *)
Cut ==
  /\ stage = "fitting"
  /\ kept < Items
  /\ ~Fits
  /\ meta' = IF req.json THEN Paginate(req.total, offset, kept) ELSE meta
  /\ told' = Announced(meta', IF req.json THEN 0 ELSE Items - kept)
  /\ stage' = "printing"
  /\ UNCHANGED <<req, start, offset, kept, used, seen>>

AllFit ==
  /\ stage = "fitting"
  /\ kept = Items
  /\ told' = Announced(meta, 0)
  /\ stage' = "printing"
  /\ UNCHANGED <<req, start, offset, meta, kept, used, seen>>

Shown == kept - Heads

PrintPage ==
  /\ stage = "printing"
  /\ seen' = [r \in DOMAIN seen |->
       IF offset < r /\ r <= offset + Shown THEN seen[r] + 1 ELSE seen[r]]
  /\ stage' = "printed"
  /\ UNCHANGED <<req, start, offset, meta, kept, used, told>>

(* The reader asks again, with the offset the last page named. *)
Turn ==
  /\ stage = "printed"
  /\ meta.state = "more"
  /\ offset' \in meta.next
  /\ UNCHANGED <<req, start, meta, kept, used, told, seen>>

PageNext == Page \/ Fit \/ Cut \/ AllFit \/ PrintPage

-----------------------------------------------------------------------------
(* Following the hints, a reader of JSON, or of plain output without a     *)
(* budget, sees no record twice and at the end has seen every record from  *)
(* the first offset on. (A budget on plain lines is not in the offset the  *)
(* hint names, so there the omitted ones are skipped; what remains true is *)
(* that nothing is repeated.)                                              *)
EachShownOnce ==
  \A r \in DOMAIN seen :
    /\ seen[r] <= 1
    /\ /\ req.json \/ req.budget = {}
       /\ stage = "printed" /\ meta.next = {}
       /\ start < r
       => seen[r] = 1

(* README: "omissions are announced on stderr, never silent"; but          *)
(* "--json-envelope instead prints" the metadata. What a page shows and    *)
(* what stderr says it leaves out are together everything from its offset  *)
(* on; in an envelope stderr is silent, and the metadata printed is that   *)
(* of the records printed, also where the budget cut them. (An outline     *)
(* that dropped entries before counting says nothing of those, which is    *)
(* not what README says: README, Known.)                                   *)
OmissionsAnnounced ==
  stage = "printed" /\ offset <= req.total /\ req.dropped = 0 =>
    IF req.envelope
    THEN /\ told = 0
         /\ meta.total = req.total /\ meta.offset = offset /\ meta.returned = Shown
         /\ meta.next = IF offset + Shown < req.total THEN {offset + Shown} ELSE {}
    ELSE offset + Shown + told = req.total

(* The hint never sends a reader round in a circle or past the end: the    *)
(* next page begins behind the start of this one, whatever limit and       *)
(* budget, and where the budget cut the page the first record that was cut *)
(* is its first (but for plain lines, as above).                           *)
HintsLeadOn ==
  stage = "printed" /\ meta.state = "more" =>
    \E n \in meta.next :
      /\ offset < n /\ n < req.total
      /\ req.json \/ req.budget = {} => n = offset + Shown
=============================================================================
