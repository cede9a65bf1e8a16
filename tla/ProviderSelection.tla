--------------------------- MODULE ProviderSelection ---------------------------
(***************************************************************************)
(* Which providers a search of the embedded backend asks, and what it says *)
(* of them afterwards: the pure part of src/src/embedded_search.rs and the *)
(* names and limits of src/src/lib.rs it rests on.                         *)
(*                                                                         *)
(* A query is a record                                                     *)
(*   [text, mode, engines, categories, language, page, time_range,         *)
(*    safe_search]                                                         *)
(* An engine name is the sequence of its comma-free pieces, so "a,b" is    *)
(* <<"a", "b">>: what joining names with commas loses stays visible. A     *)
(* query without categories has the empty sequence of them; language and   *)
(* time_range are whether the constraint was asked for; page is 0, and the *)
(* level safe_search 0, when the query names none.                         *)
(***************************************************************************)
EXTENDS Naturals, Sequences, FiniteSets, SequencesExt

CONSTANTS
  Blocked     \* the query texts that contain a term of the blocklist

Modes == {"speed", "balanced", "quality"}

Sources == {"web", "academic", "discussions"}

QueryRecords ==
  [text : STRING, mode : Modes, engines : Seq(Seq(STRING)), categories : Seq(STRING),
   language : BOOLEAN, page : Nat, time_range : BOOLEAN, safe_search : 0 .. 4]

ProviderLimit ==
  [speed |-> 1, balanced |-> 2, quality |-> 3]

Aliases ==
  [web         |-> {"duckduckgo", "ddg", "web"},
   academic    |-> {"openalex", "academic", "science"},
   discussions |-> {"hacker-news", "hackernews", "hn", "discussions"}]

Matching(name) == {s \in Sources : \E a \in Aliases[s] : name = <<a>>}

Known(name) == Matching(name) # {}

FromName(name) == CHOOSE s \in Matching(name) : TRUE

FromCategory(category) ==
  CASE category = "science"      -> "academic"
    [] category = "social media" -> "discussions"
    [] OTHER                     -> "web"

(* The elements of s at the positions in I, in their order. *)
Select(s, I) ==
  LET upto[n \in 0 .. Len(s)] ==
        IF n = 0 THEN <<>>
        ELSE IF n \in I THEN Append(upto[n - 1], s[n]) ELSE upto[n - 1]
  IN  upto[Len(s)]

(* The elements of s in order of their first appearance. *)
Distinct(s) ==
  Select(s, {i \in DOMAIN s : \A j \in 1 .. i - 1 : s[j] # s[i]})

NamedProviders(q) ==
  LET known == Select(q.engines, {i \in DOMAIN q.engines : Known(q.engines[i])})
  IN  Distinct([i \in DOMAIN known |-> FromName(known[i])])

CategoryProviders(q) ==
  LET categories == IF q.categories = <<>> THEN <<"general">> ELSE q.categories
  IN  Distinct([i \in DOMAIN categories |-> FromCategory(categories[i])])

(* Names decide; categories do when no name is known. *)
RequestedProviders(q) ==
  IF NamedProviders(q) # <<>> THEN NamedProviders(q) ELSE CategoryProviders(q)

Providers(q) ==
  LET requested == RequestedProviders(q)
      limit == ProviderLimit[q.mode]
  IN  IF Len(requested) > limit THEN SubSeq(requested, 1, limit) ELSE requested

(* search_with_outcome asks nobody for a blocked text at the highest level. *)
Disallowed(q) == q.safe_search = 4 /\ q.text \in Blocked

-----------------------------------------------------------------------------
(* coverage: computed again from the query, beside the statuses.           *)

(* What Selection must not do: count one provider too many within the limit. *)
SelectionOneTooMany(q, i, blocked) ==
  CASE i > ProviderLimit[q.mode] + 1              -> "mode_limit"
    [] i <= ProviderLimit[q.mode] + 1 /\ blocked  -> "blocked"
    [] i <= ProviderLimit[q.mode] + 1 /\ ~blocked -> "attempted"

Selection(q, i, blocked) ==
  CASE i > ProviderLimit[q.mode]               -> "mode_limit"
    [] i <= ProviderLimit[q.mode] /\ blocked   -> "blocked"
    [] i <= ProviderLimit[q.mode] /\ ~blocked  -> "attempted"

Succeeded(provider, statuses) ==
  \E i \in DOMAIN statuses :
    statuses[i].provider = provider /\ statuses[i].status = "success"

LanguageCoverage(q, attempted) ==
  IF ~q.language THEN "not_requested"
  ELSE IF attempted THEN "not_forwarded" ELSE "not_attempted"

TimeRangeCoverage(q, provider, attempted, statuses) ==
  CASE ~q.time_range                               -> "not_requested"
    [] q.time_range /\ ~attempted                  -> "not_attempted"
    [] q.time_range /\ attempted /\ provider # "web" -> "not_forwarded"
    [] q.time_range /\ attempted /\ provider = "web" ->
         IF Succeeded(provider, statuses) THEN "forwarded" ELSE "unknown"

(* The entry of a name nobody answers to; which name it was is left out. *)
UnknownEngine(q) ==
  [provider |-> "other", selection |-> "unknown_engine",
   language |-> LanguageCoverage(q, FALSE),
   time_range |-> TimeRangeCoverage(q, "other", FALSE, <<>>)]

ProviderCoverage(q, i, statuses, blocked) ==
  LET provider == RequestedProviders(q)[i]
      selection == Selection(q, i, blocked)
      attempted == selection = "attempted"
  IN  [provider |-> provider, selection |-> selection,
       language |-> LanguageCoverage(q, attempted),
       time_range |-> TimeRangeCoverage(q, provider, attempted, statuses)]

Coverage(q, statuses, blocked) ==
  LET unknown == Select(q.engines, {i \in DOMAIN q.engines : ~Known(q.engines[i])})
  IN  [i \in DOMAIN unknown |-> UnknownEngine(q)]
      \o [i \in DOMAIN RequestedProviders(q) |->
            ProviderCoverage(q, i, statuses, blocked)]
=============================================================================
