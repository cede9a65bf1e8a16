---------------------------- MODULE EmbeddedSearch ----------------------------
(***************************************************************************)
(* One search of the embedded backend, src/src/embedded_search.rs, with    *)
(* the step of src/src/lib.rs that hands its outcome to the caller.        *)
(*                                                                         *)
(* join_all polls the selected providers together; each answers or fails   *)
(* at its own time. When the last one has, finish_search builds the        *)
(* response from the outcomes in the order the providers were selected.    *)
(* A caller may drop the future while it waits.                            *)
(*                                                                         *)
(* A result is [url, content]. Content is a number, its length, and stands *)
(* for all the text block and allow terms are looked up in. Score, order   *)
(* of presentation and the remaining fields are left out, so results are a *)
(* set.                                                                    *)
(***************************************************************************)
EXTENDS ProviderSelection, FiniteSetsExt

CONSTANTS
  Queries,      \* the queries of callers that passed the checks of search
  Urls,         \* the URLs of results
  Pages,        \* what a provider may answer: sequences of results
  PageLimit,    \* provider_result_limit, a function of the mode
  BlockedText,  \* the contents that match the blocklist
  AllowedText   \* the contents that match the allowlist

ASSUME SearchAssumption ==
  /\ PageLimit \in [Modes -> Nat]
  /\ Queries \subseteq QueryRecords
  /\ Pages \subseteq Seq([url : Urls, content : Nat])
  /\ BlockedText \subseteq Nat
  /\ AllowedText \subseteq Nat

VARIABLES
  query,        \* the query of the caller
  providers,    \* the providers selected for it, in order
  pc,           \* where the search is
  outcomes,     \* provider -> its Result, for those that answered or failed
  asked,        \* the providers a request was sent to
  response      \* the SearchResponse, once there is one

searchVars == <<query, providers, pc, outcomes, asked, response>>

None == [disallowed |-> FALSE]   \* no response yet

(* A provider's Result; an Err carries no page. *)
Ok(page) == [ok |-> TRUE, page |-> page]
Err == [ok |-> FALSE, page |-> <<>>]

Answered(p) == p \in DOMAIN outcomes /\ outcomes[p].ok

-----------------------------------------------------------------------------
(* results.extend in provider order, failed providers contributing nothing. *)
Collected ==
  LET answered == Select(providers, {i \in DOMAIN providers : Answered(providers[i])})
  IN  FlattenSeq([i \in DOMAIN answered |->
        LET page == outcomes[answered[i]].page
        IN  [j \in DOMAIN page |-> [provider |-> answered[i], result |-> page[j]]]])

(* What MergedResult must not do: keep the engine that came first, alone. *)
FirstEngineOnly(c, u) ==
  LET same == Select(c, {i \in DOMAIN c : c[i].result.url = u})
  IN  [engines |-> <<same[1].provider>>,
       content |-> Max({same[i].result.content : i \in DOMAIN same})]

(* dedupe_and_rank: one result per URL, which gathers the engines of those *)
(* that brought it, each once, and the longest of their contents.          *)
MergedResult(c, u) ==
  LET same == Select(c, {i \in DOMAIN c : c[i].result.url = u})
  IN  [engines |-> Distinct([i \in DOMAIN same |-> same[i].provider]),
       content |-> Max({same[i].result.content : i \in DOMAIN same})]

Merged(c) ==
  [u \in {c[i].result.url : i \in DOMAIN c} |-> MergedResult(c, u)]

(* What Kept must not do: start filtering one level late. *)
KeptBelowTop(q, found) ==
  { u \in DOMAIN found :
      \/ q.safe_search <= 3
      \/ found[u].content \notin BlockedText
      \/ found[u].content \in AllowedText }

(* The safe-search filter, after results were merged. *)
Kept(q, found) ==
  { u \in DOMAIN found :
      \/ q.safe_search < 3
      \/ found[u].content \notin BlockedText
      \/ found[u].content \in AllowedText }

Status(p) ==
  IF Answered(p)
  THEN [provider |-> p, status |-> "success", count |-> Len(outcomes[p].page)]
  ELSE [provider |-> p, status |-> "failed", count |-> 0]

Statuses == [i \in DOMAIN providers |-> Status(providers[i])]

(* What AllFailed must not be: true of the first failure. *)
AnyFailed == \E i \in DOMAIN providers : ~Answered(providers[i])

AllFailed ==
  /\ providers # <<>>
  /\ \A i \in DOMAIN providers : ~Answered(providers[i])

DisallowedResponse(q) ==
  [results |-> {}, number_of_results |-> 0, provider_status |-> <<>>,
   coverage |-> Coverage(q, <<>>, TRUE), filtered |-> FALSE,
   disallowed |-> TRUE]

Response(q, c) ==
  LET found == Merged(c)
      kept  == Kept(q, found)
  IN  [results |-> {[url |-> u, content |-> found[u].content,
                     engines |-> found[u].engines] : u \in kept},
       number_of_results |-> Cardinality(kept),
       provider_status |-> Statuses,
       coverage |-> Coverage(q, Statuses, FALSE),
       filtered |-> kept # DOMAIN found,
       disallowed |-> FALSE]

(* search_embedded appends the failures that have no status yet. *)
WithFailures(r) ==
  LET unreported == Select(providers, {i \in DOMAIN providers :
        /\ ~Answered(providers[i])
        /\ \A j \in DOMAIN r.provider_status :
             r.provider_status[j].provider # providers[i]})
  IN  [r EXCEPT !.provider_status =
         @ \o [i \in DOMAIN unreported |-> Status(unreported[i])]]

-----------------------------------------------------------------------------
SearchInit ==
  /\ query \in Queries
  /\ providers = Providers(query)
  /\ pc = "called"
  /\ outcomes = <<>>
  /\ asked = {}
  /\ response = None

(* The blocked query returns before a provider is contacted. *)
Refuse ==
  /\ pc = "called"
  /\ Disallowed(query)
  /\ pc' = "done"
  /\ response' = DisallowedResponse(query)
  /\ UNCHANGED <<query, providers, outcomes, asked>>

(* The first poll of join_all sends every request. *)
Ask ==
  /\ pc = "called"
  /\ ~Disallowed(query)
  /\ pc' = "waiting"
  /\ asked' = ToSet(providers)
  /\ UNCHANGED <<query, providers, outcomes, response>>

Outstanding == asked \ DOMAIN outcomes

Resolve(p, outcome) ==
  /\ pc = "waiting"
  /\ p \in Outstanding
  /\ outcomes' = [s \in DOMAIN outcomes \cup {p} |->
                    IF s = p THEN outcome ELSE outcomes[s]]
  /\ UNCHANGED <<query, providers, pc, asked, response>>

Cut(page, limit) == IF Len(page) > limit THEN SubSeq(page, 1, limit) ELSE page

Answer(p) ==
  \E page \in Pages : Resolve(p, Ok(Cut(page, PageLimit[query.mode])))

(* An HTTP error, a timeout, an oversized or undecodable body. *)
Fail(p) == Resolve(p, Err)

(* What Finish must not do: wait for a provider that failed to answer yet. *)
FinishWhenAllAnswered ==
  /\ pc = "waiting"
  /\ \A p \in asked : Answered(p)
  /\ pc' = "done"
  /\ \E c \in {Collected} : response' = WithFailures(Response(query, c))
  /\ UNCHANGED <<query, providers, outcomes, asked>>

Finish ==
  /\ pc = "waiting"
  /\ Outstanding = {}
  /\ \/ /\ AllFailed
        /\ pc' = "failed"
        /\ UNCHANGED response
     \/ /\ ~AllFailed
        /\ pc' = "done"
        /\ \E c \in {Collected} : response' = WithFailures(Response(query, c))
  /\ UNCHANGED <<query, providers, outcomes, asked>>

(* The caller drops the future: a timeout of its own, a select!, a shutdown. *)
Drop ==
  /\ pc = "waiting"
  /\ pc' = "dropped"
  /\ UNCHANGED <<query, providers, outcomes, asked, response>>

Ended == pc \in {"done", "failed", "dropped"} /\ UNCHANGED searchVars

SearchNext ==
  \/ Refuse
  \/ Ask
  \/ \E p \in Sources : Answer(p) \/ Fail(p)
  \/ Finish
  \/ Drop
  \/ Ended

(* The task runs when it can. reqwest ends the requests to OpenAlex and    *)
(* Hacker News by the client's timeout; the blocking DuckDuckGo request    *)
(* has a limit per read only, so no fairness is assumed of "web".          *)
Fairness ==
  /\ WF_searchVars(Refuse)
  /\ WF_searchVars(Ask)
  /\ WF_searchVars(Finish)
  /\ \A p \in Sources \ {"web"} : WF_searchVars(Answer(p) \/ Fail(p))

SearchSpec == SearchInit /\ [][SearchNext]_searchVars /\ Fairness

-----------------------------------------------------------------------------
Done == pc = "done"

Attempts(coverage) ==
  Select(coverage, {i \in DOMAIN coverage : coverage[i].selection = "attempted"})

(* coverage re-derives from the query what providers() selected, and the   *)
(* statuses come from the outcomes: the two reports name the same          *)
(* providers in the same order, exactly those a request was sent to, each  *)
(* once. A refused query contacts nobody and says so.                      *)
CoverageMatchesContacts ==
  Done =>
    LET attempts == Attempts(response.coverage) IN
    /\ [i \in DOMAIN attempts |-> attempts[i].provider]
         = [i \in DOMAIN response.provider_status |->
              response.provider_status[i].provider]
    /\ {attempts[i].provider : i \in DOMAIN attempts} = asked
    /\ Len(attempts) = Cardinality(asked)
    /\ response.disallowed <=> asked = {}

(* One provider's failure costs its results only: the search fails when    *)
(* every provider it asked did, and in no other case, and a successful one *)
(* reports each provider as it fared.                                      *)
FailsOnlyWhenAllFail ==
  /\ pc = "failed" => \A p \in asked : ~outcomes[p].ok
  /\ Done /\ ~response.disallowed =>
       /\ \E p \in asked : outcomes[p].ok
       /\ \A i \in DOMAIN response.provider_status :
            LET s == response.provider_status[i]
            IN  s.status = "success" <=> outcomes[s.provider].ok

Holds(p, url) ==
  /\ p \in asked
  /\ outcomes[p].ok
  /\ \E j \in DOMAIN outcomes[p].page : outcomes[p].page[j].url = url

(* Whatever order the providers answered in, and however often a page      *)
(* repeats a URL, a result credits exactly the providers that returned its *)
(* URL, in the order they were selected, and carries the longest content.  *)
MergedFaithfully ==
  Done => \A r \in response.results :
    /\ r.engines = Select(providers, {i \in DOMAIN providers : Holds(providers[i], r.url)})
    /\ \A p \in asked : Holds(p, r.url) =>
         \A j \in DOMAIN outcomes[p].page :
           outcomes[p].page[j].url = r.url => outcomes[p].page[j].content <= r.content

(* From level 3 on no result that matches the blocklist alone is shown,    *)
(* below it nothing is withheld, and filtered is set exactly when a URL    *)
(* some provider returned is missing.                                      *)
FilterTellsTheTruth ==
  Done =>
    LET shown == {r.url : r \in response.results}
        returned == {u \in Urls : \E p \in asked : Holds(p, u)}
    IN  /\ \A r \in response.results :
             query.safe_search >= 3 =>
               r.content \notin BlockedText \/ r.content \in AllowedText
        /\ query.safe_search < 3 => shown = returned
        /\ response.filtered <=> shown # returned

(* A search that does not ask DuckDuckGo ends: its requests carry the      *)
(* client's timeout. Nothing bounds one that does.                         *)
EndsWithoutWeb ==
  ("web" \notin ToSet(providers)) ~> (pc \in {"done", "failed", "dropped"})
=============================================================================
