------------------------------ MODULE MainContent ------------------------------
(***************************************************************************)
(* extract_main_content of src/src/main_content.rs. The answer is the node *)
(* whose HTML is taken and those that were detached from it. An attribute  *)
(* "hidden" stands for the three ways to hide an element; roles are words. *)
(***************************************************************************)
EXTENDS Document

CONSTANTS
  WordLength,   \* bytes that a letter of the model stands for
  ProseScore    \* bytes of prose that make unmarked content (160 in the code)

ASSUME ContentAssumption == WordLength \in Nat

Role(d, i) == IF Has(d, i, "role") THEN d[i].attrs["role"][1] ELSE "none"

Landmark(d, i) == d[i].tag \in {"main", "article"} \/ Role(d, i) \in {"main", "article"}

ClutterTags ==
  {"nav", "aside", "footer", "script", "style", "noscript", "template", "iframe",
   "canvas", "head"}
ClutterRoles ==
  {"navigation", "banner", "contentinfo", "complementary", "search", "dialog"}

(* is_clutter: a form is kept for a landmark in it, a header for one above *)
(* it.                                                                     *)
Clutter(d, i) ==
  \/ Has(d, i, "hidden")
  \/ d[i].tag \in ClutterTags
  \/ d[i].tag = "form" /\ ~\E j \in Within(d, i) : Landmark(d, j)
  \/ Role(d, i) \in ClutterRoles
  \/ d[i].tag = "header" /\ ~\E j \in Above(d, i) : Landmark(d, j)

(* What is left below the root after everything cluttered is detached. *)
Live(d) == {i \in DOMAIN d : \A j \in {i} \cup Above(d, i) : ~Clutter(d, j)}

LiveText(d, nodes) == Len(TextOfAll(d, nodes \cap Live(d))) * WordLength

(* non_link_score. A link in a link would count twice; none can be. *)
Score(d, i) ==
  LET links == {a \in Within(d, i) \ {i} : d[a].tag = "a"}
  IN  LiveText(d, {j \in Within(d, i) : links \cap ({j} \cup Above(d, j)) = {}})

Sources == <<"main", "article", "prose">>

Offered(d, i, source) ==
  CASE source = "prose" -> d[i].tag \in {"section", "div"}
    [] OTHER -> d[i].tag = source \/ Role(d, i) = source

(* What the search must not do: visit detached nodes too. *)
CandidatesAnywhere(d, source) ==
  {i \in 2 .. Len(d) :
    /\ Offered(d, i, source)
    /\ LiveText(d, Within(d, i)) > 0
    /\ source = "prose" => /\ Score(d, i) >= ProseScore
                           /\ Cardinality({p \in Within(d, i) : d[p].tag = "p"}) >= 2}

Candidates(d, source) ==
  {i \in Live(d) \ {1} :
    /\ Offered(d, i, source)
    /\ LiveText(d, Within(d, i)) > 0
    /\ source = "prose" =>
         /\ Score(d, i) >= ProseScore
         /\ Cardinality({p \in Within(d, i) \cap Live(d) : d[p].tag = "p"}) >= 2}

(* In prose a block that holds another candidate is only its wrapper. *)
Eligible(d, source) ==
  LET all == Candidates(d, source)
  IN  IF source = "prose" THEN {i \in all : \A j \in all : i \notin Above(d, j)} ELSE all

Best(d, source) ==
  LET all == Eligible(d, source)
      most == {i \in all : \A j \in all : Score(d, j) <= Score(d, i)}
  IN  Min(most)

(* The outcome: the source, and the root of what is taken. The search      *)
(* starts at the root element, whose absence the library takes for a       *)
(* programming error.                                                      *)
ExtractMain(d, fallback) ==
  LET found == {k \in DOMAIN Sources : Eligible(d, Sources[k]) # {}}
  IN  IF 1 \notin Live(d) THEN [source |-> "panic", root |-> 0]
      ELSE IF found # {}
      THEN [source |-> Sources[Min(found)], root |-> Best(d, Sources[Min(found)])]
      ELSE IF fallback = "full" THEN [source |-> "full", root |-> 1]
      ELSE [source |-> "error", root |-> 0]

(* Some nodes of a document as a document of their own. *)
Pruned(d, nodes) ==
  LET kept == Ordered(nodes)
  IN  [k \in DOMAIN kept |->
        [d[kept[k]] EXCEPT !.up = Rank(nodes, @)]]

(* What is taken is written as HTML, which the renderer parses again.      *)
Wrapped(d) ==
  <<[tag |-> "html", up |-> 0, text |-> <<>>, attrs |-> <<>>],
    [tag |-> "body", up |-> 1, text |-> <<>>, attrs |-> <<>>]>>
  \o [k \in DOMAIN d |-> [d[k] EXCEPT !.up = @ + 2]]

Taken(d, main) ==
  IF main.source = "full" THEN d ELSE Wrapped(Pruned(d, Within(d, main.root) \cap Live(d)))
===============================================================================
