---------------------------- MODULE MCSearchClient ----------------------------
(* Model checking of SearchClient: a query, five that differ from it in    *)
(* one field each, and one that is refused.                                *)
EXTENDS SearchClient, TLC

Q(text, mode, categories, engines) ==
  [text |-> text, mode |-> mode, engines |-> engines, categories |-> categories,
   language |-> FALSE, page |-> 0, time_range |-> FALSE, safe_search |-> 0]

Both == Q("t", "balanced", <<"general", "social media">>, <<>>)
BothFast == Q("t", "speed", <<"general", "social media">>, <<>>)
Empty == Q("", "balanced", <<"general">>, <<>>)

OneKeyQueries == {BothFast, Empty}
KeyQueries ==
  { Both, BothFast,
    [Both EXCEPT !.language = TRUE], [Both EXCEPT !.page = 2],
    [Both EXCEPT !.time_range = TRUE], [Both EXCEPT !.safe_search = 3] }

EmptyQueries == {Empty}

Symmetry == Permutations(Tasks)
=============================================================================
