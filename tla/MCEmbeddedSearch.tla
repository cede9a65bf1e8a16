--------------------------- MODULE MCEmbeddedSearch ---------------------------
(* Model checking of EmbeddedSearch: every way two URLs can come back from *)
(* up to three providers, once or twice in a page, with the block and      *)
(* allow lists telling three lengths of content apart.                     *)
EXTENDS EmbeddedSearch

MCPageLimit == [speed |-> 1, balanced |-> 2, quality |-> 2]

R(url, content) == [url |-> url, content |-> content]

MCPages ==
  { <<>>,
    <<R("u", 1)>>,
    <<R("u", 2), R("u", 3)>>,
    <<R("v", 2), R("u", 1)>>,
    <<R("v", 3)>> }

Q(mode, engines, categories, constrained, level) ==
  [text |-> "t", mode |-> mode, engines |-> engines, categories |-> categories,
   language |-> constrained, page |-> 0, time_range |-> constrained,
   safe_search |-> level]

MCQueries ==
  { Q("quality", <<>>, <<"general", "science", "social media">>, TRUE, 3),
    Q("quality", << <<"hn">>, <<"ddg">>, <<"hackernews">> >>, <<>>, FALSE, 0),
    Q("balanced", <<>>, <<"science", "social media", "general">>, TRUE, 2),
    Q("balanced", << <<"bing">>, <<"openalex">>, <<"web">> >>, <<>>, TRUE, 4),
    Q("balanced", << <<"ddg", "hn">> >>, <<"science">>, TRUE, 0),
    Q("speed", << <<"hn">>, <<"ddg">> >>, <<>>, TRUE, 3),
    Q("speed", <<>>, <<>>, TRUE, 0),
    [Q("quality", << <<"bing">>, <<"hn">> >>, <<>>, TRUE, 4)
       EXCEPT !.text = "blocked"],
    [Q("speed", <<>>, <<"science", "general">>, FALSE, 4)
       EXCEPT !.text = "blocked"],
    [Q("quality", <<>>, <<"general", "science">>, FALSE, 3)
       EXCEPT !.text = "blocked"] }
=============================================================================
