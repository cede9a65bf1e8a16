---------------------------- MODULE MCFetchCommand ----------------------------
(***************************************************************************)
(* Invocations of darash fetch for TLC: a family for each question, with   *)
(* small pages that are all the trees of a few elements.                   *)
(***************************************************************************)
EXTENDS FetchWhere

NoAttrs == [name \in {} |-> <<>>]
Element(tag, up, text, attrs) == [tag |-> tag, up |-> up, text |-> text, attrs |-> attrs]
Base == <<Element("html", 0, <<>>, NoAttrs), Element("body", 1, <<>>, NoAttrs)>>

(* The shapes of n nodes below body, in document order. *)
RECURSIVE Branch(_, _)
Branch(ups, i) == IF i <= 2 THEN {2} ELSE {i} \cup Branch(ups, ups[i])

Shapes(n) == {ups \in [3 .. n + 2 -> 2 .. n + 1] :
                \A i \in 3 .. n + 2 : ups[i] \in IF i = 3 THEN {2} ELSE Branch(ups, i - 1)}

(* The pages of n nodes of the kinds [tag, text, attrs]. *)
PageOf(ups, kinds) ==
  Base \o [k \in DOMAIN kinds |-> Element(kinds[k].tag, ups[k + 2], kinds[k].text, kinds[k].attrs)]
Pages(n, kinds) == {PageOf(ups, chosen) : ups \in Shapes(n), chosen \in [1 .. n -> kinds]}

Kind(tag, text, attrs) == [tag |-> tag, text |-> text, attrs |-> attrs]
Bare(tag) == Kind(tag, <<"x">>, NoAttrs)

Plain ==
  [flags |-> {}, page |-> Base \o <<Element("p", 2, <<"x">>, NoAttrs)>>, size |-> 0, cap |-> 1,
   select |-> Tag("p"), fields |-> <<[name |-> <<"a">>, selector |-> Tag("b"), attr |-> {}]>>,
   needle |-> <<"x">>, where |-> {<<Token("path", <<"a">>)>>}, limit |-> {}, budget |-> {},
   offset |-> 0]

-----------------------------------------------------------------------------
(* Options that contradict each other, answers that are too large, and     *)
(* selectors and specs that are none.                                      *)

FewOf(set, n) == UNION {kSubset(k, set) : k \in 0 .. n}

Options ==
  FewOf({"main_content", "main_fallback", "count", "json_envelope", "where"}, 2)
  \cup {{"render"}, {"render", "url"}, {"render", "url", "browser"}, {"browser"},
        {"render", "url", "browser", "post"}, {"wait_for"}}

NotASelector == <<Part("p", {<<"1">>}, {})>>

OptionCalls ==
  {[Plain EXCEPT !.flags = modes \cup options, !.offset = from] :
     modes \in FewOf(Modes \cup {"row"}, 2), options \in Options, from \in {0, 1}}

RequestCalls ==
  [flags : {{"select"}, {"body"}}, size : 0 .. 2, cap : 0 .. 2,
   page : {Plain.page}, select : {Plain.select}, fields : {<<>>}, needle : {<<>>},
   where : {{}}, limit : {{}}, budget : {{}}, offset : {0}]

MalformedCalls ==
  {[Plain EXCEPT !.flags = flags, !.select = NotASelector] :
     flags \in {{"select"}, {"select", "row"}, {"select", "count"}}}
  \cup {[Plain EXCEPT !.flags = {"select", "row"}, !.fields = fields] :
          fields \in {<<>>, <<[name |-> <<>>, selector |-> Tag("b"), attr |-> {}]>>,
                     <<[name |-> <<"a">>, selector |-> NotASelector, attr |-> {}]>>}}
  \cup {[Plain EXCEPT !.flags = {"select", "count"}, !.select = Tag("b")]}

-----------------------------------------------------------------------------
(* Pages of records of one or three letters.                               *)

RecordPage(texts) ==
  Base \o FlattenSeq([k \in DOMAIN texts |->
            <<Element("p", 2, <<>>, NoAttrs), Element("b", 2 * k + 1, texts[k], NoAttrs)>>])

Table(under, rows) ==
  <<Element("table", 2, <<>>, NoAttrs)>>
  \o FlattenSeq([r \in DOMAIN rows |->
       LET tr == under + 1 + (r - 1) * (Len(rows[1]) + 1) + 1
       IN  <<Element("tr", under + 1, <<>>, NoAttrs)>>
           \o [c \in DOMAIN rows[r] |-> Element("td", tr, rows[r][c], NoAttrs)]])

OneTable(rows) == Base \o Table(2, rows)
TwoTables(rows) == OneTable(rows) \o Table(Len(OneTable(rows)), rows)

PageCalls ==
  {[Plain EXCEPT !.flags = flags, !.page = RecordPage(texts), !.limit = limit,
                 !.budget = budget, !.offset = from] :
     flags \in {{"select"}, {"select", "json"}, {"select", "json_envelope"}, {"select", "row"}},
     texts \in BoundedSeq({<<"x">>, <<"x", "x", "x">>}, 3),
     limit \in {{}, {0}, {1}}, budget \in {{}, {0}, {2}, {4}}, from \in {0, 1, 3, 4}}

TableCalls ==
  {[Plain EXCEPT !.flags = flags, !.page = page, !.budget = budget] :
     flags \in {{"table"}, {"table", "json"}, {"table", "where"}},
     page \in {Base, OneTable(<<<<<<"a">>>>>>), OneTable(<<<<<<"a">>, <<"b">>>>, <<<<"x">>, <<>>>>>>),
              TwoTables(<<<<<<"a">>>>, <<<<"x">>>>>>)},
     budget \in {{}, {1}}}

-----------------------------------------------------------------------------
(* Short sentences over all kinds of tokens, longer ones of the Boolean    *)
(* operators, and comparisons of everything with everything.               *)

Sign(kind) == Token(kind, <<>>)
PathA == Token("path", <<"a">>)

Terms ==
  {<<PathA>>, <<Sign("not"), PathA>>, <<PathA, Sign("eq"), Token("number", <<"1">>)>>,
   <<PathA, Sign("notmatch"), Token("regex", <<"b">>)>>}

Grouped(left, right) ==
  {l \o <<Sign(op)>> \o r : l \in left, op \in {"or", "and"}, r \in right}
Bracketed(inner) == {<<Sign("lparen")>> \o e \o <<Sign("rparen")>> : e \in inner}

Composed ==
  LET two == Grouped(Terms, Terms)
  IN  two \cup Grouped(two, Terms) \cup Grouped(Terms, Bracketed(two))
      \cup {<<Sign("not")>> \o e : e \in Bracketed(two)}
      \cup Grouped(Grouped({<<PathA>>}, {<<PathA>>}), Grouped({<<PathA>>}, {<<PathA>>}))

Sentences ==
  BoundedSeq({PathA, Token("number", <<"1">>), Token("regex", <<"b">>), Token("bool", <<"true">>),
              Sign("or"), Sign("and"), Sign("not"), Sign("eq"), Sign("match"), Sign("gt"),
              Sign("lparen"), Sign("rparen")}, 3)
  \cup [1 .. 4 -> {PathA, Sign("or"), Sign("not"), Sign("ge"), Sign("ne"), Sign("lparen"),
                   Sign("rparen")}]
  \cup [1 .. 5 -> {PathA, Sign("or"), Sign("and"), Sign("not"), Sign("lparen"), Sign("rparen")}]
  \cup Composed

SentenceCalls ==
  {[Plain EXCEPT !.flags = {"select", "row", "where"}, !.where = {s}] : s \in Sentences}

Texts == <<"", "1", "1.0", "10", "2", "NaN", "x">>

(* Each text beside each. *)
PairPages ==
  {OneTable(<<<<<<"a">>, <<"b">>>>>> \o [k \in DOMAIN Texts |-> <<<<t>>, <<Texts[k]>>>>]) :
     t \in Range(Texts)}

Operands ==
  {PathA, Token("literal", <<"b">>), Token("number", <<"2">>),
   Token("string", <<"10">>), Token("bool", <<"true">>), Token("path", <<"b", ".", "length">>),
   Token("path", <<"c">>)}

ComparisonCalls ==
  {[Plain EXCEPT !.flags = {"table", "where"}, !.page = d, !.limit = {9},
                 !.where = {<<l, Sign("lt"), r>>}] :
     d \in PairPages, l \in Operands, r \in Operands}

ReadsOf ==
  [t \in {"", "NaN", "false", "true", "x"} |-> IF t = "NaN" THEN {NaN} ELSE {}]
  @@ [t \in {"0"} |-> {0}] @@ [t \in {"1", "1.0"} |-> {1}] @@ [t \in {"2", "2.0"} |-> {2}]
  @@ [t \in {"3"} |-> {3}] @@ [t \in {"10"} |-> {10}]

InByteOrder == <<"", "0", "1", "1.0", "10", "2", "2.0", "3", "NaN", "false", "true", "x">>

LengthsOf ==
  [t \in {""} |-> "0"] @@ [t \in {"1", "2", "x"} |-> "1"] @@ [t \in {"10"} |-> "2"]
  @@ [t \in {"1.0", "NaN"} |-> "3"]

MatchingOf == <<"b">> :> {"x"}

-----------------------------------------------------------------------------
(* Pages a parser can give: no block in a paragraph, no link in a link,    *)
(* cells in rows in tables.                                                *)

Phrasing == {"a", "strong", "code", "span", "img", "br", "#text", "script"}
Childless == {"img", "br", "hr", "#text", "script"}
Textless == {"ul", "ol", "dl", "table", "tr", "img", "br", "hr"}

Parseable(d) ==
  \A i \in 3 .. Len(d) :
    LET parent == d[d[i].up].tag
        above == {d[j].tag : j \in Above(d, i)}
    IN  /\ parent \notin Childless
        /\ above \cap ({"p", "pre"} \cup Headings) # {} => d[i].tag \in Phrasing
        /\ d[i].tag = "a" => "a" \notin above
        /\ (d[i].tag = "tr") = (parent = "table")
        /\ (d[i].tag = "td") = (parent = "tr")
        /\ d[i].tag = "#text" => parent \notin Textless

(* Every text of a page is a letter of its own. *)
Alphabet == <<"k", "l", "m", "n", "o", "p">>
Lettered(d) ==
  [i \in DOMAIN d |-> IF i <= 2 \/ d[i].tag \in Textless THEN d[i]
                      ELSE [d[i] EXCEPT !.text = <<Alphabet[i - 2]>>]]

RenderPages(n, tags) ==
  {Lettered(d) : d \in {d \in Pages(n, {Kind(t, <<>>, NoAttrs) : t \in tags}) : Parseable(d)}}

ManyTags ==
  {"h1", "p", "ul", "ol", "pre", "blockquote", "hr", "dl", "dt", "dd", "div", "strong", "code",
   "a", "img", "br", "li", "section", "#text", "script", "table", "span"}
FewTags == {"p", "ul", "blockquote", "div", "strong", "code", "a", "li", "#text"}

LinkedPage(label) ==
  Base \o <<Element("a", 2, label, [name \in {"href"} |-> <<"u">>]),
            Element("img", 2, <<>>, [name \in {"src"} |-> <<"u">>])>>

UnevenTable ==
  Base \o <<Element("table", 2, <<>>, NoAttrs),
            Element("tr", 3, <<>>, NoAttrs), Element("th", 4, <<"k">>, NoAttrs),
            Element("th", 4, <<"l">>, NoAttrs),
            Element("tr", 3, <<>>, NoAttrs), Element("td", 7, <<"m">>, NoAttrs)>>

RenderCalls ==
  {[Plain EXCEPT !.flags = {"text"}, !.page = d] :
     d \in RenderPages(2, ManyTags) \cup RenderPages(3, FewTags)
           \cup RenderPages(4, {"ul", "li", "p"})
           \cup {OneTable(<<<<<<"k">>, <<>>>>, <<<<"l">>, <<"m">>>>>>), UnevenTable,
                 LinkedPage(<<>>), LinkedPage(<<"k">>)}}
  \cup {[Plain EXCEPT !.flags = {"markdown"}, !.page = d, !.budget = budget] :
          d \in RenderPages(2, FewTags), budget \in {{}, {0}, {4}}}

(* A block in an inline element. *)
LostCalls ==
  {[Plain EXCEPT !.flags = {"text"}, !.page = d] :
     d \in RenderPages(2, {"a", "div", "span", "p", "#text"})}

-----------------------------------------------------------------------------
(* Names with digits and signs in front and inside.                        *)

Names == {<<"x">>, <<"1", "x">>, <<"x", "1">>, <<":", "x">>, <<"-", "1">>, <<"-", "x">>,
          <<"foreign">>}
Nameless == [name \in {"id"} |-> <<>>]
Named(names) == {NoAttrs} \cup {[name \in {attr} |-> n] : attr \in {"id", "class"}, n \in names}

LocateCalls ==
  {[Plain EXCEPT !.flags = {"locate"}, !.page = d, !.needle = needle] :
     d \in Pages(2, {Kind("div", <<c>>, a) : c \in {"x", "y"}, a \in Named(Names) \cup {Nameless}})
           \cup Pages(3, {Kind("div", <<c>>, a) : c \in {"x", "y"}, a \in Named({<<"x">>})}),
     needle \in {<<"x">>, <<"y", "x">>}}

OutlineCalls ==
  {[Plain EXCEPT !.flags = {"outline"}, !.page = d, !.limit = limit, !.budget = budget] :
     d \in Pages(2, {Kind(t, <<>>, a) : t \in {"p", "a", "span", "script"}, a \in Named({<<"x">>})}),
     limit \in {{}, {0}, {1}}, budget \in {{}, {0}, {1}}}

-----------------------------------------------------------------------------
(* Content between clutter. Prose is two paragraphs in a block.            *)

Hidden1 == [name \in {"hidden"} |-> <<>>]
WithRole(role) == [name \in {"role"} |-> <<role>>]

ManyKinds ==
  {Kind(t, <<>>, NoAttrs) : t \in {"div", "p", "main", "article", "form", "header", "nav", "a"}}
  \cup {Kind("div", <<>>, Hidden1), Kind("main", <<>>, Hidden1),
        Kind("div", <<>>, WithRole("main")), Kind("div", <<>>, WithRole("navigation"))}
FewKinds == {Kind(t, <<>>, NoAttrs) : t \in {"div", "p", "a"}} \cup {Kind("p", <<>>, Hidden1)}

(* A page that is hidden as a whole. *)
HiddenPages ==
  {<<Element("html", 0, <<>>, Hidden1)>> \o SubSeq(d, 2, Len(d)) : d \in {Plain.page}}

ContentCalls(pages, fallbacks) ==
  {[Plain EXCEPT !.flags = {"text", "main_content"} \cup fallback, !.page = d] :
     d \in pages, fallback \in fallbacks}

MainCalls ==
  ContentCalls({Lettered(d) : d \in Pages(3, ManyKinds) \cup Pages(4, FewKinds)}, {{}})
  \cup ContentCalls(Pages(2, ManyKinds) \cup HiddenPages, {{}, {"main_fallback"}})

HiddenRootCalls == ContentCalls(Pages(2, ManyKinds) \cup HiddenPages, {{}, {"main_fallback"}})

-----------------------------------------------------------------------------
OutputCalls ==
  {[Plain EXCEPT !.flags = flags, !.size = 1] : flags \in {{"output"}, {"output", "body"}}}

AllCalls ==
  UNION {OptionCalls, RequestCalls, MalformedCalls, PageCalls, TableCalls, SentenceCalls,
         ComparisonCalls, RenderCalls, LocateCalls, OutlineCalls, MainCalls, OutputCalls}
===============================================================================
