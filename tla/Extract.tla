-------------------------------- MODULE Extract --------------------------------
(***************************************************************************)
(* The structured extractors of src/src/fetch.rs: outline, tables, rows,   *)
(* select_texts and locate. A selector is a sequence of parts joined by    *)
(* child combinators, each                                                 *)
(*   [tag, id, class]                                                      *)
(* with id and class {} or {the name as it is written in the selector}.    *)
(* An element has at most one class; case is folded away.                  *)
(***************************************************************************)
EXTENDS Render

CONSTANTS
  NameLetters,    \* characters of names: ASCII letters and _,
  Figures,      \* ASCII digits,
  Signs,        \* ASCII punctuation but -,
  Foreign,      \* and everything that is not ASCII
  OutlineMost   \* entries of an outline (25 in the code)

Characters == NameLetters \cup Figures \cup Signs \cup Foreign \cup {"-"}

ASSUME CharactersAssumption ==
  /\ "3" \notin Signs
  /\ "backslash" \notin NameLetters \cup Figures \cup Foreign

ASSUME OutlineAssumption == OutlineMost \in Nat

(* Ids and classes are words, body, if there is one, is below html, and    *)
(* texts and rules have no content.                                        *)
IsHtml(d) ==
  \A i \in DOMAIN d :
    /\ \A name \in {"id", "class"} : Has(d, i, name) => d[i].attrs[name] \in Seq(Characters)
    /\ d[i].tag = "html" => i = 1
    /\ d[i].tag = "body" => d[i].up = 1 /\ d[1].tag = "html"
    /\ d[i].tag \in {"#text", "hr"} => Nodes(d, i) = {}
    /\ d[i].tag = "hr" => d[i].text = <<>>

-----------------------------------------------------------------------------
(* Names in selectors.                                                     *)

(* A digit c in front has the code 3c in hexadecimal. *)
EscapeCssIdent(name) ==
  FlattenSeq([k \in DOMAIN name |->
    IF name[k] \in Signs THEN <<"backslash", name[k]>>
    ELSE IF k = 1 /\ name[k] \in Figures THEN <<"backslash", "3", name[k], "blank">>
    ELSE <<name[k]>>])

(* How CSS reads it back: {} if it is no identifier. An escape is up to    *)
(* the blank if it begins with a digit, or else one character.             *)
ReadEscapes(s) ==
  LET from[k \in Nat] ==
        IF k > Len(s) THEN <<>>
        ELSE IF s[k] # "backslash" THEN <<s[k]>> \o from[k + 1]
        ELSE IF s[k + 1] = "3" THEN <<s[k + 2]>> \o from[k + 4]
        ELSE <<s[k + 1]>> \o from[k + 2]
  IN  from[1]

BeginsName(c) == c \in NameLetters \cup Foreign \cup {"backslash"}

ReadCssIdent(s) ==
  IF \/ s # <<>> /\ BeginsName(s[1])
     \/ Len(s) > 1 /\ s[1] = "-" /\ (s[2] = "-" \/ BeginsName(s[2]))
  THEN {ReadEscapes(s)} ELSE {}

-----------------------------------------------------------------------------
(* Selectors, as the scraper library matches them.                         *)

Part(tag, id, class) == [tag |-> tag, id |-> id, class |-> class]
Tag(t) == <<Part(t, {}, {})>>

Valid(selector) ==
  /\ selector # <<>>
  /\ \A k \in DOMAIN selector : \A name \in selector[k].id \cup selector[k].class :
       ReadCssIdent(name) # {}

FitsPart(d, i, part) ==
  /\ part.tag = d[i].tag
  /\ \A name \in part.id : Has(d, i, "id") /\ ReadCssIdent(name) = {d[i].attrs["id"]}
  /\ \A name \in part.class : Has(d, i, "class") /\ ReadCssIdent(name) = {d[i].attrs["class"]}

(* Those the first n parts match: a child of those that one part less does. *)
Selected(d, selector) ==
  LET matched[n \in 1 .. Len(selector)] ==
        LET before == IF n = 1 THEN {} ELSE matched[n - 1]
        IN  {i \in DOMAIN d : /\ FitsPart(d, i, selector[n])
                              /\ n = 1 \/ d[i].up \in before}
  IN  {i \in matched[Len(selector)] : IsElement(d, i)}

(* select_texts *)
SelectTexts(d, selector) == Gather(Selected(d, selector), LAMBDA i : <<TextOf(d, i)>>)

-----------------------------------------------------------------------------
(* rows. A field is [name, selector, attr]; attr is {} for its text.       *)

FieldsValid(fields) ==
  /\ fields # <<>>
  /\ \A f \in DOMAIN fields : fields[f].name # <<>> /\ Valid(fields[f].selector)

FieldOf(d, i, field) ==
  LET found == {j \in Selected(d, field.selector) : i \in Above(d, j)}
  IN  IF found = {} THEN <<>>
      ELSE IF field.attr = {} THEN TextOf(d, Min(found))
      ELSE Attr(d, Min(found), CHOOSE name \in field.attr : TRUE)

RowsOf(d, container, fields) ==
  Gather(Selected(d, container),
         LAMBDA i : <<[f \in DOMAIN fields |-> FieldOf(d, i, fields[f])]>>)

(* tables: the first row that has cells is the header. *)
TablesOf(d) ==
  LET tables == {i \in DOMAIN d : d[i].tag = "table" /\ Rows(d, i) # <<>>}
  IN  Gather(tables, LAMBDA i : <<[headers |-> Rows(d, i)[1], rows |-> Tail(Rows(d, i))]>>)

-----------------------------------------------------------------------------
OutlineTags ==
  Headings \cup {"p", "a", "ul", "ol", "li", "table", "tr", "article", "section", "nav",
                 "aside", "form", "button", "img", "pre", "blockquote"}

(* outline: the tags and tag.class pairs that occur. *)
Noted(d, i) ==
  (IF d[i].tag \in OutlineTags THEN {<<d[i].tag, <<>>>>} ELSE {})
  \cup (IF Attr(d, i, "class") # <<>> THEN {<<d[i].tag, d[i].attrs["class"]>>} ELSE {})

OutlineSize(d) ==
  Cardinality(UNION {Noted(d, i) : i \in {i \in DOMAIN d :
                       IsElement(d, i) /\ d[i].tag \notin SkippedElements}})

-----------------------------------------------------------------------------
(* locate.                                                                 *)

Holds(text, needle) ==
  \E k \in 0 .. Len(text) - Len(needle) : SubSeq(text, k + 1, k + Len(needle)) = needle

Name(d, i, attr) == IF Has(d, i, attr) THEN {EscapeCssIdent(d[i].attrs[attr])} ELSE {}

(* selector_part: an id stands for the classes. *)
PartOf(d, i) ==
  Part(d[i].tag, Name(d, i, "id"), IF Has(d, i, "id") THEN {} ELSE Name(d, i, "class"))

(* What visit_locate must not do: leave what it has visited on the path. *)
PathUnpopped(d, i) ==
  Gather({j \in 1 .. i : IsElement(d, j) /\ d[j].tag \notin {"html", "body"}},
         LAMBDA j : <<PartOf(d, j)>>)

(* selector_path *)
PathTo(d, i) ==
  Gather({j \in {i} \cup Above(d, i) : d[j].tag \notin {"html", "body"}},
         LAMBDA j : <<PartOf(d, j)>>)

AttrHit(d, i, needle) == \E name \in DOMAIN d[i].attrs : Holds(d[i].attrs[name], needle)

TextHit(d, i, needle) ==
  /\ Holds(TextOf(d, i), needle)
  /\ \A c \in Elements(d, i) : ~Holds(TextOf(d, c), needle)

Locate(d, needle) ==
  Gather({i \in DOMAIN d : IsElement(d, i) /\ (AttrHit(d, i, needle) \/ TextHit(d, i, needle))},
         LAMBDA i : <<[node |-> i, selector |-> PathTo(d, i),
                       kind |-> IF AttrHit(d, i, needle) THEN "attr" ELSE "text"]>>)
===============================================================================
