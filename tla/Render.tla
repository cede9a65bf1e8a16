-------------------------------- MODULE Render --------------------------------
(***************************************************************************)
(* to_markdown and to_text of src/src/fetch.rs: an element is rendered as  *)
(* a sequence of paragraphs, its inline content as a sequence of letters   *)
(* and marks. White space is left out; what is empty without it counts as  *)
(* empty, as the code's trim has it.                                       *)
(***************************************************************************)
EXTENDS Document

Marks == {"#", "**", "*", "tick", "fence", "[", "]", "url", "-", "1.", ">", ":", "---", "|"}

Headings == {"h1", "h2", "h3", "h4", "h5", "h6"}

BlockContainers ==
  {"body", "td", "div", "section", "article", "main", "header", "footer", "aside",
   "nav", "figure", "figcaption", "details", "summary", "address", "fieldset", "form",
   "center"}

(* push_paragraph drops what is blank. *)
Paragraph(text) == IF text = <<>> THEN <<>> ELSE <<text>>

Marked(mode, text, mark) ==
  IF mode = "markdown" /\ text # <<>> THEN <<mark>> \o text \o <<mark>> ELSE text

-----------------------------------------------------------------------------
(* Inline content.                                                         *)

(* render_code quotes even nothing, and takes all the text there is. *)
Code(d, i, mode) ==
  IF mode = "markdown" THEN <<"tick">> \o TextOf(d, i) \o <<"tick">> ELSE TextOf(d, i)

(* A link without a label is shown by its target. *)
Link(d, i, mode, inner) ==
  IF mode = "markdown" /\ Has(d, i, "href")
  THEN <<"[">> \o (IF inner = <<>> THEN <<"url">> ELSE inner) \o <<"]", "url">>
  ELSE inner

(* render_inline for a node, whose content it renders to inner *)
InlineNode(d, i, mode, inner) ==
  LET tag == d[i].tag
  IN  CASE tag = "#text" -> d[i].text
        [] tag \in SkippedElements -> <<>>
        [] tag \in {"strong", "b"} -> Marked(mode, inner, "**")
        [] tag \in {"em", "i"} -> Marked(mode, inner, "*")
        [] tag \in {"code", "kbd", "samp"} -> Code(d, i, mode)
        [] tag = "img" -> IF mode = "markdown" /\ Has(d, i, "src") THEN <<"url">> ELSE <<>>
        [] tag = "a" -> Link(d, i, mode, inner)
        [] tag \in {"br", "p", "div", "li", "section", "article"} -> <<>>
        [] OTHER -> inner

(* render_inline for what is in an element *)
Inline(d, i, mode) ==
  LET inline[j \in DOMAIN d] ==
        d[j].text \o Gather(Nodes(d, j), LAMBDA c : InlineNode(d, c, mode, inline[c]))
  IN  inline[i]

-----------------------------------------------------------------------------
(* Tables, which the table extractor shares.                               *)

(* Every tr below the table, those of tables inside it included. *)
Rows(d, t) ==
  LET trs == {i \in Within(d, t) \ {t} : d[i].tag = "tr"}
      Cells(i) == {c \in Elements(d, i) : d[c].tag \in {"td", "th"}}
      filled == {i \in trs : Cells(i) # {}}
  IN  Gather(filled, LAMBDA i : <<Gather(Cells(i), LAMBDA c : <<TextOf(d, c)>>)>>)

(* Table::to_markdown: every row has as many cells as the first. *)
TableBlock(rows) ==
  FlattenSeq([r \in DOMAIN rows |->
    FlattenSeq([c \in DOMAIN rows[1] |->
      <<"|">> \o IF c \in DOMAIN rows[r] THEN rows[r][c] ELSE <<>>])])

-----------------------------------------------------------------------------
(* Blocks.                                                                 *)

Heading(d, i, mode) ==
  LET text == Inline(d, i, mode)
  IN  Paragraph((IF mode = "markdown" /\ text # <<>> THEN <<"#">> ELSE <<>>) \o text)

(* What List must not do: take the items of lists further down for its own. *)
ListOfAll(d, i, mode, blocks) ==
  Paragraph(Gather({c \in Within(d, i) \ {i} : d[c].tag = "li"},
                   LAMBDA c : FlattenSeq(blocks[c])))

(* Only li count, an empty one too, but it is not shown. *)
List(d, i, mode, blocks) ==
  LET marker == IF d[i].tag = "ol" THEN "1." ELSE "-"
      Item(c) == LET content == FlattenSeq(blocks[c])
                 IN  IF content = <<>> THEN <<>> ELSE <<marker>> \o content
  IN  Paragraph(Gather({c \in Elements(d, i) : d[c].tag = "li"}, Item))

Definitions(d, i, mode) ==
  LET Item(c) == CASE d[c].tag = "dt" -> Paragraph(Inline(d, c, mode))
                   [] d[c].tag = "dd" -> <<<<":">> \o Inline(d, c, mode)>>
                   [] OTHER -> <<>>
  IN  Gather(Elements(d, i), Item)

Quote(blocks) ==
  LET inner == FlattenSeq(blocks)
  IN  IF inner = <<>> THEN <<>> ELSE <<<<">">> \o inner>>

(* render_element, with what render_children does before it. The blocks of *)
(* what is in an element are in "blocks".                                  *)
Block(d, i, mode, blocks) ==
  LET tag == d[i].tag
  IN  CASE tag = "#text" -> Paragraph(d[i].text)
        [] tag \in SkippedElements -> <<>>
        [] tag \in Headings -> Heading(d, i, mode)
        [] tag = "p" -> Paragraph(Inline(d, i, mode))
        [] tag \in {"ul", "ol"} -> List(d, i, mode, blocks)
        [] tag = "pre" -> Paragraph(Marked(mode, TextOf(d, i), "fence"))
        [] tag = "blockquote" -> Quote(blocks[i])
        [] tag = "table" -> IF Rows(d, i) = <<>> THEN <<>> ELSE <<TableBlock(Rows(d, i))>>
        [] tag = "hr" -> IF mode = "markdown" THEN <<<<"---">>>> ELSE <<>>
        [] tag = "dl" -> Definitions(d, i, mode)
        [] tag \in BlockContainers -> blocks[i]
        [] OTHER -> Paragraph(InlineNode(d, i, mode, Inline(d, i, mode)))

(* render_children *)
BlocksOf(d, i, mode) ==
  LET blocks[j \in DOMAIN d] ==
        Paragraph(d[j].text) \o Gather(Nodes(d, j), LAMBDA c : Block(d, c, mode, blocks))
  IN  blocks[i]

(* render_html *)
RenderHtml(d, mode) == BlocksOf(d, 1, mode)

-----------------------------------------------------------------------------
(* What is shown of a page's text: the letters of the paragraphs, and      *)
(* beside them what the tags alone say of each text.                       *)

LettersOf(text) == Gather({k \in DOMAIN text : text[k] \notin Marks}, LAMBDA k : <<text[k]>>)
Letters(blocks) == LettersOf(FlattenSeq(blocks))

(* How the content of an element is laid out, from how its parent's is.    *)
Dropped == SkippedElements \cup {"br", "img", "li"}
Verbatim == {"code", "kbd", "samp"}

InlineLayout(tag) ==
  CASE tag \in Dropped \cup {"p", "div", "section", "article"} -> "nothing"
    [] tag \in Verbatim -> "raw"
    [] OTHER -> "inline"

BlockLayout(tag) ==
  CASE tag \in Dropped -> "nothing"
    [] tag \in Verbatim \cup {"pre"} -> "raw"
    [] tag \in {"ul", "ol"} -> "items"
    [] tag = "dl" -> "terms"
    [] tag = "table" -> "rows"
    [] tag \in BlockContainers \cup {"blockquote"} -> "blocks"
    [] OTHER -> "inline"

Layout(kind, tag) ==
  CASE kind = "blocks" -> BlockLayout(tag)
    [] kind = "inline" -> InlineLayout(tag)
    [] kind = "items" -> IF tag = "li" THEN "blocks" ELSE "nothing"
    [] kind = "terms" -> IF tag \in {"dt", "dd"} THEN "inline" ELSE "nothing"
    [] kind = "rows" -> IF tag = "tr" THEN "cells" ELSE "rows"
    [] kind = "cells" -> IF tag \in {"td", "th"} THEN "raw" ELSE "nothing"
    [] kind \in {"raw", "nothing"} -> kind

LaidOut(d, i) ==
  LET laid[j \in DOMAIN d] ==
        IF d[j].up = 0 THEN "blocks"
        ELSE IF IsElement(d, j) THEN Layout(laid[d[j].up], d[j].tag)
        ELSE laid[d[j].up]
  IN  laid[i]

(* A cell beyond the columns of the first row is in no column, and a row   *)
(* in a row is in both.                                                    *)
Regular(d) ==
  \A t \in {t \in DOMAIN d : d[t].tag = "table"} :
    /\ \A r \in DOMAIN Rows(d, t) : Len(Rows(d, t)[r]) <= Len(Rows(d, t)[1])
    /\ \A i \in {i \in Within(d, t) : d[i].tag = "tr"} :
         \A j \in Above(d, i) : d[j].tag = "tr" => j < t

ShownText(d) == TextOfAll(d, {i \in DOMAIN d : LaidOut(d, i) \in {"blocks", "inline", "raw"}})

(* What a browser without scripts and styles would show. *)
Visible(d) ==
  TextOfAll(d, {i \in DOMAIN d :
    \A j \in {i} \cup Above(d, i) : d[j].tag \notin SkippedElements})
===============================================================================
