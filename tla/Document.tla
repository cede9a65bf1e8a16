------------------------------- MODULE Document -------------------------------
(***************************************************************************)
(* A parsed HTML page as the extractors of src/src/fetch.rs and            *)
(* src/src/main_content.rs see it through the scraper library: its nodes   *)
(* in document order, each                                                 *)
(*   [tag, up, text, attrs]                                                *)
(* with its parent (0 for the root), the text before its first child as a  *)
(* sequence of letters, and attributes as a function from names to         *)
(* sequences of letters. Text after a child is a node with tag "#text".    *)
(***************************************************************************)
EXTENDS Naturals, Sequences, FiniteSetsExt, SequencesExt, TLC

(* ElementRef::ancestors. In document order what lies below a node comes   *)
(* right behind it, up to the first node whose parent is before it.        *)
Above(d, i) == {j \in 1 .. i - 1 : \A k \in j + 1 .. i : d[k].up >= j}

(* ElementRef::descendants: an element with all below it. *)
Within(d, i) == {j \in i .. Len(d) : j = i \/ i \in Above(d, j)}

Rank(nodes, i) == Cardinality({j \in nodes : j <= i})

(* The nodes in document order. *)
Ordered(nodes) ==
  [k \in 1 .. Cardinality(nodes) |-> CHOOSE i \in nodes : Rank(nodes, i) = k]

(* One piece for each of them. *)
Gather(nodes, Piece(_)) == FlattenSeq([k \in 1 .. Cardinality(nodes) |-> Piece(Ordered(nodes)[k])])

Nodes(d, i) == {j \in i + 1 .. Len(d) : d[j].up = i}
IsElement(d, i) == d[i].tag # "#text"
Elements(d, i) == {j \in Nodes(d, i) : IsElement(d, j)}

TextOfAll(d, nodes) == Gather(nodes, LAMBDA i : d[i].text)

(* ElementRef::text *)
TextOf(d, i) == TextOfAll(d, Within(d, i))

Has(d, i, name) == name \in DOMAIN d[i].attrs
Attr(d, i, name) == IF Has(d, i, name) THEN d[i].attrs[name] ELSE <<>>

(* What the library makes of a page: the nodes of a tree in document order, *)
(* each with a parent it lies below.                                       *)
IsDocument(d) ==
  /\ d # <<>>
  /\ d \in Seq(Range(d))
  /\ \A i \in DOMAIN d :
       /\ d[i] = [tag |-> d[i].tag, up |-> d[i].up, text |-> d[i].text, attrs |-> d[i].attrs]
       /\ d[i].text \in Seq(Range(d[i].text))
       /\ IF i = 1 THEN d[i].up = 0 ELSE d[i].up \in Above(d, i)

(* fetch.rs leaves these out of everything it renders or outlines. *)
SkippedElements ==
  {"script", "style", "noscript", "template", "svg", "head", "iframe", "canvas"}
===============================================================================
