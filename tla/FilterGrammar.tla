----------------------------- MODULE FilterGrammar -----------------------------
(***************************************************************************)
(* The grammar the documentation at the head of src/src/filter.rs gives    *)
(* for --where, as what the tokens from i to j can derive, and the ways to *)
(* write tokens down. Filter is the lexer and parser it is compared with.  *)
(***************************************************************************)
EXTENDS Filter

RECURSIVE Derives(_, _, _, _)
Derives(rule, ts, i, j) ==
  LET Splits(op, first, second) ==
        UNION {{Node(op, <<l, r>>) : l \in Derives(first, ts, i, k - 1),
                                     r \in Derives(second, ts, k + 1, j)} :
               k \in {k \in i + 1 .. j - 1 : ts[k].kind = op}}
  IN  CASE i > j -> {}
        [] rule = "or" -> Derives("and", ts, i, j) \cup Splits("or", "or", "and")
        [] rule = "and" -> Derives("not", ts, i, j) \cup Splits("and", "and", "not")
        [] rule = "not" ->
             IF ts[i].kind = "not"
             THEN {Node("not", <<t>>) : t \in Derives("not", ts, i + 1, j)}
             ELSE Derives("comparison", ts, i, j)
        [] rule = "comparison" ->
             Derives("primary", ts, i, j)
             \cup UNION {Splits(op, "primary", IF op \in {"match", "notmatch"} THEN "regex"
                                               ELSE "primary") : op \in Comparing}
        [] rule = "primary" ->
             IF i = j THEN {Leaf(t) : t \in {t \in {ts[i]} : t.kind \in Primaries \ {"regex"}}}
             ELSE IF ts[i].kind = "lparen" /\ ts[j].kind = "rparen"
                  THEN Derives("or", ts, i + 1, j - 1) ELSE {}
        [] rule = "regex" ->
             IF i = j THEN {Leaf(t) : t \in {t \in {ts[i]} : t.kind = "regex"}} ELSE {}

Spelling(t) ==
  CASE t.kind = "string" -> <<"quote">> \o t.text \o <<"quote">>
    [] t.kind = "literal" -> <<"backtick">> \o t.text \o <<"backtick">>
    [] t.kind = "regex" -> <<"/">> \o t.text \o <<"/">>
    [] t.kind \in {"number", "bool", "path"} -> t.text
    [] t.kind \in Range(OneChar) -> <<CHOOSE c \in DOMAIN OneChar : OneChar[c] = t.kind>>
    [] OTHER -> CHOOSE c \in DOMAIN TwoChars : TwoChars[c] = t.kind

(* Names, booleans and numbers run together (a number before a name does   *)
(* not), a regex takes the letters after it for flags, and !, < and > take *)
(* an operator's first sign.                                               *)
RunTogether(a, b) ==
  \/ a.kind \in {"bool", "path"} /\ Spelling(b)[1] \in Words \cup Digits
  \/ a.kind = "number" /\ Spelling(b)[1] \in Digits
  \/ a.kind = "regex" /\ Spelling(b)[1] \in Words
  \/ <<Last(Spelling(a)), Spelling(b)[1]>> \in DOMAIN TwoChars

Tight(ts) ==
  FlattenSeq([i \in DOMAIN ts |->
    IF i > 1 /\ RunTogether(ts[i - 1], ts[i]) THEN <<" ">> \o Spelling(ts[i])
    ELSE Spelling(ts[i])])

Loose(ts) == FlattenSeq([i \in DOMAIN ts |-> <<" ">> \o Spelling(ts[i]) \o <<" ">>])
===============================================================================
