-------------------------------- MODULE Filter --------------------------------
(***************************************************************************)
(* The --where language of src/src/filter.rs: lexer, parser and evaluator. *)
(*                                                                         *)
(* An expression is a sequence of characters; a run of letters counts as   *)
(* one. A tree is a leaf, which is a token, or [op, args].                 *)
(***************************************************************************)
EXTENDS FilterValues

CONSTANTS
  Words,        \* runs of letters
  Digits,
  Flags,        \* the words made of regex flags only
  Lengths,      \* text -> the text of its length
  Matching      \* pattern that compiles -> the texts it matches

ASSUME FilterAssumption == Flags \subseteq Words

-----------------------------------------------------------------------------
(* The lexer.                                                              *)

TwoChars ==
  (<<"|", "|">> :> "or") @@ (<<"&", "&">> :> "and") @@ (<<"=", "=">> :> "eq")
  @@ (<<"!", "=">> :> "ne") @@ (<<"!", "~">> :> "notmatch")
  @@ (<<">", "=">> :> "ge") @@ (<<"<", "=">> :> "le")

OneChar ==
  ("!" :> "not") @@ ("~" :> "match") @@ (">" :> "gt") @@ ("<" :> "lt")
  @@ ("(" :> "lparen") @@ (")" :> "rparen")

Token(kind, text) == [kind |-> kind, text |-> text]

(* The tokens that begin at i: none where the lexer reports an error.      *)
(* "next" is where the lexer goes on.                                      *)
At(s, i, chars) == i <= Len(s) /\ s[i] \in chars

RunEnd(s, i, chars) == Min({j \in i .. Len(s) + 1 : ~At(s, j, chars)})

(* What lex_operator must not do: look for the short ones first. *)
ShortOperatorFirst(s, i) ==
  IF s[i] \in DOMAIN OneChar
  THEN {[token |-> Token(OneChar[s[i]], <<>>), next |-> i + 1]}
  ELSE IF i < Len(s) /\ <<s[i], s[i + 1]>> \in DOMAIN TwoChars
       THEN {[token |-> Token(TwoChars[<<s[i], s[i + 1]>>], <<>>), next |-> i + 2]}
       ELSE {}

LexOperator(s, i) ==
  IF i < Len(s) /\ <<s[i], s[i + 1]>> \in DOMAIN TwoChars
  THEN {[token |-> Token(TwoChars[<<s[i], s[i + 1]>>], <<>>), next |-> i + 2]}
  ELSE IF s[i] \in DOMAIN OneChar
       THEN {[token |-> Token(OneChar[s[i]], <<>>), next |-> i + 1]}
       ELSE {}

(* What stands between delimiters, and where it ends (0: nowhere). In      *)
(* strings every escape gives the character itself (or its control         *)
(* character); a regex keeps the escapes that are not of its delimiter, a  *)
(* name knows no other.                                                    *)
Escaped(q, c) == IF q = "/" /\ c # "/" THEN <<"backslash", c>> ELSE <<c>>

RECURSIVE Delimited(_, _, _, _)
Delimited(s, i, q, text) ==
  IF i > Len(s) THEN [text |-> text, end |-> 0]
  ELSE IF s[i] = q THEN [text |-> text, end |-> i]
  ELSE IF s[i] # "backslash" \/ (q = "backtick" /\ ~At(s, i + 1, {q}))
  THEN Delimited(s, i + 1, q, Append(text, s[i]))
  ELSE IF i = Len(s) THEN [text |-> text, end |-> 0]
  ELSE Delimited(s, i + 2, q, text \o Escaped(q, s[i + 1]))

Kinds ==
  ("quote" :> "string") @@ ("apostrophe" :> "string") @@ ("backtick" :> "literal")
  @@ ("/" :> "regex")

LexDelimited(s, i) ==
  LET body == Delimited(s, i + 1, s[i], <<>>)
      flags == IF s[i] = "/" THEN RunEnd(s, body.end + 1, Words) ELSE body.end + 1
  IN  IF body.end = 0 \/ \E k \in body.end + 1 .. flags - 1 : s[k] \notin Flags THEN {}
      ELSE {[token |-> Token(Kinds[s[i]],
                             body.text \o SubSeq(s, body.end + 1, flags - 1)),
             next |-> flags]}

LexNumber(s, i) ==
  LET whole == RunEnd(s, i + (IF s[i] = "-" THEN 1 ELSE 0), Digits)
      end == IF At(s, whole, {"."}) /\ At(s, whole + 1, Digits)
             THEN RunEnd(s, whole + 1, Digits) ELSE whole
  IN  {[token |-> Token("number", SubSeq(s, i, end - 1)), next |-> end]}

RECURSIVE PathEnd(_, _)
PathEnd(s, i) ==
  LET end == RunEnd(s, i, Words \cup Digits)
  IN  IF At(s, end, {"."}) /\ At(s, end + 1, Words) THEN PathEnd(s, end + 1) ELSE end

LexPath(s, i) ==
  LET end == PathEnd(s, i)
      text == SubSeq(s, i, end - 1)
  IN  {[token |-> Token(IF text \in {<<"true">>, <<"false">>} THEN "bool" ELSE "path", text),
        next |-> end]}

LexPrimary(s, i) ==
  IF s[i] \in DOMAIN Kinds THEN LexDelimited(s, i)
  ELSE IF s[i] \in Digits \/ (s[i] = "-" /\ At(s, i + 1, Digits)) THEN LexNumber(s, i)
  ELSE IF s[i] \in Words THEN LexPath(s, i)
  ELSE {}

Failed == Token("error", <<>>)

RECURSIVE Tokenize(_, _)
Tokenize(s, i) ==
  IF i > Len(s) THEN <<>>
  ELSE IF s[i] = " " THEN Tokenize(s, i + 1)
  ELSE LET operator == LexOperator(s, i)
           found == IF operator # {} THEN operator ELSE LexPrimary(s, i)
       IN  IF found = {} THEN <<Failed>>
           ELSE LET lexed == CHOOSE l \in found : TRUE
                IN  <<lexed.token>> \o Tokenize(s, lexed.next)

-----------------------------------------------------------------------------
(* The parser: a result is {[tree, next]}, {} for an error.                *)

Comparing == Comparisons \cup {"match", "notmatch"}
Primaries == {"number", "string", "bool", "regex", "literal", "path"}

Node(op, args) == [op |-> op, args |-> args]
Leaf(token) == token @@ [op |-> token.kind]
Parsed(tree, next) == {[tree |-> tree, next |-> next]}
Peek(ts, i) == IF i <= Len(ts) THEN ts[i].kind ELSE "end"

RECURSIVE Chain(_, _, _), ChainRest(_, _, _, _), ParseNot(_, _)

(* parse_or and parse_and differ in their operator and in what they join. *)
ParseJoined(ts, i, op) == IF op = "or" THEN Chain(ts, i, "and") ELSE ParseNot(ts, i)

Chain(ts, i, op) ==
  UNION {ChainRest(ts, left.tree, left.next, op) : left \in ParseJoined(ts, i, op)}

ChainRest(ts, tree, i, op) ==
  IF Peek(ts, i) # op THEN Parsed(tree, i)
  ELSE UNION {ChainRest(ts, Node(op, <<tree, right.tree>>), right.next, op) :
                right \in ParseJoined(ts, i + 1, op)}

ParseOr(ts, i) == Chain(ts, i, "or")

ParsePrimary(ts, i) ==
  IF Peek(ts, i) = "lparen"
  THEN UNION {IF Peek(ts, inner.next) = "rparen" THEN Parsed(inner.tree, inner.next + 1)
              ELSE {} : inner \in ParseOr(ts, i + 1)}
  ELSE IF Peek(ts, i) \in Primaries \ {"regex"}
          \/ (Peek(ts, i) = "regex" /\ ts[i].text \in DOMAIN Matching)
       THEN Parsed(Leaf(ts[i]), i + 1)
       ELSE {}

(* A regex stands on the right of ~ and !~, and nowhere else. *)
Placed(op, left, right) ==
  /\ left.op # "regex"
  /\ (right.op = "regex") = (op \in {"match", "notmatch"})

ParseComparison(ts, i) ==
  UNION {LET op == Peek(ts, left.next)
         IN  IF op \notin Comparing
             THEN IF left.tree.op = "regex" THEN {} ELSE {left}
             ELSE UNION {IF Placed(op, left.tree, right.tree)
                         THEN Parsed(Node(op, <<left.tree, right.tree>>), right.next)
                         ELSE {} : right \in ParsePrimary(ts, left.next + 1)} :
         left \in ParsePrimary(ts, i)}

ParseNot(ts, i) ==
  IF Peek(ts, i) = "not"
  THEN UNION {Parsed(Node("not", <<inner.tree>>), inner.next) : inner \in ParseNot(ts, i + 1)}
  ELSE ParseComparison(ts, i)

(* compile: the trees of an expression, {} where it reports an error. *)
Compile(s) ==
  LET ts == Tokenize(s, 1)
  IN  IF ts = <<>> \/ Failed \in ToSet(ts) THEN {}
      ELSE {parsed.tree : parsed \in {p \in ParseOr(ts, 1) : p.next = Len(ts) + 1}}

-----------------------------------------------------------------------------
(* The evaluator. Rows are what --row and --table make: column -> text.    *)

(* A column of the whole name wins; then only the length of a text is left *)
(* to step into.                                                           *)
ResolvePath(row, raw) ==
  IF raw \in DOMAIN row THEN Text(row[raw])
  ELSE LET first == SubSeq(raw, 1, RunEnd(raw, 1, Words \cup Digits) - 1)
       IN  IF first \in DOMAIN row /\ raw = first \o <<".", "length">>
           THEN Number(Lengths[row[first]]) ELSE Null

(* A literal's text is one of the texts that occur; a number prints as one *)
(* with a fraction.                                                        *)
Joined(text) == FoldLeft(LAMBDA t, c : t \o c, "", text)

RECURSIVE Eval(_, _)
Eval(e, row) ==
  CASE e.op = "number" -> Number(IF Contains(e.text, ".") THEN Joined(e.text)
                                 ELSE Joined(e.text) \o ".0")
    [] e.op = "string" -> Text(Joined(e.text))
    [] e.op = "bool" -> Bool(e.text = <<"true">>)
    [] e.op = "literal" -> IF e.text \in DOMAIN row THEN Text(row[e.text]) ELSE Null
    [] e.op = "path" -> ResolvePath(row, e.text)
    [] e.op = "not" -> Bool(~Truthy(Eval(e.args[1], row)))
    [] e.op = "and" -> Bool(Truthy(Eval(e.args[1], row)) /\ Truthy(Eval(e.args[2], row)))
    [] e.op = "or" -> Bool(Truthy(Eval(e.args[1], row)) \/ Truthy(Eval(e.args[2], row)))
    [] e.op \in {"match", "notmatch"} ->
         Bool((Eval(e.args[1], row).text \in Matching[e.args[2].text]) = (e.op = "match"))
    [] e.op \in Comparisons -> Bool(Compare(e.op, Eval(e.args[1], row), Eval(e.args[2], row)))

===============================================================================
