------------------------------- MODULE FetchWhere -------------------------------
(***************************************************************************)
(* darash fetch with --where as Filter has it. In an invocation the        *)
(* expression is a sequence of tokens, written with as little white space  *)
(* as keeps them apart.                                                    *)
(***************************************************************************)
EXTENDS FetchCommand, FilterGrammar

(* A row as the evaluator sees it: column -> text. *)
Joins(row) == [name \in DOMAIN row |-> Joined(row[name])]

CompileTokens(ts) == Compile(Tight(ts))
EvalCells(tree, row) == Eval(tree, Joins(row))

-----------------------------------------------------------------------------
(* --where compiles exactly the documented expressions, to the tree the    *)
(* documented precedence gives, however the tokens are set apart.          *)
CompiledMeansGrammar ==
  Given("where") /\ stage = "built" =>
    LET meant == Derives("or", Expression, 1, Len(Expression))
    IN  Compile(Tight(Expression)) = meant /\ Compile(Loose(Expression)) = meant
===============================================================================
