------------------------------ MODULE FilterValues ------------------------------
(***************************************************************************)
(* The values of --where and how they compare: what eval of                *)
(* src/src/filter.rs does once it has evaluated both sides.                *)
(***************************************************************************)
EXTENDS Integers, Sequences, FiniteSetsExt, SequencesExt, TLC

CONSTANTS
  Reads,        \* text -> {} or {the number it parses to}
  NaN,          \* what stands for a number that is none
  ByteOrder     \* the texts that occur, in the order of their bytes

ASSUME ValuesAssumption ==
  /\ ByteOrder \in Seq(Range(ByteOrder))
  /\ DOMAIN Reads = Range(ByteOrder)
  /\ \A t \in DOMAIN Reads : /\ Reads[t] \subseteq Int \cup {NaN}
                             /\ \A m, n \in Reads[t] : m = n
  /\ NaN \notin Int

Comparisons == {"eq", "ne", "gt", "ge", "lt", "le"}

Null == [kind |-> "null", text |-> ""]
Bool(b) == [kind |-> "bool", text |-> IF b THEN "true" ELSE "false"]
Text(t) == [kind |-> "string", text |-> t]
Number(t) == [kind |-> "number", text |-> t]

Truthy(v) ==
  \/ v.kind = "bool" /\ v.text = "true"
  \/ v.kind = "number" /\ Reads[v.text] # {0}
  \/ v.kind = "string" /\ v.text # ""

ToNumber(v) == IF v.kind \in {"number", "string"} THEN Reads[v.text] ELSE {}

Place(v) == CHOOSE i \in DOMAIN ByteOrder : ByteOrder[i] = v.text

(* Both sides as numbers if both can be, else both as strings. *)
Sides(l, r) ==
  IF ToNumber(l) # {} /\ ToNumber(r) # {}
  THEN <<CHOOSE n \in ToNumber(l) : TRUE, CHOOSE n \in ToNumber(r) : TRUE>>
  ELSE <<Place(l), Place(r)>>

LooseEq(l, r) ==
  LET s == Sides(l, r) IN s[1] = s[2] /\ NaN \notin Range(s)

(* What ordered must not do: order numbers by their digits. *)
OrderedByText(op, l, r) ==
  CASE op = "gt" -> Place(l) > Place(r) [] op = "ge" -> Place(l) >= Place(r)
    [] op = "lt" -> Place(l) < Place(r) [] op = "le" -> Place(l) <= Place(r)

OrderedAs(op, l, r) ==
  LET s == Sides(l, r)
  IN  /\ NaN \notin Range(s)
      /\ CASE op = "gt" -> s[1] > s[2] [] op = "ge" -> s[1] >= s[2]
           [] op = "lt" -> s[1] < s[2] [] op = "le" -> s[1] <= s[2]

(* compare, where both sides are values *)
Compare(op, l, r) ==
  CASE op = "eq" -> LooseEq(l, r)
    [] op = "ne" -> ~LooseEq(l, r)
    [] OTHER -> OrderedAs(op, l, r)

===============================================================================
