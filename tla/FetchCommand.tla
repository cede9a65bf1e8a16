------------------------------ MODULE FetchCommand ------------------------------
(***************************************************************************)
(* darash fetch: run_fetch of src/src/bin/darash.rs with everything it     *)
(* calls. An invocation is checked, fetches or reads its page, and then    *)
(* writes it to a file (AtomicWrite), prints it whole, or extracts text    *)
(* (MainContent, Render) or records (Extract) and prints a page of them    *)
(* (PageWalk). The reader then calls again where the page says there is    *)
(* more; the page does not change meanwhile.                               *)
(*                                                                         *)
(* How --where is compiled and evaluated is a parameter; FetchWhere gives  *)
(* it. How the values compare is in FilterValues.                          *)
(*                                                                         *)
(* The disk cache stands outside: what DiskCache says of it is that a hit  *)
(* is an answer of the same URL. Bridge models --render.                   *)
(***************************************************************************)
EXTENDS PageWalk, AtomicWrite, Extract, MainContent, FilterValues

CONSTANTS
  Calls,        \* the invocations, records of
                \*   flags: the options given; page: the document;
                \*   size, cap: chunks the answer has, and may have;
                \*   select, fields, needle: what is selected, --row, --locate;
                \*   where: {} or {an expression};
                \*   limit, budget: {} or {a number}; offset
  Self,         \* this invocation among the Writers
  DefaultLimit, \* 50 in the code
  CompileWhere(_),  \* expression -> {} or {what it is compiled to}; a
                    \*   comparison is compiled to [op, args], args the two sides
  ValueWhere(_, _)  \* the value in a row of what is compiled, or of a side

ASSUME CommandAssumption ==
  /\ Self \in Writers
  /\ DefaultLimit \in Nat \ {0}

ASSUME CallsAssumption ==
  \A c \in Calls :
    /\ IsDocument(c.page) /\ IsHtml(c.page)
    /\ \A i \in DOMAIN c.page : Range(c.page[i].text) \cap Marks = {}
    /\ c.offset \in Nat
    /\ c.limit \subseteq Nat
    /\ c.select \in Seq(Range(c.select))
    /\ "where" \in c.flags => c.where # {}
    /\ \A e \in c.where : \A s, t \in CompileWhere(e) : s = t

VARIABLES
  call,         \* the invocation
  got,          \* chunks of the answer that have arrived
  main,         \* what is taken of the page: its source and its root
  found         \* {} or {the records, as [headers, rows, force]}

commandVars == <<call, got, main, found, walkVars, fileVars>>

Given(flag) == flag \in call.flags

-----------------------------------------------------------------------------
(* The options.                                                            *)

Modes == {"body", "markdown", "text", "outline", "select", "table", "locate"}
Structured == {"select", "row", "table", "locate"}

(* pick_extraction: {} for an error. *)
PickExtraction(flags) ==
  LET chosen == flags \cap Modes
  IN  IF "row" \in flags THEN IF chosen = {"select"} THEN {"row"} ELSE {}
      ELSE IF chosen = {} THEN {"report"}
      ELSE IF Cardinality(chosen) = 1 THEN chosen ELSE {}

Mode == CHOOSE m \in PickExtraction(call.flags) : TRUE

(* validate_page_options. An option that is there is a flag; "post" stands *)
(* for every one that makes the request more than a plain GET.             *)
PageOptionsValid(flags, mode) ==
  /\ "main_content" \in flags => mode \in {"markdown", "text"}
  /\ "main_fallback" \in flags => "main_content" \in flags
  /\ flags \cap {"browser", "wait_for"} # {} => "render" \in flags
  /\ "render" \in flags => /\ {"url", "browser"} \subseteq flags
                           /\ "post" \notin flags

OptionsValid(flags, mode, from) ==
  /\ PageOptionsValid(flags, mode)
  /\ "count" \in flags => mode = "select"
  /\ from > 0 \/ "json_envelope" \in flags => mode \in Structured
  /\ "where" \in flags => mode \in {"row", "table"}
  /\ "output" \in flags => mode \in {"report", "body"}

Validate ==
  /\ stage = "called"
  /\ stage' = IF PickExtraction(call.flags) # {} /\ OptionsValid(call.flags, Mode, offset)
              THEN "requesting" ELSE "refused"
  /\ UNCHANGED <<call, got, main, found, req, start, offset, meta, kept, used, told, seen,
                 fileVars>>

-----------------------------------------------------------------------------
(* The page.                                                               *)

Goto(next) ==
  /\ stage' = next
  /\ UNCHANGED <<call, main, found, req, start, offset, meta, kept, used, told, seen,
                 fileVars>>

(* The URL, the method or a header is not one, the connection fails, or    *)
(* the deadline passes; a file cannot be read.                             *)
RequestFails ==
  /\ stage = "requesting"
  /\ Goto("failed")
  /\ UNCHANGED got

Receive ==
  /\ stage = "requesting"
  /\ got < call.size
  /\ got + 1 <= call.cap
  /\ got' = got + 1
  /\ Goto("requesting")

TooLarge ==
  /\ stage = "requesting"
  /\ got < call.size
  /\ got + 1 > call.cap
  /\ Goto("failed")
  /\ UNCHANGED got

Received ==
  /\ stage = "requesting"
  /\ got = call.size
  /\ Goto("fetched")
  /\ UNCHANGED got

-----------------------------------------------------------------------------
(* The output.                                                             *)

WriteOutput ==
  /\ stage = "fetched"
  /\ Given("output")
  /\ Goto("writing")
  /\ UNCHANGED got

Write ==
  /\ stage = "writing"
  /\ WriteStep(Self)
  /\ UNCHANGED <<call, got, main, found, walkVars>>

Written ==
  /\ stage = "writing"
  /\ pc[Self] \in {"done", "failed"}
  /\ Goto(IF pc[Self] = "done" THEN "written" ELSE "failed")
  /\ UNCHANGED got

PrintWhole ==
  /\ stage = "fetched"
  /\ ~Given("output")
  /\ Mode \in {"report", "body"}
  /\ Goto("written")
  /\ UNCHANGED got

(* What is printed goes on to be fitted into the budget, after a page of   *)
(* it has been cut if there are pages.                                     *)
Offer(asked, next) ==
  /\ req' = asked
  /\ seen' = IF DOMAIN seen = 1 .. asked.total THEN seen ELSE [r \in 1 .. asked.total |-> 0]
  /\ meta' = Paginate(asked.total, offset, asked.limit)
  /\ kept' = 0
  /\ used' = 0
  /\ told' = 0
  /\ stage' = next
  /\ UNCHANGED <<call, got, main, found, start, offset, fileVars>>

LimitOr(default) == IF call.limit = {} THEN default ELSE CHOOSE n \in call.limit : TRUE

(* What is cut and announced as items, in JSON or not. A letter is a       *)
(* token's worth.                                                          *)
ItemsAsked(total, dropped, limit, cost) ==
  [total |-> total, dropped |-> dropped, limit |-> limit, budget |-> call.budget,
   json |-> FALSE, envelope |-> FALSE, header |-> {}, cost |-> cost]

WholePage == [source |-> "full", root |-> 1]

TakeContent ==
  /\ stage = "fetched"
  /\ Mode \in {"markdown", "text"}
  /\ main' = IF Given("main_content")
             THEN ExtractMain(call.page, IF Given("main_fallback") THEN "full" ELSE "error")
             ELSE WholePage
  /\ stage' = CASE main'.source = "error" -> "failed"
                [] main'.source = "panic" -> "panicked"
                [] OTHER -> "rendering"
  /\ UNCHANGED <<call, got, found, req, start, offset, meta, kept, used, told, seen, fileVars>>

(* emit_document *)
RenderDocument ==
  /\ stage = "rendering"
  /\ \E blocks \in {RenderHtml(Taken(call.page, main), Mode)} :
       Offer(ItemsAsked(Len(blocks), 0, Len(blocks),
                        [b \in DOMAIN blocks |-> Len(blocks[b])]), "fitting")

(* Entries beyond OutlineMost are dropped before anybody counts them. The  *)
(* cap is that of a page from 0; nobody is told of an offset.              *)
Outline ==
  /\ stage = "fetched"
  /\ Mode = "outline"
  /\ \E size \in {OutlineSize(call.page)} :
       LET counted == Least(OutlineMost, size)
       IN  Offer(ItemsAsked(counted, size - counted, LimitOr(DefaultLimit),
                            [r \in 1 .. counted |-> 1]), "fitting")

(* build_records: {} for an error, or {[headers, rows, force]}, a row      *)
(* being its cells. Several tables are a record each and always JSON.      *)
Records ==
  LET d == call.page
      As(headers, rows, force) == {[headers |-> headers, rows |-> rows, force |-> force]}
      Single(texts) == [r \in DOMAIN texts |-> <<texts[r]>>]
  IN  CASE Mode = "select" ->
             IF Valid(call.select)
             THEN As(<<>>, Single(SelectTexts(d, call.select)), FALSE) ELSE {}
        [] Mode = "row" ->
             IF Valid(call.select) /\ FieldsValid(call.fields)
             THEN As([f \in DOMAIN call.fields |-> call.fields[f].name],
                        RowsOf(d, call.select, call.fields), FALSE)
             ELSE {}
        [] Mode = "table" ->
             LET tables == TablesOf(d)
             IN  IF Len(tables) = 1 THEN As(tables[1].headers, tables[1].rows, FALSE)
                 ELSE IF Given("where") /\ tables # <<>> THEN {}
                 ELSE As(<<>>, [t \in DOMAIN tables |-> tables[t].headers], tables # <<>>)
        [] Mode = "locate" ->
             As(<<>>, Single([h \in DOMAIN Locate(d, call.needle) |->
                                   TextOf(d, Locate(d, call.needle)[h].node)]), FALSE)

(* A row as --where sees it: the last column of a name wins, and cells     *)
(* without a column are not in it.                                         *)
Object(headers, row) ==
  [name \in Range(headers) |->
     LET f == Max({f \in DOMAIN headers : headers[f] = name})
     IN  IF f \in DOMAIN row THEN row[f] ELSE <<>>]

Expression == CHOOSE e \in call.where : TRUE
Compiled == CompileWhere(Expression)

(* Filter::matches *)
Matches(tree, row) == Truthy(ValueWhere(tree, row))

Filtered(records, tree) ==
  Gather({r \in DOMAIN records.rows :
            Matches(tree, Object(records.headers, records.rows[r]))},
         LAMBDA r : <<records.rows[r]>>)

BuildRecords ==
  /\ stage = "fetched"
  /\ Mode \in Structured
  /\ found' = Records
  /\ stage' = IF found' = {} THEN "failed" ELSE "built"
  /\ UNCHANGED <<call, got, main, req, start, offset, meta, kept, used, told, seen, fileVars>>

(* A count of nothing is an error. *)
Count ==
  /\ stage = "built"
  /\ Given("count")
  /\ \E records \in found : Goto(IF records.rows = <<>> THEN "failed" ELSE "written")
  /\ UNCHANGED got

(* --where is not looked at before there are records. *)
NoExpression ==
  /\ stage = "built"
  /\ Given("where")
  /\ Compiled = {}
  /\ Goto("failed")
  /\ UNCHANGED got

RowsAsked(records, rows) ==
  LET Cost(cells) == Len(FlattenSeq(cells))
  IN  [total |-> Len(rows), dropped |-> 0, limit |-> LimitOr(DefaultLimit),
       budget |-> call.budget,
       json |-> Given("json") \/ Given("json_envelope") \/ records.force,
       envelope |-> Given("json_envelope"),
       header |-> IF records.headers = <<>> THEN {} ELSE {Cost(records.headers)},
       cost |-> [r \in DOMAIN rows |-> Cost(rows[r])]]

OfferRecords ==
  /\ stage = "built"
  /\ ~Given("count")
  /\ \E records \in found :
       IF Given("where")
       THEN \E tree \in Compiled : \E rows \in {Filtered(records, tree)} :
              Offer(RowsAsked(records, rows), "paging")
       ELSE Offer(RowsAsked(records, records.rows), "paging")

-----------------------------------------------------------------------------
Paging == PageNext /\ UNCHANGED <<call, got, main, found, fileVars>>

(* The next invocation, for the next page. *)
Again ==
  /\ Turn
  /\ Mode \in Structured
  /\ stage' = "called"
  /\ got' = 0
  /\ found' = {}
  /\ UNCHANGED <<call, main, fileVars>>

(* Other commands with the same output. *)
Others ==
  /\ Given("output")
  /\ \E w \in Writers \ {Self} : WriteStep(w)
  /\ UNCHANGED <<call, got, main, found, walkVars>>

CommandInit ==
  /\ call \in Calls
  /\ got = 0
  /\ main = WholePage
  /\ found = {}
  /\ req = [total |-> 0, dropped |-> 0, limit |-> 1, budget |-> {}, json |-> FALSE,
            envelope |-> FALSE, header |-> {}, cost |-> <<>>]
  /\ start = call.offset
  /\ offset = start
  /\ stage = "called"
  /\ meta = Paginate(0, 0, 1)
  /\ kept = 0
  /\ used = 0
  /\ told = 0
  /\ seen = <<>>
  /\ WriteInit
  /\ Given("output") \/ files[Output] = {}

CommandStep ==
  \/ Validate
  \/ RequestFails \/ Receive \/ TooLarge \/ Received
  \/ WriteOutput \/ Write \/ Written \/ PrintWhole
  \/ TakeContent \/ RenderDocument \/ Outline
  \/ BuildRecords \/ Count \/ NoExpression \/ OfferRecords
  \/ Paging \/ Again

CommandNext == CommandStep \/ Others

CommandSpec == CommandInit /\ [][CommandNext]_commandVars

-----------------------------------------------------------------------------
(* The text of a page comes out once, in order, in both formats, and all   *)
(* of it but what the layout of its elements drops. (So are cells beyond   *)
(* a table's first row: README, Known.)                                    *)
RendersExactly ==
  ~Given("main_content") /\ stage = "rendering" /\ Regular(call.page) =>
    \A mode \in {"markdown", "text"} :
      Letters(RenderHtml(call.page, mode)) = ShownText(call.page)

(* fetch.rs:230: "Convert an HTML document to plain text." Every text that  *)
(* a reader of the page would see is in it.                                *)
VisibleTextSurvives ==
  ~Given("main_content") /\ stage = "rendering" /\ Mode = "text" =>
    Range(Visible(call.page)) \subseteq Range(Letters(RenderHtml(call.page, "text")))

(* Main content is what it would be if navigation, forms, hidden elements  *)
(* and the like had not been in the page. (A form is kept if a landmark    *)
(* inside it was hidden or in other clutter: README, Known.)               *)
ClutterHasNoInfluence ==
  LET d == call.page
      pruned == Pruned(d, Live(d))
      of == ExtractMain(d, "error")
      without == ExtractMain(pruned, "error")
  IN  Given("main_content") /\ stage = "fetched" /\ 1 \in Live(d)
      /\ (\A i \in DOMAIN d : Landmark(d, i) => i \in Live(d)) =>
        /\ of.source = without.source
        /\ of.source # "error" => Taken(d, of) = Taken(pruned, without)

(* main_content.rs:12-18: a page without recognizable main content is an   *)
(* error or "the original, unmodified HTML", as the caller chose: whatever *)
(* the page, there is an answer.                                           *)
MainContentAnswers == stage # "panicked"

(* --where compares as one would expect of an order, numbers as numbers,   *)
(* even where only one of two texts reads as one: either == or < or >, and *)
(* !=, <= and >= are what that leaves. (A text that reads as NaN is        *)
(* compared like NaN, which is none of them: README, Known.) The model has *)
(* an order for the texts of ByteOrder only.                               *)
ComparisonsAgree ==
  Given("where") /\ stage = "built" =>
    \A tree \in {t \in Compiled : t.op \in Comparisons}, records \in found :
      \A r \in DOMAIN records.rows :
        LET Value(k) == ValueWhere(tree.args[k], Object(records.headers, records.rows[r]))
            Is(op) == Truthy(Bool(Compare(op, Value(1), Value(2))))
        IN  (\A k \in {1, 2} : /\ Value(k).text \in Range(ByteOrder)
                               /\ ToNumber(Value(k)) # {NaN}) =>
              /\ Cardinality({op \in {"eq", "lt", "gt"} : Is(op)}) = 1
              /\ Is("ne") <=> ~Is("eq")
              /\ Is("le") <=> ~Is("gt")
              /\ Is("ge") <=> ~Is("lt")

(* What --locate prints can be given to --select: it is well formed, and   *)
(* it selects the element that holds the needle, in its text and in no     *)
(* child's, or in an attribute. (The path of body and html is empty, and a *)
(* name like -1 has no escape, nor has an empty id: README, Known.)         *)
LocatedSelects ==
  stage = "fetched" /\ Mode = "locate" =>
    \A h \in Range(Locate(call.page, call.needle)) :
      /\ h.kind = "text" => TextHit(call.page, h.node, call.needle)
      /\ h.selector # <<>> /\ Valid(h.selector) =>
           h.node \in Selected(call.page, h.selector)
      /\ Valid(h.selector) \/ call.page[h.node].tag \in {"html", "body"}
         \/ \E p \in Range(h.selector) : \E name \in p.id \cup p.class :
              name = <<>> \/ name[1] = "-"
===============================================================================
