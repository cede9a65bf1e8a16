# darash: specification, model checking and proofs

darash is a Rust library and command line tool that searches the web (through
providers it asks itself, or through a SearxNG or Websurfx server), fetches
pages, extracts parts of them and optionally renders them in a browser. This
directory holds TLA+ models of its stateful parts, the TLC configurations that
check them and proofs about them. Paths are those of the repository.

## The system

| Component | Source | State | Operations |
|---|---|---|---|
| response cache | `src/src/cache.rs` | map of entries with deadlines, queue of keys, one mutex | `get`, `insert`, `len`, `clear`; each reclaims expired entries first (`clear` drops everything) |
| search client | `src/src/lib.rs` | configuration, HTTP client, the cache; shared by clones and tasks | `search`, `search_request`, `search_websurfx`, `clear_cache`, `cached_entries` |
| provider selection, coverage | `src/src/embedded_search.rs`, names and limits in `src/src/lib.rs` | none | `requested_providers`, `providers`, `coverage` |
| embedded search | `src/src/embedded_search.rs` | the outcomes of the providers while one search waits | `search_with_outcome`, `finish_search`, `dedupe_and_rank` |
| disk cache | `src/src/disk_cache.rs` | a directory shared by all processes of a user | `load`, `remove`, `store`, `sweep` |
| fetch command | `src/src/bin/darash.rs` | none between invocations but the files it writes | `run_fetch`: options, `fetch_report`, extraction, `--where`, paging, output with `atomic_write` |
| page fetcher, extractors | `src/src/fetch.rs` | none | one request; rendering, selection, rows, tables, outline, locate, `paginate`, `apply_budget` |
| browser rendering | `src/src/browser.rs` | an owned Chromium process group, its profile, a DevTools connection | launch, bridge of paused requests, readiness loop, close, drop |
| filter expressions | `src/src/filter.rs` | none | parse and evaluate `--where` |
| main content | `src/src/main_content.rs` | none | pick the content of a document |
| Websurfx types | `src/src/websurfx.rs` | none | convert a decoded response |

How they interact. A task calls `search` on a client it may share with others.
The client computes a key, asks the cache, and on a miss releases the cache and
waits for the backend: either one HTTP request to a server or
`search_with_outcome`, which sends one request to each selected provider and
waits for all of them. Then it inserts a clone of the response and returns it.
`search_request` does the same and truncates its copy. The command line tool's
`fetch` is one process per invocation; processes meet only in the cache
directory and in the files of `--output`, where there is no lock. One
invocation goes from its options to a page, from the page to text or records,
and from those to what fits into the limit and the budget; what is left over is
announced with the offset at which the reader may go on.

What is hard about it: the wait between a lookup and the insert that follows it;
two structures (map and queue) that must agree after any history of expiry,
replacement and eviction; reports (`coverage`, `provider_status`, `filtered`)
that are computed apart from what they report; provider failures in any
combination and order; processes that interleave file system calls or die
between them; and output that is cut twice, by the limit and by the budget, so
that the hint to go on has to agree with both. `PROJECT.json` lists each hazard
at its line with the properties that cover it.

## Modules

### `LruCache`: what the response cache promises

An eager store: a value is in it from its insertion until its lifetime is over,
it is cleared, or it is displaced. Recency is a relation between keys. An
arriving key displaces the least recently used value, and only when all places
are taken by values that are still readable. It knows nothing of queues or of
reclaiming.

### `TtlCache`: `src/src/cache.rs`

`entries` is `State::entries`, `order` is `State::order` with the oldest use in
front, `now` is `Instant::now()`. Every operation takes the mutex once and reads
the clock while it holds it, so one operation is one action: `Get`, `Insert`
(the three ways through it are `Overwrite`, `InsertNew` and `InsertIgnored`),
`Count` (`len`) and `Clear`. `Live`, `LiveEntries` and `LiveOrder` are what
`remove_expired` leaves. `Evicted` is the number of iterations of the eviction
loop. `MaxInstant` is the last instant the clock can represent: it bounds the
clock, and it is what `checked_add` compares with. `reply` is the value the last
operation returned, and is what the refinement makes visible.

The queue operators are written without recursion so that they can be reasoned
about; `RetainIsSelectSeq` in `MCTtlCache` checks that `Retain` is the library's
`SelectSeq`.

### `ProviderSelection`

The pure part of the embedded backend: `RequestedProviders` (names decide;
categories when no name is known), `Providers` (cut to the limit of the mode)
and `Coverage`. A name is the sequence of its comma-free pieces, because joining
names with commas is something the code does and what that loses matters.
`QueryRecords` are all queries there are; a language and a time range are asked for
or not, a page or level of 0 is one nobody named. `Select` stands for the code's filters
over lists: the elements at a set of positions, in order. It is a recursive
function, because the prover knows nothing of `SelectSeq`.

### `EmbeddedSearch`: one search of the embedded backend

`Ask` sends all requests, `Answer` and `Fail` resolve one provider each in any
order, `Finish` is `finish_search` together with the step in `search_embedded`
that adds missing failures, `Refuse` is the early return for a blocked query and
`Drop` is a caller that drops the future. A result is its URL and its content;
content is a number that stands for the text's length and for what the block and
allow terms are looked up in. Scores and order are left out, so results are a
set.

### `SearchClient`: tasks that share a client

`SearchClient` contains an instance of `TtlCache`. `Call` runs the checks at the
top of `search` and `search_websurfx`, `Lookup` is the cache's `Get`, `Answered`
and `Failed` are the backend, `Store` is the cache's `Insert`. Between them
other tasks, `ClearCache`, `CachedEntries` and the clock move. `KeyOf` is the
key the code computes: mode and query string (`QueryString`, one pair for each
field), in which the engine names are joined. `AskedFor` says whom a query asks
and for what, from the query's fields and not from its string. The fields and variables `before`,
`stored`, `cleared` are ghosts: they record which answers had been stored when a
call began and which were in a cache that was cleared.

### `DiskCache`: the cache directory between processes

One step is one file system call of one process: `Load` (a read), `LoadUnlink`,
`RemoveOld`, `FetchOk` or `FetchFails`, `Forget` (the unlink after a `no-store`
answer), then `store`: `SweepOpen`, `SweepTmp`, `SweepRead`, `SweepUnlink`,
`Stamp`, `Create`, `Write` for each block, `Rename`. Names (`dir`) and files
(`files`) are apart, so a process goes on writing to a file whose name another
one has removed or renamed, which is what POSIX does. `Kill` ends a process
anywhere; `StoreFails` is any error inside `store`. A report is one or two
blocks because one `write_all` of tokio's `File` is several writes when the data
exceeds its buffer. A reader parses a file when its last block ends a report and
no other does; a file whose blocks come from two reports of the same length
therefore parses. What another version left under a name (`Legacy`) either does
not parse or is an entry of another `cache_version` (`Foreign`), which `load`
passes over and a sweep keeps until it expires (`SweepKeeps`). Two variables are
ghosts: `origin` is what each response was that a process received which uses the
cache, `stored` what the last store of a URL put in place, until that URL is
asked for again.

The directory is assumed to be listable and its files readable by the user that
owns them: `sweep` skips what it cannot read.

### `BrowserProcess`: the browser one render owns

`pc` is where the future of `fetch_with_policy` is: `called`, at one of its waits
(`resolving` the address or the executable, `identifying` it, `starting`, which
is `endpoint`'s polling, `rendering`, `waiting` for the leader in `close`), about
to `close`, `returned` or `dropped`. What the code does between two waits is one
action: `Spawn` goes from the version's answer to the point where the process is
owned. `group`, `child` and `profile` are the three options of the struct,
`leader` and `helpers` the processes, `doomed` those a SIGKILL is pending for: a
doomed process forks no more but may take a while to exit. `KillGroup` is
`kill_process_group(process_group.take())` with the kill of the child that
follows it, `Close` and `CloseEnds` are `close` up to and after its wait,
`DropProcess` is `Drop`, which `Cancel` (the caller) and `Shutdown` (the runtime)
reach, and `Reap` is the task it spawns. A profile is `removed` when its `TempDir`
is dropped; that the removal succeeds is not claimed (Known, below). Helpers stay in the group; a process
that left it would be out of reach of the code and of the model.

### `Bridge`: one render on a running browser

The state of `Bridge` and the local variables of `render`, from `Page.navigate`
on. `pc` is the call whose reply `render` waits for. `inbox` is the socket: what
the browser sends is read in order, and `call` serves each paused request it
meets (`ServeDocument`, `ServeResource`, then `FulfillDocument`,
`FulfillResource` or `RequestFails`) before it reads on. `Snapshot` is the rest
of the loop, with `Age` for `stable_since.elapsed()`. The browser's side is
external: `pending` is the navigation under way and `page` the document shown,
which `Commit` replaces at a time of its own; a navigation may be replaced by
another, be redirected, come to nothing (`NoContent`) or be refused, after which
Chromium shows its error page. Time is counted in polls of the loop; it passes
while `render` sleeps, a request is out or the browser has not answered, and not
while a message lies unread. Two snapshots are equal when they are of the same
document and nothing changed it in between, so a document that changes back is
left out. `late` is a ghost: the polls that went by while the snapshot waited in
`inbox` behind requests. An error reply, or a world without a context, ends the
render in any call (`Fail`, `WorldMade`). A body over its limits, an address that is not public and a
download are all `RequestFails`.

### `PageWalk`: a page of records and the next one

`paginate` and `apply_budget` as `run_fetch` combines them. `Page` cuts the
result at the limit, `Fit` and `Cut` (or `AllFit`) are the rounds of the budget,
`PrintPage` prints. `Cut` is where JSON and plain output differ: JSON makes the
page again with the length the budget left, plain output keeps its metadata.
`Turn` is the reader, who goes on with the offset the hint names; in
`FetchCommand` that is another invocation. `seen` and `start` are ghosts: how
often each record has been printed, and where the reader began. A cost is what
`estimate_tokens` gives for an item; the header of plain rows is an item of its
own in front of them. `told` is what stderr says is left out (`Announced`):
nothing with `--json-envelope`, whose metadata is printed instead. `dropped` is
what was lost before anything was counted, which an outline does
(`OutlineSize` is what it finds, `OutlineMost` what it keeps).

### `AtomicWrite`: `--output`

`atomic_write` between commands that write the same output: `Create`
(`create_new`, tried again with another name on a collision, `Collide`),
`WriteBlock`, `Sync`, `Rename`, and the errors of each; `Kill` anywhere. `Drop`
is the removal of the temporary file on the error paths, whose own failure the
code ignores and the model leaves out.

### `Document`, `Render`, `Extract`, `MainContent`: what is done to a page

A document is the sequence of its nodes, each with its parent; text is a
sequence of letters, so that losing, repeating and reordering text can be told
apart. The HTML parser is external: the documents are given as parsed. `Render`
is `to_markdown` and `to_text`, a sequence of blocks of letters and marks;
`Extract` is `select_texts`, `extract_rows`, `extract_tables`, `outline` and
`locate`, with `EscapeCssIdent` and CSS's way of reading a name back;
`MainContent` is `extract_main_content`. White space and the layout of blocks
are left out. `IsDocument` and `IsHtml` say what the parser makes of a page: a tree
in document order, and the few facts about its tags that the code relies on.

`Layout`, `ShownText` and `Regular` in `Render` are what the renderers are
compared with. `Layout` says for each element how its content is laid out
(blocks, inline, raw text, list items, terms, rows, cells or not at all), from
its tag and how its parent's is. It renders nothing and knows no order. The
shown text is the text of all nodes whose layout shows text, in document order.
A document is regular if in its tables no row holds another and none has more
cells than the first, since such cells come out twice or not at all.

### `FilterValues`, `Filter` and `FilterGrammar`: `--where`

`FilterValues` has the values of `--where` and how two of them compare: as numbers
if both read as such, else by their bytes. What a text reads as and the order
of texts are tables (`Reads`, `ByteOrder`). `Filter` is the lexer, which works on
characters (a run of letters counts as one), the parser with one operator per
function of the code, and the evaluator; regular expressions and lengths are
tables too. `FilterGrammar` is not a translation: it states which tree a sequence
of tokens derives, by splitting it, from the documentation at the head of
`src/src/filter.rs`, and how tokens are written down with and without blanks.

### `FetchCommand` and `FetchWhere`: one invocation after another

`FetchCommand` composes all of these. `Validate` is `pick_extraction` and
`validate_page_options`; the request ends in a page of at most `cap` chunks or
fails; then the page is written by `AtomicWrite` (`Write` for this command,
`Others` for those that share its output), printed whole, rendered, outlined, or
made into records (`BuildRecords`), which are counted or filtered and given to
`PageWalk` (`OfferRecords`). `Again` is the reader's `Turn` through the whole
command: the next invocation starts at its options, with the same page. `stage`
of `PageWalk` is also where the command is. Where a page comes from is left to
`DiskCache` and `Bridge`.

How `--where` is compiled and what it gives for a row are the parameters
`CompileWhere` and `ValueWhere` of `FetchCommand`. `FetchWhere` gives them the
parser and the evaluator of `Filter`, and states that the two agree with the
grammar; the run checks that module. The parameters are there for the proofs,
which hold whatever `--where` computes: `Filter` is recursive in a way the
prover does not accept.

### `TtlCacheProofs`, `BrowserProcessProofs`, `BridgeProofs`, `DiskCacheProofs`, `SearchClientProofs`, `EmbeddedSearchProofs`, `PageProofs`, `FetchCommandProofs`

The proofs, see below.

## Runs

| Run | Bounds | What it shows |
|---|---|---|
| `ttl_cache` | 3 keys, capacity 2, 2 values, lifetime 2, clock 0..5 | types, `OrderMatchesEntries`, `Bounded`, `LiveLossJustified`, and that `TtlCache` implements `LruCache` |
| `embedded_search` | 10 queries, 5 pages of up to 2 results over 2 URLs, 3 providers | `coverage` names exactly the providers asked; the search fails exactly when all of them do; merged results credit exactly those that returned them; the filter and its flag; searches that do not ask DuckDuckGo end |
| `search_client` | 2 tasks, a query and 5 that differ from it in the mode, language, page, level or time range alone, capacity 1, lifetime 1, 2 answers | whom a reply is from and what it answers, that replies are cut for `search_request` only, that a cleared answer stays out, that no search fetches what it could have read |
| `search_client_disabled` | 2 tasks, capacity 0, a query and one that is refused, 2 answers | every search returns, also when the cache takes nothing and the server never answers |
| `disk_cache_serial` | one process at a time, 3 invocations, 2 URLs, 1 or 2 blocks, lifetime 1, clock 0..3, kills | whole entries, hits that are the newest answer, no leftovers, entries that stay for their lifetime, termination |
| `disk_cache_concurrent` | two processes at a time, otherwise the same but lifetime 0, clock 0..1 | a hit is a storable answer to its own URL |
| `disk_cache_atomic` | two stores of one URL | violated: see Findings |
| `browser_process` | 2 helpers, a runtime that may stop | however a render ends, nobody is spared, the leader is reaped and the profile let go of after it; every render ends and at last nothing is left |
| `bridge` | 4 pages (plain, redirect, redirect loop, another origin), settling in 2 polls, 1 navigation by a script, 2 other requests, 3 requests and 2 navigations at most | the limits hold; every call is answered or fails; until a script navigates, status and body are of one document; the body was stable as long as promised, less the time its reply waited behind requests |
| `fetch_command` | see below | a walk along the hints shows each record once, accounts for what it omits (on stderr, or in the metadata of an envelope) and goes forward; the output of several writers is whole and failures leave no file; `--where` means its grammar and compares consistently; both renderers keep all text in order; clutter does not influence main content; what `--locate` prints selects what it found |
| `text_lost` | pages of 2 elements below the body, and text | violated: see Findings |
| `main_content_hidden_root` | pages of 2 elements, and one whose root is hidden | violated: see Findings |

Why the bounds are enough to be interesting. Three keys for two places give
every eviction case, and a clock of five ticks lets an entry be inserted,
expire, be replaced and reach the end of the clock. One place in the client's
cache and six keys make every insert an eviction. Two answers are enough for one
to be cached, cleared or evicted while the other is on its way, and each field of
the six queries, left out of the key, lets one be served the other's answer. Two processes suffice for
each race of the disk cache that involves one temporary file; a third invocation
lets the result be read. Two blocks are the least that can be torn.

`fetch_command` takes one set of invocations per question, all of them through
the whole command: up to two modes with up to two other options (`OptionCalls`),
answers of 0 to 2 chunks (`RequestCalls`), up to three records that cost 1 or 3
with limits, budgets and offsets around them (`PageCalls`, `TableCalls`),
sentences of up to three tokens, chosen longer ones and broken ones
(`SentenceCalls`, `MalformedCalls`), all operators over 7 texts that are
numbers, look like numbers or do not (`ComparisonCalls`), every page of two
elements of many kinds, and of three or four of the kinds that interact
(`RenderCalls`, `MainCalls`, `LocateCalls`, `OutlineCalls`), and two writers
with two temporary names (`OutputCalls`). Two records that are cut once show
every relation of limit and budget, the third that a walk takes more than one
turn. Operators of different precedence meet in three operands, which the longer
sentences have. The questions about a renderer are about an element, its parent
and a sibling. Two writers suffice for a collision of names, and two tries for a
collision to be followed by a success or a failure. Each invocation ends, so
this run does not check for deadlock.

In `search_client`, `MaxFetches` bounds the answers; a task that waits when the
bound is reached can still fail or be dropped. In `DiskCache`, `MaxLaunches`
bounds the invocations and `MaxTime` the clock. The system may stop when both
are used up, so those runs do not check for deadlock.

In `Bridge` the limits, the navigations, the requests and the changes of a
document bound everything. Two helpers suffice for one to outlive the leader
while another is forked. Both systems stop when the render is over.

The definitions whose comment begins with "What ... must not" are faulty
variants of the definition that follows them. No specification uses them. Each
stands for a mistake a change to the code could introduce, and putting it in the
place of the correct definition makes the property it is paired with in
`PROJECT.json` fail.

### Fairness

- `EmbeddedSearch`: weak fairness of the task's own steps, and of an answer or
  failure of OpenAlex and Hacker News, which go through reqwest and its timeout
  (`from_config`). None for DuckDuckGo: `duckduckgo_post` is a blocking
  exchange whose limits are per read and write, so a server that keeps sending
  keeps it. `EndsWithoutWeb` says no more than that allows.
- `SearchClient`: weak fairness of lookups, of the backend's answer or failure
  (the client's timeout) and of the insert. It models the external backend,
  where the timeout applies. None for callers, `ClearCache` or the clock.
- `DiskCache`: weak fairness of each process's steps; the request has a timeout
  (`fetch_with_cache_policy`). None for kills, launches or the clock.

- `BrowserProcess`: weak fairness of the future's own steps up to its waits, of
  the deadline (a tokio timer), of `close` and the reaping task, and of the exit
  of a process that a SIGKILL is pending for. Nothing is assumed of the page, the
  browser or the caller.
- `Bridge`: weak fairness of serving, of the end of a request (the client's
  timeout), of reading and polling, and of the browser's answers, commits and
  loading. `RenderCompletes` is about the render without its deadline: that
  `call` never waits for something that waits for `call`.
- `FetchCommand`: none. That a walk along the hints ends is stated as a safety
  property, `HintsLeadOn`: every hint is a later offset within the result.

## Findings

- `disk_cache_atomic`: the temporary name depends on the URL alone. Of two
  processes that store the same URL one may rename the file that the other has
  just emptied, so a store is not atomic against another. The damage is small:
  the entry does not parse, and the next fetch removes and replaces it.
- `text_lost`: inside an inline element a `p`, `div`, `li`, `section` or
  `article` becomes a space, and its text is lost. A page whose links wrap
  blocks, which HTML allows, loses the text of its links.
- `main_content_hidden_root`: `extract_main_content` detaches clutter and then
  asks for the root element. If that was clutter itself (`<html hidden>`), there
  is none, and `root_element` of the library panics, also with the fallback to
  the full document.

Known and not counted as findings:

- Search. The key of the response cache joins engine names with commas, so
  `["ddg,hn"]`, one name nobody answers to, and `["ddg", "hn"]`, two that are
  known, share an entry and are answered by each other's providers;
  `AnswersOwnSelection` is checked for names without commas. In speed mode a DuckDuckGo
  page is cut to five results while the next page begins ten further on.
- Disk cache. A sweep removes a name for what it read there before, so with two
  processes it can take away an entry that was stored in between. It costs a
  fetch. `StoredIsKept` is therefore about one process at a time.
- Browser. When the browser exits at startup and was alone in its group,
  `endpoint` has reaped it and its id is free, and `close` still signals it. With
  the runtime gone, or going, nobody waits for the browser and the profile is
  removed while it may still run; `ProfileOutlivesLeader` is stated for as long
  as there is a runtime. `close` and `Drop` drop the profile's `TempDir`, whose
  removal can fail while a helper that is being killed still writes there; the
  error is ignored and the directory stays (`src/src/browser.rs:331`, `:346`). The
  model says when removal is tried, after the leader's end, and not whether it
  succeeds. What the process asked for `--version` starts is not in the owned
  group and not in the model. A navigation between `createIsolatedWorld` and
  `evaluate` fails the render.
- Bridge. The response recorded last is that of the last navigation the bridge
  fulfilled: if a script navigates while `render` polls, the report may combine
  the old document with the status and type of one to come;
  `StatusUntilScriptNavigates` stops there. The reply with a snapshot may lie
  behind paused requests, whose time counts as time in which the DOM did not
  change (`src/src/browser.rs:679`); `SettledButForTheWait` subtracts the wait of
  the snapshot that is reported, and nothing else.
- Paging. The hint of plain output names the end of the page before the budget
  cut it, so following it skips what the budget omitted (it is announced; JSON
  names the right offset). `paginate` calls an empty result `PastEnd` when the
  offset is not 0, where `src/src/fetch.rs:1062` says that an empty set is
  complete. The count of omitted records in the JSON envelope includes those
  before the offset. A page with a header and a small budget may show the header
  only. An outline is cut at 25 entries (`src/src/fetch.rs:629`)
  before anything is counted, so neither stderr nor the count in JSON says so,
  where `src/README.md:321` has omissions announced and never silent;
  `OmissionsAnnounced` is about pages without that cut. `--body --json` and
  `--count --json` are not wrapped in JSON.
- Options. A malformed `--where`, selector or row is reported only after the
  request was made. `--count` of something succeeds also with `--fail` and a
  status of 400 or more.
- Reading. The limit on a body counts bytes before they are decoded; each
  malformed byte becomes three. Texts that read as NaN, or as infinite, are
  compared as such numbers, so NaN is neither less, equal nor greater.
- Rendering. Text directly in a list or table, an `li` outside a list, and cells
  beyond a table's first row are dropped; the text of a script inside `pre`,
  `code` or a cell is shown; a table in a cell has its rows in the outer table too,
  and its text a second time in that cell.
- Records. Of two columns of one name the last wins in JSON and `--where`, and
  cells beyond the headers are in neither.
- Locate. A hit held by `html` or `body` has an empty path, and a name that begins
  with a minus and a digit, or an id that is empty (`selector_part` writes
  `tag#`), gives a selector that is none.
- Main content. A form is kept if a landmark inside it was hidden or in other
  clutter: a form that holds a landmark is not clutter on its own account
  (`src/src/main_content.rs:180-188`).

## Proofs

`TtlCacheProofs` proves for every set of keys and values,
every capacity, lifetime and clock bound, from `CacheAssumption` alone (the three
numbers are naturals):

- `CacheInvariant`: `CacheSpec => []CacheInv`. `CacheInv` is `CacheTypeOK`,
  `OrderMatchesEntries` and `Bounded` together: none of the last two is
  inductive alone, since the eviction loop stops because the queue names every
  entry, and the queue stays free of repetitions because a key that is pushed
  was not in the map. `CacheTypeCorrect`, `OrderAlwaysMatchesEntries` and
  `CacheAlwaysBounded` follow.
- `OnlyLeastRecentEvicted`: the action property `LiveLossJustified`. The key
  lemma is that the loop runs at most once, as the cache is never over capacity.
- `LazyCacheImplementsEager`: `CacheSpec => ImplementsLruCache`, by showing that
  the initial state maps to the initial state and that each action maps to the
  action of its name, with `store` the live entries and `recency` the order in
  which the queue holds them. An insert into a disabled cache maps to the
  abstract insert's first case; reclaiming is invisible.

`BrowserProcessProofs` proves, for any set of helpers and with or without a
runtime that stops, from `ProcessSpec` alone:

- `ProcessInvariant`: `ProcessInv` says what is owned at each stage. Its core is
  `Signalled`: the signal has been sent once and everyone alive is doomed. It is
  inductive where `ReturnsAfterCleanup` is not, because the doomed do not fork
  and because the id is held from `Spawn` to the first of `close` and `Drop`,
  whether or not the leader has been reaped.
- From it `ProcessTypeCorrect`, `AlwaysReturnsAfterCleanup`,
  `NobodyIsEverSpared`, `AtMostOneSignal` and `ProfileKeptForLeader`.

`FetchCommandProofs` proves, for any invocations, pages, answers, expressions,
numbers of records, limits, budgets, writers, names and blocks:

- `PagesDoNotOverlap`, `NothingGoesUnannounced` and `HintsGoForward`, the three
  properties of `PageWalk`, of a walk that goes through a whole invocation for
  each page. The inductive invariant `CommandInv` has `WalkInv` and what links one
  invocation to the next. `WalkInv` is `PageFacts`, what `Paginate` guarantees of
  `meta` (the lemma about it splits on the state); `FitOK`, that a budget keeps
  at least one item, if there is any, and announces the others; and `SeenOK`, that no
  record has been printed twice, none beyond `Reach`, the place the reader has
  come to, and each one from `start` to there where nothing is skipped. `Reach` is
  what `EachShownOnce` alone does not say and the next page needs. The link is
  that `found`, once it is there, is a function of the invocation (`Records`), so
  that a reader who comes again is offered the same records in the same
  order, at the same costs (`Asks`); without it the offsets of two invocations would not
  be about one result.
- `CommandsWriteAtomically`: `CommandSpec => WriteSpec`. Whatever else an
  invocation does, what it and the others do to files is a step of `AtomicWrite`
  or none.
- `OutputIsWhole` and `FailuresLeaveNothing`, from that and `WriteInv`, which says
  besides that the file a writer's `tmp` names is its own, and whole once it is
  synced (`Held`), and that no temporary file is without such a writer (`Owned`).
  `create_new` is what makes this inductive: no two writers ever hold one name.
- `ClutterIsIgnored`, `LocatedIsSelected` and `RenderingIsExact`, from `PageProofs`.
- `ComparingIsAnOrder`: of two values of `--where` exactly one of `==`, `<` and `>`
  holds and the others are their opposites, whatever the texts and whatever
  numbers they read as.

`PageProofs` proves about every page what the command's properties say of one:

- `ClutterDoesNotMatter`: `extract_main_content` takes the same source and the same
  root, in a page with its clutter and in the page without. The second page has
  other positions, so the argument is an embedding: a numbering of what is kept
  (`PrunedEmbeds`) that preserves document order, ancestors and texts, hence scores
  (`ClearedScore`), hence candidates and which of them is best.
- `HitsCanBeSelected`: the path that `--locate` prints is a valid selector and
  selects the element it was printed for. `EscapesAreRead` says that CSS reads
  back every name `escape_css_ident` writes, by splitting a name at its first character
  and tracing the reader over the rest; `PathSelects` descends a path part by part.
- `RenderedExactly`: the letters of the rendered blocks are those of the shown
  text. A text is put together from the pieces of a set of nodes, in document
  order (`Gather`), and the pieces have an algebra: the pieces of two sets one
  before the other are joined (`PiecesJoin`), and pieces of groups of nodes that
  follow one another are the pieces of all of them (`PiecesGrouped`). Each node's part
  is then shown by how it is laid out: inline content from the end of the page
  to its beginning (`InlineShown`), blocks likewise with the lists, terms,
  quotes and headings in them (`BlockShown`), and tables by their rows
  (`TableShown`), which lie apart from one another where no row holds another
  (`TrsAreApart`). Marks are removed on both sides; the texts have none.
- That what is rendered, selected or extracted is a sequence of sequences of
  letters (`BlocksIn`, `TakenIsWorded`, `RowsAreListed` and others): the number of
  records of a page is a number, which `CommandInv` needs.

The operators are recursive functions over positions. A recursive definition says
what it computes only if a function of that kind exists, which the proofs show
by building it (`Recursion`, `Downward`), and what it computes is shown by a least
(or last) position where it would be wrong (`LeastNumber`, `FromTheEnd`), without the
induction theorems.

`BridgeProofs` proves, for any URLs, redirects, number of changes and limits,
from `BridgeAssumption`, the three safety properties of `Bridge`:

- `LimitsAlwaysHold`, by `CountInv`: what was sent is what was counted, less what
  was refused or is over the limit.
- `StatusIsOfTheBody`, by `StatusInv`: the main frame has one request at a time,
  which is unread, being served or recorded (`OneRequest`), and what is recorded
  is of the document that is shown or about to be (`RecordedIsShown`). Neither
  holds without the other: a second request would overwrite the record.
- `SettledAsPromised`, by `SettledInv`. What render believes of the document
  (`previous`, `stable`) is true of it, or of one that is no longer shown
  (`Believed`): documents come in the order of navigations, in the inbox too
  (`InOrder`), so a snapshot of an earlier one is never taken for the present one.
  The time a snapshot waits makes it older by as much as it makes render believe,
  and `late` is that time. No request, redirect or script is ruled out.

`EmbeddedSearchProofs` proves, for any queries, URLs, pages, limits of the modes and
block and allow lists, from `SearchAssumption` (which types these constants),
the four safety properties of `EmbeddedSearch`:

- `SearchInvariant`: `SearchSpec => []SearchInv`. While a search waits, the
  providers it asked are those the query selects, and outcomes are of providers it
  asked. When it is done, the response is the report (`ReportOf`) of a sequence `c`
  of results that the outcomes bring (`Brings`): each element of `c` comes from a
  page of a provider that answered, every result of such a page is in `c`, and
  `c` goes through the providers in their order. `Brings` and `ReportOf` are about
  values, not variables, so a step that leaves these alone leaves them true. That
  `search_embedded` has no failure to add (`WithFailuresAddsNone`) is one of the
  facts the invariant rests on.
- `FailuresCostTheirResultsOnly`, from the invariant and the statuses in it.
- `CoverageIsTruthful`. What a query selects has no repetitions and is never empty
  (`ProvidersSelected`). The coverage is the unknown names and then the requested
  providers, of which those within the limit are attempted (`CoverageShape`), and
  these are the providers that were selected (`AttemptsAreProviders`).
- `FilterIsHonest`. The URLs of `c` are those some provider returned.
- `MergingLosesNothing`. `Distinct` keeps the first result of each provider among
  those of a URL; as `c` follows the order of the providers, what it keeps is the
  providers that returned the URL, in their order (`MergedEngines`).

These proofs rest on what `Select` and `FlattenSeq` compute. Both are recursive
functions over positions, so what they compute is proved by taking a least
position where it would be wrong (`LeastNumber`), without the induction theorems.
`Picks` says that a function names the elements of a set of positions in
increasing order: there is one such function for each set (`PicksUnique`), `Select`
follows it (`SelectPicks`), and two selections are shown equal by giving it
(`SelectIs`). `FlattenPlaces` says from which sequence each element of a
concatenation comes, and that none is lost.

`DiskCacheProofs` proves, for any finite set of processes and any URLs, report
sizes, lifetime and number of invocations, from `DiskAssumption`, for any number
of processes at a time:

- `HitsAreForTheirUrl`. `DiskInv` says of every file for which URL it was first
  created (`FilesOK`), and of every name and every writer that it agrees with that
  (`DirOK`, `ProcOK`). The blocks of a file may come from several reports, so the
  invariant is about each of them. `OwnIds` is there for the ghost `origin`: a
  response is received once for each invocation.

And for one process at a time (`MaxActive = 1`), where any process can still be
killed at any step and the next one finds what it left:

- `SerialEntriesAreWhole`, `SerialFailedFetchLeavesNothing`, `SerialStoredIsKept`,
  `SerialHitsAreNewest` and `SerialStoreLeavesNoTmp`. `SerialInv` adds to `DiskInv`
  that every entry is whole and from one fetch (`EntriesWhole`), that no file has
  two names, and what the process relies on from its earlier steps (`SerialProc`):
  which temporary files its sweep has still to see, that what it is about to
  remove has expired, how far it has written. `LifeInv` adds that an entry is the
  newest response of its URL (`EntriesNewest`) and that the one process has the
  last id: `StoredIsKept` and `HitIsNewest` need each other's facts. The
  hypothesis is needed: `disk_cache_atomic` shows two processes that break the
  first of these properties. The run `disk_cache_serial` has it too.

`SearchClientProofs` proves, for any tasks, queries, sizes, capacity, lifetime and
number of fetches, from `ClientAssumption` and `NoneAssumption` (a response is
not `NoValue`):

- `ClearedAlwaysGone`, `RepliesAlwaysFromWhole` and `NoFetchIsNeedless`. The
  invariant `ClientInv` says that an answer on its way to the cache is held by one
  task only and has never been stored (`TaskOK`, `OwnAnswers`), and that what is
  cached is whole, was stored and was never cleared (`EntryOK`). Of the cache the
  proofs need two lemmas: every operation but `Insert` only forgets
  (`CacheForgets`), and `Insert` adds one entry (`InsertAdds`).
- `AnswersAlwaysOwnSelection`. `AskedInv` says of every cached answer, and of every
  answer a task holds, that it is from whom the key asks. It needs that the key
  tells (`KeyTells`), whom a query asks and for what. Every field is in the query
  string or beside it, so for the clients of a server that is so. The embedded backend sees the names, which the key has
  joined by commas: the theorem then assumes `CommaFree`, that no engine is named
  with a comma in it. Without commas, equal joined names are equal names
  (`SinglesFlattenApart`); with one, `<<"a,b">>` and `<<"a", "b">>` share a key.

The lemmas about queues (what `Retain`, `MoveToBack` and `Evicted` return) and
about `Paginate` are stated once and cited.

What the proofs about the command assume, besides types of the constants:

- `CallsAssumption`. The page of an invocation is a tree in document order
  (`IsDocument`). Of its tags (`IsHtml`) html5ever makes `html` the root and puts
  `body` below it, and gives texts and `hr` no content. (An element called
  `html` inside SVG content is not an HTML element; the proofs leave such pages
  out.) Ids and classes are words over `Characters`. The letters of a text are
  not marks: a star that is text and one that means emphasis are two things in
  the model, as they are to the renderer. An expression compiles to at most one
  tree, and an invocation with `--where` has an expression.
- `CharactersAssumption` keeps the backslash out of the characters that are not
  escaped and the digit 3, with which an escaped digit begins, out of the signs;
  `OutlineAssumption` and `ContentAssumption` say that a count is a natural.
- `ValuesAssumption`. A text reads as at most one number, NaN is none of the
  integers that stand for numbers, and the order of texts names each text that
  occurs. NaN and texts outside that order are not compared by
  `ComparisonsAgree`.

Only model-checked:

- `CompiledMeansGrammar`: the parser follows the recursion of the code with
  `RECURSIVE` operators, which the prover does not accept, and so does the
  grammar. Recursive functions over positions would do for the
  grammar, but the parser returns a position with each tree, and that these agree
  is an induction over all trees.
- All liveness (`EndsWithoutWeb`, `SearchReturns`, `EveryFetchEnds`,
  `NothingIsLeft`, `RenderCompletes`): it needs `ENABLED`, which the prover does not
  handle.
- That `Retain` and `Select` equal `SelectSeq`, of which the prover has no
  definition.

Every other property of a passing run is a theorem.

## Not modelled, and the plan

To come:

1. The parser of `Filter` as a recursive function over positions, with the proof
   that it finds the tree of the grammar.
2. The decoder of DuckDuckGo's raw answer (`decode_http_body`). Its sizes can
   wrap, which ends in a panic of the blocking task and so in a failed provider;
   `EmbeddedSearch` has that as `Fail`.

Left out, with the reason:

- Argument parsing, exit codes and the wording of hints in `src/src/bin/darash.rs`,
  and its `search` and `serve` commands: one call each of what is modelled.
- Extraction of results from the providers' HTML and JSON, and ranking scores
  (`src/src/embedded_search.rs`): they map one answer to a list, which is an input of
  `Answer`.
- The conversion of Websurfx answers (`src/src/websurfx.rs`): `search_websurfx` is an
  action of `SearchClient`, its response an input.
- Address policy, header filtering and byte counts of the browser's requests: they
  decide between the outcomes `Bridge` has.
- White space, decoding and URL syntax.
- The site, the benchmarks and the build: no program logic.
