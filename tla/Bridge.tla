-------------------------------- MODULE Bridge --------------------------------
(***************************************************************************)
(* One render on a running browser: Bridge and render of                   *)
(* src/src/browser.rs, from Page.navigate on.                              *)
(*                                                                         *)
(* render makes one call after the other and waits for each reply. What    *)
(* the browser sends meanwhile comes through the same socket in one order: *)
(* the requests it has paused, which call serves before it reads on. So a  *)
(* reply may be read long after it was given. The browser navigates, loads *)
(* and changes its document on its own time.                               *)
(*                                                                         *)
(* The deadline and cancellation are BrowserProcess's.                     *)
(***************************************************************************)
EXTENDS Naturals, Sequences

CONSTANTS
  Urls,
  Starts,             \* the URLs that may be rendered
  Location,           \* the URLs each one's response redirects to: none or one
  Origin,
  MaxRequests, MaxNavigations,
  Settle,             \* settle_time in polls
  MaxChanges,         \* bounds what a document does after it loads,
  ScriptNavigations,  \* the navigations scripts begin
  Resources           \* and the other requests they cause

ASSUME BridgeAssumption ==
  /\ Starts \subseteq Urls
  /\ Location \in [Urls -> SUBSET Urls]
  /\ {MaxRequests, MaxNavigations, Settle, MaxChanges, ScriptNavigations,
      Resources} \subseteq Nat

VARIABLES
  pc,                 \* the call render waits in, sleep, returned or failed
  inbox,              \* sent by the browser and not read
  serving,            \* the paused request that call is serving, if any
  requests, navigations,
  response,           \* the URL whose status, type and URL are recorded, if any
  context,            \* the document the isolated world belongs to
  previous, stable,   \* the last snapshot; polls since stable_since
  report,
  asked,              \* the browser has a call to answer
  page,               \* the document in the main frame
  pending,            \* the navigation that goes on, if any
  navs,               \* main-frame requests paused so far; their identity
  scripts, resources, \* navigations by scripts, other requests
  sent,               \* ghost: requests that went out, and those of the frame
  late                \* ghost: polls a snapshot has waited to be read

renderVars == <<pc, inbox, serving, requests, navigations, response, context,
                previous, stable, report, asked, page, pending, navs, scripts,
                resources, sent, late>>

bridge == <<pc, serving, requests, navigations, response, context, previous,
            stable, report, sent, late>>
browser == <<page, pending, navs, scripts, resources>>
polling == <<context, previous, stable, report, late>>

Calls == {"navigate", "world", "evaluate"}
Running == pc \in Calls \cup {"sleep"}

(* A paused request of a main-frame document, and of anything else. Methods *)
(* other than GET and HEAD, and documents of subframes, are refused.        *)
DocumentPaused(url, nav, refused) ==
  [kind |-> "document", url |-> url, nav |-> nav, refused |-> refused]
ResourcePaused(refused) == [kind |-> "resource", refused |-> refused]

(* What Chromium shows in place of a document whose request failed. *)
ErrorPage == "chrome-error"

Blank == [url |-> "about:blank", nav |-> 0, dom |-> 0, quiet |-> 0]

(* Page.navigate was sent, and the browser has paused its request. *)
RenderInit ==
  /\ pc = "navigate"
  /\ \E start \in Starts :
       /\ inbox = <<DocumentPaused(start, 1, FALSE)>>
       /\ pending = {[url |-> start, nav |-> 1, fulfilled |-> FALSE]}
  /\ navs = 1
  /\ serving = {}
  /\ requests = 0
  /\ navigations = 0
  /\ response = {}
  /\ context = 0
  /\ previous = {}
  /\ stable = 0
  /\ report = {}
  /\ asked = TRUE
  /\ page = Blank
  /\ scripts = 0
  /\ resources = 0
  /\ sent = [all |-> 0, main |-> 0]
  /\ late = 0

-----------------------------------------------------------------------------
(* Bridge::call and Bridge::request.                                       *)

Take(kind) ==
  /\ pc \in Calls
  /\ serving = {}
  /\ inbox # <<>>
  /\ Head(inbox).kind = kind
  /\ inbox' = Tail(inbox)

Fail == pc' = "failed"
Ask(call) == pc' = call /\ asked' = TRUE

(* What OverLimit must not do: compare before it counts. *)
OverLimitLate(main) ==
  requests > MaxRequests \/ (main /\ navigations > MaxNavigations)

OverLimit(main) ==
  requests + 1 > MaxRequests \/ (main /\ navigations + 1 > MaxNavigations)

(* What ServeDocument must not do: read over it, to the reply. *)
ServeDocumentLater ==
  /\ Take("document")
  /\ UNCHANGED <<bridge, asked, browser>>

(* The navigation nav leads to url, unless another has taken its place. *)
LeadsTo(nav, url) ==
  pending' = {IF p.nav = nav THEN [p EXCEPT !.url = url, !.fulfilled = TRUE] ELSE p
              : p \in pending}

ServeDocument ==
  /\ Take("document")
  /\ requests' = requests + 1
  /\ navigations' = navigations + 1
  /\ \/ OverLimit(TRUE) /\ Fail /\ UNCHANGED <<serving, sent, pending>>
     \/ /\ ~OverLimit(TRUE)
        /\ Head(inbox).refused
        /\ LeadsTo(Head(inbox).nav, ErrorPage)
        /\ UNCHANGED <<pc, serving, sent>>
     \/ /\ ~OverLimit(TRUE)
        /\ ~Head(inbox).refused
        /\ serving' = {Head(inbox)}
        /\ sent' = [all |-> sent.all + 1, main |-> sent.main + 1]
        /\ UNCHANGED <<pc, pending>>
  /\ UNCHANGED <<response, polling, asked, page, navs, scripts, resources>>

(* What is refused counts as well. *)
ServeResource ==
  /\ Take("resource")
  /\ requests' = requests + 1
  /\ \/ OverLimit(FALSE) /\ Fail /\ UNCHANGED <<serving, sent>>
     \/ /\ ~OverLimit(FALSE)
        /\ Head(inbox).refused
        /\ UNCHANGED <<pc, serving, sent>>
     \/ /\ ~OverLimit(FALSE)
        /\ ~Head(inbox).refused
        /\ serving' = {Head(inbox)}
        /\ sent' = [sent EXCEPT !.all = @ + 1]
        /\ UNCHANGED pc
  /\ UNCHANGED <<navigations, response, polling, asked, browser>>

(* What Recorded must not be: the first response alone, the redirect's. *)
FirstRecorded(url) == IF response = {} THEN {url} ELSE response

Recorded(url) == {url}

(* The response is here; a navigation that was replaced is past help. *)
FulfillDocument ==
  \E m \in serving :
    /\ m.kind = "document"
    /\ serving' = {}
    /\ response' = Recorded(m.url)
    /\ LeadsTo(m.nav, m.url)
    /\ UNCHANGED <<pc, inbox, requests, navigations, polling, asked, page, navs,
                   scripts, resources, sent>>

FulfillResource ==
  \E m \in serving :
    /\ m.kind = "resource"
    /\ serving' = {}
    /\ UNCHANGED <<pc, inbox, requests, navigations, response, polling, asked,
                   browser, sent>>

(* No connection, an address that is not public, a body over the limits, a *)
(* download: whatever the request was for, the render is over.             *)
RequestFails ==
  /\ serving # {}
  /\ serving' = {}
  /\ Fail
  /\ UNCHANGED <<inbox, requests, navigations, response, polling, asked, browser,
                 sent>>

-----------------------------------------------------------------------------
(* render: what it does with each reply.                                   *)

Navigated ==
  /\ Take("navigated")
  /\ \/ Head(inbox).ok /\ Ask("world")
     \/ ~Head(inbox).ok /\ Fail /\ UNCHANGED asked
  /\ UNCHANGED <<serving, requests, navigations, response, polling, browser, sent>>

(* The frame may be gone, and the reply an error. *)
WorldMade ==
  /\ Take("world")
  /\ \/ context' = Head(inbox).nav /\ Ask("evaluate")
     \/ Fail /\ UNCHANGED <<context, asked>>
  /\ UNCHANGED <<serving, requests, navigations, response, previous, stable,
                 report, browser, sent, late>>

Sleep == pc' = "sleep"
Html(m) == {<<m.nav, m.dom>>}

(* What Age must not be: the time since the first snapshot. *)
AgeOfFirst(m) == stable

(* Polls since stable_since, which a new snapshot resets. *)
Age(m) == IF Html(m) = previous THEN stable ELSE 0

(* The recorded response is of the document's origin. *)
SameOrigin(url) == url \in Urls /\ \E r \in response : Origin[r] = Origin[url]

(* The reply to evaluate. Its world may be gone, its document not ready or *)
(* too large, its URL not public by now.                                   *)
Snapshot ==
  LET m == Head(inbox) IN
  /\ Take("snapshot")
  /\ \/ Fail /\ UNCHANGED <<previous, stable, report>>
     \/ m.ok /\ m.dom = 0 /\ Sleep /\ previous' = {} /\ stable' = 0 /\ UNCHANGED report
     \/ /\ m.ok /\ m.dom > 0
        /\ previous' = Html(m)
        /\ stable' = Age(m)
        /\ \/ Age(m) < Settle /\ Sleep /\ UNCHANGED report
           \/ /\ Age(m) >= Settle
              /\ SameOrigin(m.url)
              /\ pc' = "returned"
              /\ report' = {[url |-> m.url, status |-> r, quiet |-> m.quiet, late |-> late]
                            : r \in response}
  /\ late' = 0
  /\ UNCHANGED <<serving, requests, navigations, response, context, asked,
                 browser, sent>>

Later(n) == IF n < Settle THEN n + 1 ELSE n

SnapshotWaits == \E i \in DOMAIN inbox : inbox[i].kind = "snapshot"

(* Time is counted in polls. *)
Passes ==
  /\ stable' = Later(stable)
  /\ page' = [page EXCEPT !.quiet = Later(@)]
  /\ late' = IF SnapshotWaits THEN Later(late) ELSE late

Wake ==
  /\ pc = "sleep"
  /\ Ask("world")
  /\ Passes
  /\ UNCHANGED <<inbox, serving, requests, navigations, response, context,
                 previous, report, pending, navs, scripts, resources, sent>>

(* The network and the browser take time, reading what has arrived takes none. *)
Tick ==
  /\ pc \in Calls
  /\ serving # {} \/ inbox = <<>>
  /\ Passes
  /\ UNCHANGED <<pc, inbox, serving, requests, navigations, response, context,
                 previous, report, asked, pending, navs, scripts, resources, sent>>

-----------------------------------------------------------------------------
(* The browser.                                                            *)

Tell(m) == inbox' = Append(inbox, m)

(* It requests url for the main frame, and gives up what it navigated to. *)
Navigate(url, refused) ==
  /\ navs' = navs + 1
  /\ pending' = {[url |-> url, nav |-> navs + 1, fulfilled |-> FALSE]}
  /\ Tell(DocumentPaused(url, navs + 1, refused))
  /\ UNCHANGED <<bridge, asked, page>>

Redirects(p) == IF p.url \in Urls THEN Location[p.url] ELSE {}

Redirect ==
  /\ Running
  /\ \E p \in pending : p.fulfilled /\ \E url \in Redirects(p) : Navigate(url, FALSE)
  /\ UNCHANGED <<scripts, resources>>

(* Page.navigate is answered when its navigation has come to something. *)
NavigateReply(ok) ==
  IF asked /\ pc = "navigate"
    THEN Tell([kind |-> "navigated", ok |-> ok]) /\ asked' = FALSE
    ELSE UNCHANGED <<inbox, asked>>

Commit ==
  /\ Running
  /\ \E p \in pending :
       /\ p.fulfilled
       /\ Redirects(p) = {}
       /\ page' = [url |-> p.url, nav |-> p.nav, dom |-> 0, quiet |-> 0]
  /\ pending' = {}
  /\ NavigateReply(TRUE)
  /\ UNCHANGED <<bridge, navs, scripts, resources>>

(* An empty answer: the document stays. *)
NoContent ==
  /\ Running
  /\ \E p \in pending : p.fulfilled /\ Redirects(p) = {}
  /\ pending' = {}
  /\ NavigateReply(FALSE)
  /\ UNCHANGED <<bridge, page, navs, scripts, resources>>

ScriptNavigates ==
  /\ Running
  /\ page.nav > 0
  /\ scripts < ScriptNavigations
  /\ scripts' = scripts + 1
  /\ \E url \in Urls, refused \in BOOLEAN : Navigate(url, refused)
  /\ UNCHANGED resources

RequestsResource ==
  /\ Running
  /\ page.nav > 0
  /\ resources < Resources
  /\ resources' = resources + 1
  /\ \E refused \in BOOLEAN : Tell(ResourcePaused(refused))
  /\ UNCHANGED <<bridge, asked, page, pending, navs, scripts>>

(* It loads, which is its first change, and scripts change it. *)
Change ==
  /\ Running
  /\ page.nav > 0
  /\ page.dom < MaxChanges
  /\ page' = [page EXCEPT !.dom = @ + 1, !.quiet = 0]
  /\ UNCHANGED <<bridge, inbox, asked, pending, navs, scripts, resources>>

Answer ==
  /\ asked
  /\ \/ pc = "world" /\ Tell([kind |-> "world", nav |-> page.nav])
     \/ /\ pc = "evaluate"
        /\ Tell([kind |-> "snapshot", ok |-> context = page.nav, url |-> page.url,
                 nav |-> page.nav, dom |-> page.dom, quiet |-> page.quiet])
  /\ asked' = FALSE
  /\ UNCHANGED <<bridge, browser>>

-----------------------------------------------------------------------------
Serve == ServeDocument \/ ServeResource
Finished == FulfillDocument \/ FulfillResource \/ RequestFails
Reply == Navigated \/ WorldMade \/ Snapshot
Proceed == Redirect \/ Commit \/ NoContent

RenderNext ==
  \/ Serve \/ Finished \/ Reply \/ Wake \/ Tick
  \/ Proceed \/ ScriptNavigates \/ RequestsResource \/ Change \/ Answer

RenderSpec == RenderInit /\ [][RenderNext]_renderVars

(* The task is polled, requests end by their timeout, and the browser does *)
(* what it was asked and loads what it was given.                          *)
FairRenderSpec ==
  /\ RenderSpec
  /\ WF_renderVars(Serve)
  /\ WF_renderVars(Finished)
  /\ WF_renderVars(Reply)
  /\ WF_renderVars(Wake)
  /\ WF_renderVars(Proceed)
  /\ WF_renderVars(Change)
  /\ WF_renderVars(Answer)

-----------------------------------------------------------------------------
(* max_requests, "including redirects", and max_navigations, "including JS *)
(* navigation", bound what goes out, in whatever order requests arrive.    *)
LimitsHold == sent.all <= MaxRequests /\ sent.main <= MaxNavigations

(* "FetchReport retains the HTTP status and final URL": both are of the    *)
(* document the body is of.                                                *)
StatusOfItsDocument == \A r \in report : r.status = r.url

(* It is, redirects or not, until a script navigates.                      *)
StatusUntilScriptNavigates == scripts = 0 => StatusOfItsDocument

(* "DOM must remain unchanged for this interval after readiness": when the *)
(* snapshot was taken that became the body, it was, less the time the      *)
(* snapshot itself waited to be read behind paused requests, whatever else *)
(* was served, redirected or navigated to before. (That time counts as if  *)
(* the document had been seen unchanged: README, Known.)                   *)
SettledButForTheWait == \A r \in report : r.quiet + r.late >= Settle

(* A render that is not cut off comes to an end: no call waits for a reply *)
(* that waits for a request the call has not served.                       *)
RenderCompletes == (pc = "navigate") ~> ~Running
=============================================================================
