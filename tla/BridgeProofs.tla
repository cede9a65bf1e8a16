----------------------------- MODULE BridgeProofs -----------------------------
(***************************************************************************)
(* Proofs about Bridge, for any URLs, redirects and limits.                *)
(*                                                                         *)
(* The limits need only what is counted. That status and body belong       *)
(* together, as long as no script navigates, rests on there being one      *)
(* request for the main frame at a time: it is unread, being served, or    *)
(* has become the navigation whose response is recorded. That the body has *)
(* settled rests on documents coming in the order of their navigations,    *)
(* and on a snapshot growing as old while it waits as render takes it for  *)
(* settled.                                                                *)
(***************************************************************************)
EXTENDS Bridge, TLAPS

(* What goes out has been counted, and was counted within the limits.      *)
CountInv ==
  /\ requests \in Nat /\ navigations \in Nat
  /\ sent \in [all : Nat, main : Nat]
  /\ sent.all <= requests /\ sent.main <= navigations
  /\ LimitsHold

LEMMA CountInvInit == RenderInit => CountInv
BY BridgeAssumption DEF RenderInit, CountInv, LimitsHold

LEMMA CountInvNext == CountInv /\ [RenderNext]_renderVars => CountInv'
<1> SUFFICES ASSUME CountInv, [RenderNext]_renderVars PROVE CountInv'
  OBVIOUS
<1> USE DEF CountInv, LimitsHold
<1>1. CASE ServeDocument
  BY <1>1, BridgeAssumption DEF ServeDocument, OverLimit
<1>2. CASE ServeResource
  BY <1>2, BridgeAssumption DEF ServeResource, OverLimit
<1>3. ASSUME UNCHANGED <<requests, navigations, sent>> PROVE CountInv'
  BY <1>3
<1>4. CASE Finished
  BY <1>3, <1>4 DEF Finished, FulfillDocument, FulfillResource, RequestFails
<1>5. CASE Reply
  BY <1>3, <1>5 DEF Reply, Navigated, WorldMade, Snapshot
<1>6. CASE Wake \/ Tick
  BY <1>3, <1>6 DEF Wake, Tick
<1>7. CASE Proceed
  BY <1>3, <1>7 DEF Proceed, Redirect, Commit, NoContent, Navigate, bridge
<1>8. CASE ScriptNavigates \/ RequestsResource \/ Change \/ Answer
  BY <1>3, <1>8 DEF ScriptNavigates, RequestsResource, Change, Answer, Navigate, bridge
<1>9. CASE UNCHANGED renderVars
  BY <1>3, <1>9 DEF renderVars
<1>10. QED
  BY <1>1, <1>2, <1>4, <1>5, <1>6, <1>7, <1>8, <1>9 DEF RenderNext, Serve

(* max_requests and max_navigations bound what goes out in every render,   *)
(* however redirects, scripts and resources interleave.                    *)
THEOREM LimitsAlwaysHold == RenderSpec => []LimitsHold
<1>1. CountInv => LimitsHold
  BY DEF CountInv
<1>2. QED
  BY <1>1, CountInvInit, CountInvNext, PTL DEF RenderSpec

-----------------------------------------------------------------------------
(* Status and body.                                                        *)

Shown == Urls \cup {ErrorPage, "about:blank"}

DocumentMessage == [kind : {"document"}, url : Urls, nav : Nat, refused : BOOLEAN]
ResourceMessage == [kind : {"resource"}, refused : BOOLEAN]
ReplyMessage ==
  [kind : {"navigated"}, ok : BOOLEAN] \cup [kind : {"world"}, nav : Nat]
  \cup [kind : {"snapshot"}, ok : BOOLEAN, url : Shown, nav : Nat, dom : Nat, quiet : Nat]
Message == DocumentMessage \cup ResourceMessage \cup ReplyMessage

Documents == {i \in DOMAIN inbox : inbox[i].kind = "document"}
NoneServed == \A m \in serving : m.kind # "document"
NoRequest == Documents = {} /\ NoneServed
Loaded == page.nav > 0

Navigation == [url : Urls \cup {ErrorPage}, nav : Nat \ {0}, fulfilled : BOOLEAN]
Page == [url : Shown, nav : Nat, dom : Nat, quiet : Nat]

RenderTypes ==
  /\ inbox \in Seq(Message)
  /\ serving \subseteq DocumentMessage \cup ResourceMessage
  /\ pending \subseteq Navigation
  /\ page \in Page
  /\ navs \in Nat
  /\ scripts \in Nat

(* render polls a document only after one has been shown. *)
Telling(m) == m.kind \in {"world", "snapshot"} \/ (m.kind = "navigated" /\ m.ok)

PolledAfterLoad ==
  /\ pc \in {"world", "evaluate", "sleep"} => Loaded
  /\ \A i \in DOMAIN inbox : Telling(inbox[i]) => Loaded

(* One request for the main frame at a time. *)
OneRequest ==
  /\ \A i, j \in Documents : i = j
  /\ Documents # {} => NoneServed
  /\ \A i \in Documents : ~inbox[i].refused

(* What is recorded is what the browser has been given and then shows. *)
RecordedIsShown ==
  /\ \A p \in pending : p.fulfilled => NoRequest /\ response = {p.url}
  /\ Loaded => pending = {} /\ NoRequest /\ response = {page.url}
  /\ \A i \in DOMAIN inbox : inbox[i].kind = "snapshot" => inbox[i].url = page.url
  /\ StatusOfItsDocument

StatusInv ==
  RenderTypes /\ PolledAfterLoad /\ (scripts = 0 => OneRequest /\ RecordedIsShown)

LEMMA OneMessage == \A m \in Message : <<m>> \in Seq(Message)
OBVIOUS

LEMMA StatusInvInit == RenderInit => StatusInv
<1> SUFFICES ASSUME RenderInit PROVE StatusInv
  OBVIOUS
<1> PICK start \in Starts :
      /\ inbox = <<DocumentPaused(start, 1, FALSE)>>
      /\ pending = {[url |-> start, nav |-> 1, fulfilled |-> FALSE]}
  BY DEF RenderInit
<1> start \in Urls
  BY BridgeAssumption
<1>1. RenderTypes
  <2>1. DocumentPaused(start, 1, FALSE) \in Message
    BY DEF DocumentPaused, Message, DocumentMessage
  <2>2. inbox \in Seq(Message)
    BY <2>1, OneMessage, Zenon
  <2>3. page \in Page
    <3>1. "about:blank" \in Shown
      BY Zenon DEF Shown
    <3>2. Blank \in Page
      BY <3>1 DEF Blank, Page
    <3>3. QED
      BY <3>2, Zenon DEF RenderInit
  <2>4. pending \subseteq Navigation
    <3>1. [url |-> start, nav |-> 1, fulfilled |-> FALSE] \in Navigation
      BY DEF Navigation
    <3>2. QED
      BY <3>1, Zenon
  <2>5. serving = {} /\ navs \in Nat /\ scripts \in Nat
    BY DEF RenderInit
  <2>6. QED
    BY <2>2, <2>3, <2>4, <2>5 DEF RenderTypes
<1>2. PolledAfterLoad
  BY DEF RenderInit, PolledAfterLoad, Telling, DocumentPaused
<1>3. OneRequest
  BY DEF RenderInit, OneRequest, Documents, NoneServed, DocumentPaused
<1>4. RecordedIsShown
  BY DEF RenderInit, RecordedIsShown, Loaded, Blank, StatusOfItsDocument, DocumentPaused
<1>5. QED
  BY <1>1, <1>2, <1>3, <1>4 DEF StatusInv

(* What reading a message, and sending one, does to what is unread.        *)
LEMMA TakeFacts ==
  ASSUME RenderTypes, NEW kind, Take(kind)
  PROVE  /\ inbox' \in Seq(Message)
         /\ Head(inbox) \in Message /\ Head(inbox) = inbox[1] /\ 1 \in DOMAIN inbox
         /\ Head(inbox).kind = kind
         /\ \A i \in DOMAIN inbox' : i + 1 \in DOMAIN inbox /\ inbox'[i] = inbox[i + 1]
BY DEF RenderTypes, Take

LEMMA TellFacts ==
  ASSUME RenderTypes, NEW m \in Message, Tell(m)
  PROVE  /\ inbox' \in Seq(Message)
         /\ \A i \in DOMAIN inbox' :
              \/ i \in DOMAIN inbox /\ inbox'[i] = inbox[i]
              \/ i = Len(inbox) + 1 /\ inbox'[i] = m
         /\ Len(inbox) + 1 \notin DOMAIN inbox
BY DEF RenderTypes, Tell

LEMMA LeadsFacts ==
  ASSUME RenderTypes, NEW nav, NEW url \in Urls \cup {ErrorPage}, LeadsTo(nav, url)
  PROVE  /\ pending' \subseteq Navigation
         /\ pending' = {} <=> pending = {}
         /\ \A q \in pending' : q \in pending \/ q.url = url
<1> DEFINE Led(p) == IF p.nav = nav THEN [p EXCEPT !.url = url, !.fulfilled = TRUE] ELSE p
<1>1. pending' = {Led(p) : p \in pending}
  BY DEF LeadsTo
<1>2. \A p \in pending : Led(p) \in Navigation /\ (Led(p) = p \/ Led(p).url = url)
  BY DEF RenderTypes, Navigation
<1> HIDE DEF Led
<1>3. QED
  BY <1>1, <1>2, Zenon

LEMMA PageChanged ==
  ASSUME NEW p \in Page
  PROVE  [[p EXCEPT !.dom = p.dom + 1] EXCEPT !.quiet = 0] \in Page
<1>1. \A q \in Page : [q EXCEPT !.quiet = 0] \in Page
  BY DEF Page
<1>2. [p EXCEPT !.dom = p.dom + 1] \in Page
  BY DEF Page
<1>3. QED
  BY <1>1, <1>2, Zenon

LEMMA PassesKeepsPage ==
  ASSUME RenderTypes, Passes
  PROVE  page' \in Page /\ page'.url = page.url /\ page'.nav = page.nav
BY SMTT(30), BridgeAssumption DEF RenderTypes, Passes, Later, Page

-----------------------------------------------------------------------------
(* Types. *)

LEMMA NavigateTypes ==
  ASSUME RenderTypes, NEW url \in Urls, NEW refused \in BOOLEAN, Navigate(url, refused)
  PROVE  /\ inbox' \in Seq(Message) /\ serving' = serving /\ page' = page
         /\ pending' \subseteq Navigation /\ navs' \in Nat
<1>1. DocumentPaused(url, navs + 1, refused) \in Message
  BY DEF DocumentPaused, Message, DocumentMessage, RenderTypes
<1>2. inbox' \in Seq(Message)
  BY <1>1, TellFacts DEF Navigate
<1>3. [url |-> url, nav |-> navs + 1, fulfilled |-> FALSE] \in Navigation /\ navs + 1 \in Nat
  BY DEF Navigation, RenderTypes
<1>4. QED
  BY <1>2, <1>3 DEF Navigate, bridge

LEMMA ReplyTypes ==
  ASSUME RenderTypes, NEW ok \in BOOLEAN, NavigateReply(ok)
  PROVE  inbox' \in Seq(Message)
<1>1. [kind |-> "navigated", ok |-> ok] \in Message
  BY DEF Message, ReplyMessage
<1>2. QED
  BY <1>1, TellFacts DEF NavigateReply, RenderTypes

LEMMA TypesNext == RenderTypes /\ [RenderNext]_renderVars => RenderTypes'
<1> SUFFICES ASSUME RenderTypes, [RenderNext]_renderVars PROVE RenderTypes'
  OBVIOUS
<1>1. CASE ServeDocument
  <2>1. inbox' \in Seq(Message) /\ Head(inbox) \in DocumentMessage
    BY <1>1, TakeFacts DEF ServeDocument, Message, ResourceMessage, ReplyMessage
  <2>2. serving' \subseteq DocumentMessage \cup ResourceMessage
    BY <1>1, <2>1 DEF ServeDocument, RenderTypes
  <2>3. pending' \subseteq Navigation
    BY <1>1, LeadsFacts DEF ServeDocument, RenderTypes
  <2>4. QED
    BY <1>1, <2>1, <2>2, <2>3 DEF ServeDocument, RenderTypes
<1>2. CASE ServeResource
  <2>1. inbox' \in Seq(Message) /\ Head(inbox) \in ResourceMessage
    BY <1>2, TakeFacts DEF ServeResource, Message, DocumentMessage, ReplyMessage
  <2>2. QED
    BY <1>2, <2>1 DEF ServeResource, RenderTypes, browser
<1>3. CASE FulfillDocument
  <2>1. PICK m \in serving : m.kind = "document" /\ LeadsTo(m.nav, m.url)
    BY <1>3 DEF FulfillDocument
  <2>2. m.url \in Urls
    BY <2>1 DEF RenderTypes, DocumentMessage, ResourceMessage
  <2>3. pending' \subseteq Navigation
    BY <2>1, <2>2, LeadsFacts
  <2>4. QED
    BY <1>3, <2>3 DEF FulfillDocument, RenderTypes
<1>4. CASE FulfillResource \/ RequestFails
  BY <1>4 DEF FulfillResource, RequestFails, RenderTypes, browser
<1>5. CASE Reply
  BY <1>5, TakeFacts DEF Reply, Navigated, WorldMade, Snapshot, RenderTypes, browser
<1>6. CASE Wake \/ Tick
  BY <1>6, PassesKeepsPage DEF Wake, Tick, RenderTypes
<1>7. CASE Redirect
  <2>1. PICK url \in Urls : Navigate(url, FALSE)
    BY <1>7, BridgeAssumption DEF Redirect, Redirects
  <2>2. QED
    BY <1>7, <2>1, NavigateTypes DEF Redirect, RenderTypes
<1>8. CASE Commit
  <2>1. page' \in Page
    BY <1>8 DEF Commit, Page, Shown, RenderTypes, Navigation
  <2>2. inbox' \in Seq(Message)
    BY <1>8, ReplyTypes DEF Commit
  <2>3. QED
    BY <1>8, <2>1, <2>2 DEF Commit, RenderTypes, bridge
<1>9. CASE NoContent
  BY <1>9, ReplyTypes DEF NoContent, RenderTypes, bridge
<1>10. CASE ScriptNavigates
  BY <1>10, NavigateTypes DEF ScriptNavigates, RenderTypes
<1>11. CASE RequestsResource
  <2>1. \A refused \in BOOLEAN : ResourcePaused(refused) \in Message
    BY DEF ResourcePaused, Message, ResourceMessage
  <2>2. QED
    BY <1>11, <2>1, TellFacts DEF RequestsResource, RenderTypes, bridge
<1>12. CASE Change
  <2>1. page' \in Page
    <3>1. page \in Page /\ page' = [[page EXCEPT !.dom = page.dom + 1] EXCEPT !.quiet = 0]
      BY <1>12 DEF Change, RenderTypes
    <3>2. QED
      BY <3>1, PageChanged, Zenon
  <2>2. QED
    BY <1>12, <2>1 DEF Change, RenderTypes, bridge
<1>13. CASE Answer
  <2>1. inbox' \in Seq(Message)
    <3>1. [kind |-> "world", nav |-> page.nav] \in Message
      BY DEF Message, ReplyMessage, RenderTypes, Page
    <3>2. [kind |-> "snapshot", ok |-> context = page.nav, url |-> page.url,
           nav |-> page.nav, dom |-> page.dom, quiet |-> page.quiet] \in Message
      BY DEF Message, ReplyMessage, RenderTypes, Page
    <3>3. QED
      BY <1>13, <3>1, <3>2, TellFacts DEF Answer
  <2>2. QED
    BY <1>13, <2>1 DEF Answer, RenderTypes, bridge, browser
<1>14. CASE UNCHANGED renderVars
  BY <1>14 DEF renderVars, RenderTypes
<1>15. QED
  BY <1>1, <1>2, <1>3, <1>4, <1>5, <1>6, <1>7, <1>8, <1>9, <1>10, <1>11, <1>12,
     <1>13, <1>14 DEF RenderNext, Serve, Finished, Proceed

-----------------------------------------------------------------------------
(* Polling after the load. *)

(* A document that is shown is replaced by others only. *)
LEMMA LoadedStays == RenderTypes /\ [RenderNext]_renderVars /\ Loaded => Loaded'
<1> SUFFICES ASSUME RenderTypes, [RenderNext]_renderVars, Loaded PROVE Loaded'
  OBVIOUS
<1>1. ASSUME page'.nav = page.nav PROVE Loaded'
  BY <1>1 DEF Loaded
<1>2. CASE Wake \/ Tick
  BY <1>1, <1>2, PassesKeepsPage DEF Wake, Tick
<1>3. CASE Commit
  BY <1>3 DEF Commit, RenderTypes, Navigation, Loaded
<1>4. CASE Change
  BY <1>1, <1>4 DEF Change, RenderTypes, Page
<1>5. CASE UNCHANGED page
  BY <1>1, <1>5
<1>6. QED
  BY <1>2, <1>3, <1>4, <1>5 DEF RenderNext, Serve, ServeDocument, ServeResource, Finished,
     FulfillDocument, FulfillResource, RequestFails, Reply, Navigated, WorldMade, Snapshot,
     Proceed, Redirect, NoContent, ScriptNavigates, RequestsResource, Navigate, Answer,
     browser, renderVars

LEMMA PolledNext ==
  RenderTypes /\ PolledAfterLoad /\ [RenderNext]_renderVars => PolledAfterLoad'
<1> SUFFICES ASSUME RenderTypes, PolledAfterLoad, [RenderNext]_renderVars, ~Loaded'
             PROVE  PolledAfterLoad'
  BY DEF PolledAfterLoad
<1>1. ~Loaded
  BY LoadedStays
<1>2. pc \notin {"world", "evaluate", "sleep"} /\ \A i \in DOMAIN inbox : ~Telling(inbox[i])
  BY <1>1 DEF PolledAfterLoad
<1>3. SUFFICES /\ pc' \notin {"world", "evaluate", "sleep"}
               /\ \A i \in DOMAIN inbox' : ~Telling(inbox'[i])
  BY DEF PolledAfterLoad, Telling
<1>4. ASSUME NEW kind, Take(kind)
      PROVE  ~Telling(Head(inbox)) /\ \A i \in DOMAIN inbox' : ~Telling(inbox'[i])
  BY <1>2, <1>4, TakeFacts
<1>5. ASSUME NEW m \in Message, Tell(m), ~Telling(m)
      PROVE  \A i \in DOMAIN inbox' : ~Telling(inbox'[i])
  BY <1>2, <1>5, TellFacts
<1>6. CASE Serve
  BY <1>2, <1>4, <1>6 DEF Serve, ServeDocument, ServeResource, Fail
<1>7. CASE Finished
  BY <1>2, <1>7 DEF Finished, FulfillDocument, FulfillResource, RequestFails, Fail
<1>8. CASE Reply
  <2>1. Navigated
    BY <1>4, <1>8, TakeFacts DEF Reply, WorldMade, Snapshot, Telling
  <2>2. ~Head(inbox).ok
    BY <1>4, <2>1, TakeFacts DEF Navigated, Telling
  <2>3. QED
    BY <1>4, <2>1, <2>2 DEF Navigated, Fail
<1>9. CASE Wake \/ Tick
  BY <1>2, <1>9 DEF Wake, Tick
<1>10. ASSUME NEW url \in Urls, NEW refused \in BOOLEAN, Navigate(url, refused)
       PROVE  pc' = pc /\ \A i \in DOMAIN inbox' : ~Telling(inbox'[i])
  <2>1. DocumentPaused(url, navs + 1, refused) \in Message
    BY DEF DocumentPaused, Message, DocumentMessage, RenderTypes
  <2>2. ~Telling(DocumentPaused(url, navs + 1, refused))
    BY DEF Telling, DocumentPaused
  <2>3. QED
    BY <1>5, <1>10, <2>1, <2>2 DEF Navigate, bridge
<1>11. CASE Redirect
  <2>1. PICK url \in Urls : Navigate(url, FALSE)
    BY <1>11, BridgeAssumption DEF Redirect, Redirects
  <2>2. QED
    BY <1>2, <1>10, <2>1
<1>12. CASE Commit
  BY <1>12, LoadedStays DEF Commit, RenderTypes, Navigation, Loaded
<1>13. CASE NoContent
  <2>1. [kind |-> "navigated", ok |-> FALSE] \in Message
    BY DEF Message, ReplyMessage
  <2>2. ~Telling([kind |-> "navigated", ok |-> FALSE])
    BY DEF Telling
  <2>3. QED
    BY <1>2, <1>5, <1>13, <2>1, <2>2 DEF NoContent, NavigateReply, bridge
<1>14. CASE ScriptNavigates
  BY <1>2, <1>10, <1>14 DEF ScriptNavigates
<1>15. CASE RequestsResource
  <2>1. \A refused \in BOOLEAN :
          ResourcePaused(refused) \in Message /\ ~Telling(ResourcePaused(refused))
    BY DEF ResourcePaused, Message, ResourceMessage, Telling
  <2>2. QED
    BY <1>2, <1>5, <1>15, <2>1 DEF RequestsResource, bridge
<1>16. CASE Change \/ Answer \/ UNCHANGED renderVars
  BY <1>2, <1>16 DEF Change, Answer, bridge, renderVars
<1>17. QED
  BY <1>6, <1>7, <1>8, <1>9, <1>11, <1>12, <1>13, <1>14, <1>15, <1>16
  DEF RenderNext, Proceed

-----------------------------------------------------------------------------
(* One request at a time, and what is recorded of it.                      *)

(* Nothing is read that was not sent, and what is read is gone.            *)
LEMMA TakeDocuments ==
  ASSUME RenderTypes, OneRequest, NEW kind, Take(kind)
  PROVE  /\ \A i, j \in Documents' : i = j
         /\ \A i \in Documents' : ~inbox'[i].refused
         /\ Documents' # {} => Documents # {}
         /\ kind = "document" => Documents # {} /\ Documents' = {} /\ ~Head(inbox).refused
<1>1. \A i \in Documents' : i + 1 \in Documents /\ inbox'[i] = inbox[i + 1]
  BY TakeFacts DEF Documents
<1>2. Documents' \subseteq Nat \ {0}
  BY TakeFacts DEF Documents
<1>3. kind = "document" => 1 \in Documents /\ Head(inbox) = inbox[1]
  BY TakeFacts DEF Documents
<1>4. \A i, j \in Documents : i = j
  BY DEF OneRequest
<1>5. \A i, j \in Documents' : i = j
  BY <1>1, <1>2, <1>4
<1>6. kind = "document" => Documents' = {}
  BY <1>1, <1>2, <1>3, <1>4
<1>7. QED
  BY <1>1, <1>3, <1>5, <1>6 DEF OneRequest

LEMMA TellDocuments ==
  ASSUME RenderTypes, NEW m \in Message, Tell(m)
  PROVE  /\ m.kind # "document" => /\ Documents' \subseteq Documents
                                   /\ \A i \in Documents' : inbox'[i] = inbox[i]
         /\ m.kind = "document" /\ Documents = {} =>
              \A i \in Documents' : i = Len(inbox) + 1 /\ inbox'[i] = m
BY TellFacts DEF Documents

(* A step that neither records nor navigates, loses requests at most, and  *)
(* shows what was shown.                                                   *)
LEMMA QuietStep ==
  ASSUME OneRequest, RecordedIsShown,
         pending' = pending, response' = response, report' = report,
         page'.url = page.url, page'.nav = page.nav,
         \A i, j \in Documents' : i = j,
         \A i \in Documents' : ~inbox'[i].refused,
         Documents' # {} => Documents # {},
         NoneServed => NoneServed',
         \A i \in DOMAIN inbox' : inbox'[i].kind = "snapshot" =>
           inbox'[i].url = page.url
  PROVE  OneRequest' /\ RecordedIsShown'
<1>1. OneRequest'
  BY DEF OneRequest
<1>2. NoRequest => NoRequest'
  BY DEF NoRequest
<1>3. RecordedIsShown'
  BY <1>2 DEF RecordedIsShown, Loaded, StatusOfItsDocument
<1>4. QED
  BY <1>1, <1>3

LEMMA StatusNext == StatusInv /\ [RenderNext]_renderVars => StatusInv'
<1> SUFFICES ASSUME StatusInv, [RenderNext]_renderVars PROVE StatusInv'
  OBVIOUS
<1> USE DEF StatusInv
<1>1. RenderTypes' /\ PolledAfterLoad'
  BY TypesNext, PolledNext
<1>2. SUFFICES ASSUME scripts' = 0 PROVE OneRequest' /\ RecordedIsShown'
  BY <1>1
<1>3. CASE UNCHANGED renderVars
  BY <1>2, <1>3 DEF renderVars, OneRequest, RecordedIsShown, Documents, NoneServed,
     NoRequest, Loaded, StatusOfItsDocument
<1>4. CASE ScriptNavigates
  BY <1>2, <1>4 DEF ScriptNavigates, RenderTypes
<1>5. SUFFICES ASSUME RenderNext, scripts = 0, OneRequest, RecordedIsShown
               PROVE  OneRequest' /\ RecordedIsShown'
  BY <1>2, <1>3, <1>4 DEF RenderNext, Serve, ServeDocument, ServeResource, Finished,
     FulfillDocument, FulfillResource, RequestFails, Reply, Navigated, WorldMade, Snapshot,
     Wake, Tick, Proceed, Redirect, Commit, NoContent, RequestsResource, Change, Answer,
     browser
<1>6. \A i \in DOMAIN inbox : inbox[i].kind = "snapshot" => inbox[i].url = page.url
  BY <1>5 DEF RecordedIsShown
<1>7. ASSUME NEW kind, Take(kind), page' = page
      PROVE  \A i \in DOMAIN inbox' : inbox'[i].kind = "snapshot" => inbox'[i].url = page.url
  BY <1>6, <1>7, TakeFacts
<1>8. CASE ServeDocument
  <2>1. Take("document")
    BY <1>8 DEF ServeDocument
  <2>2. Documents # {} /\ Documents' = {} /\ ~Head(inbox).refused
    BY <1>5, <2>1, TakeDocuments
  <2>3. NoneServed /\ ~Loaded /\ \A p \in pending : ~p.fulfilled
    BY <1>5, <2>2 DEF OneRequest, RecordedIsShown, NoRequest
  <2>4. pending' = pending /\ response' = response /\ report' = report /\ page' = page
    BY <1>8, <2>2 DEF ServeDocument, polling
  <2>5. OneRequest'
    BY <2>2 DEF OneRequest
  <2>6. RecordedIsShown'
    BY <1>5, <1>7, <2>1, <2>3, <2>4 DEF RecordedIsShown, Loaded, StatusOfItsDocument
  <2>7. QED
    BY <2>5, <2>6
<1>9. CASE ServeResource
  <2>1. Take("resource") /\ UNCHANGED <<pending, response, report, page>>
    BY <1>9 DEF ServeResource, polling, browser
  <2>2. NoneServed => NoneServed'
    <3>1. serving' = serving \/ serving' = {Head(inbox)}
      BY <1>9 DEF ServeResource
    <3>2. Head(inbox).kind # "document"
      BY <2>1, TakeFacts
    <3>3. QED
      BY <3>1, <3>2 DEF NoneServed
  <2>3. QED
    BY <1>5, <1>7, <2>1, <2>2, TakeDocuments, QuietStep
<1>10. CASE FulfillDocument
  <2>1. PICK m \in serving :
          /\ m.kind = "document" /\ serving' = {} /\ response' = {m.url}
          /\ LeadsTo(m.nav, m.url)
          /\ UNCHANGED <<inbox, page, report>>
    BY <1>10 DEF FulfillDocument, Recorded, polling
  <2>2. Documents = {} /\ ~Loaded /\ \A p \in pending : ~p.fulfilled
    BY <1>5, <2>1 DEF OneRequest, RecordedIsShown, NoRequest, NoneServed
  <2>3. m.url \in Urls
    BY <2>1 DEF RenderTypes, DocumentMessage, ResourceMessage
  <2>4. \A q \in pending' : q \in pending \/ q.url = m.url
    BY <2>1, <2>3, LeadsFacts
  <2>5. NoRequest' /\ Documents' = {}
    BY <2>1, <2>2 DEF NoRequest, Documents, NoneServed
  <2>6. OneRequest'
    BY <2>5 DEF OneRequest
  <2>7. RecordedIsShown'
    BY <1>5, <2>1, <2>2, <2>4, <2>5 DEF RecordedIsShown, Loaded, StatusOfItsDocument
  <2>8. QED
    BY <2>6, <2>7
<1>11. CASE FulfillResource \/ RequestFails
  <2>1. serving' = {} /\ UNCHANGED <<inbox, pending, response, report, page>>
    BY <1>11 DEF FulfillResource, RequestFails, polling, browser
  <2>2. Documents' = Documents /\ NoneServed'
    BY <2>1 DEF Documents, NoneServed
  <2>3. QED
    BY <1>5, <1>6, <2>1, <2>2, QuietStep DEF OneRequest
<1>12. CASE Navigated \/ WorldMade
  <2>1. PICK kind \in {"navigated", "world"} : Take(kind)
    BY <1>12 DEF Navigated, WorldMade
  <2>2. UNCHANGED <<serving, pending, response, report, page>>
    BY <1>12 DEF Navigated, WorldMade, polling, browser
  <2>3. NoneServed' <=> NoneServed
    BY <2>2 DEF NoneServed
  <2>4. QED
    BY <1>5, <1>7, <2>1, <2>2, <2>3, TakeDocuments, QuietStep
<1>13. CASE Snapshot
  <2>1. Take("snapshot") /\ UNCHANGED <<serving, pending, response, page>>
    BY <1>13 DEF Snapshot, browser
  <2>2. 1 \in DOMAIN inbox /\ Head(inbox) = inbox[1] /\ Head(inbox).kind = "snapshot"
    BY <2>1, TakeFacts
  <2>3. Loaded /\ Head(inbox).url = page.url
    BY <1>6, <2>2 DEF PolledAfterLoad, Telling
  <2>4. response = {Head(inbox).url}
    BY <1>5, <2>3 DEF RecordedIsShown
  <2>5. StatusOfItsDocument'
    BY <1>5, <1>13, <2>4 DEF Snapshot, RecordedIsShown, StatusOfItsDocument
  <2>6. OneRequest' /\ (NoRequest => NoRequest')
    BY <1>5, <2>1, TakeDocuments DEF OneRequest, NoneServed, NoRequest
  <2>7. RecordedIsShown'
    BY <1>5, <1>7, <2>1, <2>5, <2>6 DEF RecordedIsShown, Loaded
  <2>8. QED
    BY <2>6, <2>7
<1>14. CASE Wake \/ Tick \/ Change
  <2>1. UNCHANGED <<inbox, serving, pending, response, report>>
    BY <1>14 DEF Wake, Tick, Change, bridge
  <2>2. page'.url = page.url /\ page'.nav = page.nav
    BY <1>14, PassesKeepsPage DEF Wake, Tick, Change, RenderTypes, Page
  <2>3. Documents' = Documents /\ (NoneServed' <=> NoneServed)
    BY <2>1 DEF Documents, NoneServed
  <2>4. QED
    BY <1>5, <1>6, <2>1, <2>2, <2>3, QuietStep DEF OneRequest
<1>15. CASE Redirect
  <2>1. PICK p \in pending, url \in Urls : p.fulfilled /\ Navigate(url, FALSE)
    BY <1>15, BridgeAssumption DEF Redirect, Redirects
  <2>2. NoRequest /\ ~Loaded
    BY <1>5, <2>1 DEF RecordedIsShown
  <2> DEFINE m == DocumentPaused(url, navs + 1, FALSE)
  <2>3. m \in Message /\ m.kind = "document" /\ ~m.refused
    BY DEF DocumentPaused, Message, DocumentMessage, RenderTypes
  <2>4. Tell(m) /\ UNCHANGED <<serving, response, report, page>>
    BY <2>1 DEF Navigate, bridge
  <2>5. \A q \in pending' : ~q.fulfilled
    BY <2>1 DEF Navigate
  <2> HIDE DEF m
  <2>6. \A i \in Documents' : i = Len(inbox) + 1 /\ inbox'[i] = m
    BY <2>2, <2>3, <2>4, TellDocuments DEF NoRequest
  <2>7. OneRequest'
    BY <2>2, <2>3, <2>4, <2>6 DEF OneRequest, NoRequest, NoneServed
  <2>8. \A i \in DOMAIN inbox' : inbox'[i].kind = "snapshot" => inbox'[i].url = page.url
    BY <1>6, <2>3, <2>4, TellFacts
  <2>9. RecordedIsShown'
    BY <1>5, <2>2, <2>4, <2>5, <2>8 DEF RecordedIsShown, Loaded, StatusOfItsDocument
  <2>10. QED
    BY <2>7, <2>9
<1>16. CASE Commit \/ NoContent
  <2>1. PICK ok \in BOOLEAN : NavigateReply(ok)
    BY <1>16 DEF Commit, NoContent
  <2>2. PICK p \in pending :
          p.fulfilled /\ (page' = page \/ page'.url = p.url)
    <3>1. CASE Commit
      BY <3>1 DEF Commit
    <3>2. CASE NoContent
      BY <3>2 DEF NoContent
    <3>3. QED
      BY <1>16, <3>1, <3>2
  <2>3. NoRequest /\ ~Loaded /\ response = {p.url}
    BY <1>5, <2>2 DEF RecordedIsShown
  <2>4. pending' = {} /\ UNCHANGED <<serving, response, report>>
    BY <1>16 DEF Commit, NoContent, bridge
  <2>5. [kind |-> "navigated", ok |-> ok] \in Message
    BY DEF Message, ReplyMessage
  <2>6. \A i \in DOMAIN inbox' :
          \/ i \in DOMAIN inbox /\ inbox'[i] = inbox[i]
          \/ inbox'[i] = [kind |-> "navigated", ok |-> ok]
    BY <2>1, <2>5, TellFacts DEF NavigateReply
  <2>7. Documents' = {} /\ NoRequest'
    BY <2>3, <2>4, <2>6 DEF Documents, NoRequest, NoneServed
  <2>8. \A i \in DOMAIN inbox' : inbox'[i].kind # "snapshot"
    BY <2>3, <2>6 DEF PolledAfterLoad, Telling
  <2>9. OneRequest'
    BY <2>7 DEF OneRequest
  <2>10. RecordedIsShown'
    BY <1>5, <2>2, <2>3, <2>4, <2>7, <2>8 DEF RecordedIsShown, Loaded, StatusOfItsDocument
  <2>11. QED
    BY <2>9, <2>10
<1>17. CASE RequestsResource \/ Answer
  <2>1. PICK m \in Message :
          Tell(m) /\ m.kind # "document" /\ (m.kind = "snapshot" => m.url = page.url)
    <3>1. \A refused \in BOOLEAN :
            ResourcePaused(refused) \in Message /\ ResourcePaused(refused).kind = "resource"
      BY DEF ResourcePaused, Message, ResourceMessage
    <3>2. [kind |-> "world", nav |-> page.nav] \in Message
      BY DEF Message, ReplyMessage, RenderTypes, Page
    <3>3. [kind |-> "snapshot", ok |-> context = page.nav, url |-> page.url,
           nav |-> page.nav, dom |-> page.dom, quiet |-> page.quiet] \in Message
      BY DEF Message, ReplyMessage, RenderTypes, Page
    <3>4. QED
      BY <1>17, <3>1, <3>2, <3>3 DEF RequestsResource, Answer
  <2>2. UNCHANGED <<serving, pending, response, report, page>>
    BY <1>17 DEF RequestsResource, Answer, bridge, browser
  <2>3. Documents' \subseteq Documents /\ \A i \in Documents' : inbox'[i] = inbox[i]
    BY <2>1, TellDocuments
  <2>4. NoneServed' <=> NoneServed
    BY <2>2 DEF NoneServed
  <2>5. \A i \in DOMAIN inbox' : inbox'[i].kind = "snapshot" => inbox'[i].url = page.url
    BY <1>6, <2>1, TellFacts
  <2>6. QED
    BY <1>5, <2>2, <2>3, <2>4, <2>5, QuietStep DEF OneRequest
<1>18. QED
  BY <1>4, <1>5, <1>8, <1>9, <1>10, <1>11, <1>12, <1>13, <1>14, <1>15, <1>16, <1>17, <1>2
  DEF RenderNext, Serve, Finished, Reply, Proceed

(* README: "FetchReport retains the HTTP status and final URL". Whatever   *)
(* redirects lead to the document and whatever it requests, the status is  *)
(* of the document the body is of, as long as no script navigates.         *)
THEOREM StatusIsOfTheBody == RenderSpec => []StatusUntilScriptNavigates
<1>1. StatusInv => StatusUntilScriptNavigates
  BY DEF StatusInv, RecordedIsShown, StatusUntilScriptNavigates
<1>2. QED
  BY <1>1, StatusInvInit, StatusNext, PTL DEF RenderSpec

-----------------------------------------------------------------------------
(* Replies.                                                                *)

Replies == {i \in DOMAIN inbox : inbox[i].kind \in {"navigated", "world", "snapshot"}}

(* A call is answered once, and render sleeps with nothing to come.        *)
OneReply ==
  /\ \A i, j \in Replies : i = j
  /\ asked \/ pc = "sleep" => Replies = {}

LEMMA TakeReplies ==
  ASSUME RenderTypes, OneReply, NEW kind, Take(kind)
  PROVE  /\ \A i, j \in Replies' : i = j
         /\ Replies' # {} => Replies # {}
         /\ kind \in {"navigated", "world", "snapshot"} => Replies' = {}
<1>1. \A i \in Replies' : i + 1 \in Replies
  BY TakeFacts DEF Replies
<1>2. Replies' \subseteq Nat \ {0}
  BY TakeFacts DEF Replies
<1>3. kind \in {"navigated", "world", "snapshot"} => 1 \in Replies
  BY TakeFacts DEF Replies
<1>4. \A i, j \in Replies : i = j
  BY DEF OneReply
<1>5. \A i, j \in Replies' : i = j
  BY <1>1, <1>2, <1>4
<1>6. 1 \in Replies => Replies' = {}
  BY <1>1, <1>2, <1>4
<1>7. Replies' # {} => Replies # {}
  BY <1>1, Zenon
<1>8. QED
  BY <1>3, <1>5, <1>6, <1>7

LEMMA TellReplies ==
  ASSUME RenderTypes, NEW m \in Message, Tell(m)
  PROVE  /\ m.kind \in {"document", "resource"} => Replies' \subseteq Replies
         /\ Replies = {} => \A i, j \in Replies' : i = j
BY TellFacts DEF Replies

LEMMA OneReplyNext == RenderTypes /\ OneReply /\ [RenderNext]_renderVars => OneReply'
<1> SUFFICES ASSUME RenderTypes, OneReply, [RenderNext]_renderVars PROVE OneReply'
  OBVIOUS
<1>1. ASSUME Replies' \subseteq Replies, asked' => asked, pc' = "sleep" => pc = "sleep"
      PROVE  OneReply'
  BY <1>1 DEF OneReply
<1>2. CASE Serve
  <2>1. PICK kind \in {"document", "resource"} : Take(kind)
    BY <1>2 DEF Serve, ServeDocument, ServeResource
  <2>2. asked' = asked /\ (pc' = pc \/ pc' = "failed")
    BY <1>2 DEF Serve, ServeDocument, ServeResource, Fail
  <2>3. QED
    BY <2>1, <2>2, TakeReplies DEF OneReply
<1>3. CASE Finished
  <2>1. inbox' = inbox /\ asked' = asked /\ (pc' = pc \/ pc' = "failed")
    BY <1>3 DEF Finished, FulfillDocument, FulfillResource, RequestFails, Fail
  <2>2. QED
    BY <1>1, <2>1 DEF Replies
<1>4. CASE Reply
  <2>1. PICK kind \in {"navigated", "world", "snapshot"} : Take(kind)
    BY <1>4 DEF Reply, Navigated, WorldMade, Snapshot
  <2>2. Replies' = {}
    BY <2>1, TakeReplies
  <2>3. QED
    BY <2>2 DEF OneReply
<1>5. CASE Wake \/ Tick
  <2>1. Replies' = Replies
    BY <1>5 DEF Wake, Tick, Replies
  <2>2. QED
    BY <1>5, <2>1 DEF Wake, Tick, Ask, OneReply
<1>6. ASSUME NEW url \in Urls, NEW refused \in BOOLEAN, Navigate(url, refused) PROVE OneReply'
  <2>1. /\ DocumentPaused(url, navs + 1, refused) \in Message
        /\ DocumentPaused(url, navs + 1, refused).kind = "document"
    BY DEF DocumentPaused, Message, DocumentMessage, RenderTypes
  <2>2. QED
    BY <1>1, <1>6, <2>1, TellReplies DEF Navigate, bridge
<1>7. CASE Redirect
  <2>1. PICK url \in Urls : Navigate(url, FALSE)
    BY <1>7, BridgeAssumption DEF Redirect, Redirects
  <2>2. QED
    BY <1>6, <2>1
<1>8. CASE ScriptNavigates
  BY <1>6, <1>8 DEF ScriptNavigates
<1>9. CASE Commit \/ NoContent
  <2>1. PICK ok \in BOOLEAN : NavigateReply(ok)
    BY <1>9 DEF Commit, NoContent
  <2>2. pc' = pc
    BY <1>9 DEF Commit, NoContent, bridge
  <2>3. [kind |-> "navigated", ok |-> ok] \in Message
    BY DEF Message, ReplyMessage
  <2>4. CASE UNCHANGED <<inbox, asked>>
    BY <1>1, <2>2, <2>4 DEF Replies
  <2>5. CASE ~UNCHANGED <<inbox, asked>>
    <3>1. asked /\ pc = "navigate" /\ asked' = FALSE /\ Tell([kind |-> "navigated", ok |-> ok])
      BY <2>1, <2>5 DEF NavigateReply
    <3>2. \A i, j \in Replies' : i = j
      BY <2>3, <3>1, TellReplies DEF OneReply
    <3>3. QED
      BY <2>2, <3>1, <3>2 DEF OneReply
  <2>6. QED
    BY <2>4, <2>5
<1>10. CASE RequestsResource
  <2>1. PICK refused \in BOOLEAN : Tell(ResourcePaused(refused))
    BY <1>10 DEF RequestsResource
  <2>2. ResourcePaused(refused) \in Message /\ ResourcePaused(refused).kind = "resource"
    BY DEF ResourcePaused, Message, ResourceMessage
  <2>3. QED
    BY <1>1, <1>10, <2>1, <2>2, TellReplies DEF RequestsResource, bridge
<1>11. CASE Answer
  <2>1. PICK m \in Message : Tell(m)
    <3>1. [kind |-> "world", nav |-> page.nav] \in Message
      BY DEF Message, ReplyMessage, RenderTypes, Page
    <3>2. [kind |-> "snapshot", ok |-> context = page.nav, url |-> page.url,
           nav |-> page.nav, dom |-> page.dom, quiet |-> page.quiet] \in Message
      BY DEF Message, ReplyMessage, RenderTypes, Page
    <3>3. QED
      BY <1>11, <3>1, <3>2 DEF Answer
  <2>2. asked /\ asked' = FALSE /\ pc # "sleep" /\ pc' = pc
    BY <1>11 DEF Answer, bridge
  <2>3. QED
    BY <2>1, <2>2, TellReplies DEF OneReply
<1>12. CASE Change \/ UNCHANGED renderVars
  <2>1. UNCHANGED <<inbox, asked, pc>>
    BY <1>12 DEF Change, bridge, renderVars
  <2>2. QED
    BY <1>1, <2>1 DEF Replies
<1>13. QED
  BY <1>2, <1>3, <1>4, <1>5, <1>7, <1>8, <1>9, <1>10, <1>11, <1>12 DEF RenderNext, Proceed

-----------------------------------------------------------------------------
(* Time without a change.                                                  *)

Snapshots == {i \in DOMAIN inbox : inbox[i].kind = "snapshot"}

(* Of the document in the frame, not later than now, or of one before it. *)
Past(nav, dom) == nav < page.nav \/ (nav = page.nav /\ dom <= page.dom)

(* Documents come in the order of their navigations, and nothing is known  *)
(* of one that is to come.                                                 *)
InOrder ==
  /\ page.nav <= navs
  /\ \A p \in pending : page.nav < p.nav /\ p.nav <= navs
  /\ \A h \in previous : \E n, d \in Nat : h = <<n, d>> /\ Past(n, d)
  /\ \A i \in Snapshots : Past(inbox[i].nav, inbox[i].dom)

(* The document has been quiet at least as long as render believes of the  *)
(* last snapshot, and of the one it has not read yet, less what that one   *)
(* waits.                                                                  *)
Believed ==
  /\ <<page.nav, page.dom>> \in previous => stable <= page.quiet
  /\ \A i \in Snapshots :
       <<inbox[i].nav, inbox[i].dom>> \in previous => stable <= inbox[i].quiet + late
  /\ Snapshots = {} => late = 0
  /\ SettledButForTheWait

SettledInv ==
  /\ RenderTypes
  /\ OneReply
  /\ stable \in Nat /\ late \in Nat
  /\ InOrder
  /\ Believed

LEMMA SettledInvInit == RenderInit => SettledInv
<1> SUFFICES ASSUME RenderInit PROVE SettledInv
  OBVIOUS
<1>1. RenderTypes
  BY StatusInvInit DEF StatusInv
<1>2. PICK start :
        /\ inbox = <<DocumentPaused(start, 1, FALSE)>>
        /\ pending = {[url |-> start, nav |-> 1, fulfilled |-> FALSE]}
  BY DEF RenderInit
<1>3. DOMAIN inbox = {1} /\ inbox[1].kind = "document"
  BY <1>2 DEF DocumentPaused
<1>4. OneReply
  BY <1>3 DEF OneReply, Replies
<1>5. Snapshots = {}
  BY <1>3 DEF Snapshots
<1>6. InOrder
  BY <1>2, <1>5 DEF RenderInit, InOrder, Blank
<1>7. Believed
  BY <1>5 DEF RenderInit, Believed, SettledButForTheWait
<1>8. QED
  BY <1>1, <1>4, <1>6, <1>7 DEF SettledInv, RenderInit

LEMMA TakeSnapshots ==
  ASSUME RenderTypes, NEW kind, Take(kind)
  PROVE  /\ \A i \in Snapshots' : \E j \in Snapshots : inbox'[i] = inbox[j]
         /\ kind # "snapshot" /\ Snapshots' = {} => Snapshots = {}
<1>1. \A i \in Snapshots' : \E j \in Snapshots : inbox'[i] = inbox[j]
  BY TakeFacts DEF Snapshots
<1>2. ASSUME kind # "snapshot", NEW j \in Snapshots PROVE j - 1 \in Snapshots'
  <2>1. j \in DOMAIN inbox /\ inbox[j].kind = "snapshot" /\ inbox \in Seq(Message)
    BY DEF Snapshots, RenderTypes
  <2>2. j # 1
    BY <1>2, <2>1 DEF Take
  <2>3. j - 1 \in DOMAIN inbox' /\ inbox'[j - 1] = inbox[j]
    BY <2>1, <2>2 DEF Take
  <2>4. QED
    BY <2>1, <2>3 DEF Snapshots
<1>3. QED
  BY <1>1, <1>2

LEMMA TellSnapshots ==
  ASSUME RenderTypes, NEW m \in Message, Tell(m)
  PROVE  /\ \A i \in Snapshots' : \/ \E j \in Snapshots : inbox'[i] = inbox[j]
                                  \/ inbox'[i] = m /\ m.kind = "snapshot"
         /\ Snapshots \subseteq Snapshots'
<1>1. \A i \in Snapshots' : \/ \E j \in Snapshots : inbox'[i] = inbox[j]
                            \/ inbox'[i] = m /\ m.kind = "snapshot"
  BY TellFacts DEF Snapshots
<1>2. Snapshots \subseteq Snapshots'
  <2>1. inbox \in Seq(Message)
    BY DEF RenderTypes
  <2>2. \A j \in DOMAIN inbox : j \in DOMAIN inbox' /\ inbox'[j] = inbox[j]
    BY <2>1 DEF Tell
  <2>3. QED
    BY <2>2 DEF Snapshots
<1>3. QED
  BY <1>1, <1>2

(* A step that leaves the document and what render believes alone.         *)
LEMMA BelievedStays ==
  ASSUME InOrder, Believed, UNCHANGED <<page, previous, stable, late, report>>,
         \A i \in Snapshots' : \E j \in Snapshots : inbox'[i] = inbox[j],
         Snapshots' = {} => Snapshots = {},
         page.nav <= navs', \A p \in pending' : page.nav < p.nav /\ p.nav <= navs'
  PROVE  InOrder' /\ Believed'
<1>1. InOrder'
  BY DEF InOrder, Past
<1>2. Believed'
  BY DEF Believed, SettledButForTheWait
<1>3. QED
  BY <1>1, <1>2

(* What a snapshot says is enough for what render makes of it.             *)
LEMMA SnapshotBelieved ==
  ASSUME SettledInv, Snapshot
  PROVE  stable' \in Nat /\ late' \in Nat /\ InOrder' /\ Believed'
<1> DEFINE m == Head(inbox)
<1>1. Take("snapshot") /\ UNCHANGED <<page, navs, pending>> /\ late' = 0
  BY DEF Snapshot, browser
<1>2. 1 \in Snapshots /\ m = inbox[1] /\ m \in Message /\ m.kind = "snapshot"
  BY <1>1, TakeFacts DEF Snapshots, SettledInv
<1>3. Snapshots' = {}
  BY <1>1, TakeReplies DEF Snapshots, Replies, SettledInv
<1>4. Past(m.nav, m.dom)
  BY <1>2 DEF SettledInv, InOrder
<1>5. Html(m) = previous => stable <= m.quiet + late
  BY <1>2 DEF SettledInv, Believed, Html
<1>6. /\ m.nav \in Nat /\ m.dom \in Nat /\ m.quiet \in Nat
      /\ page.nav \in Nat /\ page.dom \in Nat /\ page.quiet \in Nat
      /\ stable \in Nat /\ late \in Nat
  BY <1>2 DEF Message, DocumentMessage, ResourceMessage, ReplyMessage, SettledInv, RenderTypes,
              Page
<1>7. previous' = previous \/ previous' = {} \/ previous' = Html(m)
  BY DEF Snapshot
<1>8. InOrder'
  BY <1>1, <1>3, <1>4, <1>6, <1>7 DEF SettledInv, InOrder, Past, Html
<1> HIDE DEF m
<1>9. CASE UNCHANGED <<previous, stable, report>>
  BY <1>1, <1>3, <1>6, <1>8, <1>9 DEF SettledInv, Believed, SettledButForTheWait
<1>10. CASE previous' = {} /\ stable' = 0 /\ UNCHANGED report
  BY <1>1, <1>3, <1>8, <1>10 DEF SettledInv, Believed, SettledButForTheWait
<1>11. Age(m) \in Nat /\ (<<page.nav, page.dom>> \in Html(m) => Age(m) <= page.quiet)
  BY <1>6 DEF Age, SettledInv, Believed
<1>12. CASE previous' = Html(m) /\ stable' = Age(m) /\ UNCHANGED report
  BY <1>1, <1>3, <1>8, <1>11, <1>12 DEF SettledInv, Believed, SettledButForTheWait
<1>13. CASE /\ previous' = Html(m) /\ stable' = Age(m) /\ Age(m) >= Settle
            /\ report' = {[url |-> m.url, status |-> r, quiet |-> m.quiet, late |-> late]
                          : r \in response}
  <2>1. Age(m) <= m.quiet + late
    BY <1>5, <1>6 DEF Age
  <2>2. m.quiet + late >= Settle
    BY <1>6, <1>11, <1>13, <2>1, BridgeAssumption
  <2>3. SettledButForTheWait'
    BY <1>13, <2>2 DEF SettledButForTheWait
  <2>4. QED
    BY <1>1, <1>3, <1>8, <1>11, <1>13, <2>3 DEF Believed
<1>14. QED
  BY <1>9, <1>10, <1>12, <1>13 DEF Snapshot, m

(* The document, what render believes and a waiting snapshot age alike. *)
LEMMA PassesBelieved ==
  ASSUME SettledInv, Passes, UNCHANGED <<inbox, previous, report, navs, pending>>
  PROVE  stable' \in Nat /\ late' \in Nat /\ InOrder' /\ Believed'
<1>1. /\ page \in Page /\ Settle \in Nat /\ stable \in Nat /\ late \in Nat
      /\ page' = [page EXCEPT !.quiet = Later(page.quiet)] /\ stable' = Later(stable)
      /\ late' = IF Snapshots # {} THEN Later(late) ELSE late
  BY BridgeAssumption DEF SettledInv, RenderTypes, Passes, SnapshotWaits, Snapshots
<1>2. /\ page'.nav = page.nav /\ page'.dom = page.dom /\ page'.quiet = Later(page.quiet)
      /\ page.quiet \in Nat
  BY <1>1 DEF Page
<1>3. stable' \in Nat /\ late' \in Nat
  BY <1>1 DEF Later
<1>4. stable <= page.quiet => stable' <= page'.quiet
  BY <1>1, <1>2 DEF Later
<1>5. Snapshots' = Snapshots
  BY DEF Snapshots
<1>6. InOrder'
  BY <1>2, <1>5 DEF SettledInv, InOrder, Past, Snapshots
<1>7. ASSUME NEW i \in Snapshots, stable <= inbox[i].quiet + late
      PROVE  stable' <= inbox[i].quiet + late'
  <2>1. inbox[i].quiet \in Nat
    BY DEF Snapshots, SettledInv, RenderTypes, Message, DocumentMessage, ResourceMessage,
           ReplyMessage
  <2>2. QED
    BY <1>1, <1>7, <2>1 DEF Later
<1>8. Believed'
  BY <1>1, <1>2, <1>4, <1>5, <1>7 DEF SettledInv, Believed, SettledButForTheWait, Snapshots
<1>9. QED
  BY <1>3, <1>6, <1>8

LEMMA SettledNext == SettledInv /\ [RenderNext]_renderVars => SettledInv'
<1> SUFFICES ASSUME SettledInv, [RenderNext]_renderVars PROVE SettledInv'
  OBVIOUS
<1>1. /\ RenderTypes /\ OneReply /\ InOrder /\ Believed
      /\ stable \in Nat /\ late \in Nat /\ navs \in Nat /\ page.nav \in Nat
  BY DEF SettledInv, RenderTypes, Page
<1>2. RenderTypes' /\ OneReply'
  BY <1>1, TypesNext, OneReplyNext
<1>3. SUFFICES stable' \in Nat /\ late' \in Nat /\ InOrder' /\ Believed'
  BY <1>2 DEF SettledInv
<1>4. CASE UNCHANGED renderVars
  BY <1>1, <1>4 DEF renderVars, InOrder, Past, Believed, Snapshots, SettledButForTheWait
(* What leads somewhere keeps its number. *)
<1>5. ASSUME NEW nav, NEW url, LeadsTo(nav, url)
      PROVE  \A p \in pending' : page.nav < p.nav /\ p.nav <= navs
  <2>1. \A p \in pending : p.nav = [p EXCEPT !.url = url, !.fulfilled = TRUE].nav
    BY <1>1 DEF RenderTypes, Navigation
  <2>2. QED
    BY <1>1, <1>5, <2>1 DEF LeadsTo, InOrder
<1>6. CASE Serve
  <2>1. PICK kind \in {"document", "resource"} : Take(kind)
    BY <1>6 DEF Serve, ServeDocument, ServeResource
  <2>2. UNCHANGED <<page, previous, stable, late, report, navs>>
    BY <1>6 DEF Serve, ServeDocument, ServeResource, polling, browser
  <2>3. \A p \in pending' : page.nav < p.nav /\ p.nav <= navs
    BY <1>1, <1>5, <1>6 DEF Serve, ServeDocument, ServeResource, browser, InOrder
  <2>4. QED
    BY <1>1, <2>1, <2>2, <2>3, TakeSnapshots, BelievedStays DEF InOrder
<1>7. CASE Finished
  <2>1. UNCHANGED <<inbox, page, previous, stable, late, report, navs>>
    BY <1>7 DEF Finished, FulfillDocument, FulfillResource, RequestFails, polling, browser
  <2>2. \A p \in pending' : page.nav < p.nav /\ p.nav <= navs
    BY <1>1, <1>5, <1>7 DEF Finished, FulfillDocument, FulfillResource, RequestFails, browser,
                            InOrder
  <2>3. Snapshots' = Snapshots
    BY <2>1 DEF Snapshots
  <2>4. QED
    BY <1>1, <2>1, <2>2, <2>3, BelievedStays DEF InOrder
<1>8. CASE Navigated \/ WorldMade
  <2>1. PICK kind \in {"navigated", "world"} : Take(kind)
    BY <1>8 DEF Navigated, WorldMade
  <2>2. UNCHANGED <<page, previous, stable, late, report, navs, pending>>
    BY <1>8 DEF Navigated, WorldMade, polling, browser
  <2>3. QED
    BY <1>1, <2>1, <2>2, TakeSnapshots, BelievedStays DEF InOrder
<1>9. CASE Snapshot
  BY <1>9, SnapshotBelieved
<1>10. CASE Wake \/ Tick
  BY <1>10, PassesBelieved DEF Wake, Tick
<1>11. ASSUME NEW url \in Urls, NEW refused \in BOOLEAN, Navigate(url, refused)
       PROVE  stable' \in Nat /\ late' \in Nat /\ InOrder' /\ Believed'
  <2>1. /\ DocumentPaused(url, navs + 1, refused) \in Message
        /\ DocumentPaused(url, navs + 1, refused).kind = "document"
    BY <1>1 DEF DocumentPaused, Message, DocumentMessage
  <2>2. /\ Tell(DocumentPaused(url, navs + 1, refused))
        /\ UNCHANGED <<page, previous, stable, late, report>>
        /\ navs' = navs + 1
        /\ pending' = {[url |-> url, nav |-> navs + 1, fulfilled |-> FALSE]}
    BY <1>11 DEF Navigate, bridge
  <2>3. page.nav <= navs' /\ \A p \in pending' : page.nav < p.nav /\ p.nav <= navs'
    BY <1>1, <2>2 DEF InOrder
  <2>4. /\ \A i \in Snapshots' : \E j \in Snapshots : inbox'[i] = inbox[j]
        /\ Snapshots' = {} => Snapshots = {}
    BY <1>1, <2>1, <2>2, TellSnapshots
  <2>5. QED
    BY <1>1, <2>2, <2>3, <2>4, BelievedStays
<1>12. CASE Redirect
  BY <1>11, <1>12, BridgeAssumption DEF Redirect, Redirects
<1>13. CASE ScriptNavigates
  BY <1>11, <1>13 DEF ScriptNavigates
<1>14. CASE Commit \/ NoContent
  <2>1. PICK ok \in BOOLEAN : NavigateReply(ok)
    BY <1>14 DEF Commit, NoContent
  <2>2. UNCHANGED <<previous, stable, late, report, navs>> /\ pending' = {}
    BY <1>14 DEF Commit, NoContent, bridge
  <2>3. /\ [kind |-> "navigated", ok |-> ok] \in Message
        /\ [kind |-> "navigated", ok |-> ok].kind = "navigated"
    BY DEF Message, ReplyMessage
  <2>4. /\ \A i \in Snapshots' : \E j \in Snapshots : inbox'[i] = inbox[j]
        /\ Snapshots' = {} => Snapshots = {}
    <3>1. CASE UNCHANGED inbox
      BY <3>1 DEF Snapshots
    <3>2. CASE Tell([kind |-> "navigated", ok |-> ok])
      BY <1>1, <2>3, <3>2, TellSnapshots
    <3>3. QED
      BY <2>1, <3>1, <3>2 DEF NavigateReply
  <2>5. CASE page' = page
    BY <1>1, <2>2, <2>4, <2>5, BelievedStays DEF InOrder
  <2>6. CASE page' # page
    <3>1. PICK p \in pending : page' = [url |-> p.url, nav |-> p.nav, dom |-> 0, quiet |-> 0]
      BY <1>14, <2>6 DEF Commit, NoContent
    <3>2. page'.nav = p.nav /\ page.nav < p.nav /\ p.nav <= navs /\ p.nav \in Nat
      BY <1>1, <3>1 DEF InOrder, RenderTypes, Navigation
    <3>3. \A n, d \in Nat : Past(n, d) => n < page'.nav
      BY <1>1, <3>2 DEF Past
    <3>4. \A h \in previous : \E n, d \in Nat : h = <<n, d>> /\ n < page'.nav
      BY <1>1, <3>3 DEF InOrder
    <3>5. \A i \in Snapshots : inbox[i].nav < page'.nav
      <4>1. \A i \in Snapshots : inbox[i].nav \in Nat /\ inbox[i].dom \in Nat
        BY <1>1 DEF Snapshots, RenderTypes, Message, DocumentMessage, ResourceMessage,
                    ReplyMessage
      <4>2. QED
        BY <1>1, <3>3, <4>1 DEF InOrder
    <3>6. InOrder'
      BY <2>2, <2>4, <3>2, <3>4, <3>5 DEF InOrder, Past
    <3>7. <<page'.nav, page'.dom>> \notin previous
      BY <3>2, <3>4
    <3>8. Believed'
      BY <1>1, <2>2, <2>4, <3>7 DEF Believed, SettledButForTheWait
    <3>9. QED
      BY <1>1, <2>2, <3>6, <3>8
  <2>7. QED
    BY <2>5, <2>6
<1>15. CASE RequestsResource
  <2>1. PICK refused \in BOOLEAN : Tell(ResourcePaused(refused))
    BY <1>15 DEF RequestsResource
  <2>2. ResourcePaused(refused) \in Message /\ ResourcePaused(refused).kind = "resource"
    BY DEF ResourcePaused, Message, ResourceMessage
  <2>3. UNCHANGED <<page, previous, stable, late, report, navs, pending>>
    BY <1>15 DEF RequestsResource, bridge
  <2>4. /\ \A i \in Snapshots' : \E j \in Snapshots : inbox'[i] = inbox[j]
        /\ Snapshots' = {} => Snapshots = {}
    BY <1>1, <2>1, <2>2, TellSnapshots
  <2>5. QED
    BY <1>1, <2>3, <2>4, BelievedStays DEF InOrder
<1>16. CASE Change
  <2>1. UNCHANGED <<inbox, previous, stable, late, report, navs, pending>>
    BY <1>16 DEF Change, bridge
  <2>2. page \in Page /\ page' = [[page EXCEPT !.dom = page.dom + 1] EXCEPT !.quiet = 0]
    BY <1>1, <1>16 DEF Change, RenderTypes
  <2>3. page'.nav = page.nav /\ page'.dom = page.dom + 1 /\ page.dom \in Nat
    BY <2>2 DEF Page
  <2>4. Snapshots' = Snapshots
    BY <2>1 DEF Snapshots
  <2>5. \A i \in Snapshots : inbox[i].dom \in Nat
    BY <1>1 DEF Snapshots, RenderTypes, Message, DocumentMessage, ResourceMessage, ReplyMessage
  <2>6. \A n, d : d \in Nat /\ Past(n, d) => Past(n, d)'
    BY <2>3 DEF Past
  <2>7. InOrder'
    BY <1>1, <2>1, <2>3, <2>4, <2>5, <2>6 DEF InOrder
  <2>8. <<page'.nav, page'.dom>> \notin previous
    BY <1>1, <2>3 DEF InOrder, Past
  <2>9. Believed'
    BY <1>1, <2>1, <2>4, <2>8 DEF Believed, SettledButForTheWait
  <2>10. QED
    BY <1>1, <2>1, <2>7, <2>9
<1>17. CASE Answer
  <2>1. UNCHANGED <<page, previous, stable, late, report, navs, pending>>
    BY <1>17 DEF Answer, bridge, browser
  <2>2. PICK m \in Message :
          /\ Tell(m)
          /\ m.kind = "snapshot" =>
               m.nav = page.nav /\ m.dom = page.dom /\ m.quiet = page.quiet
    <3>1. [kind |-> "world", nav |-> page.nav] \in Message
      BY <1>1 DEF Message, ReplyMessage, RenderTypes, Page
    <3>2. [kind |-> "snapshot", ok |-> context = page.nav, url |-> page.url,
           nav |-> page.nav, dom |-> page.dom, quiet |-> page.quiet] \in Message
      BY <1>1 DEF Message, ReplyMessage, RenderTypes, Page
    <3>3. QED
      BY <1>17, <3>1, <3>2 DEF Answer
  <2>3. Snapshots = {}
    BY <1>1, <1>17 DEF Answer, OneReply, Replies, Snapshots
  <2>4. late = 0 /\ page.dom \in Nat /\ page.quiet \in Nat
    BY <1>1, <2>3 DEF Believed, RenderTypes, Page
  <2>5. \A i \in Snapshots' : inbox'[i] = m /\ m.kind = "snapshot"
    BY <1>1, <2>2, <2>3, TellSnapshots
  <2>6. InOrder'
    BY <1>1, <2>1, <2>2, <2>4, <2>5 DEF InOrder, Past
  <2>7. Believed'
    BY <1>1, <2>1, <2>2, <2>4, <2>5 DEF Believed, SettledButForTheWait
  <2>8. QED
    BY <1>1, <2>1, <2>6, <2>7
<1>18. QED
  BY <1>4, <1>6, <1>7, <1>8, <1>9, <1>10, <1>12, <1>13, <1>14, <1>15, <1>16, <1>17
  DEF RenderNext, Reply, Proceed

(* browser.rs:39: "DOM must remain unchanged for this interval after       *)
(* readiness". Whatever is requested and wherever scripts navigate, the    *)
(* body that is reported was when it was taken, less the time it waited    *)
(* behind requests to be read.                                             *)
THEOREM SettledAsPromised == RenderSpec => []SettledButForTheWait
<1>1. SettledInv => SettledButForTheWait
  BY DEF SettledInv, Believed
<1>2. QED
  BY <1>1, SettledInvInit, SettledNext, PTL DEF RenderSpec
===============================================================================
