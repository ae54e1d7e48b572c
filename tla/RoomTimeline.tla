----------------------------- MODULE RoomTimeline -----------------------------
(***************************************************************************)
(* The messages of a room as a client shows them: the pages of             *)
(* services/message-service.ts, the removal of a reported message          *)
(* (services/content-moderation-service.ts), and the two readers of them,  *)
(* the query of the web's RoomConversation.tsx with roomMessages.ts and    *)
(* the iOS RoomMessagesViewModel.swift.                                    *)
(*                                                                         *)
(* A message is its position.  A request is read by the server in one step *)
(* and its answer used in a later one; real-time events of what has        *)
(* happened reach the client late, twice or never.  Cursor 0 is none.      *)
(* Only the first message is the root of a thread.                         *)
(***************************************************************************)
EXTENDS FiniteSets, Integers

CONSTANTS Page,         \* messages of a page (50)
          Burst,        \* pages of one catch-up (20 on the web, 5 on iOS)
          LastMessage,  \* bound: messages of the room, by client
          LastReply,    \* bound: replies to the first message
          LastRemoval   \* bound: messages a moderator removes

ASSUME TimelineAssumption == Page \in Nat \ {0} /\ LastReply \in Nat

VARIABLES last,     \* the messages stored are 1 .. last
          removed,  \* those a moderator has removed
          replies,  \* replies to message 1
          kind,     \* which client: "web" or "ios"
          loaded,   \* it has had an answer
          view,     \* the messages it shows
          known,    \* messages it knows to be removed
          before, after, older,   \* its cursors, and whether more came before
          fetch,    \* the refresh in progress
          again,    \* iOS: a refresh was asked for during one
          aside     \* a page read beside the refresh, or its answer

roomVars == <<last, removed, replies>>
cursorVars == <<before, after, older>>
timelineVars == <<roomVars, kind, loaded, view, known, cursorVars, fetch, again, aside>>

NoPage == [is |-> "none"]
NoFetch == [at |-> "idle"]
NoRows == [p \in {} |-> NoPage]

TimelineInit ==
  /\ last = 0 /\ removed = {} /\ replies = 0
  /\ kind \in {"web", "ios"}
  /\ loaded = FALSE /\ view = NoRows /\ known = {}
  /\ before = 0 /\ after = 0 /\ older = FALSE
  /\ fetch = NoFetch /\ again = FALSE /\ aside = NoPage

Lesser(a, b) == IF a < b THEN a ELSE b
Greater(a, b) == IF a < b THEN b ELSE a

-----------------------------------------------------------------------------
(* The server *)

PostMessage ==
  /\ last < LastMessage[kind]
  /\ last' = last + 1
  /\ UNCHANGED <<removed, replies, kind, loaded, view, known, cursorVars, fetch, again, aside>>

PostReply ==
  /\ last > 0 /\ replies < LastReply
  /\ replies' = replies + 1
  /\ UNCHANGED <<last, removed, kind, loaded, view, known, cursorVars, fetch, again, aside>>

\* A report is resolved with the removal of its message.
RemoveMessage(p) ==
  /\ p <= last /\ p \notin removed
  /\ Cardinality(removed) < LastRemoval
  /\ removed' = removed \cup {p}
  /\ UNCHANGED <<last, replies, kind, loaded, view, known, cursorVars, fetch, again, aside>>

Row(p) == [open |-> p \notin removed, count |-> IF p = 1 THEN replies ELSE 0]
PageOf(lo, hi, more) ==
  [is |-> "page", rows |-> [p \in lo .. hi |-> Row(p)], more |-> more,
   first |-> IF lo > hi THEN 0 ELSE lo, last |-> IF lo > hi THEN 0 ELSE hi]

\* The page after or before a cursor, and without one the newest.
PageAfter(a) == PageOf(a + 1, Lesser(last, a + Page), last > a + Page)
PageBefore(b) == PageOf(Greater(1, b - Page), b - 1, b - 1 > Page)
NewestPage == PageOf(Greater(1, last - Page + 1), last, last > Page)

-----------------------------------------------------------------------------
(* What a client makes of messages *)

HiddenIn(rows) == {p \in DOMAIN rows : ~rows[p].open}
Shown(rows, gone) == [p \in DOMAIN rows |-> [rows[p] EXCEPT !.open = @ /\ p \notin gone]]

\* The web takes the count of the newer list, iOS the greater one.
Count(old, new) == IF kind = "ios" THEN Greater(old, new) ELSE new

\* Two lists of messages as one: removed in either is removed.
Merge(first, newer) ==
  [p \in DOMAIN first \cup DOMAIN newer |->
     IF p \notin DOMAIN newer THEN first[p]
     ELSE IF p \notin DOMAIN first THEN newer[p]
     ELSE [open |-> first[p].open /\ newer[p].open,
           count |-> Count(first[p].count, newer[p].count)]]

-----------------------------------------------------------------------------
(* The refresh *)

\* `held` and `gone` are ghosts: what the client showed and what was removed
\* when the refresh began.
NewFetch(at, from) ==
  [at |-> at, from |-> from, next |-> from, n |-> 0, answer |-> NoPage,
   got |-> NoRows, first |-> 0, more |-> FALSE, end |-> 0,
   held |-> DOMAIN view, gone |-> removed]

\* The web polls; an event, a reconnection or a sent message cancels a refresh
\* in progress, unless it is the first, and begins another.
StartFetch ==
  /\ kind = "web"
  /\ fetch = NoFetch \/ loaded
  /\ fetch' = NewFetch("list", after)
  /\ UNCHANGED <<roomVars, kind, loaded, view, known, cursorVars, again, aside>>

\* iOS remembers one that is asked for while it is loading.
Refresh ==
  /\ kind = "ios"
  /\ IF fetch = NoFetch
       THEN /\ fetch' = NewFetch("list", after)
            /\ UNCHANGED again
       ELSE /\ again' = TRUE
            /\ UNCHANGED fetch
  /\ UNCHANGED <<roomVars, kind, loaded, view, known, cursorVars, aside>>

\* iOS, "load earlier messages": never during a refresh.
LoadOlder ==
  /\ kind = "ios"
  /\ fetch = NoFetch /\ older /\ before # 0
  /\ fetch' = NewFetch("older", before)
  /\ UNCHANGED <<roomVars, kind, loaded, view, known, cursorVars, again, aside>>

\* The ids whose removal the client asks about.
Tracked == fetch.held \cup DOMAIN fetch.got

\* The server reads what the refresh has asked for.
AnswerFetch ==
  /\ fetch # NoFetch /\ fetch.answer = NoPage
  /\ fetch' = [fetch EXCEPT !.answer =
       CASE fetch.at = "list" -> IF fetch.next = 0 THEN NewestPage ELSE PageAfter(fetch.next)
         [] fetch.at = "latest" -> NewestPage
         [] fetch.at = "older" -> PageBefore(fetch.next)
         [] fetch.at = "visible" -> [is |-> "removed", ids |-> Tracked \cap removed]]
  /\ UNCHANGED <<roomVars, kind, loaded, view, known, cursorVars, again, aside>>

Ask(f, at) == [f EXCEPT !.at = at, !.answer = NoPage]

\* The web collects pages from its cursor on, then the newest page once more
\* for its reply counts.
Collected(f, page) ==
  LET f1 == [f EXCEPT !.got = Merge(f.got, Shown(page.rows, known)),
                      !.n = f.n + 1,
                      !.end = IF page.last # 0 THEN page.last ELSE f.end,
                      !.first = IF f.n = 0 THEN page.first ELSE f.first,
                      !.more = IF f.n = 0 THEN page.more ELSE f.more]
  IN IF f.from = 0 THEN Ask(f1, "visible")
     ELSE IF page.more /\ f1.n < Burst THEN [Ask(f1, "list") EXCEPT !.next = page.last]
     ELSE Ask(f1, "latest")
\* Mutant: the newest page moves the cursor.
MutWithLatest(f, page) ==
  Ask([f EXCEPT !.got = Merge(f.got, Shown(page.rows, known)), !.end = page.last], "visible")
WithLatest(f, page) ==
  Ask([f EXCEPT !.got = Merge(f.got, Shown(page.rows, known))], "visible")

WebTakesPage ==
  /\ kind = "web"
  /\ fetch.at \in {"list", "latest"} /\ fetch.answer # NoPage
  /\ known' = known \cup HiddenIn(fetch.answer.rows)
  /\ fetch' = IF fetch.at = "list" THEN Collected(fetch, fetch.answer)
              ELSE WithLatest(fetch, fetch.answer)
  /\ UNCHANGED <<roomVars, kind, loaded, view, cursorVars, again, aside>>

\* The end of the web's refresh: the cache as it now is, under what was read.
FinishFetch ==
  /\ kind = "web"
  /\ fetch.at = "visible" /\ fetch.answer # NoPage
  /\ known' = known \cup fetch.answer.ids
  /\ view' = Merge(Shown(view, known'), Shown(fetch.got, known'))
  /\ IF fetch.from # 0
       THEN /\ after' = IF fetch.end # 0 THEN fetch.end ELSE after
            /\ UNCHANGED <<before, older>>
       ELSE /\ before' = fetch.first
            /\ after' = fetch.end
            /\ older' = fetch.more
  /\ loaded' = TRUE
  /\ fetch' = NoFetch
  /\ UNCHANGED <<roomVars, kind, again, aside>>

\* iOS merges each page as it comes.
IosTakesPage ==
  /\ kind = "ios"
  /\ fetch.at \in {"list", "older"} /\ fetch.answer # NoPage
  /\ LET page == fetch.answer
         newest == fetch.at = "list" /\ fetch.next = 0
         newer == fetch.at = "list" /\ fetch.next # 0
     IN /\ known' = known \cup HiddenIn(page.rows)
        /\ view' = Merge(view, Shown(page.rows, known'))
        /\ before' = IF newer THEN before ELSE page.first
        /\ older' = IF newer THEN older ELSE page.more
        /\ after' = IF fetch.at = "list" /\ page.last # 0 THEN page.last ELSE after
        /\ fetch' = IF newer /\ page.more /\ fetch.n + 1 < Burst
                      THEN [Ask(fetch, "list") EXCEPT !.next = page.last, !.n = @ + 1]
                      ELSE [Ask(fetch, "visible") EXCEPT !.got = view']
  /\ loaded' = TRUE
  /\ UNCHANGED <<roomVars, kind, again, aside>>

\* The end of an iOS load: the one asked for meanwhile follows at once.
AfterLoad == IF again THEN NewFetch("list", after) ELSE NoFetch
IosFinishes ==
  /\ kind = "ios"
  /\ fetch.at = "visible" /\ fetch.answer # NoPage
  /\ known' = known \cup fetch.answer.ids
  /\ view' = Shown(view, known')
  /\ fetch' = AfterLoad /\ again' = FALSE
  /\ UNCHANGED <<roomVars, kind, loaded, cursorVars, aside>>

\* A request fails: what was collected is dropped.
FetchFails ==
  /\ fetch # NoFetch
  /\ fetch' = AfterLoad /\ again' = FALSE
  /\ UNCHANGED <<roomVars, kind, loaded, view, known, cursorVars, aside>>

-----------------------------------------------------------------------------
(* Beside the refresh *)

\* The web's "load earlier messages"; the read of the newest page with which iOS
\* brings its reply counts up to date.
AskAside ==
  /\ aside = NoPage /\ loaded
  /\ \/ kind = "web" /\ older /\ before # 0 /\ aside' = PageBefore(before)
     \/ kind = "ios" /\ aside' = NewestPage
  /\ UNCHANGED <<roomVars, kind, loaded, view, known, cursorVars, fetch, again>>

\* Its answer: on the web what is shown already wins.
TakeAside ==
  /\ aside # NoPage
  /\ known' = known \cup HiddenIn(aside.rows)
  /\ IF kind = "web"
       THEN /\ view' = Merge(Shown(aside.rows, known'), view)
            /\ before' = aside.first
            /\ older' = aside.more
       ELSE /\ view' = Merge(view, Shown(aside.rows, known'))
            /\ UNCHANGED <<before, older>>
  /\ aside' = NoPage
  /\ UNCHANGED <<roomVars, kind, loaded, after, fetch, again>>

AsideFails ==
  /\ aside # NoPage
  /\ aside' = NoPage
  /\ UNCHANGED <<roomVars, kind, loaded, view, known, cursorVars, fetch, again>>

\* After an event the web begins a refresh, and cancels one in progress unless
\* it is the first.
Restarted == IF loaded \/ fetch = NoFetch THEN NewFetch("list", after) ELSE fetch

\* The event of a removal, of a message that may not be shown.
RemovalArrives(p) ==
  /\ p \in removed
  /\ known' = known \cup {p}
  /\ view' = Shown(view, {p})
  /\ fetch' = IF kind = "web" THEN Restarted ELSE fetch
  /\ UNCHANGED <<roomVars, kind, loaded, cursorVars, again, aside>>

\* The event of the n-th reply, perhaps replayed behind a later one.
ReplyArrives(n) ==
  /\ n <= replies
  /\ view' = IF 1 \in DOMAIN view THEN [view EXCEPT ![1].count = Greater(@, n)] ELSE view
  /\ fetch' = IF kind = "web" THEN Restarted ELSE fetch
  /\ UNCHANGED <<roomVars, kind, loaded, known, cursorVars, again, aside>>

\* The answer to a message the client has posted, as it was stored or, of one
\* posted twice, as it has been since: the web shows it and begins a refresh.
SentMessageArrives(p, row) ==
  /\ kind = "web" /\ loaded
  /\ p <= last
  /\ row \in [open : {p \notin removed, TRUE}, count : 0 .. Row(p).count]
  /\ view' = Merge(view, [q \in {p} |-> row])
  /\ fetch' = Restarted
  /\ UNCHANGED <<roomVars, kind, loaded, known, cursorVars, again, aside>>

TimelineNext ==
  \/ PostMessage \/ PostReply
  \/ StartFetch \/ Refresh \/ LoadOlder \/ AnswerFetch
  \/ WebTakesPage \/ FinishFetch \/ IosTakesPage \/ IosFinishes \/ FetchFails
  \/ AskAside \/ TakeAside \/ AsideFails
  \/ \E p \in 1 .. last :
       \/ RemoveMessage(p)
       \/ RemovalArrives(p)
       \/ \E open \in BOOLEAN, n \in 0 .. LastReply :
            SentMessageArrives(p, [open |-> open, count |-> n])
  \/ \E n \in 1 .. LastReply : ReplyArrives(n)

-----------------------------------------------------------------------------
(* Properties *)

\* Between its cursors a client shows every message, and when it is told that
\* nothing came before its first page, every message up to the newer cursor:
\* no catch-up, interrupted, cancelled or bounded, and no page beside it skips
\* one.
NoGap ==
  after # 0 =>
    /\ before # 0 => before .. after \subseteq DOMAIN view
    /\ ~older => 1 .. after \subseteq DOMAIN view

\* A message shown as removed is never shown again with its text, whichever
\* stale page, answer or event comes after.
StaysRemoved == \A p \in DOMAIN view : ~view[p].open => ~view'[p].open

\* A reply count never goes back, except under the stale answer to a message
\* of the client's own: then the same step begins the refresh that repairs it.
CountsGrow ==
  \A p \in DOMAIN view :
    view'[p].count < view[p].count => fetch'.at = "list" /\ fetch'.n = 0

\* A refresh that ends as it should has hidden every message the client showed
\* when it began and that was removed by then, though its event was lost.
RefreshHides ==
  FinishFetch \/ IosFinishes =>
    \A p \in fetch.held \cap fetch.gone : ~view'[p].open

\* All of it, of RoomConversation.tsx and RoomMessagesViewModel.swift: in every
\* state a step leads to no message is skipped, and no step shows a removed one
\* again, takes a reply count back or ends a refresh that hides too little.
TimelineHolds ==
  [][NoGap' /\ StaysRemoved /\ CountsGrow /\ RefreshHides]_timelineVars

=============================================================================
