-------------------------------- MODULE EventSync --------------------------------
(***************************************************************************)
(* From the event log to a client's view: the rows of event_log, the       *)
(* publisher that tails them (event-publisher.ts), the client WebSocket with *)
(* its subscription and catch-up (client-ws.ts), and one client.           *)
(*                                                                         *)
(* The client is one of three programs.  "web" (RealtimeClient under         *)
(* RealtimeProvider) and "ios" (RealtimeConnection) take a pushed event as a  *)
(* reason to read the REST interface again; "sdk" (packages/client) hands    *)
(* every event to its application once and asks for what it missed.         *)
(* Positions are those of one organisation; log[p] says whether the event at *)
(* p belongs to a topic the client follows.                                  *)
(***************************************************************************)
EXTENDS Integers, Sequences, FiniteSets

CONSTANTS
  Kinds,       \* the client programs considered
  Limit,       \* EVENT_BATCH_LIMIT
  MaxEvents,   \* events committed
  MaxBreaks,   \* lost connections, suspensions and server stops, together
  MaxFaults,   \* failed reads of the publisher, the catch-up and the client
  MaxRejects,  \* credentials refused
  EarlyReads,  \* kinds whose read may be served before their subscription is applied
  Overtaken,   \* kinds whose catch-up may be overtaken by live frames
  LostReplays, \* kinds whose catch-up may fail (unless the read was early)
  QuietStart   \* nothing is committed between app.listen and publisher.start

ASSUME SyncAssumption ==
  /\ Kinds \subseteq {"sdk", "web", "ios"}
  /\ Limit \in Nat \ {0}
  /\ {MaxEvents, MaxBreaks, MaxFaults, MaxRejects} \subseteq Nat
  /\ EarlyReads \subseteq Kinds /\ Overtaken \subseteq Kinds /\ LostReplays \subseteq Kinds
  /\ QuietStart \in BOOLEAN

VARIABLES
  log,     \* event_log, durable
  server,  \* down, listening (app.listen returned) or up (publisher.start returned)
  pub,     \* the publisher's cursor
  rows,    \* the last position of the rows drainBatch has read; pub when it is idle
  kind,    \* the program of the client
  socket,  \* the client's socket: closed, open, or denied (closed with 1008)
  peer,    \* the server's end of it
  wire,    \* frames under way to the client
  cursor,  \* the highest cursor the client received
  seen,    \* positions of the events the client took (its set of event ids)
  dirty,   \* a read of the REST interface is due
  fetch,   \* the read under way, with the state it saw
  view,    \* the client shows all that was committed up to this position
  left     \* what remains of the bounds

logVars == <<log, server, pub, rows>>
clientVars == <<kind, cursor, seen>>
readVars == <<dirty, fetch, view>>
syncVars == <<logVars, clientVars, readVars, socket, peer, wire, left>>

Positions == 1..Len(log)
LiveOnly == -1   \* a subscribe frame without since_cursor
Gone == [phase |-> "gone", since |-> LiveOnly, early |-> FALSE, replay |-> "none", upto |-> 0]
Idle == [on |-> FALSE, answer |-> 0]
Highest(m, n) == IF m > n THEN m ELSE n
Lowest(m, n) == IF m < n THEN m ELSE n

\* Frames written by one synchronous loop: those of the followed events among
\* the positions from..upto, or the sync.required marker.
Span(m, n) == [from |-> m, upto |-> n, sync |-> FALSE]
Marker(n) == [from |-> n, upto |-> n, sync |-> TRUE]
Followed(s) == {p \in s.from..s.upto : log[p]}
Push(w, s) == IF s.sync \/ Followed(s) # {} THEN Append(w, s) ELSE w

SyncInit ==
  /\ log = <<>> /\ server = "up" /\ pub = 0 /\ rows = 0
  /\ kind \in Kinds
  /\ socket = "closed" /\ peer = Gone /\ wire = <<>>
  /\ cursor = 0 /\ seen = {}
  /\ dirty = FALSE /\ fetch = Idle /\ view = 0
  /\ left = [break |-> MaxBreaks, fault |-> MaxFaults, reject |-> MaxRejects]

Spend(what) == left[what] > 0 /\ left' = [left EXCEPT ![what] = @ - 1]

-------------------------------------------------------------------------------
(* The server. *)

\* A transaction of a service commits an event (appendEvent).
AppendEvent(followed) ==
  /\ server = "up" \/ (server = "listening" /\ ~QuietStart)
  /\ Len(log) < MaxEvents
  /\ log' = Append(log, followed)
  /\ UNCHANGED <<server, pub, rows, clientVars, readVars, socket, peer, wire, left>>

\* publisher.start: the history is skipped.
PublisherStart ==
  /\ server = "listening"
  /\ server' = "up" /\ pub' = Len(log) /\ rows' = Len(log)
  /\ UNCHANGED <<log, clientVars, readVars, socket, peer, wire, left>>

\* drainBatch reads the next rows; a second drain waits for this one (inFlight).
DrainRead ==
  /\ server = "up" /\ rows = pub /\ pub < Len(log)
  /\ rows' = Lowest(Len(log), pub + Limit)
  /\ UNCHANGED <<log, server, pub, clientVars, readVars, socket, peer, wire, left>>

\* Mutant: the cursor moves when the rows are read, not when they are published.
MutDrainFails ==
  /\ rows > pub
  /\ Spend("fault")
  /\ pub' = rows /\ rows' = rows
  /\ UNCHANGED <<log, server, clientVars, readVars, socket, peer, wire>>

\* Its read of the members fails: the next tick retries the same cursor.
DrainFails ==
  /\ rows > pub
  /\ Spend("fault")
  /\ rows' = pub
  /\ UNCHANGED <<log, server, pub, clientVars, readVars, socket, peer, wire>>

\* The loop of drainBatch: every row goes to the sockets subscribed by now.
DrainPublish ==
  /\ rows > pub
  /\ kind \notin Overtaken => peer.replay = "none"
  /\ pub' = rows
  /\ wire' = IF peer.phase = "subscribed" THEN Push(wire, Span(pub + 1, rows)) ELSE wire
  /\ UNCHANGED <<log, server, rows, clientVars, readVars, socket, peer, left>>

\* The server stops or crashes; its sockets end, the frames sent may still arrive.
ServerStop ==
  /\ server # "down"
  /\ Spend("break")
  /\ server' = "down" /\ pub' = 0 /\ rows' = 0 /\ peer' = Gone
  /\ UNCHANGED <<log, clientVars, readVars, socket, wire>>

\* app.listen returned; the publisher is still to be started.
ServerStart ==
  /\ server = "down"
  /\ server' = "listening"
  /\ UNCHANGED <<log, pub, rows, clientVars, readVars, socket, peer, wire, left>>

-------------------------------------------------------------------------------
(* The connection. *)

\* Mutant: no program sends a since_cursor of 0.
MutSinceCursor == IF kind = "web" \/ cursor = 0 THEN LiveOnly ELSE cursor

\* The since_cursor of the subscribe frame each program sends.
SinceCursor ==
  IF kind = "web" \/ (kind = "sdk" /\ cursor = 0) THEN LiveOnly ELSE cursor

\* The client opens a socket, subscribes, and (web, ios) reads everything again.
Connect(early) ==
  /\ socket = "closed" /\ server # "down"
  /\ early => kind \in EarlyReads
  /\ socket' = "open" /\ wire' = <<>>
  /\ peer' = [Gone EXCEPT !.phase = "authenticating", !.since = SinceCursor, !.early = early]
  /\ dirty' = (dirty \/ kind # "sdk")
  /\ UNCHANGED <<logVars, clientVars, fetch, view, left>>

\* Authentication succeeded and the subscribe frame is applied, at once or from
\* the queue of early frames: live delivery first, then the catch-up.
Subscribe ==
  /\ peer.phase = "authenticating"
  /\ peer' = [peer EXCEPT !.phase = "subscribed",
                          !.replay = IF peer.since = LiveOnly THEN "none" ELSE "asked"]
  /\ UNCHANGED <<logVars, clientVars, readVars, socket, wire, left>>

\* Authentication fails, or a later check of the credential: close 1008, which
\* is final for web and ios and a reason to reconnect for sdk.
Reject ==
  /\ peer.phase # "gone"
  /\ Spend("reject")
  /\ peer' = Gone /\ wire' = <<>>
  /\ socket' = IF kind = "sdk" THEN "closed" ELSE "denied"
  /\ UNCHANGED <<logVars, clientVars, readVars>>

\* collectCatchUp reads the rows after since_cursor.
ReplayRead ==
  /\ peer.replay = "asked"
  /\ peer' = [peer EXCEPT !.replay = "read", !.upto = Len(log)]
  /\ UNCHANGED <<logVars, clientVars, readVars, socket, wire, left>>

\* The read fails; replayCatchUp swallows the error.
ReplayFails ==
  /\ peer.replay = "asked" /\ kind \in LostReplays /\ ~peer.early
  /\ Spend("fault")
  /\ peer' = [peer EXCEPT !.replay = "none"]
  /\ UNCHANGED <<logVars, clientVars, readVars, socket, wire>>

\* Mutant: a full batch counts as an overflow.
MutReplaySend ==
  /\ peer.replay = "read"
  /\ LET last == peer.since + Limit
         replayed == Push(wire, Span(peer.since + 1, Lowest(peer.upto, last)))
     IN  wire' = IF peer.upto >= last THEN Push(replayed, Marker(last + 1)) ELSE replayed
  /\ peer' = [peer EXCEPT !.replay = "none"]
  /\ UNCHANGED <<logVars, clientVars, readVars, socket, left>>

\* Its frames are sent, at most Limit rows and then the marker.
ReplaySend ==
  /\ peer.replay = "read"
  /\ LET last == peer.since + Limit
         replayed == Push(wire, Span(peer.since + 1, Lowest(peer.upto, last)))
     IN  wire' = IF peer.upto > last THEN Push(replayed, Marker(last + 1)) ELSE replayed
  /\ peer' = [peer EXCEPT !.replay = "none"]
  /\ UNCHANGED <<logVars, clientVars, readVars, socket, left>>

\* The connection is lost with all its frames.
Drop ==
  /\ socket = "open" /\ peer.phase # "gone"
  /\ Spend("break")
  /\ socket' = "closed" /\ peer' = Gone /\ wire' = <<>>
  /\ UNCHANGED <<logVars, clientVars, readVars>>

\* The client sees the end of a socket the server closed.
NoticeClose ==
  /\ socket = "open" /\ peer.phase = "gone"
  /\ socket' = "closed" /\ wire' = <<>>
  /\ UNCHANGED <<logVars, clientVars, readVars, peer, left>>

\* setActive(false) of ios: a notification still in its delay is cancelled.
Suspend ==
  /\ kind = "ios" /\ socket = "open"
  /\ Spend("break")
  /\ socket' = "closed" /\ peer' = Gone /\ wire' = <<>>
  /\ dirty' \in {dirty, FALSE}
  /\ UNCHANGED <<logVars, clientVars, fetch, view>>

-------------------------------------------------------------------------------
(* The client. *)

\* What each program does with the event at position p: its cursor, the events
\* it took, and whether it reads again.
TakeEvent(p) ==
  /\ cursor' = IF kind = "web" THEN cursor ELSE Highest(cursor, p)
  /\ seen' = IF kind = "web" THEN seen ELSE seen \cup {p}
  /\ dirty' = (dirty \/ kind = "web" \/ (kind = "ios" /\ p \notin seen))

ReceiveEvent ==
  /\ socket = "open" /\ wire # <<>> /\ ~Head(wire).sync
  /\ \E p \in Followed(Head(wire)) :
       LET later == {q \in Followed(Head(wire)) : q > p}
       IN  /\ \A q \in Followed(Head(wire)) : p <= q
           /\ TakeEvent(p)
           /\ wire' = IF later = {} THEN Tail(wire) ELSE [wire EXCEPT ![1].from = p + 1]
  /\ UNCHANGED <<logVars, kind, fetch, view, socket, peer, left>>

\* sync.required: the application must read everything again.
ReceiveMarker ==
  /\ socket = "open" /\ wire # <<>> /\ Head(wire).sync
  /\ cursor' = IF kind = "web" THEN cursor ELSE Highest(cursor, Head(wire).from)
  /\ dirty' = TRUE
  /\ wire' = Tail(wire)
  /\ UNCHANGED <<logVars, kind, seen, fetch, view, socket, peer, left>>

\* The server answers a read with the state of this moment; a reason to read
\* that comes up from now on leads to another read.
Read ==
  /\ dirty /\ ~fetch.on /\ server # "down"
  /\ peer.phase = "authenticating" => peer.early
  /\ dirty' = FALSE /\ fetch' = [on |-> TRUE, answer |-> Len(log)]
  /\ UNCHANGED <<logVars, clientVars, view, socket, peer, wire, left>>

\* Its answer arrives.
ReadAnswered ==
  /\ fetch.on
  /\ view' = fetch.answer /\ fetch' = Idle
  /\ UNCHANGED <<logVars, clientVars, dirty, socket, peer, wire, left>>

\* It fails and is repeated.
ReadFails ==
  /\ fetch.on
  /\ Spend("fault")
  /\ dirty' = TRUE /\ fetch' = Idle
  /\ UNCHANGED <<logVars, clientVars, view, socket, peer, wire>>

-------------------------------------------------------------------------------

SyncNext ==
  \/ \E followed \in BOOLEAN : AppendEvent(followed)
  \/ PublisherStart \/ DrainRead \/ DrainFails \/ DrainPublish
  \/ ServerStop \/ ServerStart
  \/ \E early \in BOOLEAN : Connect(early)
  \/ Subscribe \/ Reject \/ ReplayRead \/ ReplayFails \/ ReplaySend
  \/ Drop \/ NoticeClose \/ Suspend
  \/ ReceiveEvent \/ ReceiveMarker \/ Read \/ ReadAnswered \/ ReadFails

SyncSpec == SyncInit /\ [][SyncNext]_syncVars

\* The processes run, frames sent arrive, a closed socket is noticed, and the
\* client reconnects.  Nothing says that events are committed or connections last.
SyncFairness ==
  /\ WF_syncVars(PublisherStart) /\ WF_syncVars(ServerStart)
  /\ WF_syncVars(DrainRead) /\ WF_syncVars(DrainPublish)
  /\ WF_syncVars(Subscribe) /\ WF_syncVars(ReplayRead) /\ WF_syncVars(ReplaySend)
  /\ WF_syncVars(NoticeClose) /\ WF_syncVars(\E early \in BOOLEAN : Connect(early))
  /\ WF_syncVars(ReceiveEvent \/ ReceiveMarker)
  /\ WF_syncVars(Read) /\ WF_syncVars(ReadAnswered)

FairSyncSpec == SyncSpec /\ SyncFairness

-------------------------------------------------------------------------------
(* What the client knows of what it should. *)

\* Every followed event; for sdk, whose first subscription is live only, those
\* after the first event it took.
Owed == {p \in Positions : log[p] /\ (kind = "sdk" => \E q \in seen : q < p)}

Known(p) == p <= view \/ (kind = "sdk" /\ p \in seen)

\* The event at p is in frames on their way.
OnWire(p) == \E i \in DOMAIN wire : wire[i].sync \/ p \in Followed(wire[i])

\* The connection will bring the event at p, or tell the client to read.
Subscribed(p) ==
  /\ socket = "open"
  /\ \/ peer.phase = "authenticating" /\ LiveOnly < peer.since /\ peer.since < p
     \/ peer.phase = "subscribed" /\ peer.replay # "none" /\ peer.since < p
     \/ peer.phase = "subscribed" /\ server = "up" /\ pub < p
     \/ peer.phase # "gone" /\ OnWire(p)

\* Without a connection the next one will: web and ios read everything again,
\* sdk asks for what comes after its cursor.
Disconnected(p) ==
  /\ socket # "open" \/ peer.phase = "gone"
  /\ kind = "sdk" => cursor < p

Reading(p) == dirty \/ (fetch.on /\ p <= fetch.answer)

\* Type correctness of the log, the connection and the client.
SyncTypeOK ==
  /\ log \in Seq(BOOLEAN)
  /\ server \in {"down", "listening", "up"}
  /\ pub \in 0..Len(log) /\ rows \in pub..Len(log)
  /\ kind \in Kinds /\ socket \in {"closed", "open", "denied"}
  /\ peer \in [phase : {"gone", "authenticating", "subscribed"}, since : Nat \cup {LiveOnly},
               early : BOOLEAN, replay : {"none", "asked", "read"}, upto : 0..Len(log)]
  /\ wire \in Seq([from : Positions, upto : Positions, sync : BOOLEAN])
  /\ cursor \in 0..Len(log) /\ seen \subseteq Positions
  /\ dirty \in BOOLEAN /\ fetch \in [on : BOOLEAN, answer : 0..Len(log)] /\ view \in 0..Len(log)
  /\ left \in [break : Nat, fault : Nat, reject : Nat]

\* An event the client should know of and does not is always still to come: in
\* a read that is due or under way, in the publisher's future, in a catch-up, in
\* a frame on the wire, or in what the next connection will ask for.
NothingForgotten ==
  \A p \in Owed : Known(p) \/ Reading(p) \/ Subscribed(p) \/ Disconnected(p)

\* A client whose credential holds comes to show every event it should.
Converges == <>[](socket = "denied" \/ \A p \in Owed : Known(p))
===============================================================================
