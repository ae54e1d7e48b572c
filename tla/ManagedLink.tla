------------------------------ MODULE ManagedLink ------------------------------
(***************************************************************************)
(* The connection of a managed daemon: managed-ws-transport.ts and the     *)
(* loss timer of managed-node-runner.ts on one side, the managed handshake *)
(* of ws/node-ws.ts with ws/node-registry.ts on the other, and the lane of *)
(* ordinary run events, which are kept and replayed until acknowledged.    *)
(* (The receipts of managed runs are in ManagedRun.)                       *)
(*                                                                         *)
(* Every connection attempt is a generation with a socket of its own.      *)
(* Messages need a tick at least; a cut socket loses what it carries, and  *)
(* each end finds out in its own time.  Timers of the daemon fire up to    *)
(* Lag ticks late, and the code compares clocks again where it does.       *)
(*                                                                         *)
(* HandshakesInTurn: the server takes no hello while it may still handle   *)
(* what an earlier socket carried of its handshake.  The daemon waits a    *)
(* second before it connects again; the code has nothing else that says so.*)
(***************************************************************************)
EXTENDS Integers, Sequences, FiniteSets, SequencesExt

CONSTANTS LastGen,       \* bound: connection attempts
          LastEvent,     \* bound: ordinary run events
          Retained,      \* events that are receipts of a kept workspace
          Handshake, ProbeEvery, ProbeWithin, Grace, RetainFor, Lag,  \* in ticks
          HandshakesInTurn

ASSUME LinkAssumption ==
  /\ {LastGen, LastEvent, Handshake, ProbeEvery, ProbeWithin, Grace, RetainFor, Lag} \subseteq Nat
  /\ HandshakesInTurn \in BOOLEAN

Gens == 1 .. LastGen
OrdinaryEvents == 1 .. LastEvent

VARIABLES gen,       \* the current generation; 0 before the first
          link,      \* its state at the daemon
          runner,    \* what outlives generations at the daemon; `away` and
                     \* `after` are ghosts: ticks without a usable session, now
                     \* and before the present one
          events,    \* ordinary events sent by the node client
          up, down,  \* the two directions of each socket
          cut,       \* sockets that carry nothing any more
          srv,       \* srv[g]: the server's side of a socket
          bound,     \* the generation in the node registry; 0 for none
          inbox,     \* the events each binding has queued for ingestion
          ingested   \* ordinary events the server took in, in order

wireVars == <<up, down, cut>>
linkServerVars == <<srv, bound, inbox, ingested>>
linkVars == <<gen, link, runner, events, wireVars, linkServerVars>>

\* A timer is the number of ticks since it was started, or Off.
Off == -1
Started == 0
NoPeer == [is |-> "dead", open |-> Off, probe |-> Off, proved |-> Off]
NoServer == [is |-> "none", open |-> Off]

LinkInit ==
  /\ gen = 0 /\ link = NoPeer
  /\ runner = [is |-> "up", everUsable |-> FALSE, loss |-> Off, retry |-> Off,
               why |-> "none", away |-> Off, after |-> Off]
  /\ events = <<>>
  /\ up = [g \in Gens |-> <<>>] /\ down = [g \in Gens |-> <<>>] /\ cut = {}
  /\ srv = [g \in Gens |-> NoServer] /\ bound = 0
  /\ inbox = [g \in Gens |-> <<>>] /\ ingested = <<>>

----------------------------------------------------------------------------
(* Sockets *)

Message(what) == [what |-> what, new |-> TRUE]
Messages(whats) == [i \in DOMAIN whats |-> Message(whats[i])]

\* The daemon's socket with messages written to it.
Wrote(whats) == IF gen \in cut THEN up ELSE [up EXCEPT ![gen] = @ \o Messages(whats)]
Told(g, what) == IF g \in cut THEN down ELSE [down EXCEPT ![g] = Append(@, Message(what))]

Arrives(channel, g) == channel[g] # <<>> /\ ~Head(channel[g]).new
AtServer(g, what) == Arrives(up, g) /\ Head(up[g]).what = what
AtDaemon(what) ==
  /\ link.is # "dead" /\ gen \in Gens
  /\ Arrives(down, gen) /\ Head(down[gen]).what = what
TakenUp(g) == [up EXCEPT ![g] = Tail(@)]
TakenDown == [down EXCEPT ![gen] = Tail(@)]

----------------------------------------------------------------------------
(* Ordinary events: sendLegacy, flushLegacy, settleLegacy. *)

IsPending(e) == e \in DOMAIN events /\ events[e].is = "pending"

Overdue(e) == events[e].kept >= RetainFor

\* What flushLegacy writes, in the order of sending.
Pending ==
  LET P == {e \in OrdinaryEvents : IsPending(e) /\ ~Overdue(e)}
  IN  CHOOSE s \in [1 .. Cardinality(P) -> P] : \A i, k \in DOMAIN s : i < k => s[i] < s[k]
EventName(e) == <<"event", e>>

\* flushLegacy, when a generation becomes usable; what is overdue has failed.
Flushed == [e \in DOMAIN events |->
  CASE events[e].is # "pending" -> events[e]
    [] events[e].is = "pending" /\ Overdue(e) -> [events[e] EXCEPT !.is = "failed"]
    [] events[e].is = "pending" /\ ~Overdue(e) -> [events[e] EXCEPT !.sent = TRUE]]
Unsent == [e \in DOMAIN events |-> [events[e] EXCEPT !.sent = FALSE]]
FailedEvents == [e \in DOMAIN events |->
  IF events[e].is = "pending" THEN [events[e] EXCEPT !.is = "failed"] ELSE events[e]]

\* The lane keeps an event, and writes it if the session is usable.
Enqueue(e) ==
  LET now == link.is = "usable"
  IN  /\ events' = Append(events, [is |-> "pending", sent |-> now,
                                   kept |-> IF e \in Retained THEN Started ELSE Off])
      /\ up' = IF now THEN Wrote(<<EventName(e)>>) ELSE up

\* Mutant: the node client does not wait for the receipt of the event before.
MutSendEvent ==
  /\ runner.is = "up" /\ Len(events) < LastEvent
  /\ Enqueue(Len(events) + 1)
  /\ UNCHANGED <<gen, link, runner, down, cut, linkServerVars>>

\* The node client sends the next event of a run, or after a failure its report
\* of it, when the one before is settled.
SendEvent ==
  /\ runner.is = "up" /\ Len(events) < LastEvent
  /\ \A e \in OrdinaryEvents : ~IsPending(e)
  /\ Enqueue(Len(events) + 1)
  /\ UNCHANGED <<gen, link, runner, down, cut, linkServerVars>>

RetentionExpires(e) ==
  /\ e \in DOMAIN events /\ events[e].is = "pending" /\ Overdue(e)
  /\ events' = [events EXCEPT ![e].is = "failed"]
  /\ UNCHANGED <<gen, link, runner, wireVars, linkServerVars>>

Statuses == {"accepted", "rejected"}

\* run.event.ack settles what this generation sent: a rejected event, or one that
\* is overdue, has failed.
ReceiveAck(e, status) ==
  /\ AtDaemon(<<status, e>>)
  /\ down' = TakenDown
  /\ events' = IF link.is = "usable" /\ IsPending(e) /\ events[e].sent
               THEN [events EXCEPT ![e].is =
                       IF status = "accepted" /\ ~Overdue(e) THEN "delivered" ELSE "failed"]
               ELSE events
  /\ UNCHANGED <<gen, link, runner, up, cut, linkServerVars>>

----------------------------------------------------------------------------
(* The daemon's connection *)

\* fatal: the transport closes for good and the runner stops its runs.
Fatal(why) ==
  /\ runner' = [runner EXCEPT !.is = "failed", !.why = why]
  /\ link' = NoPeer
  /\ events' = FailedEvents
  /\ cut' = cut \cup {gen}

\* lose: permanent for a 1008 close, and before any generation was usable;
\* otherwise a loss episode begins, unless one is under way.
Lose(why) ==
  IF why = "refused" \/ ~runner.everUsable
  THEN Fatal(why)
  ELSE /\ runner' = [runner EXCEPT
            !.loss = IF @ = Off THEN Started ELSE @,
            !.away = IF link.is = "usable" THEN Started ELSE @,
            !.retry = Started]
       /\ link' = NoPeer
       /\ events' = Unsent
       /\ cut' = cut \cup {gen}

Connect ==
  /\ runner.is = "up" /\ link.is = "dead" /\ gen < LastGen /\ runner.retry # Started
  /\ gen' = gen + 1
  /\ link' = [NoPeer EXCEPT !.is = "connecting", !.open = Started]
  /\ UNCHANGED <<runner, events, wireVars, linkServerVars>>

Opens ==
  /\ link.is = "connecting" /\ gen \notin cut
  /\ link' = [link EXCEPT !.is = "opened", !.open = Started]
  /\ up' = Wrote(<<<<"hello">>>>)
  /\ UNCHANGED <<gen, runner, events, down, cut, linkServerVars>>

GraceOver == runner.is = "up" /\ runner.loss >= Grace

HandshakeOver == link.open >= Handshake

\* node.session.ready: the first probe follows at once.
ReceiveReady ==
  /\ AtDaemon(<<"ready">>)
  /\ down' = TakenDown
  /\ IF HandshakeOver
     THEN Lose("handshake") /\ UNCHANGED up
     ELSE /\ link' = [link EXCEPT !.is = "ready", !.probe = Started]
          /\ up' = Wrote(<<<<"probe">>>>)
          /\ UNCHANGED <<runner, events, cut>>
  /\ UNCHANGED <<gen, linkServerVars>>

Proved == [link EXCEPT !.is = "usable", !.open = Off, !.probe = Off, !.proved = Started]

PongTooLate == link.probe >= ProbeWithin \/ HandshakeOver

\* The generation is usable: the loss episode ends, what is pending is replayed.
BecomesUsable ==
  /\ link' = Proved
  /\ runner' = [runner EXCEPT !.everUsable = TRUE, !.loss = Off,
                              !.after = runner.away, !.away = Off]
  /\ events' = Flushed
  /\ up' = Wrote([i \in DOMAIN Pending |-> EventName(Pending[i])])
  /\ UNCHANGED cut

\* onSessionUsable refuses a session after the grace.
FirstPong == IF GraceOver THEN Fatal("grace") /\ UNCHANGED up ELSE BecomesUsable

\* node.session.pong
ReceivePong ==
  /\ AtDaemon(<<"pong">>) /\ link.probe # Off
  /\ down' = TakenDown
  /\ \/ PongTooLate /\ Lose("probe") /\ UNCHANGED up
     \/ ~PongTooLate /\ link.is = "ready" /\ FirstPong
     \/ ~PongTooLate /\ link.is = "usable" /\ link' = Proved
        /\ UNCHANGED <<runner, events, up, cut>>
  /\ UNCHANGED <<gen, linkServerVars>>

\* The probe timer of a usable session.
Probe ==
  /\ link.is = "usable" /\ link.probe = Off /\ link.proved >= ProbeEvery
  /\ link' = [link EXCEPT !.probe = Started]
  /\ up' = Wrote(<<<<"probe">>>>)
  /\ UNCHANGED <<gen, runner, events, down, cut, linkServerVars>>

TimesOut ==
  /\ HandshakeOver \/ link.probe >= ProbeWithin
  /\ Lose("timeout")
  /\ UNCHANGED <<gen, up, down, linkServerVars>>

\* The daemon hears that the socket is gone.
Disconnects ==
  /\ link.is # "dead" /\ gen \in cut
  /\ Lose("disconnected")
  /\ UNCHANGED <<gen, up, down, linkServerVars>>

\* A close with code 1008.
Refused ==
  /\ \E why \in {"credential", "expired", "protocol"} :
       AtDaemon(<<"refused", why>>) /\ Fatal(why)
  /\ down' = TakenDown
  /\ UNCHANGED <<gen, up, linkServerVars>>

\* expireLoss of the runner.
GraceExpires ==
  /\ GraceOver
  /\ Fatal("grace")
  /\ UNCHANGED <<gen, up, down, linkServerVars>>

----------------------------------------------------------------------------
(* The server *)

\* close(1008): nothing the socket still carries is handled.
Refuse(g, why) ==
  /\ srv' = [srv EXCEPT ![g] = [is |-> "closing", open |-> Off]]
  /\ down' = Told(g, <<"refused", why>>)

\* What is left of a connection's handshake at the server.
HandshakeOpen(g) ==
  srv[g].is \in {"initializing", "ready"} \/ (srv[g].is = "none" /\ up[g] # <<>>)

\* The credential is read and node.hello accepted; the initialization timer
\* started with its arrival.
ServerHello(g) ==
  /\ srv[g].is = "none" /\ AtServer(g, <<"hello">>)
  /\ HandshakesInTurn => \A h \in 1 .. g - 1 : ~HandshakeOpen(h)
  /\ up' = TakenUp(g)
  /\ \/ /\ srv' = [srv EXCEPT ![g] = [is |-> "initializing", open |-> Started]]
        /\ UNCHANGED down
     \/ Refuse(g, "credential")
  /\ UNCHANGED <<gen, link, runner, events, cut, bound, inbox, ingested>>

InitializationOver(g) == srv[g].open >= Handshake

\* initializeManaged after the schema has been read.
ServerReady(g) ==
  /\ srv[g].is = "initializing"
  /\ IF InitializationOver(g) THEN Refuse(g, "expired")
     ELSE /\ srv' = [srv EXCEPT ![g].is = "ready"]
          /\ down' = Told(g, <<"ready">>)
  /\ UNCHANGED <<gen, link, runner, events, up, cut, bound, inbox, ingested>>

\* The first pong registers the binding, and replaces an older one.
ServerProbe(g) ==
  /\ srv[g].is \in {"ready", "active"} /\ AtServer(g, <<"probe">>)
  /\ up' = TakenUp(g)
  /\ IF \/ srv[g].is = "active" /\ bound # g
        \/ srv[g].is = "ready" /\ InitializationOver(g)
     THEN /\ Refuse(g, IF srv[g].is = "ready" THEN "expired" ELSE "protocol")
          /\ UNCHANGED bound
     ELSE /\ srv' = [srv EXCEPT ![g] = [is |-> "active", open |-> Off]]
          /\ bound' = g
          /\ down' = Told(g, <<"pong">>)
  /\ UNCHANGED <<gen, link, runner, events, cut, inbox, ingested>>

\* An application frame is for the session that is active and registered; its
\* binding queues it.
ServerEvent(g, e) ==
  /\ srv[g].is \in {"initializing", "ready", "active"} /\ AtServer(g, EventName(e))
  /\ up' = TakenUp(g)
  /\ IF srv[g].is = "active" /\ bound = g
     THEN inbox' = [inbox EXCEPT ![g] = Append(@, e)] /\ UNCHANGED <<srv, down>>
     ELSE Refuse(g, "protocol") /\ UNCHANGED inbox
  /\ UNCHANGED <<gen, link, runner, events, cut, bound, ingested>>

\* A receipt goes out on the binding's own socket, if that is still open.
Receipt(g, status, e) == IF srv[g].is = "active" THEN Told(g, <<status, e>>) ELSE down

\* The binding's queued work, one event at a time and whatever became of the
\* session since: taken in, or known as taken in; stopped by an error, at the
\* commit at the latest, with a receipt that says so; or left without a receipt
\* (an unknown kind, a run that is not this node's, a failed read).
ServerIngests(g) ==
  /\ inbox[g] # <<>>
  /\ inbox' = [inbox EXCEPT ![g] = Tail(@)]
  /\ LET e == Head(inbox[g])
         after == IF Contains(ingested, e) THEN ingested ELSE Append(ingested, e)
     IN  \/ ingested' = after /\ down' = Receipt(g, "accepted", e)
         \/ ingested' \in {ingested, after} /\ down' = Receipt(g, "rejected", e)
         \/ UNCHANGED <<down, ingested>>
  /\ UNCHANGED <<gen, link, runner, events, up, cut, srv, bound>>

ServerTimesOut(g) ==
  /\ srv[g].is \in {"initializing", "ready"} /\ InitializationOver(g)
  /\ Refuse(g, "expired")
  /\ UNCHANGED <<gen, link, runner, events, up, cut, bound, inbox, ingested>>

\* The server hears of the close: only the registered binding is unregistered.
ServerCloses(g) ==
  /\ srv[g].is # "closed" /\ (g \in cut \/ srv[g].is = "closing")
  /\ srv[g].is = "none" => g < gen \/ link.is = "dead"
  /\ up[g] = <<>>
  /\ srv' = [srv EXCEPT ![g] = [is |-> "closed", open |-> Off]]
  /\ bound' = IF bound = g THEN 0 ELSE bound
  /\ UNCHANGED <<gen, link, runner, events, wireVars, inbox, ingested>>

----------------------------------------------------------------------------
(* The network and time *)

\* A socket dies, with any part of what it still carries at the end.
CutSocket ==
  /\ gen \in Gens \ cut /\ link.is # "dead"
  /\ \E i \in 0 .. Len(up[gen]), k \in 0 .. Len(down[gen]) :
       /\ up' = [up EXCEPT ![gen] = SubSeq(@, 1, i)]
       /\ down' = [down EXCEPT ![gen] = SubSeq(@, 1, k)]
  /\ cut' = cut \cup {gen}
  /\ UNCHANGED <<gen, link, runner, events, linkServerVars>>

Later(timer, last) == IF timer \in 0 .. last - 1 THEN timer + 1 ELSE timer
Aged(channel) == [g \in Gens |-> [i \in DOMAIN channel[g] |->
                                    [channel[g][i] EXCEPT !.new = FALSE]]]

\* Time passes, but no timer is left running Lag ticks beyond its end.
LinkTick ==
  /\ link.open < Handshake + Lag
  /\ link.probe < ProbeWithin + Lag
  /\ link.probe = Off => link.proved < ProbeEvery + Lag
  /\ runner.is = "up" => runner.loss < Grace + Lag
  /\ link' = [link EXCEPT !.open = Later(@, Handshake + Lag),
                          !.probe = Later(@, ProbeWithin + Lag),
                          !.proved = Later(@, ProbeEvery + ProbeWithin + 3 * Lag)]
  /\ runner' = [runner EXCEPT !.loss = Later(@, Grace + Lag),
                              !.away = Later(@, Grace + Lag),
                              !.retry = IF @ = Started THEN Off ELSE @]
  /\ srv' = [g \in Gens |-> [srv[g] EXCEPT !.open = Later(@, Handshake)]]
  /\ events' = [e \in DOMAIN events |-> [events[e] EXCEPT !.kept = Later(@, RetainFor)]]
  /\ up' = Aged(up) /\ down' = Aged(down)
  /\ UNCHANGED <<gen, cut, bound, inbox, ingested>>

LinkNext ==
  \/ Connect \/ Opens \/ ReceiveReady \/ ReceivePong \/ Probe \/ TimesOut
  \/ Disconnects \/ Refused \/ GraceExpires \/ SendEvent
  \/ \E e \in OrdinaryEvents :
       RetentionExpires(e) \/ \E status \in Statuses : ReceiveAck(e, status)
  \/ \E g \in Gens :
       \/ ServerHello(g) \/ ServerReady(g) \/ ServerProbe(g) \/ ServerTimesOut(g)
       \/ ServerCloses(g) \/ ServerIngests(g)
       \/ \E e \in OrdinaryEvents : ServerEvent(g, e)
  \/ CutSocket \/ LinkTick

LinkSpec == LinkInit /\ [][LinkNext]_linkVars

----------------------------------------------------------------------------
(* Properties *)

\* A usable session was proved alive by its peer a bounded time ago, and the
\* server has it registered or has closed it since.
UsableIsProved ==
  link.is = "usable" =>
    /\ link.proved <= ProbeEvery + ProbeWithin + 2 * Lag
    /\ srv[gen].is \in {"active", "closing", "closed"}
    /\ bound # gen => srv[gen].is # "active"

\* Without a usable session the daemon goes on for the grace at most, counted
\* from the first loss: attempts that fail do not extend it, and no session is
\* accepted once it is over.
LossIsBounded ==
  /\ (runner.is = "up" /\ runner.everUsable /\ link.is # "usable") =>
       runner.loss = runner.away /\ runner.away \in 0 .. Grace + Lag
  /\ link.is = "usable" => runner.loss = Off /\ runner.after < Grace

\* Neither end's view of the handshake makes the server refuse a daemon that
\* keeps the protocol.
NotRefusedByProtocol == runner.why # "protocol"

\* What is reported as delivered has come in, and an event comes in only after
\* each one before it came in or was reported as failed, whatever is rejected,
\* lost, replayed or still queued at an older binding.
OrdinaryInOrder ==
  /\ \A e \in DOMAIN events : events[e].is = "delivered" => Contains(ingested, e)
  /\ \A i \in DOMAIN ingested : \A e \in 1 .. ingested[i] :
       Contains(SubSeq(ingested, 1, i), e) \/ events[e].is = "failed"

\* The session of a managed daemon over sockets that open, die and are
\* replaced at any moment (managed-ws-transport.ts, managed-node-runner.ts,
\* node-ws.ts).
LinkHolds == UsableIsProved /\ LossIsBounded /\ NotRefusedByProtocol /\ OrdinaryInOrder
=============================================================================
