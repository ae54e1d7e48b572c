------------------------------ MODULE RunDispatch ------------------------------
(***************************************************************************)
(* Execution of runs on one computer: the server's node bindings (one per  *)
(* WebSocket), its disconnect grace window and its startup recovery, the   *)
(* daemon's node client with its processes, and the frames between them.    *)
(* The store is RunStore; here its node-driven actions happen only when the *)
(* protocol makes them happen.                                             *)
(*                                                                         *)
(* Connections are numbered in the order the daemon opens them.  The daemon *)
(* is the ordinary one (no managed journal); its event receipts are on.     *)
(***************************************************************************)
EXTENDS RunStore, Sequences, SequencesExt

CONSTANTS
  MaxConn,        \* connections the daemon opens
  Budgets,        \* what a behaviour may have of each of the events below
  OrderedClose,   \* the server sees the end of a socket before the next hello
  PromptServer    \* database work under way ends before connections change

ASSUME DispatchAssumption ==
  /\ MaxConn \in Nat
  /\ Budgets \subseteq [cancel : Nat,   \* cancel requests of users
                        timeout : Nat,  \* stop and resume timeouts before the answer
                        fault : Nat,    \* ingestions and stops of a process that fail
                        restart : Nat]  \* restarts of the server and of the daemon
  /\ {OrderedClose, PromptServer} \subseteq BOOLEAN
  /\ 0..2 \subseteq Seqs
  /\ IsFiniteSet(Runs)

Conns == 1..MaxConn

VARIABLES
  binding,   \* attachNodeBinding: the state of each connection at the server
  reg,       \* NodeRegistry: the connection of the current binding, 0 if none
  grace,     \* the snapshot of the armed grace window, {} if none is armed
  expiring,  \* runs the expiry callback of a window has still to fail
  queued,    \* runs whose onRunQueued callback has not read the run yet
  startOps,  \* <<run, connection>>: sendRunStart past its last status read
  stopDone,  \* <<run, intent>>: a caller of dispatchRunStop whose promise resolved
  cur,       \* ws-transport: the open socket of the daemon, 0 if none
  nrun,      \* node-client: none, starting, live (runs) or finished
  alive,     \* runs with a living process
  spawned,   \* processes ever started for the run
  exit,      \* the terminal event the adapter yields after the process exited
  pend,      \* the run's event that waits for its receipt
  nodeTodo,  \* <<connection, frame>>: handlers of the daemon under way
  s2n, n2s,  \* frames under way on each connection
  stopNo,    \* run.stop commands sent for the run (their command ids)
  left       \* what remains of the budget

serverVars == <<binding, reg, grace, expiring, queued, startOps, stopDone>>
nodeVars == <<cur, nrun, alive, spawned, exit, pend, nodeTodo>>
netVars == <<s2n, n2s, stopNo>>
dispatchVars == <<storeVars, serverVars, nodeVars, netVars, left>>

Frame(op, r, n, status) == [op |-> op, run |-> r, n |-> n, status |-> status]
NoEvent == [seq |-> 0, body |-> None, last |-> FALSE]
Event(seq, body, last) == [seq |-> seq, body |-> body, last |-> last]

NewBinding ==
  [side |-> "none",   \* none, open, active (registered), ready (resume list read), closed
   snap |-> {},       \* runs of the disarmed grace window
   todo |-> {},       \* runs activate() has still to resume
   start |-> {},      \* pendingCommandRun
   resume |-> {},     \* pendingResumeRun
   reconcile |-> {},  \* reconcileSurvivingProcess before its read of the run
   stop |-> [r \in Runs |-> "idle"],  \* stoppingRuns: idle, sent, acked
   wait |-> {},       \* <<run, intent>>: callers awaiting dispatchRunStop
   work |-> <<>>]     \* the queue of enqueue()

DispatchInit ==
  /\ Init
  /\ binding = [c \in Conns |-> NewBinding]
  /\ reg = 0 /\ grace = {} /\ expiring = {} /\ queued = {} /\ startOps = {} /\ stopDone = {}
  /\ cur = 0
  /\ nrun = [r \in Runs |-> "none"]
  /\ alive = {}
  /\ spawned = [r \in Runs |-> 0]
  /\ exit = [r \in Runs |-> None]
  /\ pend = [r \in Runs |-> NoEvent]
  /\ nodeTodo = {}
  /\ s2n = [c \in Conns |-> <<>>] /\ n2s = [c \in Conns |-> <<>>]
  /\ stopNo = [r \in Runs |-> 0]
  /\ left \in Budgets

Spend(what) == left[what] > 0 /\ left' = [left EXCEPT ![what] = @ - 1]

\* A frame reaches the daemon only if its socket is still this connection.
Sent(c, f) == IF cur = c THEN [s2n EXCEPT ![c] = Append(@, f)] ELSE s2n

ActiveRuns == {r \in Runs : Active(r)}

-------------------------------------------------------------------------------
(* Users.  Of the store's operations those of a task without execution gates; *)
(* they change no dispatch state.                                             *)

UserStep ==
  /\ \E t \in Tasks : \/ MarkReady(t) \/ AcceptReview(t)
                      \/ RequestChanges(t) \/ RetryTask(t)
  /\ UNCHANGED <<serverVars, nodeVars, netVars, left>>

\* assignTask commits the queued run, then calls onRunQueued.
Assign(t, r) ==
  /\ AssignTask(t, r)
  /\ queued' = queued \cup {r}
  /\ UNCHANGED <<binding, reg, grace, expiring, startOps, stopDone, nodeVars, netVars, left>>

-------------------------------------------------------------------------------
(* Dispatch of run.start (app.ts, node-binding.ts). *)

\* onRunQueued looks up the current binding, which reads that the run is queued.
OnRunQueued(r) ==
  /\ r \in queued
  /\ queued' = queued \ {r}
  /\ startOps' = IF reg # 0 /\ run[r] = "queued" THEN startOps \cup {<<r, reg>>} ELSE startOps
  /\ UNCHANGED <<storeVars, binding, reg, grace, expiring, stopDone, nodeVars, netVars, left>>

\* sendRunStart after its last read: nothing is sent by a binding that is no
\* longer the current one, otherwise the command is on its way.
SendRunStart(r, c) ==
  /\ <<r, c>> \in startOps
  /\ startOps' = startOps \ {<<r, c>>}
  /\ IF reg = c
     THEN /\ binding' = [binding EXCEPT ![c].start = @ \cup {r}]
          /\ s2n' = Sent(c, Frame("start", r, 0, ""))
     ELSE UNCHANGED <<binding, s2n>>
  /\ UNCHANGED <<storeVars, reg, grace, expiring, queued, stopDone, nodeVars, n2s, stopNo, left>>

-------------------------------------------------------------------------------
(* Connections (node-ws.ts, ws-transport.ts, grace-window.ts). *)

PendingFrames ==
  SetToSeq({Frame("event", r, pend[r].seq, pend[r].body) : r \in {x \in Runs : pend[x] # NoEvent}})

\* connect: hello, then every frame without a receipt is sent again.
NodeConnect(c) ==
  /\ cur = 0
  /\ binding[c].side = "none"
  /\ \A d \in 1..(c - 1) :
       /\ binding[d].side # "none"
       /\ OrderedClose => binding[d].side = "closed"
  /\ cur' = c
  /\ binding' = [binding EXCEPT ![c].side = "open"]
  /\ n2s' = [n2s EXCEPT ![c] = PendingFrames]
  /\ UNCHANGED <<storeVars, reg, grace, expiring, queued, startOps, stopDone,
                 nrun, alive, spawned, exit, pend, nodeTodo, s2n, stopNo, left>>

\* The socket is lost, or the daemon notices that the server closed it.
NodeDrop(c) ==
  /\ cur = c
  /\ cur' = 0
  /\ s2n' = [s2n EXCEPT ![c] = <<>>]
  /\ UNCHANGED <<storeVars, serverVars, nrun, alive, spawned, exit, pend, nodeTodo,
                 n2s, stopNo, left>>

\* Mutant: run.start is sent again for the runs that are still queued.
MutActivate(c) ==
  /\ binding[c].side = "open"
  /\ PromptServer => /\ queued = {}
                     /\ \A d \in Conns : binding[d].side = "closed" => binding[d].work = <<>>
  /\ binding' = [binding EXCEPT ![c].side = "active", ![c].snap = grace]
  /\ reg' = c
  /\ grace' = {}
  /\ queued' = {r \in Runs : run[r] = "queued"}
  /\ SetComputerOnline(ComputerOf[CHOOSE r \in Runs : TRUE])
  /\ UNCHANGED <<expiring, startOps, stopDone, nodeVars, netVars, left>>

\* activate: the hello was accepted; the binding replaces any other one.
Activate(c) ==
  /\ binding[c].side = "open"
  /\ PromptServer => /\ queued = {}
                     /\ \A d \in Conns : binding[d].side = "closed" => binding[d].work = <<>>
  /\ binding' = [binding EXCEPT ![c].side = "active", ![c].snap = grace]
  /\ reg' = c
  /\ grace' = {}
  /\ SetComputerOnline(ComputerOf[CHOOSE r \in Runs : TRUE])
  /\ UNCHANGED <<expiring, queued, startOps, stopDone, nodeVars, netVars, left>>

\* The runs of the snapshot that are still active, and the uncertain ones.
ResumeList(c) ==
  /\ binding[c].side = "active"
  /\ binding' = [binding EXCEPT
       ![c].side = "ready", ![c].snap = {},
       ![c].todo = (binding[c].snap \cap ActiveRuns) \cup {r \in Runs : UnconfirmedDisconnect(r)}]
  /\ UNCHANGED <<storeVars, reg, grace, expiring, queued, startOps, stopDone,
                 nodeVars, netVars, left>>

\* dispatchRunResume, while the binding is the current one.
SendRunResume(c, r) ==
  /\ r \in binding[c].todo
  /\ IF reg = c
     THEN /\ binding' = [binding EXCEPT ![c].todo = @ \ {r}, ![c].resume = @ \cup {r}]
          /\ s2n' = Sent(c, Frame("resume", r, 0, ""))
     ELSE /\ binding' = [binding EXCEPT ![c].todo = {}]
          /\ UNCHANGED s2n
  /\ UNCHANGED <<storeVars, reg, grace, expiring, queued, startOps, stopDone,
                 nodeVars, n2s, stopNo, left>>

\* What close() leaves of a binding: the work already queued, and the callers
\* whose stop was already acknowledged.
ClosedBinding(b) ==
  [NewBinding EXCEPT
     !.side = "closed", !.work = b.work,
     !.stop = [r \in Runs |-> IF b.stop[r] = "acked" THEN "acked" ELSE "idle"],
     !.wait = {w \in b.wait : b.stop[w[1]] = "acked"}]

\* The server notices the end of the socket.  Only the current binding takes the
\* computer offline and arms the grace window with its active runs.
ServerClose(c) ==
  /\ cur # c /\ binding[c].side \in {"open", "active", "ready"}
  /\ PromptServer => queued = {}
  /\ binding' = [binding EXCEPT ![c] = ClosedBinding(@)]
  /\ n2s' = [n2s EXCEPT ![c] = <<>>]
  /\ IF reg = c
     THEN /\ reg' = 0
          /\ grace' = ActiveRuns
          /\ SetComputerOffline(ComputerOf[CHOOSE r \in Runs : TRUE])
     ELSE UNCHANGED <<reg, grace, storeVars>>
  /\ UNCHANGED <<expiring, queued, startOps, stopDone, nodeVars, s2n, stopNo, left>>

GraceExpire ==
  /\ grace # {}
  /\ expiring' = expiring \cup grace
  /\ grace' = {}
  /\ UNCHANGED <<storeVars, binding, reg, queued, startOps, stopDone, nodeVars, netVars, left>>

\* Mutant: the end of the window counts as the exit of the process.
MutExpireRun(r) ==
  /\ r \in expiring
  /\ FailRunDaemonDisconnect(r, TRUE)
  /\ expiring' = expiring \ {r}
  /\ UNCHANGED <<binding, reg, grace, queued, startOps, stopDone, nodeVars, netVars, left>>

\* One turn of the expiry loop; it does not look whether the node came back.
ExpireRun(r) ==
  /\ r \in expiring
  /\ FailRunDaemonDisconnect(r, FALSE)
  /\ expiring' = expiring \ {r}
  /\ UNCHANGED <<binding, reg, grace, queued, startOps, stopDone, nodeVars, netVars, left>>

\* Mutant: no window is armed at the start.
MutServerRestart ==
  /\ Spend("restart")
  /\ binding' = [c \in Conns |-> [NewBinding EXCEPT
                   !.side = IF binding[c].side = "none" THEN "none" ELSE "closed"]]
  /\ reg' = 0 /\ grace' = {}
  /\ expiring' = {} /\ queued' = {} /\ startOps' = {} /\ stopDone' = {}
  /\ n2s' = [c \in Conns |-> <<>>]
  /\ SetComputerOffline(ComputerOf[CHOOSE r \in Runs : TRUE])
  /\ UNCHANGED <<nodeVars, s2n, stopNo>>

\* The server stops and starts: recoverInterruptedRuns marks the computers
\* offline and arms a window for every unfinished run.
ServerRestart ==
  /\ Spend("restart")
  /\ binding' = [c \in Conns |-> [NewBinding EXCEPT
                   !.side = IF binding[c].side = "none" THEN "none" ELSE "closed"]]
  /\ reg' = 0 /\ grace' = ActiveRuns
  /\ expiring' = {} /\ queued' = {} /\ startOps' = {} /\ stopDone' = {}
  /\ n2s' = [c \in Conns |-> <<>>]
  /\ SetComputerOffline(ComputerOf[CHOOSE r \in Runs : TRUE])
  /\ UNCHANGED <<nodeVars, s2n, stopNo>>

-------------------------------------------------------------------------------
(* Stopping (node-binding.ts, run-service.ts). *)

\* dispatchRunStop: callers of one binding share the run.stop under way.
DispatchRunStop(c, b, r, intent) ==
  LET sends == b.stop[r] = "idle" IN
  /\ binding' = [binding EXCEPT ![c] =
       [b EXCEPT !.wait = @ \cup {<<r, intent>>}, !.stop[r] = IF sends THEN "sent" ELSE @]]
  /\ stopNo' = IF sends THEN [stopNo EXCEPT ![r] = @ + 1] ELSE stopNo
  /\ s2n' = IF sends THEN Sent(c, Frame("stop", r, stopNo[r] + 1, "")) ELSE s2n

\* cancelRun up to its await: an offline computer refuses, without any change.
CancelRun(r) ==
  /\ Spend("cancel")
  /\ CanTransitionRun(run[r], "cancel")
  /\ reg # 0
  /\ DispatchRunStop(reg, binding[reg], r, "cancel")
  /\ UNCHANGED <<storeVars, reg, grace, expiring, queued, startOps, stopDone, nodeVars, n2s>>

\* reconcileSurvivingProcess up to its await, on a resumed run.
ReconcileSurvivingProcess(c, r) ==
  LET b == [binding[c] EXCEPT !.reconcile = @ \ {r}] IN
  /\ r \in binding[c].reconcile
  /\ IF run[r] = "failed" /\ reason[r] = "daemon_disconnect"
     THEN DispatchRunStop(c, b, r, "reconcile")
     ELSE /\ binding' = [binding EXCEPT ![c] = b]
          /\ UNCHANGED <<stopNo, s2n>>
  /\ UNCHANGED <<storeVars, reg, grace, expiring, queued, startOps, stopDone,
                 nodeVars, n2s, left>>

\* The stop of r is over: every caller on this binding learns of it.
StopSettled(c, b, r) ==
  [b EXCEPT !.stop[r] = "idle", !.wait = {w \in @ : w[1] # r}]

\* 15 seconds without an answer: every caller gets an error.
StopTimeout(c, r) ==
  /\ Spend("timeout")
  /\ binding[c].stop[r] = "sent"
  /\ binding' = [binding EXCEPT ![c] = StopSettled(c, @, r)]
  /\ UNCHANGED <<storeVars, reg, grace, expiring, queued, startOps, stopDone, nodeVars, netVars>>

\* The caller goes on after its stop: cancelRun's transaction, which reads the
\* run again, or the confirmation of the exit.
AfterStop(r, intent) ==
  /\ <<r, intent>> \in stopDone
  /\ stopDone' = stopDone \ {<<r, intent>>}
  /\ IF intent = "reconcile" THEN FailRunDaemonDisconnect(r, TRUE)
     ELSE IF CanTransitionRun(run[r], "cancel") THEN CancelRunCommit(r)
     ELSE UNCHANGED storeVars
  /\ UNCHANGED <<binding, reg, grace, expiring, queued, startOps, nodeVars, netVars, left>>

-------------------------------------------------------------------------------
(* Frames from the daemon (node-binding.ts, receive). *)

\* What the arrival of a frame does at once; the rest is queued as work.
Arrived(b, f) ==
  CASE f.op = "event" -> [b EXCEPT !.work = Append(@, f)]
    [] f.op = "stopAck" /\ b.stop[f.run] = "sent" /\ f.n = stopNo[f.run] ->
         [b EXCEPT !.stop[f.run] = "acked", !.work = Append(@, f)]
    [] f.op = "startAck" /\ f.run \in b.start ->
         [b EXCEPT !.start = @ \ {f.run},
                   !.work = IF f.status = "accepted" THEN @ ELSE Append(@, f)]
    [] f.op = "resumeAck" /\ f.run \in b.resume /\ f.status = "accepted" ->
         [b EXCEPT !.resume = @ \ {f.run}, !.reconcile = @ \cup {f.run}]
    [] f.op = "resumeAck" /\ f.run \in b.resume /\ f.status # "accepted" ->
         [b EXCEPT !.resume = @ \ {f.run}, !.work = Append(@, f)]
    [] OTHER -> b

Receive(c) ==
  /\ binding[c].side \in {"active", "ready"}
  /\ n2s[c] # <<>>
  /\ binding' = [binding EXCEPT ![c] = Arrived(@, Head(n2s[c]))]
  /\ n2s' = [n2s EXCEPT ![c] = Tail(@)]
  /\ UNCHANGED <<storeVars, reg, grace, expiring, queued, startOps, stopDone,
                 nodeVars, s2n, stopNo, left>>

\* 15 seconds without an answer to run.resume.
ResumeTimeout(c, r) ==
  /\ Spend("timeout")
  /\ r \in binding[c].resume
  /\ binding' = [binding EXCEPT ![c].resume = @ \ {r},
                                ![c].work = Append(@, Frame("resumeTimeout", r, 0, ""))]
  /\ UNCHANGED <<storeVars, reg, grace, expiring, queued, startOps, stopDone, nodeVars, netVars>>

\* Head of the work queue of c, if it is of this kind.
Working(c, op) == binding[c].work # <<>> /\ Head(binding[c].work).op = op
WorkDone(c) == [binding EXCEPT ![c].work = Tail(@)]

WorkUnchanged == UNCHANGED <<reg, grace, expiring, queued, startOps, nodeVars, n2s, stopNo>>

\* An event: ingested, or a duplicate, or refused, then its receipt goes out.
WorkEvent(c) ==
  /\ Working(c, "event")
  /\ binding' = WorkDone(c)
  /\ LET f == Head(binding[c].work) IN
     \/ /\ ~IsDuplicate(f.run, f.n)
        /\ IngestRunEvent(f.run, f.n, f.status)
        /\ s2n' = Sent(c, Frame("receipt", f.run, f.n, "accepted"))
        /\ UNCHANGED left
     \/ /\ IsDuplicate(f.run, f.n)
        /\ s2n' = Sent(c, Frame("receipt", f.run, f.n,
                    IF receipts[f.run][f.n] = f.status THEN "accepted" ELSE "rejected"))
        /\ UNCHANGED <<storeVars, left>>
     \/ /\ Spend("fault")
        /\ s2n' = Sent(c, Frame("receipt", f.run, f.n, "rejected"))
        /\ UNCHANGED storeVars
  /\ UNCHANGED stopDone /\ WorkUnchanged

WorkStartRejected(c) ==
  /\ Working(c, "startAck")
  /\ binding' = WorkDone(c)
  /\ FailRunStart(Head(binding[c].work).run)
  /\ UNCHANGED <<stopDone, s2n, left>> /\ WorkUnchanged

\* Mutant: a rejected resume is handled as a rejected start.
MutWorkResumeRejected(c) ==
  /\ Working(c, "resumeAck")
  /\ binding' = WorkDone(c)
  /\ FailRunStart(Head(binding[c].work).run)
  /\ UNCHANGED <<stopDone, s2n, left>> /\ WorkUnchanged

WorkResumeRejected(c) ==
  /\ Working(c, "resumeAck")
  /\ binding' = WorkDone(c)
  /\ FailRunDaemonDisconnect(Head(binding[c].work).run, TRUE)
  /\ UNCHANGED <<stopDone, s2n, left>> /\ WorkUnchanged

\* The run is failed without a confirmation, then its process is looked for.
WorkResumeTimeout(c) ==
  LET r == Head(binding[c].work).run IN
  /\ Working(c, "resumeTimeout")
  /\ binding' = IF binding[c].side = "closed" THEN WorkDone(c)
                ELSE [WorkDone(c) EXCEPT ![c].reconcile = @ \cup {r}]
  /\ FailRunDaemonDisconnect(r, FALSE)
  /\ UNCHANGED <<stopDone, s2n, left>> /\ WorkUnchanged

WorkStopAck(c) ==
  LET f == Head(binding[c].work) IN
  /\ Working(c, "stopAck")
  /\ binding' = [WorkDone(c) EXCEPT ![c] = StopSettled(c, @, f.run)]
  /\ stopDone' = IF f.status = "accepted"
                 THEN stopDone \cup {w \in binding[c].wait : w[1] = f.run} ELSE stopDone
  /\ UNCHANGED <<storeVars, s2n, left>> /\ WorkUnchanged

-------------------------------------------------------------------------------
(* The daemon (node-client.ts).  Frames are handled concurrently; the handlers *)
(* of run.stop and run.resume wait while the run is starting.                  *)

\* Answers use the command's id, which another connection's binding ignores.
Up(c) == cur = c /\ c # 0 /\ binding[c].side # "closed"
Answer(c, f) == IF Up(c) THEN [n2s EXCEPT ![c] = Append(@, f)] ELSE n2s
SendEvent(r, e) == Answer(cur, Frame("event", r, e.seq, e.body))

\* Retries never spawn another writer.
OnRunStart(c, f) ==
  IF nrun[f.run] = "none"
  THEN /\ nrun' = [nrun EXCEPT ![f.run] = "starting"]
       /\ nodeTodo' = nodeTodo \cup {<<c, f>>}
       /\ UNCHANGED n2s
  ELSE /\ n2s' = Answer(c, Frame("startAck", f.run, 0, "accepted"))
       /\ UNCHANGED <<nrun, nodeTodo>>

NodeReceive(c) ==
  /\ cur = c /\ s2n[c] # <<>>
  /\ Head(s2n[c]).op \in {"start", "stop", "resume"}
  /\ s2n' = [s2n EXCEPT ![c] = Tail(@)]
  /\ LET f == Head(s2n[c]) IN
     IF f.op = "start" THEN OnRunStart(c, f)
     ELSE nodeTodo' = nodeTodo \cup {<<c, f>>} /\ UNCHANGED <<nrun, n2s>>
  /\ UNCHANGED <<storeVars, serverVars, cur, alive, spawned, exit, pend, stopNo, left>>

\* executeStart fails before a process exists; no trace of the run is kept.
StartFails(r) ==
  \E h \in nodeTodo :
    /\ h[2].op = "start" /\ h[2].run = r
    /\ nodeTodo' = nodeTodo \ {h}
    /\ nrun' = [nrun EXCEPT ![r] = "none"]
    /\ n2s' = Answer(h[1], Frame("startAck", r, 0, "rejected"))
    /\ UNCHANGED <<storeVars, serverVars, cur, alive, spawned, exit, pend, s2n, stopNo, left>>

\* The adapter returned a handle; streamStartedRun acknowledges the start and
\* sends the adapter's first event.
StartSucceeds(r) ==
  \E h \in nodeTodo :
    /\ h[2].op = "start" /\ h[2].run = r
    /\ nodeTodo' = nodeTodo \ {h}
    /\ nrun' = [nrun EXCEPT ![r] = "live"]
    /\ alive' = alive \cup {r}
    /\ spawned' = [spawned EXCEPT ![r] = @ + 1]
    /\ exit' = [exit EXCEPT ![r] = None]
    /\ pend' = [pend EXCEPT ![r] = Event(0, "started", FALSE)]
    /\ n2s' = LET started == Frame("event", r, 0, "started")
                  ack == Frame("startAck", r, 0, "accepted")
              IN IF ~Up(cur) THEN n2s
                 ELSE [n2s EXCEPT ![cur] = @ \o IF cur = h[1] THEN <<ack, started>> ELSE <<started>>]
    /\ UNCHANGED <<storeVars, serverVars, cur, s2n, stopNo, left>>

\* The process exits; its terminal event follows the events already yielded.
ProcessExit(r, body) ==
  /\ r \in alive
  /\ alive' = alive \ {r}
  /\ exit' = [exit EXCEPT ![r] = body]
  /\ UNCHANGED <<storeVars, serverVars, cur, nrun, spawned, pend, nodeTodo, netVars, left>>

Kill(r) ==
  /\ alive' = alive \ {r}
  /\ exit' = [exit EXCEPT ![r] = IF r \in alive THEN "cancelled" ELSE @]

\* Mutant: the receipt of started is not awaited.
MutSendTerminal(r) ==
  /\ nrun[r] = "live" /\ exit[r] # None
  /\ pend' = [pend EXCEPT ![r] = Event(1, exit[r], FALSE)]
  /\ n2s' = SendEvent(r, Event(1, exit[r], FALSE))
  /\ UNCHANGED <<storeVars, serverVars, cur, nrun, alive, spawned, exit, nodeTodo, s2n, stopNo, left>>

\* streamStartedRun sends the terminal event once the receipt of started is in.
SendTerminal(r) ==
  /\ nrun[r] = "live" /\ pend[r] = NoEvent /\ exit[r] # None
  /\ pend' = [pend EXCEPT ![r] = Event(1, exit[r], FALSE)]
  /\ n2s' = SendEvent(r, Event(1, exit[r], FALSE))
  /\ UNCHANGED <<storeVars, serverVars, cur, nrun, alive, spawned, exit, nodeTodo, s2n, stopNo, left>>

\* onRunStop, once the run is not starting: a tombstone for an unknown run, the
\* end of a live process, which may fail.
OnRunStop(c, f) ==
  LET r == f.run IN
  /\ <<c, f>> \in nodeTodo /\ f.op = "stop"
  /\ nrun[r] # "starting"
  /\ nodeTodo' = nodeTodo \ {<<c, f>>}
  /\ \/ /\ nrun[r] # "live"
        /\ nrun' = [nrun EXCEPT ![r] = "finished"]
        /\ n2s' = Answer(c, Frame("stopAck", r, f.n, "accepted"))
        /\ UNCHANGED <<alive, exit, left>>
     \/ /\ nrun[r] = "live"
        /\ Kill(r)
        /\ n2s' = Answer(c, Frame("stopAck", r, f.n, "accepted"))
        /\ UNCHANGED <<nrun, left>>
     \/ /\ nrun[r] = "live" /\ Spend("fault")
        /\ n2s' = Answer(c, Frame("stopAck", r, f.n, "rejected"))
        /\ UNCHANGED <<nrun, alive, exit>>
  /\ UNCHANGED <<storeVars, serverVars, cur, spawned, pend, s2n, stopNo>>

\* Mutant: a run that is starting is reported absent.
MutOnRunResume(c, f) ==
  /\ <<c, f>> \in nodeTodo /\ f.op = "resume"
  /\ nodeTodo' = nodeTodo \ {<<c, f>>}
  /\ n2s' = Answer(c, Frame("resumeAck", f.run, 0,
              IF nrun[f.run] = "live" THEN "accepted" ELSE "process_exited"))
  /\ UNCHANGED <<storeVars, serverVars, cur, nrun, alive, spawned, exit, pend, s2n, stopNo, left>>

\* onRunResume reports whether the run has a handle; it never starts anything.
OnRunResume(c, f) ==
  /\ <<c, f>> \in nodeTodo /\ f.op = "resume"
  /\ nrun[f.run] # "starting"
  /\ nodeTodo' = nodeTodo \ {<<c, f>>}
  /\ n2s' = Answer(c, Frame("resumeAck", f.run, 0,
              IF nrun[f.run] = "live" THEN "accepted" ELSE "process_exited"))
  /\ UNCHANGED <<storeVars, serverVars, cur, nrun, alive, spawned, exit, pend, s2n, stopNo, left>>

\* The event's receipt is in: the stream goes on, or it is over.
ReceiptAccepted(r) ==
  /\ nrun' = [nrun EXCEPT ![r] = IF pend[r].body = "started" THEN @ ELSE "finished"]
  /\ pend' = [pend EXCEPT ![r] = NoEvent]
  /\ UNCHANGED <<alive, exit, n2s, left>>

\* A refused event ends the stream: the process is stopped, then the run is
\* reported failed; if the stop fails nothing is reported.  A refused report
\* is not repeated.
ReceiptRejected(r) ==
  \/ /\ pend[r].last
     /\ nrun' = [nrun EXCEPT ![r] = "finished"]
     /\ pend' = [pend EXCEPT ![r] = NoEvent]
     /\ UNCHANGED <<alive, exit, n2s, left>>
  \/ /\ ~pend[r].last
     /\ Kill(r)
     /\ LET e == Event(pend[r].seq + 1, "failed", TRUE) IN
          pend' = [pend EXCEPT ![r] = e] /\ n2s' = SendEvent(r, e)
     /\ UNCHANGED <<nrun, left>>
  \/ /\ ~pend[r].last /\ r \in alive /\ Spend("fault")
     /\ nrun' = [nrun EXCEPT ![r] = "finished"]
     /\ pend' = [pend EXCEPT ![r] = NoEvent]
     /\ UNCHANGED <<alive, exit, n2s>>

\* run.event.ack; a receipt of an event that no longer waits is ignored.
NodeReceipt(c) ==
  /\ cur = c /\ s2n[c] # <<>>
  /\ Head(s2n[c]).op = "receipt"
  /\ s2n' = [s2n EXCEPT ![c] = Tail(@)]
  /\ LET f == Head(s2n[c]) IN
     IF pend[f.run] = NoEvent \/ pend[f.run].seq # f.n
     THEN UNCHANGED <<nrun, pend, alive, exit, n2s, left>>
     ELSE IF f.status = "accepted" THEN ReceiptAccepted(f.run) ELSE ReceiptRejected(f.run)
  /\ UNCHANGED <<storeVars, serverVars, cur, spawned, nodeTodo, stopNo>>

\* The daemon dies: the guardians kill its processes; it starts with no memory.
NodeRestart ==
  /\ Spend("restart")
  /\ cur' = 0
  /\ nrun' = [r \in Runs |-> "none"]
  /\ alive' = {}
  /\ exit' = [r \in Runs |-> None]
  /\ pend' = [r \in Runs |-> NoEvent]
  /\ nodeTodo' = {}
  /\ s2n' = [c \in Conns |-> <<>>]
  /\ UNCHANGED <<storeVars, serverVars, spawned, n2s, stopNo>>

-------------------------------------------------------------------------------

ServerStep(c) ==
  \/ Activate(c) \/ ResumeList(c) \/ ServerClose(c) \/ Receive(c)
  \/ WorkEvent(c) \/ WorkStartRejected(c) \/ WorkStopAck(c)
  \/ WorkResumeRejected(c) \/ WorkResumeTimeout(c)
  \/ \E r \in Runs : \/ SendRunStart(r, c) \/ SendRunResume(c, r)
                      \/ ReconcileSurvivingProcess(c, r)

RunStep(r) ==
  \/ OnRunQueued(r) \/ ExpireRun(r)
  \/ \E intent \in {"cancel", "reconcile"} : AfterStop(r, intent)

NodeFrame(c) == NodeReceive(c) \/ NodeReceipt(c)
NodeHandler(r) ==
  \/ StartFails(r) \/ StartSucceeds(r) \/ SendTerminal(r)
  \/ \E h \in nodeTodo : h[2].run = r /\ (OnRunStop(h[1], h[2]) \/ OnRunResume(h[1], h[2]))

ProcessEnds(r) == \E body \in {"completed", "failed"} : ProcessExit(r, body)

DispatchNext ==
  \/ UserStep
  \/ \E t \in Tasks, r \in Runs : Assign(t, r)
  \/ \E r \in Runs : CancelRun(r) \/ RunStep(r) \/ NodeHandler(r) \/ ProcessEnds(r)
  \/ \E c \in Conns : ServerStep(c) \/ NodeConnect(c) \/ NodeDrop(c) \/ NodeFrame(c)
  \/ \E c \in Conns, r \in Runs : StopTimeout(c, r) \/ ResumeTimeout(c, r)
  \/ GraceExpire \/ ServerRestart \/ NodeRestart

DispatchSpec == DispatchInit /\ [][DispatchNext]_dispatchVars

\* The two programs take their own steps, timers fire, processes end and a dead
\* socket is noticed by its server; nobody has to reconnect, cancel or fail.
Fairness ==
  /\ WF_dispatchVars(GraceExpire)
  /\ \A c \in Conns : WF_dispatchVars(ServerStep(c)) /\ WF_dispatchVars(NodeFrame(c))
  /\ \A r \in Runs : /\ WF_dispatchVars(RunStep(r)) /\ WF_dispatchVars(NodeHandler(r))
                      /\ WF_dispatchVars(ProcessEnds(r))

FairDispatchSpec == DispatchSpec /\ Fairness

-------------------------------------------------------------------------------
(* Properties. *)

DispatchTypeOK ==
  /\ \A c \in Conns :
       /\ binding[c].side \in {"none", "open", "active", "ready", "closed"}
       /\ binding[c].snap \cup binding[c].todo \cup binding[c].start
            \cup binding[c].resume \cup binding[c].reconcile \subseteq Runs
       /\ binding[c].stop \in [Runs -> {"idle", "sent", "acked"}]
       /\ \A w \in binding[c].wait : binding[c].stop[w[1]] # "idle"
  /\ reg \in {0} \cup Conns
  /\ reg # 0 => binding[reg].side \in {"active", "ready"}
  /\ grace \cup expiring \cup queued \subseteq Runs
  /\ startOps \subseteq Runs \X Conns
  /\ stopDone \subseteq Runs \X {"cancel", "reconcile"}
  /\ cur \in {0} \cup Conns
  /\ nrun \in [Runs -> {"none", "starting", "live", "finished"}]
  /\ alive \subseteq Runs
  /\ \A r \in Runs : pend[r] # NoEvent => nrun[r] = "live"
  /\ \A r \in Runs : nrun[r] = "starting" <=>
        \E h \in nodeTodo : h[2].op = "start" /\ h[2].run = r

\* Whatever the order of frames, drops, restarts and timeouts, the store only
\* takes the steps RunStore allows: its assumptions about the owning node
\* (NodeDelivers, NodeRejectsStart) are met.
ImplementsStore == Spec

\* node-client.ts: retries never spawn another writer.  A run has one process in
\* its life, also across reconnections and restarts of both sides.
SpawnedOnce == \A r \in Runs : spawned[r] <= 1

\* A run settled on its node's word (a terminal event, a rejected start or a
\* confirmed stop) has no living process.
SettledRunIsDead ==
  \A r \in Runs :
    run[r] \in {"completed", "cancelled"} \/ (run[r] = "failed" /\ reason[r] = "other")
      => r \notin alive

\* dispatchRunStop "resolves only after the node has confirmed that the process
\* is stopped": a caller that goes on finds no living process.
StopConfirmed == \A w \in stopDone : w[1] \notin alive

\* node-binding.ts: "only explicit process_exited proves absence".  A run whose
\* exit is confirmed, on any way, has no living process.
ConfirmedIsDead == \A r \in confirmed : r \notin alive

\* Whatever told the server of the end of a process (a terminal event, a stop that
\* resolved, a confirmed exit), over whichever connection and in whichever order,
\* the process is gone and does not start again.
EndsAreTrue == DispatchTypeOK /\ SettledRunIsDead /\ StopConfirmed /\ ConfirmedIsDead

\* run-service.ts: leases are held until the owning node confirms absence or
\* completes the stop, so that a living process always writes under its leases.
LeasesCoverProcess == \A r \in alive : PathsOf[r] # {} => r \in held

\* transition-service.ts: "a duplicate/stale request changes nothing".  An
\* assigned task goes back to ready only together with an active run of it that
\* fails, never by the late rejection of an earlier run.
TaskFreedByItsRun ==
  [][\A t \in Tasks : task[t] = "assigned" /\ task'[t] = "ready"
       => \E r \in RunsOf(t) : Active(r) /\ run'[r] = "failed"]_dispatchVars

\* No run stays active for ever: a lost node or a lost frame, too, ends in the
\* failure of the run.
RunSettles == \A r \in Runs : Active(r) ~> ~Active(r)
===============================================================================
