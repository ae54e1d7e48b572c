------------------------------ MODULE ManagedRun ------------------------------
(***************************************************************************)
(* One per-run launch on a managed daemon: its start, stop, settlement and  *)
(* delivery (node-client.ts, managed-delivery.ts), the facade and worker of *)
(* its journal, its session with the server (managed-ws-transport.ts) and    *)
(* the process.  The journal and the process survive a crash of the daemon;  *)
(* the record d does not.  The server is external: it accepts or rejects     *)
(* each frame, and accepts again what it has accepted.                      *)
(***************************************************************************)
EXTENDS ManagedJournal

CONSTANTS
  MaxLive,      \* live events the process produces
  MaxCrashes,   \* crashes of the daemon and reboots of its computer
  MaxTroubles   \* sessions lost, storage errors and rejected events, together

ASSUME ManagedAssumption == {MaxLive, MaxCrashes, MaxTroubles} \subseteq Nat

VARIABLES
  j,         \* the journal
  d,         \* the daemon's memory
  boot,      \* boot session of the computer
  child,     \* the process: none, running, exited
  launches,  \* processes ever started
  wire,      \* frames on their way: <<event, on the current session?>>
  acks,      \* receipts on their way on the current session: <<event, status>>
  srv,       \* events the server has accepted
  left       \* crashes and troubles still to come

managedVars == <<j, d, boot, child, launches, wire, acks, srv, left>>
outside == <<boot, child, launches>>
network == <<wire, acks, srv>>

NoHand == [i |-> 0, a |-> 0, st |-> "none"]

NewDaemon(inc, clock) ==
  [up |-> TRUE, inc |-> inc,
   clock |-> clock,       \* readDeliveryClock: the boot session, 0 if unreadable
   usable |-> TRUE,       \* the journal answers
   sess |-> TRUE,         \* the session is usable
   fatal |-> FALSE,       \* the runner gave up: its transport is closed
   step |-> "idle",
   ctl |-> FALSE,         \* the controller of the start is aborted
   cancelled |-> FALSE,   \* the signal of the delivery is aborted
   ustop |-> FALSE,       \* userStopRequested
   stopReq |-> FALSE,     \* requestStop has not reached the journal
   failure |-> FALSE,     \* managed.failure is set
   term |-> "none",       \* outcome to settle
   sending |-> FALSE,     \* sendLive under way
   hand |-> NoHand,       \* the claim of the delivery loop: claimed, exposed, retry
   interrupted |-> NoHand,
   obs |-> {}]            \* receipt observers: <<event, attempt>>

ManagedInit ==
  /\ j = EmptyJournal /\ boot = 1
  /\ d = NewDaemon(1, 1)
  /\ child = "none" /\ launches = 0
  /\ wire = {} /\ acks = {} /\ srv = {}
  /\ left = [crash |-> MaxCrashes, trouble |-> MaxTroubles]

Spend(what) == left[what] > 0 /\ left' = [left EXCEPT ![what] = @ - 1]
Trouble == Spend("trouble")
At(step) == d.up /\ d.step = step
Journal(step) == At(step) /\ d.usable
\* A start that ended needs none of its flags any more.
Ended(e, step) == [e EXCEPT !.step = step, !.ctl = FALSE, !.ustop = FALSE, !.failure = FALSE,
                            !.term = "none", !.sending = FALSE]
GoTo(step) ==
  d' = IF step \in {"lost", "refused"} THEN Ended(d, step) ELSE [d EXCEPT !.step = step]
Failing(e) == [e EXCEPT !.step = "failing", !.ctl = FALSE, !.sending = FALSE, !.hand = NoHand]

\* Steps without a delivery whose signal could be aborted.
NoDelivery == {"idle", "refused", "lost", "done"}

\* The controller of a start exists until its outcome is settled.
Abort(e) ==
  [e EXCEPT !.ctl = @ \/ e.step \in {"admitted", "preparing", "launch_intent", "looked",
                                     "handle", "startup_error"}]

-------------------------------------------------------------------------------
(* Start (executePhysicalStart, startOwnedProcess). *)

RunStart ==
  /\ Journal("idle") /\ d.sess
  /\ IF Fresh(j) THEN j' = Admitted(j, d.inc) /\ GoTo("admitted")
                 ELSE j' = j /\ GoTo("refused")
  /\ UNCHANGED <<outside, network, left>>

Advance(from, to) ==
  /\ Journal(from) /\ CanAdvance(j, to)
  /\ to = "launch_intent" => ~d.ctl /\ d.sess
  /\ j' = Advanced(j, to) /\ GoTo(to)
  /\ UNCHANGED <<outside, network, left>>

\* Git, the adapter or a stop ends the start with no process known.
StartFails ==
  /\ \E s \in {"admitted", "preparing", "launch_intent", "looked"} : At(s)
  /\ GoTo("lost")
  /\ UNCHANGED <<j, outside, network, left>>

\* The last look at the journal before the adapter is called.
LastLookup ==
  /\ Journal("launch_intent") /\ ~j.stop /\ j.phase = "launch_intent"
  /\ GoTo("looked")
  /\ UNCHANGED <<j, outside, network, left>>

\* The adapter returns a handle, or fails with or without proof that its
\* process ended.
Spawn(result) ==
  /\ At("looked")
  /\ launches' = launches + 1
  /\ child' = IF result = "startup_error" THEN "exited" ELSE "running"
  /\ GoTo(result)
  /\ UNCHANGED <<j, boot, network, left>>

RecordStarted ==
  /\ Journal("handle") /\ CanStart(j)
  /\ j' = Started(j)
  /\ d' = IF d.ctl \/ ~d.sess THEN Failing([d EXCEPT !.failure = TRUE])
          ELSE [d EXCEPT !.step = "streaming", !.ctl = FALSE]
  /\ UNCHANGED <<outside, network, left>>

\* The producer could not be observed: the start is not recorded.
RecordFails ==
  /\ At("handle")
  /\ d' = Failing([d EXCEPT !.failure = TRUE])
  /\ UNCHANGED <<j, outside, network, left>>

-------------------------------------------------------------------------------
(* Live delivery (streamManagedRun, sendLive). *)

LiveEvents == {i \in DOMAIN j.out : j.out[i].role = "event"}

AppendLive ==
  /\ Journal("streaming") /\ ~d.cancelled /\ ~d.sending
  /\ Cardinality(LiveEvents) < MaxLive
  /\ IF CanAppend(j) THEN j' = Appended(j) /\ d' = [d EXCEPT !.sending = TRUE]
                     ELSE j' = j /\ d' = Failing(d)
  /\ UNCHANGED <<outside, network, left>>

LiveClaim ==
  /\ Journal("streaming") /\ d.sending /\ ~d.cancelled /\ d.hand = NoHand
  /\ IF LiveClaimable(j, d.clock)
     THEN LET i == LiveTarget(j)
          IN /\ j' = ClaimEvent(j, i, d.clock)
             /\ d' = [d EXCEPT !.hand = [i |-> i, a |-> Len(j'.out[i].attempts), st |-> "claimed"]]
     ELSE j' = LiveRefused(j, d.clock) /\ d' = Failing(d)
  /\ UNCHANGED <<outside, network, left>>

\* The adapter yields a terminal event; completed is refused once an abort is stored.
TerminalSeen(o) ==
  /\ Journal("streaming") /\ ~d.sending /\ ~d.cancelled
  /\ d' = IF o = "completed" /\ j.abort THEN Failing(d)
          ELSE [d EXCEPT !.term = o, !.step = "stopping"]
  /\ UNCHANGED <<j, outside, network, left>>

\* The stream ends without a terminal event, or the start's answer is not sent.
StreamFails ==
  /\ At("streaming") /\ ~d.sending
  /\ d' = Failing(d)
  /\ UNCHANGED <<j, outside, network, left>>

\* The abort is stored before the process is stopped; a storage error cannot
\* keep the process alive.
HandleFailure ==
  /\ At("failing")
  /\ LET byUser == d.ustop /\ ~j.abort /\ ~d.failure
     IN d' = [d EXCEPT !.step = "aborting", !.failure = TRUE,
                       !.term = IF @ \in {"failed", "cancelled"} THEN @
                                ELSE IF byUser THEN "cancelled" ELSE "failed"]
  /\ j' = IF d.usable THEN Aborted(j) ELSE j
  /\ UNCHANGED <<outside, network, left>>

\* Mutant: the settlement does not wait for the process to end.
MutStopChild(from, result) ==
  /\ At(from)
  /\ GoTo(result)
  /\ UNCHANGED <<j, boot, child, launches, network, left>>

\* stopOwnedRun confirms that the process is gone, or cannot; after a terminal
\* event there is a second try.
StopChild(from, result) ==
  /\ At(from)
  /\ child' = IF result = "settling" THEN "exited" ELSE child
  /\ GoTo(result)
  /\ UNCHANGED <<j, boot, launches, network, left>>

\* settleOwnedProcess, settleOwnedStartupFailure, then useClosed.
Settle(from, proof) ==
  /\ Journal(from)
  /\ LET o == IF proof = "returned_handle" THEN d.term
              ELSE IF d.ctl THEN "cancelled" ELSE "failed"
     IN IF CanClose(j, proof, o)
        THEN j' = Closed(j, o) /\ d' = Ended([d EXCEPT !.cancelled = FALSE, !.stopReq = FALSE], "closed")
        ELSE j' = j /\ d' = [Ended(d, "lost") EXCEPT !.usable = FALSE]
  /\ UNCHANGED <<outside, network, left>>

-------------------------------------------------------------------------------
(* Delivery of a claimed event (expose, waitRetry), live or closed. *)

Due == j.out[d.hand.i].due
Answered(i, a, status) ==
  IF j.phase = "closed" THEN ClosedAnswer(j, d.clock, i, a, status)
                        ELSE LiveAnswer(j, d.clock, i, a, status)

\* What the loop does once the journal has the answer of its own claim: a live
\* delivery that must stop fails the run, otherwise `next` follows.
Continue(next) ==
  d' = IF d.step = "streaming" /\ StopRequired(j') THEN Failing(next) ELSE next

Expose ==
  /\ d.up /\ d.hand.st = "claimed" /\ d.sess /\ ~d.cancelled /\ ~Due
  /\ d' = [d EXCEPT !.hand.st = "exposed", !.obs = @ \cup {<<d.hand.i, d.hand.a>>}]
  /\ wire' = wire \cup {<<d.hand.i, TRUE>>}
  /\ UNCHANGED <<j, outside, acks, srv, left>>

\* No session to write to, or the session ended before the receipt.
AttemptFails ==
  /\ d.up /\ d.usable /\ ~d.cancelled
  /\ \/ d.hand.st = "claimed" /\ ~d.sess
     \/ d.hand.st = "exposed" /\ <<d.hand.i, d.hand.a>> \notin d.obs
  /\ j' = Answered(d.hand.i, d.hand.a, "transport_failure")
  /\ Continue([d EXCEPT !.hand.st = "retry"])
  /\ UNCHANGED <<outside, network, left>>

\* Mutant: the wait for a session has no deadline.
MutAttemptTimesOut ==
  /\ d.up /\ d.usable /\ ~d.cancelled /\ d.hand.st \in {"claimed", "exposed"} /\ Due
  /\ j' = Answered(d.hand.i, d.hand.a, "receipt_timeout")
  /\ Continue([d EXCEPT !.hand = NoHand])
  /\ UNCHANGED <<outside, network, left>>

AttemptTimesOut ==
  /\ d.up /\ d.usable /\ ~d.cancelled /\ d.hand.st # "none" /\ Due
  /\ j' = Answered(d.hand.i, d.hand.a, "receipt_timeout")
  /\ Continue([d EXCEPT !.hand = NoHand])
  /\ UNCHANGED <<outside, network, left>>

Retry ==
  /\ d.up /\ ~d.cancelled /\ d.hand.st = "retry" /\ d.sess /\ ~Due
  /\ d' = [d EXCEPT !.hand = NoHand]
  /\ UNCHANGED <<j, outside, network, left>>

\* A receipt reaches its observer, which may have outlived its loop.
OnReceipt(i, a, status) ==
  /\ d.up /\ d.usable /\ <<i, a>> \in d.obs /\ <<i, status>> \in acks
  /\ acks' = acks \ {<<i, status>>}
  /\ j' = Answered(i, a, status)
  /\ LET seen == [d EXCEPT !.obs = @ \ {<<i, a>>}]
     IN IF d.hand = [i |-> i, a |-> a, st |-> "exposed"]
        THEN Continue([seen EXCEPT !.hand = NoHand, !.sending = FALSE])
        ELSE d' = seen
  /\ UNCHANGED <<outside, wire, srv, left>>

\* The signal, or a closed transport, wakes the loop; a claim in its hands is
\* kept for the settlement.
Cancelled ==
  /\ d.up /\ (d.cancelled \/ (d.fatal /\ d.hand.st = "retry")) /\ d.step \in {"streaming", "closed"}
  /\ d' = IF d.step = "closed" THEN [d EXCEPT !.step = "parked", !.hand = NoHand]
          ELSE [Failing(d) EXCEPT !.interrupted =
                  IF d.hand.st \in {"claimed", "exposed"} THEN d.hand ELSE NoHand]
  /\ UNCHANGED <<j, outside, network, left>>

-------------------------------------------------------------------------------
(* Delivery after the settlement (drainClosed, onRunResume). *)

DrainInterrupted ==
  /\ Journal("closed") /\ d.interrupted # NoHand
  /\ j' = ClosedAnswer(j, d.clock, d.interrupted.i, d.interrupted.a, "transport_failure")
  /\ d' = [d EXCEPT !.interrupted = NoHand]
  /\ UNCHANGED <<outside, network, left>>

DrainClaim ==
  /\ Journal("closed") /\ ~d.cancelled /\ d.interrupted = NoHand /\ d.hand = NoHand
  /\ LET k == Expired(j)
     IN CASE Delivered(j) -> j' = j /\ GoTo("done")
          [] ~Delivered(j) /\ ~Healthy(j, d.clock) -> j' = Viewed(j, d.clock) /\ GoTo("parked")
          [] ~Delivered(j) /\ Healthy(j, d.clock) /\ ~ClosedClaimable(k) -> j' = k /\ GoTo("parked")
          [] OTHER ->
               LET i == ClosedTarget(k)
               IN /\ j' = ClaimEvent(k, i, d.clock)
                  /\ d' = [d EXCEPT !.hand = [i |-> i, a |-> Len(j'.out[i].attempts), st |-> "claimed"]]
  /\ UNCHANGED <<outside, network, left>>

\* run.resume: the delivery of a settled run continues, in this process or the next.
Resume ==
  /\ d.up /\ d.usable /\ d.sess /\ d.step \in {"idle", "parked"}
  /\ j.receipt = "exit" /\ ~Delivered(j) /\ ~Blocked(j)
  /\ GoTo("closed")
  /\ UNCHANGED <<j, outside, network, left>>

-------------------------------------------------------------------------------
(* Stop, session, storage, crash. *)

\* requestManagedRunStop, onRunStop: memory first, then the journal.
UserStop ==
  /\ d.up /\ ~d.stopReq /\ ~j.stop
  /\ d' = Abort([d EXCEPT !.stopReq = TRUE, !.cancelled = d.step \notin NoDelivery,
                          !.ustop = d.step \notin NoDelivery /\ j.phase # "closed" /\ ~d.failure])
  /\ UNCHANGED <<j, outside, network, left>>

JournalStop ==
  /\ d.up /\ d.usable /\ d.stopReq
  /\ j' = Stopped(j)
  /\ d' = [d EXCEPT !.stopReq = FALSE]
  /\ UNCHANGED <<outside, network, left>>

Unsent == {<<f[1], FALSE>> : f \in wire}   \* frames of a session that ended

LoseSession ==
  /\ d.up /\ d.sess /\ Trouble
  /\ d' = Abort([d EXCEPT !.sess = FALSE, !.obs = {}])
  /\ wire' = Unsent /\ acks' = {}
  /\ UNCHANGED <<j, outside, srv>>

Reconnect ==
  /\ d.up /\ ~d.sess /\ ~d.fatal
  /\ d' = [d EXCEPT !.sess = TRUE]
  /\ UNCHANGED <<j, outside, network, left>>

\* The 30 second grace of the runner ends: failManagedConnection.
GraceExpires ==
  /\ d.up /\ ~d.sess /\ ~d.fatal
  /\ d' = Abort([d EXCEPT !.fatal = TRUE, !.cancelled = @ \/ d.step \notin NoDelivery,
                          !.failure = d.step \notin NoDelivery
                                      /\ (@ \/ (j.phase # "closed" /\ ~d.ustop))])
  /\ UNCHANGED <<j, outside, network, left>>

\* Any storage error or late reply makes the journal unusable for this process.
JournalFails ==
  /\ d.up /\ d.usable /\ Trouble
  /\ d' = [d EXCEPT !.usable = FALSE]
  /\ UNCHANGED <<j, outside, network>>

Crash ==
  /\ d.up /\ Spend("crash")
  /\ d' = [NewDaemon(d.inc, 0) EXCEPT !.up = FALSE, !.sess = FALSE]
  /\ wire' = Unsent /\ acks' = {}
  /\ UNCHANGED <<j, outside, srv>>

\* After a reboot the boot session is another one and no process is left.
Restart(reboot, readable) ==
  /\ ~d.up /\ (reboot => readable)
  /\ boot' = IF reboot THEN boot + 1 ELSE boot
  /\ child' = IF reboot /\ child = "running" THEN "exited" ELSE child
  /\ d' = NewDaemon(d.inc + 1, IF readable THEN boot' ELSE 0)
  /\ UNCHANGED <<j, launches, network, left>>

ChildExits ==
  /\ child = "running" /\ child' = "exited"
  /\ UNCHANGED <<j, d, boot, launches, network, left>>

\* The window of an event runs from its first claim, as long as someone asks.
Running == {i \in Active(j) : j.out[i].attempts # <<>> /\ ~j.out[i].exhausted}
DeadlinePasses(i) ==
  /\ i \in Running \cup {d.hand.i} /\ i \in DOMAIN j.out /\ ~j.out[i].due
  /\ j' = [j EXCEPT !.out[i].due = TRUE]
  /\ UNCHANGED <<d, outside, network, left>>

ServerIngest(f, status) ==
  /\ f \in wire
  /\ IF status = "rejected" THEN f[1] \notin srv /\ Trouble ELSE UNCHANGED left
  /\ wire' = wire \ {f}
  /\ srv' = IF status = "accepted" THEN srv \cup {f[1]} ELSE srv
  /\ acks' = IF f[2] THEN acks \cup {<<f[1], status>>} ELSE acks
  /\ UNCHANGED <<j, d, outside>>

MaxEvents == MaxLive + 4   \* live events, the settlement and its correction

DrainNext ==
  \/ DrainInterrupted \/ DrainClaim \/ Expose \/ AttemptFails \/ AttemptTimesOut
  \/ Retry \/ Cancelled
  \/ \E i \in 1..MaxEvents : DeadlinePasses(i)

ManagedNext ==
  \/ RunStart \/ Advance("admitted", "preparing") \/ Advance("preparing", "launch_intent")
  \/ StartFails \/ LastLookup
  \/ \E r \in {"handle", "startup_error", "lost"} : Spawn(r)
  \/ RecordStarted \/ RecordFails \/ AppendLive \/ LiveClaim
  \/ \E o \in {"completed", "failed", "cancelled"} : TerminalSeen(o)
  \/ StreamFails \/ HandleFailure
  \/ \E r \in {"settling", "failing"} : StopChild("stopping", r)
  \/ \E r \in {"settling", "lost"} : StopChild("aborting", r)
  \/ Settle("settling", "returned_handle") \/ Settle("startup_error", "startup_error")
  \/ \E o \in d.obs, s \in {"accepted", "rejected"} : OnReceipt(o[1], o[2], s)
  \/ Resume \/ UserStop \/ JournalStop \/ LoseSession \/ Reconnect \/ GraceExpires
  \/ JournalFails \/ Crash \/ ChildExits
  \/ \E reboot, readable \in BOOLEAN : Restart(reboot, readable)
  \/ \E f \in wire, s \in {"accepted", "rejected"} : ServerIngest(f, s)
  \/ DrainNext

\* The drain's timers fire and its promises settle.
ManagedSpec == ManagedInit /\ [][ManagedNext]_managedVars /\ WF_managedVars(DrainNext)

-------------------------------------------------------------------------------
(* Properties. *)

ManagedTypeOK ==
  /\ j.phase \in {"none", "admitted", "preparing", "launch_intent", "started", "closed"}
  /\ j.receipt \in {"none", "accepted", "fenced", "exit"}
  /\ \A i \in DOMAIN j.out : Len(j.out[i].attempts) <= MaxAttempts
  /\ child \in {"none", "running", "exited"} /\ launches \in Nat
  /\ {f[1] : f \in wire} \cup srv \cup {o[1] : o \in d.obs} \subseteq 1..MaxEvents

\* The phases the server has accepted as the end of the run.
Told ==
  {IF j.out[i].role = "original_terminal" THEN j.outcome ELSE "failed" :
     i \in {k \in srv : j.out[k].role \in {"original_terminal", "correction_terminal"}}}

Promise == INSTANCE RunPromise WITH
  Results <- {"completed", "failed", "cancelled"}, fenced <- j.receipt = "fenced",
  result <- j.outcome, told <- Told

\* The daemon keeps the promise of RunPromise through crashes, storage errors,
\* lost sessions and late receipts (executePhysicalStart, journal-worker).
KeepsPromise == Promise!PromiseSpec

\* A run whose process exit is confirmed has no process, and a process exists
\* only under a launch intent the journal kept (journal-worker.ts
\* producer_closed, startOwnedProcess).
ProcessIsJournalled ==
  /\ j.receipt = "exit" => child # "running"
  /\ child # "none" => j.phase \in {"launch_intent", "started", "closed"}

\* Whatever the server holds or will hold was claimed in the journal first, and
\* what the journal calls delivered the server holds (claim before exposure,
\* receipt before commit).
JournalMatchesServer ==
  /\ \A i \in srv \cup {f[1] : f \in wire} : i \in DOMAIN j.out /\ j.out[i].attempts # <<>>
  /\ \A i \in DOMAIN j.out : j.out[i].committed => i \in srv

\* The server never sees that a run completed before it holds the retention of
\* its workspace (completed_retention_not_accepted).
CompletedAfterRetention ==
  \A i \in srv \cup {f[1] : f \in wire} :
    j.out[i].role = "original_terminal" /\ j.outcome = "completed"
    => \E k \in srv : j.out[k].role = "original_retention"

\* The journal goes first in all it tells the server, crashes, lost sessions
\* and late receipts included (journal-worker.ts claim and commit of delivery
\* attempts, managed-delivery.ts), and in all it knows of the process.
ServerFollowsJournal ==
  ManagedTypeOK /\ ProcessIsJournalled /\ JournalMatchesServer /\ CompletedAfterRetention

\* Once a failure replaced a completed outcome no frame of the old outcome is
\* sent, although an earlier one may still arrive (createCorrection).
NoRecall ==
  [][\A f \in wire' \ wire : f[2] => ~j.out[f[1]].superseded]_managedVars

\* Closed delivery always comes to rest: each wait of the drain has the
\* deadline of its event (waitUntilUsable, waitRetry).
DrainEnds == (d.up /\ d.usable /\ d.step = "closed") ~> (d.step # "closed" \/ ~d.usable)

=============================================================================
