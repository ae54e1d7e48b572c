---------------------------- MODULE ManagedJournal ----------------------------
(***************************************************************************)
(* The journal of the managed daemon (apps/artood/src/managed/              *)
(* journal-worker.ts): the durable row of one per-run launch, the outbox of *)
(* its events with the delivery attempts of each, and the transactions on   *)
(* them.  Every transaction is an operator from journal to journal; who      *)
(* calls it, and what is lost when the daemon stops, is ManagedRun.          *)
(*                                                                         *)
(* Identities, hashes and digests are left out: an event is its place in    *)
(* the outbox.  Of an attempt the latest fact is kept: open, failed, or     *)
(* accepted.  `due` says that the event's 30 second window has passed.      *)
(***************************************************************************)
EXTENDS Integers, Sequences, FiniteSets

CONSTANTS
  MaxAttempts,   \* maxAttempts of one event
  MaxBacklog     \* undelivered live events the outbox takes (maxBacklog less its reserve)

ASSUME JournalAssumption == {MaxAttempts, MaxBacklog} \subseteq Nat \ {0}

EmptyJournal ==
  [phase |-> "none",     \* none, admitted, preparing, launch_intent, started, closed
   owner |-> 0,          \* incarnation of the daemon that admitted the launch
   stop |-> FALSE,       \* stop_requested
   receipt |-> "none",   \* none, accepted, fenced, exit (process_exit_confirmed)
   outcome |-> "none",   \* terminal phase of final_outcome
   abort |-> FALSE,      \* live_abort_json
   corrected |-> FALSE,  \* delivery_revision = 1
   unclear |-> FALSE,    \* delivery_clock_unknown
   out |-> <<>>]

NewEvent(role) ==
  [role |-> role, committed |-> FALSE, superseded |-> FALSE, attempts |-> <<>>,
   clock |-> 0, due |-> FALSE, exhausted |-> FALSE]

-------------------------------------------------------------------------------
(* The launch row. *)

\* Mutant: a launch that did not settle is handed to the next process.
MutFresh(j) == j.phase # "closed"

\* admit: only a run the journal has never seen is fresh.
Fresh(j) == j.phase = "none"
Admitted(j, inc) == [j EXCEPT !.phase = "admitted", !.owner = inc]

NextPhase(j) == CASE j.phase = "admitted" -> "preparing"
                  [] j.phase = "preparing" -> "launch_intent"
                  [] OTHER -> "none"

\* advance: refused once a stop is recorded.
CanAdvance(j, phase) == ~j.stop /\ NextPhase(j) = phase
Advanced(j, phase) == [j EXCEPT !.phase = phase]

\* stop: a run never admitted is closed for good, otherwise the wish is recorded.
Stopped(j) ==
  IF j.phase = "none"
  THEN [j EXCEPT !.phase = "closed", !.stop = TRUE, !.receipt = "fenced"]
  ELSE [j EXCEPT !.stop = TRUE]

CanStart(j) == j.phase = "launch_intent"
Started(j) == [j EXCEPT !.phase = "started", !.receipt = "accepted"]

\* producer_closed: decides the outcome and queues the two events that report it.
CanClose(j, proof, o) ==
  /\ j.phase = (IF proof = "returned_handle" THEN "started" ELSE "launch_intent")
  /\ ~(j.abort /\ o = "completed")
  /\ Cardinality({i \in DOMAIN j.out : ~j.out[i].committed}) <= MaxBacklog
Closed(j, o) ==
  [j EXCEPT !.phase = "closed", !.stop = TRUE, !.receipt = "exit", !.outcome = o,
            !.out = @ \o <<NewEvent("original_retention"), NewEvent("original_terminal")>>]

-------------------------------------------------------------------------------
(* The outbox. *)

\* Mutant: superseded events are still delivered.
MutActive(j) == {i \in DOMAIN j.out : ~j.out[i].committed}

Active(j) == {i \in DOMAIN j.out : ~j.out[i].committed /\ ~j.out[i].superseded}
FirstOf(S) == CHOOSE i \in S : \A k \in S : i <= k
LastAttempt(e) == IF e.attempts = <<>> THEN "none" ELSE e.attempts[Len(e.attempts)]

\* clockHealthy: the boot clock is readable and is the one of every running window.
Healthy(j, clock) ==
  /\ clock # 0 /\ ~j.unclear
  /\ \A i \in Active(j) : j.out[i].clock \in {0, clock}

CanAppend(j) == j.phase # "closed" /\ ~j.abort /\ Cardinality(Active(j)) < MaxBacklog
Appended(j) == [j EXCEPT !.out = Append(@, NewEvent("event"))]

ClaimEvent(j, i, clock) ==
  [j EXCEPT !.out[i].attempts = Append(@, "open"), !.out[i].clock = clock]

\* Of a committed event nothing but the acceptance is asked again.
Commit(j, i) ==
  [j EXCEPT !.out[i] = [NewEvent(@.role) EXCEPT !.attempts = <<"accepted">>, !.committed = TRUE,
                                                !.superseded = j.out[i].superseded]]

FailedAttempt(j, i, a, exhausted) ==
  [j EXCEPT !.out[i].attempts[a] = IF @ = "open" THEN "failed" ELSE @,
            !.out[i].exhausted = @ \/ exhausted]

\* Mutant: the attempt budget is compared one too late.
MutSpent(e, a) ==
  Len(e.attempts) > MaxAttempts /\ \A k \in DOMAIN e.attempts : k = a \/ e.attempts[k] # "open"

\* All attempts used, and none of them (but a, that fails now) still open.
Spent(e, a) ==
  Len(e.attempts) >= MaxAttempts /\ \A k \in DOMAIN e.attempts : k = a \/ e.attempts[k] # "open"

-------------------------------------------------------------------------------
(* Live delivery (executeLive), before the physical settlement. *)

Aborted(j) == [j EXCEPT !.abort = TRUE, !.stop = TRUE]
StopRequired(j) == j.abort \/ j.stop

LiveTarget(j) == FirstOf(Active(j))

LiveClaimable(j, clock) ==
  /\ ~StopRequired(j) /\ Healthy(j, clock) /\ Active(j) # {}
  /\ LET e == j.out[LiveTarget(j)]
     IN ~e.exhausted /\ ~e.due /\ LastAttempt(e) # "open" /\ Len(e.attempts) < MaxAttempts

\* A claim refused for the clock, the window or the attempts latches the abort.
LiveRefused(j, clock) ==
  LET pending == Active(j) # {} => LET e == j.out[LiveTarget(j)]
                                   IN LastAttempt(e) = "open" /\ ~e.due /\ ~e.exhausted
  IN IF StopRequired(j) THEN j
     ELSE IF ~Healthy(j, clock) THEN Aborted([j EXCEPT !.unclear = TRUE])
     ELSE IF pending THEN j ELSE Aborted(j)

LiveAnswer(j, clock, i, a, status) ==
  LET e == j.out[i]
      unhealthy == ~Healthy(j, clock)
      late == ~unhealthy /\ e.due
      latched == CASE unhealthy -> Aborted([j EXCEPT !.unclear = TRUE])
                   [] late /\ ~e.committed -> Aborted(j)
                   [] OTHER -> j
      exhausted == late \/ status = "rejected" \/ Spent(e, a)
  IN IF status = "accepted" THEN Commit(latched, i)
     ELSE IF e.committed \/ e.attempts[a] = "accepted" THEN latched
     ELSE LET failed == FailedAttempt(latched, i, a, exhausted)
          IN IF exhausted THEN Aborted(failed) ELSE failed

-------------------------------------------------------------------------------
(* Delivery after the settlement (executeDelivery, failAttempt,               *)
(* createCorrection).                                                        *)

SuccessPath(j) == j.outcome = "completed" /\ ~j.corrected
Originals == {"original_retention", "original_terminal"}

\* A completed outcome that cannot be delivered is replaced by a failure.
Corrected(j) ==
  [j EXCEPT !.corrected = TRUE,
            !.out = [i \in DOMAIN @ |->
                       IF i \in Active(j) \/ @[i].role \in Originals
                       THEN [@[i] EXCEPT !.superseded = TRUE] ELSE @[i]]
                    \o <<NewEvent("correction_retention"), NewEvent("correction_terminal")>>]

Fail(j, i, a, reason) ==
  LET e == j.out[i]
      exhausted == \/ reason = "rejected" /\ SuccessPath(j)
                   \/ e.due \/ e.exhausted \/ Spent(e, a)
      failed == FailedAttempt(j, i, a, exhausted)
  IN IF e.committed \/ e.attempts[a] = "accepted" THEN j
     ELSE IF exhausted /\ ~e.superseded /\ SuccessPath(j) THEN Corrected(failed) ELSE failed

\* deliveryView: an unhealthy clock is remembered while anything is undelivered.
Viewed(j, clock) ==
  IF Active(j) # {} /\ ~Healthy(j, clock) THEN [j EXCEPT !.unclear = TRUE] ELSE j

Delivered(j) == Active(j) = {}
Blocked(j) == ~Delivered(j) /\ (j.unclear \/ \A i \in Active(j) : j.out[i].exhausted)

\* Mutant: every answer of the server counts as an acceptance.
MutClosedAnswer(j, clock, i, a, status) ==
  Viewed(IF status \in {"accepted", "rejected"} THEN Commit(j, i)
         ELSE IF Healthy(j, clock) THEN Fail(j, i, a, status) ELSE j, clock)

\* A late accepted receipt is history: it cannot revive an expired success.
ClosedAnswer(j, clock, i, a, status) ==
  LET e == j.out[i]
      expired == Healthy(j, clock) /\ ~e.committed /\ ~e.superseded /\ e.due
      known == IF expired THEN Fail(j, i, a, "receipt_timeout") ELSE Viewed(j, clock)
  IN Viewed(IF status = "accepted" THEN Commit(known, i)
            ELSE IF Healthy(j, clock) THEN Fail(j, i, a, status) ELSE j, clock)

\* The windows that passed are closed before anything is claimed.
Overdue(j) == {i \in Active(j) : j.out[i].due /\ ~j.out[i].exhausted}
Expired(j) ==
  IF Overdue(j) = {} THEN j
  ELSE IF SuccessPath(j)
  THEN LET i == FirstOf(Overdue(j)) IN Fail(j, i, Len(j.out[i].attempts), "receipt_timeout")
  ELSE LET closed(e) ==
             [e EXCEPT !.exhausted = TRUE,
                       !.attempts = [k \in DOMAIN @ |-> IF @[k] = "open" THEN "failed" ELSE @[k]]]
       IN [j EXCEPT !.out = [i \in DOMAIN @ |->
                               IF i \in Overdue(j) THEN closed(@[i]) ELSE @[i]]]

\* Success is told in order; otherwise an event that failed yields to the others.
Before(j, i, k) ==
  LET last(n) == IF ~SuccessPath(j) /\ LastAttempt(j.out[n]) = "failed" THEN 1 ELSE 0
  IN last(i) < last(k) \/ (last(i) = last(k) /\ i <= k)
Claimable(j) == {i \in Active(j) : ~j.out[i].exhausted}
ClosedTarget(j) == CHOOSE i \in Claimable(j) : \A k \in Claimable(j) : Before(j, i, k)

RetentionAccepted(j) ==
  \E i \in DOMAIN j.out : j.out[i].role = "original_retention" /\ j.out[i].committed

\* A claim of Expired(j), where j has a healthy clock, is for ClosedTarget.
ClosedClaimable(j) ==
  /\ Claimable(j) # {}
  /\ LET e == j.out[ClosedTarget(j)]
     IN /\ LastAttempt(e) # "open"
        /\ e.role = "original_terminal" /\ SuccessPath(j) => RetentionAccepted(j)

=============================================================================
