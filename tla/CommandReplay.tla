------------------------------ MODULE CommandReplay ------------------------------
(***************************************************************************)
(* A command from the web client's queue to the server's handler: the       *)
(* ordered queue that replays commands with their Idempotency-Key            *)
(* (packages/client/src/command-queue.ts under apps/web/src/api/            *)
(* commandQueue.ts), the reservation and the stored answer of the key        *)
(* (idempotency-middleware.ts), and a handler that may check the version of  *)
(* the task it changes (sync-service.ts).                                    *)
(*                                                                         *)
(* All commands concern one task.  A command is one submission: the web      *)
(* client makes a key for each.  Attempts are the requests sent for it.      *)
(***************************************************************************)
EXTENDS Integers, Sequences, FiniteSets, SequencesExt

CONSTANTS
  Commands,    \* submissions of the user
  Based,       \* those that carry a base_version
  MaxAttempts, \* requests sent for a command
  MaxLosses,   \* connections lost while a request is under way
  MaxForeign,  \* changes of the task by others
  MaxCrashes,  \* crashes of the server
  MaxEnds,     \* ends of the session (sign-out, 401, another account)
  Overlapping  \* a request may be repeated while the server still handles it

ASSUME CommandAssumption ==
  /\ IsFiniteSet(Commands) /\ Based \subseteq Commands
  /\ {MaxAttempts, MaxLosses, MaxForeign, MaxCrashes, MaxEnds} \subseteq Nat
  /\ MaxAttempts > 0
  /\ Overlapping \in BOOLEAN

VARIABLES
  version,   \* the task's highest event position
  row,       \* the idempotency row of each key: none, reserved, stored
  applied,   \* commands in the order their transactions committed
  attempt,   \* attempt[c][i]: where the i-th request for c is
  submitted, \* commands in the order of submission
  base,      \* the version a command was based on
  queue,     \* the queue of createCommandQueue
  flush,     \* runFlush: idle, running, awaiting a send, or ended (flushing not yet null)
  sending,   \* the request whose answer is awaited
  promise,   \* what submit's caller was told; a pending one has its thunk
  left       \* what remains of the bounds

clientVars == <<submitted, base, queue, flush, sending, promise>>
serverVars == <<version, row, applied>>
commandVars == <<serverVars, attempt, clientVars, left>>

Attempts == 1..MaxAttempts
\* A request: unsent, on its way, in the handler, past the handler with its
\* outcome, answered, or gone with its connection or its server.
Outcomes == {"none", "ok", "stale", "refused", "busy"}
Request(where, outcome) == [at |-> where, outcome |-> outcome]
Underway(c) == {i \in Attempts : attempt[c][i].at \in {"sent", "handling", "committed", "failed"}}
Unsent(c) == {i \in Attempts : attempt[c][i].at = "unsent"}
NoSend == <<>>

CommandInit ==
  /\ version = 0 /\ applied = <<>>
  /\ row = [c \in Commands |-> "none"]
  /\ attempt = [c \in Commands |-> [i \in Attempts |-> Request("unsent", "none")]]
  /\ submitted = <<>> /\ base = [c \in Commands |-> 0]
  /\ queue = <<>> /\ flush = "idle" /\ sending = NoSend
  /\ promise = [c \in Commands |-> "none"]
  /\ left = [loss |-> MaxLosses, foreign |-> MaxForeign, crash |-> MaxCrashes, end |-> MaxEnds]

Spend(what) == left[what] > 0 /\ left' = [left EXCEPT ![what] = @ - 1]
Move(c, i, where, outcome) == attempt' = [attempt EXCEPT ![c][i] = Request(where, outcome)]

-------------------------------------------------------------------------------
(* The client's queue. *)

\* submit: the command joins the queue; a flush under way is not started again.
Submit(c, seen) ==
  /\ promise[c] = "none"
  /\ submitted' = Append(submitted, c)
  /\ base' = [base EXCEPT ![c] = seen]
  /\ promise' = [promise EXCEPT ![c] = "pending"]
  /\ queue' = Append(queue, c)
  /\ flush' = IF flush = "idle" THEN "running" ELSE flush
  /\ UNCHANGED <<serverVars, attempt, sending, left>>

\* flush on "online", on a new connection, or on the user's request.
Trigger ==
  /\ flush = "idle" /\ queue # <<>>
  /\ flush' = "running"
  /\ UNCHANGED <<serverVars, attempt, submitted, base, queue, sending, promise, left>>

\* Mutant: the thunks of an ended session are kept.
MutSend(i) ==
  LET c == Head(queue)
  IN  /\ flush = "running" /\ queue # <<>>
      /\ i \in Unsent(c) /\ \A j \in Unsent(c) : i <= j
      /\ ~Overlapping => Underway(c) = {}
      /\ Move(c, i, "sent", "none")
      /\ sending' = <<c, i>> /\ flush' = "awaiting"
      /\ UNCHANGED <<serverVars, submitted, base, queue, promise, left>>

\* runFlush takes the head of the queue and calls its thunk.
Send(i) ==
  LET c == Head(queue)
  IN  /\ flush = "running" /\ queue # <<>>
      /\ promise[c] = "pending"
      /\ i \in Unsent(c) /\ \A j \in Unsent(c) : i <= j
      /\ ~Overlapping => Underway(c) = {}
      /\ Move(c, i, "sent", "none")
      /\ sending' = <<c, i>> /\ flush' = "awaiting"
      /\ UNCHANGED <<serverVars, submitted, base, queue, promise, left>>

\* The thunk is gone with its session: the command leaves the queue unsent.
Skip ==
  /\ flush = "running" /\ queue # <<>>
  /\ promise[Head(queue)] # "pending"
  /\ queue' = Tail(queue)
  /\ UNCHANGED <<serverVars, attempt, submitted, base, flush, sending, promise, left>>

\* The queue is empty, runFlush returns; later its finally clears `flushing`.
FlushReturns ==
  /\ flush = "running" /\ queue = <<>>
  /\ flush' = "ended"
  /\ UNCHANGED <<serverVars, attempt, submitted, base, queue, sending, promise, left>>

\* Mutant: a pass that stopped at a retry is not cleared.
MutFlushCleared ==
  /\ flush = "ended" /\ queue = <<>>
  /\ flush' = "idle"
  /\ UNCHANGED <<serverVars, attempt, submitted, base, queue, sending, promise, left>>

FlushCleared ==
  /\ flush = "ended"
  /\ flush' = "idle"
  /\ UNCHANGED <<serverVars, attempt, submitted, base, queue, sending, promise, left>>

Told(outcome) ==
  CASE outcome = "ok" -> "resolved" [] outcome = "stale" -> "conflict" [] OTHER -> "rejected"

\* The awaited answer: the command leaves the queue and its caller is told,
\* unless the session ended meanwhile.
Receive ==
  /\ flush = "awaiting"
  /\ LET c == sending[1]
         i == sending[2]
     IN  /\ attempt[c][i].at = "answered"
         /\ Move(c, i, "gone", "none")
         /\ promise' = IF promise[c] = "pending"
                       THEN [promise EXCEPT ![c] = Told(attempt[c][i].outcome)] ELSE promise
  /\ queue' = Tail(queue)
  /\ flush' = "running" /\ sending' = NoSend
  /\ UNCHANGED <<serverVars, submitted, base, left>>

\* network_error: the command stays queued and the pass ends.  The server may go
\* on with the request.
Lose ==
  /\ flush = "awaiting"
  /\ Spend("loss")
  /\ LET c == sending[1]
         i == sending[2]
     IN  \/ attempt[c][i].at \in {"sent", "answered"} /\ Move(c, i, "gone", "none")
         \/ attempt[c][i].at \in {"sent", "handling", "committed", "failed"} /\ UNCHANGED attempt
  /\ flush' = "ended" /\ sending' = NoSend
  /\ UNCHANGED <<serverVars, submitted, base, queue, promise>>

\* The same after a crash of the server.
NoticeCrash ==
  /\ flush = "awaiting" /\ attempt[sending[1]][sending[2]].at = "gone"
  /\ flush' = "ended" /\ sending' = NoSend
  /\ UNCHANGED <<serverVars, attempt, submitted, base, queue, promise, left>>

\* Mutant: cancelPending also empties the queue under a running flush.
MutSessionEnds ==
  /\ Spend("end")
  /\ promise' = [c \in Commands |-> IF promise[c] = "pending" THEN "cancelled" ELSE promise[c]]
  /\ queue' = <<>>
  /\ UNCHANGED <<serverVars, attempt, submitted, base, flush, sending>>

\* cancelPending: every pending caller is told, every thunk is dropped.
SessionEnds ==
  /\ Spend("end")
  /\ promise' = [c \in Commands |-> IF promise[c] = "pending" THEN "cancelled" ELSE promise[c]]
  /\ UNCHANGED <<serverVars, attempt, submitted, base, queue, flush, sending>>

-------------------------------------------------------------------------------
(* The server. *)

\* preHandler: the key is reserved by inserting its row ...
Reserve(c, i) ==
  /\ attempt[c][i].at = "sent" /\ row[c] = "none"
  /\ row' = [row EXCEPT ![c] = "reserved"]
  /\ Move(c, i, "handling", "none")
  /\ UNCHANGED <<version, applied, clientVars, left>>

\* Mutant: a row without a stored answer counts as one.
MutReplay(c, i) ==
  /\ attempt[c][i].at = "sent" /\ row[c] # "none"
  /\ Move(c, i, "answered", "ok")
  /\ UNCHANGED <<serverVars, clientVars, left>>

\* ... or its row exists: the stored answer is sent, or the request is refused
\* as still in progress.
Replay(c, i) ==
  /\ attempt[c][i].at = "sent" /\ row[c] # "none"
  /\ Move(c, i, "answered", IF row[c] = "stored" THEN "ok" ELSE "busy")
  /\ UNCHANGED <<serverVars, clientVars, left>>

Fresh(c) == c \notin Based \/ base[c] >= version

\* The handler's transaction, with the check of base_version inside it.
Commit(c, i) ==
  /\ attempt[c][i].at = "handling" /\ Fresh(c)
  /\ version' = version + 1
  /\ applied' = Append(applied, c)
  /\ Move(c, i, "committed", "ok")
  /\ UNCHANGED <<row, clientVars, left>>

\* The handler throws: a stale base_version, or a command the task's state refuses.
Refuse(c, i) ==
  /\ attempt[c][i].at = "handling"
  /\ Move(c, i, "failed", IF Fresh(c) THEN "refused" ELSE "stale")
  /\ UNCHANGED <<serverVars, clientVars, left>>

\* Mutant: the row is deleted after a success, too.
MutFinish(c, i) ==
  /\ attempt[c][i].at \in {"committed", "failed"}
  /\ row' = [row EXCEPT ![c] = "none"]
  /\ Move(c, i, "answered", attempt[c][i].outcome)
  /\ UNCHANGED <<version, applied, clientVars, left>>

\* onSend: the answer of a success is stored, the row of a failure deleted.
Finish(c, i) ==
  /\ attempt[c][i].at \in {"committed", "failed"}
  /\ row' = [row EXCEPT ![c] = IF attempt[c][i].at = "committed" THEN "stored" ELSE "none"]
  /\ Move(c, i, "answered", attempt[c][i].outcome)
  /\ UNCHANGED <<version, applied, clientVars, left>>

\* Another client or a node changes the task.
ForeignChange ==
  /\ Spend("foreign")
  /\ version' = version + 1
  /\ UNCHANGED <<row, applied, attempt, clientVars>>

\* The server crashes and starts again: its requests are gone, its rows are not.
ServerCrash ==
  /\ Spend("crash")
  /\ attempt' = [c \in Commands |-> [i \in Attempts |->
                   IF i \in Underway(c) THEN Request("gone", "none") ELSE attempt[c][i]]]
  /\ UNCHANGED <<serverVars, clientVars>>

-------------------------------------------------------------------------------
ServerStep(c, i) ==
  Reserve(c, i) \/ Replay(c, i) \/ Commit(c, i) \/ Refuse(c, i) \/ Finish(c, i)

QueueStep ==
  (\E i \in Attempts : Send(i)) \/ Skip \/ FlushReturns \/ FlushCleared \/ Receive \/ NoticeCrash

CommandNext ==
  \/ \E c \in Commands : \E seen \in 0..version : Submit(c, seen)
  \/ Trigger \/ QueueStep \/ Lose \/ SessionEnds
  \/ \E c \in Commands, i \in Attempts : ServerStep(c, i)
  \/ ForeignChange \/ ServerCrash

CommandSpec == CommandInit /\ [][CommandNext]_commandVars

\* Requests are handled, lost ones are noticed, the queue runs, and after a
\* lost connection something triggers it again.
CommandFairness ==
  /\ WF_commandVars(QueueStep) /\ WF_commandVars(Trigger)
  /\ \A c \in Commands, i \in Attempts : WF_commandVars(ServerStep(c, i))

FairCommandSpec == CommandSpec /\ CommandFairness

-------------------------------------------------------------------------------
\* Types, and the part of the queue that the flush relies on: the awaited request is
\* the head's.
CommandTypeOK ==
  /\ version \in Nat
  /\ row \in [Commands -> {"none", "reserved", "stored"}]
  /\ applied \in Seq(Commands) /\ submitted \in Seq(Commands) /\ queue \in Seq(Commands)
  /\ attempt \in [Commands -> [Attempts -> [at : {"unsent", "sent", "handling", "committed", "failed",
                                                 "answered", "gone"}, outcome : Outcomes]]]
  /\ base \in [Commands -> Nat]
  /\ flush \in {"idle", "running", "awaiting", "ended"}
  /\ promise \in [Commands -> {"none", "pending", "resolved", "conflict", "rejected", "cancelled"}]
  /\ IF flush = "awaiting" THEN queue # <<>> /\ sending \in {Head(queue)} \X Attempts
     ELSE sending = NoSend

Before(c, d) == \E i, j \in DOMAIN submitted : i < j /\ submitted[i] = c /\ submitted[j] = d

\* Whatever is lost, repeated or crashes, a command is applied at most once, and
\* the commands of one session in the order the user gave them.
AppliedOnceInOrder ==
  \A i, j \in DOMAIN applied :
    i < j => /\ applied[i] # applied[j]
             /\ \/ Before(applied[i], applied[j])
                \/ "cancelled" \in {promise[applied[i]], promise[applied[j]]}

\* A caller told of success has its command applied; one told of a conflict has
\* not, and never will.
AnswersAreTrue ==
  \A c \in Commands : /\ promise[c] = "resolved" => Contains(applied, c)
                      /\ promise[c] = "conflict" => ~Contains(applied, c)

\* Once a session has ended none of its commands is sent any more.
NothingSentAfterSession ==
  [][\A c \in Commands : promise[c] = "cancelled" => Unsent(c) = Unsent(c)']_commandVars

\* Every submission is answered, over any losses and crashes.
EverySubmissionSettles ==
  \A c \in Commands : promise[c] = "pending" ~> promise[c] # "pending"
===============================================================================
