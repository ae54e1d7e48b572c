-------------------------------- MODULE Turns --------------------------------
(***************************************************************************)
(* Turns of a conversation with an agent (assistant-service.ts), a planning *)
(* discussion of agents in a thread of it (discussion-service.ts), and the *)
(* withdrawal of the consent under which both send data to a provider      *)
(* (ai-data-sharing-service.ts, ai-data-sharing-routes.ts).                 *)
(*                                                                         *)
(* A step is a transaction, or the continuation of an await with the reads *)
(* that follow it.  Transactions of one service call, a pump that walks     *)
(* over what it has read, and stops that are under way interleave.  What a  *)
(* node does with a start and a stop is RunDispatch's subject: here a      *)
(* confirmed stop means that the process is gone and will not be started.   *)
(***************************************************************************)
EXTENDS StateMachines, Integers, FiniteSets

CONSTANTS Talk,         \* turns of the conversation: 1..Talk, in their order
          Steps,        \* total_steps of the discussion: Talk+1..Talk+Steps
          TalkTasks,    \* tasks of the conversation: 1..TalkTasks
          LastRun,      \* bound: runs
          LastGrant,    \* bound: consents given
          MaxActs       \* bound: interventions of users and restarts of the server

TurnIds == 1..(Talk + Steps)
PlanTurn(step) == Talk + 1 + step
TurnTasks == 0..TalkTasks      \* 0 is the task of the discussion
TurnRuns == 1..LastRun
NoTurn == 0
NoTurnRun == 0
Thread(k) == k > Talk          \* the conversation, or the discussion's thread
PendingTurn == {"queued", "waiting", "running"}
OpenDiscussion == {"running", "stopping"}
Finishers == {"worker", "route"}

ASSUME TurnsAssumption ==
  /\ {Talk, Steps, TalkTasks, LastRun, LastGrant, MaxActs} \subseteq Nat
  /\ LastGrant > 0

VARIABLES
  work,      \* work[t]: tasks.status, "none" before it exists
  turn,      \* assistant_turns
  exec,      \* runs of those tasks
  proc,      \* proc[r]: what the node has of run r
  lost,      \* failed by disconnect, exit not confirmed
  consent,   \* the number of the last grant, and whether it is in force
  talks,     \* discussions: one row
  pump,      \* the pass of the dispatcher over the turns
  calls,     \* cancellations that wait for a stop or a transaction
  fin,       \* finishStopping, of each of its callers
  wd,        \* the request that withdraws the consent
  clean,     \* ghost: grants whose withdrawal was answered without a remainder
  acts       \* ghost: interventions so far

storeTurnVars == <<work, turn, exec, proc, lost>>
serverVars == <<pump, calls, fin, wd>>
turnVars == <<storeTurnVars, consent, talks, serverVars, clean, acts>>

NoRow == [is |-> "none", task |-> 0, run |-> NoTurnRun, grant |-> 0, answered |-> FALSE]
IdlePump == [at |-> "idle", todo |-> {}, turn |-> NoTurn, run |-> NoTurnRun]
IdleFin == [at |-> "idle", left |-> {}]
IdleWithdrawal == [at |-> "idle", todo |-> {}, upTo |-> 0, unconfirmed |-> FALSE]

TurnsInit ==
  /\ work = [t \in TurnTasks |-> "none"]
  /\ turn = [k \in TurnIds |-> NoRow]
  /\ exec = [r \in TurnRuns |-> [is |-> "none", task |-> 0, grant |-> 0]]
  /\ proc = [r \in TurnRuns |-> "none"]
  /\ lost = {}
  /\ consent = [grant |-> 1, given |-> TRUE]
  /\ talks = [is |-> "none", step |-> 0, turn |-> NoTurn, grant |-> 0, error |-> FALSE]
  /\ pump = IdlePump
  /\ calls = {}
  /\ fin = [a \in Finishers |-> IdleFin]
  /\ wd = IdleWithdrawal
  /\ clean = 0
  /\ acts = 0

Intervenes == acts < MaxActs /\ acts' = acts + 1
Started(r) == exec[r].is # "none"
Over(r) == exec[r].is \in RunTerminal
NextRun == Cardinality({r \in TurnRuns : Started(r)}) + 1
Move(t, from, trigger) == [work EXCEPT ![t] = CasTask(@, from, trigger)]
Cancelled(t) ==
  [work EXCEPT ![t] = IF CanTransitionTask(@, "cancel") THEN "cancelled" ELSE @]
Authorizes(grant) == consent.given /\ consent.grant = grant

-----------------------------------------------------------------------------
(* Turns, as users make them *)

\* enqueueAssistantTurn, of a new client request: a repeated one changes nothing.
\* A conversation whose last task is closed goes on with a follow-up task.
Enqueue(k) ==
  LET before == IF k = 1 THEN 0 ELSE turn[k - 1].task
      fresh == before + 1
      t == IF before = 0 \/ work[before] \in TaskTerminal THEN fresh ELSE before
  IN /\ k \in 1..Talk /\ turn[k] = NoRow
     /\ k > 1 => turn[k - 1] # NoRow
     /\ consent.given
     /\ t \in TurnTasks
     /\ work' = IF t = before THEN work ELSE [work EXCEPT ![t] = "backlog"]
     /\ turn' = [turn EXCEPT ![k] = [NoRow EXCEPT !.is = "queued", !.task = t,
                                                  !.grant = consent.grant]]
     /\ UNCHANGED <<exec, proc, lost, consent, talks, serverVars, clean, acts>>

\* retryAssistantTurn
Retry(k) ==
  /\ Intervenes
  /\ turn[k].is \in {"waiting", "failed"}
  /\ consent.given
  /\ turn[k].run # NoTurnRun => Over(turn[k].run)
  /\ \A j \in TurnIds : j < k /\ Thread(j) = Thread(k) => turn[j].is \notin PendingTurn
  /\ turn' = [turn EXCEPT ![k] = [NoRow EXCEPT !.is = "queued", !.task = turn[k].task,
                                               !.grant = consent.grant]]
  /\ UNCHANGED <<work, exec, proc, lost, consent, talks, serverVars, clean>>

\* The transaction of assignTask, for a turn or by hand.
Assign(t, k) ==
  /\ consent.given
  /\ work[t] = "ready"
  /\ k # NoTurn =>
       /\ turn[k].is \in {"queued", "waiting"} /\ turn[k].run = NoTurnRun
       /\ Authorizes(turn[k].grant)
       /\ \A j \in TurnIds : Thread(j) = Thread(k) => turn[j].is # "running"
  /\ \A r \in lost : exec[r].task # t
  /\ NextRun \in TurnRuns
  /\ work' = Move(t, "ready", "assign")
  /\ exec' = [exec EXCEPT ![NextRun] = [is |-> "queued", task |-> t, grant |-> consent.grant]]
  /\ turn' = IF k = NoTurn THEN turn
             ELSE [turn EXCEPT ![k].is = "running", ![k].run = NextRun]

\* Users also work on the tasks: assign without a turn, review, retry, triage.
UserAssigns(t) ==
  /\ Intervenes
  /\ Assign(t, NoTurn)
  /\ UNCHANGED <<proc, lost, consent, talks, serverVars, clean>>

UserMoves(t) ==
  /\ Intervenes
  /\ work' \in {Move(t, "review", "accept"), Move(t, "review", "request_changes"),
                Move(t, "blocked", "retry"), Move(t, "backlog", "triage")}
  /\ work' # work
  /\ UNCHANGED <<turn, exec, proc, lost, consent, talks, serverVars, clean>>

-----------------------------------------------------------------------------
(* The dispatcher's pump *)

\* changeTurn
Change(k, status, expected) ==
  IF turn[k].is \in PendingTurn /\ turn[k].run = expected
    THEN [turn EXCEPT ![k].is = IF status = "completed" /\ ~turn[k].answered
                                  THEN "failed" ELSE status]
    ELSE turn

Pump ==
  /\ pump.at = "idle"
  /\ \E k \in TurnIds : turn[k].is \in PendingTurn
  /\ pump' = [IdlePump EXCEPT !.at = "pick",
                              !.todo = {k \in TurnIds : turn[k].is \in PendingTurn}]
  /\ UNCHANGED <<storeTurnVars, consent, talks, calls, fin, wd, clean, acts>>

\* What the pump decides from the rows it reads for a turn.
PumpPlan(k) ==
  LET r == turn[k].run  t == turn[k].task IN
  CASE r # NoTurnRun -> IF Over(r) THEN "settle" ELSE "skip"
    [] r = NoTurnRun /\ work[t] \in {"assigned", "running", "awaiting_approval"} -> "wait"
    [] r = NoTurnRun /\ work[t] \in TaskTerminal -> "close"
    [] r = NoTurnRun /\ work[t] = "backlog" -> "triage"
    [] r = NoTurnRun /\ work[t] = "blocked" -> "retry"
    [] r = NoTurnRun /\ work[t] = "review" -> "request_changes"
    [] OTHER -> "assign"

PumpLeaves(todo) == IF todo = {} THEN IdlePump ELSE [IdlePump EXCEPT !.at = "pick", !.todo = todo]

\* The first turn left of the snapshot, read again.  When it is pending, the later
\* turns of its conversation are passed over.
PumpPicks ==
  LET k == CHOOSE j \in pump.todo : \A i \in pump.todo : j <= i
      others == {j \in pump.todo : Thread(j) # Thread(k)}
  IN /\ pump.at = "pick"
     /\ pump' = IF turn[k].is \notin PendingTurn THEN PumpLeaves(pump.todo \ {k})
                ELSE IF PumpPlan(k) = "skip" THEN PumpLeaves(others)
                ELSE [at |-> PumpPlan(k), todo |-> others, turn |-> k, run |-> turn[k].run]
     /\ UNCHANGED <<storeTurnVars, consent, talks, calls, fin, wd, clean, acts>>

\* The run has ended, the task is busy, or the task is closed.
PumpChanges ==
  /\ pump.at \in {"settle", "wait", "close"}
  /\ turn' = CASE pump.at = "settle" -> Change(pump.turn, exec[pump.run].is, pump.run)
               [] pump.at = "wait" -> Change(pump.turn, "waiting", NoTurnRun)
               [] pump.at = "close" -> Change(pump.turn, "cancelled", NoTurnRun)
  /\ pump' = PumpLeaves(pump.todo)
  /\ UNCHANGED <<work, exec, proc, lost, consent, talks, calls, fin, wd, clean, acts>>

\* markReady, retryTask or a review that asks for changes: each throws when the
\* task is no longer as it was read.
PumpPrepares ==
  LET t == turn[pump.turn].task  can == CanTransitionTask(work[t], pump.at) IN
  /\ pump.at \in {"triage", "retry", "request_changes"}
  /\ work' = IF can THEN [work EXCEPT ![t] = ApplyTaskTransition(@, pump.at)] ELSE work
  /\ pump' = [pump EXCEPT !.at = IF can THEN "assign" ELSE "error"]
  /\ UNCHANGED <<turn, exec, proc, lost, consent, talks, calls, fin, wd, clean, acts>>

PumpAssigns ==
  /\ pump.at = "assign"
  /\ Assign(turn[pump.turn].task, pump.turn)
  /\ pump' = PumpLeaves(pump.todo)
  /\ UNCHANGED <<proc, lost, consent, talks, calls, fin, wd, clean, acts>>

\* Anything on the way may throw: no agent is eligible, the row has changed, or
\* the assignment was committed and its dispatch failed.  A run link is kept.
PumpFails ==
  LET k == pump.turn IN
  /\ pump.at \in {"triage", "retry", "request_changes", "assign", "error"}
  /\ turn' \in {Change(k, "waiting", NoTurnRun), Change(k, "failed", NoTurnRun)}
  /\ pump' = PumpLeaves(pump.todo)
  /\ UNCHANGED <<work, exec, proc, lost, consent, talks, calls, fin, wd, clean, acts>>

-----------------------------------------------------------------------------
(* Runs and their processes *)

\* sendRunStart has read the run and its grant for the last time ...
Authorize(r) ==
  /\ exec[r].is = "queued" /\ Authorizes(exec[r].grant) /\ proc[r] = "none"
  /\ proc' = [proc EXCEPT ![r] = "sending"]
  /\ UNCHANGED <<work, turn, exec, lost, consent, talks, serverVars, clean, acts>>

\* ... and sends the start: the process begins, unless a stop came before.
Launch(r) ==
  /\ proc[r] = "sending"
  /\ proc' = [proc EXCEPT ![r] = "alive"]
  /\ UNCHANGED <<work, turn, exec, lost, consent, talks, serverVars, clean, acts>>

Starts(r) ==
  /\ proc[r] = "alive" /\ exec[r].is = "queued"
  /\ exec' = [exec EXCEPT ![r].is = "running"]
  /\ work' = Move(exec[r].task, "assigned", "run_started")
  /\ UNCHANGED <<turn, proc, lost, consent, talks, serverVars, clean, acts>>

\* An answer is recorded once, with the turn whose run it is.
Answer(r) ==
  /\ proc[r] = "alive" /\ exec[r].is = "running"
  /\ \E k \in TurnIds :
       /\ turn[k].run = r /\ ~turn[k].answered
       /\ turn' = [turn EXCEPT ![k].answered = TRUE]
  /\ UNCHANGED <<work, exec, proc, lost, consent, talks, serverVars, clean, acts>>

\* The process ends and its last event is stored.
Ends(r, phase) ==
  LET t == exec[r].task IN
  /\ proc[r] = "alive" /\ (exec[r].is = "running" \/ r \in lost)
  /\ proc' = [proc EXCEPT ![r] = "gone"]
  /\ lost' = lost \ {r}
  /\ IF r \in lost THEN UNCHANGED <<exec, work>>
     ELSE /\ exec' = [exec EXCEPT ![r].is = phase]
          /\ work' = CASE phase = "completed" -> Move(t, "running", "run_completed")
                       [] phase = "failed" -> Move(t, "running", "run_failed")
                       [] phase = "cancelled" -> Cancelled(t)
  /\ UNCHANGED <<turn, consent, talks, serverVars, clean, acts>>

\* failRunStart: the node refused the start.
Refused(r) ==
  /\ exec[r].is = "queued" /\ proc[r] = "sending"
  /\ proc' = [proc EXCEPT ![r] = "gone"]
  /\ exec' = [exec EXCEPT ![r].is = "failed"]
  /\ work' = Move(exec[r].task, "assigned", "assign_failed_retryable")
  /\ UNCHANGED <<turn, lost, consent, talks, serverVars, clean, acts>>

\* failRunDaemonDisconnect without a confirmed exit.
LosesNode(r) ==
  /\ exec[r].is \in {"queued", "running"}
  /\ lost' = lost \cup {r}
  /\ exec' = [exec EXCEPT ![r].is = "failed"]
  /\ work' = IF exec[r].is = "running" THEN Move(exec[r].task, "running", "run_failed")
             ELSE Move(exec[r].task, "assigned", "assign_failed_retryable")
  /\ UNCHANGED <<turn, proc, consent, talks, serverVars, clean, acts>>

\* A stop is confirmed, by the node's own reconciliation or for a call.
Stopped(r) == proc' = [proc EXCEPT ![r] = "gone"]

NodeConfirms(r) ==
  /\ r \in lost
  /\ Stopped(r)
  /\ lost' = lost \ {r}
  /\ UNCHANGED <<work, turn, exec, consent, talks, serverVars, clean, acts>>

-----------------------------------------------------------------------------
(* Cancellation *)

\* What a call of cancelAssistantTurn finds; with a run it goes on with cancelRun,
\* which waits for the stop of the process outside any transaction.
CancelFinds(k) ==
  LET r == turn[k].run IN
  CASE turn[k].is = "cancelled" -> "ok"
    [] turn[k].is \notin PendingTurn \cup {"cancelled"} -> "error"
    [] turn[k].is \in PendingTurn /\ r = NoTurnRun -> "commit"
    [] turn[k].is \in PendingTurn /\ r # NoTurnRun ->
         IF exec[r].is = "cancelled" THEN "commit" ELSE IF Over(r) THEN "error" ELSE "stop"

\* Mutant: a run that failed counts as stopped.
MutRunFinds(r) == IF ~Over(r) THEN "stop" ELSE "ok"

\* What the withdrawal finds of a run: active, lost, or settled since.
RunFinds(r) == IF ~Over(r) THEN "stop" ELSE IF r \in lost THEN "confirm" ELSE "ok"

\* A call that has ended tells its caller.
Report(c, ok) ==
  /\ wd' = IF c.by = "item"
             THEN [wd EXCEPT !.todo = @ \ {c.item}, !.unconfirmed = @ \/ ~ok] ELSE wd
  /\ fin' = IF c.by \in Finishers
              THEN [fin EXCEPT ![c.by] = [IdleFin EXCEPT !.at = IF ok THEN "close" ELSE "idle"]]
              ELSE fin

Call(by, item, run, finds) == [by |-> by, item |-> item, run |-> run, at |-> finds]

Begin(by, item, run, finds) ==
  LET c == Call(by, item, run, finds) IN
  /\ \A d \in calls : d.by = by => by = "item" /\ d.item # item
  /\ IF finds \in {"ok", "error"} THEN Report(c, finds = "ok") /\ UNCHANGED calls
     ELSE calls' = calls \cup {c} /\ UNCHANGED <<wd, fin>>

TurnItem(k) == <<"turn", k>>
RunItem(r) == <<"run", r>>

UserCancels ==
  /\ Intervenes
  /\ \/ \E k \in TurnIds : CancelFinds(k) \notin {"ok", "error"}
                           /\ Begin("user", TurnItem(k), turn[k].run, CancelFinds(k))
     \/ \E r \in TurnRuns : ~Over(r) /\ Started(r) /\ Begin("user", RunItem(r), r, "stop")
  /\ UNCHANGED <<storeTurnVars, consent, talks, pump, clean>>

StopFails(c) ==
  /\ c \in calls /\ c.at \in {"stop", "confirm"}
  /\ calls' = calls \ {c}
  /\ Report(c, FALSE)
  /\ UNCHANGED <<storeTurnVars, consent, talks, pump, clean, acts>>

\* The stop is confirmed.  The transaction of cancelRun reads the run again; it
\* throws if the run has ended by another way.
StopReturns(c) ==
  LET r == c.run  settled == exec[r].is \in {"completed", "failed"} IN
  /\ c \in calls /\ c.at = "stop"
  /\ Stopped(r)
  /\ IF settled THEN UNCHANGED <<exec, work>>
     ELSE /\ exec' = [exec EXCEPT ![r].is = "cancelled"]
          /\ work' = IF exec[r].is = "cancelled" THEN work ELSE Cancelled(exec[r].task)
  /\ IF c.item[1] = "turn" /\ ~settled
       THEN calls' = (calls \ {c}) \cup {[c EXCEPT !.at = "commit"]} /\ UNCHANGED <<wd, fin>>
       ELSE calls' = calls \ {c} /\ Report(c, ~settled)
  /\ UNCHANGED <<turn, lost, consent, talks, pump, clean, acts>>

\* failRunDaemonDisconnect, exit confirmed
StopConfirms(c) ==
  /\ c \in calls /\ c.at = "confirm"
  /\ Stopped(c.run)
  /\ lost' = lost \ {c.run}
  /\ calls' = calls \ {c}
  /\ Report(c, TRUE)
  /\ UNCHANGED <<work, turn, exec, consent, talks, pump, clean, acts>>

\* Mutant: the transaction does not look for a run that began since.
MutCommitCancel(c) ==
  LET k == c.item[2] IN
  /\ c \in calls /\ c.at = "commit"
  /\ turn' = IF turn[k].is \notin PendingTurn THEN turn
             ELSE [turn EXCEPT ![k].is = "cancelled"]
  /\ calls' = calls \ {c}
  /\ Report(c, TRUE)
  /\ UNCHANGED <<work, exec, proc, lost, consent, talks, pump, clean, acts>>

\* The last transaction: a turn that was assigned since is left alone.
CommitCancel(c) ==
  LET k == c.item[2]  started == turn[k].run # NoTurnRun /\ c.run = NoTurnRun IN
  /\ c \in calls /\ c.at = "commit"
  /\ turn' = IF started \/ turn[k].is \notin PendingTurn THEN turn
             ELSE [turn EXCEPT ![k].is = "cancelled"]
  /\ calls' = calls \ {c}
  /\ Report(c, ~started)
  /\ UNCHANGED <<work, exec, proc, lost, consent, talks, pump, clean, acts>>

-----------------------------------------------------------------------------
(* The discussion *)

StartDiscussion ==
  /\ Steps > 0 /\ talks.is = "none" /\ consent.given
  /\ talks' = [talks EXCEPT !.is = "running", !.grant = consent.grant]
  /\ work' = [work EXCEPT ![0] = "backlog"]
  /\ UNCHANGED <<turn, exec, proc, lost, consent, serverVars, clean, acts>>

Finishes(a, row) ==
  fin' = [fin EXCEPT ![a].at = IF row.is = "stopping" /\ row.turn # NoTurn
                                 THEN "lost" ELSE "idle"]
Closed(row) == [row EXCEPT !.is = IF row.error THEN "failed" ELSE "cancelled"]

\* A transaction of the worker leaves the row as `row'; it goes on with
\* finishStopping when the row is stopping.
Advances(row) ==
  /\ fin["worker"].at = "idle"
  /\ talks' = row /\ talks' # talks
  /\ Finishes("worker", row)
  /\ UNCHANGED <<work, exec, proc, lost, consent, pump, calls, wd, clean, acts>>

\* The time is over or the goal has moved on.
AdvanceExpires ==
  LET row == [talks EXCEPT !.is = "stopping", !.error = TRUE] IN
  /\ talks.is = "running"
  /\ Advances(IF talks.turn = NoTurn THEN Closed(row) ELSE row)
  /\ UNCHANGED turn

AdvanceStops ==
  /\ talks.is = "stopping"
  /\ IF talks.turn = NoTurn THEN Advances(Closed(talks))
     ELSE /\ fin["worker"].at = "idle"
          /\ Finishes("worker", talks)
          /\ UNCHANGED <<work, exec, proc, lost, consent, talks, pump, calls, wd, clean, acts>>
  /\ UNCHANGED turn

\* The active turn ended without an answer.
AdvanceFails ==
  /\ talks.is = "running" /\ talks.turn # NoTurn
  /\ turn[talks.turn].is \notin PendingTurn
  /\ turn[talks.turn].is # "completed" \/ ~turn[talks.turn].answered
  /\ Advances([talks EXCEPT !.is = "stopping", !.error = TRUE])
  /\ UNCHANGED turn

\* The active turn has its answer, or there was none yet: the next one, under the
\* grant the discussion was started with.
AdvanceContinues ==
  LET step == IF talks.turn = NoTurn THEN talks.step ELSE talks.step + 1
      next == [talks EXCEPT !.step = step, !.turn = NoTurn]
  IN /\ talks.is = "running"
     /\ talks.turn # NoTurn =>
          turn[talks.turn].is = "completed" /\ turn[talks.turn].answered
     /\ CASE step = Steps -> Advances([next EXCEPT !.is = "ready"]) /\ UNCHANGED turn
          [] step < Steps /\ ~Authorizes(talks.grant) ->
               Advances([next EXCEPT !.is = "stopping", !.error = TRUE]) /\ UNCHANGED turn
          [] step < Steps /\ Authorizes(talks.grant) ->
               /\ Advances([next EXCEPT !.turn = PlanTurn(step)])
               /\ turn' = [turn EXCEPT ![PlanTurn(step)] =
                             [NoRow EXCEPT !.is = "queued", !.grant = talks.grant]]

\* The first transaction of cancelDiscussion.
Fence(a) ==
  LET row == IF talks.is = "running"
               THEN [talks EXCEPT !.is = "stopping", !.error = FALSE] ELSE talks IN
  /\ fin[a].at = "idle"
  /\ talks' = row
  /\ Finishes(a, row)

CancelDiscussion ==
  /\ Intervenes
  /\ talks.is \in OpenDiscussion
  /\ Fence("route")
  /\ UNCHANGED <<storeTurnVars, consent, pump, calls, wd, clean>>

\* finishStopping: the runs of the task whose exit is not confirmed ...
FinishReads(a) ==
  /\ fin[a].at = "lost"
  /\ fin' = [fin EXCEPT ![a] = [at |-> "stops", left |-> {r \in lost : exec[r].task = 0}]]
  /\ UNCHANGED <<storeTurnVars, consent, talks, pump, calls, wd, clean, acts>>

\* ... are stopped one after the other; a stop that fails ends the attempt.
FinishStops(a) ==
  /\ fin[a].at = "stops"
  /\ \E r \in fin[a].left :
       \/ /\ Stopped(r)
          /\ lost' = lost \ {r}
          /\ fin' = [fin EXCEPT ![a].left = @ \ {r}]
       \/ /\ fin' = [fin EXCEPT ![a] = IdleFin]
          /\ UNCHANGED <<proc, lost>>
  /\ UNCHANGED <<work, turn, exec, consent, talks, pump, calls, wd, clean, acts>>

\* ... then the active turn is cancelled, unless it or its run has ended.
FinishLooks(a) ==
  LET k == talks.turn  r == turn[k].run
      ended == turn[k].is \notin PendingTurn \/ (r # NoTurnRun /\ Over(r))
  IN /\ fin[a].at = "stops" /\ fin[a].left = {}
     /\ fin' = [fin EXCEPT ![a].at = IF ended THEN "close" ELSE "cancel"]
     /\ calls' = IF ended THEN calls
                 ELSE calls \cup {Call(a, TurnItem(k), r, CancelFinds(k))}
     /\ UNCHANGED <<storeTurnVars, consent, talks, pump, wd, clean, acts>>

FinishCloses(a) ==
  /\ fin[a].at = "close"
  /\ fin' = [fin EXCEPT ![a] = IdleFin]
  /\ talks' = IF talks.is = "stopping" THEN Closed(talks) ELSE talks
  /\ UNCHANGED <<storeTurnVars, consent, pump, calls, wd, clean, acts>>

-----------------------------------------------------------------------------
(* Consent *)

GrantConsent ==
  /\ Intervenes
  /\ ~consent.given /\ consent.grant < LastGrant
  /\ consent' = [grant |-> consent.grant + 1, given |-> TRUE]
  /\ UNCHANGED <<storeTurnVars, talks, serverVars, clean>>

\* The withdrawal is committed before anything is stopped.
Revoke ==
  /\ Intervenes
  /\ wd.at = "idle" /\ clean < consent.grant
  /\ consent' = [consent EXCEPT !.given = FALSE]
  /\ wd' = [IdleWithdrawal EXCEPT !.at = "revoked", !.upTo = consent.grant]
  /\ UNCHANGED <<storeTurnVars, talks, pump, calls, fin, clean>>

\* What there is under grants that are not in force.
IsWithdrawn(grant) == grant # 0 /\ ~Authorizes(grant)
ListWork ==
  /\ wd.at = "revoked"
  /\ wd' = [wd EXCEPT !.at = "stopping", !.todo =
       {<<"fence", 0>> : x \in {y \in {talks} : y.is \in OpenDiscussion /\ IsWithdrawn(y.grant)}}
       \cup {TurnItem(k) : k \in {j \in TurnIds : turn[j].is \in PendingTurn
                                                    /\ IsWithdrawn(turn[j].grant)}}
       \cup {RunItem(r) : r \in {q \in TurnRuns : IsWithdrawn(exec[q].grant)
                                                    /\ (~Over(q) \/ q \in lost)}}]
  /\ UNCHANGED <<storeTurnVars, consent, talks, pump, calls, fin, clean, acts>>

WithdrawDiscussion ==
  /\ <<"fence", 0>> \in wd.todo
  /\ Fence("route")
  /\ wd' = [wd EXCEPT !.todo = (@ \ {<<"fence", 0>>}) \cup {<<"state", 0>>}]
  /\ UNCHANGED <<storeTurnVars, consent, pump, calls, clean, acts>>

WithdrawSeesDiscussion ==
  /\ <<"state", 0>> \in wd.todo /\ fin["route"].at = "idle"
  /\ wd' = [wd EXCEPT !.todo = @ \ {<<"state", 0>>},
                      !.unconfirmed = @ \/ talks.is = "stopping"]
  /\ UNCHANGED <<storeTurnVars, consent, talks, pump, calls, fin, clean, acts>>

WithdrawCancels ==
  /\ \/ \E k \in TurnIds : TurnItem(k) \in wd.todo
                           /\ Begin("item", TurnItem(k), turn[k].run, CancelFinds(k))
     \/ \E r \in TurnRuns : RunItem(r) \in wd.todo /\ Begin("item", RunItem(r), r, RunFinds(r))
  /\ UNCHANGED <<storeTurnVars, consent, talks, pump, clean, acts>>

WithdrawAnswers ==
  /\ wd.at = "stopping" /\ wd.todo = {}
  /\ wd' = IdleWithdrawal
  /\ clean' = IF wd.unconfirmed \/ wd.upTo < clean THEN clean ELSE wd.upTo
  /\ UNCHANGED <<storeTurnVars, consent, talks, pump, calls, fin, acts>>

\* Passes, calls and requests are lost with the process of the server.
RestartServer ==
  /\ Intervenes
  /\ pump' = IdlePump /\ calls' = {} /\ wd' = IdleWithdrawal
  /\ fin' = [a \in Finishers |-> IdleFin]
  /\ proc' = [r \in TurnRuns |-> IF proc[r] = "sending" THEN "none" ELSE proc[r]]
  /\ UNCHANGED <<work, turn, exec, lost, consent, talks, clean>>

-----------------------------------------------------------------------------
TurnsNext ==
  \/ \E k \in TurnIds : Enqueue(k) \/ Retry(k)
  \/ \E t \in TurnTasks : UserAssigns(t) \/ UserMoves(t)
  \/ Pump \/ PumpPicks \/ PumpChanges \/ PumpPrepares \/ PumpAssigns \/ PumpFails
  \/ \E r \in TurnRuns :
       \/ Authorize(r) \/ Launch(r) \/ Starts(r) \/ Answer(r) \/ Refused(r)
       \/ LosesNode(r) \/ NodeConfirms(r)
       \/ \E phase \in RunTerminal : Ends(r, phase)
  \/ UserCancels
  \/ \E c \in calls : StopFails(c) \/ StopReturns(c) \/ StopConfirms(c) \/ CommitCancel(c)
  \/ StartDiscussion
  \/ AdvanceExpires \/ AdvanceStops \/ AdvanceFails \/ AdvanceContinues
  \/ CancelDiscussion
  \/ \E a \in Finishers : \/ FinishReads(a) \/ FinishStops(a) \/ FinishLooks(a) \/ FinishCloses(a)
  \/ GrantConsent \/ Revoke \/ ListWork
  \/ WithdrawDiscussion \/ WithdrawSeesDiscussion \/ WithdrawCancels \/ WithdrawAnswers
  \/ RestartServer

TurnsSpec == TurnsInit /\ [][TurnsNext]_turnVars

-----------------------------------------------------------------------------
(* Properties *)

Working(r) == proc[r] \in {"sending", "alive"}
SameTalk(r, s) == (exec[r].task = 0) = (exec[s].task = 0)

\* At most one agent works on a conversation, whichever turn, follow-up task or
\* manual assignment started it.
OneAgentPerConversation ==
  \A r, s \in TurnRuns : Working(r) /\ Working(s) /\ SameTalk(r, s) => r = s

\* A cancelled turn has no run, or a cancelled one without a process.
CancelledTurnIsStopped ==
  \A k \in TurnIds : turn[k].is = "cancelled" /\ turn[k].run # NoTurnRun =>
    exec[turn[k].run].is = "cancelled" /\ ~Working(turn[k].run)

\* The discussion has gone through as many steps as it has answers, each of a
\* completed run, and none but the active turn is pending while it runs.
DiscussionFollowsAnswers ==
  /\ \A step \in 0..(Steps - 1) :
       LET t == turn[PlanTurn(step)] IN
       /\ step < talks.step =>
            t.is = "completed" /\ t.answered /\ exec[t.run].is = "completed"
       /\ step >= talks.step /\ talks.turn # PlanTurn(step) => t = NoRow
  /\ talks.is = "ready" => talks.step = Steps

\* Cancellations, retries, manual assignments, the pump with what it has read,
\* restarts and lost nodes in any order keep the three facts above.
TurnsHold == OneAgentPerConversation /\ CancelledTurnIsStopped /\ DiscussionFollowsAnswers

\* A withdrawal that was answered without unconfirmed stops has stopped all there
\* was under the grant, and nothing begins under it again.
WithdrawnWorkStopped ==
  /\ \A r \in TurnRuns : exec[r].grant \in 1..clean => Over(r) /\ r \notin lost /\ ~Working(r)
  /\ \A k \in TurnIds : turn[k].grant \in 1..clean => turn[k].is \notin PendingTurn
  /\ talks.grant \in 1..clean => talks.is \notin OpenDiscussion

\* What the comments of finishStopping (discussion-service.ts:154) and of
\* cancelDiscussion (176) say: a discussion that was stopped closes when the exit of
\* its process is confirmed.  The code reads the unconfirmed runs first and the run
\* of the turn afterwards; a node lost in between is in neither answer.
ClosesWhenStopped ==
  [][talks.is = "stopping" /\ talks'.is \in {"failed", "cancelled"} =>
       \A r \in TurnRuns : Started(r) /\ exec[r].task = 0 => proc[r] # "alive"]_talks
=============================================================================
