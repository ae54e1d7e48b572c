------------------------------- MODULE RunStore -------------------------------
(***************************************************************************)
(* The durable execution state of the server and the transactions that     *)
(* change it: tasks, runs, the write leases of runs, the run-event receipts *)
(* and the approvals.  Every service call is one database transaction       *)
(* (packages/storage serialises them), so one transaction is one action.    *)
(*                                                                         *)
(* Run ids are allocated in advance: TaskOf, ComputerOf and PathsOf say     *)
(* which task, computer and declared write paths a run will get when        *)
(* assignTask creates it.  The tasks belong to no goal.                     *)
(***************************************************************************)
EXTENDS StateMachines, Naturals, FiniteSets

CONSTANTS
  Tasks, Runs, Computers, Approvals, Paths, Seqs,
  None,          \* SQL NULL; also the status of a run that does not exist yet
  TaskOf,        \* run -> the task it executes
  ComputerOf,    \* run -> the computer of the selected agent instance
  PathsOf,       \* run -> write_paths of the assignment, normalised
  Overlaps,      \* pairs of paths whose scopes overlap (pathsOverlap)
  ApprovalTask,  \* approval -> the task it is about
  Gating,        \* <<p, t>>: t has a gating dependency on p
  Children,      \* <<p, c>>: c is a child task of p
  Concurrency,   \* concurrency_limit of the agent instance of a computer
  DevRoutes      \* enableDevRoutes: the request-approval fixture exists

\* Run events: the four lifecycle phases, and everything that is only recorded.
Phases == {"started", "completed", "failed", "cancelled"}
Bodies == Phases \cup {"output"}

ASSUME StoreAssumption ==
  /\ None \notin Runs \cup RunStatus \cup Bodies
  /\ None \notin {"daemon_disconnect", "execution", "running"}
  /\ TaskOf \in [Runs -> Tasks]
  /\ ComputerOf \in [Runs -> Computers]
  /\ PathsOf \in [Runs -> SUBSET Paths]
  /\ Overlaps \subseteq Paths \X Paths
  /\ \A p, q \in Paths : <<p, q>> \in Overlaps => <<q, p>> \in Overlaps
  /\ ApprovalTask \in [Approvals -> Tasks]
  /\ Gating \subseteq Tasks \X Tasks
  /\ \A t \in Tasks : <<t, t>> \notin Gating
  /\ Children \subseteq Tasks \X Tasks
  /\ Concurrency \in Nat
  /\ DevRoutes \in BOOLEAN

VARIABLES
  task,       \* tasks.status
  run,        \* runs.status, None before the row is inserted
  reason,     \* runs.failureReason, as far as the code tells values apart
  confirmed,  \* runs with a process_exit_confirmed event in the event log
  held,       \* runs whose write leases have status "held"
  receipts,   \* run_event_ingest: body accepted under (run, sequence)
  online,     \* computers with status "online"
  apKind,     \* approvals: None, "execution" (execution.start) or "running"
  apStatus,   \* approvals.status
  apCurrent,  \* approvals.payloadRef is EXECUTION_GATE_CURRENT
  apRun       \* approvals.runId

runVars == <<task, run, reason, confirmed, held>>
approvalVars == <<apKind, apStatus, apCurrent, apRun>>
storeVars == <<runVars, receipts, online, approvalVars>>

Reasons == {None, "daemon_disconnect", "other"}

TypeOK ==
  /\ task \in [Tasks -> TaskStatus]
  /\ run \in [Runs -> RunStatus \cup {None}]
  /\ reason \in [Runs -> Reasons]
  /\ confirmed \subseteq Runs
  /\ held \subseteq Runs
  /\ receipts \in [Runs -> [Seqs -> Bodies \cup {None}]]
  /\ online \subseteq Computers
  /\ apKind \in [Approvals -> {None, "execution", "running"}]
  /\ apStatus \in [Approvals -> ApprovalStatus]
  /\ apCurrent \in [Approvals -> BOOLEAN]
  /\ apRun \in [Approvals -> Runs \cup {None}]

Init ==
  /\ task = [t \in Tasks |-> "backlog"]
  /\ run = [r \in Runs |-> None]
  /\ reason = [r \in Runs |-> None]
  /\ confirmed = {}
  /\ held = {}
  /\ receipts = [r \in Runs |-> [q \in Seqs |-> None]]
  /\ online = {}
  /\ apKind = [a \in Approvals |-> None]
  /\ apStatus = [a \in Approvals |-> "pending"]
  /\ apCurrent = [a \in Approvals |-> FALSE]
  /\ apRun = [a \in Approvals |-> None]

-------------------------------------------------------------------------------
(* Queries the services make. *)

Active(r) == run[r] \in RunActive

RunsOf(t) == {r \in Runs : TaskOf[r] = t}

Prerequisites(t) == {p \in Tasks : <<p, t>> \in Gating}

IsDependentSatisfied(t) == \A p \in Prerequisites(t) : task[p] = "done"

\* A disconnect timeout is not process exit: failed with daemon_disconnect and
\* no event that confirms the exit.
UnconfirmedDisconnect(r) ==
  run[r] = "failed" /\ reason[r] = "daemon_disconnect" /\ r \notin confirmed

HasSpareCapacity(c) ==
  Cardinality({r \in Runs : Active(r) /\ ComputerOf[r] = c}) < Concurrency

\* The scheduler finds an instance: its computer is online and has a free slot.
Schedulable(c) == c \in online /\ HasSpareCapacity(c)

LeasesConflict(r, s) ==
  \E p \in PathsOf[r], q \in PathsOf[s] : <<p, q>> \in Overlaps

ExecutionGates(t) ==
  {a \in Approvals : ApprovalTask[a] = t /\ apKind[a] = "execution"}
CurrentGates(t) == {a \in ExecutionGates(t) : apCurrent[a]}

\* Mutant: any current gate will do, approved or not.
MutUnapprovedGate(t) ==
  /\ ExecutionGates(t) # {} => \E a \in Approvals : CurrentGates(t) = {a}
  /\ \A a \in CurrentGates(t) : apRun[a] = None

ExecutionApprovalGranted(t) ==
  /\ ExecutionGates(t) # {} => \E a \in Approvals : CurrentGates(t) = {a}
  /\ \A a \in CurrentGates(t) : apStatus[a] = "approved" /\ apRun[a] = None

-------------------------------------------------------------------------------
(* Task lifecycle (lifecycle-service.ts, dag-service.ts). *)

MarkReady(t) ==
  /\ IsDependentSatisfied(t)
  /\ CanTransitionTask(task[t], "triage")
  /\ task' = [task EXCEPT ![t] = ApplyTaskTransition(@, "triage")]
  /\ UNCHANGED <<run, reason, confirmed, held, receipts, online, approvalVars>>

\* bindExecutionApprovalToRun: the approved current gate is consumed by r.
BindExecutionApproval(t, r) ==
  apRun' = [a \in Approvals |->
              IF a \in CurrentGates(t) /\ apStatus[a] = "approved" THEN r ELSE apRun[a]]

\* Mutant: only the leases of active runs are in the way.
MutIgnoreUnconfirmed(r) ==
  /\ \A s \in held : Active(s) => ~LeasesConflict(r, s)
  /\ held' = IF PathsOf[r] = {} THEN held ELSE held \cup {r}

\* reserveRunLeases: a foreign overlapping lease aborts the whole assignment.
ReserveRunLeases(r) ==
  /\ \A s \in held : ~LeasesConflict(r, s)
  /\ held' = IF PathsOf[r] = {} THEN held ELSE held \cup {r}

\* Mutant: an unconfirmed disconnect does not stop a new assignment.
MutAssignUnconfirmed(t, r) ==
  /\ TaskOf[r] = t /\ run[r] = None
  /\ task[t] = "ready"
  /\ ExecutionApprovalGranted(t)
  /\ Schedulable(ComputerOf[r])
  /\ task' = [task EXCEPT ![t] = ApplyTaskTransition("ready", "assign")]
  /\ run' = [run EXCEPT ![r] = "queued"]
  /\ BindExecutionApproval(t, r)
  /\ ReserveRunLeases(r)
  /\ UNCHANGED <<reason, confirmed, receipts, online, apKind, apStatus, apCurrent>>

AssignTask(t, r) ==
  /\ TaskOf[r] = t /\ run[r] = None
  /\ task[t] = "ready"
  /\ \A s \in RunsOf(t) : ~UnconfirmedDisconnect(s)
  /\ ExecutionApprovalGranted(t)
  /\ Schedulable(ComputerOf[r])
  /\ task' = [task EXCEPT ![t] = ApplyTaskTransition("ready", "assign")]
  /\ run' = [run EXCEPT ![r] = "queued"]
  /\ BindExecutionApproval(t, r)
  /\ ReserveRunLeases(r)
  /\ UNCHANGED <<reason, confirmed, receipts, online, apKind, apStatus, apCurrent>>

\* Mutant: one accepted prerequisite unlocks the dependent.
MutUnlockAny(t) == {u \in Tasks : <<t, u>> \in Gating /\ task[u] = "backlog"}

\* unlockDownstream, in the transaction that accepted t: the dependents in
\* backlog whose gating prerequisites are now all done become ready.
UnlockedBy(t) ==
  {u \in Tasks : /\ <<t, u>> \in Gating /\ task[u] = "backlog"
                 /\ \A p \in Prerequisites(u) \ {t} : task[p] = "done"}

AcceptReview(t) ==
  /\ task[t] = "review"
  /\ \A c \in Tasks : <<t, c>> \in Children => task[c] \in TaskTerminal
  /\ task' = [u \in Tasks |->
                IF u = t THEN ApplyTaskTransition("review", "accept")
                ELSE IF u \in UnlockedBy(t) THEN ApplyTaskTransition("backlog", "triage")
                ELSE task[u]]
  /\ UNCHANGED <<run, reason, confirmed, held, receipts, online, approvalVars>>

RequestChanges(t) ==
  /\ task[t] = "review"
  /\ task' = [task EXCEPT ![t] = ApplyTaskTransition("review", "request_changes")]
  /\ UNCHANGED <<run, reason, confirmed, held, receipts, online, approvalVars>>

RetryTask(t) ==
  /\ CanTransitionTask(task[t], "retry")
  /\ task' = [task EXCEPT ![t] = ApplyTaskTransition(@, "retry")]
  /\ UNCHANGED <<run, reason, confirmed, held, receipts, online, approvalVars>>

-------------------------------------------------------------------------------
(* Approvals (approval-service.ts). *)

\* Development fixture: a running task waits for a decision; its run goes on.
RequestApproval(t, a) ==
  /\ DevRoutes
  /\ ApprovalTask[a] = t /\ apKind[a] = None
  /\ task[t] = "running"
  /\ task' = [task EXCEPT ![t] = ApplyTaskTransition("running", "approval_requested")]
  /\ apKind' = [apKind EXCEPT ![a] = "running"]
  /\ apStatus' = [apStatus EXCEPT ![a] = "pending"]
  /\ UNCHANGED <<run, reason, confirmed, held, receipts, online, apCurrent, apRun>>

RequestExecutionApproval(t, a) ==
  /\ ApprovalTask[a] = t /\ apKind[a] = None
  /\ task[t] = "ready"
  /\ apKind' = [apKind EXCEPT ![a] = "execution"]
  /\ apStatus' = [b \in Approvals |->
       IF b = a THEN "pending"
       ELSE IF b \in CurrentGates(t) /\ apStatus[b] \in {"pending", "needs_more_info"}
            THEN "expired" ELSE apStatus[b]]
  /\ apCurrent' = [b \in Approvals |-> b = a \/ (apCurrent[b] /\ b \notin CurrentGates(t))]
  /\ UNCHANGED <<runVars, receipts, online, apRun>>

Decisions == {"approve", "reject", "need_more_info"}

ResolveExecutionGate(a, decision) ==
  /\ apKind[a] = "execution" /\ apCurrent[a]
  /\ CanTransitionApproval(apStatus[a], decision)
  /\ task[ApprovalTask[a]] = "ready"
  /\ apStatus' = [apStatus EXCEPT ![a] = ApplyApprovalTransition(@, decision)]
  /\ UNCHANGED <<runVars, receipts, online, apKind, apCurrent, apRun>>

ResolveRunningApproval(a, decision) ==
  LET t == ApprovalTask[a] IN
  /\ apKind[a] = "running"
  /\ CanTransitionApproval(apStatus[a], decision)
  /\ task[t] = "awaiting_approval"
  /\ apStatus' = [apStatus EXCEPT ![a] = ApplyApprovalTransition(@, decision)]
  /\ task' = CASE decision = "approve" ->
                    [task EXCEPT ![t] = ApplyTaskTransition(@, "approval_granted")]
               [] decision = "reject" ->
                    [task EXCEPT ![t] = ApplyTaskTransition(@, "approval_rejected")]
               [] OTHER -> task
  /\ UNCHANGED <<run, reason, confirmed, held, receipts, online, apKind, apCurrent, apRun>>

-------------------------------------------------------------------------------
(* Runs (run-service.ts). *)

\* Mutant: the run is not read again after the stop.
MutCancelStale(r) ==
  LET t == TaskOf[r] IN
  /\ run[r] # None
  /\ run' = [run EXCEPT ![r] = "cancelled"]
  /\ task' = IF CanTransitionTask(task[t], "cancel")
             THEN [task EXCEPT ![t] = ApplyTaskTransition(@, "cancel")] ELSE task
  /\ held' = held \ {r}
  /\ UNCHANGED <<reason, confirmed, receipts, online, approvalVars>>

\* cancelRun's second half, after the owning node confirmed the stop.
CancelRunCommit(r) ==
  LET t == TaskOf[r] IN
  /\ CanTransitionRun(run[r], "cancel")
  /\ run' = [run EXCEPT ![r] = ApplyRunTransition(@, "cancel")]
  /\ task' = IF CanTransitionTask(task[t], "cancel")
             THEN [task EXCEPT ![t] = ApplyTaskTransition(@, "cancel")] ELSE task
  /\ held' = held \ {r}
  /\ UNCHANGED <<reason, confirmed, receipts, online, approvalVars>>

\* The two compare-and-sets of a start: queued -> starting -> to, in one commit.
FromQueued(r, trigger) ==
  CasRun(CasRun(run[r], "queued", "start"), "starting", trigger)

\* Mutant: the task is not returned to ready.
MutFailStartKeepsTask(r) ==
  /\ run[r] # None
  /\ run' = [run EXCEPT ![r] = FromQueued(r, "start_failed")]
  /\ reason' = [reason EXCEPT ![r] = IF run[r] \in {"queued", "starting"} THEN "other" ELSE @]
  /\ held' = held \ {r}
  /\ UNCHANGED <<task, confirmed, receipts, online, approvalVars>>

\* failRunStart: the node rejected run.start.
FailRunStart(r) ==
  LET t == TaskOf[r] IN
  /\ run[r] # None
  /\ run' = [run EXCEPT ![r] = FromQueued(r, "start_failed")]
  /\ reason' = [reason EXCEPT ![r] = IF run[r] \in {"queued", "starting"} THEN "other" ELSE @]
  /\ task' = [task EXCEPT ![t] = CasTask(@, "assigned", "assign_failed_retryable")]
  /\ held' = held \ {r}
  /\ UNCHANGED <<confirmed, receipts, online, approvalVars>>

\* failRunDaemonDisconnect: the run's node was lost.  Only a confirmed process
\* exit releases the leases.
FailRunDaemonDisconnect(r, exitConfirmed) ==
  LET t == TaskOf[r] IN
  /\ \/ /\ run[r] = "failed" /\ reason[r] = "daemon_disconnect" /\ exitConfirmed
        /\ held' = held \ {r}
        /\ confirmed' = confirmed \cup {r}
        /\ UNCHANGED <<task, run, reason>>
     \/ /\ run[r] \notin RunActive
        /\ ~(run[r] = "failed" /\ reason[r] = "daemon_disconnect" /\ exitConfirmed)
        /\ UNCHANGED runVars
     \/ /\ run[r] \in {"running", "paused", "awaiting_input"}
        /\ run' = [run EXCEPT ![r] = ApplyRunTransition(@, "run_failed")]
        /\ reason' = [reason EXCEPT ![r] = "daemon_disconnect"]
        /\ task' = IF CanTransitionTask(task[t], "run_failed")
                   THEN [task EXCEPT ![t] = ApplyTaskTransition(@, "run_failed")] ELSE task
        /\ confirmed' = IF exitConfirmed THEN confirmed \cup {r} ELSE confirmed
        /\ held' = IF exitConfirmed THEN held \ {r} ELSE held
     \/ /\ run[r] \in {"queued", "starting"}
        /\ run' = [run EXCEPT ![r] = FromQueued(r, "start_failed")]
        /\ reason' = [reason EXCEPT ![r] = "daemon_disconnect"]
        /\ task' = [task EXCEPT ![t] = CasTask(@, "assigned", "assign_failed_retryable")]
        /\ confirmed' = IF exitConfirmed THEN confirmed \cup {r} ELSE confirmed
        /\ held' = IF exitConfirmed THEN held \ {r} ELSE held
  /\ UNCHANGED <<receipts, online, approvalVars>>

(* The branches of ingestRunEvent for a lifecycle event that is no duplicate. *)

ReconcileDisconnected(r) ==
  /\ run[r] = "failed" /\ reason[r] = "daemon_disconnect"
  /\ confirmed' = confirmed \cup {r}
  /\ held' = held \ {r}
  /\ UNCHANGED <<task, run, reason>>

IngestStarted(r) ==
  /\ run[r] \in RunActive
  /\ run' = [run EXCEPT ![r] = FromQueued(r, "process_started")]
  /\ task' = [task EXCEPT ![TaskOf[r]] = CasTask(@, "assigned", "run_started")]
  /\ UNCHANGED <<reason, confirmed, held>>

IngestCompleted(r) ==
  /\ run[r] \in RunActive
  /\ run' = [run EXCEPT ![r] = CasRun(@, "running", "run_completed")]
  /\ task' = [task EXCEPT ![TaskOf[r]] = CasTask(@, "running", "run_completed")]
  /\ held' = held \ {r}
  /\ UNCHANGED <<reason, confirmed>>

\* Mutant: an early failure is treated as the failure of a running run.
MutFailedBeforeStart(r) ==
  /\ run[r] \in {"queued", "starting"}
  /\ run' = [run EXCEPT ![r] = CasRun(@, "running", "run_failed")]
  /\ held' = held \ {r}
  /\ UNCHANGED <<task, reason, confirmed>>

IngestFailedBeforeStart(r) ==
  /\ run[r] \in {"queued", "starting"}
  /\ run' = [run EXCEPT ![r] = FromQueued(r, "start_failed")]
  /\ reason' = [reason EXCEPT ![r] = "other"]
  /\ task' = [task EXCEPT ![TaskOf[r]] = CasTask(@, "assigned", "assign_failed_retryable")]
  /\ held' = held \ {r}
  /\ UNCHANGED confirmed

IngestFailed(r) ==
  /\ run[r] \in {"running", "paused", "awaiting_input"}
  /\ run' = [run EXCEPT ![r] = CasRun(@, "running", "run_failed")]
  /\ reason' = [reason EXCEPT ![r] = IF run[r] = "running" THEN "other" ELSE @]
  /\ task' = [task EXCEPT ![TaskOf[r]] = CasTask(@, "running", "run_failed")]
  /\ held' = held \ {r}
  /\ UNCHANGED confirmed

IngestCancelled(r) ==
  LET t == TaskOf[r] IN
  /\ run[r] \in RunActive
  /\ run' = [run EXCEPT ![r] = ApplyRunTransition(@, "cancel")]
  /\ task' = IF CanTransitionTask(task[t], "cancel")
             THEN [task EXCEPT ![t] = ApplyTaskTransition(@, "cancel")] ELSE task
  /\ held' = held \ {r}
  /\ UNCHANGED <<reason, confirmed>>

\* A late lifecycle frame of a settled run only leaves a receipt.
IngestSettled(r, phase) ==
  /\ run[r] \in RunTerminal
  /\ ~(phase # "started" /\ run[r] = "failed" /\ reason[r] = "daemon_disconnect")
  /\ UNCHANGED runVars

IngestLifecycle(r, phase) ==
  \/ phase # "started" /\ ReconcileDisconnected(r)
  \/ IngestSettled(r, phase)
  \/ phase = "started" /\ IngestStarted(r)
  \/ phase = "completed" /\ IngestCompleted(r)
  \/ phase = "failed" /\ IngestFailedBeforeStart(r)
  \/ phase = "failed" /\ IngestFailed(r)
  \/ phase = "cancelled" /\ IngestCancelled(r)

\* ingestRunEvent: a receipt of (run, sequence) makes the event a duplicate
\* (accepted again without effect, or refused when the body differs); otherwise
\* the event is applied and its receipt inserted in the same transaction.
IsDuplicate(r, seq) == receipts[r][seq] # None

IngestRunEvent(r, seq, body) ==
  /\ run[r] # None
  /\ ~IsDuplicate(r, seq)
  /\ receipts' = [receipts EXCEPT ![r][seq] = body]
  /\ IF body = "output" THEN UNCHANGED runVars ELSE IngestLifecycle(r, body)
  /\ UNCHANGED <<online, approvalVars>>

-------------------------------------------------------------------------------
(* Presence of the computers (node-ws.ts), free in this module. *)

SetComputerOnline(c) ==
  /\ online' = online \cup {c}
  /\ UNCHANGED <<runVars, receipts, approvalVars>>

SetComputerOffline(c) ==
  /\ online' = online \ {c}
  /\ UNCHANGED <<runVars, receipts, approvalVars>>

(***************************************************************************)
(* What the store relies on the owning node for; RunDispatch checks it.    *)
(* The node awaits the receipt of each event before it sends the next one, *)
(* so completed and cancelled follow an accepted started (failed may not:  *)
(* the node also reports it when the delivery of started was refused); it  *)
(* rejects a start only if it has no process for the run.  A run is started *)
(* at most once, so its rejection is the only answer to that start, applied *)
(* once and before the exit of the run is confirmed in another way.         *)
(***************************************************************************)
StartAccepted(r) == \E q \in Seqs : receipts[r][q] = "started"

NodeDelivers(r, seq, body) ==
  /\ body \in {"completed", "cancelled"} => StartAccepted(r)
  /\ IngestRunEvent(r, seq, body)

NodeRejectsStart(r) ==
  /\ \A q \in Seqs : ~IsDuplicate(r, q)
  /\ run[r] = "failed" => UnconfirmedDisconnect(r)
  /\ FailRunStart(r)

Next ==
  \/ \E t \in Tasks : \/ MarkReady(t) \/ AcceptReview(t)
                      \/ RequestChanges(t) \/ RetryTask(t)
  \/ \E t \in Tasks, r \in Runs : AssignTask(t, r)
  \/ \E t \in Tasks, a \in Approvals :
        RequestApproval(t, a) \/ RequestExecutionApproval(t, a)
  \/ \E a \in Approvals, d \in Decisions :
        ResolveExecutionGate(a, d) \/ ResolveRunningApproval(a, d)
  \/ \E r \in Runs : CancelRunCommit(r) \/ NodeRejectsStart(r)
  \/ \E r \in Runs, e \in BOOLEAN : FailRunDaemonDisconnect(r, e)
  \/ \E r \in Runs, q \in Seqs, b \in Bodies : NodeDelivers(r, q, b)
  \/ \E c \in Computers : SetComputerOnline(c) \/ SetComputerOffline(c)

Spec == Init /\ [][Next]_storeVars

-------------------------------------------------------------------------------
(* Properties. *)

\* No two runs hold write leases with overlapping paths, whatever order
\* assignments, releases, disconnects and late events come in (lease-service.ts).
LeaseExclusion ==
  \A r, s \in held : r # s => ~LeasesConflict(r, s)

\* A run that has not settled keeps the leases it declared: no event, rejection
\* or lost node that run-service.ts handles releases the leases of a run which
\* its compare-and-sets then leave active.
UnsettledRunKeepsLeases ==
  \A r \in Runs : PathsOf[r] # {} /\ Active(r) => r \in held

\* The development approval fixture has not been used: with it a task may wait
\* for a decision while its run goes on, and the three properties below fail.
FixtureUnused == \A a \in Approvals : apKind[a] # "running"

\* A task has at most one unsettled run: assignTask never starts a second
\* execution of a task while a run is active or its exit is unconfirmed.
OneUnsettledRun ==
  \A r, s \in Runs :
    /\ Active(r)
    /\ TaskOf[r] = TaskOf[s]
    /\ Active(s) \/ UnconfirmedDisconnect(s)
    => r = s
OneUnsettledRunPerTask == FixtureUnused => OneUnsettledRun

\* No task is stranded: a task that waits for an execution has an active run
\* whose events, cancellation or disconnect will move it on.
TasksHaveRuns ==
  \A t \in Tasks :
    task[t] \in {"assigned", "running", "awaiting_approval"}
      => \E r \in RunsOf(t) : Active(r)
NoStrandedTask == FixtureUnused => TasksHaveRuns

\* preview-operations.md: an approved gate permits exactly one assignment.  An
\* active run of a task that has execution gates holds its own approved gate.
GatesAreApproved ==
  \A r \in Runs :
    Active(r) /\ ExecutionGates(TaskOf[r]) # {}
      => \E a \in CurrentGates(TaskOf[r]) : apStatus[a] = "approved" /\ apRun[a] = r
GatedRunIsApproved == FixtureUnused => GatesAreApproved

\* A task leaves backlog only when all its gating prerequisites are done, also
\* when two prerequisites are accepted in either order (unlockDownstream).
PrerequisitesDone ==
  \A t \in Tasks : task[t] # "backlog" => IsDependentSatisfied(t)

\* A settled run stays as it is: late events, retries of a failure and stale
\* cancellations never change its status or its failure reason, and its leases
\* are never taken again.
SettledRunIsFinal ==
  [][\A r \in Runs : run[r] \in RunTerminal =>
       /\ run'[r] = run[r] /\ reason'[r] = reason[r]
       /\ r \in held' => r \in held]_storeVars
===============================================================================
