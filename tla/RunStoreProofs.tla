---------------------------- MODULE RunStoreProofs ----------------------------
(***************************************************************************)
(* Proofs about RunStore for any tasks, runs, computers, approvals, paths   *)
(* and event sequences.  StoreInv is inductive in every deployment,         *)
(* ProductionInv where the development approval fixture is not mounted.     *)
(***************************************************************************)
EXTENDS RunStore, TLAPS

-------------------------------------------------------------------------------
(* The edges of the status machines that the services use. *)

\* What each task trigger of state.ts leads to, and from where it can be taken.
LEMMA TaskEdges ==
  /\ \A s \in TaskStatus : CanTransitionTask(s, "triage") => s = "backlog"
  /\ \A s \in TaskStatus : CanTransitionTask(s, "retry") => s = "blocked"
  /\ \A s \in TaskStatus : CanTransitionTask(s, "cancel") <=> s \notin TaskTerminal
  /\ \A s \in TaskStatus :
        CanTransitionTask(s, "run_failed") <=> s \in {"running", "awaiting_approval"}
  /\ ApplyTaskTransition("backlog", "triage") = "ready"
  /\ ApplyTaskTransition("ready", "assign") = "assigned"
  /\ ApplyTaskTransition("assigned", "run_started") = "running"
  /\ ApplyTaskTransition("assigned", "assign_failed_retryable") = "ready"
  /\ ApplyTaskTransition("running", "approval_requested") = "awaiting_approval"
  /\ ApplyTaskTransition("awaiting_approval", "approval_granted") = "running"
  /\ ApplyTaskTransition("awaiting_approval", "approval_rejected") = "blocked"
  /\ ApplyTaskTransition("running", "run_completed") = "review"
  /\ \A s \in {"running", "awaiting_approval"} :
        ApplyTaskTransition(s, "run_failed") = "blocked"
  /\ ApplyTaskTransition("blocked", "retry") = "ready"
  /\ ApplyTaskTransition("review", "accept") = "done"
  /\ ApplyTaskTransition("review", "request_changes") = "ready"
  /\ \A s \in TaskStatus \ TaskTerminal : ApplyTaskTransition(s, "cancel") = "cancelled"
  BY DEF CanTransitionTask, ApplyTaskTransition, TaskTransitions, TaskStatus, TaskTerminal

\* The same for the run triggers.
LEMMA RunEdges ==
  /\ \A s \in RunStatus : CanTransitionRun(s, "cancel") <=> s \in RunActive
  /\ CanTransitionRun(None, "cancel") = FALSE
  /\ ApplyRunTransition("queued", "start") = "starting"
  /\ ApplyRunTransition("starting", "process_started") = "running"
  /\ ApplyRunTransition("starting", "start_failed") = "failed"
  /\ ApplyRunTransition("running", "run_completed") = "completed"
  /\ \A s \in {"running", "paused", "awaiting_input"} :
        ApplyRunTransition(s, "run_failed") = "failed"
  /\ \A s \in RunActive : ApplyRunTransition(s, "cancel") = "cancelled"
  BY StoreAssumption
     DEF CanTransitionRun, ApplyRunTransition, RunTransitions, RunStatus, RunTerminal,
         RunActive, StoreAssumption

-------------------------------------------------------------------------------
(* What every reachable state satisfies, whatever routes are mounted. *)

\* No commit leaves a run in starting, and no code path pauses a run.
RunShape == \A r \in Runs : run[r] \notin {"starting", "paused", "awaiting_input"}

\* The receipt of started and the status of the run agree.
StartedShape ==
  \A r \in Runs : /\ StartAccepted(r) => run[r] \notin {None, "queued"}
                  /\ run[r] \in {"running", "completed"} => StartAccepted(r)

\* A run belongs to a task that has left backlog.
RunHasTask == \A r \in Runs : run[r] # None => task[TaskOf[r]] # "backlog"

\* What every step of the store preserves, and also the calls that cancel tasks
\* with their goal.
RowsInv ==
  /\ TypeOK /\ RunShape /\ StartedShape /\ RunHasTask
  /\ LeaseExclusion /\ UnsettledRunKeepsLeases

StoreInv == RowsInv /\ PrerequisitesDone

\* The statuses a run can have in a state that satisfies the invariant.
LEMMA StatusFacts ==
  /\ RunActive = {"queued", "starting", "running", "awaiting_input", "paused"}
  /\ RunTerminal = {"completed", "failed", "cancelled"}
  /\ None \notin RunActive /\ None \notin RunTerminal
  BY StoreAssumption DEF RunActive, RunTerminal, RunStatus, StoreAssumption

\* Init establishes the invariant.
LEMMA StoreInvInit == Init => StoreInv
<1> SUFFICES ASSUME Init PROVE StoreInv
  OBVIOUS
<1> USE StatusFacts, StoreAssumption DEF Init, StoreAssumption
<1>1. TypeOK
  BY DEF TypeOK, Reasons, TaskStatus, ApprovalStatus
<1>2. RunShape /\ RunHasTask /\ LeaseExclusion /\ PrerequisitesDone
  BY DEF RunShape, RunHasTask, LeaseExclusion, PrerequisitesDone, RunStatus
<1>3. StartedShape
  BY DEF StartedShape, StartAccepted, RunStatus, Bodies, Phases
<1>4. UnsettledRunKeepsLeases
  BY DEF UnsettledRunKeepsLeases, Active
<1> QED
  BY <1>1, <1>2, <1>3, <1>4 DEF StoreInv, RowsInv

-------------------------------------------------------------------------------
(* The handlers that settle or advance a run, reduced to six outcomes.  ts is *)
(* the new status of its task, rs its own.                                    *)

Update(r, ts, rs) ==
  /\ task' = [task EXCEPT ![TaskOf[r]] = ts]
  /\ run' = [run EXCEPT ![r] = rs]
  /\ UNCHANGED <<online, approvalVars>>

Starts(r) ==
  /\ run[r] \in {"queued", "running"}
  /\ Update(r, IF task[TaskOf[r]] = "assigned" THEN "running" ELSE task[TaskOf[r]], "running")
  /\ UNCHANGED <<reason, confirmed, held>>
  /\ \E q \in Seqs : /\ receipts[r][q] = None
                     /\ receipts' = [receipts EXCEPT ![r][q] = "started"]

Completes(r) ==
  /\ run[r] = "running"
  /\ Update(r, IF task[TaskOf[r]] = "running" THEN "review" ELSE task[TaskOf[r]], "completed")
  /\ held' = held \ {r}
  /\ UNCHANGED <<reason, confirmed>>

FailsRunning(r) ==
  /\ run[r] = "running"
  /\ \/ Update(r, task[TaskOf[r]], "failed") /\ task[TaskOf[r]] # "running"
     \/ /\ Update(r, "blocked", "failed")
        /\ task[TaskOf[r]] \in {"running", "awaiting_approval"}

FailsQueued(r) ==
  /\ run[r] = "queued"
  /\ Update(r, IF task[TaskOf[r]] = "assigned" THEN "ready" ELSE task[TaskOf[r]], "failed")

\* A failure for a lost node may keep the leases; the other failures do not.
Fails(r) ==
  /\ FailsRunning(r) \/ FailsQueued(r)
  /\ \E why \in {"daemon_disconnect", "other"} : reason' = [reason EXCEPT ![r] = why]
  /\ confirmed' \in {confirmed, confirmed \cup {r}}
  /\ held' \in {held, held \ {r}}

Cancels(r) ==
  /\ run[r] \in {"queued", "running"}
  /\ Update(r, IF task[TaskOf[r]] \in TaskTerminal THEN task[TaskOf[r]] ELSE "cancelled",
            "cancelled")
  /\ held' = held \ {r}
  /\ UNCHANGED <<reason, confirmed>>

\* Only a stale rejection of the start touches the task.
StaysSettled(r) ==
  /\ run[r] \in RunTerminal \cup {None}
  /\ UNCHANGED <<run, reason, online, approvalVars>>
  /\ \/ UNCHANGED task
     \/ /\ ~StartAccepted(r) /\ (run[r] = "cancelled" \/ UnconfirmedDisconnect(r))
        /\ task[TaskOf[r]] = "assigned"
        /\ task' = [task EXCEPT ![TaskOf[r]] = "ready"]
  /\ confirmed' \in {confirmed, confirmed \cup {r}}
  /\ held' \in {held, held \ {r}}

\* An event for a run that exists leaves a receipt where there was none.
NewReceipt(r) ==
  \/ UNCHANGED receipts
  \/ \E q \in Seqs, b \in Bodies :
       /\ receipts[r][q] = None /\ run[r] # None
       /\ b = "started" => run'[r] # "queued"
       /\ receipts' = [receipts EXCEPT ![r][q] = b]

\* Output, and nothing else, may leave an active run as it is.
OnlyReceipt(r) == /\ UNCHANGED <<runVars, online, approvalVars>>
                  /\ run[r] # None

RunOutcome(r) ==
  /\ Starts(r) \/ Completes(r) \/ Fails(r) \/ Cancels(r) \/ StaysSettled(r) \/ OnlyReceipt(r)
  /\ NewReceipt(r)

RunHandler(r) ==
  \/ CancelRunCommit(r)
  \/ NodeRejectsStart(r)
  \/ \E e \in BOOLEAN : FailRunDaemonDisconnect(r, e)
  \/ \E q \in Seqs, b \in Bodies : NodeDelivers(r, q, b)

RowsOK == TypeOK /\ RunShape /\ StartedShape

\* An active run of the store is queued or running: the other active statuses
\* exist in state.ts only.
LEMMA ActiveFacts ==
  ASSUME RowsOK, NEW r \in Runs
  PROVE  /\ Active(r) <=> run[r] \in {"queued", "running"}
         /\ run[r] \in {None, "queued", "running"} \cup RunTerminal
  BY StatusFacts DEF RowsOK, RunShape, Active, TypeOK, RunStatus

\* cancelRun.
LEMMA CancelOutcome ==
  ASSUME RowsOK, NEW r \in Runs, CancelRunCommit(r) PROVE RunOutcome(r)
<1>1. run[r] \in {"queued", "running"}
  BY RunEdges, StatusFacts, StoreAssumption DEF CancelRunCommit, RowsOK, RunShape, TypeOK,
     StoreAssumption
<1>2. Cancels(r)
  <2> USE RunEdges, TaskEdges, StatusFacts, StoreAssumption
      DEF CancelRunCommit, RowsOK, TypeOK, Cancels, Update, StoreAssumption
  <2>1. CASE run[r] = "queued"
    BY <2>1
  <2>2. CASE run[r] = "running"
    BY <2>2
  <2> QED
    BY <1>1, <2>1, <2>2
<1> QED
  BY <1>2 DEF RunOutcome, NewReceipt, CancelRunCommit

\* failRunStart on the answer of a node that has no process.
LEMMA RejectOutcome ==
  ASSUME RowsOK, NEW r \in Runs, NodeRejectsStart(r) PROVE RunOutcome(r)
<1> USE StatusFacts, StoreAssumption
    DEF NodeRejectsStart, FailRunStart, FromQueued, CasRun, CasTask, RowsOK, TypeOK,
        StoreAssumption
<1>1. ~StartAccepted(r) /\ run[r] \notin {None, "running", "completed"}
  BY DEF StartAccepted, IsDuplicate, StartedShape, Bodies, Phases
<1>2. CASE run[r] = "queued"
  <2>1. FailsQueued(r) /\ Fails(r)
    BY <1>2, RunEdges, TaskEdges DEF FailsQueued, Fails, Update
  <2> QED
    BY <2>1 DEF RunOutcome, NewReceipt
<1>3. CASE run[r] \in {"failed", "cancelled"}
  <2>1. run' = run /\ reason' = reason
    BY <1>3
  <2>2. run[r] = "cancelled" \/ UnconfirmedDisconnect(r)
    BY <1>3
  <2>3. \/ UNCHANGED task
        \/ /\ task[TaskOf[r]] = "assigned"
           /\ task' = [task EXCEPT ![TaskOf[r]] = "ready"]
    BY TaskEdges
  <2>4. StaysSettled(r)
    BY <1>1, <1>3, <2>1, <2>2, <2>3 DEF StaysSettled
  <2> QED
    BY <2>4 DEF RunOutcome, NewReceipt
<1> QED
  BY <1>1, <1>2, <1>3, ActiveFacts

\* failRunDaemonDisconnect.
LEMMA DisconnectOutcome ==
  ASSUME RowsOK, NEW r \in Runs, NEW e \in BOOLEAN, FailRunDaemonDisconnect(r, e)
  PROVE  RunOutcome(r)
<1> USE StatusFacts, StoreAssumption DEF RowsOK, TypeOK, StoreAssumption
<1>1. NewReceipt(r)
  BY DEF FailRunDaemonDisconnect, NewReceipt
<1>2. CASE run[r] = "queued"
  <2>1. FailsQueued(r) /\ Fails(r)
    BY <1>2, RunEdges, TaskEdges
       DEF FailRunDaemonDisconnect, FailsQueued, Fails, Update, FromQueued, CasRun, CasTask
  <2> QED
    BY <1>1, <2>1 DEF RunOutcome
<1>3. CASE run[r] = "running"
  <2>1. FailsRunning(r)
    BY <1>3, RunEdges, TaskEdges DEF FailRunDaemonDisconnect, FailsRunning, Update
  <2>2. Fails(r)
    BY <1>3, <2>1 DEF FailRunDaemonDisconnect, Fails
  <2> QED
    BY <1>1, <2>2 DEF RunOutcome
<1>4. CASE run[r] \in RunTerminal \cup {None}
  <2>1. StaysSettled(r)
    BY <1>4 DEF FailRunDaemonDisconnect, StaysSettled, runVars
  <2> QED
    BY <1>1, <2>1 DEF RunOutcome
<1> QED
  BY <1>2, <1>3, <1>4, ActiveFacts

\* ingestRunEvent under the order in which a node sends its events.
LEMMA DeliverOutcome ==
  ASSUME RowsOK, NEW r \in Runs, NEW q \in Seqs, NEW b \in Bodies, NodeDelivers(r, q, b)
  PROVE  RunOutcome(r)
<1> USE StatusFacts, StoreAssumption, RunEdges, TaskEdges
    DEF RowsOK, TypeOK, StoreAssumption, CasRun, CasTask, FromQueued, runVars
<1>1. /\ receipts' = [receipts EXCEPT ![r][q] = b] /\ receipts[r][q] = None
      /\ run[r] # None /\ UNCHANGED <<online, approvalVars>>
      /\ b \in {"completed", "cancelled"} => run[r] # "queued"
  BY DEF NodeDelivers, IngestRunEvent, IsDuplicate, StartedShape
<1>2. CASE b = "output"
  <2>1. OnlyReceipt(r)
    BY <1>1, <1>2 DEF NodeDelivers, IngestRunEvent, OnlyReceipt
  <2> QED
    BY <1>1, <1>2, <2>1 DEF RunOutcome, NewReceipt
<1>3. CASE b # "output" /\ ReconcileDisconnected(r) /\ b # "started"
  <2>1. StaysSettled(r)
    BY <1>1, <1>3 DEF ReconcileDisconnected, StaysSettled
  <2> QED
    BY <1>1, <1>3, <2>1 DEF RunOutcome, NewReceipt
<1>4. CASE IngestSettled(r, b)
  <2>1. StaysSettled(r)
    BY <1>1, <1>4 DEF IngestSettled, StaysSettled
  <2>2. run'[r] # "queued"
    BY <1>4 DEF IngestSettled
  <2> QED
    BY <1>1, <2>1, <2>2 DEF RunOutcome, NewReceipt
<1>5. CASE b = "started" /\ IngestStarted(r)
  <2>1. Starts(r)
    BY <1>1, <1>5, ActiveFacts DEF IngestStarted, Starts, Update
  <2>2. run'[r] # "queued"
    BY <2>1 DEF Starts, Update
  <2> QED
    BY <1>1, <2>1, <2>2 DEF RunOutcome, NewReceipt
<1>6. CASE b = "completed" /\ IngestCompleted(r)
  <2>1. Completes(r)
    BY <1>1, <1>6, ActiveFacts DEF IngestCompleted, Completes, Update
  <2> QED
    BY <1>1, <1>6, <2>1 DEF RunOutcome, NewReceipt
<1>7. CASE b = "failed" /\ IngestFailedBeforeStart(r)
  <2>1. FailsQueued(r) /\ Fails(r)
    BY <1>1, <1>7, ActiveFacts DEF IngestFailedBeforeStart, FailsQueued, Fails, Update, RunShape
  <2> QED
    BY <1>1, <1>7, <2>1 DEF RunOutcome, NewReceipt
<1>8. CASE b = "failed" /\ IngestFailed(r)
  <2>1. run[r] = "running"
    BY <1>8 DEF IngestFailed, RunShape
  <2>2. FailsRunning(r) /\ Fails(r)
    BY <1>1, <1>8, <2>1 DEF IngestFailed, FailsRunning, Fails, Update
  <2> QED
    BY <1>1, <1>8, <2>2 DEF RunOutcome, NewReceipt
<1>9. CASE b = "cancelled" /\ IngestCancelled(r)
  <2>1. Cancels(r)
    BY <1>1, <1>9, ActiveFacts DEF IngestCancelled, Cancels, Update
  <2> QED
    BY <1>1, <1>9, <2>1 DEF RunOutcome, NewReceipt
<1> QED
  BY <1>2, <1>3, <1>4, <1>5, <1>6, <1>7, <1>8, <1>9
     DEF NodeDelivers, IngestRunEvent, IngestLifecycle

\* Every handler of a run has one of the six outcomes.
LEMMA HandlerOutcome ==
  ASSUME RowsOK, NEW r \in Runs, RunHandler(r) PROVE RunOutcome(r)
  BY CancelOutcome, RejectOutcome, DisconnectOutcome, DeliverOutcome DEF RunHandler

-------------------------------------------------------------------------------
(* Every step preserves the invariant. *)

\* A reviewer, a user or a finished prerequisite moves tasks only.
TaskStep ==
  \E t \in Tasks : MarkReady(t) \/ AcceptReview(t) \/ RequestChanges(t) \/ RetryTask(t)

\* Approvals are created and resolved; the development fixture moves its task.
ApprovalStep ==
  \/ \E t \in Tasks, a \in Approvals :
       RequestApproval(t, a) \/ RequestExecutionApproval(t, a)
  \/ \E a \in Approvals, d \in Decisions :
       ResolveExecutionGate(a, d) \/ ResolveRunningApproval(a, d)

\* What these steps and the presence of computers leave alone.
QuietStep ==
  /\ UNCHANGED <<run, reason, confirmed, held, receipts>>
  /\ task' \in [Tasks -> TaskStatus]
  /\ \A t \in Tasks : task[t] # "backlog" => task'[t] # "backlog"
  /\ \A t \in Tasks : task[t] = "done" => task'[t] = "done"

\* Task, approval and presence steps change no run, lease or receipt.
LEMMA QuietSteps ==
  ASSUME TypeOK, TaskStep \/ ApprovalStep \/ UNCHANGED storeVars
                 \/ \E c \in Computers : SetComputerOnline(c) \/ SetComputerOffline(c)
  PROVE  QuietStep
<1> USE TaskEdges DEF TypeOK, runVars, storeVars, approvalVars, QuietStep, TaskStatus
<1>1. ASSUME NEW t \in Tasks,
             MarkReady(t) \/ AcceptReview(t) \/ RequestChanges(t) \/ RetryTask(t)
      PROVE  QuietStep
  <2>1. CASE MarkReady(t)
    BY <2>1 DEF MarkReady
  <2>2. CASE AcceptReview(t)
    BY <2>2 DEF AcceptReview, UnlockedBy
  <2>3. CASE RequestChanges(t)
    BY <2>3 DEF RequestChanges
  <2>4. CASE RetryTask(t)
    BY <2>4 DEF RetryTask
  <2> QED
    BY <1>1, <2>1, <2>2, <2>3, <2>4
<1>2. ASSUME NEW t \in Tasks, NEW a \in Approvals,
             RequestApproval(t, a) \/ RequestExecutionApproval(t, a)
      PROVE  QuietStep
  BY <1>2 DEF RequestApproval, RequestExecutionApproval
<1>3. ASSUME NEW a \in Approvals, NEW d \in Decisions,
             ResolveExecutionGate(a, d) \/ ResolveRunningApproval(a, d)
      PROVE  QuietStep
  <2>1. CASE ResolveExecutionGate(a, d)
    BY <2>1 DEF ResolveExecutionGate
  <2>2. CASE ResolveRunningApproval(a, d)
    <3>1. ApprovalTask[a] \in Tasks /\ task[ApprovalTask[a]] = "awaiting_approval"
      BY <2>2, StoreAssumption DEF ResolveRunningApproval, StoreAssumption
    <3>2. CASE d = "approve"
      BY <2>2, <3>1, <3>2 DEF ResolveRunningApproval
    <3>3. CASE d = "reject"
      BY <2>2, <3>1, <3>3 DEF ResolveRunningApproval
    <3>4. CASE d = "need_more_info"
      BY <2>2, <3>1, <3>4 DEF ResolveRunningApproval
    <3> QED
      BY <3>2, <3>3, <3>4 DEF Decisions
  <2> QED
    BY <1>3, <2>1, <2>2
<1>4. CASE UNCHANGED storeVars
  BY <1>4
<1>5. ASSUME NEW c \in Computers, SetComputerOnline(c) \/ SetComputerOffline(c)
      PROVE  QuietStep
  BY <1>5 DEF SetComputerOnline, SetComputerOffline
<1> QED
  BY <1>1, <1>2, <1>3, <1>4, <1>5 DEF TaskStep, ApprovalStep

\* A step is quiet, assigns a run, or handles one.
LEMMA StepKinds ==
  ASSUME TypeOK, [Next]_storeVars
  PROVE  \/ QuietStep
         \/ \E t \in Tasks, r \in Runs : AssignTask(t, r)
         \/ \E r \in Runs : RunHandler(r)
  BY QuietSteps DEF Next, TaskStep, ApprovalStep, RunHandler

\* What an outcome does to the rows of the run that is handled.
LEMMA OutcomeRows ==
  ASSUME RowsOK, NEW r \in Runs, RunOutcome(r)
  PROVE  /\ task' \in [Tasks -> TaskStatus] /\ run' \in [Runs -> RunStatus \cup {None}]
         /\ reason' \in [Runs -> Reasons] /\ confirmed' \subseteq Runs
         /\ held' \in {held, held \ {r}}
         /\ receipts' \in [Runs -> [Seqs -> Bodies \cup {None}]]
         /\ UNCHANGED <<online, approvalVars>>
         /\ \A s \in Runs \ {r} : /\ run'[s] = run[s] /\ reason'[s] = reason[s]
                                  /\ receipts'[s] = receipts[s]
         /\ \A t \in Tasks \ {TaskOf[r]} : task'[t] = task[t]
<1> USE StatusFacts, StoreAssumption
    DEF RowsOK, TypeOK, RunOutcome, Update, TaskStatus, RunStatus, Reasons, StoreAssumption,
        runVars, approvalVars
<1>1. /\ receipts' \in [Runs -> [Seqs -> Bodies \cup {None}]]
      /\ \A s \in Runs \ {r} : receipts'[s] = receipts[s]
  <2>1. CASE UNCHANGED receipts
    BY <2>1
  <2>2. ASSUME NEW q \in Seqs, NEW b \in Bodies, receipts' = [receipts EXCEPT ![r][q] = b]
        PROVE  /\ receipts' \in [Runs -> [Seqs -> Bodies \cup {None}]]
               /\ \A s \in Runs \ {r} : receipts'[s] = receipts[s]
    <3>1. [receipts[r] EXCEPT ![q] = b] \in [Seqs -> Bodies \cup {None}]
      OBVIOUS
    <3>2. receipts' = [receipts EXCEPT ![r] = [receipts[r] EXCEPT ![q] = b]]
      BY <2>2
    <3> HIDE <2>2
    <3> QED
      BY <3>1, <3>2
  <2> QED
    BY <2>1, <2>2 DEF NewReceipt
<1>2. CASE Starts(r)
  <2>1. /\ task' \in [Tasks -> TaskStatus] /\ run' \in [Runs -> RunStatus \cup {None}]
        /\ \A s \in Runs \ {r} : run'[s] = run[s]
        /\ \A t \in Tasks \ {TaskOf[r]} : task'[t] = task[t]
    BY <1>2 DEF Starts
  <2>2. UNCHANGED <<reason, confirmed, online, approvalVars>> /\ held' \in {held, held \ {r}}
    BY <1>2 DEF Starts
  <2> QED
    BY <1>1, <2>1, <2>2
<1>3. CASE Completes(r)
  <2>1. /\ task' \in [Tasks -> TaskStatus] /\ run' \in [Runs -> RunStatus \cup {None}]
        /\ \A s \in Runs \ {r} : run'[s] = run[s]
        /\ \A t \in Tasks \ {TaskOf[r]} : task'[t] = task[t]
    BY <1>3 DEF Completes
  <2>2. UNCHANGED <<reason, confirmed, online, approvalVars>> /\ held' \in {held, held \ {r}}
    BY <1>3 DEF Completes
  <2> QED
    BY <1>1, <2>1, <2>2
<1>4. CASE Fails(r)
  <2>1. reason' \in [Runs -> Reasons] /\ \A s \in Runs \ {r} : reason'[s] = reason[s]
    BY <1>4 DEF Fails
  <2>2. confirmed' \subseteq Runs /\ held' \in {held, held \ {r}}
    BY <1>4 DEF Fails
  <2>3. /\ task' \in [Tasks -> TaskStatus] /\ run' \in [Runs -> RunStatus \cup {None}]
        /\ UNCHANGED <<online, approvalVars>>
        /\ \A s \in Runs \ {r} : run'[s] = run[s]
        /\ \A t \in Tasks \ {TaskOf[r]} : task'[t] = task[t]
    <3>1. CASE FailsRunning(r)
      <4>1. /\ task' \in [Tasks -> TaskStatus] /\ run' \in [Runs -> RunStatus \cup {None}]
            /\ UNCHANGED <<online, approvalVars>>
        BY <3>1 DEF FailsRunning
      <4>2. /\ \A s \in Runs \ {r} : run'[s] = run[s]
            /\ \A t \in Tasks \ {TaskOf[r]} : task'[t] = task[t]
        BY <3>1 DEF FailsRunning
      <4> QED
        BY <4>1, <4>2
    <3>2. CASE FailsQueued(r)
      <4>1. task' \in [Tasks -> TaskStatus] /\ run' \in [Runs -> RunStatus \cup {None}]
        BY <3>2 DEF FailsQueued
      <4>2. /\ UNCHANGED <<online, approvalVars>>
            /\ \A s \in Runs \ {r} : run'[s] = run[s]
        BY <3>2 DEF FailsQueued
      <4>3. \A t \in Tasks \ {TaskOf[r]} : task'[t] = task[t]
        BY <3>2 DEF FailsQueued
      <4> QED
        BY <4>1, <4>2, <4>3
    <3> QED
      BY <1>4, <3>1, <3>2 DEF Fails
  <2> QED
    BY <1>1, <2>1, <2>2, <2>3
<1>5. CASE Cancels(r)
  <2>1. /\ task' \in [Tasks -> TaskStatus] /\ run' \in [Runs -> RunStatus \cup {None}]
        /\ \A s \in Runs \ {r} : run'[s] = run[s]
        /\ \A t \in Tasks \ {TaskOf[r]} : task'[t] = task[t]
    BY <1>5 DEF Cancels
  <2>2. UNCHANGED <<reason, confirmed, online, approvalVars>> /\ held' \in {held, held \ {r}}
    BY <1>5 DEF Cancels
  <2> QED
    BY <1>1, <2>1, <2>2
<1>6. CASE StaysSettled(r)
  <2>1. /\ UNCHANGED <<run, reason, online, approvalVars>>
        /\ confirmed' \subseteq Runs /\ held' \in {held, held \ {r}}
    BY <1>6 DEF StaysSettled
  <2>2. task' = task \/ task' = [task EXCEPT ![TaskOf[r]] = "ready"]
    BY <1>6 DEF StaysSettled
  <2>3. /\ task' \in [Tasks -> TaskStatus]
        /\ \A t \in Tasks \ {TaskOf[r]} : task'[t] = task[t]
    BY <2>2
  <2> QED
    BY <1>1, <2>1, <2>3
<1>7. CASE OnlyReceipt(r)
  BY <1>7, <1>1 DEF OnlyReceipt
<1> QED
  BY <1>2, <1>3, <1>4, <1>5, <1>6, <1>7

\* An assignment inserts one queued run and takes its leases.
LEMMA AssignRows ==
  ASSUME TypeOK, NEW t \in Tasks, NEW r \in Runs, AssignTask(t, r)
  PROVE  /\ TaskOf[r] = t /\ run[r] = None /\ task[t] = "ready"
         /\ task' = [task EXCEPT ![t] = "assigned"]
         /\ run' = [run EXCEPT ![r] = "queued"]
         /\ held' = IF PathsOf[r] = {} THEN held ELSE held \cup {r}
         /\ \A s \in held : ~LeasesConflict(r, s)
         /\ apRun' \in [Approvals -> Runs \cup {None}]
         /\ UNCHANGED <<reason, confirmed, receipts, online, apKind, apStatus, apCurrent>>
  BY TaskEdges DEF AssignTask, ReserveRunLeases, BindExecutionApproval, TypeOK

\* Type correctness, one step.
LEMMA TypeStep ==
  ASSUME RowsInv, [Next]_storeVars PROVE TypeOK'
<1> USE DEF RowsInv
<1>1. ASSUME NEW r \in Runs, RunHandler(r) PROVE TypeOK'
  <2>1. RunOutcome(r)
    BY <1>1, HandlerOutcome DEF RowsOK
  <2> QED
    BY <2>1, OutcomeRows DEF RowsOK, TypeOK, approvalVars
<1>2. ASSUME NEW t \in Tasks, NEW r \in Runs, AssignTask(t, r) PROVE TypeOK'
  <2>0. /\ task' = [task EXCEPT ![t] = "assigned"] /\ run' = [run EXCEPT ![r] = "queued"]
        /\ task \in [Tasks -> TaskStatus] /\ run \in [Runs -> RunStatus \cup {None}]
    BY <1>2, AssignRows DEF TypeOK
  <2>1. task' \in [Tasks -> TaskStatus] /\ run' \in [Runs -> RunStatus \cup {None}]
    BY <2>0 DEF TaskStatus, RunStatus
  <2>2. held' \subseteq Runs /\ apRun' \in [Approvals -> Runs \cup {None}]
    BY <1>2, AssignRows DEF TypeOK
  <2>3. UNCHANGED <<reason, confirmed, receipts, online, apKind, apStatus, apCurrent>>
    BY <1>2, AssignRows
  <2> QED
    BY <2>1, <2>2, <2>3 DEF TypeOK
<1>3. ASSUME TaskStep PROVE TypeOK'
  <2>1. QuietStep
    BY <1>3, QuietSteps
  <2>2. UNCHANGED <<online, approvalVars>>
    BY <1>3 DEF TaskStep, MarkReady, AcceptReview, RequestChanges, RetryTask, approvalVars
  <2> QED
    BY <2>1, <2>2 DEF QuietStep, TypeOK, approvalVars
<1>4. ASSUME ApprovalStep PROVE TypeOK'
  <2>1. QuietStep
    BY <1>4, QuietSteps
  <2>2. /\ UNCHANGED <<online, apRun>>
        /\ apKind' \in [Approvals -> {None, "execution", "running"}]
        /\ apCurrent' \in [Approvals -> BOOLEAN]
    BY <1>4 DEF ApprovalStep, RequestApproval, RequestExecutionApproval, ResolveExecutionGate,
                ResolveRunningApproval, TypeOK, runVars
  <2>3. apStatus' \in [Approvals -> ApprovalStatus]
    <3>1. ASSUME NEW t \in Tasks, NEW a \in Approvals,
                 RequestApproval(t, a) \/ RequestExecutionApproval(t, a)
          PROVE  apStatus' \in [Approvals -> ApprovalStatus]
      BY <3>1 DEF RequestApproval, RequestExecutionApproval, TypeOK, ApprovalStatus
    <3>2. ASSUME NEW a \in Approvals, NEW d \in Decisions,
                 ResolveExecutionGate(a, d) \/ ResolveRunningApproval(a, d)
          PROVE  apStatus' \in [Approvals -> ApprovalStatus]
      <4>1. /\ CanTransitionApproval(apStatus[a], d)
            /\ apStatus' = [apStatus EXCEPT ![a] = ApplyApprovalTransition(apStatus[a], d)]
        BY <3>2 DEF ResolveExecutionGate, ResolveRunningApproval
      <4>2. ApplyApprovalTransition(apStatus[a], d) \in ApprovalStatus
        BY <4>1 DEF CanTransitionApproval, ApplyApprovalTransition
      <4> QED
        BY <4>1, <4>2 DEF TypeOK
    <3> QED
      BY <1>4, <3>1, <3>2 DEF ApprovalStep
  <2> QED
    BY <2>1, <2>2, <2>3 DEF QuietStep, TypeOK
<1>5. ASSUME NEW c \in Computers, SetComputerOnline(c) \/ SetComputerOffline(c) PROVE TypeOK'
  BY <1>5 DEF SetComputerOnline, SetComputerOffline, TypeOK, runVars, approvalVars
<1>6. CASE UNCHANGED storeVars
  BY <1>6 DEF storeVars, runVars, approvalVars, TypeOK
<1> QED
  BY <1>1, <1>2, <1>3, <1>4, <1>5, <1>6 DEF Next, TaskStep, ApprovalStep, RunHandler

\* The status of a run and the receipt of its start keep agreeing.
LEMMA ShapeStep ==
  ASSUME RowsInv, [Next]_storeVars PROVE RunShape' /\ StartedShape' /\ RunHasTask'
<1> USE StatusFacts, StoreAssumption
    DEF RunShape, StartedShape, RunHasTask, StartAccepted, StoreAssumption
<1>1. CASE QuietStep
  BY <1>1 DEF QuietStep, RowsInv
<1>2. ASSUME NEW t \in Tasks, NEW r \in Runs, AssignTask(t, r)
      PROVE  RunShape' /\ StartedShape' /\ RunHasTask'
  <2>1. /\ TaskOf[r] = t /\ run[r] = None /\ receipts' = receipts
        /\ task' = [task EXCEPT ![t] = "assigned"]
        /\ run' = [run EXCEPT ![r] = "queued"]
        /\ run \in [Runs -> RunStatus \cup {None}] /\ task \in [Tasks -> TaskStatus]
    BY <1>2, AssignRows DEF RowsInv, TypeOK
  <2>2. RunShape' /\ StartedShape' /\ RunHasTask'
    BY <2>1 DEF RowsInv
  <2> QED
    BY <2>2
<1>3. ASSUME NEW r \in Runs, RunHandler(r)
      PROVE  RunShape' /\ StartedShape' /\ RunHasTask'
  <2> USE DEF RowsOK, RowsInv, TypeOK
  <2>1. RunOutcome(r)
    BY <1>3, HandlerOutcome
  <2>2. /\ run'[r] \notin {"starting", "paused", "awaiting_input"}
        /\ task[TaskOf[r]] # "backlog" => task'[TaskOf[r]] # "backlog"
        /\ run'[r] # None => run[r] # None
        /\ run'[r] \in {None, "queued"} => run'[r] = run[r]
        /\ run'[r] \in {"running", "completed"} =>
             run[r] \in {"running", "completed"} \/ Starts(r)
    BY <2>1 DEF RunOutcome, Starts, Completes, Fails, FailsRunning, FailsQueued, Cancels,
                StaysSettled, OnlyReceipt, Update, runVars, TaskStatus
  <2>3. /\ \A q \in Seqs : receipts[r][q] # None => receipts'[r][q] = receipts[r][q]
        /\ StartAccepted(r)' => StartAccepted(r) \/ run'[r] \notin {None, "queued"}
        /\ Starts(r) => StartAccepted(r)'
    BY <2>1, <2>2 DEF RunOutcome, NewReceipt, Starts
  <2>4. StartAccepted(r) => StartAccepted(r)'
    BY <2>3 DEF Bodies, Phases
  <2>5. ASSUME NEW s \in Runs, s # r
        PROVE  /\ run'[s] = run[s]
               /\ StartAccepted(s)' <=> StartAccepted(s)
               /\ TaskOf[s] # TaskOf[r] => task'[TaskOf[s]] = task[TaskOf[s]]
    BY <2>1, <2>5, OutcomeRows
  <2>6. RunShape'
    <3> SUFFICES ASSUME NEW s \in Runs
                 PROVE  run'[s] \notin {"starting", "paused", "awaiting_input"}
      OBVIOUS
    <3> QED
      BY <2>2, <2>5
  <2>7. StartedShape'
    <3> SUFFICES ASSUME NEW s \in Runs
                 PROVE  /\ StartAccepted(s)' => run'[s] \notin {None, "queued"}
                        /\ run'[s] \in {"running", "completed"} => StartAccepted(s)'
      OBVIOUS
    <3>1. CASE s = r
      BY <3>1, <2>2, <2>3, <2>4
    <3>2. CASE s # r
      BY <3>2, <2>5
    <3> QED
      BY <3>1, <3>2
  <2>8. RunHasTask'
    <3> SUFFICES ASSUME NEW s \in Runs, run'[s] # None PROVE task'[TaskOf[s]] # "backlog"
      OBVIOUS
    <3> QED
      BY <2>2, <2>5
  <2> QED
    BY <2>6, <2>7, <2>8
<1> QED
  BY <1>1, <1>2, <1>3, StepKinds DEF RowsInv

\* Overlap of declared paths is symmetric.
LEMMA ConflictSymmetric ==
  ASSUME NEW r \in Runs, NEW s \in Runs, LeasesConflict(r, s) PROVE LeasesConflict(s, r)
  BY StoreAssumption DEF LeasesConflict, StoreAssumption

\* Leases are taken only where no overlapping lease is held, and an active run
\* never loses its own.
LEMMA LeaseStep ==
  ASSUME RowsInv, [Next]_storeVars PROVE LeaseExclusion' /\ UnsettledRunKeepsLeases'
<1> USE StatusFacts DEF RowsInv, TypeOK, RowsOK, LeaseExclusion, UnsettledRunKeepsLeases
<1>1. CASE QuietStep
  BY <1>1 DEF QuietStep, Active
<1>2. ASSUME NEW t \in Tasks, NEW r \in Runs, AssignTask(t, r)
      PROVE  LeaseExclusion' /\ UnsettledRunKeepsLeases'
  <2>1. /\ \A s \in held : ~LeasesConflict(r, s)
        /\ held' = IF PathsOf[r] = {} THEN held ELSE held \cup {r}
        /\ run' = [run EXCEPT ![r] = "queued"]
    BY <1>2, AssignRows
  <2>2. \A s \in held : ~LeasesConflict(s, r)
    BY <2>1, ConflictSymmetric
  <2>3. LeaseExclusion'
    BY <2>1, <2>2
  <2>4. UnsettledRunKeepsLeases'
    <3> SUFFICES ASSUME NEW s \in Runs, PathsOf[s] # {}, Active(s)' PROVE s \in held'
      OBVIOUS
    <3>1. CASE s = r
      BY <2>1, <3>1
    <3>2. CASE s # r
      <4>1. run'[s] = run[s]
        BY <2>1, <3>2
      <4> QED
        BY <2>1, <4>1 DEF Active
    <3> QED
      BY <3>1, <3>2
  <2> QED
    BY <2>3, <2>4
<1>3. ASSUME NEW r \in Runs, RunHandler(r)
      PROVE  LeaseExclusion' /\ UnsettledRunKeepsLeases'
  <2>1. RunOutcome(r)
    BY <1>3, HandlerOutcome
  <2>2. held' \in {held, held \ {r}}
    BY <2>1, OutcomeRows
  <2>3. LeaseExclusion'
    BY <2>2
  <2>4. Active(r)' => Active(r) /\ held' = held
    <3> USE DEF Active, Update
    <3>1. CASE Starts(r)
      BY <3>1 DEF Starts
    <3>2. CASE Completes(r) \/ Cancels(r)
      BY <3>2 DEF Completes, Cancels
    <3>3. CASE Fails(r)
      BY <3>3 DEF Fails, FailsRunning, FailsQueued
    <3>4. CASE StaysSettled(r)
      BY <3>4 DEF StaysSettled
    <3>5. CASE OnlyReceipt(r)
      BY <3>5 DEF OnlyReceipt, runVars
    <3> QED
      BY <2>1, <3>1, <3>2, <3>3, <3>4, <3>5 DEF RunOutcome
  <2>5. UnsettledRunKeepsLeases'
    <3> SUFFICES ASSUME NEW s \in Runs, PathsOf[s] # {}, Active(s)' PROVE s \in held'
      OBVIOUS
    <3>1. CASE s = r
      BY <2>4, <3>1 DEF Active
    <3>2. CASE s # r
      <4>1. run'[s] = run[s]
        BY <2>1, <3>2, OutcomeRows
      <4> QED
        BY <2>2, <3>2, <4>1 DEF Active
    <3> QED
      BY <3>1, <3>2
  <2> QED
    BY <2>3, <2>5
<1> QED
  BY <1>1, <1>2, <1>3, StepKinds

\* A task leaves backlog through markReady or unlockDownstream only, both of
\* which find its prerequisites done; and done is final.
LEMMA PrerequisiteStep ==
  ASSUME StoreInv, [Next]_storeVars PROVE PrerequisitesDone'
<1> USE StatusFacts, StoreAssumption
    DEF StoreInv, RowsInv, TypeOK, RowsOK, StoreAssumption
<1>1. \A t \in Tasks : task[t] = "done" => task'[t] = "done"
  <2>1. CASE QuietStep
    BY <2>1 DEF QuietStep
  <2>2. ASSUME NEW t \in Tasks, NEW r \in Runs, AssignTask(t, r)
        PROVE  \A u \in Tasks : task[u] = "done" => task'[u] = "done"
    BY <2>2, AssignRows
  <2>3. ASSUME NEW r \in Runs, RunHandler(r)
        PROVE  \A u \in Tasks : task[u] = "done" => task'[u] = "done"
    <3>1. RunOutcome(r)
      BY <2>3, HandlerOutcome
    <3>2. task[TaskOf[r]] = "done" => task'[TaskOf[r]] = "done"
      BY <3>1 DEF RunOutcome, Starts, Completes, Fails, FailsRunning, FailsQueued, Cancels,
                  StaysSettled, OnlyReceipt, Update, runVars, TaskTerminal
    <3> QED
      BY <3>1, <3>2, OutcomeRows
  <2> QED
    BY <2>1, <2>2, <2>3, StepKinds
<1>2. ASSUME NEW t \in Tasks, task'[t] # "backlog", task[t] = "backlog"
      PROVE  \A p \in Prerequisites(t) : task'[p] = "done"
  <2>1. ASSUME NEW u \in Tasks, MarkReady(u)
        PROVE  \A p \in Prerequisites(t) : task[p] = "done"
    BY <1>2, <2>1 DEF MarkReady, IsDependentSatisfied
  <2>2. ASSUME NEW u \in Tasks, AcceptReview(u)
        PROVE  \A p \in Prerequisites(t) : task'[p] = "done"
    <3>1. task'[u] = "done" /\ t \in UnlockedBy(u)
      BY <1>2, <2>2, TaskEdges DEF AcceptReview
    <3>2. \A p \in Prerequisites(t) \ {u} : task[p] = "done"
      BY <3>1 DEF UnlockedBy
    <3> QED
      BY <1>1, <3>1, <3>2 DEF Prerequisites
  <2>3. ASSUME NEW u \in Tasks, RequestChanges(u) \/ RetryTask(u) PROVE FALSE
    BY <1>2, <2>3, TaskEdges DEF RequestChanges, RetryTask
  <2>4. ASSUME ApprovalStep PROVE FALSE
    <3>1. ASSUME NEW u \in Tasks, NEW a \in Approvals,
                 RequestApproval(u, a) \/ RequestExecutionApproval(u, a)
          PROVE  FALSE
      BY <1>2, <3>1 DEF RequestApproval, RequestExecutionApproval, runVars
    <3>2. ASSUME NEW a \in Approvals, NEW d \in Decisions,
                 ResolveExecutionGate(a, d) \/ ResolveRunningApproval(a, d)
          PROVE  FALSE
      BY <1>2, <3>2 DEF ResolveExecutionGate, ResolveRunningApproval, runVars
    <3> QED
      BY <2>4, <3>1, <3>2 DEF ApprovalStep
  <2>5. ASSUME NEW u \in Tasks, NEW r \in Runs, AssignTask(u, r) PROVE FALSE
    BY <1>2, <2>5, AssignRows
  <2>6. ASSUME NEW r \in Runs, RunHandler(r) PROVE FALSE
    <3>1. RunOutcome(r)
      BY <2>6, HandlerOutcome
    <3>2. t = TaskOf[r]
      BY <1>2, <3>1, OutcomeRows
    <3>3. run[r] = None
      BY <1>2, <3>2 DEF RunHasTask
    <3>4. task' = task
      BY <3>1, <3>3 DEF RunOutcome, Starts, Completes, Fails, FailsRunning, FailsQueued,
         Cancels, StaysSettled, UnconfirmedDisconnect, OnlyReceipt
    <3> QED
      BY <1>2, <3>4
  <2>7. ASSUME NEW c \in Computers, SetComputerOnline(c) \/ SetComputerOffline(c) PROVE FALSE
    BY <1>2, <2>7 DEF SetComputerOnline, SetComputerOffline, runVars
  <2>8. CASE UNCHANGED storeVars
    BY <1>2, <2>8 DEF storeVars, runVars
  <2> QED
    BY <1>1, <2>1, <2>2, <2>3, <2>4, <2>5, <2>6, <2>7, <2>8
       DEF Next, ApprovalStep, RunHandler, Prerequisites
<1>3. ASSUME NEW t \in Tasks, task[t] # "backlog"
      PROVE  \A p \in Prerequisites(t) : task'[p] = "done"
  BY <1>1, <1>3 DEF PrerequisitesDone, IsDependentSatisfied, Prerequisites
<1> QED
  BY <1>2, <1>3 DEF PrerequisitesDone, IsDependentSatisfied

\* The rows, one step.
LEMMA RowsStep == ASSUME RowsInv, [Next]_storeVars PROVE RowsInv'
  BY TypeStep, ShapeStep, LeaseStep DEF RowsInv

\* The invariant holds in every reachable state.
THEOREM StoreInvariant == Spec => []StoreInv
<1>1. StoreInv /\ [Next]_storeVars => StoreInv'
  BY RowsStep, PrerequisiteStep DEF StoreInv
<1> QED
  BY StoreInvInit, <1>1, PTL DEF Spec

\* Type correctness of the rows of the store.
THEOREM TypeCorrect == Spec => []TypeOK
  BY StoreInvariant, PTL DEF StoreInv, RowsInv

\* Two runs never hold write leases on overlapping paths (lease-service.ts).
THEOREM LeasesExclude == Spec => []LeaseExclusion
  BY StoreInvariant, PTL DEF StoreInv, RowsInv

\* No handler of run-service.ts takes the leases of a run it leaves active.
THEOREM LeasesKept == Spec => []UnsettledRunKeepsLeases
  BY StoreInvariant, PTL DEF StoreInv, RowsInv

\* No task starts, or becomes ready, before its gating prerequisites are done.
THEOREM PrerequisitesRespected == Spec => []PrerequisitesDone
  BY StoreInvariant, PTL DEF StoreInv

\* A settled run keeps its status and reason and never takes leases again.
THEOREM SettledRunsFinal == Spec => SettledRunIsFinal
<1> DEFINE Final == \A r \in Runs : run[r] \in RunTerminal =>
                      /\ run'[r] = run[r] /\ reason'[r] = reason[r]
                      /\ r \in held' => r \in held
<1>1. StoreInv /\ [Next]_storeVars => Final
  <2> SUFFICES ASSUME StoreInv, [Next]_storeVars PROVE Final
    OBVIOUS
  <2> USE StatusFacts DEF StoreInv, RowsInv, TypeOK, RowsOK
  <2>1. CASE QuietStep
    BY <2>1 DEF QuietStep
  <2>2. ASSUME NEW t \in Tasks, NEW r \in Runs, AssignTask(t, r) PROVE Final
    BY <2>2, AssignRows
  <2>3. ASSUME NEW r \in Runs, RunHandler(r) PROVE Final
    <3>1. RunOutcome(r)
      BY <2>3, HandlerOutcome
    <3>2. run[r] \in RunTerminal => run' = run /\ reason' = reason
      BY <3>1 DEF RunOutcome, Starts, Completes, Fails, FailsRunning, FailsQueued, Cancels,
                  StaysSettled, OnlyReceipt, runVars
    <3> QED
      BY <3>1, <3>2, OutcomeRows
  <2> QED
    BY <2>1, <2>2, <2>3, StepKinds
<1>2. StoreInv /\ [Next]_storeVars => [Final]_storeVars
  BY <1>1
<1> QED
  BY StoreInvariant, <1>2, PTL DEF Spec, SettledRunIsFinal

-------------------------------------------------------------------------------
(* As long as the development fixture is not used no task waits for an      *)
(* approval while its run goes on, and task and run stay in step.           *)

NoPausedTask ==
  /\ FixtureUnused
  /\ \A t \in Tasks : task[t] # "awaiting_approval"

\* The statuses of a task and of its run agree.
InStep ==
  \A r \in Runs : /\ run[r] = "queued" => task[TaskOf[r]] = "assigned"
                  /\ run[r] = "running" => task[TaskOf[r]] = "running"
                  /\ run[r] = "cancelled" => task[TaskOf[r]] = "cancelled"

ProductionInv ==
  /\ NoPausedTask /\ InStep
  /\ OneUnsettledRun /\ TasksHaveRuns /\ GatesAreApproved

\* Init establishes the production invariant.
LEMMA ProductionInit == Init => ProductionInv
  BY StatusFacts, StoreAssumption
     DEF Init, ProductionInv, NoPausedTask, FixtureUnused, InStep, OneUnsettledRun, TasksHaveRuns,
         GatesAreApproved, Active, UnconfirmedDisconnect, StoreAssumption, RunStatus

\* The steps that touch no run leave assigned and running tasks where they are.
LEMMA QuietTasks ==
  ASSUME TypeOK, NoPausedTask, FixtureUnused',
         TaskStep \/ ApprovalStep \/ UNCHANGED storeVars
           \/ \E c \in Computers : SetComputerOnline(c) \/ SetComputerOffline(c)
  PROVE  /\ NoPausedTask'
         /\ \A t \in Tasks : task[t] \in {"assigned", "running", "cancelled"} =>
                             task'[t] = task[t]
         /\ \A t \in Tasks : task'[t] \in {"assigned", "running"} => task'[t] = task[t]
<1> USE TaskEdges DEF TypeOK, runVars, storeVars, approvalVars, NoPausedTask, TaskTerminal,
                      TaskStatus, FixtureUnused
<1> DEFINE Goal == /\ NoPausedTask'
                   /\ \A t \in Tasks : task[t] \in {"assigned", "running", "cancelled"} =>
                                       task'[t] = task[t]
                   /\ \A t \in Tasks : task'[t] \in {"assigned", "running"} =>
                                       task'[t] = task[t]
<1>1. ASSUME NEW t \in Tasks,
             MarkReady(t) \/ AcceptReview(t) \/ RequestChanges(t) \/ RetryTask(t)
      PROVE  Goal
  <2>1. CASE MarkReady(t)
    BY <2>1 DEF MarkReady
  <2>2. CASE AcceptReview(t)
    BY <2>2 DEF AcceptReview, UnlockedBy
  <2>3. CASE RequestChanges(t)
    BY <2>3 DEF RequestChanges
  <2>4. CASE RetryTask(t)
    BY <2>4 DEF RetryTask
  <2> QED
    BY <1>1, <2>1, <2>2, <2>3, <2>4
<1>2. ASSUME NEW t \in Tasks, NEW a \in Approvals,
             RequestApproval(t, a) \/ RequestExecutionApproval(t, a)
      PROVE  Goal
  BY <1>2 DEF RequestApproval, RequestExecutionApproval
<1>3. ASSUME NEW a \in Approvals, NEW d \in Decisions,
             ResolveExecutionGate(a, d) \/ ResolveRunningApproval(a, d)
      PROVE  Goal
  BY <1>3 DEF ResolveExecutionGate, ResolveRunningApproval
<1>4. CASE UNCHANGED storeVars
  BY <1>4
<1>5. ASSUME NEW c \in Computers, SetComputerOnline(c) \/ SetComputerOffline(c)
      PROVE  Goal
  BY <1>5 DEF SetComputerOnline, SetComputerOffline
<1> QED
  BY <1>1, <1>2, <1>3, <1>4, <1>5 DEF TaskStep, ApprovalStep

\* While a run of a task is active, the task is not ready, so its gates are
\* neither superseded nor resolved.
LEMMA QuietGates ==
  ASSUME RowsInv, NoPausedTask, InStep, GatesAreApproved, FixtureUnused',
         TaskStep \/ ApprovalStep \/ UNCHANGED storeVars
           \/ \E c \in Computers : SetComputerOnline(c) \/ SetComputerOffline(c)
  PROVE  GatesAreApproved'
<1> USE StatusFacts, StoreAssumption
    DEF RowsInv, TypeOK, RowsOK, StoreAssumption, runVars, approvalVars, storeVars
<1>1. SUFFICES ASSUME NEW r \in Runs, Active(r), ExecutionGates(TaskOf[r])' # {}
               PROVE  \E a \in CurrentGates(TaskOf[r])' :
                        apStatus'[a] = "approved" /\ apRun'[a] = r
  BY QuietSteps DEF GatesAreApproved, QuietStep, Active
<1>2. task[TaskOf[r]] \in {"assigned", "running"}
  BY <1>1, ActiveFacts DEF InStep
<1>3. CASE UNCHANGED approvalVars
  BY <1>1, <1>3 DEF GatesAreApproved, ExecutionGates, CurrentGates
<1>4. ASSUME NEW t \in Tasks, NEW a \in Approvals, RequestExecutionApproval(t, a)
      PROVE  \E b \in CurrentGates(TaskOf[r])' : apStatus'[b] = "approved" /\ apRun'[b] = r
  <2>1. t # TaskOf[r] /\ ApprovalTask[a] = t
    BY <1>2, <1>4 DEF RequestExecutionApproval
  <2>2. \A b \in Approvals : ApprovalTask[b] = TaskOf[r] =>
          /\ apKind'[b] = apKind[b] /\ apStatus'[b] = apStatus[b]
          /\ apCurrent'[b] = apCurrent[b] /\ apRun'[b] = apRun[b]
    BY <1>4, <2>1 DEF RequestExecutionApproval, CurrentGates, ExecutionGates
  <2>3. PICK b \in CurrentGates(TaskOf[r]) : apStatus[b] = "approved" /\ apRun[b] = r
    <3>1. ExecutionGates(TaskOf[r]) # {}
      BY <1>1, <2>2 DEF ExecutionGates
    <3> QED
      BY <1>1, <3>1 DEF GatesAreApproved
  <2>4. b \in Approvals /\ ApprovalTask[b] = TaskOf[r] /\ apKind[b] = "execution" /\ apCurrent[b]
    BY DEF CurrentGates, ExecutionGates
  <2>5. b \in CurrentGates(TaskOf[r])'
    BY <2>2, <2>4 DEF CurrentGates, ExecutionGates
  <2> QED
    BY <2>2, <2>3, <2>4, <2>5
<1>5. ASSUME NEW a \in Approvals, NEW d \in Decisions, ResolveExecutionGate(a, d)
      PROVE  \E b \in CurrentGates(TaskOf[r])' : apStatus'[b] = "approved" /\ apRun'[b] = r
  <2>1. ApprovalTask[a] # TaskOf[r]
    BY <1>2, <1>5 DEF ResolveExecutionGate
  <2>2. \A b \in Approvals : ApprovalTask[b] = TaskOf[r] =>
          /\ apKind'[b] = apKind[b] /\ apStatus'[b] = apStatus[b]
          /\ apCurrent'[b] = apCurrent[b] /\ apRun'[b] = apRun[b]
    BY <1>5, <2>1 DEF ResolveExecutionGate
  <2>3. PICK b \in CurrentGates(TaskOf[r]) : apStatus[b] = "approved" /\ apRun[b] = r
    <3>1. ExecutionGates(TaskOf[r]) # {}
      BY <1>1, <2>2 DEF ExecutionGates
    <3> QED
      BY <1>1, <3>1 DEF GatesAreApproved
  <2>4. b \in Approvals /\ ApprovalTask[b] = TaskOf[r] /\ apKind[b] = "execution" /\ apCurrent[b]
    BY DEF CurrentGates, ExecutionGates
  <2>5. b \in CurrentGates(TaskOf[r])'
    BY <2>2, <2>4 DEF CurrentGates, ExecutionGates
  <2> QED
    BY <2>2, <2>3, <2>4, <2>5
<1>6. ASSUME NEW t \in Tasks, NEW a \in Approvals, RequestApproval(t, a) PROVE FALSE
  BY <1>6 DEF RequestApproval, FixtureUnused
<1>7. ASSUME NEW a \in Approvals, NEW d \in Decisions, ResolveRunningApproval(a, d)
      PROVE  FALSE
  BY <1>7 DEF ResolveRunningApproval, NoPausedTask, FixtureUnused
<1>8. ASSUME TaskStep PROVE UNCHANGED approvalVars
  BY <1>8 DEF TaskStep, MarkReady, AcceptReview, RequestChanges, RetryTask
<1>9. ASSUME NEW c \in Computers, SetComputerOnline(c) \/ SetComputerOffline(c)
      PROVE  UNCHANGED approvalVars
  BY <1>9 DEF SetComputerOnline, SetComputerOffline
<1> QED
  BY <1>3, <1>4, <1>5, <1>6, <1>7, <1>8, <1>9 DEF ApprovalStep

\* A quiet step preserves the production invariant.
LEMMA ProductionQuiet ==
  ASSUME RowsInv, ProductionInv, FixtureUnused',
         TaskStep \/ ApprovalStep \/ UNCHANGED storeVars
           \/ \E c \in Computers : SetComputerOnline(c) \/ SetComputerOffline(c)
  PROVE  ProductionInv'
<1> USE DEF RowsInv, ProductionInv
<1>1. /\ NoPausedTask'
      /\ \A t \in Tasks : task[t] \in {"assigned", "running", "cancelled"} => task'[t] = task[t]
      /\ \A t \in Tasks : task'[t] \in {"assigned", "running"} => task'[t] = task[t]
  BY QuietTasks
<1>2. UNCHANGED <<run, reason, confirmed>>
  BY QuietSteps DEF QuietStep
<1>3. InStep'
  BY <1>1, <1>2, StoreAssumption DEF InStep, StoreAssumption
<1>4. OneUnsettledRun'
  BY <1>2 DEF OneUnsettledRun, Active, UnconfirmedDisconnect
<1>5. TasksHaveRuns'
  BY <1>1, <1>2 DEF TasksHaveRuns, NoPausedTask, RunsOf, Active
<1> QED
  BY <1>1, <1>3, <1>4, <1>5, QuietGates

\* assignTask finds no other unsettled run of its task, because the task is
\* ready, and binds the one current gate that has been approved.
LEMMA ProductionAssign ==
  ASSUME RowsInv, ProductionInv, NEW t \in Tasks, NEW r \in Runs, AssignTask(t, r)
  PROVE  ProductionInv'
<1> USE StatusFacts, StoreAssumption DEF RowsInv, ProductionInv, RowsOK, StoreAssumption
<1>1. /\ TaskOf[r] = t /\ run[r] = None /\ task[t] = "ready"
      /\ task' = [task EXCEPT ![t] = "assigned"] /\ run' = [run EXCEPT ![r] = "queued"]
      /\ UNCHANGED <<reason, confirmed, apKind, apStatus, apCurrent>>
      /\ task \in [Tasks -> TaskStatus] /\ run \in [Runs -> RunStatus \cup {None}]
  BY AssignRows DEF TypeOK
<1>2. ASSUME NEW s \in Runs, s # r
      PROVE  /\ run'[s] = run[s] /\ (Active(s)' <=> Active(s))
             /\ UnconfirmedDisconnect(s)' <=> UnconfirmedDisconnect(s)
  BY <1>1, <1>2 DEF Active, UnconfirmedDisconnect
<1>3. Active(r)' /\ ~UnconfirmedDisconnect(r)'
  BY <1>1 DEF Active, UnconfirmedDisconnect
<1>4. ASSUME NEW s \in Runs, TaskOf[s] = t PROVE ~Active(s) /\ ~UnconfirmedDisconnect(s)
  <2>1. ~Active(s)
    BY <1>1, <1>4, ActiveFacts DEF InStep
  <2>2. ~UnconfirmedDisconnect(s)
    BY <1>4 DEF AssignTask, RunsOf
  <2> QED
    BY <2>1, <2>2
<1>5. NoPausedTask'
  BY <1>1 DEF NoPausedTask, FixtureUnused
<1>6. InStep'
  <2> SUFFICES ASSUME NEW s \in Runs
               PROVE  /\ run'[s] = "queued" => task'[TaskOf[s]] = "assigned"
                      /\ run'[s] = "running" => task'[TaskOf[s]] = "running"
                      /\ run'[s] = "cancelled" => task'[TaskOf[s]] = "cancelled"
    BY DEF InStep
  <2>1. CASE s = r
    BY <1>1, <2>1
  <2>2. CASE s # r
    <3>1. run'[s] = run[s]
      BY <1>2, <2>2
    <3> QED
      BY <1>1, <3>1 DEF InStep
  <2> QED
    BY <2>1, <2>2
<1>7. OneUnsettledRun'
  <2> SUFFICES ASSUME NEW p \in Runs, NEW q \in Runs, Active(p)', TaskOf[p] = TaskOf[q],
                      Active(q)' \/ UnconfirmedDisconnect(q)'
               PROVE  p = q
    BY DEF OneUnsettledRun
  <2>1. CASE TaskOf[p] = t
    BY <1>2, <1>3, <1>4, <2>1
  <2>2. CASE TaskOf[p] # t
    BY <1>1, <1>2, <2>2 DEF OneUnsettledRun
  <2> QED
    BY <2>1, <2>2
<1>8. TasksHaveRuns'
  <2> SUFFICES ASSUME NEW u \in Tasks,
                      task'[u] \in {"assigned", "running", "awaiting_approval"}
               PROVE  \E s \in RunsOf(u) : Active(s)'
    BY DEF TasksHaveRuns
  <2>1. CASE u = t
    BY <1>1, <1>3, <2>1 DEF RunsOf
  <2>2. CASE u # t
    <3>1. PICK s \in RunsOf(u) : Active(s)
      BY <1>1, <2>2 DEF TasksHaveRuns
    <3> QED
      BY <1>1, <1>2, <2>2, <3>1 DEF RunsOf
  <2> QED
    BY <2>1, <2>2
<1>9. GatesAreApproved'
  <2> SUFFICES ASSUME NEW s \in Runs, Active(s)', ExecutionGates(TaskOf[s])' # {}
               PROVE  \E a \in CurrentGates(TaskOf[s])' :
                        apStatus'[a] = "approved" /\ apRun'[a] = s
    BY DEF GatesAreApproved
  <2>1. \A u \in Tasks : /\ ExecutionGates(u)' = ExecutionGates(u)
                        /\ CurrentGates(u)' = CurrentGates(u)
    BY <1>1 DEF ExecutionGates, CurrentGates
  <2>2. CASE s = r
    <3>1. PICK a \in Approvals : CurrentGates(t) = {a}
      BY <1>1, <2>1, <2>2 DEF AssignTask, ExecutionApprovalGranted
    <3>2. apStatus[a] = "approved"
      BY <3>1 DEF AssignTask, ExecutionApprovalGranted
    <3>3. apRun'[a] = r
      BY <3>1, <3>2 DEF AssignTask, BindExecutionApproval
    <3> QED
      BY <1>1, <2>1, <2>2, <3>1, <3>2, <3>3
  <2>3. CASE s # r
    <3>1. Active(s) /\ TaskOf[s] # t
      BY <1>2, <1>4, <2>3
    <3>2. PICK a \in CurrentGates(TaskOf[s]) : apStatus[a] = "approved" /\ apRun[a] = s
      BY <2>1, <3>1 DEF GatesAreApproved
    <3>3. a \in Approvals /\ a \notin CurrentGates(t)
      BY <3>1, <3>2 DEF CurrentGates, ExecutionGates
    <3>4. apRun'[a] = s
      BY <3>2, <3>3 DEF AssignTask, BindExecutionApproval
    <3> QED
      BY <1>1, <2>1, <3>2, <3>4
  <2> QED
    BY <2>2, <2>3
<1> QED
  BY <1>5, <1>6, <1>7, <1>8, <1>9

\* While task and run are in step, a handler changes neither, starts both, or
\* settles both.
LEMMA ProductionOutcome ==
  ASSUME RowsInv, ProductionInv, NEW r \in Runs, RunOutcome(r)
  PROVE  \/ task' = task /\ run' = run /\ reason' = reason /\ confirmed \subseteq confirmed'
         \/ /\ Active(r) /\ run'[r] = "running" /\ reason' = reason /\ confirmed' = confirmed
            /\ task'[TaskOf[r]] = "running"
         \/ /\ Active(r) /\ run'[r] \in RunTerminal /\ confirmed \subseteq confirmed'
            /\ task'[TaskOf[r]] \notin {"assigned", "running", "awaiting_approval"}
            /\ run'[r] = "cancelled" => task'[TaskOf[r]] = "cancelled"
<1> USE StatusFacts, StoreAssumption
    DEF RowsInv, TypeOK, ProductionInv, StoreAssumption, Update, Active, InStep, TaskTerminal
<1>1. CASE Starts(r)
  BY <1>1 DEF Starts
<1>2. CASE Completes(r)
  BY <1>2 DEF Completes
<1>3. CASE Cancels(r)
  BY <1>3 DEF Cancels
<1>4. CASE Fails(r)
  <2>1. confirmed \subseteq confirmed'
    BY <1>4 DEF Fails
  <2>2. CASE FailsRunning(r)
    BY <2>1, <2>2 DEF FailsRunning
  <2>3. CASE FailsQueued(r)
    BY <2>1, <2>3 DEF FailsQueued
  <2> QED
    BY <1>4, <2>2, <2>3 DEF Fails
<1>5. CASE StaysSettled(r)
  <2>1. UNCHANGED task
    <3> SUFFICES ASSUME task[TaskOf[r]] = "assigned",
                        run[r] = "cancelled" \/ UnconfirmedDisconnect(r)
                 PROVE  FALSE
      BY <1>5 DEF StaysSettled
    <3>1. UnconfirmedDisconnect(r)
      OBVIOUS
    <3>2. PICK s \in RunsOf(TaskOf[r]) : Active(s)
      BY DEF TasksHaveRuns
    <3>3. s = r
      BY <3>1, <3>2 DEF OneUnsettledRun, RunsOf
    <3> QED
      BY <3>1, <3>2, <3>3 DEF UnconfirmedDisconnect
  <2> QED
    BY <1>5, <2>1 DEF StaysSettled
<1>6. CASE OnlyReceipt(r)
  BY <1>6 DEF OnlyReceipt, runVars
<1> QED
  BY <1>1, <1>2, <1>3, <1>4, <1>5, <1>6 DEF RunOutcome

\* The handlers of a run preserve the production invariant.
LEMMA ProductionHandler ==
  ASSUME RowsInv, ProductionInv, NEW r \in Runs, RunHandler(r)
  PROVE  ProductionInv'
<1> USE StatusFacts, StoreAssumption DEF RowsInv, ProductionInv, RowsOK
<1> DEFINE t == TaskOf[r]
<1>1. RunOutcome(r) /\ t \in Tasks
  BY HandlerOutcome DEF StoreAssumption
<1>2. ASSUME NEW s \in Runs, s # r PROVE run'[s] = run[s] /\ reason'[s] = reason[s]
  BY <1>1, <1>2, OutcomeRows
<1>3. \A u \in Tasks \ {t} : task'[u] = task[u]
  BY <1>1, OutcomeRows
<1>4. UNCHANGED approvalVars
  BY <1>1, OutcomeRows
<1>5. confirmed \subseteq confirmed'
  BY <1>1, ProductionOutcome
<1>6. Active(r)' => Active(r)
  BY <1>1, ProductionOutcome DEF Active
<1>7. ASSUME NEW s \in Runs
      PROVE  UnconfirmedDisconnect(s)' => UnconfirmedDisconnect(s) \/ (s = r /\ Active(r))
  <2>1. CASE s = r
    BY <1>1, <1>5, <2>1, ProductionOutcome DEF UnconfirmedDisconnect
  <2>2. CASE s # r
    BY <1>2, <1>5, <2>2 DEF UnconfirmedDisconnect
  <2> QED
    BY <2>1, <2>2
<1>8. ASSUME Active(r), NEW s \in Runs, TaskOf[s] = t, s # r PROVE run[s] \in {"completed", "failed", None}
  <2>1. ~Active(s)
    BY <1>8 DEF OneUnsettledRun
  <2>2. task[t] \in {"assigned", "running"}
    BY <1>8, ActiveFacts DEF InStep
  <2> QED
    BY <1>8, <2>1, <2>2, ActiveFacts DEF InStep
<1>9. NoPausedTask'
  BY <1>1, <1>3, <1>4, ProductionOutcome DEF NoPausedTask, FixtureUnused, approvalVars
<1>10. InStep'
  <2> SUFFICES ASSUME NEW s \in Runs
               PROVE  /\ run'[s] = "queued" => task'[TaskOf[s]] = "assigned"
                      /\ run'[s] = "running" => task'[TaskOf[s]] = "running"
                      /\ run'[s] = "cancelled" => task'[TaskOf[s]] = "cancelled"
    BY DEF InStep
  <2>0. TaskOf[s] \in Tasks
    BY DEF StoreAssumption
  <2>1. CASE s = r
    BY <1>1, <2>1, ProductionOutcome DEF InStep
  <2>2. CASE s # r /\ TaskOf[s] # t
    BY <1>2, <1>3, <2>0, <2>2 DEF InStep
  <2>3. CASE s # r /\ TaskOf[s] = t /\ Active(r)
    <3>1. run'[s] \in {"completed", "failed", None}
      BY <1>2, <1>8, <2>3
    <3> QED
      BY <3>1 DEF RunActive, RunTerminal, StoreAssumption, RunStatus
  <2>4. CASE s # r /\ TaskOf[s] = t /\ ~Active(r)
    <3>1. task' = task
      BY <1>1, <2>4, ProductionOutcome
    <3> QED
      BY <1>2, <2>4, <3>1 DEF InStep
  <2> QED
    BY <2>1, <2>2, <2>3, <2>4
<1>11. OneUnsettledRun'
  <2> SUFFICES ASSUME NEW p \in Runs, NEW q \in Runs, Active(p)', TaskOf[p] = TaskOf[q],
                      Active(q)' \/ UnconfirmedDisconnect(q)'
               PROVE  p = q
    BY DEF OneUnsettledRun
  <2>1. Active(p) /\ (Active(q)' => Active(q))
    BY <1>2, <1>6 DEF Active
  <2>2. Active(q) \/ UnconfirmedDisconnect(q)
    BY <1>7, <2>1
  <2> QED
    BY <2>1, <2>2 DEF OneUnsettledRun
<1>12. TasksHaveRuns'
  <2> SUFFICES ASSUME NEW u \in Tasks,
                      task'[u] \in {"assigned", "running", "awaiting_approval"}
               PROVE  \E s \in RunsOf(u) : Active(s)'
    BY DEF TasksHaveRuns
  <2>1. CASE u = t /\ Active(r)
    <3>1. Active(r)'
      BY <1>1, <2>1, ProductionOutcome DEF Active
    <3> QED
      BY <2>1, <3>1 DEF RunsOf
  <2>2. CASE u # t \/ ~Active(r)
    <3>1. task'[u] = task[u]
      BY <1>1, <1>3, <2>2, ProductionOutcome
    <3>2. PICK s \in RunsOf(u) : Active(s)
      BY <3>1 DEF TasksHaveRuns
    <3>3. s \in Runs /\ s # r
      BY <2>2, <3>2 DEF RunsOf
    <3>4. Active(s)'
      BY <1>2, <3>2, <3>3 DEF Active
    <3> QED
      BY <3>2, <3>4 DEF RunsOf
  <2> QED
    BY <2>1, <2>2
<1>13. GatesAreApproved'
  <2>1. \A s \in Runs : Active(s)' => Active(s)
    BY <1>2, <1>6 DEF Active
  <2> QED
    BY <1>4, <2>1 DEF GatesAreApproved, ExecutionGates, CurrentGates, approvalVars
<1> QED
  BY <1>9, <1>10, <1>11, <1>12, <1>13

\* The fixture, once used, leaves its approval behind.
LEMMA FixtureStays ==
  ASSUME RowsInv, [Next]_storeVars, FixtureUnused'
  PROVE  FixtureUnused
<1> USE DEF FixtureUnused, RowsInv, TypeOK, runVars, approvalVars, storeVars
<1>1. CASE TaskStep
  BY <1>1 DEF TaskStep, MarkReady, AcceptReview, RequestChanges, RetryTask
<1>2. CASE ApprovalStep
  <2>1. ASSUME NEW t \in Tasks, NEW a \in Approvals,
               RequestApproval(t, a) \/ RequestExecutionApproval(t, a)
        PROVE  FixtureUnused
    <3>1. apKind[a] # "running"
      BY <2>1, StoreAssumption DEF StoreAssumption, RequestApproval, RequestExecutionApproval
    <3>2. \A b \in Approvals \ {a} : apKind'[b] = apKind[b]
      BY <2>1 DEF RequestApproval, RequestExecutionApproval
    <3> QED
      BY <3>1, <3>2
  <2>2. ASSUME NEW a \in Approvals, NEW d \in Decisions,
               ResolveExecutionGate(a, d) \/ ResolveRunningApproval(a, d)
        PROVE  apKind' = apKind
    BY <2>2 DEF ResolveExecutionGate, ResolveRunningApproval
  <2> QED
    BY <1>2, <2>1, <2>2 DEF ApprovalStep
<1>3. ASSUME NEW t \in Tasks, NEW r \in Runs, AssignTask(t, r)
      PROVE  FixtureUnused
  BY <1>3, AssignRows
<1>4. ASSUME NEW r \in Runs, RunHandler(r) PROVE FixtureUnused
  <2>1. RunOutcome(r)
    BY <1>4, HandlerOutcome DEF RowsOK
  <2>2. UNCHANGED approvalVars
    BY <2>1, OutcomeRows DEF RowsOK
  <2> QED
    BY <2>2
<1>5. CASE UNCHANGED storeVars
  BY <1>5
<1>6. ASSUME NEW c \in Computers, SetComputerOnline(c) \/ SetComputerOffline(c)
      PROVE  FixtureUnused
  BY <1>6 DEF SetComputerOnline, SetComputerOffline
<1> QED
  BY <1>1, <1>2, <1>3, <1>4, <1>5, <1>6 DEF Next, TaskStep, ApprovalStep, RunHandler

\* The production invariant, one step.
LEMMA ProductionStep ==
  ASSUME RowsInv, ProductionInv, [Next]_storeVars, FixtureUnused' PROVE ProductionInv'
  BY ProductionQuiet, ProductionAssign, ProductionHandler
     DEF Next, TaskStep, ApprovalStep, RunHandler

\* As long as the development fixture has not been used the invariant holds.
THEOREM ProductionInvariant == Spec => [](FixtureUnused => ProductionInv)
<1>1. Init => (FixtureUnused => ProductionInv)
  BY ProductionInit
<1>2. StoreInv /\ (FixtureUnused => ProductionInv) /\ [Next]_storeVars
        => (FixtureUnused => ProductionInv)'
  <2> SUFFICES ASSUME StoreInv, FixtureUnused => ProductionInv, [Next]_storeVars,
                      FixtureUnused'
               PROVE  ProductionInv'
    OBVIOUS
  <2>1. RowsInv
    BY DEF StoreInv
  <2>2. ProductionInv
    BY <2>1, FixtureStays
  <2> QED
    BY <2>1, <2>2, ProductionStep
<1> QED
  BY StoreInvariant, <1>1, <1>2, PTL DEF Spec

\* assignTask never starts a second execution of a task while a run of it is
\* active or its exit is unconfirmed.
THEOREM OneRunPerTask == Spec => []OneUnsettledRunPerTask
<1>1. (FixtureUnused => ProductionInv) => OneUnsettledRunPerTask
  BY DEF ProductionInv, OneUnsettledRunPerTask
<1> QED
  BY ProductionInvariant, <1>1, PTL

\* A task that waits for an execution has an active run to move it on.
THEOREM NoTaskStranded == Spec => []NoStrandedTask
<1>1. (FixtureUnused => ProductionInv) => NoStrandedTask
  BY DEF ProductionInv, NoStrandedTask
<1> QED
  BY ProductionInvariant, <1>1, PTL

\* An active run of a gated task holds the gate that was approved for it.
THEOREM GatesConsumedOnce == Spec => []GatedRunIsApproved
<1>1. (FixtureUnused => ProductionInv) => GatedRunIsApproved
  BY DEF ProductionInv, GatedRunIsApproved
<1> QED
  BY ProductionInvariant, <1>1, PTL
===============================================================================
