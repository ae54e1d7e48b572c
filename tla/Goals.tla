--------------------------------- MODULE Goals ---------------------------------
(***************************************************************************)
(* One goal above the execution state of RunStore: its versioned plans, the *)
(* tasks its accepted plan materialises, its budgets, checkpoints and        *)
(* blockers, and its cancellation, which waits for execution nodes between   *)
(* two transactions.  Every other call is one transaction.                   *)
(*                                                                         *)
(* Plans are numbered by version.  PlanOf says which plan's specs create a   *)
(* task; until that plan is materialised the task does not exist.            *)
(***************************************************************************)
EXTENDS RunStore

CONSTANTS
  LastVersion,    \* bound: plan versions proposed for the goal
  PlanOf,         \* task -> the version that materialises it (sourcePlanId)
  MaxRetries,     \* budgets.max_retries
  MaxConcurrent,  \* budgets.max_concurrent_runs
  MaxResumes,     \* bound: resumes of the goal
  Elapses         \* whether the goal has a max_elapsed_ms that can pass

Versions == 1..LastVersion

ASSUME GoalAssumption ==
  /\ LastVersion \in Nat
  /\ PlanOf \in [Tasks -> Versions]
  /\ \A p, t \in Tasks : <<p, t>> \in Gating => PlanOf[p] = PlanOf[t]
  /\ MaxRetries \in Nat /\ MaxConcurrent \in Nat \ {0} /\ MaxResumes \in Nat
  /\ Elapses \in BOOLEAN
  /\ IsFiniteSet(Runs)
  /\ None \notin {"proposed", "accepted", "rejected", "superseded"}

VARIABLES
  goal,        \* goals.status
  current,     \* goals.current_plan_id, 0 for null
  retries,     \* goals.retry_count
  elapsed,     \* running_since is max_elapsed_ms ago
  plan,        \* plans.status, None before the version is proposed
  checkpoint,  \* active_runs of the latest checkpoint, None before the first
  blocking,    \* runs with an open blocker of the reconciler
  toBlock,     \* reconcileGoalFromCheckpoint, before it moves the goal to blocked
  cancel,      \* cancelGoal under way: its phase, the runs left, the one it stops
  resumes

goalVars == <<goal, current, retries, elapsed, plan, checkpoint, blocking,
              toBlock, cancel, resumes>>
goalStoreVars == <<storeVars, goalVars>>

GoalStatus == {"draft", "planned", "running", "awaiting_approval", "paused",
               "blocked", "completed", "cancelled", "archived"}
PlanStatus == {"proposed", "accepted", "rejected", "superseded"}

\* GOAL_TRANSITIONS, the triggers the services use.
GoalTransitions ==
  { <<"draft", "plan_accepted", "planned">>, <<"planned", "dag_materialized", "running">>,
    <<"paused", "resume", "running">>, <<"running", "blocked_detected", "blocked">>,
    <<"running", "all_tasks_terminal", "completed">> }
  \cup {<<s, "pause", "paused">> : s \in {"running", "awaiting_approval", "blocked"}}
  \cup {<<s, "cancel", "cancelled">> : s \in {"draft", "planned", "running",
                                             "awaiting_approval", "paused", "blocked"}}

CanTransitionGoal(from, trigger) ==
  \E to \in GoalStatus : <<from, trigger, to>> \in GoalTransitions

ApplyGoalTransition(from, trigger) ==
  CHOOSE to \in GoalStatus : <<from, trigger, to>> \in GoalTransitions

NoCancel == [phase |-> "idle", todo |-> {}, at |-> None]

GoalInit ==
  /\ Init
  /\ goal = "draft" /\ current = 0 /\ retries = 0 /\ elapsed = FALSE
  /\ plan = [v \in Versions |-> None]
  /\ checkpoint = None /\ blocking = {} /\ toBlock = FALSE
  /\ cancel = NoCancel /\ resumes = 0

-------------------------------------------------------------------------------
(* Queries. *)

\* Acceptance and materialisation are one transaction.
Exists(t) == plan[PlanOf[t]] \in {"accepted", "superseded"}
GoalTasks == {t \in Tasks : Exists(t)}
CurrentTasks == {t \in GoalTasks : PlanOf[t] = current}

\* Mutant: a run whose exit is unknown no longer counts.
MutUnsettledRuns == {r \in Runs : Active(r)}

\* unsettledGoalRunIds: live runs, holders of leases and unconfirmed disconnects.
UnsettledRuns == {r \in Runs : Active(r) \/ r \in held \/ UnconfirmedDisconnect(r)}

ActiveGoalRuns == {r \in Runs : Active(r)}

\* assertGoalAllowsExecution, its concurrency limit left to AssignGoalTask.
GoalAllowsExecution(t, retrying) ==
  /\ PlanOf[t] = current
  /\ goal \notin {"paused", "cancelled", "completed", "archived", "awaiting_approval"}
  /\ ~elapsed
  /\ (retries + IF retrying THEN 1 ELSE 0) <= MaxRetries

-------------------------------------------------------------------------------
(* Plans (plan-service.ts). *)

\* The next version; replanning needs a paused or blocked goal.
ProposePlan(v) ==
  /\ plan[v] = None /\ \A u \in Versions : u < v => plan[u] # None
  /\ IF \E u \in Versions : plan[u] = "accepted"
     THEN goal \in {"paused", "blocked"} ELSE goal \in {"draft", "planned"}
  /\ plan' = [plan EXCEPT ![v] = "proposed"]
  /\ UNCHANGED <<storeVars, goal, current, retries, elapsed, checkpoint, blocking,
                 toBlock, cancel, resumes>>

RejectPlan(v) ==
  /\ plan[v] = "proposed"
  /\ plan' = [plan EXCEPT ![v] = "rejected"]
  /\ UNCHANGED <<storeVars, goal, current, retries, elapsed, checkpoint, blocking,
                 toBlock, cancel, resumes>>

\* Tasks of the replaced plan that were never executed.
RetiredTasks ==
  {t \in CurrentTasks : /\ \A r \in RunsOf(t) : run[r] = None
                        /\ CanTransitionTask(task[t], "cancel")}

\* acceptPlan with materializeInTx: a first plan starts the goal, a newer one
\* replaces the plan of a paused goal whose executions have all settled.
AcceptPlan(v) ==
  /\ plan[v] = "proposed"
  /\ \/ current = 0 /\ goal = "draft"
     \/ current # 0 /\ goal = "paused" /\ v > current /\ UnsettledRuns = {}
  /\ task' = [t \in Tasks |-> IF current # 0 /\ t \in RetiredTasks
                              THEN ApplyTaskTransition(task[t], "cancel") ELSE task[t]]
  /\ plan' = [u \in Versions |-> IF u = v THEN "accepted"
                                 ELSE IF plan[u] = "accepted" THEN "superseded" ELSE plan[u]]
  /\ current' = v
  /\ goal' = IF current # 0 THEN "paused"
             ELSE ApplyGoalTransition(ApplyGoalTransition("draft", "plan_accepted"),
                                      "dag_materialized")
  /\ checkpoint' = ActiveGoalRuns
  /\ UNCHANGED <<run, reason, confirmed, held, receipts, online, approvalVars,
                 retries, elapsed, blocking, toBlock, cancel, resumes>>

-------------------------------------------------------------------------------
(* The goal's own status (goal-service.ts, budget-service.ts). *)

PauseGoal ==
  /\ CanTransitionGoal(goal, "pause")
  /\ goal' = ApplyGoalTransition(goal, "pause")
  /\ checkpoint' = ActiveGoalRuns
  /\ UNCHANGED <<storeVars, current, retries, elapsed, plan, blocking, toBlock,
                 cancel, resumes>>

\* Mutant: a cancellation under way does not refuse the resume.
MutResumeGoal ==
  /\ CanTransitionGoal(goal, "resume")
  /\ resumes < MaxResumes /\ resumes' = resumes + 1
  /\ goal' = ApplyGoalTransition(goal, "resume")
  /\ checkpoint' = ActiveGoalRuns
  /\ UNCHANGED <<storeVars, current, retries, elapsed, plan, blocking, toBlock, cancel>>

\* resumeGoal: refused while this process has a cancellation of the goal pending.
ResumeGoal ==
  /\ cancel.phase = "idle"
  /\ CanTransitionGoal(goal, "resume")
  /\ resumes < MaxResumes /\ resumes' = resumes + 1
  /\ goal' = ApplyGoalTransition(goal, "resume")
  /\ checkpoint' = ActiveGoalRuns
  /\ UNCHANGED <<storeVars, current, retries, elapsed, plan, blocking, toBlock, cancel>>

\* The clock: running_since is stamped when the first plan starts, never reset.
TimePasses ==
  /\ Elapses /\ ~elapsed /\ current # 0
  /\ elapsed' = TRUE
  /\ UNCHANGED <<storeVars, goal, current, retries, plan, checkpoint, blocking,
                 toBlock, cancel, resumes>>

\* enforceGoalBudget, from the monitor or after a terminal run event.
EnforceGoalBudget ==
  /\ goal = "running"
  /\ elapsed \/ retries > MaxRetries
  /\ goal' = ApplyGoalTransition("running", "pause")
  /\ checkpoint' = ActiveGoalRuns
  /\ UNCHANGED <<storeVars, current, retries, elapsed, plan, blocking, toBlock,
                 cancel, resumes>>

-------------------------------------------------------------------------------
(* Reconciliation with the latest checkpoint (resume-service.ts). *)

\* A run the checkpoint saw active needs a blocker if it failed, was cancelled,
\* or shows no event since then (the caller's `stale').
NeedsBlocker(r, stale) ==
  run[r] \in {"failed", "cancelled"} \/ (Active(r) /\ r \in stale)

ReconcileGoal(stale) ==
  /\ goal \notin {"completed", "cancelled", "archived"} /\ checkpoint # None
  /\ ~toBlock
  /\ blocking' = blocking \cup {r \in checkpoint : NeedsBlocker(r, stale)}
  /\ toBlock' = (goal = "running" /\ blocking' # {})
  /\ UNCHANGED <<storeVars, goal, current, retries, elapsed, plan, checkpoint, cancel,
                 resumes>>

\* transitionGoal validates the status again; the reconciler's was read before.
BlockGoal ==
  /\ toBlock
  /\ toBlock' = FALSE
  /\ goal' = IF CanTransitionGoal(goal, "blocked_detected")
             THEN ApplyGoalTransition(goal, "blocked_detected") ELSE goal
  /\ UNCHANGED <<storeVars, current, retries, elapsed, plan, checkpoint, blocking,
                 cancel, resumes>>

\* A user resolves a blocker; nothing else happens.
ResolveBlocker(r) ==
  /\ r \in blocking
  /\ blocking' = blocking \ {r}
  /\ UNCHANGED <<storeVars, goal, current, retries, elapsed, plan, checkpoint,
                 toBlock, cancel, resumes>>

-------------------------------------------------------------------------------
(* Tasks of the goal (lifecycle-service.ts). *)

GoalMarkReady(t) == Exists(t) /\ MarkReady(t) /\ UNCHANGED goalVars

AssignGoalTask(t, r) ==
  /\ Exists(t)
  /\ GoalAllowsExecution(t, FALSE)
  /\ Cardinality(UnsettledRuns) < MaxConcurrent
  /\ AssignTask(t, r)
  /\ UNCHANGED goalVars

Retrying(t) ==
  /\ Exists(t)
  /\ GoalAllowsExecution(t, TRUE)
  /\ RequestChanges(t) \/ RetryTask(t)
  /\ retries' = retries + 1
  /\ UNCHANGED <<goal, current, elapsed, plan, checkpoint, blocking, toBlock, cancel, resumes>>

\* completeGoalIfAllTasksDone, in the transaction of the accepted review.
CompleteGoal ==
  goal' = IF /\ goal = "running" /\ CurrentTasks # {}
             /\ \A u \in CurrentTasks : task'[u] = "done"
          THEN ApplyGoalTransition("running", "all_tasks_terminal") ELSE goal

AcceptGoalTask(t) ==
  /\ Exists(t)
  /\ AcceptReview(t)
  /\ CompleteGoal
  /\ UNCHANGED <<current, retries, elapsed, plan, checkpoint, blocking, toBlock,
                 cancel, resumes>>

\* What nodes and users do to runs.
RunStep ==
  /\ \/ \E r \in Runs : CancelRunCommit(r) \/ NodeRejectsStart(r)
     \/ \E r \in Runs, e \in BOOLEAN : FailRunDaemonDisconnect(r, e)
     \/ \E r \in Runs, q \in Seqs, b \in Bodies : NodeDelivers(r, q, b)
     \/ \E c \in Computers : SetComputerOnline(c) \/ SetComputerOffline(c)
  /\ UNCHANGED goalVars

-------------------------------------------------------------------------------
(* cancelGoal: fence, read the runs, stop them one by one, commit. *)

otherGoalVars == <<current, retries, elapsed, plan, checkpoint, blocking, toBlock, resumes>>

FenceGoal ==
  /\ cancel.phase = "idle"
  /\ CanTransitionGoal(goal, "cancel")
  /\ goal' = "paused"
  /\ cancel' = [NoCancel EXCEPT !.phase = "fenced"]
  /\ UNCHANGED <<storeVars, otherGoalVars>>

ReadGoalRuns ==
  /\ cancel.phase = "fenced"
  /\ cancel' = [phase |-> "stopping", at |-> None, todo |-> UnsettledRuns]
  /\ UNCHANGED <<storeVars, goal, otherGoalVars>>

\* The callback reads the run: a settled one is skipped, an unconfirmed one is
\* stopped and its exit recorded, an active one goes through cancelRun.
StopNext(r) ==
  /\ cancel.phase = "stopping" /\ cancel.at = None /\ r \in cancel.todo
  /\ \/ /\ run[r] \in {"cancelled", "completed"}
        /\ cancel' = [cancel EXCEPT !.todo = @ \ {r}]
        /\ UNCHANGED storeVars
     \/ /\ run[r] \notin {"cancelled", "completed"} /\ ComputerOf[r] \in online
        /\ reason[r] = "daemon_disconnect"
        /\ FailRunDaemonDisconnect(r, TRUE)
        /\ cancel' = [cancel EXCEPT !.todo = @ \ {r}]
     \/ /\ run[r] \notin {"cancelled", "completed"} /\ ComputerOf[r] \in online
        /\ reason[r] # "daemon_disconnect"
        /\ cancel' = [cancel EXCEPT !.at = r]
        /\ UNCHANGED storeVars
  /\ UNCHANGED <<goal, otherGoalVars>>

\* cancelRun answered, or threw although the run settled meanwhile.
StopAnswered ==
  LET r == cancel.at IN
  /\ r # None
  /\ \/ CancelRunCommit(r)
     \/ run[r] \in RunTerminal /\ UNCHANGED storeVars
  /\ cancel' = [cancel EXCEPT !.todo = @ \ {r}, !.at = None]
  /\ UNCHANGED <<goal, otherGoalVars>>

\* A stop fails or its computer is offline, or the server stops: the goal
\* remains paused.
AbortCancel ==
  /\ cancel.phase = "stopping" /\ cancel.todo # {}
  /\ cancel' = NoCancel
  /\ UNCHANGED <<storeVars, goal, otherGoalVars>>

\* Mutant: the last transaction does not look for unsettled runs again.
MutCommitCancel ==
  /\ cancel.phase = "stopping" /\ cancel.todo = {}
  /\ cancel' = NoCancel
  /\ goal' = ApplyGoalTransition("paused", "cancel")
  /\ task' = [t \in Tasks |-> IF t \in GoalTasks /\ CanTransitionTask(task[t], "cancel")
                              THEN ApplyTaskTransition(task[t], "cancel") ELSE task[t]]
  /\ UNCHANGED <<run, reason, confirmed, held, receipts, online, approvalVars, otherGoalVars>>

\* The last transaction: conflict unless the goal is still paused and every run
\* has settled; otherwise its open tasks are cancelled with it.
CommitCancel ==
  /\ cancel.phase = "stopping" /\ cancel.todo = {}
  /\ cancel' = NoCancel
  /\ IF goal = "paused" /\ UnsettledRuns = {}
     THEN /\ goal' = ApplyGoalTransition("paused", "cancel")
          /\ task' = [t \in Tasks |-> IF t \in GoalTasks /\ CanTransitionTask(task[t], "cancel")
                                      THEN ApplyTaskTransition(task[t], "cancel") ELSE task[t]]
     ELSE UNCHANGED <<goal, task>>
  /\ UNCHANGED <<run, reason, confirmed, held, receipts, online, approvalVars, otherGoalVars>>

GoalNext ==
  \/ \E v \in Versions : ProposePlan(v) \/ RejectPlan(v) \/ AcceptPlan(v)
  \/ PauseGoal \/ ResumeGoal \/ TimePasses \/ EnforceGoalBudget
  \/ \E stale \in SUBSET ActiveGoalRuns : ReconcileGoal(stale)
  \/ BlockGoal
  \/ \E r \in Runs : ResolveBlocker(r)
  \/ \E t \in Tasks : GoalMarkReady(t) \/ Retrying(t) \/ AcceptGoalTask(t)
  \/ \E t \in Tasks, r \in Runs : AssignGoalTask(t, r)
  \/ RunStep
  \/ FenceGoal \/ ReadGoalRuns \/ StopAnswered \/ AbortCancel \/ CommitCancel
  \/ \E r \in Runs : StopNext(r)

GoalSpec == GoalInit /\ [][GoalNext]_goalStoreVars

-------------------------------------------------------------------------------
(* Properties. *)

\* Runs whose process may exist: active, or lost without proof of its exit.
MayBeAlive == {r \in Runs : Active(r) \/ UnconfirmedDisconnect(r)}

\* A cancelled goal is over: no run of it is active or may still have a process,
\* none holds a lease, and all its tasks are terminal, whatever events, stops
\* and disconnects raced with the cancellation (cancelGoalExecution).
CancelledGoalIsQuiet ==
  goal = "cancelled" =>
    /\ MayBeAlive = {} /\ held = {}
    /\ \A t \in GoalTasks : task[t] \in TaskTerminal

\* No run of a replaced plan is alive or may be (acceptPlan), also later, when
\* the new plan's tasks run.
ReplacedPlanIsQuiet ==
  \A r \in MayBeAlive : PlanOf[TaskOf[r]] = current

\* A completed goal has every task of its plan accepted and nothing running
\* (completeGoalIfAllTasksDone looks at task statuses only).
CompletedGoalIsDone ==
  goal = "completed" =>
    /\ \A t \in CurrentTasks : task[t] = "done"
    /\ MayBeAlive = {}

\* No plan is left, for another or as completed, while something of it may work.
PlanEndsQuiet == ReplacedPlanIsQuiet /\ CompletedGoalIsDone

\* max_concurrent_runs counts processes that may be alive, not active rows.
ConcurrentRunsBounded == Cardinality(MayBeAlive) <= MaxConcurrent

\* From the fence of a cancellation to its end no run of the goal is created,
\* whatever is resumed, replanned or retried meanwhile.
CancellationFences ==
  [][cancel.phase # "idle" => \A r \in Runs : run[r] = None => run'[r] = None]_goalStoreVars
===============================================================================
