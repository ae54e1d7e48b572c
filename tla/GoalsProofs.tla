------------------------------ MODULE GoalsProofs ------------------------------
(***************************************************************************)
(* Proofs about Goals for any plans, tasks, runs and budgets.  GoalInv is   *)
(* inductive: the execution state of RunStore keeps its own invariants      *)
(* below a goal, and the goal's status says what may still be alive.        *)
(***************************************************************************)
EXTENDS Goals, RunStoreProofs, FiniteSetTheorems

-------------------------------------------------------------------------------
(* The invariant. *)

GoalTypeOK ==
  /\ goal \in GoalStatus
  /\ current \in {0} \cup Versions
  /\ retries \in Nat /\ resumes \in Nat
  /\ elapsed \in BOOLEAN /\ toBlock \in BOOLEAN
  /\ plan \in [Versions -> PlanStatus \cup {None}]
  /\ checkpoint \in (SUBSET Runs) \cup {None}
  /\ blocking \subseteq Runs
  /\ cancel \in [phase : {"idle", "fenced", "stopping"}, todo : SUBSET Runs,
                 at : Runs \cup {None}]

\* Only tasks of a materialised plan are executed.
RunHasPlan == \A r \in Runs : run[r] # None => Exists(TaskOf[r])

\* The fence of a cancellation stands until the cancellation ends.
CancelPauses == cancel.phase # "idle" => goal = "paused"

\* A task is reviewed only when the process of its run has ended.
WorkNotReviewed == \A r \in MayBeAlive : task[TaskOf[r]] \notin {"review", "done"}

GoalInv ==
  /\ GoalTypeOK /\ RowsInv /\ ProductionInv
  /\ RunHasPlan /\ CancelPauses /\ WorkNotReviewed
  /\ CancelledGoalIsQuiet /\ PlanEndsQuiet /\ ConcurrentRunsBounded

\* The edges of the goal's machine that the services take.
LEMMA GoalEdges ==
  /\ \A s \in GoalStatus :
       /\ CanTransitionGoal(s, "pause") <=> s \in {"running", "awaiting_approval", "blocked"}
       /\ CanTransitionGoal(s, "pause") => ApplyGoalTransition(s, "pause") = "paused"
       /\ CanTransitionGoal(s, "resume") <=> s = "paused"
       /\ CanTransitionGoal(s, "blocked_detected") <=> s = "running"
       /\ CanTransitionGoal(s, "cancel") => s \notin {"completed", "cancelled", "archived"}
  /\ ApplyGoalTransition("running", "pause") = "paused"
  /\ ApplyGoalTransition("paused", "resume") = "running"
  /\ ApplyGoalTransition("running", "blocked_detected") = "blocked"
  /\ ApplyGoalTransition("paused", "cancel") = "cancelled"
  /\ ApplyGoalTransition("draft", "plan_accepted") = "planned"
  /\ ApplyGoalTransition("planned", "dag_materialized") = "running"
  /\ ApplyGoalTransition("running", "all_tasks_terminal") = "completed"
  BY DEF CanTransitionGoal, ApplyGoalTransition, GoalTransitions, GoalStatus

\* Runs that may be alive are among the unsettled ones.
LEMMA AliveUnsettled == MayBeAlive \subseteq UnsettledRuns /\ held \cap Runs \subseteq UnsettledRuns
  BY DEF MayBeAlive, UnsettledRuns

\* The goal starts with nothing.
LEMMA GoalInitial == GoalInit => GoalInv
<1> SUFFICES ASSUME GoalInit PROVE GoalInv
  OBVIOUS
<1> USE DEF GoalInit
<1>1. GoalTypeOK
  <2>1. /\ goal \in GoalStatus /\ current \in {0} \cup Versions
        /\ retries \in Nat /\ resumes \in Nat
    BY DEF GoalStatus
  <2>2. elapsed \in BOOLEAN /\ toBlock \in BOOLEAN
    OBVIOUS
  <2>3. plan \in [Versions -> PlanStatus \cup {None}]
    OBVIOUS
  <2>4. checkpoint \in (SUBSET Runs) \cup {None} /\ blocking \subseteq Runs
    OBVIOUS
  <2>5. cancel \in [phase : {"idle", "fenced", "stopping"}, todo : SUBSET Runs,
                    at : Runs \cup {None}]
    BY DEF NoCancel
  <2> QED
    BY <2>1, <2>2, <2>3, <2>4, <2>5 DEF GoalTypeOK
<1>2. RowsInv /\ ProductionInv
  BY StoreInvInit, ProductionInit DEF StoreInv
<1>3. \A r \in Runs : run[r] = None
  BY DEF Init
<1>4. MayBeAlive = {}
  BY <1>3, StatusFacts, StoreAssumption
     DEF MayBeAlive, Active, UnconfirmedDisconnect, StoreAssumption, RunStatus
<1>5. RunHasPlan /\ CancelPauses /\ WorkNotReviewed
  BY <1>3, <1>4 DEF RunHasPlan, CancelPauses, WorkNotReviewed, NoCancel
<1>6. CancelledGoalIsQuiet /\ PlanEndsQuiet
  BY <1>4 DEF CancelledGoalIsQuiet, PlanEndsQuiet, ReplacedPlanIsQuiet, CompletedGoalIsDone
<1>7. ConcurrentRunsBounded
  BY <1>4, FS_EmptySet, GoalAssumption DEF ConcurrentRunsBounded, GoalAssumption
<1> QED
  BY <1>1, <1>2, <1>5, <1>6, <1>7 DEF GoalInv

-------------------------------------------------------------------------------
(* What a step does to the execution state below the goal. *)

PresenceStep == \E c \in Computers : SetComputerOnline(c) \/ SetComputerOffline(c)

\* Every call on a goal is one transaction of the store, except the two that
\* cancel tasks with their plan or their goal.
LEMMA StoreKinds ==
  ASSUME GoalInv, [GoalNext]_goalStoreVars
  PROVE  \/ UNCHANGED storeVars
         \/ TaskStep /\ UNCHANGED <<run, reason, confirmed, held, receipts, online, approvalVars>>
         \/ PresenceStep
         \/ \E r \in Runs : RunHandler(r)
         \/ \E t \in Tasks, r \in Runs : AssignGoalTask(t, r)
         \/ \E v \in Versions : AcceptPlan(v)
         \/ CommitCancel
<1>1. CASE \E v \in Versions : ProposePlan(v) \/ RejectPlan(v) \/ AcceptPlan(v)
  BY <1>1 DEF ProposePlan, RejectPlan
<1>2. CASE PauseGoal \/ ResumeGoal \/ TimePasses \/ EnforceGoalBudget \/ BlockGoal
  BY <1>2 DEF PauseGoal, ResumeGoal, TimePasses, EnforceGoalBudget, BlockGoal
<1>3. CASE \/ \E stale \in SUBSET ActiveGoalRuns : ReconcileGoal(stale)
           \/ \E r \in Runs : ResolveBlocker(r)
  BY <1>3 DEF ReconcileGoal, ResolveBlocker
<1>4. ASSUME NEW t \in Tasks, GoalMarkReady(t) \/ Retrying(t) \/ AcceptGoalTask(t)
      PROVE  TaskStep /\ UNCHANGED <<run, reason, confirmed, held, receipts, online, approvalVars>>
  <2>1. MarkReady(t) \/ AcceptReview(t) \/ RequestChanges(t) \/ RetryTask(t)
    BY <1>4 DEF GoalMarkReady, Retrying, AcceptGoalTask
  <2>2. UNCHANGED <<run, reason, confirmed, held, receipts, online, approvalVars>>
    BY <2>1 DEF MarkReady, AcceptReview, RequestChanges, RetryTask
  <2> QED
    BY <2>1, <2>2 DEF TaskStep
<1>5. CASE RunStep
  BY <1>5 DEF RunStep, RunHandler, PresenceStep
<1>6. CASE FenceGoal \/ ReadGoalRuns \/ AbortCancel
  BY <1>6 DEF FenceGoal, ReadGoalRuns, AbortCancel
<1>7. CASE StopAnswered
  <2>1. cancel.at \in Runs
    BY <1>7 DEF StopAnswered, GoalInv, GoalTypeOK
  <2> QED
    BY <1>7, <2>1 DEF StopAnswered, RunHandler
<1>8. ASSUME NEW r \in Runs, StopNext(r) PROVE UNCHANGED storeVars \/ RunHandler(r)
  BY <1>8 DEF StopNext, RunHandler
<1>9. CASE UNCHANGED goalStoreVars
  BY <1>9 DEF goalStoreVars
<1> QED
  BY <1>1, <1>2, <1>3, <1>4, <1>5, <1>6, <1>7, <1>8, <1>9 DEF GoalNext

\* What all steps but an assignment share: no run appears, none comes back to
\* life, no lease is taken, a terminal task stays as it is, and no task is
\* reviewed while its run may be alive.
Calm ==
  /\ \A r \in Runs : run'[r] = None <=> run[r] = None
  /\ MayBeAlive' \subseteq MayBeAlive
  /\ held' \subseteq held
  /\ \A t \in Tasks : task[t] \in TaskTerminal => task'[t] = task[t]
  /\ WorkNotReviewed'

\* A handler settles its run or starts it; a completed one puts its task in review.
LEMMA HandlerIsCalm ==
  ASSUME GoalInv, NEW r \in Runs, RunHandler(r) PROVE Calm
<1> USE StatusFacts, StoreAssumption DEF GoalInv, RowsInv, RowsOK
<1> DEFINE t == TaskOf[r]
<1>1. RunOutcome(r) /\ t \in Tasks
  BY HandlerOutcome DEF StoreAssumption
<1>2. ASSUME NEW s \in Runs, s # r PROVE run'[s] = run[s] /\ reason'[s] = reason[s]
  BY <1>1, <1>2, OutcomeRows
<1>3. \A u \in Tasks \ {t} : task'[u] = task[u]
  BY <1>1, OutcomeRows
<1>4. held' \subseteq held
  BY <1>1, OutcomeRows
<1>5. \/ task' = task /\ run' = run /\ reason' = reason /\ confirmed \subseteq confirmed'
      \/ /\ Active(r) /\ run'[r] = "running" /\ reason' = reason /\ confirmed' = confirmed
         /\ task'[t] = "running"
      \/ /\ Active(r) /\ run'[r] \in RunTerminal /\ confirmed \subseteq confirmed'
         /\ task'[t] \notin {"assigned", "running", "awaiting_approval"}
         /\ run'[r] = "cancelled" => task'[t] = "cancelled"
  BY <1>1, ProductionOutcome
<1>6. \A s \in Runs : run'[s] = None <=> run[s] = None
  BY <1>2, <1>5 DEF Active
<1>7. ASSUME NEW s \in MayBeAlive' PROVE s \in MayBeAlive
  <2>1. CASE s = r
    BY <1>5, <1>7, <2>1 DEF MayBeAlive, Active, UnconfirmedDisconnect
  <2>2. CASE s # r
    <3>1. s \in Runs /\ run'[s] = run[s] /\ reason'[s] = reason[s]
      BY <1>2, <1>7, <2>2 DEF MayBeAlive
    <3>2. confirmed \subseteq confirmed'
      BY <1>5
    <3> QED
      BY <1>7, <3>1, <3>2 DEF MayBeAlive, Active, UnconfirmedDisconnect
  <2> QED
    BY <2>1, <2>2
<1>8. Active(r) => task[t] \in {"assigned", "running"}
  BY ActiveFacts DEF ProductionInv, InStep
<1>9. \A u \in Tasks : task[u] \in TaskTerminal => task'[u] = task[u]
  BY <1>3, <1>5, <1>8 DEF TaskTerminal
<1>10. ASSUME NEW s \in MayBeAlive' PROVE task'[TaskOf[s]] \notin {"review", "done"}
  <2>0. s \in Runs /\ TaskOf[s] \in Tasks
    BY <1>10 DEF MayBeAlive, StoreAssumption
  <2>1. task[TaskOf[s]] \notin {"review", "done"}
    BY <1>7, <1>10 DEF WorkNotReviewed
  <2>2. CASE TaskOf[s] # t
    BY <1>3, <2>0, <2>1, <2>2
  <2>3. CASE TaskOf[s] = t /\ s # r
    <3>1. Active(s) \/ UnconfirmedDisconnect(s)
      BY <1>7, <1>10 DEF MayBeAlive
    <3>2. ~Active(r)
      BY <2>0, <2>3, <3>1 DEF ProductionInv, OneUnsettledRun
    <3> QED
      BY <1>5, <2>1, <3>2
  <2>4. CASE s = r
    <3>1. CASE task' = task
      BY <2>1, <3>1
    <3>2. CASE task'[t] = "running"
      BY <2>4, <3>2
    <3>3. CASE Active(r) /\ run'[r] \in RunTerminal
      <4>1. run'[r] = "failed"
        BY <1>10, <2>4, <3>3 DEF MayBeAlive, Active, UnconfirmedDisconnect
      <4>2. Fails(r)
        BY <1>1, <3>3, <4>1 DEF RunOutcome, Starts, Completes, Cancels, StaysSettled, OnlyReceipt,
           Update, runVars, Active, RowsInv, TypeOK
      <4>3. task'[t] \in {task[t], "blocked", "ready"}
        BY <4>2 DEF Fails, FailsRunning, FailsQueued, Update, TypeOK
      <4> QED
        BY <2>1, <2>4, <4>3
    <3> QED
      BY <1>5, <3>1, <3>2, <3>3
  <2> QED
    BY <2>2, <2>3, <2>4
<1> QED
  BY <1>4, <1>6, <1>7, <1>9, <1>10 DEF Calm, WorkNotReviewed

\* Triage, retry and review: only a review that is accepted ends in done.
LEMMA TaskStepIsCalm ==
  ASSUME GoalInv, TaskStep, UNCHANGED <<run, reason, confirmed, held>> PROVE Calm
<1> USE TaskEdges DEF GoalInv, RowsInv, TypeOK, TaskTerminal, TaskStatus
<1> DEFINE Goal == /\ \A t \in Tasks : task[t] \in TaskTerminal => task'[t] = task[t]
                   /\ \A t \in Tasks : task'[t] \in {"review", "done"} =>
                                       task[t] \in {"review", "done"}
<1>1. Goal
  <2>1. ASSUME NEW u \in Tasks, MarkReady(u) PROVE Goal
    BY <2>1 DEF MarkReady
  <2>2. ASSUME NEW u \in Tasks, AcceptReview(u) PROVE Goal
    BY <2>2 DEF AcceptReview, UnlockedBy
  <2>3. ASSUME NEW u \in Tasks, RequestChanges(u) \/ RetryTask(u) PROVE Goal
    BY <2>3 DEF RequestChanges, RetryTask
  <2> QED
    BY <2>1, <2>2, <2>3 DEF TaskStep
<1>2. MayBeAlive' = MayBeAlive
  BY DEF MayBeAlive, Active, UnconfirmedDisconnect
<1>3. WorkNotReviewed'
  BY <1>1, <1>2, StoreAssumption DEF WorkNotReviewed, MayBeAlive, StoreAssumption
<1> QED
  BY <1>1, <1>2, <1>3 DEF Calm

\* A step that leaves runs alone and only cancels tasks.
LEMMA CancellingIsCalm ==
  ASSUME GoalInv, UNCHANGED <<run, reason, confirmed, held>>,
         \A t \in Tasks : \/ task'[t] = task[t]
                          \/ task[t] \notin TaskTerminal /\ task'[t] = "cancelled"
  PROVE  Calm
<1>1. MayBeAlive' = MayBeAlive
  BY DEF MayBeAlive, Active, UnconfirmedDisconnect
<1>2. WorkNotReviewed'
  BY <1>1, StoreAssumption DEF GoalInv, WorkNotReviewed, MayBeAlive, StoreAssumption
<1> QED
  BY <1>1, <1>2 DEF Calm

\* What acceptPlan and the last transaction of cancelGoal do to tasks.
LEMMA CancelledTasks ==
  ASSUME GoalInv, CommitCancel \/ \E v \in Versions : AcceptPlan(v)
  PROVE  /\ UNCHANGED <<run, reason, confirmed, held, receipts, online, approvalVars>>
         /\ task' \in [Tasks -> TaskStatus]
         /\ \A t \in Tasks : \/ task'[t] = task[t]
                             \/ task[t] \notin TaskTerminal /\ task'[t] = "cancelled"
         /\ task' # task => UnsettledRuns = {}
<1> USE TaskEdges DEF GoalInv, RowsInv, TypeOK, TaskStatus
<1>1. ASSUME NEW v \in Versions, AcceptPlan(v)
      PROVE  /\ task' \in [Tasks -> TaskStatus]
             /\ \A t \in Tasks : \/ task'[t] = task[t]
                                 \/ task[t] \notin TaskTerminal /\ task'[t] = "cancelled"
             /\ task' # task => UnsettledRuns = {}
  <2>1. task' = [t \in Tasks |-> IF current # 0 /\ t \in RetiredTasks
                                 THEN ApplyTaskTransition(task[t], "cancel") ELSE task[t]]
    BY <1>1 DEF AcceptPlan
  <2>2. \A t \in RetiredTasks : task[t] \notin TaskTerminal /\ t \in Tasks
    BY DEF RetiredTasks, CurrentTasks, GoalTasks
  <2>3. current = 0 => task' = task
    BY <2>1
  <2>4. current # 0 => UnsettledRuns = {}
    BY <1>1 DEF AcceptPlan
  <2> QED
    BY <2>1, <2>2, <2>3, <2>4
<1>2. ASSUME CommitCancel
      PROVE  /\ task' \in [Tasks -> TaskStatus]
             /\ \A t \in Tasks : \/ task'[t] = task[t]
                                 \/ task[t] \notin TaskTerminal /\ task'[t] = "cancelled"
             /\ task' # task => UnsettledRuns = {}
  <2>1. \/ UNCHANGED task
        \/ /\ UnsettledRuns = {}
           /\ task' = [t \in Tasks |-> IF t \in GoalTasks /\ CanTransitionTask(task[t], "cancel")
                                       THEN ApplyTaskTransition(task[t], "cancel") ELSE task[t]]
    BY <1>2 DEF CommitCancel
  <2>2. \A t \in Tasks : CanTransitionTask(task[t], "cancel") =>
          task[t] \notin TaskTerminal /\ ApplyTaskTransition(task[t], "cancel") = "cancelled"
    OBVIOUS
  <2> QED
    BY <2>1, <2>2
<1>3. UNCHANGED <<run, reason, confirmed, held, receipts, online, approvalVars>>
  BY DEF AcceptPlan, CommitCancel
<1> QED
  BY <1>1, <1>2, <1>3

\* Every step but an assignment is calm.
LEMMA CalmSteps ==
  ASSUME GoalInv, [GoalNext]_goalStoreVars,
         ~\E t \in Tasks, r \in Runs : AssignGoalTask(t, r)
  PROVE  Calm
<1>1. CASE UNCHANGED storeVars \/ PresenceStep
  <2>1. UNCHANGED <<run, reason, confirmed, held>> /\ task' = task
    BY <1>1 DEF PresenceStep, SetComputerOnline, SetComputerOffline, storeVars, runVars
  <2> QED
    BY <2>1, CancellingIsCalm
<1>2. CASE TaskStep /\ UNCHANGED <<run, reason, confirmed, held, receipts, online, approvalVars>>
  BY <1>2, TaskStepIsCalm
<1>3. CASE \E r \in Runs : RunHandler(r)
  BY <1>3, HandlerIsCalm
<1>4. CASE CommitCancel \/ \E v \in Versions : AcceptPlan(v)
  BY <1>4, CancelledTasks, CancellingIsCalm
<1> QED
  BY <1>1, <1>2, <1>3, <1>4, StoreKinds

\* assignTask under a goal: one new run, of the current plan, under the limit.
LEMMA AssignUnderGoal ==
  ASSUME GoalInv, NEW t \in Tasks, NEW r \in Runs, AssignGoalTask(t, r)
  PROVE  /\ AssignTask(t, r) /\ UNCHANGED goalVars
         /\ TaskOf[r] = t /\ Exists(t) /\ PlanOf[t] = current
         /\ goal \notin {"paused", "cancelled", "completed"}
         /\ MayBeAlive' = MayBeAlive \cup {r}
         /\ \A s \in Runs \ {r} : run'[s] = run[s]
         /\ task' = [task EXCEPT ![t] = "assigned"]
<1> USE DEF GoalInv, RowsInv
<1>1. /\ AssignTask(t, r) /\ UNCHANGED goalVars /\ Exists(t) /\ PlanOf[t] = current
      /\ goal \notin {"paused", "cancelled", "completed"}
  BY DEF AssignGoalTask, GoalAllowsExecution
<1>2. /\ TaskOf[r] = t /\ task' = [task EXCEPT ![t] = "assigned"]
      /\ run' = [run EXCEPT ![r] = "queued"] /\ UNCHANGED <<reason, confirmed>>
  BY <1>1, AssignRows
<1>3. \A s \in Runs \ {r} : run'[s] = run[s]
  BY <1>2
<1>4. run'[r] = "queued"
  BY <1>2 DEF TypeOK
<1>5. MayBeAlive' = MayBeAlive \cup {r}
  <2>1. r \in MayBeAlive'
    BY <1>4, StatusFacts DEF MayBeAlive, Active
  <2>2. \A s \in Runs \ {r} : s \in MayBeAlive' <=> s \in MayBeAlive
    BY <1>2, <1>3 DEF MayBeAlive, Active, UnconfirmedDisconnect
  <2> QED
    BY <2>1, <2>2 DEF MayBeAlive
<1> QED
  BY <1>1, <1>2, <1>3, <1>5

-------------------------------------------------------------------------------
(* The execution state keeps its own invariants below the goal. *)

\* Every step but the two that cancel tasks is a step of RunStore.
LEMMA StoreStep ==
  ASSUME GoalInv, [GoalNext]_goalStoreVars,
         ~(CommitCancel \/ \E v \in Versions : AcceptPlan(v))
  PROVE  [Next]_storeVars
<1>1. CASE TaskStep
  BY <1>1 DEF TaskStep, Next
<1>2. CASE PresenceStep
  BY <1>2 DEF PresenceStep, Next
<1>3. CASE \E r \in Runs : RunHandler(r)
  BY <1>3 DEF RunHandler, Next
<1>4. CASE \E t \in Tasks, r \in Runs : AssignGoalTask(t, r)
  BY <1>4 DEF AssignGoalTask, Next
<1> QED
  BY <1>1, <1>2, <1>3, <1>4, StoreKinds

\* No call on a goal uses the approval fixture.
LEMMA ApprovalKinds ==
  ASSUME GoalInv, [GoalNext]_goalStoreVars PROVE UNCHANGED apKind
<1> USE DEF GoalInv, RowsInv, RowsOK
<1>1. CASE UNCHANGED storeVars \/ PresenceStep
  BY <1>1 DEF storeVars, approvalVars, PresenceStep, SetComputerOnline, SetComputerOffline
<1>2. ASSUME NEW r \in Runs, RunHandler(r) PROVE UNCHANGED apKind
  BY <1>2, HandlerOutcome, OutcomeRows DEF approvalVars
<1>3. ASSUME NEW t \in Tasks, NEW r \in Runs, AssignGoalTask(t, r) PROVE UNCHANGED apKind
  BY <1>3, AssignUnderGoal, AssignRows
<1>4. CASE CommitCancel \/ \E v \in Versions : AcceptPlan(v)
  BY <1>4, CancelledTasks DEF approvalVars
<1> QED
  BY <1>1, <1>2, <1>3, <1>4, StoreKinds DEF approvalVars

\* Cancelling tasks that have no unsettled run breaks nothing of the store.
LEMMA CancellingKeepsRows ==
  ASSUME GoalInv, CommitCancel \/ \E v \in Versions : AcceptPlan(v)
  PROVE  RowsInv' /\ ProductionInv'
<1> USE CancelledTasks, StatusFacts, StoreAssumption
    DEF GoalInv, RowsInv, ProductionInv, StoreAssumption, approvalVars
<1>1. TypeOK'
  BY DEF TypeOK
<1>2. RunShape' /\ StartedShape' /\ LeaseExclusion' /\ UnsettledRunKeepsLeases'
  BY DEF RunShape, StartedShape, StartAccepted, LeaseExclusion, UnsettledRunKeepsLeases, Active
<1>3. RunHasTask'
  BY DEF RunHasTask
<1>4. \A r \in Runs : /\ Active(r)' <=> Active(r)
                      /\ UnconfirmedDisconnect(r)' <=> UnconfirmedDisconnect(r)
  BY DEF Active, UnconfirmedDisconnect
<1>5. NoPausedTask'
  BY DEF NoPausedTask, FixtureUnused
<1>6. OneUnsettledRun' /\ GatesAreApproved'
  BY <1>4 DEF OneUnsettledRun, GatesAreApproved, ExecutionGates, CurrentGates
<1>7. \A r \in Runs : Active(r) => task' = task
  BY DEF UnsettledRuns
<1>8. InStep'
  <2> SUFFICES ASSUME NEW r \in Runs
               PROVE  /\ run[r] = "queued" => task'[TaskOf[r]] = "assigned"
                      /\ run[r] = "running" => task'[TaskOf[r]] = "running"
                      /\ run[r] = "cancelled" => task'[TaskOf[r]] = "cancelled"
    BY DEF InStep
  <2>1. run[r] \in {"queued", "running"} => task' = task
    BY <1>7 DEF Active
  <2>2. task[TaskOf[r]] = "cancelled" => task'[TaskOf[r]] = "cancelled"
    OBVIOUS
  <2> QED
    BY <2>1, <2>2 DEF InStep
<1>9. TasksHaveRuns'
  <2> SUFFICES ASSUME NEW t \in Tasks, task'[t] \in {"assigned", "running", "awaiting_approval"}
               PROVE  \E r \in RunsOf(t) : Active(r)'
    BY DEF TasksHaveRuns
  <2>1. task'[t] = task[t]
    OBVIOUS
  <2>2. PICK r \in RunsOf(t) : Active(r)
    BY <2>1 DEF TasksHaveRuns
  <2> QED
    BY <1>4, <2>2 DEF RunsOf
<1> QED
  BY <1>1, <1>2, <1>3, <1>5, <1>6, <1>8, <1>9

\* The rows and the production invariant, one step.
LEMMA RowsUnderGoal ==
  ASSUME GoalInv, [GoalNext]_goalStoreVars PROVE RowsInv' /\ ProductionInv'
<1>1. CASE CommitCancel \/ \E v \in Versions : AcceptPlan(v)
  BY <1>1, CancellingKeepsRows
<1>2. CASE ~(CommitCancel \/ \E v \in Versions : AcceptPlan(v))
  <2>1. [Next]_storeVars
    BY <1>2, StoreStep
  <2>2. RowsInv /\ ProductionInv
    BY DEF GoalInv
  <2>3. FixtureUnused'
    BY <2>2, ApprovalKinds DEF ProductionInv, NoPausedTask, FixtureUnused
  <2> QED
    BY <2>1, <2>2, <2>3, RowsStep, ProductionStep
<1> QED
  BY <1>1, <1>2

-------------------------------------------------------------------------------
(* The goal's own rows. *)

\* Which steps move the goal, and where to.
LEMMA GoalMoves ==
  ASSUME GoalInv, [GoalNext]_goalStoreVars
  PROVE  \/ UNCHANGED goal
         \/ \E v \in Versions : AcceptPlan(v) /\ goal \in {"draft", "paused"}
                                /\ goal' \in {"running", "paused"}
         \/ goal \in {"running", "awaiting_approval", "blocked"} /\ goal' = "paused"
         \/ cancel.phase = "idle" /\ goal = "paused" /\ goal' = "running"
         \/ goal = "running" /\ goal' = "blocked"
         \/ FenceGoal
         \/ goal = "running" /\ goal' = "completed" /\ \E t \in Tasks : AcceptGoalTask(t)
         \/ CommitCancel
<1> USE GoalEdges DEF GoalInv, GoalTypeOK
<1>1. ASSUME NEW v \in Versions, ProposePlan(v) \/ RejectPlan(v) PROVE UNCHANGED goal
  BY <1>1 DEF ProposePlan, RejectPlan
<1>2. ASSUME NEW v \in Versions, AcceptPlan(v)
      PROVE  goal \in {"draft", "paused"} /\ goal' \in {"running", "paused"}
  BY <1>2 DEF AcceptPlan
<1>3. CASE PauseGoal \/ EnforceGoalBudget
  BY <1>3 DEF PauseGoal, EnforceGoalBudget
<1>4. CASE ResumeGoal
  BY <1>4 DEF ResumeGoal
<1>5. CASE BlockGoal
  BY <1>5 DEF BlockGoal
<1>6. CASE \/ TimePasses
           \/ \E stale \in SUBSET ActiveGoalRuns : ReconcileGoal(stale)
           \/ \E r \in Runs : ResolveBlocker(r)
  BY <1>6 DEF TimePasses, ReconcileGoal, ResolveBlocker
<1>7. ASSUME NEW t \in Tasks, GoalMarkReady(t) \/ Retrying(t) PROVE UNCHANGED goal
  BY <1>7 DEF GoalMarkReady, Retrying, goalVars
<1>8. ASSUME NEW t \in Tasks, AcceptGoalTask(t)
      PROVE  UNCHANGED goal \/ (goal = "running" /\ goal' = "completed")
  BY <1>8 DEF AcceptGoalTask, CompleteGoal
<1>9. ASSUME NEW t \in Tasks, NEW r \in Runs, AssignGoalTask(t, r) PROVE UNCHANGED goal
  BY <1>9 DEF AssignGoalTask, goalVars
<1>10. CASE RunStep \/ ReadGoalRuns \/ StopAnswered \/ AbortCancel
  BY <1>10 DEF RunStep, goalVars, ReadGoalRuns, StopAnswered, AbortCancel
<1>11. ASSUME NEW r \in Runs, StopNext(r) PROVE UNCHANGED goal
  BY <1>11 DEF StopNext
<1>12. CASE UNCHANGED goalStoreVars
  BY <1>12 DEF goalStoreVars, goalVars
<1> QED
  BY <1>1, <1>2, <1>3, <1>4, <1>5, <1>6, <1>7, <1>8, <1>9, <1>10, <1>11, <1>12 DEF GoalNext

\* Plans are proposed, decided and superseded; only an acceptance materialises
\* tasks or changes the current plan, and no materialised task disappears.
LEMMA PlanMoves ==
  ASSUME GoalInv, [GoalNext]_goalStoreVars
  PROVE  /\ plan' \in [Versions -> PlanStatus \cup {None}]
         /\ \A t \in Tasks : Exists(t) => Exists(t)'
         /\ \/ \E v \in Versions : AcceptPlan(v)
            \/ UNCHANGED current /\ \A t \in Tasks : Exists(t)' => Exists(t)
<1> USE GoalAssumption DEF GoalInv, GoalTypeOK, PlanStatus, Exists, GoalAssumption
<1>1. ASSUME NEW v \in Versions, ProposePlan(v) \/ RejectPlan(v)
      PROVE  /\ plan' \in [Versions -> PlanStatus \cup {None}] /\ UNCHANGED current
             /\ \A t \in Tasks : Exists(t)' <=> Exists(t)
  <2>1. /\ plan[v] \in {None, "proposed"} /\ UNCHANGED current
        /\ \E s \in {"proposed", "rejected"} : plan' = [plan EXCEPT ![v] = s]
    BY <1>1 DEF ProposePlan, RejectPlan
  <2> QED
    BY <2>1
<1>2. ASSUME NEW v \in Versions, AcceptPlan(v)
      PROVE  /\ plan' \in [Versions -> PlanStatus \cup {None}]
             /\ \A t \in Tasks : Exists(t) => Exists(t)'
  <2>1. plan' = [u \in Versions |-> IF u = v THEN "accepted"
                                    ELSE IF plan[u] = "accepted" THEN "superseded" ELSE plan[u]]
    BY <1>2 DEF AcceptPlan
  <2>2. plan' \in [Versions -> PlanStatus \cup {None}]
    BY <2>1
  <2>3. \A u \in Versions : plan[u] \in {"accepted", "superseded"}
                              => plan'[u] \in {"accepted", "superseded"}
    BY <2>1
  <2> QED
    BY <2>2, <2>3
<1>3. CASE UNCHANGED <<plan, current>>
  BY <1>3
<1>4. UNCHANGED <<plan, current>> \/ \E v \in Versions :
        ProposePlan(v) \/ RejectPlan(v) \/ AcceptPlan(v)
  <2>1. CASE PauseGoal \/ ResumeGoal \/ TimePasses \/ EnforceGoalBudget \/ BlockGoal
    BY <2>1 DEF PauseGoal, ResumeGoal, TimePasses, EnforceGoalBudget, BlockGoal
  <2>2. CASE \/ \E stale \in SUBSET ActiveGoalRuns : ReconcileGoal(stale)
             \/ \E r \in Runs : ResolveBlocker(r)
    BY <2>2 DEF ReconcileGoal, ResolveBlocker
  <2>3. CASE \E t \in Tasks : GoalMarkReady(t) \/ Retrying(t) \/ AcceptGoalTask(t)
    BY <2>3 DEF GoalMarkReady, Retrying, AcceptGoalTask, goalVars
  <2>4. CASE \E t \in Tasks, r \in Runs : AssignGoalTask(t, r)
    BY <2>4 DEF AssignGoalTask, goalVars
  <2>5. CASE RunStep \/ FenceGoal \/ ReadGoalRuns \/ StopAnswered \/ AbortCancel \/ CommitCancel
    BY <2>5 DEF RunStep, goalVars, FenceGoal, ReadGoalRuns, StopAnswered, AbortCancel,
                CommitCancel, otherGoalVars
  <2>6. CASE \E r \in Runs : StopNext(r)
    BY <2>6 DEF StopNext, otherGoalVars
  <2>7. CASE UNCHANGED goalStoreVars
    BY <2>7 DEF goalStoreVars, goalVars
  <2> QED
    BY <2>1, <2>2, <2>3, <2>4, <2>5, <2>6, <2>7 DEF GoalNext
<1> QED
  BY <1>1, <1>2, <1>3, <1>4

\* The phases of a cancellation; only its fence begins one.
LEMMA CancelMoves ==
  ASSUME GoalInv, [GoalNext]_goalStoreVars
  PROVE  /\ cancel' \in [phase : {"idle", "fenced", "stopping"}, todo : SUBSET Runs,
                         at : Runs \cup {None}]
         /\ cancel'.phase = "idle" \/ cancel.phase # "idle" \/ FenceGoal
<1> USE DEF GoalInv, GoalTypeOK, NoCancel
<1>1. CASE UNCHANGED cancel
  BY <1>1
<1>2. CASE FenceGoal
  BY <1>2 DEF FenceGoal
<1>3. CASE ReadGoalRuns
  BY <1>3 DEF ReadGoalRuns, UnsettledRuns
<1>4. ASSUME NEW r \in Runs, StopNext(r)
      PROVE  /\ cancel.phase # "idle"
             /\ \/ cancel' = [cancel EXCEPT !.todo = @ \ {r}]
                \/ cancel' = [cancel EXCEPT !.at = r]
  BY <1>4 DEF StopNext
<1>5. CASE StopAnswered
  <2>1. cancel' = [cancel EXCEPT !.todo = @ \ {cancel.at}, !.at = None]
    BY <1>5 DEF StopAnswered
  <2> QED
    BY <2>1
<1>6. CASE AbortCancel \/ CommitCancel
  BY <1>6 DEF AbortCancel, CommitCancel
<1>7. \/ UNCHANGED cancel \/ FenceGoal \/ ReadGoalRuns \/ StopAnswered \/ AbortCancel
      \/ CommitCancel \/ \E r \in Runs : StopNext(r)
  <2>1. CASE \E v \in Versions : ProposePlan(v) \/ RejectPlan(v) \/ AcceptPlan(v)
    BY <2>1 DEF ProposePlan, RejectPlan, AcceptPlan
  <2>2. CASE PauseGoal \/ ResumeGoal \/ TimePasses \/ EnforceGoalBudget \/ BlockGoal
    BY <2>2 DEF PauseGoal, ResumeGoal, TimePasses, EnforceGoalBudget, BlockGoal
  <2>3. CASE \/ \E stale \in SUBSET ActiveGoalRuns : ReconcileGoal(stale)
             \/ \E r \in Runs : ResolveBlocker(r)
    BY <2>3 DEF ReconcileGoal, ResolveBlocker
  <2>4. CASE \E t \in Tasks : GoalMarkReady(t) \/ Retrying(t) \/ AcceptGoalTask(t)
    BY <2>4 DEF GoalMarkReady, Retrying, AcceptGoalTask, goalVars
  <2>5. CASE RunStep \/ \E t \in Tasks, r \in Runs : AssignGoalTask(t, r)
    BY <2>5 DEF RunStep, AssignGoalTask, goalVars
  <2>6. CASE UNCHANGED goalStoreVars
    BY <2>6 DEF goalStoreVars, goalVars
  <2> QED
    BY <2>1, <2>2, <2>3, <2>4, <2>5, <2>6 DEF GoalNext
<1> QED
  BY <1>1, <1>2, <1>3, <1>4, <1>5, <1>6, <1>7

\* Counters, the elapsed time, checkpoints and blockers keep their types.
LEMMA GoalRows ==
  ASSUME GoalInv, [GoalNext]_goalStoreVars
  PROVE  /\ retries' \in Nat /\ resumes' \in Nat
         /\ elapsed' \in BOOLEAN /\ toBlock' \in BOOLEAN
         /\ checkpoint' \in (SUBSET Runs) \cup {None} /\ blocking' \subseteq Runs
<1> USE DEF GoalInv, GoalTypeOK, ActiveGoalRuns
<1> DEFINE Rows == /\ retries' \in Nat /\ resumes' \in Nat
                   /\ elapsed' \in BOOLEAN /\ toBlock' \in BOOLEAN
                   /\ checkpoint' \in (SUBSET Runs) \cup {None} /\ blocking' \subseteq Runs
<1>1. CASE \E v \in Versions : ProposePlan(v) \/ RejectPlan(v) \/ AcceptPlan(v)
  BY <1>1 DEF ProposePlan, RejectPlan, AcceptPlan
<1>2. CASE PauseGoal \/ TimePasses \/ EnforceGoalBudget \/ BlockGoal
  BY <1>2 DEF PauseGoal, TimePasses, EnforceGoalBudget, BlockGoal
<1>3. CASE ResumeGoal
  BY <1>3 DEF ResumeGoal
<1>4. ASSUME NEW stale \in SUBSET ActiveGoalRuns, ReconcileGoal(stale) PROVE Rows
  <2>1. blocking' \subseteq Runs /\ toBlock' \in BOOLEAN
    BY <1>4 DEF ReconcileGoal
  <2> QED
    BY <1>4, <2>1 DEF ReconcileGoal
<1>5. ASSUME NEW r \in Runs, ResolveBlocker(r) PROVE Rows
  BY <1>5 DEF ResolveBlocker
<1>6. ASSUME NEW t \in Tasks, GoalMarkReady(t) \/ Retrying(t) \/ AcceptGoalTask(t) PROVE Rows
  <2>1. CASE GoalMarkReady(t) \/ AcceptGoalTask(t)
    BY <2>1 DEF GoalMarkReady, AcceptGoalTask, goalVars
  <2>2. CASE Retrying(t)
    <3>1. retries' = retries + 1 /\ UNCHANGED <<elapsed, checkpoint, blocking, toBlock, resumes>>
      BY <2>2 DEF Retrying
    <3> QED
      BY <3>1
  <2> QED
    BY <1>6, <2>1, <2>2
<1>7. CASE RunStep \/ \E t \in Tasks, r \in Runs : AssignGoalTask(t, r)
  BY <1>7 DEF RunStep, AssignGoalTask, goalVars
<1>8. CASE FenceGoal \/ ReadGoalRuns \/ StopAnswered \/ AbortCancel \/ CommitCancel
  BY <1>8 DEF FenceGoal, ReadGoalRuns, StopAnswered, AbortCancel, CommitCancel, otherGoalVars
<1>9. ASSUME NEW r \in Runs, StopNext(r) PROVE Rows
  BY <1>9 DEF StopNext, otherGoalVars
<1>10. CASE UNCHANGED goalStoreVars
  BY <1>10 DEF goalStoreVars, goalVars
<1> QED
  BY <1>1, <1>2, <1>3, <1>4, <1>5, <1>6, <1>7, <1>8, <1>9, <1>10 DEF GoalNext

\* Type correctness of the goal's rows, one step.
LEMMA GoalTypeStep ==
  ASSUME GoalInv, [GoalNext]_goalStoreVars PROVE GoalTypeOK'
<1> USE DEF GoalInv, GoalTypeOK
<1>1. goal' \in GoalStatus
  <2>1. CASE FenceGoal \/ CommitCancel
    BY <2>1, GoalEdges DEF FenceGoal, CommitCancel, GoalStatus
  <2> QED
    BY <2>1, GoalMoves DEF GoalStatus
<1>2. current' \in {0} \cup Versions
  BY PlanMoves DEF AcceptPlan
<1> QED
  BY <1>1, <1>2, PlanMoves, CancelMoves, GoalRows

-------------------------------------------------------------------------------
(* What the status of the goal says about its runs, one step. *)

\* Runs keep their plan, the fence stands, and work that may go on is not reviewed.
LEMMA LinksStep ==
  ASSUME GoalInv, [GoalNext]_goalStoreVars
  PROVE  RunHasPlan' /\ CancelPauses' /\ WorkNotReviewed'
<1> USE StoreAssumption DEF GoalInv, StoreAssumption
<1>1. CancelPauses'
  <2>1. CASE FenceGoal
    BY <2>1 DEF FenceGoal, CancelPauses
  <2>2. CASE CommitCancel
    BY <2>2 DEF CommitCancel, CancelPauses, NoCancel
  <2>3. CASE ~FenceGoal /\ ~CommitCancel
    <3> SUFFICES ASSUME cancel'.phase # "idle" PROVE goal' = "paused"
      BY DEF CancelPauses
    <3>1. cancel.phase # "idle" /\ goal = "paused"
      BY <2>3, CancelMoves DEF CancelPauses
    <3>2. ASSUME NEW v \in Versions, AcceptPlan(v) PROVE goal' = "paused"
      BY <3>1, <3>2 DEF AcceptPlan
    <3> QED
      BY <2>3, <3>1, <3>2, GoalMoves
  <2> QED
    BY <2>1, <2>2, <2>3
<1>2. ASSUME NEW t \in Tasks, NEW r \in Runs, AssignGoalTask(t, r)
      PROVE  RunHasPlan' /\ WorkNotReviewed'
  <2>1. /\ TaskOf[r] = t /\ Exists(t) /\ UNCHANGED plan
        /\ MayBeAlive' = MayBeAlive \cup {r}
        /\ \A s \in Runs \ {r} : run'[s] = run[s]
        /\ task' = [task EXCEPT ![t] = "assigned"]
    BY <1>2, AssignUnderGoal DEF goalVars
  <2>2. RunHasPlan'
    BY <2>1 DEF RunHasPlan, Exists
  <2>3. WorkNotReviewed'
    BY <2>1 DEF WorkNotReviewed, MayBeAlive, RowsInv, TypeOK
  <2> QED
    BY <2>2, <2>3
<1>3. CASE ~\E t \in Tasks, r \in Runs : AssignGoalTask(t, r)
  <2>1. Calm
    BY <1>3, CalmSteps
  <2>2. RunHasPlan'
    BY <2>1, PlanMoves DEF Calm, RunHasPlan
  <2> QED
    BY <1>1, <2>1, <2>2 DEF Calm
<1> QED
  BY <1>1, <1>2, <1>3

\* A run is only added below the limit, and the limit counts at least the runs
\* that may be alive.
LEMMA LimitStep ==
  ASSUME GoalInv, [GoalNext]_goalStoreVars PROVE ConcurrentRunsBounded'
<1> USE GoalAssumption DEF GoalInv, ConcurrentRunsBounded, GoalAssumption
<1>1. /\ MayBeAlive \subseteq Runs /\ UnsettledRuns \subseteq Runs
      /\ IsFiniteSet(MayBeAlive) /\ IsFiniteSet(UnsettledRuns)
  <2>1. MayBeAlive \subseteq Runs /\ UnsettledRuns \subseteq Runs
    BY DEF MayBeAlive, UnsettledRuns
  <2> QED
    BY <2>1, FS_Subset
<1>2. ASSUME NEW t \in Tasks, NEW r \in Runs, AssignGoalTask(t, r)
      PROVE  Cardinality(MayBeAlive') <= MaxConcurrent
  <2>1. Cardinality(UnsettledRuns) < MaxConcurrent
    BY <1>2 DEF AssignGoalTask
  <2>2. /\ Cardinality(MayBeAlive) <= Cardinality(UnsettledRuns)
        /\ Cardinality(MayBeAlive) \in Nat /\ Cardinality(UnsettledRuns) \in Nat
    BY <1>1, AliveUnsettled, FS_Subset, FS_CardinalityType
  <2>3. Cardinality(MayBeAlive \cup {r}) \in {Cardinality(MayBeAlive), Cardinality(MayBeAlive) + 1}
    BY <1>1, FS_AddElement
  <2>4. MayBeAlive' = MayBeAlive \cup {r}
    BY <1>2, AssignUnderGoal
  <2> QED
    BY <2>1, <2>2, <2>3, <2>4
<1>3. CASE ~\E t \in Tasks, r \in Runs : AssignGoalTask(t, r)
  <2>1. MayBeAlive' \subseteq MayBeAlive
    BY <1>3, CalmSteps DEF Calm
  <2>2. Cardinality(MayBeAlive') <= Cardinality(MayBeAlive)
    BY <1>1, <2>1, FS_Subset
  <2>3. Cardinality(MayBeAlive) \in Nat /\ Cardinality(MayBeAlive') \in Nat
    BY <1>1, <2>1, FS_Subset, FS_CardinalityType
  <2> QED
    BY <2>2, <2>3
<1> QED
  BY <1>2, <1>3

\* A plan is replaced only when its runs have settled, and a goal is completed
\* by the review that leaves every task of the current plan done.
LEMMA PlansStep ==
  ASSUME GoalInv, [GoalNext]_goalStoreVars PROVE PlanEndsQuiet'
<1> USE StoreAssumption DEF GoalInv, PlanEndsQuiet, StoreAssumption
<1>1. ASSUME NEW t \in Tasks, NEW r \in Runs, AssignGoalTask(t, r)
      PROVE  ReplacedPlanIsQuiet' /\ CompletedGoalIsDone'
  <2>1. /\ TaskOf[r] = t /\ PlanOf[t] = current /\ UNCHANGED <<goal, current>>
        /\ MayBeAlive' = MayBeAlive \cup {r} /\ goal # "completed"
    BY <1>1, AssignUnderGoal DEF goalVars
  <2> QED
    BY <2>1 DEF ReplacedPlanIsQuiet, CompletedGoalIsDone
<1>2. ASSUME ~\E t \in Tasks, r \in Runs : AssignGoalTask(t, r)
      PROVE  ReplacedPlanIsQuiet' /\ CompletedGoalIsDone'
  <2>1. Calm
    BY <1>2, CalmSteps
  <2>2. ASSUME NEW v \in Versions, AcceptPlan(v) PROVE MayBeAlive = {}
    <3>1. CASE current # 0
      BY <2>2, <3>1, AliveUnsettled DEF AcceptPlan
    <3>2. CASE current = 0
      <4>1. ASSUME NEW r \in MayBeAlive PROVE FALSE
        <5>1. PlanOf[TaskOf[r]] \in Versions
          BY <4>1, GoalAssumption DEF MayBeAlive, GoalAssumption
        <5>2. PlanOf[TaskOf[r]] = 0
          BY <3>2, <4>1 DEF ReplacedPlanIsQuiet
        <5> QED
          BY <5>1, <5>2 DEF Versions
      <4> QED
        BY <4>1
    <3> QED
      BY <3>1, <3>2
  <2>3. ReplacedPlanIsQuiet'
    <3>1. MayBeAlive = {} \/ UNCHANGED current
      BY <2>2, PlanMoves
    <3> QED
      BY <2>1, <3>1 DEF Calm, ReplacedPlanIsQuiet
  <2>4. CompletedGoalIsDone'
    <3> SUFFICES ASSUME goal' = "completed"
                 PROVE  (\A t \in CurrentTasks' : task'[t] = "done") /\ MayBeAlive' = {}
      BY DEF CompletedGoalIsDone
    <3>1. CASE goal = "completed"
      <4>1. ~\E v \in Versions : AcceptPlan(v)
        BY <3>1 DEF AcceptPlan
      <4>2. CurrentTasks' \subseteq CurrentTasks
        BY <4>1, PlanMoves DEF CurrentTasks, GoalTasks
      <4>3. \A t \in CurrentTasks : t \in Tasks /\ task[t] = "done"
        BY <3>1 DEF CompletedGoalIsDone, CurrentTasks, GoalTasks
      <4> QED
        BY <2>1, <3>1, <4>2, <4>3 DEF Calm, TaskTerminal, CompletedGoalIsDone
    <3>2. CASE goal # "completed"
      <4>1. PICK t \in Tasks : AcceptGoalTask(t) /\ goal = "running"
        <5>1. ~FenceGoal
          BY DEF FenceGoal
        <5>2. ~CommitCancel
          BY <3>2, GoalEdges DEF CommitCancel
        <5> QED
          BY <3>2, <5>1, <5>2, GoalMoves
      <4>2. /\ \A u \in CurrentTasks : task'[u] = "done"
            /\ UNCHANGED <<plan, current>>
        BY <4>1, <3>2 DEF AcceptGoalTask, CompleteGoal
      <4>3. CurrentTasks' = CurrentTasks
        BY <4>2 DEF CurrentTasks, GoalTasks, Exists
      <4>4. ASSUME NEW r \in MayBeAlive' PROVE FALSE
        <5>1. r \in Runs /\ r \in MayBeAlive
          BY <2>1, <4>4 DEF Calm, MayBeAlive
        <5>2. run[r] # None
          BY <5>1, StatusFacts DEF MayBeAlive, Active, UnconfirmedDisconnect, RunStatus
        <5>3. TaskOf[r] \in CurrentTasks
          BY <5>1, <5>2 DEF RunHasPlan, ReplacedPlanIsQuiet, CurrentTasks, GoalTasks
        <5> QED
          BY <2>1, <4>2, <4>4, <5>3 DEF Calm, WorkNotReviewed
      <4> QED
        BY <4>2, <4>3, <4>4
    <3> QED
      BY <3>1, <3>2
  <2> QED
    BY <2>3, <2>4
<1> QED
  BY <1>1, <1>2

\* A cancellation commits only when nothing is unsettled, and nothing of a
\* cancelled goal starts again.
LEMMA CancelledStep ==
  ASSUME GoalInv, [GoalNext]_goalStoreVars PROVE CancelledGoalIsQuiet'
<1> USE DEF GoalInv
<1> SUFFICES ASSUME goal' = "cancelled"
             PROVE  /\ MayBeAlive' = {} /\ held' = {}
                    /\ \A t \in GoalTasks' : task'[t] \in TaskTerminal
  BY DEF CancelledGoalIsQuiet
<1>1. CASE goal = "cancelled"
  <2>1. ~\E t \in Tasks, r \in Runs : AssignGoalTask(t, r)
    BY <1>1 DEF AssignGoalTask, GoalAllowsExecution
  <2>2. Calm
    BY <2>1, CalmSteps
  <2>3. ~\E v \in Versions : AcceptPlan(v)
    BY <1>1 DEF AcceptPlan
  <2>4. GoalTasks' \subseteq GoalTasks
    BY <2>3, PlanMoves DEF GoalTasks
  <2>5. \A t \in GoalTasks : t \in Tasks /\ task[t] \in TaskTerminal
    BY <1>1 DEF CancelledGoalIsQuiet, GoalTasks
  <2> QED
    BY <1>1, <2>2, <2>4, <2>5 DEF Calm, CancelledGoalIsQuiet
<1>2. CASE goal # "cancelled"
  <2>1. CommitCancel
    <3>1. ~FenceGoal
      BY DEF FenceGoal
    <3> QED
      BY <1>2, <3>1, GoalMoves
  <2>2. /\ UnsettledRuns = {}
        /\ task' = [t \in Tasks |-> IF t \in GoalTasks /\ CanTransitionTask(task[t], "cancel")
                                    THEN ApplyTaskTransition(task[t], "cancel") ELSE task[t]]
        /\ UNCHANGED <<run, reason, confirmed, held, plan>>
    BY <1>2, <2>1 DEF CommitCancel, otherGoalVars
  <2>3. MayBeAlive' = {} /\ held' = {}
    <3>1. MayBeAlive = {} /\ held = {}
      BY <2>2, AliveUnsettled DEF RowsInv, TypeOK
    <3> QED
      BY <2>2, <3>1 DEF MayBeAlive, Active, UnconfirmedDisconnect
  <2>4. ASSUME NEW t \in GoalTasks' PROVE task'[t] \in TaskTerminal
    <3>1. t \in Tasks /\ t \in GoalTasks /\ task[t] \in TaskStatus
      BY <2>2, <2>4 DEF GoalTasks, Exists, RowsInv, TypeOK
    <3>2. CASE task[t] \in TaskTerminal
      BY <2>2, <3>1, <3>2, TaskEdges
    <3>3. CASE task[t] \notin TaskTerminal
      BY <2>2, <3>1, <3>3, TaskEdges DEF TaskTerminal
    <3> QED
      BY <3>2, <3>3
  <2> QED
    BY <2>3, <2>4
<1> QED
  BY <1>1, <1>2

-------------------------------------------------------------------------------
(* The theorems. *)

\* The invariant holds in every reachable state.
THEOREM GoalInvariant == GoalSpec => []GoalInv
<1>1. GoalInv /\ [GoalNext]_goalStoreVars => GoalInv'
  BY GoalTypeStep, RowsUnderGoal, LinksStep, CancelledStep, PlansStep, LimitStep DEF GoalInv
<1> QED
  BY GoalInitial, <1>1, PTL DEF GoalSpec

\* The rows of the goal, its plans and its cancellation keep their types, and so
\* do the rows of the store below them.
THEOREM GoalTypeCorrect == GoalSpec => [](GoalTypeOK /\ TypeOK)
<1>1. GoalInv => GoalTypeOK /\ TypeOK
  BY DEF GoalInv, RowsInv
<1> QED
  BY GoalInvariant, <1>1, PTL

\* A cancelled goal is over (cancelGoalExecution): nothing of it is active, may
\* have a process or holds a lease, and its tasks are terminal.
THEOREM CancelledGoalsAreQuiet == GoalSpec => []CancelledGoalIsQuiet
<1>1. GoalInv => CancelledGoalIsQuiet
  BY DEF GoalInv
<1> QED
  BY GoalInvariant, <1>1, PTL

\* No plan is replaced (acceptPlan) or completed (completeGoalIfAllTasksDone)
\* while a process of it may be alive.
THEOREM PlansEndQuietly == GoalSpec => []PlanEndsQuiet
<1>1. GoalInv => PlanEndsQuiet
  BY DEF GoalInv
<1> QED
  BY GoalInvariant, <1>1, PTL

\* max_concurrent_runs bounds the processes that may be alive.
THEOREM ConcurrencyHolds == GoalSpec => []ConcurrentRunsBounded
<1>1. GoalInv => ConcurrentRunsBounded
  BY DEF GoalInv
<1> QED
  BY GoalInvariant, <1>1, PTL

\* The execution state below a goal keeps the guarantees of the store: leases
\* exclude each other and stay with unsettled runs, and a task has one unsettled run.
THEOREM GoalKeepsStore ==
  GoalSpec => [](LeaseExclusion /\ UnsettledRunKeepsLeases /\ OneUnsettledRun /\ TasksHaveRuns)
<1>1. GoalInv => LeaseExclusion /\ UnsettledRunKeepsLeases /\ OneUnsettledRun /\ TasksHaveRuns
  BY DEF GoalInv, RowsInv, ProductionInv
<1> QED
  BY GoalInvariant, <1>1, PTL

\* From the fence of a cancellation (cancelGoal) to its end no run is created.
THEOREM CancellationIsFenced == GoalSpec => CancellationFences
<1> DEFINE Fenced == cancel.phase # "idle" => \A r \in Runs : run[r] = None => run'[r] = None
<1>1. GoalInv /\ [GoalNext]_goalStoreVars => Fenced
  <2> SUFFICES ASSUME GoalInv, [GoalNext]_goalStoreVars, cancel.phase # "idle"
               PROVE  \A r \in Runs : run[r] = None => run'[r] = None
    OBVIOUS
  <2>1. goal = "paused"
    BY DEF GoalInv, CancelPauses
  <2>2. ~\E t \in Tasks, r \in Runs : AssignGoalTask(t, r)
    BY <2>1 DEF AssignGoalTask, GoalAllowsExecution
  <2> QED
    BY <2>2, CalmSteps DEF Calm
<1>2. GoalInv /\ [GoalNext]_goalStoreVars => [Fenced]_goalStoreVars
  BY <1>1
<1> QED
  BY GoalInvariant, <1>2, PTL DEF GoalSpec, CancellationFences
===============================================================================
