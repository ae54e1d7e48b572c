---------------------------- MODULE StateMachines ----------------------------
(***************************************************************************)
(* The three status machines of packages/domain/src/state.ts (task, run,   *)
(* approval) as relations <<from, trigger, to>>, the functions the server  *)
(* uses to query them, and the guarded compare-and-set with which          *)
(* transition-service.ts applies them to a row.                            *)
(***************************************************************************)

TaskStatus == {"backlog", "ready", "assigned", "running", "awaiting_approval",
               "blocked", "review", "done", "cancelled"}
TaskTerminal == {"done", "cancelled"}

TaskTransitions ==
  { <<"backlog", "triage", "ready">>,
    <<"ready", "assign", "assigned">>,
    <<"assigned", "run_started", "running">>,
    <<"assigned", "assign_failed_retryable", "ready">>,
    <<"assigned", "assign_failed_permission", "blocked">>,
    <<"running", "approval_requested", "awaiting_approval">>,
    <<"awaiting_approval", "approval_granted", "running">>,
    <<"awaiting_approval", "approval_rejected", "blocked">>,
    <<"running", "run_completed", "review">>,
    <<"running", "run_failed", "blocked">>,
    <<"awaiting_approval", "run_failed", "blocked">>,
    <<"blocked", "retry", "ready">>,
    <<"review", "accept", "done">>,
    <<"review", "request_changes", "ready">> }
  \cup { <<s, "cancel", "cancelled">> : s \in TaskStatus \ TaskTerminal }

CanTransitionTask(from, trigger) ==
  \E to \in TaskStatus : <<from, trigger, to>> \in TaskTransitions

ApplyTaskTransition(from, trigger) ==
  CHOOSE to \in TaskStatus : <<from, trigger, to>> \in TaskTransitions

RunStatus == {"queued", "starting", "running", "awaiting_input", "paused",
              "completed", "failed", "cancelled"}
RunTerminal == {"completed", "failed", "cancelled"}
RunActive == RunStatus \ RunTerminal

RunTransitions ==
  { <<"queued", "start", "starting">>,
    <<"queued", "cancel", "cancelled">>,
    <<"starting", "process_started", "running">>,
    <<"starting", "start_failed", "failed">>,
    <<"starting", "cancel", "cancelled">>,
    <<"running", "run_completed", "completed">>,
    <<"running", "run_failed", "failed">>,
    <<"running", "cancel", "cancelled">>,
    <<"running", "input_requested", "awaiting_input">>,
    <<"awaiting_input", "input_provided", "running">>,
    <<"awaiting_input", "cancel", "cancelled">>,
    <<"awaiting_input", "run_failed", "failed">>,
    <<"running", "pause", "paused">>,
    <<"paused", "resume", "running">>,
    <<"paused", "cancel", "cancelled">>,
    <<"paused", "run_failed", "failed">> }

CanTransitionRun(from, trigger) ==
  \E to \in RunStatus : <<from, trigger, to>> \in RunTransitions

ApplyRunTransition(from, trigger) ==
  CHOOSE to \in RunStatus : <<from, trigger, to>> \in RunTransitions

ApprovalStatus == {"pending", "approved", "rejected", "needs_more_info", "expired"}

ApprovalTransitions ==
  { <<"pending", "approve", "approved">>,
    <<"pending", "reject", "rejected">>,
    <<"pending", "need_more_info", "needs_more_info">>,
    <<"pending", "expire", "expired">>,
    <<"needs_more_info", "approve", "approved">>,
    <<"needs_more_info", "reject", "rejected">>,
    <<"needs_more_info", "expire", "expired">> }

CanTransitionApproval(from, trigger) ==
  \E to \in ApprovalStatus : <<from, trigger, to>> \in ApprovalTransitions

ApplyApprovalTransition(from, trigger) ==
  CHOOSE to \in ApprovalStatus : <<from, trigger, to>> \in ApprovalTransitions

(***************************************************************************)
(* transitionTask and transitionRun: UPDATE ... WHERE status = from.  The  *)
(* row keeps its status when it is no longer in `from'; the edge must exist *)
(* (the code throws before it touches the row otherwise), which every use   *)
(* below guarantees by naming an edge of the table.                         *)
(***************************************************************************)
CasTask(current, from, trigger) ==
  IF current = from THEN ApplyTaskTransition(from, trigger) ELSE current

CasRun(current, from, trigger) ==
  IF current = from THEN ApplyRunTransition(from, trigger) ELSE current
==============================================================================
