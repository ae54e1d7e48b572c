---------------------------- MODULE MCDispatchSafety ----------------------------
(* Two instances of RunDispatch for its safety, one of which a behaviour chooses: *)
(* one run that is cancelled and meets a restart, or two runs one after the other *)
(* with a timeout and a fault.  (With two faults an event may be refused and the  *)
(* stop that follows fail: the daemon then forgets a living process.)             *)
EXTENDS MCRunDispatch

OneRun == Budget(1, 0, 1, 1)
TwoRuns == Budget(0, 1, 1, 0)
SafetyBudgets == {OneRun, TwoRuns}

VARIABLE single   \* only r1 is ever assigned

MCDispatchInit == DispatchInit /\ single = (left = OneRun)
MCDispatchNext ==
  /\ DispatchNext
  /\ single' = single
  /\ single => run'[r2] = None
MCDispatchSpec == MCDispatchInit /\ [][MCDispatchNext]_<<dispatchVars, single>>
=================================================================================
