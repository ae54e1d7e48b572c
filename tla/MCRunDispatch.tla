----------------------------- MODULE MCRunDispatch -----------------------------
(* Instances of RunDispatch for TLC: one computer, runs r1 and r2 of task t1,   *)
(* which ask for the same path.                                                 *)
EXTENDS RunDispatch

CONSTANTS t1, r1, r2, c1, p1

OneTaskOf == [r \in Runs |-> t1]
OneComputerOf == [r \in Runs |-> c1]
SamePath == [r \in Runs |-> {p1}]
PathOverlap == {<<p1, p1>>}
NoApprovalTask == [a \in {} |-> t1]
EventSeqs == 0..2
NoPairs == {}

Budget(cancels, timeouts, faults, restarts) ==
  [cancel |-> cancels, timeout |-> timeouts, fault |-> faults, restart |-> restarts]
NoBudget == {Budget(0, 0, 0, 0)}
LiveBudget == {Budget(0, 1, 1, 1), Budget(1, 0, 1, 1)}
===============================================================================
