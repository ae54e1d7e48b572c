-------------------------------- MODULE MCGoals --------------------------------
(* Instances of Goals for TLC: a goal whose first plan has the tasks t1 and t2  *)
(* and whose second plan, if it has one, has t3; runs r1 and r2 of t1 and r3 of *)
(* t2, of which r1 wants a path; one computer.                                    *)
EXTENDS Goals, TLC

CONSTANTS t1, t2, t3, r1, r2, r3, c1, p1

RunTask == [r \in Runs |-> IF r = r3 THEN t2 ELSE t1]
RunPaths == [r \in Runs |-> IF r = r1 THEN Paths ELSE {}]
RunComputer == [r \in Runs |-> c1]
OwnPath == {<<p, p>> : p \in Paths}
NoApprovalTask == [a \in {} |-> t1]
NoPairs == {}
TasksPlan == [t \in Tasks |-> IF t = t3 THEN 2 ELSE 1]

\* Without paths, t1 with r1 and t2 with r3 are interchangeable: every constant
\* that mentions them is the same after the swap.
Interchange == {f \in Permutations({t1, t2, r1, r3}) :
                  <<f[t1], f[r1]>> \in {<<t1, r1>>, <<t2, r3>>} /\ f[t2] \in {t1, t2}}
===============================================================================
