------------------------------ MODULE MCRunStore ------------------------------
(* Two instances of RunStore for TLC, one of which a behaviour chooses: the    *)
(* runs q1 and q2 of one task t4, assigned one after the other, with two       *)
(* execution gates and without the development fixture; or two tasks t1 and t2 *)
(* on one computer whose runs declare overlapping paths, a third, t3, gated on *)
(* both of them, and one approval of the fixture or of t1's execution.         *)
EXTENDS RunStore, TLC

CONSTANTS t1, t2, t3, t4, r1, r2, r3, q1, q2, a1, b1, b2, c1, p1, p2, p3, p4

MCTaskOf == (r1 :> t1) @@ (r2 :> t2) @@ (r3 :> t3) @@ [r \in {q1, q2} |-> t4]
AllOnC1 == [r \in Runs |-> c1]
MCApprovalTask == (a1 :> t1) @@ [a \in {b1, b2} |-> t4]

\* The paths of q1 and q2 are disjoint, so that no lease stands between them.
MCPathsOf == (r1 :> {p1}) @@ (r2 :> {p1, p2}) @@ (r3 :> {})
               @@ (q1 :> {p3}) @@ (q2 :> {p4})
MCOverlaps == ({p1, p2} \X {p1, p2}) \cup {<<p3, p3>>, <<p4, p4>>}

\* t3 waits for t1 and t2; t2 is also a child of t1.
MCGating == {<<t1, t3>>, <<t2, t3>>}
MCChildren == {<<t1, t2>>}

VARIABLE retry   \* only t4 ever leaves the backlog

MCInit == Init /\ retry \in BOOLEAN
MCNext ==
  /\ Next
  /\ retry' = retry
  /\ IF retry THEN FixtureUnused' /\ \A t \in Tasks \ {t4} : task'[t] = task[t]
              ELSE task'[t4] = task[t4]
MCSpec == MCInit /\ [][MCNext]_<<storeVars, retry>>
===============================================================================
