------------------------------ MODULE RunPromise ------------------------------
(***************************************************************************)
(* What a managed daemon promises about one run, whatever crashes, loses    *)
(* its session or is answered late: at most one process is ever launched,   *)
(* never after the run was fenced; its result is decided once; the server   *)
(* is told that result, or that a completed run could not be delivered.     *)
(***************************************************************************)
EXTENDS Naturals

CONSTANT Results   \* ways a run ends

VARIABLES
  launches,  \* processes ever started for the run
  fenced,    \* the run was closed before any launch
  result,    \* its decided result, "none" before
  told       \* the terminal phases the server has accepted

promiseVars == <<launches, fenced, result, told>>

PromiseInit == launches = 0 /\ ~fenced /\ result = "none" /\ told = {}

Fence == launches = 0 /\ fenced' /\ UNCHANGED <<launches, result, told>>

Launch == launches = 0 /\ ~fenced /\ launches' = 1 /\ UNCHANGED <<fenced, result, told>>

Decide(o) ==
  /\ launches = 1 /\ result = "none"
  /\ result' = o
  /\ UNCHANGED <<launches, fenced, told>>

Tell(o) ==
  /\ o = result \/ (o = "failed" /\ result = "completed")
  /\ told' = told \cup {o}
  /\ UNCHANGED <<launches, fenced, result>>

PromiseNext == Fence \/ Launch \/ \E o \in Results : Decide(o) \/ Tell(o)

PromiseSpec == PromiseInit /\ [][PromiseNext]_promiseVars

=============================================================================
