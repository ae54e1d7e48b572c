----------------------------- MODULE DesktopWorker -----------------------------
(***************************************************************************)
(* The desktop application and its worker: desktop-controller.cjs, which   *)
(* starts, watches and stops one child process, with the profile store     *)
(* that remembers whether separate workspaces were prepared, and the end   *)
(* of the child as artood's main.ts reports it.                            *)
(*                                                                         *)
(* The user's operations run one after the other; they interleave with the *)
(* child's messages and events, the restart timer, a status request in     *)
(* flight and a crash of the application.  The generation counter is only  *)
(* compared for equality, so what captures it is marked stale when it      *)
(* moves on.                                                               *)
(***************************************************************************)
EXTENDS Integers, FiniteSets, Sequences

CONSTANTS Computers,     \* identities this machine can be enrolled as
          MaxRestarts,   \* automatic restarts in a row (3 in the code)
          MaxLaunches,   \* bound: processes started by one run of the application
          MaxAppCrashes  \* bound

VARIABLES launch,        \* the processes started, in order, with their attempts
          child,         \* the owned process, 0 when there is none
          desk,          \* state, failure (closureFailure), stopRequested,
                         \*   restarts, timer, poll, lost (failedProfiles)
          deskOp,        \* the operation under way
          enrolled,      \* the selected computer, or "none": not paired
          profile,       \* the profile of each computer on disk
          seen           \* ghosts: wanted, proved, claims, crashes

deskVars == <<launch, child, desk, deskOp, enrolled, profile, seen>>

NoPoll == [on |-> 0]
FreshDesk == [state |-> "stopped", failure |-> FALSE, stopRequested |-> FALSE,
              restarts |-> 0, timer |-> 0, poll |-> NoPoll, lost |-> {}]
NoOp == [name |-> "idle", on |-> 0]

DesktopInit ==
  /\ launch = <<>> /\ child = 0
  /\ desk = FreshDesk
  /\ deskOp = NoOp
  /\ enrolled \in Computers
  /\ profile = [c \in Computers |-> "none"]
  /\ seen = [wanted |-> FALSE, proved |-> {}, claims |-> [c \in Computers |-> 0],
             crashes |-> 0]

Attempt(kind, managed) ==
  [kind |-> kind, managed |-> managed, computer |-> enrolled,
   up |-> TRUE, asked |-> FALSE, sent |-> {}, code |-> "none", left |-> FALSE,
   current |-> TRUE, restart |-> "off", stopReq |-> FALSE, abandoned |-> FALSE,
   ready |-> FALSE, stopped |-> FALSE, reply |-> FALSE, error |-> FALSE,
   exited |-> FALSE, closed |-> FALSE, ended |-> FALSE]

Idle(op) == deskOp = NoOp /\ deskOp' = op

----------------------------------------------------------------------------
(* The worker's process *)

\* The child says it is ready (read of a prepared worker only) and ends: cleanly with
\* "stopped" and code 0 when asked or on a signal from outside, otherwise with
\* another code and possibly with agent processes left behind.
WorkerStarts(l) ==
  /\ launch[l].up /\ launch[l].managed /\ ~launch[l].asked
  /\ "ready" \notin launch[l].sent /\ ~launch[l].ready
  /\ launch' = [launch EXCEPT ![l].sent = @ \cup {"ready"}]
  /\ UNCHANGED <<child, desk, deskOp, enrolled, profile, seen>>

ChildEnds(l) ==
  /\ launch[l].up
  /\ \E said \in SUBSET {IF launch[l].kind = "worker" THEN "stopped" ELSE "reply"},
        code \in {"zero", "other"}, left \in BOOLEAN :
       /\ code = "zero" => said # {}
       /\ left => launch[l].kind = "worker" /\ said = {}
       /\ launch[l].kind = "provision" /\ launch[l].asked => code = "other"
       /\ launch' = [launch EXCEPT ![l].up = FALSE, ![l].code = code, ![l].left = left,
                                   ![l].sent = @ \cup said]
       /\ seen' = [seen EXCEPT !.proved =
                     IF launch[l].kind = "provision" /\ code = "zero"
                     THEN @ \cup {launch[l].computer} ELSE @]
  /\ UNCHANGED <<child, desk, deskOp, enrolled, profile>>

----------------------------------------------------------------------------
(* observeChild *)

\* ended(): what the controller concludes from an attempt that has exited, and
\* closed too when its cleanup has to be proved.
SuccessfulExit(a) ==
  a.exited /\ a.code = "zero"
    /\ (~a.error \/ (a.kind = "worker" /\ a.stopped /\ a.closed))

CleanStop(a) ==
  a.kind = "worker" /\ a.stopReq /\ SuccessfulExit(a) /\ (a.managed => a.stopped)

\* Nothing heard of an attempt afterwards changes anything.
Ended(l, a) ==
  LET restarts == a.kind = "worker" /\ ~a.stopReq /\ ~a.managed
                    /\ desk.restarts < MaxRestarts
  IN  /\ child = l /\ child' = 0
      /\ launch' = [launch EXCEPT ![l] =
           [a EXCEPT !.ended = TRUE, !.closed = TRUE, !.ready = FALSE, !.sent = {},
                     !.asked = FALSE, !.restart = IF restarts THEN "armed" ELSE @]]
      /\ \/ /\ a.kind = "provision"
            /\ desk' = IF a.abandoned \/ ~SuccessfulExit(a)
                       THEN [desk EXCEPT !.state = "failed"] ELSE desk
         \/ /\ CleanStop(a)
            /\ desk' = [desk EXCEPT !.state = "stopped", !.failure = FALSE]
         \/ /\ a.kind = "worker" /\ ~CleanStop(a)
            /\ desk' = [desk EXCEPT !.state = "failed",
                          !.failure = @ \/ a.stopReq \/ a.managed,
                          !.restarts = IF restarts THEN @ + 1 ELSE @,
                          !.timer = IF restarts THEN l ELSE @]

\* "ready" precedes what the child says at its end.
MessageSeen(l, m) ==
  /\ m \in launch[l].sent /\ (m # "ready" => "ready" \notin launch[l].sent)
  /\ LET a == [launch[l] EXCEPT !.sent = @ \ {m}]
     IN  /\ launch' = [launch EXCEPT ![l] =
              CASE m = "reply" -> [a EXCEPT !.reply = ~a.abandoned]
                [] m = "ready" -> [a EXCEPT !.ready = ~(a.stopReq \/ a.stopped \/ a.error)]
                [] m = "stopped" -> [a EXCEPT !.stopped = TRUE]]
         /\ desk' = IF m = "stopped" THEN [desk EXCEPT !.state = "stopping"] ELSE desk
  /\ UNCHANGED <<child, deskOp, enrolled, profile, seen>>

\* An ordinary worker is over at exit, unless an error makes it wait for close.
ExitSeen(l) ==
  LET a == [launch[l] EXCEPT !.exited = TRUE]
  IN  /\ ~launch[l].up /\ ~launch[l].exited /\ ~launch[l].ended
      /\ IF a.kind = "worker" /\ ~a.managed /\ ~a.error
         THEN Ended(l, a)
         ELSE /\ launch' = [launch EXCEPT ![l] = a]
              /\ desk' = IF a.managed
                         THEN [desk EXCEPT !.state = IF a.stopReq THEN "stopping" ELSE "failed"]
                         ELSE desk
              /\ UNCHANGED child
      /\ UNCHANGED <<deskOp, enrolled, profile, seen>>

\* Closing follows every message; a child that could not be spawned errs and
\* closes without an exit.
CloseSeen(l) ==
  /\ ~launch[l].up /\ ~launch[l].ended /\ launch[l].sent = {}
  /\ launch[l].exited \/ (launch[l].error /\ launch[l].code = "other")
  /\ Ended(l, [launch[l] EXCEPT !.closed = TRUE])
  /\ UNCHANGED <<deskOp, enrolled, profile, seen>>

\* attempt.fail: a failed message or signal, while the process may still live.
ErrorSeen(l) ==
  /\ launch[l].up /\ ~launch[l].error
  /\ launch' = [launch EXCEPT ![l].error = TRUE]
  /\ desk' = IF desk.state # "stopping" THEN [desk EXCEPT !.state = "failed"] ELSE desk
  /\ UNCHANGED <<child, deskOp, enrolled, profile, seen>>

----------------------------------------------------------------------------
(* launchWorker *)

\* Mutant: the generation does not move on.
MutSuperseded(ls) == ls

\* generation++: no earlier attempt is current.
Superseded(ls) == [l \in DOMAIN ls |-> [ls[l] EXCEPT !.current = FALSE]]

\* configurationLocked, the checks of the profile and of the selected identity.
MayLaunch(d) ==
  /\ child = 0 /\ d.state # "stopping" /\ ~d.failure
  /\ enrolled # "none" /\ enrolled \notin d.lost
  /\ profile[enrolled] \in {"none", "ready"}

\* stopRequested is withdrawn first, before anything that can fail.
Launched(ls, d) ==
  /\ MayLaunch(d) /\ Len(ls) < MaxLaunches
  /\ launch' = Append(ls, Attempt("worker", profile[enrolled] = "ready"))
  /\ child' = Len(ls) + 1
  /\ desk' = [d EXCEPT !.stopRequested = FALSE, !.state = "starting"]

\* A refusal or failure on the way; a failed spawn shows in the state.
LaunchFails(ls, d) ==
  /\ launch' = ls
  /\ \E s \in {d.state} \cup (IF MayLaunch(d) THEN {"failed"} ELSE {}) :
       desk' = [d EXCEPT !.stopRequested = FALSE, !.state = s]
  /\ UNCHANGED child

\* The user's launch, after the generation has moved on.
UserLaunch(ls, d) ==
  LET fresh == [d EXCEPT !.restarts = 0]
  IN  \/ Launched(ls, fresh) /\ seen' = [seen EXCEPT !.wanted = TRUE]
      \/ LaunchFails(ls, fresh) /\ UNCHANGED seen

Stale(d) == [d EXCEPT !.poll = IF @.on = 0 THEN @ ELSE [@ EXCEPT !.current = FALSE]]

StartDaemon ==
  /\ Idle(NoOp) /\ child = 0
  /\ UserLaunch(Superseded(launch), Stale(desk))
  /\ UNCHANGED <<enrolled, profile>>

\* The timer of an attempt fires and queues a restart behind the operations.
TimerFires(l) ==
  /\ launch[l].restart = "armed"
  /\ launch' = [launch EXCEPT ![l].restart = "queued"]
  /\ UNCHANGED <<child, desk, deskOp, enrolled, profile, seen>>

\* Only the attempt the user has not gone past may be restarted.
MayRestart(l) == launch[l].current /\ ~desk.stopRequested

AutoRestart(l) ==
  /\ Idle(NoOp) /\ launch[l].restart = "queued"
  /\ LET ls == [launch EXCEPT ![l].restart = "off"]
     IN  IF ~MayRestart(l) \/ child # 0
         THEN launch' = ls /\ UNCHANGED <<child, desk>>
         ELSE \/ Launched(ls, desk)
              \/ /\ launch' = ls /\ UNCHANGED child
                 /\ desk' = [desk EXCEPT !.stopRequested = FALSE, !.state = "failed"]
  /\ UNCHANGED <<enrolled, profile, seen>>

----------------------------------------------------------------------------
(* stopWorker and the operations that begin with it *)

Stopping == {"stop", "restart", "logout", "pair", "server"}

\* What an operation does once the worker is stopped.
Stopped(op, ls, d) ==
  LET quiet == [seen EXCEPT !.wanted = FALSE]
  IN  CASE op = "restart" ->
             /\ \/ /\ Launched(ls, [d EXCEPT !.restarts = 0])
                   /\ seen' = [seen EXCEPT !.wanted = TRUE]
                \/ /\ LaunchFails(ls, [d EXCEPT !.restarts = 0])
                   /\ seen' = quiet
             /\ UNCHANGED enrolled
        [] OTHER ->
             /\ launch' = ls /\ desk' = d /\ UNCHANGED child
             /\ seen' = quiet
             /\ CASE op = "stop" -> UNCHANGED enrolled
                  [] op = "pair" -> enrolled' \in {enrolled} \cup Computers
                  [] OTHER -> enrolled' = "none"

\* The clock is cleared, the child asked over its channel or by a signal, and
\* observed for a while.
StopWorker(op) ==
  LET quiet == [Superseded(launch) EXCEPT ![desk.timer].restart =
                  IF @ = "armed" THEN "off" ELSE @]
      ls == IF desk.timer = 0 THEN Superseded(launch) ELSE quiet
      d == [Stale(desk) EXCEPT !.stopRequested = TRUE, !.timer = 0]
  IN  /\ UNCHANGED profile
      /\ \/ /\ child = 0 /\ desk.failure                 \* throws closureFailure
            /\ Idle(NoOp)
            /\ launch' = ls /\ desk' = d
            /\ UNCHANGED <<child, enrolled, seen>>
         \/ /\ child = 0 /\ ~desk.failure
            /\ Idle(NoOp)
            /\ Stopped(op, ls, [d EXCEPT !.state = "stopped"])
         \/ /\ child # 0
            /\ Idle([name |-> op, on |-> child])
            /\ desk' = [d EXCEPT !.state = "stopping"]
            /\ \E asked \in BOOLEAN :
                 launch' = [ls EXCEPT ![child].stopReq = TRUE,
                                      ![child].asked = @ \/ asked,
                                      ![child].error = @ \/ ~asked]
            /\ UNCHANGED <<child, enrolled, seen>>

\* observeWithinBudget: an error of the attempt comes before its end, and the
\* budget may run out before either.
StopResolves ==
  /\ deskOp.name \in Stopping
  /\ deskOp' = NoOp
  /\ LET a == launch[deskOp.on]
     IN  \/ /\ a.ended /\ ~a.error /\ CleanStop(a)
            /\ Stopped(deskOp.name, launch, desk)
         \/ /\ a.error \/ ~a.ended \/ ~CleanStop(a)
            /\ UNCHANGED <<launch, child, desk, enrolled, seen>>
  /\ UNCHANGED profile

----------------------------------------------------------------------------
(* prepareManagedWorkspace and managed-profile-store.cjs *)

\* beginPreparation: an existing directory is never claimed again.
Claim ==
  /\ desk.state = "stopped" /\ ~desk.failure /\ child = 0
  /\ enrolled # "none" /\ enrolled \notin desk.lost
  /\ profile[enrolled] = "none"
  /\ Idle([name |-> "claiming", on |-> 0])
  /\ profile' = [profile EXCEPT ![enrolled] = "claimed"]
  /\ seen' = [seen EXCEPT !.claims[enrolled] = @ + 1]
  /\ UNCHANGED <<launch, child, desk, enrolled>>

\* A failed write leaves either bytes, and the profile unusable until the
\* application is opened again.
WriteFails(after) ==
  /\ profile' \in {profile, [profile EXCEPT ![enrolled] = after]}
  /\ deskOp' = NoOp
  /\ UNCHANGED <<launch, child, enrolled, seen>>

ClaimWritten ==
  /\ deskOp.name = "claiming"
  /\ \/ /\ WriteFails("incomplete")
        /\ desk' = [desk EXCEPT !.lost = @ \cup {enrolled}]
     \/ /\ Len(launch) < MaxLaunches
        /\ profile' = [profile EXCEPT ![enrolled] = "incomplete"]
        /\ launch' = Append(launch, Attempt("provision", FALSE))
        /\ child' = Len(launch) + 1
        /\ deskOp' = [name |-> "prepare", on |-> Len(launch) + 1]
        /\ desk' = [desk EXCEPT !.state = "preparing"]
        /\ UNCHANGED <<enrolled, seen>>

\* The matching reply and exit 0 let the profile be completed; anything else
\* abandons the attempt.
Provisioned(a) == a.ended /\ SuccessfulExit(a) /\ a.reply

PrepareResolves ==
  /\ deskOp.name = "prepare"
  /\ LET l == deskOp.on  a == launch[l]
     IN  \/ /\ Provisioned(a)
            /\ deskOp' = [name |-> "completing", on |-> l]
            /\ profile' = [profile EXCEPT ![enrolled] = "completing"]
            /\ UNCHANGED <<launch, desk>>
         \/ /\ ~Provisioned(a)
            /\ deskOp' = NoOp
            /\ launch' = [launch EXCEPT ![l].abandoned = TRUE]
            /\ desk' = [desk EXCEPT !.state = IF child # 0 THEN "stopping" ELSE "failed"]
            /\ UNCHANGED profile
  /\ UNCHANGED <<child, enrolled, seen>>

CompleteWritten ==
  /\ deskOp.name = "completing"
  /\ \/ /\ WriteFails("ready")
        /\ desk' = [desk EXCEPT !.lost = @ \cup {enrolled}, !.state = "failed"]
     \/ /\ deskOp' = NoOp
        /\ profile' = [profile EXCEPT ![enrolled] = "ready"]
        /\ desk' = [desk EXCEPT !.state = "stopped"]
        /\ UNCHANGED <<launch, child, enrolled, seen>>

----------------------------------------------------------------------------
(* daemonStatus, which is not serialised with the operations *)

StatusAsks ==
  /\ desk.poll = NoPoll /\ child # 0 /\ launch[child].kind = "worker"
  /\ desk' = [desk EXCEPT !.poll = [on |-> child, current |-> TRUE]]
  /\ UNCHANGED <<launch, child, deskOp, enrolled, profile, seen>>

StillCurrent(p) ==
  /\ child = p.on /\ p.current /\ ~desk.stopRequested
  /\ ~launch[p.on].error /\ ~launch[p.on].exited /\ ~launch[p.on].stopped

StatusAnswers ==
  /\ desk.poll # NoPoll
  /\ LET p == desk.poll  d == [desk EXCEPT !.poll = NoPoll]
     IN  desk' \in IF ~StillCurrent(p) THEN {d}
                   ELSE {[d EXCEPT !.state = IF @ = "running" THEN "unhealthy" ELSE @]}
                        \cup (IF launch[p.on].managed /\ ~launch[p.on].ready THEN {}
                              ELSE {[d EXCEPT !.state = "running", !.restarts = 0]})
  /\ UNCHANGED <<launch, child, deskOp, enrolled, profile, seen>>

----------------------------------------------------------------------------
\* The application ends without its operations; a child sees its channel close
\* and stops by itself.  What was being written is on disk or is not.
AppCrashes ==
  /\ seen.crashes < MaxAppCrashes
  /\ seen' = [seen EXCEPT !.crashes = @ + 1, !.wanted = FALSE]
  /\ launch' = <<>> /\ child' = 0 /\ desk' = FreshDesk /\ deskOp' = NoOp
  /\ profile' \in {profile}
       \cup (IF deskOp.name = "claiming" THEN {[profile EXCEPT ![enrolled] = "incomplete"]} ELSE {})
       \cup (IF deskOp.name = "completing" THEN {[profile EXCEPT ![enrolled] = "ready"]} ELSE {})
  /\ UNCHANGED enrolled

DesktopNext ==
  \/ \E l \in DOMAIN launch :
       \/ WorkerStarts(l) \/ ChildEnds(l) \/ ExitSeen(l) \/ CloseSeen(l)
       \/ ErrorSeen(l) \/ TimerFires(l) \/ AutoRestart(l)
       \/ \E m \in {"ready", "stopped", "reply"} : MessageSeen(l, m)
  \/ \E op \in Stopping : StopWorker(op)
  \/ StartDaemon \/ StopResolves
  \/ Claim \/ ClaimWritten \/ PrepareResolves \/ CompleteWritten
  \/ StatusAsks \/ StatusAnswers
  \/ AppCrashes

DesktopSpec == DesktopInit /\ [][DesktopNext]_deskVars

----------------------------------------------------------------------------
(* What the desktop promises *)

Up == {l \in DOMAIN launch : launch[l].up}
Workers == {l \in Up : launch[l].kind = "worker"}

\* One live process, and the controller owns it: its handle is given up only
\* after the process has gone, whatever errors came before.
OneChild == \A l \in Up : l = child

\* After a stop, a logout or a change of server that succeeded no worker runs
\* until the user starts one: no restart timer, queued restart or launch on the
\* way survives it.  A worker runs for the identity that is selected.
StopMeansStopped ==
  /\ Workers # {} => seen.wanted
  /\ \A l \in Workers : launch[l].computer = enrolled

\* Agent processes left behind by a prepared worker, or by one asked to stop,
\* show as a failure that no later stop, start or status hides.
FailureStays ==
  (\E l \in DOMAIN launch :
      launch[l].left /\ launch[l].ended /\ (launch[l].managed \/ launch[l].stopReq))
    => desk.state = "failed" /\ Up = {}

\* "running" is said of the owned worker only, while nothing has been heard of
\* its end, of an error or of a request to stop it.
RunningIsLive ==
  desk.state = "running" =>
    /\ child # 0
    /\ LET a == launch[child]
       IN  /\ a.kind = "worker" /\ ~a.stopReq /\ ~a.stopped /\ ~a.error
           /\ ~a.ended /\ (a.managed => ~a.exited /\ a.ready)

\* A computer's separate workspaces are claimed once, whatever crashes; ready
\* means its child confirmed them; and no worker of the other kind runs beside.
PreparedOnce ==
  /\ \A c \in Computers : seen.claims[c] <= 1
  /\ \A c \in Computers : profile[c] \in {"completing", "ready"} => c \in seen.proved
  /\ \A l \in Workers : profile[enrolled] = IF launch[l].managed THEN "ready" ELSE "none"

DesktopHolds ==
  OneChild /\ StopMeansStopped /\ FailureStays /\ RunningIsLive /\ PreparedOnce
==============================================================================
