------------------------------- MODULE CliProcess -------------------------------
(***************************************************************************)
(* One command-line agent as process-adapter.ts runs it on POSIX systems:  *)
(* the leader and what it forks form a process group, a second process,    *)
(* the guardian, holds a pipe from the daemon and kills the group when the *)
(* daemon is gone.  The adapter sees spawn, exit and close, ends the group *)
(* itself, and says how the run ended.  An owned run (startOwnedRun) also  *)
(* has a startup that can be aborted and receipts about what is physically *)
(* known.                                                                  *)
(*                                                                         *)
(* Times only decide which of two things comes first, so each wait with a  *)
(* budget may run out at any moment.                                       *)
(***************************************************************************)
EXTENDS Naturals, FiniteSets

VARIABLES cli,       \* the group: leader, kids (others alive), hold (they keep
                     \*   the output open), code of the leader, killed
          guardian,  \* the guardian, and what the adapter has seen of it
          watch,     \* what the adapter has seen of the CLI, and its decisions
          startup,   \* how far start has come, and whether it is aborted
          stopCall,  \* a stop or stopOwnedRun under way
          daemonUp,
          owned,     \* an owned run; else an ordinary one
          said       \* ghost: receipts and results given out

cliVars == <<cli, guardian, watch, startup, stopCall, daemonUp, owned, said>>

CliInit ==
  /\ cli = [leader |-> "none", kids |-> FALSE, hold |-> FALSE, code |-> "none",
            killed |-> FALSE]
  /\ guardian = [phys |-> "none", status |-> "none", disarmed |-> FALSE,
                 attempted |-> FALSE, spawned |-> FALSE, failed |-> FALSE,
                 closed |-> FALSE]
  /\ watch = [spawned |-> FALSE, failed |-> FALSE, exited |-> FALSE, stdio |-> FALSE,
              term |-> "none", stopReason |-> FALSE, natural |-> FALSE,
              outcome |-> "none"]
  /\ startup = [at |-> "prepare", abort |-> FALSE, helper |-> "sure"]
  /\ stopCall = "none"
  /\ daemonUp = TRUE
  /\ owned \in BOOLEAN
  /\ said = {}

Writers == cli.leader = "up" \/ cli.kids
GroupGone == cli.leader = "gone" /\ ~cli.kids

----------------------------------------------------------------------------
(* The processes *)

Forks ==
  /\ cli.leader = "up" /\ ~cli.kids /\ ~cli.killed
  /\ \E hold \in BOOLEAN : cli' = [cli EXCEPT !.kids = TRUE, !.hold = hold]
  /\ UNCHANGED <<guardian, watch, startup, stopCall, daemonUp, owned, said>>

LeaderEnds ==
  /\ cli.leader = "up"
  /\ \E code \in IF cli.killed THEN {"signal"} ELSE {"zero", "other"} :
       cli' = [cli EXCEPT !.leader = "gone", !.code = code]
  /\ UNCHANGED <<guardian, watch, startup, stopCall, daemonUp, owned, said>>

\* The rest of the group ends by itself or because it was killed.
KidsEnd ==
  /\ cli.kids
  /\ cli' = [cli EXCEPT !.kids = FALSE, !.hold = FALSE]
  /\ UNCHANGED <<guardian, watch, startup, stopCall, daemonUp, owned, said>>

\* PROCESS_GUARDIAN: a disarmed guardian ends; otherwise the end of its pipe
\* makes it kill the group and wait for it, or give up with code 1.  It may
\* also be killed by someone else.
GuardianKills ==
  /\ guardian.phys = "up" /\ ~daemonUp /\ ~guardian.disarmed /\ ~cli.killed
  /\ cli' = [cli EXCEPT !.killed = TRUE]
  /\ UNCHANGED <<guardian, watch, startup, stopCall, daemonUp, owned, said>>

GuardianEnds ==
  /\ guardian.phys = "up"
  /\ \E status \in {"zero", "other"} :
       /\ status = "zero" =>
            guardian.disarmed \/ (~daemonUp /\ cli.killed /\ GroupGone)
       /\ guardian' = [guardian EXCEPT !.phys = "gone", !.status = status]
  /\ UNCHANGED <<cli, watch, startup, stopCall, daemonUp, owned, said>>

DaemonCrashes ==
  /\ daemonUp /\ daemonUp' = FALSE
  /\ UNCHANGED <<cli, guardian, watch, startup, stopCall, owned, said>>

----------------------------------------------------------------------------
(* stopProcessTree and the observers of the child *)

\* beginTermination: once.  The signal reaches the whole group, finds nobody,
\* or is refused.
Terminating(w) ==
  IF w.term # "none" \/ w.failed THEN watch' = w /\ UNCHANGED cli
  ELSE \/ /\ GroupGone /\ w.exited
          /\ watch' = [w EXCEPT !.term = "done"] /\ UNCHANGED cli
       \/ /\ ~(GroupGone /\ w.exited)
          /\ watch' = [w EXCEPT !.term = "killing"]
          /\ cli' = [cli EXCEPT !.killed = TRUE]
       \/ watch' = [w EXCEPT !.term = "failed"] /\ UNCHANGED cli

\* The group is observed until nobody is left, or for five seconds.
TerminationEnds ==
  /\ daemonUp /\ watch.term = "killing"
  /\ \E r \in {"failed"} \cup (IF GroupGone /\ watch.exited THEN {"done"} ELSE {}) :
       watch' = [watch EXCEPT !.term = r]
  /\ UNCHANGED <<cli, guardian, startup, stopCall, daemonUp, owned, said>>

\* The leader's exit starts the end of the group before the output has closed.
ExitObserved ==
  /\ daemonUp /\ cli.leader = "gone" /\ watch.spawned /\ ~watch.exited
  /\ Terminating([watch EXCEPT !.exited = TRUE, !.natural = ~watch.stopReason])
  /\ UNCHANGED <<guardian, startup, stopCall, daemonUp, owned, said>>

CloseObserved ==
  /\ daemonUp /\ ~watch.stdio
  /\ watch.failed \/ (watch.exited /\ ~cli.hold)
  /\ Terminating([watch EXCEPT !.stdio = TRUE])
  /\ UNCHANGED <<guardian, startup, stopCall, daemonUp, owned, said>>

\* Mutant: the end of the output is enough, the group is not waited for.
MutGroupEnded(w) == w.stdio

GroupEnded(w) == w.stdio /\ (w.failed \/ w.term = "done")

\* The rest of the close handler: the guardian is disarmed and the outcome
\* published, with the artifacts of a completed run collected just before.
Finishes ==
  /\ daemonUp /\ watch.outcome = "none" /\ GroupEnded(watch)
  /\ guardian' = [guardian EXCEPT !.disarmed = @ \/ guardian.attempted]
  /\ \E o \in IF watch.stopReason THEN {"cancelled"}
              ELSE IF cli.code = "zero" THEN {"completed", "failed"} ELSE {"failed"} :
       watch' = [watch EXCEPT !.outcome = o]
  /\ UNCHANGED <<cli, startup, stopCall, daemonUp, owned, said>>

----------------------------------------------------------------------------
(* startProcess and startOwnedRun *)

At(p) == daemonUp /\ startup.at = p
Going(p) == startup' = [startup EXCEPT !.at = p]

StartupAborts ==
  /\ owned /\ daemonUp /\ ~startup.abort
  /\ startup.at \in {"prepare", "spawn", "guard", "killing"}
  /\ startup' = [startup EXCEPT !.abort = TRUE]
  /\ IF watch.outcome = "none" /\ startup.at # "prepare"
     THEN Terminating([watch EXCEPT !.stopReason = TRUE])      \* onStartupAbort
     ELSE UNCHANGED <<cli, watch>>
  /\ UNCHANGED <<guardian, stopCall, daemonUp, owned, said>>

\* The checks and the context file come before any process; an owned
\* preparation that fails leaves its helpers known to be over, or not.
PreparationFails ==
  /\ At("prepare")
  /\ \E h \in {"sure"} \cup (IF owned THEN {"unsure"} ELSE {}) :
       startup' = [startup EXCEPT !.at = "rejected", !.helper = h]
  /\ said' = IF ~owned THEN said
              ELSE said \cup {IF startup'.helper = "sure" THEN "not_spawned" ELSE "uncertain"}
  /\ UNCHANGED <<cli, guardian, watch, stopCall, daemonUp, owned>>

SpawnsCli ==
  /\ At("prepare") /\ ~startup.abort
  /\ Going("spawn")
  /\ \/ cli' = [cli EXCEPT !.leader = "up"] /\ UNCHANGED watch
     \/ watch' = [watch EXCEPT !.failed = TRUE] /\ UNCHANGED cli
  /\ UNCHANGED <<guardian, stopCall, daemonUp, owned, said>>

\* "spawn" or an error before it.
SpawnObserved ==
  /\ At("spawn") /\ ~watch.spawned /\ ~watch.failed
  /\ watch' = [watch EXCEPT !.spawned = TRUE]
  /\ UNCHANGED <<cli, guardian, startup, stopCall, daemonUp, owned, said>>

\* The guardian follows at once, unless the run is already over.
StartsGuardian ==
  /\ At("spawn") /\ watch.spawned /\ ~startup.abort
  /\ \/ /\ watch.outcome # "none"
        /\ Going("returned") /\ UNCHANGED guardian
     \/ /\ watch.outcome = "none"
        /\ Going("guard")
        /\ \E ok \in BOOLEAN :
             guardian' = [guardian EXCEPT !.attempted = TRUE, !.failed = ~ok,
                            !.phys = IF ok THEN "up" ELSE "none"]
  /\ UNCHANGED <<cli, watch, stopCall, daemonUp, owned, said>>

GuardianSpawned ==
  /\ At("guard") /\ guardian.phys # "none"
  /\ guardian' = [guardian EXCEPT !.spawned = TRUE]
  /\ IF startup.abort THEN Going("aborting") ELSE Going("returned")
  /\ UNCHANGED <<cli, watch, stopCall, daemonUp, owned, said>>

\* A guardian that cannot be started ends the run.
GuardianFails ==
  /\ At("guard") /\ guardian.failed
  /\ Going("killing")
  /\ IF watch.outcome = "none"
     THEN Terminating([watch EXCEPT !.stopReason = TRUE])
     ELSE UNCHANGED <<cli, watch>>
  /\ UNCHANGED <<guardian, stopCall, daemonUp, owned, said>>

\* What a wait for state.kill() comes to: the outcome, or a failed end.
KillResolved == watch.outcome # "none" \/ watch.term = "failed"

\* rejectAfterStartupAbort also waits for the guardian, within a budget; then
\* the owned start asks for a stop of its own before it gives its receipt.
StartFails ==
  /\ \/ KillResolved /\ (At("killing") \/ At("aborting"))
     \/ KillResolved /\ At("spawn") /\ startup.abort /\ watch.spawned
     \/ At("spawn") /\ watch.failed
  /\ Going(IF owned THEN "receipt" ELSE "rejected")
  /\ UNCHANGED <<cli, guardian, watch, stopCall, daemonUp, owned, said>>

\* The guardian is seen to exit and close.
GuardianObserved ==
  /\ daemonUp /\ owned /\ ~guardian.closed
  /\ guardian.phys = "gone" \/ (guardian.attempted /\ guardian.failed)
  /\ guardian' = [guardian EXCEPT !.closed = TRUE]
  /\ UNCHANGED <<cli, watch, startup, stopCall, daemonUp, owned, said>>

----------------------------------------------------------------------------
(* Stop and the receipts *)

\* observeFullClosure: child, output, group and guardian.
FullClosure ==
  /\ \/ watch.failed /\ watch.stdio
     \/ watch.exited /\ watch.stdio /\ watch.term = "done"
  /\ ~guardian.attempted \/ (guardian.closed /\ (guardian.failed \/ guardian.status = "zero"))

\* control.stop: a natural exit already has its outcome and is only confirmed.
StopBegins(p) ==
  IF FullClosure \/ watch.exited \/ watch.stdio
  THEN stopCall' = p /\ UNCHANGED <<cli, watch>>
  ELSE \/ stopCall' = "unsure" /\ UNCHANGED <<cli, watch>>   \* liveness not seen
       \/ /\ watch.spawned
          /\ stopCall' = p
          /\ Terminating([watch EXCEPT !.stopReason = TRUE])

\* stop of an ordinary run asks in every case.
StopAsked ==
  /\ daemonUp /\ startup.at = "returned" /\ stopCall = "none"
  /\ \/ owned /\ StopBegins("asked")
     \/ /\ ~owned /\ stopCall' = "asked"
        /\ IF watch.outcome = "none"
           THEN Terminating([watch EXCEPT !.stopReason = TRUE])
           ELSE /\ watch' = [watch EXCEPT !.stopReason = TRUE]
                /\ UNCHANGED cli
  /\ UNCHANGED <<guardian, startup, daemonUp, owned, said>>

\* The receipt of an owned startup that failed after a spawn was attempted.
ReceiptAsked ==
  /\ At("receipt") /\ stopCall = "none"
  /\ StopBegins("asked")
  /\ UNCHANGED <<guardian, startup, daemonUp, owned, said>>

\* A failed startup says what is known; a stop that could not see the child
\* alive stays uncertain.
Confirmed == FullClosure /\ (stopCall = "asked" \/ startup.at = "receipt")

StopAnswers ==
  /\ daemonUp /\ stopCall # "none"
  /\ stopCall' = "none"
  /\ \/ owned /\ Confirmed
        /\ said' = said \cup {IF watch.failed THEN "not_spawned" ELSE "closed"}
     \/ owned /\ ~Confirmed /\ said' = said \cup {"uncertain"}
     \/ ~owned /\ watch.outcome # "none" /\ said' = said \cup {"stopped"}
     \/ ~owned /\ watch.term = "failed" /\ UNCHANGED said    \* stop throws
  /\ startup' = IF startup.at = "receipt" THEN [startup EXCEPT !.at = "rejected"] ELSE startup
  /\ UNCHANGED <<cli, guardian, watch, daemonUp, owned>>

CliNext ==
  \/ Forks \/ LeaderEnds \/ KidsEnd \/ GuardianKills \/ GuardianEnds \/ DaemonCrashes
  \/ TerminationEnds \/ ExitObserved \/ CloseObserved \/ Finishes
  \/ StartupAborts \/ PreparationFails \/ SpawnsCli \/ SpawnObserved
  \/ StartsGuardian \/ GuardianSpawned \/ GuardianFails \/ StartFails
  \/ GuardianObserved \/ StopAsked \/ ReceiptAsked \/ StopAnswers

CliSpec == CliInit /\ [][CliNext]_cliVars

----------------------------------------------------------------------------
(* What the adapter promises *)

\* An outcome is published, and its artifacts collected, only when nothing of
\* the agent can write to the workspace any more.
OutcomeMeansGone == watch.outcome # "none" => ~Writers

\* A stop that succeeded, and a receipt that confirms the end, are true of the
\* processes and not only of the events; "not spawned" means it never ran.
ReceiptsAreTrue ==
  /\ said \cap {"stopped", "closed"} # {} => ~Writers
  /\ "closed" \in said => guardian.phys # "up"
  /\ "not_spawned" \in said => cli.leader = "none"

\* Once start has returned, an agent that lives is guarded, so it does not
\* outlive the daemon; the guardian is disarmed only when there is nobody left
\* and none stays behind a run that is over.
Guarded ==
  /\ startup.at = "returned" /\ Writers =>
       (guardian.phys = "up" /\ ~guardian.disarmed) \/ guardian.status = "other"
  /\ guardian.disarmed => ~Writers
  /\ startup.at = "returned" /\ watch.outcome # "none" =>
       guardian.disarmed \/ ~guardian.attempted

\* An owned run that ended by itself keeps its own outcome: a stop that comes
\* between its exit and the end of the group does not turn it into a
\* cancellation.
OutcomeIsKept ==
  owned /\ watch.natural /\ ~startup.abort /\ ~guardian.failed
    => watch.outcome # "cancelled"

CliHolds == OutcomeMeansGone /\ ReceiptsAreTrue /\ Guarded /\ OutcomeIsKept
==============================================================================
