------------------------------- MODULE OwnedGit -------------------------------
(***************************************************************************)
(* One run of Git by the daemon (artood/src/owned/owned-git.ts): a process *)
(* group with its child and a helper the child may leave behind, the       *)
(* events the daemon observes of it, its probes and signals, and the       *)
(* verdict it settles on.  Helpers do not leave the group, and its number  *)
(* is not given to another.                                                *)
(***************************************************************************)
EXTENDS Integers

VARIABLES gitChild,  \* the Git process: "none", "alive" or "dead"
          helper,    \* another process of the group: "none", "alive", "holding"
                     \* (it keeps the output open too) or "dead"
          started,   \* the call: "no", "failed" (no process) or "pid"
          spawned, exited, closed,   \* events observed; exited: "no", "code", "signal"
          group,     \* groupState, as last probed
          trigger,   \* the first reason to fail, or "none"
          ending,    \* terminate has begun to poll
          termSent, killSent,
          draining,  \* after a normal exit, until everything is gone
          outputCut, \* the output is read no longer
          settled, confirmed   \* the verdict and cleanupConfirmed

worldVars == <<gitChild, helper, started>>
seenVars == <<spawned, exited, closed>>
endVars == <<trigger, ending, termSent, killSent, draining, outputCut>>
gitVars == <<worldVars, seenVars, group, endVars, settled, confirmed>>

GitInit ==
  /\ gitChild = "none" /\ helper = "none" /\ started = "no"
  /\ spawned = FALSE /\ exited = "no" /\ closed = FALSE
  /\ group = "not-launched"
  /\ trigger = "none" /\ ending = FALSE
  /\ termSent = FALSE /\ killSent = FALSE /\ draining = FALSE /\ outputCut = FALSE
  /\ settled = "no" /\ confirmed = FALSE

HelperAlive == helper \in {"alive", "holding"}
GroupAlive == gitChild = "alive" \/ HelperAlive

-----------------------------------------------------------------------------
(* The processes *)

\* spawn: with a process, with none and an error event to come, or thrown.
Spawn ==
  /\ started = "no" /\ settled = "no"
  /\ \/ started' = "pid" /\ gitChild' = "alive" /\ UNCHANGED <<settled, confirmed, trigger>>
     \/ started' = "failed" /\ UNCHANGED <<gitChild, settled, confirmed, trigger>>
     \/ /\ started' = "failed" /\ trigger' = "spawn_failed"
        /\ settled' = "error" /\ confirmed' = TRUE
        /\ UNCHANGED gitChild
  /\ UNCHANGED <<helper, seenVars, group, ending, termSent, killSent, draining, outputCut>>

LeavesHelper ==
  /\ gitChild = "alive" /\ helper = "none"
  /\ helper' \in {"alive", "holding"}
  /\ UNCHANGED <<gitChild, started, seenVars, group, endVars, settled, confirmed>>

\* A process ends by itself or by a signal.
GitEnds ==
  /\ gitChild = "alive"
  /\ gitChild' = "dead"
  /\ UNCHANGED <<helper, started, seenVars, group, endVars, settled, confirmed>>
HelperEnds ==
  /\ HelperAlive
  /\ helper' = "dead"
  /\ UNCHANGED <<gitChild, started, seenVars, group, endVars, settled, confirmed>>

-----------------------------------------------------------------------------
(* What the daemon observes and does *)

\* A probe of the group; its error other than ESRCH says nothing.  Once seen
\* absent it is not probed again.  The probe before a signal is this one.
Probed(g) ==
  IF group = "absent" THEN g = "absent"
  ELSE g = "unknown" \/ g = (IF GroupAlive THEN "present" ELSE "absent")

\* Mutant: the close of the output is taken for the end of the group.
MutCleanupConfirmed ==
  IF started' = "failed" THEN closed' ELSE exited' # "no" /\ closed'
\* finish: only what was observed confirms that nothing is left.
CleanupConfirmed ==
  IF started' = "failed" THEN closed'
  ELSE exited' # "no" /\ closed' /\ group' = "absent"
Settle(verdict) == settled' = verdict /\ confirmed' = CleanupConfirmed

\* pollCleanup, at an instant at which its deadlines have passed or not.
PollCleanup(killDue, over) ==
  \E g \in {"not-launched", "present", "absent", "unknown"} :
    /\ IF spawned' THEN Probed(g) ELSE g = group
    /\ group' = g
    /\ IF \/ started' = "failed" /\ closed'
          \/ exited' # "no" /\ closed' /\ g = "absent"
          \/ over
         THEN Settle("error") /\ UNCHANGED <<termSent, killSent>>
         ELSE /\ termSent' = (termSent \/ spawned')
              /\ killSent' = (killSent \/ (spawned' /\ killDue))
              /\ UNCHANGED <<settled, confirmed>>

\* terminate: the first reason stays.
Terminate(reason) ==
  /\ trigger' = IF trigger = "none" THEN reason ELSE trigger
  /\ ending' = TRUE /\ draining' = FALSE
  /\ IF ending THEN UNCHANGED <<group, termSent, killSent, settled, confirmed>>
     ELSE PollCleanup(FALSE, FALSE)

\* pollNormalDrain: its deadline wins even when all is gone by then.
Drained(late) ==
  \E g \in {"present", "absent", "unknown"} :
    /\ Probed(g)
    /\ IF late
         THEN /\ trigger' = "lingering_group" /\ ending' = TRUE /\ draining' = FALSE
              /\ group' = g
              /\ IF closed' /\ g = "absent"
                   THEN Settle("error") /\ UNCHANGED termSent
                   ELSE termSent' = TRUE /\ UNCHANGED <<settled, confirmed>>
         ELSE /\ group' = g
              /\ draining' = TRUE
              /\ IF closed' /\ g = "absent" THEN Settle("ok")
                 ELSE UNCHANGED <<settled, confirmed>>
              /\ UNCHANGED <<trigger, ending, termSent>>
    /\ UNCHANGED killSent

Observing == started # "no" /\ settled = "no"

OnSpawn ==
  /\ Observing /\ started = "pid" /\ ~spawned
  /\ spawned' = TRUE
  /\ UNCHANGED <<worldVars, exited, closed, outputCut, trigger, ending, draining>>
  /\ IF trigger # "none" THEN PollCleanup(FALSE, FALSE)
     ELSE group' = "present" /\ UNCHANGED <<termSent, killSent, settled, confirmed>>

\* An error event: of a spawn that failed, or of a process that runs.
OnChildError ==
  /\ Observing
  /\ UNCHANGED <<worldVars, seenVars, outputCut>>
  /\ Terminate("spawn_failed")

OnExit(late) ==
  /\ Observing /\ spawned /\ gitChild = "dead" /\ exited = "no"
  /\ exited' \in {"code", "signal"}
  /\ UNCHANGED <<worldVars, spawned, closed, outputCut>>
  /\ IF trigger # "none"
       THEN UNCHANGED <<group, trigger, ending, draining, termSent, killSent, settled, confirmed>>
     ELSE IF exited' = "signal" THEN Terminate("signaled")
     ELSE Drained(late)

\* The output ends when nobody holds it or it is read no longer.
OnClose(late) ==
  /\ Observing /\ ~closed
  /\ IF started = "failed" THEN trigger # "none"
     ELSE exited # "no" /\ (helper # "holding" \/ outputCut)
  /\ closed' = TRUE
  /\ UNCHANGED <<worldVars, spawned, exited, outputCut>>
  /\ IF ending THEN PollCleanup(FALSE, FALSE) /\ UNCHANGED <<trigger, ending, draining>>
     ELSE IF draining THEN Drained(late)
     ELSE Terminate("lingering_group")

\* An abort, the operation's timeout until the exit, an error of the output, or
\* more output than is kept, which then is read no longer.
Fail(reason) ==
  /\ Observing
  /\ reason = "timeout" => exited = "no" /\ trigger = "none"
  /\ UNCHANGED <<worldVars, seenVars>>
  /\ Terminate(reason)
  /\ outputCut' = (outputCut \/ reason = "output_limit")

\* The timers of the two polls.
PollDrain(late) ==
  /\ Observing /\ draining /\ trigger = "none"
  /\ UNCHANGED <<worldVars, seenVars, outputCut>>
  /\ Drained(late)
PollEnd(killDue, over) ==
  /\ Observing /\ ending
  /\ UNCHANGED <<worldVars, seenVars, trigger, ending, draining, outputCut>>
  /\ PollCleanup(killDue, over)

GitNext ==
  \/ Spawn \/ LeavesHelper \/ GitEnds \/ HelperEnds
  \/ OnSpawn \/ OnChildError
  \/ \E late \in BOOLEAN : OnExit(late) \/ OnClose(late) \/ PollDrain(late)
  \/ \E reason \in {"aborted", "timeout", "stream_failed", "output_limit"} : Fail(reason)
  \/ \E killDue, over \in BOOLEAN : PollEnd(killDue, over)

-----------------------------------------------------------------------------
(* Properties *)

\* Git is reported to have succeeded only when it exited by itself, nothing of
\* its group lives, and no reason to fail came before, late events or not; and
\* the end of everything is confirmed only when nothing lives.
GitVerdictTrue ==
  /\ settled = "ok" => trigger = "none" /\ exited = "code" /\ confirmed
  /\ confirmed => ~GroupAlive

=============================================================================
