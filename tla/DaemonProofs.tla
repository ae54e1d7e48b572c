----------------------------- MODULE DaemonProofs -----------------------------
(***************************************************************************)
(* Theorems about the managed daemon.                                       *)
(*                                                                         *)
(* About its supervisor (NodeSupervisor): for any restart policy and any     *)
(* number of processes and commands, SupInv is inductive and implies what    *)
(* SupervisorHolds says.                                                     *)
(*                                                                         *)
(* About a launch (ManagedRun): for any number of events, attempts, crashes  *)
(* and troubles, ManagedInv is inductive.  It has three parts.  JournalOK    *)
(* says what each transaction keeps of the row and the outbox, and Steady    *)
(* that a launch nothing has failed yet is told event by event, in order.    *)
(* LaunchFits ties the step of a start to the row and to the process.        *)
(* DeliveryFits ties the claim in hand, the receipts waited for and the      *)
(* frames on their way to the attempts the journal has.  The last two need   *)
(* the first: an answer may outlive the loop that asked, so what it does is  *)
(* stated of every attempt the journal has ever opened.                      *)
(***************************************************************************)
EXTENDS NodeSupervisor, ManagedRun, SequenceTheorems, FiniteSetTheorems,
        WellFoundedInduction, TLAPS

-------------------------------------------------------------------------------
(* The supervisor *)

States == {"stopped", "starting", "running", "unhealthy", "stopping"}

Supervisors == [state : States, restarts : Nat, stopRequested : BOOLEAN,
                generation : Nat, child : 0..MaxDaemons]

SupTypeOK ==
  /\ node \in Supervisors
  /\ daemon \in [Daemons -> {"unborn", "alive", "ended", "gone"}]
  /\ backoff \subseteq Nat /\ grace \subseteq 0..MaxDaemons
  /\ beat \in 0..MaxDaemons
  /\ intent \in [wanted : BOOLEAN, tried : Nat]

-------------------------------------------------------------------------------
(* The inductive invariant *)

\* A process whose end has not been taken note of is the supervisor's child.
ChildHeld ==
  \A p \in Daemons : daemon[p] \in {"alive", "ended"} =>
    node.child = p /\ node.state # "stopped"

\* Restarts are scheduled for generations so far, and for the present one only
\* while nothing runs.
BackoffFits ==
  /\ \A g \in backoff : g <= node.generation
  /\ node.generation \in backoff => node.state = "stopped"

\* The budget pays for each process after the first, the scheduled one included.
BudgetPays ==
  /\ node.restarts <= MaxAuto
  /\ intent.tried <= node.restarts + 1
  /\ node.generation \in backoff => intent.tried <= node.restarts

SupInv == SupTypeOK /\ ChildHeld /\ BackoffFits /\ BudgetPays /\ StopStays

\* What nextSupervisorState (state-machine.ts) makes of each state.
LEMMA NextStateFacts ==
  ASSUME NEW s \in States
  PROVE  /\ \A e \in {"start", "ready", "healthy", "unhealthy", "stop", "exited"} :
              NextState(s, e) \in States
         /\ NextState(s, "exited") = "stopped"
         /\ NextState(s, "stop") = IF s = "stopped" THEN "stopped" ELSE "stopping"
         /\ NextState("stopped", "start") = "starting"
         /\ NextState("starting", "ready") = "running"
         /\ s \in {"running", "unhealthy"} =>
              NextState(s, "healthy") = "running" /\ NextState(s, "unhealthy") = "unhealthy"
BY DEF NextState, States

\* What spawnNode leaves, called while the state is "stopped" (supervisor.ts).
LEMMA SpawnFacts ==
  ASSUME SupInv, node.state = "stopped",
         NEW n \in Supervisors,
         n.state = "stopped", SpawnNode(n)
  PROVE  /\ node' \in Supervisors
         /\ daemon' \in [Daemons -> {"unborn", "alive", "ended", "gone"}]
         /\ node'.state = "starting" /\ node'.restarts = n.restarts
         /\ node'.generation = n.generation
         /\ ChildHeld'
<1> PICK p \in Daemons :
      /\ daemon' = [daemon EXCEPT ![p] = "alive"]
      /\ node' = [n EXCEPT !.stopRequested = FALSE, !.child = p,
                           !.state = NextState(@, "start")]
  BY DEF SpawnNode
<1>1. NextState("stopped", "start") = "starting"
  BY DEF NextState
<1>2. node' = [n EXCEPT !.stopRequested = FALSE, !.child = p, !.state = "starting"]
  BY <1>1
<1>3. \A q \in Daemons : daemon[q] \notin {"alive", "ended"}
  BY DEF SupInv, ChildHeld
<1>4. p \in 0..MaxDaemons /\ FALSE \in BOOLEAN /\ "starting" \in States
  BY SupAssumption DEF Daemons, States
<1>5. /\ node' \in Supervisors /\ node'.state = "starting" /\ node'.child = p
      /\ node'.restarts = n.restarts /\ node'.generation = n.generation
  BY <1>2, <1>4 DEF Supervisors
<1>6. /\ daemon' \in [Daemons -> {"unborn", "alive", "ended", "gone"}]
      /\ \A q \in Daemons : q # p => daemon'[q] = daemon[q]
  BY DEF SupInv, SupTypeOK
<1>7. ChildHeld'
  BY <1>3, <1>5, <1>6 DEF ChildHeld
<1> QED
  BY <1>5, <1>6, <1>7

-------------------------------------------------------------------------------
(* One step *)

LEMMA SupInitInv == SupInit => SupInv
BY SupAssumption DEF SupInit, SupInv, SupTypeOK, Supervisors, States, ChildHeld, BackoffFits,
   BudgetPays, StopStays, Daemons

\* start: a new generation, which nothing is scheduled for, and a new budget.
LEMMA StartStep == ASSUME SupInv, StartNode PROVE SupInv'
<1> DEFINE n == [node EXCEPT !.generation = @ + 1, !.restarts = 0]
<1> node \in Supervisors
  BY DEF SupInv, SupTypeOK
<1>0. node.generation \in Nat /\ node.generation + 1 \in Nat
  BY DEF Supervisors
<1>1. /\ n \in Supervisors /\ n.state = node.state
      /\ n.restarts = 0 /\ n.generation = node.generation + 1
  BY <1>0 DEF Supervisors
<1>2. /\ n.state = "stopped" /\ SpawnNode(n) /\ node.state = "stopped"
      /\ intent' = [wanted |-> TRUE, tried |-> 1]
      /\ backoff' = backoff /\ grace' = grace /\ beat' = beat
  BY <1>1 DEF StartNode
<1> HIDE DEF n
<1>3. /\ node' \in Supervisors
      /\ daemon' \in [Daemons -> {"unborn", "alive", "ended", "gone"}]
      /\ node'.state = "starting" /\ node'.restarts = 0
      /\ node'.generation = node.generation + 1 /\ ChildHeld'
  BY <1>1, <1>2, SpawnFacts
<1>4. SupTypeOK'
  BY <1>2, <1>3 DEF SupInv, SupTypeOK
<1>5. node'.generation \notin backoff' /\ \A g \in backoff' : g <= node'.generation
  BY <1>0, <1>2, <1>3 DEF SupInv, SupTypeOK, BackoffFits
<1> QED
  BY <1>2, <1>3, <1>4, <1>5, SupAssumption DEF SupInv, BackoffFits, BudgetPays, StopStays

\* stop: what is scheduled is for an earlier generation now.
LEMMA StopStep == ASSUME SupInv, StopNode PROVE SupInv'
<1> DEFINE x == NextState(node.state, "stop")
           g0 == node.generation + 1
           b == node.stopRequested \/ node.state # "stopped"
<1> node \in Supervisors
  BY DEF SupInv, SupTypeOK
<1>1. node.state \in States /\ node.generation \in Nat /\ node.restarts \in Nat
      /\ node.child \in 0..MaxDaemons /\ node.stopRequested \in BOOLEAN
  BY DEF Supervisors
<1>2. x = IF node.state = "stopped" THEN "stopped" ELSE "stopping"
  BY <1>1, NextStateFacts
<1>a. x \in States /\ g0 \in Nat /\ b \in BOOLEAN
  BY <1>1, <1>2 DEF States
<1>b. node' = [node EXCEPT !.generation = g0, !.stopRequested = b, !.state = x]
  BY DEF StopNode
<1> HIDE DEF x, g0, b
<1>c. /\ node' \in Supervisors /\ node'.state = x /\ node'.child = node.child
      /\ node'.restarts = node.restarts /\ node'.generation = g0
  BY <1>a, <1>b DEF Supervisors
<1>3. /\ node'.state = IF node.state = "stopped" THEN "stopped" ELSE "stopping"
      /\ node'.generation = node.generation + 1 /\ node'.restarts = node.restarts
      /\ node'.child = node.child /\ node' \in Supervisors
  BY <1>2, <1>c DEF g0
<1>4. /\ daemon' = daemon /\ backoff' = backoff /\ beat' = beat
      /\ intent' = [intent EXCEPT !.wanted = FALSE]
      /\ grace' \subseteq grace \cup {node.child}
  BY DEF StopNode
<1>5. intent' \in [wanted : BOOLEAN, tried : Nat] /\ intent'.tried = intent.tried
  BY <1>4 DEF SupInv, SupTypeOK
<1>6. SupTypeOK'
  BY <1>1, <1>3, <1>4, <1>5 DEF SupInv, SupTypeOK
<1>7. node'.generation \notin backoff' /\ \A g \in backoff' : g <= node'.generation
  BY <1>1, <1>3, <1>4 DEF SupInv, SupTypeOK, BackoffFits
<1>8. ChildHeld'
  BY <1>3, <1>4 DEF SupInv, ChildHeld
<1> QED
  BY <1>1, <1>3, <1>4, <1>5, <1>6, <1>7, <1>8 DEF SupInv, BackoffFits, BudgetPays, StopStays

\* The end of a process: a crash takes one restart from the budget for the one
\* it schedules, and nothing is scheduled when a stop was wanted.
LEMMA ExitStep == ASSUME SupInv, NEW p \in Daemons, ExitedNode(p) PROVE SupInv'
<1> DEFINE crashed == ~node.stopRequested /\ node.state \notin {"stopping", "stopped"}
           again == crashed /\ node.restarts < MaxAuto
           c == IF node.child = p THEN 0 ELSE node.child
           k == IF again THEN node.restarts + 1 ELSE node.restarts
<1> node \in Supervisors
  BY DEF SupInv, SupTypeOK
<1>1. node.state \in States /\ node.generation \in Nat /\ node.restarts \in Nat
      /\ node.child \in 0..MaxDaemons /\ node.stopRequested \in BOOLEAN
      /\ intent.tried \in Nat /\ intent.wanted \in BOOLEAN
  BY DEF SupInv, SupTypeOK, Supervisors
<1>2. daemon[p] = "ended" /\ node.child = p /\ node.state # "stopped"
  BY DEF ExitedNode, SupInv, ChildHeld
<1>3. NextState(node.state, "exited") = "stopped"
  BY <1>1, NextStateFacts
<1>4. node' = [node EXCEPT !.child = c, !.state = "stopped", !.restarts = k]
  BY <1>3 DEF ExitedNode
<1>a. c = 0 /\ c \in 0..MaxDaemons /\ k \in Nat /\ "stopped" \in States
  BY <1>1, <1>2, SupAssumption DEF States
<1> HIDE DEF c, k
<1>b. /\ node' \in Supervisors /\ node'.state = "stopped" /\ node'.child = c
      /\ node'.restarts = k /\ node'.generation = node.generation
  BY <1>4, <1>a DEF Supervisors
<1>5. /\ node' \in Supervisors /\ node'.child = 0 /\ node'.state = "stopped"
      /\ node'.restarts = IF again THEN node.restarts + 1 ELSE node.restarts
      /\ node'.generation = node.generation
  BY <1>a, <1>b DEF k
<1>6. /\ daemon' = [daemon EXCEPT ![p] = "gone"]
      /\ backoff' = IF again THEN backoff \cup {node.generation} ELSE backoff
      /\ UNCHANGED <<grace, beat, intent>>
  BY DEF ExitedNode
<1>7. SupTypeOK'
  BY <1>1, <1>5, <1>6 DEF SupInv, SupTypeOK
<1>8. ChildHeld'
  BY <1>2, <1>6 DEF SupInv, SupTypeOK, ChildHeld
<1>9. BackoffFits'
  BY <1>1, <1>5, <1>6 DEF SupInv, BackoffFits
<1>10. node.generation \notin backoff
  BY <1>2 DEF SupInv, BackoffFits
<1>11. BudgetPays'
  BY <1>1, <1>5, <1>6, <1>10, SupAssumption DEF SupInv, BudgetPays
<1>12. ~intent.wanted => ~again
  BY <1>2 DEF SupInv, StopStays
<1>13. StopStays'
  BY <1>5, <1>6, <1>12 DEF SupInv, StopStays
<1> QED
  BY <1>7, <1>8, <1>9, <1>11, <1>13 DEF SupInv
\* The timer of a back-off: only that of the present generation spawns, and
\* the restart it spawns is paid for.
LEMMA BackoffStep == ASSUME SupInv, NEW g \in backoff, FireBackoff(g) PROVE SupInv'
<1>1. node \in Supervisors /\ node.generation \in Nat /\ node.restarts \in Nat
      /\ intent.tried \in Nat /\ intent.wanted \in BOOLEAN /\ backoff \subseteq Nat
  BY DEF SupInv, SupTypeOK, Supervisors
<1>2. backoff' = backoff \ {g} /\ grace' = grace /\ beat' = beat
  BY DEF FireBackoff
<1>3. CASE node.generation = g /\ node.state = "stopped"
  <2>1. SpawnNode(node) /\ intent' = [intent EXCEPT !.tried = @ + 1]
    BY <1>3 DEF FireBackoff
  <2>2. /\ node' \in Supervisors
        /\ daemon' \in [Daemons -> {"unborn", "alive", "ended", "gone"}]
        /\ node'.state = "starting" /\ node'.restarts = node.restarts
        /\ node'.generation = g /\ ChildHeld'
    BY <1>1, <1>3, <2>1, SpawnFacts
  <2>3. /\ intent'.tried = intent.tried + 1 /\ intent'.wanted = intent.wanted
        /\ intent' \in [wanted : BOOLEAN, tried : Nat]
    BY <1>1, <2>1 DEF SupInv, SupTypeOK
  <2>4. intent.wanted
    BY <1>3 DEF SupInv, StopStays
  <2>5. SupTypeOK'
    BY <1>1, <1>2, <2>2, <2>3 DEF SupInv, SupTypeOK
  <2>6. BackoffFits' /\ StopStays'
    BY <1>2, <1>3, <2>2, <2>3, <2>4 DEF SupInv, BackoffFits, StopStays
  <2>7. BudgetPays'
    BY <1>1, <1>2, <1>3, <2>2, <2>3, SupAssumption DEF SupInv, BudgetPays
  <2> QED
    BY <2>2, <2>5, <2>6, <2>7 DEF SupInv
<1>4. CASE ~(node.generation = g /\ node.state = "stopped")
  <2>1. UNCHANGED <<node, daemon, intent>>
    BY <1>4 DEF FireBackoff
  <2> QED
    BY <1>2, <2>1 DEF SupInv, SupTypeOK, ChildHeld, BackoffFits, BudgetPays, StopStays
<1> QED
  BY <1>3, <1>4

\* tick: a healthy sample clears the budget and what it has to pay for.
LEMMA TickStep == ASSUME SupInv, TickNode PROVE SupInv'
<1> DEFINE healthy == beat # 0
           k == IF healthy THEN 0 ELSE node.restarts
           x == IF node.state = "starting"
                THEN IF healthy THEN NextState(node.state, "ready") ELSE node.state
                ELSE NextState(node.state, IF healthy THEN "healthy" ELSE "unhealthy")
           n == IF healthy THEN 0 ELSE intent.tried
<1>1. /\ node \in Supervisors /\ node.state \in States /\ node.restarts \in Nat
      /\ intent \in [wanted : BOOLEAN, tried : Nat] /\ intent.tried \in Nat
  BY DEF SupInv, SupTypeOK, Supervisors
<1>2. node.state \in {"starting", "running", "unhealthy"}
  BY <1>1 DEF TickNode, States
<1>3. x \in {"starting", "running", "unhealthy"}
  BY <1>2, NextStateFacts DEF States
<1>4. k \in Nat /\ n \in Nat /\ x \in States /\ x # "stopped"
  BY <1>1, <1>3 DEF States
<1>5. /\ node' = [node EXCEPT !.restarts = k, !.state = x]
      /\ intent' = [intent EXCEPT !.tried = n]
      /\ UNCHANGED <<daemon, backoff, grace, beat>>
  BY DEF TickNode
<1> HIDE DEF k, x, n
<1>6. /\ node' \in Supervisors /\ node'.state = x /\ node'.child = node.child
      /\ node'.restarts = k /\ node'.generation = node.generation
  BY <1>1, <1>4, <1>5 DEF Supervisors
<1>7. /\ intent' \in [wanted : BOOLEAN, tried : Nat] /\ intent'.tried = n
      /\ intent'.wanted = intent.wanted
  BY <1>1, <1>4, <1>5
<1>8. node.generation \notin backoff /\ intent.wanted
  BY <1>2 DEF SupInv, BackoffFits, StopStays
<1>9. SupTypeOK' /\ ChildHeld' /\ BackoffFits' /\ StopStays'
  BY <1>4, <1>5, <1>6, <1>7, <1>8
     DEF SupInv, SupTypeOK, ChildHeld, BackoffFits, StopStays
<1>10. BudgetPays'
  BY <1>1, <1>5, <1>6, <1>7, <1>8, SupAssumption DEF SupInv, BudgetPays, k, n
<1> QED
  BY <1>9, <1>10 DEF SupInv

LEMMA SupStep == ASSUME SupInv, [SupNext]_supVars PROVE SupInv'
<1>1. CASE StartNode
  BY <1>1, StartStep
<1>2. CASE StopNode
  BY <1>2, StopStep
<1>3. CASE BeatAges
  BY <1>3, SupAssumption
     DEF BeatAges, SupInv, SupTypeOK, ChildHeld, BackoffFits, BudgetPays, StopStays
<1>4. CASE TickNode
  BY <1>4, TickStep
<1>5. ASSUME NEW p \in Daemons, FireGrace(p)
      PROVE  SupInv'
  BY <1>5 DEF FireGrace, SupInv, SupTypeOK, ChildHeld, BackoffFits, BudgetPays, StopStays
<1>6. ASSUME NEW p \in Daemons, DaemonEnds(p)
      PROVE  SupInv'
  BY <1>6 DEF DaemonEnds, SupInv, SupTypeOK, ChildHeld, BackoffFits, BudgetPays, StopStays
<1>7. ASSUME NEW p \in Daemons, ExitedNode(p)
      PROVE  SupInv'
  BY <1>7, ExitStep
<1>8. ASSUME NEW p \in Daemons, Beats(p)
      PROVE  SupInv'
  <2>1. p \in 0..MaxDaemons
    BY SupAssumption DEF Daemons
  <2> QED
    BY <1>8, <2>1
       DEF Beats, SupInv, SupTypeOK, ChildHeld, BackoffFits, BudgetPays, StopStays
<1>9. ASSUME NEW g \in backoff, FireBackoff(g)
      PROVE  SupInv'
  BY <1>9, BackoffStep
<1>10. CASE UNCHANGED supVars
  BY <1>10 DEF supVars, SupInv, SupTypeOK, ChildHeld, BackoffFits, BudgetPays, StopStays
<1> QED
  BY <1>1, <1>2, <1>3, <1>4, <1>5, <1>6, <1>7, <1>8, <1>9, <1>10 DEF SupNext

-------------------------------------------------------------------------------
(* Theorems *)

\* The supervisor's fields and what it keeps of its processes have their types
\* (createNodeSupervisor).
THEOREM SupervisorTypeCorrect == SupSpec => []SupTypeOK
<1>1. SupInv => SupTypeOK
  BY DEF SupInv
<1> QED
  BY <1>1, SupInitInv, SupStep, PTL DEF SupSpec

\* One process, a stop that stays and bounded restarts (supervisor.ts), for any
\* policy and whatever the order of commands, crashes, timers and heartbeats.
THEOREM SupervisorCorrect == SupSpec => []SupervisorHolds
<1>1. SupInv => SupervisorHolds
  <2> SUFFICES ASSUME SupInv PROVE SupervisorHolds
    OBVIOUS
  <2>1. OneDaemon
    BY DEF SupInv, ChildHeld, OneDaemon
  <2>2. node.restarts \in Nat /\ intent.tried \in Nat
    BY DEF SupInv, SupTypeOK, Supervisors
  <2>3. RestartsBounded
    BY <2>2, SupAssumption DEF SupInv, BudgetPays, RestartsBounded
  <2> QED
    BY <2>1, <2>3 DEF SupInv, SupervisorHolds
<1> QED
  BY <1>1, SupInitInv, SupStep, PTL DEF SupSpec

-------------------------------------------------------------------------------
(* The launch and its journal: types *)

Results == {"completed", "failed", "cancelled"}
Roles == {"event", "original_retention", "original_terminal",
          "correction_retention", "correction_terminal"}
Phases == {"none", "admitted", "preparing", "launch_intent", "started", "closed"}
Marks == {"open", "failed", "accepted"}

Events == [role : Roles, committed : BOOLEAN, superseded : BOOLEAN,
           attempts : Seq(Marks), clock : Nat, due : BOOLEAN, exhausted : BOOLEAN]

Journals == [phase : Phases, owner : Nat, stop : BOOLEAN,
             receipt : {"none", "accepted", "fenced", "exit"},
             outcome : Results \cup {"none"}, abort : BOOLEAN, corrected : BOOLEAN,
             unclear : BOOLEAN, out : Seq(Events)]

-------------------------------------------------------------------------------
(* The journal *)

\* How many live events the outbox has; the settlement and its correction follow.
Live(k) == Len(k.out) - (IF k.outcome # "none" THEN 2 ELSE 0)
                      - (IF k.corrected THEN 2 ELSE 0)

RoleAt(n, i) ==
  CASE i <= n -> "event"
    [] i = n + 1 -> "original_retention"
    [] i = n + 2 -> "original_terminal"
    [] i = n + 3 -> "correction_retention"
    [] OTHER -> "correction_terminal"

\* An attempt is made when none is open; when all are used and none is open the
\* event is exhausted.
EventOK(e) ==
  /\ Len(e.attempts) <= MaxAttempts
  /\ \A n \in 1..(Len(e.attempts) - 1) : e.attempts[n] # "open"
  /\ ~e.committed /\ Len(e.attempts) = MaxAttempts /\ LastAttempt(e) # "open" => e.exhausted
  /\ ~e.committed => \A n \in DOMAIN e.attempts : e.attempts[n] # "accepted"
  /\ e.due \/ e.committed => e.attempts # <<>>

\* The launch row and its outbox go together.
RowOK(k) ==
  /\ k.phase # "closed" => k.receipt \in {"none", "accepted"}
  /\ k.phase = "closed" => k.receipt \in {"fenced", "exit"}
  /\ (k.receipt = "exit") <=> (k.outcome # "none")
  /\ k.phase = "none" \/ k.receipt = "fenced" => k.out = <<>>
  /\ k.corrected => k.outcome = "completed"
  /\ k.outcome = "completed" => ~k.abort

OutboxOK(k) ==
  /\ Live(k) \in 0..MaxLive
  /\ \A i \in DOMAIN k.out : EventOK(k.out[i]) /\ k.out[i].role = RoleAt(Live(k), i)
  /\ k.corrected => k.out[Live(k) + 1].superseded /\ k.out[Live(k) + 2].superseded
  /\ ~k.corrected => \A i \in DOMAIN k.out : ~k.out[i].superseded
  /\ k.outcome = "completed" /\ k.out[Live(k) + 2].attempts # <<>> =>
       k.out[Live(k) + 1].committed

JournalOK(k) == k \in Journals /\ RowOK(k) /\ OutboxOK(k)

-------------------------------------------------------------------------------
(* What a transaction of the outbox does to the journal *)

\* The row keeps its place; no event is lost, and an attempt neither.
Follows(k, m) ==
  /\ m.phase = k.phase /\ m.receipt = k.receipt /\ m.outcome = k.outcome
  /\ Len(m.out) >= Len(k.out)
  /\ \A i \in DOMAIN k.out :
       /\ m.out[i].role = k.out[i].role
       /\ k.out[i].committed => m.out[i].committed
       /\ k.out[i].attempts # <<>> => m.out[i].attempts # <<>>
       /\ Len(m.out[i].attempts) >= Len(k.out[i].attempts) \/ m.out[i].committed

\* Only the events in C become delivered.
Commits(k, m, C) ==
  \A i \in DOMAIN m.out :
    m.out[i].committed => i \in C \/ (i \in DOMAIN k.out /\ k.out[i].committed)

\* What the types of a journal say of its outbox and of the attempts in it.
LEMMA OutFacts ==
  ASSUME NEW k \in Journals
  PROVE  /\ Len(k.out) \in Nat /\ DOMAIN k.out = 1..Len(k.out)
         /\ \A i \in DOMAIN k.out : k.out[i] \in Events
         /\ \A i \in DOMAIN k.out : /\ Len(k.out[i].attempts) \in Nat
                                    /\ DOMAIN k.out[i].attempts = 1..Len(k.out[i].attempts)
                                    /\ \A n \in DOMAIN k.out[i].attempts :
                                         k.out[i].attempts[n] \in Marks
<1>1. k.out \in Seq(Events)
  BY DEF Journals
<1>2. Len(k.out) \in Nat /\ DOMAIN k.out = 1..Len(k.out)
  BY <1>1, LenProperties
<1>3. \A i \in DOMAIN k.out : k.out[i] \in Events
  BY <1>1, <1>2, ElementOfSeq
<1>4. ASSUME NEW e \in Events
      PROVE  /\ Len(e.attempts) \in Nat /\ DOMAIN e.attempts = 1..Len(e.attempts)
             /\ \A n \in DOMAIN e.attempts : e.attempts[n] \in Marks
  BY LenProperties, ElementOfSeq DEF Events
<1> QED
  BY <1>2, <1>3, <1>4

\* Where the events are.
LEMMA Positions ==
  ASSUME NEW k, JournalOK(k)
  PROVE  /\ Live(k) \in Nat /\ Len(k.out) \in Nat /\ DOMAIN k.out = 1..Len(k.out)
         /\ k.outcome = "none" => Len(k.out) = Live(k)
         /\ k.outcome # "none" /\ ~k.corrected => Len(k.out) = Live(k) + 2
         /\ k.corrected => k.outcome = "completed" /\ Len(k.out) = Live(k) + 4
         /\ \A i \in DOMAIN k.out :
              /\ (k.out[i].role = "event") <=> i <= Live(k)
              /\ (k.out[i].role = "original_retention") <=> i = Live(k) + 1
              /\ (k.out[i].role = "original_terminal") <=> i = Live(k) + 2
<1>1. /\ Len(k.out) \in Nat /\ DOMAIN k.out = 1..Len(k.out)
      /\ k.corrected \in BOOLEAN
      /\ k.corrected => k.outcome = "completed"
  BY OutFacts DEF JournalOK, RowOK, Journals
<1>2. /\ Live(k) \in Nat
      /\ \A i \in DOMAIN k.out : k.out[i].role = RoleAt(Live(k), i)
  BY ManagedAssumption DEF JournalOK, OutboxOK
<1>3. \A n \in Nat, i \in Nat :
        /\ (RoleAt(n, i) = "event") <=> i <= n
        /\ (RoleAt(n, i) = "original_retention") <=> i = n + 1
        /\ (RoleAt(n, i) = "original_terminal") <=> i = n + 2
  BY DEF RoleAt
<1>4. /\ k.outcome = "none" => Len(k.out) = Live(k)
      /\ k.outcome # "none" /\ ~k.corrected => Len(k.out) = Live(k) + 2
      /\ k.corrected => k.outcome = "completed" /\ Len(k.out) = Live(k) + 4
  <2> DEFINE n == Len(k.out)
  <2>1. /\ k.outcome = "none" /\ ~k.corrected => Live(k) = n - 0 - 0
        /\ k.outcome # "none" /\ ~k.corrected => Live(k) = n - 2 - 0
        /\ k.outcome # "none" /\ k.corrected => Live(k) = n - 2 - 2
    BY DEF Live
  <2>2. n \in Nat
    BY <1>1
  <2> HIDE DEF n
  <2>3. /\ k.outcome = "none" => n = Live(k)
        /\ k.outcome # "none" /\ ~k.corrected => n = Live(k) + 2
        /\ k.corrected => k.outcome = "completed" /\ n = Live(k) + 4
    BY <1>1, <1>2, <2>1, <2>2
  <2> QED
    BY <2>3 DEF n
<1>5. ASSUME NEW i \in DOMAIN k.out
      PROVE  /\ (k.out[i].role = "event") <=> i <= Live(k)
             /\ (k.out[i].role = "original_retention") <=> i = Live(k) + 1
             /\ (k.out[i].role = "original_terminal") <=> i = Live(k) + 2
  BY <1>1, <1>2, <1>3
<1> QED
  BY <1>1, <1>2, <1>4, <1>5

\* One event is replaced by a later state of it.
Put(k, i, e) == [k EXCEPT !.out[i] = e]

PutOK(k, i, e, m) ==
  /\ JournalOK(m) /\ Follows(k, m)
  /\ Commits(k, m, IF e.committed THEN {i} ELSE {})
  /\ DOMAIN m.out = DOMAIN k.out /\ m.out[i] = e
  /\ \A n \in DOMAIN k.out : n # i => m.out[n] = k.out[n]
  /\ m.corrected = k.corrected /\ m.abort = k.abort /\ m.stop = k.stop

\* An event put back later than it was leaves the journal in order.
LEMMA Revised ==
  ASSUME NEW k, JournalOK(k), NEW i \in DOMAIN k.out, NEW e \in Events, EventOK(e),
         e.role = k.out[i].role,
         e.superseded = k.out[i].superseded,
         k.out[i].committed => e.committed,
         k.out[i].attempts # <<>> => e.attempts # <<>>,
         Len(e.attempts) >= Len(k.out[i].attempts) \/ e.committed,
         e.role = "original_terminal" /\ k.outcome = "completed" /\ e.attempts # <<>> =>
           k.out[i].attempts # <<>> \/ RetentionAccepted(k),
         NEW m, m = Put(k, i, e)
  PROVE  PutOK(k, i, e, m)
<1>1. k \in Journals /\ k.out \in Seq(Events)
  BY DEF JournalOK, Journals
<1>2. /\ m.out \in Seq(Events) /\ Len(m.out) = Len(k.out)
      /\ \A n \in 1..Len(k.out) : m.out[n] = IF n = i THEN e ELSE k.out[n]
  BY <1>1, OutFacts, ExceptSeq DEF Journals, Put
<1>3. /\ DOMAIN m.out = 1..Len(k.out) /\ DOMAIN k.out = 1..Len(k.out) /\ Len(k.out) \in Nat
      /\ \A n \in DOMAIN k.out : k.out[n] \in Events
  BY <1>1, <1>2, OutFacts, LenProperties
<1>4. /\ m \in Journals
      /\ m.phase = k.phase /\ m.receipt = k.receipt /\ m.outcome = k.outcome
      /\ m.corrected = k.corrected /\ m.abort = k.abort /\ m.stop = k.stop
  BY <1>1, <1>2 DEF Journals, Put
<1>5. Live(m) = Live(k)
  BY <1>2, <1>4 DEF Live
<1>6. RowOK(m)
  BY <1>3, <1>4 DEF JournalOK, RowOK
<1>7. Follows(k, m) /\ Commits(k, m, IF e.committed THEN {i} ELSE {})
  <2>1. \A n \in DOMAIN k.out : Len(k.out[n].attempts) \in Nat
    BY <1>1, OutFacts
  <2> QED
    BY <1>2, <1>3, <1>4, <2>1 DEF Follows, Commits
<1>8. OutboxOK(m)
  <2>1. \A n \in DOMAIN m.out : EventOK(m.out[n]) /\ m.out[n].role = RoleAt(Live(k), n)
    BY <1>2, <1>3 DEF JournalOK, OutboxOK
  <2>2. k.outcome # "none" => Live(k) + 1 \in DOMAIN k.out /\ Live(k) + 2 \in DOMAIN k.out
    BY Positions DEF JournalOK, Journals
  <2>3. k.corrected => m.out[Live(k) + 1].superseded /\ m.out[Live(k) + 2].superseded
    BY <1>2, <1>3, <2>2 DEF JournalOK, RowOK, OutboxOK
  <2>4. ASSUME k.outcome = "completed", m.out[Live(k) + 2].attempts # <<>>
        PROVE  m.out[Live(k) + 1].committed
    <3>1. k.out[Live(k) + 2].attempts # <<>> \/ RetentionAccepted(k)
      BY <1>2, <1>3, <2>4, Positions, <2>2
    <3>2. RetentionAccepted(k) => k.out[Live(k) + 1].committed
      BY Positions DEF RetentionAccepted
    <3>3. k.out[Live(k) + 1].committed
      BY <2>4, <3>1, <3>2 DEF JournalOK, OutboxOK
    <3> QED
      BY <1>2, <1>3, <2>2, <2>4, <3>3
  <2>5. ~k.corrected => \A n \in DOMAIN m.out : ~m.out[n].superseded
    BY <1>2, <1>3 DEF JournalOK, OutboxOK
  <2> QED
    BY <1>4, <1>5, <2>1, <2>3, <2>4, <2>5 DEF OutboxOK, JournalOK
<1> QED
  BY <1>2, <1>3, <1>4, <1>6, <1>7, <1>8 DEF JournalOK, PutOK

\* Transactions compose.
LEMMA FollowsOn ==
  ASSUME NEW k \in Journals, NEW l \in Journals, NEW m \in Journals,
         Follows(k, l), Follows(l, m)
  PROVE  /\ Follows(k, m)
         /\ \A B, C : Commits(k, l, B) /\ Commits(l, m, C) => Commits(k, m, B \cup C)
<1>1. /\ DOMAIN k.out \subseteq DOMAIN l.out /\ Len(k.out) <= Len(l.out)
      /\ Len(l.out) <= Len(m.out)
  BY OutFacts DEF Follows
<1>2. \A i \in DOMAIN k.out :
        /\ Len(k.out[i].attempts) \in Nat /\ Len(l.out[i].attempts) \in Nat
        /\ Len(m.out[i].attempts) \in Nat
  BY <1>1, OutFacts DEF Follows
<1>3. Follows(k, m)
  <2>1. Len(m.out) >= Len(k.out)
    BY <1>1, OutFacts
  <2>2. ASSUME NEW i \in DOMAIN k.out
        PROVE  /\ m.out[i].role = k.out[i].role
               /\ k.out[i].committed => m.out[i].committed
               /\ k.out[i].attempts # <<>> => m.out[i].attempts # <<>>
               /\ Len(m.out[i].attempts) >= Len(k.out[i].attempts) \/ m.out[i].committed
    <3>1. i \in DOMAIN l.out
      BY <1>1
    <3>2. /\ l.out[i].role = k.out[i].role
          /\ k.out[i].committed => l.out[i].committed
          /\ k.out[i].attempts # <<>> => l.out[i].attempts # <<>>
          /\ Len(l.out[i].attempts) >= Len(k.out[i].attempts) \/ l.out[i].committed
      BY DEF Follows
    <3>3. /\ m.out[i].role = l.out[i].role
          /\ l.out[i].committed => m.out[i].committed
          /\ l.out[i].attempts # <<>> => m.out[i].attempts # <<>>
          /\ Len(m.out[i].attempts) >= Len(l.out[i].attempts) \/ m.out[i].committed
      BY <3>1 DEF Follows
    <3>4. /\ Len(k.out[i].attempts) \in Nat /\ Len(l.out[i].attempts) \in Nat
          /\ Len(m.out[i].attempts) \in Nat
      BY <1>2
    <3>5. Len(m.out[i].attempts) >= Len(k.out[i].attempts) \/ m.out[i].committed
      <4>1. CASE l.out[i].committed
        BY <3>3, <4>1
      <4>2. CASE m.out[i].committed
        BY <4>2
      <4>3. CASE /\ Len(m.out[i].attempts) >= Len(l.out[i].attempts)
                 /\ Len(l.out[i].attempts) >= Len(k.out[i].attempts)
        <5>1. \A x, y, z \in Nat : x >= y /\ y >= z => x >= z
          OBVIOUS
        <5> QED
          BY <3>4, <4>3, <5>1, Zenon
      <4> QED
        BY <3>2, <3>3, <4>1, <4>2, <4>3
    <3> QED
      BY <3>2, <3>3, <3>5
  <2>3. m.phase = k.phase /\ m.receipt = k.receipt /\ m.outcome = k.outcome
    BY DEF Follows
  <2> QED
    BY <2>1, <2>2, <2>3 DEF Follows
<1> QED
  BY <1>3 DEF Commits

\* Only flags of the row change.
LEMMA Flagged ==
  ASSUME NEW k, JournalOK(k), NEW m \in Journals, m.out = k.out,
         m.phase = k.phase, m.receipt = k.receipt, m.outcome = k.outcome,
         m.corrected = k.corrected, m.abort = k.abort \/ k.outcome # "completed"
  PROVE  JournalOK(m) /\ Follows(k, m) /\ Commits(k, m, {})
<1>1. JournalOK(m)
  BY DEF JournalOK, RowOK, OutboxOK, Live
<1>2. Len(k.out) \in Nat /\ \A i \in DOMAIN k.out : Len(k.out[i].attempts) \in Nat
  BY OutFacts DEF JournalOK
<1> QED
  BY <1>1, <1>2 DEF Follows, Commits

\* live_abort: while no completed outcome is decided, the latch is sound.
LEMMA AbortedFollows ==
  ASSUME NEW k, JournalOK(k), k.outcome # "completed"
  PROVE  /\ JournalOK(Aborted(k)) /\ Follows(k, Aborted(k)) /\ Commits(k, Aborted(k), {})
         /\ Aborted(k).out = k.out /\ Aborted(k).phase = k.phase /\ Aborted(k).abort
         /\ Aborted(k).corrected = k.corrected /\ Aborted(k).outcome = k.outcome
BY Flagged DEF Aborted, JournalOK, Journals

\* delivery_clock_unknown is a flag of the row.
LEMMA UnclearFollows ==
  ASSUME NEW k, JournalOK(k), NEW m, m = [k EXCEPT !.unclear = TRUE]
  PROVE  /\ JournalOK(m) /\ Follows(k, m) /\ Commits(k, m, {})
         /\ m.out = k.out /\ m.phase = k.phase /\ m.corrected = k.corrected
         /\ m.abort = k.abort /\ m.outcome = k.outcome
BY Flagged DEF JournalOK, Journals

\* An acceptance is written to an event that was claimed.
LEMMA CommitFollows ==
  ASSUME NEW k, JournalOK(k), NEW i \in DOMAIN k.out, k.out[i].attempts # <<>>
  PROVE  /\ JournalOK(Commit(k, i)) /\ Follows(k, Commit(k, i)) /\ Commits(k, Commit(k, i), {i})
         /\ DOMAIN Commit(k, i).out = DOMAIN k.out
         /\ Commit(k, i).out[i].committed /\ ~Commit(k, i).out[i].exhausted
         /\ Commit(k, i).out[i].attempts # <<>>
         /\ Commit(k, i).out[i].superseded = k.out[i].superseded
         /\ \A n \in DOMAIN k.out : n # i => Commit(k, i).out[n] = k.out[n]
         /\ Commit(k, i).corrected = k.corrected /\ Commit(k, i).abort = k.abort
<1> DEFINE e == [NewEvent(k.out[i].role) EXCEPT !.attempts = <<"accepted">>, !.committed = TRUE,
                                                !.superseded = k.out[i].superseded]
<1>1. k.out[i] \in Events
  BY OutFacts DEF JournalOK
<1>2. <<"accepted">> \in Seq(Marks) /\ Len(<<"accepted">>) = 1 /\ <<"accepted">> # <<>>
  BY DEF Marks
<1>3. /\ e \in Events /\ e.role = k.out[i].role /\ e.superseded = k.out[i].superseded
      /\ e.committed /\ e.attempts = <<"accepted">> /\ ~e.exhausted
  BY <1>1, <1>2 DEF NewEvent, Events
<1>4. EventOK(e)
  BY <1>2, <1>3, JournalAssumption DEF EventOK
<1>5. Commit(k, i) = Put(k, i, e)
  BY DEF Commit, Put
<1> HIDE DEF e
<1>6. /\ JournalOK(Commit(k, i)) /\ Follows(k, Commit(k, i))
      /\ Commits(k, Commit(k, i), IF e.committed THEN {i} ELSE {})
      /\ DOMAIN Commit(k, i).out = DOMAIN k.out /\ Commit(k, i).out[i] = e
      /\ \A n \in DOMAIN k.out : n # i => Commit(k, i).out[n] = k.out[n]
      /\ Commit(k, i).corrected = k.corrected /\ Commit(k, i).abort = k.abort
  <2>1. /\ e.superseded = k.out[i].superseded
        /\ k.out[i].committed => e.committed
        /\ k.out[i].attempts # <<>> => e.attempts # <<>>
        /\ Len(e.attempts) >= Len(k.out[i].attempts) \/ e.committed
        /\ e.role = "original_terminal" /\ k.outcome = "completed" /\ e.attempts # <<>> =>
             k.out[i].attempts # <<>> \/ RetentionAccepted(k)
    BY <1>2, <1>3
  <2>2. PutOK(k, i, e, Put(k, i, e))
    BY <1>3, <1>4, <2>1, Revised
  <2> QED
    BY <1>5, <2>2 DEF PutOK
<1> QED
  BY <1>2, <1>3, <1>6

\* One attempt fails and no other event changes.
FailOK(k, i, x, m) ==
  /\ JournalOK(m) /\ Follows(k, m) /\ Commits(k, m, {})
  /\ DOMAIN m.out = DOMAIN k.out
  /\ \A n \in DOMAIN k.out : n # i => m.out[n] = k.out[n]
  /\ m.out[i] = [k.out[i] EXCEPT !.attempts = m.out[i].attempts,
                                 !.exhausted = k.out[i].exhausted \/ x]
  /\ Len(m.out[i].attempts) = Len(k.out[i].attempts)
  /\ m.corrected = k.corrected /\ m.abort = k.abort

\* A failed attempt is written; when it was the last one the event must be
\* marked exhausted (failAttempt).
LEMMA FailedFollows ==
  ASSUME NEW k, JournalOK(k), NEW i \in DOMAIN k.out, ~k.out[i].committed,
         NEW a \in DOMAIN k.out[i].attempts, NEW x \in BOOLEAN,
         Spent(k.out[i], a) => x,
         NEW m, m = FailedAttempt(k, i, a, x)
  PROVE  FailOK(k, i, x, m)
<1> DEFINE s == k.out[i].attempts
           t == [s EXCEPT ![a] = IF s[a] = "open" THEN "failed" ELSE s[a]]
           e == [k.out[i] EXCEPT !.attempts = t, !.exhausted = k.out[i].exhausted \/ x]
<1>1. /\ k.out[i] \in Events /\ s \in Seq(Marks) /\ Len(s) \in Nat /\ DOMAIN s = 1..Len(s)
      /\ \A n \in DOMAIN s : s[n] \in Marks
  BY OutFacts DEF JournalOK, Events
<1>2. /\ t \in Seq(Marks) /\ Len(t) = Len(s)
      /\ \A n \in 1..Len(s) : t[n] = IF n = a THEN (IF s[a] = "open" THEN "failed" ELSE s[a])
                                     ELSE s[n]
  BY <1>1, ExceptSeq DEF Marks
<1> HIDE DEF t
<1>3. /\ e \in Events /\ e.role = k.out[i].role /\ e.superseded = k.out[i].superseded
      /\ e.committed = k.out[i].committed /\ e.attempts = t /\ e.due = k.out[i].due
      /\ e.exhausted = (k.out[i].exhausted \/ x)
  BY <1>1, <1>2 DEF Events
<1>4. EventOK(k.out[i])
  BY DEF JournalOK, OutboxOK
<1>5. DOMAIN t = 1..Len(s) /\ t # <<>> /\ s # <<>> /\ Len(s) > 0
  BY <1>1, <1>2, LenProperties
<1>6. EventOK(e)
  <2>1. Len(t) <= MaxAttempts /\ \A n \in 1..(Len(t) - 1) : t[n] # "open"
    BY <1>1, <1>2, <1>4 DEF EventOK
  <2>2. \A n \in DOMAIN t : t[n] # "accepted"
    BY <1>1, <1>2, <1>4, <1>5 DEF EventOK
  <2>3. ASSUME Len(t) = MaxAttempts, t[Len(t)] # "open" PROVE e.exhausted
    <3>1. CASE a = Len(s)
      BY <1>1, <1>2, <1>4, <2>3, <3>1, JournalAssumption, <1>3 DEF Spent, EventOK
    <3>2. CASE a # Len(s)
      <4>1. s[Len(s)] # "open"
        BY <1>1, <1>2, <1>5, <2>3, <3>2
      <4> QED
        BY <1>2, <1>3, <1>4, <1>5, <2>3, <4>1 DEF EventOK, LastAttempt
    <3> QED
      BY <3>1, <3>2
  <2> QED
    BY <1>3, <1>5, <2>1, <2>2, <2>3 DEF EventOK, LastAttempt
<1>7. m = Put(k, i, e)
  <2> DEFINE k1 == [k EXCEPT !.out[i].attempts[a] = IF @ = "open" THEN "failed" ELSE @]
  <2>1. m = [k1 EXCEPT !.out[i].exhausted = k1.out[i].exhausted \/ x]
    BY DEF FailedAttempt
  <2>2. k1 = [k EXCEPT !.out[i] = [k.out[i] EXCEPT !.attempts = t]]
    BY DEF t
  <2> HIDE DEF k1
  <2>3. /\ k1.out = [k.out EXCEPT ![i] = [k.out[i] EXCEPT !.attempts = t]]
        /\ k1.out[i] = [k.out[i] EXCEPT !.attempts = t]
    BY <2>2 DEF JournalOK, Journals
  <2>4. k1.out[i].exhausted = k.out[i].exhausted
    BY <1>1, <2>3 DEF Events
  <2>5. m = [k1 EXCEPT !.out = [k1.out EXCEPT ![i] = e]]
    BY <2>1, <2>3, <2>4
  <2>6. [k1.out EXCEPT ![i] = e] = [k.out EXCEPT ![i] = e]
    BY <2>3
  <2> QED
    BY <2>2, <2>5, <2>6 DEF Put
<1> HIDE DEF e, s
<1>8. /\ JournalOK(m) /\ Follows(k, m)
      /\ Commits(k, m, IF e.committed THEN {i} ELSE {})
      /\ DOMAIN m.out = DOMAIN k.out /\ m.out[i] = e
      /\ \A n \in DOMAIN k.out : n # i => m.out[n] = k.out[n]
      /\ m.corrected = k.corrected /\ m.abort = k.abort
  <2>1. Len(e.attempts) >= Len(k.out[i].attempts) /\ k.out[i].attempts # <<>>
    BY <1>1, <1>2, <1>3, <1>5 DEF s
  <2>2. /\ e.superseded = k.out[i].superseded
        /\ k.out[i].committed => e.committed
        /\ k.out[i].attempts # <<>> => e.attempts # <<>>
        /\ Len(e.attempts) >= Len(k.out[i].attempts) \/ e.committed
        /\ e.role = "original_terminal" /\ k.outcome = "completed" /\ e.attempts # <<>> =>
             k.out[i].attempts # <<>> \/ RetentionAccepted(k)
    BY <1>3, <1>5, <2>1
  <2>3. PutOK(k, i, e, Put(k, i, e))
    BY <1>3, <1>6, <2>2, Revised
  <2> QED
    BY <1>7, <2>3 DEF PutOK
<1>9. e = [k.out[i] EXCEPT !.attempts = t, !.exhausted = k.out[i].exhausted \/ x]
  BY DEF e
<1>10. m.out[i].attempts = t
  BY <1>3, <1>8
<1> QED
  BY <1>2, <1>3, <1>8, <1>9, <1>10 DEF s, FailOK

-------------------------------------------------------------------------------
(* Answers *)

\* The launch may still be told as it went: nothing failed it.
OnCourse(k) == ~k.abort /\ (k.phase = "closed" => SuccessPath(k))

\* On course events are told in order, each of them before its budget is used.
Steady(k) ==
  OnCourse(k) => \A i \in Active(k) : /\ ~k.out[i].exhausted
                                      /\ \A n \in DOMAIN k.out : i < n => k.out[n].attempts = <<>>

\* A launch that stays on course changes in event i only, in its attempt a or
\* its acceptance; a correction comes of an event not accepted.
Course(k, m, i, a) ==
  /\ OnCourse(m) =>
       /\ OnCourse(k) /\ DOMAIN m.out = DOMAIN k.out
       /\ \A n \in DOMAIN k.out : n # i => m.out[n] = k.out[n]
       /\ i \in DOMAIN k.out =>
            \/ m.out[i].committed \/ m.out[i] = k.out[i]
            \/ /\ ~k.out[i].committed /\ m.out[i].exhausted = k.out[i].exhausted
               /\ DOMAIN m.out[i].attempts = DOMAIN k.out[i].attempts
               /\ \A b \in DOMAIN k.out[i].attempts :
                    b # a => m.out[i].attempts[b] = k.out[i].attempts[b]
  /\ k.corrected => m.corrected
  /\ m.corrected = k.corrected =>
       \A n \in DOMAIN k.out : m.out[n].superseded = k.out[n].superseded
  /\ m.corrected /\ ~k.corrected =>
       SuccessPath(k) /\ (i \in DOMAIN k.out => ~k.out[i].committed)

Turn(k, m, i, a, C) ==
  JournalOK(m) /\ Follows(k, m) /\ Commits(k, m, C) /\ Course(k, m, i, a)

\* Two answers to the same attempt compose.
LEMMA CourseOn ==
  ASSUME NEW k \in Journals, NEW l \in Journals, NEW m \in Journals, NEW i, NEW a,
         Follows(k, l), Course(k, l, i, a), Course(l, m, i, a)
  PROVE  Course(k, m, i, a)
<1>1. DOMAIN k.out \subseteq DOMAIN l.out
  BY OutFacts DEF Follows
<1>2. k.corrected \in BOOLEAN /\ l.corrected \in BOOLEAN /\ m.corrected \in BOOLEAN
  BY DEF Journals
<1>3. ASSUME OnCourse(m)
      PROVE  /\ OnCourse(k) /\ DOMAIN m.out = DOMAIN k.out
             /\ \A n \in DOMAIN k.out : n # i => m.out[n] = k.out[n]
  BY <1>3 DEF Course
<1>4. ASSUME OnCourse(m), i \in DOMAIN k.out, ~m.out[i].committed, m.out[i] # k.out[i]
      PROVE  /\ ~k.out[i].committed /\ m.out[i].exhausted = k.out[i].exhausted
             /\ DOMAIN m.out[i].attempts = DOMAIN k.out[i].attempts
             /\ \A b \in DOMAIN k.out[i].attempts :
                  b # a => m.out[i].attempts[b] = k.out[i].attempts[b]
  BY <1>1, <1>4 DEF Course
<1>5. k.corrected => m.corrected
  BY DEF Course
<1>6. ASSUME m.corrected = k.corrected
      PROVE  \A n \in DOMAIN k.out : m.out[n].superseded = k.out[n].superseded
  BY <1>2, <1>6, <1>1 DEF Course
<1>7. ASSUME m.corrected, ~k.corrected
      PROVE  SuccessPath(k) /\ (i \in DOMAIN k.out => ~k.out[i].committed)
  BY <1>7, <1>1 DEF Course, Follows, SuccessPath
<1> QED
  BY <1>3, <1>4, <1>5, <1>6, <1>7 DEF Course

\* ... and so do the turns they make.
LEMMA TurnOn ==
  ASSUME NEW k, JournalOK(k), NEW l, NEW m, NEW i, NEW a, NEW B, NEW C,
         Turn(k, l, i, a, B), Turn(l, m, i, a, C)
  PROVE  Turn(k, m, i, a, B \cup C)
BY FollowsOn, CourseOn DEF Turn, JournalOK

\* A refused answer changes nothing.
LEMMA NoTurn ==
  ASSUME NEW k, JournalOK(k), NEW m, m = k, NEW i, NEW a, NEW C
  PROVE  Turn(k, m, i, a, C)
BY OutFacts DEF JournalOK, Turn, Follows, Commits, Course

\* The clock is found to be unknown.
LEMMA FlagTurn ==
  ASSUME NEW k, JournalOK(k), NEW i, NEW a,
         NEW m, m = [k EXCEPT !.unclear = TRUE]
  PROVE  Turn(k, m, i, a, {})
BY UnclearFollows DEF OnCourse, SuccessPath, Turn, Course

\* deliveryView only sets that flag.
LEMMA ViewedTurn ==
  ASSUME NEW k, JournalOK(k), NEW clock, NEW i, NEW a
  PROVE  Turn(k, Viewed(k, clock), i, a, {})
  BY FlagTurn, NoTurn DEF Viewed

\* The abort takes the launch off its course.
LEMMA AbortedTurn ==
  ASSUME NEW k, JournalOK(k), k.outcome # "completed", NEW i, NEW a
  PROVE  Turn(k, Aborted(k), i, a, {})
BY AbortedFollows DEF Turn, Course, OnCourse

\* An acceptance is within the course.
LEMMA CommitTurn ==
  ASSUME NEW k, JournalOK(k), NEW i \in DOMAIN k.out, k.out[i].attempts # <<>>, NEW a
  PROVE  Turn(k, Commit(k, i), i, a, {i})
<1>1. /\ JournalOK(Commit(k, i)) /\ Follows(k, Commit(k, i)) /\ Commits(k, Commit(k, i), {i})
      /\ DOMAIN Commit(k, i).out = DOMAIN k.out
      /\ Commit(k, i).out[i].committed
      /\ Commit(k, i).out[i].superseded = k.out[i].superseded
      /\ \A n \in DOMAIN k.out : n # i => Commit(k, i).out[n] = k.out[n]
      /\ Commit(k, i).corrected = k.corrected /\ Commit(k, i).abort = k.abort
  BY CommitFollows
<1>2. OnCourse(Commit(k, i)) => OnCourse(k)
  BY <1>1 DEF OnCourse, SuccessPath, Follows
<1>3. \A n \in DOMAIN k.out : Commit(k, i).out[n].superseded = k.out[n].superseded
  BY <1>1
<1> QED
  BY <1>1, <1>2, <1>3 DEF Turn, Course

\* An attempt fails; if that exhausts the event the launch is no longer on course.
LEMMA FailedTurn ==
  ASSUME NEW k, JournalOK(k), NEW i \in DOMAIN k.out, ~k.out[i].committed,
         NEW a \in DOMAIN k.out[i].attempts, NEW x \in BOOLEAN,
         Spent(k.out[i], a) => x,
         x => ~OnCourse(k)
  PROVE  Turn(k, FailedAttempt(k, i, a, x), i, a, {})
<1> DEFINE m == FailedAttempt(k, i, a, x)
<1>0. m = FailedAttempt(k, i, a, x)
  OBVIOUS
<1> HIDE DEF m
<1>1. k.out[i] \in Events
  BY OutFacts DEF JournalOK
<1>2. /\ JournalOK(m) /\ Follows(k, m) /\ Commits(k, m, {})
      /\ DOMAIN m.out = DOMAIN k.out
      /\ \A n \in DOMAIN k.out : n # i => m.out[n] = k.out[n]
      /\ m.out[i] = [k.out[i] EXCEPT !.attempts = m.out[i].attempts,
                                     !.exhausted = k.out[i].exhausted \/ x]
      /\ Len(m.out[i].attempts) = Len(k.out[i].attempts)
      /\ m.corrected = k.corrected /\ m.abort = k.abort
  <2>1. FailOK(k, i, x, m)
    BY <1>0, FailedFollows
  <2> QED
    BY <2>1 DEF FailOK
<1>3. /\ m.out[i].superseded = k.out[i].superseded
      /\ m.out[i].exhausted = (k.out[i].exhausted \/ x)
      /\ k.out[i].exhausted \in BOOLEAN
  BY <1>1, <1>2 DEF Events
<1>4. DOMAIN m.out[i].attempts = DOMAIN k.out[i].attempts
  BY <1>2, OutFacts DEF JournalOK
<1>5. \A b \in DOMAIN k.out[i].attempts :
        b # a => m.out[i].attempts[b] = k.out[i].attempts[b]
  <2> DEFINE k1 == [k EXCEPT !.out[i].attempts[a] = IF @ = "open" THEN "failed" ELSE @]
  <2>1. m.out[i].attempts = k1.out[i].attempts
    BY <1>0, <1>1 DEF FailedAttempt, JournalOK, Journals, Events
  <2>2. k1.out[i].attempts = [k.out[i].attempts EXCEPT ![a] = IF @ = "open" THEN "failed" ELSE @]
    BY <1>1 DEF JournalOK, Journals, Events
  <2> QED
    BY <2>1, <2>2
<1>6. OnCourse(m) => OnCourse(k)
  BY <1>2 DEF OnCourse, SuccessPath, Follows
<1>7. Course(k, m, i, a)
  BY <1>3, <1>6, <1>2, <1>4, <1>5 DEF Course
<1> QED
  BY <1>0, <1>2, <1>7 DEF Turn

\* An event as it is queued.
LEMMA NewEventOK ==
  ASSUME NEW r \in Roles
  PROVE  /\ NewEvent(r) \in Events /\ EventOK(NewEvent(r)) /\ NewEvent(r).role = r
         /\ NewEvent(r).attempts = <<>> /\ ~NewEvent(r).committed
         /\ ~NewEvent(r).superseded /\ ~NewEvent(r).exhausted
<1>1. <<>> \in Seq(Marks) /\ Len(<<>>) = 0
  BY EmptySeq
<1>2. /\ NewEvent(r) \in Events /\ NewEvent(r).role = r
      /\ NewEvent(r).attempts = <<>> /\ ~NewEvent(r).committed /\ ~NewEvent(r).due
      /\ ~NewEvent(r).superseded /\ ~NewEvent(r).exhausted
  BY <1>1 DEF NewEvent, Events
<1>3. EventOK(NewEvent(r))
  <2> DEFINE e == NewEvent(r)
  <2> HIDE DEF e
  <2>1. Len(e.attempts) = 0 /\ e.attempts = <<>> /\ ~e.committed /\ ~e.due
    BY <1>1, <1>2 DEF e
  <2>2. DOMAIN e.attempts = {} /\ 0 <= MaxAttempts /\ MaxAttempts # 0
    BY <2>1, JournalAssumption
  <2> QED
    BY <2>1, <2>2 DEF EventOK, e
<1> QED
  BY <1>2, <1>3

\* Two events are added at the end.
TwoMoreOK(s, r1, r2, u) ==
  /\ u \in Seq(Events) /\ Len(u) = Len(s) + 2 /\ DOMAIN u = 1..(Len(s) + 2)
  /\ \A i \in 1..Len(s) : u[i] = s[i]
  /\ u[Len(s) + 1] = NewEvent(r1) /\ u[Len(s) + 2] = NewEvent(r2)

\* A settlement, and a correction, queue two events.
LEMMA TwoMore ==
  ASSUME NEW s \in Seq(Events), NEW r1 \in Roles, NEW r2 \in Roles,
         NEW u, u = s \o <<NewEvent(r1), NewEvent(r2)>>
  PROVE  TwoMoreOK(s, r1, r2, u)
<1> DEFINE t == <<NewEvent(r1), NewEvent(r2)>>
<1>1. /\ t \in Seq(Events) /\ Len(t) = 2
      /\ t[1] = NewEvent(r1) /\ t[2] = NewEvent(r2)
  BY NewEventOK
<1>2. Len(s) \in Nat
  BY LenProperties
<1> HIDE DEF t
<1>3. /\ s \o t \in Seq(Events) /\ Len(s \o t) = Len(s) + Len(t)
      /\ \A i \in 1..(Len(s) + Len(t)) : (s \o t)[i] = IF i <= Len(s) THEN s[i] ELSE t[i - Len(s)]
  BY <1>1, ConcatProperties
<1>4. u = s \o t
  BY DEF t
<1>5. DOMAIN u = 1..Len(u)
  BY <1>3, <1>4, LenProperties
<1> QED
  BY <1>1, <1>2, <1>3, <1>4, <1>5 DEF TwoMoreOK

\* createCorrection: the outcome is replaced and its undelivered events are
\* superseded.
LEMMA CorrectedTurn ==
  ASSUME NEW k, JournalOK(k), SuccessPath(k), k.phase = "closed"
  PROVE  /\ JournalOK(Corrected(k)) /\ Follows(k, Corrected(k)) /\ Commits(k, Corrected(k), {})
         /\ Corrected(k).corrected /\ ~OnCourse(Corrected(k))
<1> DEFINE m == Corrected(k)
           s == [i \in DOMAIN k.out |->
                   IF i \in Active(k) \/ k.out[i].role \in Originals
                   THEN [k.out[i] EXCEPT !.superseded = TRUE] ELSE k.out[i]]
<1>1. /\ k \in Journals /\ k.out \in Seq(Events) /\ Len(k.out) \in Nat
      /\ DOMAIN k.out = 1..Len(k.out)
      /\ \A i \in DOMAIN k.out : k.out[i] \in Events
  BY OutFacts DEF JournalOK, Journals
<1>2. \A i \in DOMAIN k.out :
        /\ s[i] \in Events /\ s[i].role = k.out[i].role
        /\ s[i].attempts = k.out[i].attempts /\ s[i].committed = k.out[i].committed
        /\ s[i].exhausted = k.out[i].exhausted /\ s[i].due = k.out[i].due
        /\ k.out[i].role \in Originals => s[i].superseded
  BY <1>1 DEF Events
<1>3. s \in Seq(Events) /\ Len(s) = Len(k.out)
  <2>1. s \in [1..Len(k.out) -> Events]
    BY <1>1, <1>2
  <2>2. Seq(Events) = UNION {[1..n -> Events] : n \in Nat}
    BY SeqDef
  <2>3. s \in Seq(Events)
    BY <1>1, <2>1, <2>2
  <2>4. DOMAIN s = 1..Len(s) /\ Len(s) \in Nat
    BY <2>3, LenProperties
  <2> QED
    BY <1>1, <2>1, <2>3, <2>4
<1>4. /\ m.corrected /\ m.out = s \o <<NewEvent("correction_retention"), NewEvent("correction_terminal")>>
      /\ m.phase = k.phase /\ m.receipt = k.receipt /\ m.outcome = k.outcome
      /\ m.abort = k.abort
      /\ m = [k EXCEPT !.corrected = TRUE, !.out = m.out]
  BY <1>1 DEF Corrected, Journals
<1> HIDE DEF m, s
<1>5. /\ m.out \in Seq(Events) /\ Len(m.out) = Len(k.out) + 2
      /\ DOMAIN m.out = 1..(Len(k.out) + 2)
      /\ \A i \in DOMAIN k.out : m.out[i] = s[i]
      /\ m.out[Len(k.out) + 1] = NewEvent("correction_retention")
      /\ m.out[Len(k.out) + 2] = NewEvent("correction_terminal")
  <2>1. "correction_retention" \in Roles /\ "correction_terminal" \in Roles
    BY DEF Roles
  <2>2. TwoMoreOK(s, "correction_retention", "correction_terminal", m.out)
    BY <1>3, <1>4, <2>1, TwoMore
  <2> QED
    BY <1>1, <1>3, <2>2 DEF TwoMoreOK
<1>6. m \in Journals
  BY <1>1, <1>4, <1>5 DEF Journals
<1>7. k.outcome = "completed" /\ ~k.corrected /\ ~k.abort /\ k.receipt = "exit"
  BY DEF SuccessPath, JournalOK, RowOK
<1>8. RowOK(m)
  BY <1>4, <1>7 DEF JournalOK, RowOK
<1>9. Live(m) = Live(k) /\ Len(k.out) = Live(k) + 2 /\ Live(k) \in 0..MaxLive /\ Live(k) \in Nat
  BY <1>7, Positions, <1>4, <1>1, <1>5 DEF Live, JournalOK, OutboxOK
<1>10. \A i \in DOMAIN m.out : EventOK(m.out[i]) /\ m.out[i].role = RoleAt(Live(m), i)
  <2>1. ASSUME NEW i \in DOMAIN k.out
        PROVE  EventOK(m.out[i]) /\ m.out[i].role = RoleAt(Live(m), i)
    <3>1. EventOK(k.out[i]) /\ k.out[i].role = RoleAt(Live(k), i)
      BY DEF JournalOK, OutboxOK
    <3>2. EventOK(s[i])
      BY <1>2, <3>1 DEF EventOK, LastAttempt
    <3> QED
      BY <1>2, <1>5, <1>9, <3>1, <3>2
  <2>2. /\ EventOK(m.out[Live(k) + 3]) /\ m.out[Live(k) + 3].role = RoleAt(Live(m), Live(k) + 3)
        /\ EventOK(m.out[Live(k) + 4]) /\ m.out[Live(k) + 4].role = RoleAt(Live(m), Live(k) + 4)
    BY <1>9, <1>5, NewEventOK DEF Roles, RoleAt
  <2>3. DOMAIN m.out = DOMAIN k.out \cup {Live(k) + 3, Live(k) + 4}
    BY <1>1, <1>5, <1>9
  <2> QED
    BY <2>1, <2>2, <2>3
<1>11. Live(k) + 1 \in DOMAIN k.out /\ Live(k) + 2 \in DOMAIN k.out
  BY <1>1, <1>9
<1>12. OutboxOK(m)
  <2>1. /\ k.out[Live(k) + 1].role = "original_retention"
        /\ k.out[Live(k) + 2].role = "original_terminal"
    BY <1>11, Positions
  <2>2. m.out[Live(k) + 1].superseded /\ m.out[Live(k) + 2].superseded
    BY <1>2, <1>5, <1>11, <2>1 DEF Originals
  <2>3. m.out[Live(k) + 2].attempts # <<>> => m.out[Live(k) + 1].committed
    BY <1>2, <1>5, <1>7, <1>11 DEF JournalOK, OutboxOK
  <2> QED
    BY <1>4, <1>9, <1>10, <2>2, <2>3 DEF OutboxOK
<1>13. Follows(k, m)
  BY <1>1, <1>5, OutFacts, <1>2, <1>4 DEF Follows
<1>14. Commits(k, m, {})
  <2>1. ~m.out[Len(k.out) + 1].committed /\ ~m.out[Len(k.out) + 2].committed
    BY <1>5, NewEventOK DEF Roles
  <2>2. DOMAIN m.out = DOMAIN k.out \cup {Len(k.out) + 1, Len(k.out) + 2}
    BY <1>1, <1>5
  <2> QED
    BY <1>2, <1>5, <2>1, <2>2 DEF Commits
<1>15. ~OnCourse(m)
  BY <1>4 DEF OnCourse, SuccessPath
<1> QED
  BY <1>4, <1>6, <1>8, <1>12, <1>13, <1>14, <1>15 DEF JournalOK, m

\* An attempt that may still be answered.
AttemptKnown(k, i, a) ==
  /\ i \in DOMAIN k.out /\ k.out[i].attempts # <<>>
  /\ a \in DOMAIN k.out[i].attempts \/ k.out[i].committed

\* failAttempt after the settlement, correction included.
LEMMA FailTurn ==
  ASSUME NEW k, JournalOK(k), k.phase = "closed", NEW i, NEW a, AttemptKnown(k, i, a), NEW r
  PROVE  Turn(k, Fail(k, i, a, r), i, a, {})
<1> DEFINE e == k.out[i]
           x == \/ r = "rejected" /\ SuccessPath(k)
                \/ e.due \/ e.exhausted \/ Spent(e, a)
           f == FailedAttempt(k, i, a, x)
<1>1. i \in DOMAIN k.out /\ e \in Events
  BY OutFacts DEF JournalOK, AttemptKnown
<1>2. CASE e.committed \/ e.attempts[a] = "accepted"
  BY <1>2, NoTurn DEF Fail
<1>3. CASE ~e.committed /\ e.attempts[a] # "accepted"
  <2>1. a \in DOMAIN e.attempts
    BY <1>3 DEF AttemptKnown
  <2>2. x \in BOOLEAN /\ (Spent(e, a) => x)
    BY <1>1 DEF Events, Spent
  <2>3. Fail(k, i, a, r) = IF x /\ ~e.superseded /\ SuccessPath(k) THEN Corrected(f) ELSE f
    BY <1>3 DEF Fail
  <2>4. FailOK(k, i, x, f)
    <3> HIDE DEF x
    <3> QED
      BY <1>1, <1>3, <2>1, <2>2, FailedFollows
  <2>5. CASE x /\ ~e.superseded /\ SuccessPath(k)
    <3>1. /\ JournalOK(f) /\ Follows(k, f) /\ Commits(k, f, {})
          /\ SuccessPath(f) /\ f.phase = "closed"
      BY <2>4, <2>5 DEF FailOK, Follows, SuccessPath
    <3> HIDE DEF f, x, e
    <3>2. /\ JournalOK(Corrected(f)) /\ Follows(f, Corrected(f)) /\ Commits(f, Corrected(f), {})
          /\ Corrected(f).corrected /\ ~OnCourse(Corrected(f))
      BY <3>1, CorrectedTurn
    <3>3. Follows(k, Corrected(f)) /\ Commits(k, Corrected(f), {} \cup {})
      BY <3>1, <3>2, FollowsOn DEF JournalOK
    <3>4. Course(k, Corrected(f), i, a)
      BY <1>3, <2>5, <3>2 DEF Course, SuccessPath, e
    <3>5. Commits(k, Corrected(f), {})
      BY <3>3 DEF Commits
    <3> QED
      BY <2>3, <2>5, <3>2, <3>3, <3>4, <3>5 DEF Turn
  <2>6. CASE ~(x /\ ~e.superseded /\ SuccessPath(k))
    <3>1. e.superseded => k.corrected
      BY <1>1 DEF JournalOK, OutboxOK
    <3>2. x => ~OnCourse(k)
      BY <2>6, <3>1 DEF OnCourse, SuccessPath
    <3>3. Turn(k, f, i, a, {})
      <4> HIDE DEF x
      <4> QED
        BY <1>1, <1>3, <2>1, <2>2, <3>2, FailedTurn
    <3> QED
      BY <2>3, <2>6, <3>3
  <2> QED
    BY <2>5, <2>6
<1> QED
  BY <1>2, <1>3

\* An acceptance on top of whatever the answer found first.
LEMMA AcceptedTurn ==
  ASSUME NEW k, JournalOK(k), NEW i, NEW a, AttemptKnown(k, i, a),
         NEW l, Turn(k, l, i, a, {})
  PROVE  Turn(k, Commit(l, i), i, a, {i})
<1>1. /\ JournalOK(l) /\ i \in DOMAIN l.out /\ l.out[i].attempts # <<>>
  BY OutFacts DEF Turn, Follows, AttemptKnown, JournalOK
<1>2. Turn(l, Commit(l, i), i, a, {i})
  BY <1>1, CommitTurn
<1>3. Turn(k, Commit(l, i), i, a, {} \cup {i})
  BY <1>2, TurnOn
<1>4. {} \cup {i} = {i}
  OBVIOUS
<1> QED
  BY <1>3, <1>4

\* What an answer makes of the journal once the run is settled.
LEMMA ClosedAnswerTurn ==
  ASSUME NEW k, JournalOK(k), k.phase = "closed", NEW i, NEW a, AttemptKnown(k, i, a),
         NEW clock, NEW r
  PROVE  Turn(k, ClosedAnswer(k, clock, i, a, r), i, a, IF r = "accepted" THEN {i} ELSE {})
<1> DEFINE known(l) == l = Fail(k, i, a, "receipt_timeout") \/ l = Viewed(k, clock)
<1>1. \A l : known(l) => Turn(k, l, i, a, {})
  BY FailTurn, ViewedTurn
<1>2. CASE r = "accepted"
  <2>1. PICK l : known(l) /\ ClosedAnswer(k, clock, i, a, r) = Viewed(Commit(l, i), clock)
    BY <1>2 DEF ClosedAnswer
  <2>2. Turn(k, Commit(l, i), i, a, {i})
    BY <1>1, <2>1, AcceptedTurn
  <2>3. Turn(Commit(l, i), Viewed(Commit(l, i), clock), i, a, {})
    BY <2>2, ViewedTurn DEF Turn
  <2>4. Turn(k, Viewed(Commit(l, i), clock), i, a, {i} \cup {})
    BY <2>2, <2>3, TurnOn
  <2>5. {i} \cup {} = {i}
    OBVIOUS
  <2> QED
    BY <1>2, <2>1, <2>4, <2>5
<1>3. CASE r # "accepted"
  <2>1. PICK l : /\ l = Fail(k, i, a, r) \/ l = k
                 /\ ClosedAnswer(k, clock, i, a, r) = Viewed(l, clock)
    BY <1>3 DEF ClosedAnswer
  <2>2. Turn(k, l, i, a, {})
    BY <2>1, FailTurn, NoTurn
  <2>3. Turn(l, Viewed(l, clock), i, a, {})
    BY <2>2, ViewedTurn DEF Turn
  <2>4. Turn(k, Viewed(l, clock), i, a, {} \cup {})
    BY <2>2, <2>3, TurnOn
  <2>5. {} \cup {} = {}
    OBVIOUS
  <2> QED
    BY <1>3, <2>1, <2>4, <2>5
<1> QED
  BY <1>2, <1>3

\* Before the settlement the outcome is open.
LEMMA OpenOutcome ==
  ASSUME NEW k, JournalOK(k), k.phase # "closed"
  PROVE  k.outcome = "none" /\ ~k.corrected /\ ~SuccessPath(k)
  BY DEF JournalOK, RowOK, Journals, SuccessPath

\* The aborts of a live answer, with an unknown clock and without.
LEMMA LatchedTurn ==
  ASSUME NEW k, JournalOK(k), k.phase # "closed", NEW i, NEW a
  PROVE  /\ Turn(k, Aborted(k), i, a, {})
         /\ Turn(k, Aborted([k EXCEPT !.unclear = TRUE]), i, a, {})
<1>1. k.outcome # "completed"
  BY OpenOutcome
<1> DEFINE l == [k EXCEPT !.unclear = TRUE]
<1>2. JournalOK(l) /\ l.outcome # "completed" /\ Turn(k, l, i, a, {})
  BY <1>1, FlagTurn DEF Turn, Follows
<1> HIDE DEF l
<1>3. Turn(k, Aborted(k), i, a, {}) /\ Turn(l, Aborted(l), i, a, {})
  BY <1>1, <1>2, AbortedTurn
<1>4. Turn(k, Aborted(l), i, a, {} \cup {})
  BY <1>2, <1>3, TurnOn
<1>5. {} \cup {} = {}
  OBVIOUS
<1> QED
  BY <1>3, <1>4, <1>5 DEF l

\* An attempt fails and, when that exhausts its event, the abort is latched.
LEMMA LiveFailTurn ==
  ASSUME NEW k, JournalOK(k), k.phase # "closed", NEW i \in DOMAIN k.out, ~k.out[i].committed,
         NEW a \in DOMAIN k.out[i].attempts, NEW x \in BOOLEAN, Spent(k.out[i], a) => x
  PROVE  Turn(k, IF x THEN Aborted(FailedAttempt(k, i, a, x)) ELSE FailedAttempt(k, i, a, x),
              i, a, {})
<1> DEFINE f == FailedAttempt(k, i, a, x)
<1>1. CASE x
  <2>1. FailOK(k, i, x, f)
    BY FailedFollows
  <2> HIDE DEF f
  <2>2. /\ JournalOK(f) /\ f.phase # "closed" /\ f.outcome # "completed"
        /\ Follows(k, f) /\ Commits(k, f, {}) /\ f.corrected = k.corrected
        /\ \A n \in DOMAIN k.out : n # i => f.out[n] = k.out[n]
        /\ f.out[i] = [k.out[i] EXCEPT !.attempts = f.out[i].attempts,
                                       !.exhausted = k.out[i].exhausted \/ x]
    BY <2>1, OpenOutcome DEF FailOK, Follows
  <2>3. k.out[i] \in Events
    BY OutFacts DEF JournalOK
  <2>4. f.out[i].superseded = k.out[i].superseded
    BY <2>2, <2>3 DEF Events
  <2>5. /\ JournalOK(Aborted(f)) /\ Follows(f, Aborted(f)) /\ Commits(f, Aborted(f), {})
        /\ Aborted(f).out = f.out /\ Aborted(f).abort /\ Aborted(f).corrected = f.corrected
    BY <2>2, AbortedFollows
  <2>6. Follows(k, Aborted(f)) /\ Commits(k, Aborted(f), {} \cup {})
    BY <2>2, <2>5, FollowsOn DEF JournalOK
  <2>7. Commits(k, Aborted(f), {})
    BY <2>6 DEF Commits
  <2>8. Course(k, Aborted(f), i, a)
    BY <2>2, <2>4, <2>5 DEF Course, OnCourse
  <2> QED
    BY <1>1, <2>5, <2>6, <2>7, <2>8 DEF Turn, f
<1>2. CASE ~x
  BY <1>2, FailedTurn
<1> QED
  BY <1>1, <1>2

\* What an answer makes of the journal before the settlement.
LEMMA LiveAnswerTurn ==
  ASSUME NEW k, JournalOK(k), k.phase # "closed", NEW i, NEW a, AttemptKnown(k, i, a),
         NEW clock, NEW r
  PROVE  Turn(k, LiveAnswer(k, clock, i, a, r), i, a, IF r = "accepted" THEN {i} ELSE {})
<1> DEFINE e == k.out[i]
           late == Healthy(k, clock) /\ e.due
           latched == CASE ~Healthy(k, clock) -> Aborted([k EXCEPT !.unclear = TRUE])
                        [] late /\ ~e.committed -> Aborted(k)
                        [] OTHER -> k
           x == late \/ r = "rejected" \/ Spent(e, a)
<1>1. i \in DOMAIN k.out /\ e \in Events
  BY OutFacts DEF JournalOK, AttemptKnown
<1>2. Turn(k, latched, i, a, {}) /\ latched.out = k.out /\ JournalOK(latched)
      /\ latched.phase # "closed"
  <2>1. /\ Turn(k, Aborted([k EXCEPT !.unclear = TRUE]), i, a, {})
        /\ Turn(k, Aborted(k), i, a, {}) /\ Turn(k, k, i, a, {})
    BY LatchedTurn, NoTurn
  <2>2. /\ Aborted([k EXCEPT !.unclear = TRUE]).out = k.out
        /\ Aborted(k).out = k.out
    BY DEF Aborted, JournalOK, Journals
  <2>3. latched \in {Aborted([k EXCEPT !.unclear = TRUE]), Aborted(k), k}
    OBVIOUS
  <2> HIDE DEF latched
  <2>4. Turn(k, latched, i, a, {}) /\ latched.out = k.out
    BY <2>1, <2>2, <2>3
  <2> QED
    BY <2>4 DEF Turn, Follows
<1>3. LiveAnswer(k, clock, i, a, r) =
        IF r = "accepted" THEN Commit(latched, i)
        ELSE IF e.committed \/ e.attempts[a] = "accepted" THEN latched
        ELSE IF x THEN Aborted(FailedAttempt(latched, i, a, x)) ELSE FailedAttempt(latched, i, a, x)
  BY DEF LiveAnswer
<1> HIDE DEF latched
<1>4. CASE r = "accepted"
  BY <1>2, <1>3, <1>4, AcceptedTurn
<1>5. CASE r # "accepted" /\ (e.committed \/ e.attempts[a] = "accepted")
  BY <1>2, <1>3, <1>5
<1>6. CASE r # "accepted" /\ ~e.committed /\ e.attempts[a] # "accepted"
  <2> DEFINE y == IF x THEN Aborted(FailedAttempt(latched, i, a, x))
                  ELSE FailedAttempt(latched, i, a, x)
  <2>1. LiveAnswer(k, clock, i, a, r) = y
    BY <1>3, <1>6
  <2>2. a \in DOMAIN e.attempts
    BY <1>6 DEF AttemptKnown
  <2>3. x \in BOOLEAN /\ (Spent(e, a) => x)
    BY <1>1 DEF Events, Spent, Healthy
  <2>4. /\ i \in DOMAIN latched.out /\ latched.out[i] = e
        /\ JournalOK(latched) /\ latched.phase # "closed"
    BY <1>1, <1>2
  <2> HIDE DEF x, e
  <2>5. Turn(latched, y, i, a, {})
    BY <1>6, <2>2, <2>3, <2>4, LiveFailTurn
  <2> HIDE DEF y
  <2>6. Turn(k, y, i, a, {} \cup {})
    BY <1>2, <2>5, TurnOn
  <2>7. {} \cup {} = {}
    OBVIOUS
  <2> QED
    BY <1>6, <2>1, <2>6, <2>7
<1> QED
  BY <1>4, <1>5, <1>6

\* Answers keep the order of a launch on course.
LEMMA SteadyTurn ==
  ASSUME NEW k, JournalOK(k), Steady(k), NEW i, NEW a, AttemptKnown(k, i, a),
         NEW m, NEW C, Turn(k, m, i, a, C)
  PROVE  Steady(m)
<1> SUFFICES ASSUME OnCourse(m), NEW n \in Active(m)
             PROVE  /\ ~m.out[n].exhausted
                    /\ \A x \in DOMAIN m.out : n < x => m.out[x].attempts = <<>>
  BY DEF Steady
<1>1. /\ OnCourse(k) /\ DOMAIN m.out = DOMAIN k.out
      /\ \A x \in DOMAIN k.out : x # i => m.out[x] = k.out[x]
      /\ \/ m.out[i].committed \/ m.out[i] = k.out[i]
         \/ /\ ~k.out[i].committed /\ m.out[i].exhausted = k.out[i].exhausted
            /\ DOMAIN m.out[i].attempts = DOMAIN k.out[i].attempts
      /\ i \in DOMAIN k.out /\ k.out[i].attempts # <<>>
  BY DEF Turn, Course, AttemptKnown
<1>2. ~m.corrected /\ ~k.corrected
  BY DEF Turn, JournalOK, RowOK, OnCourse, SuccessPath, Course
<1>3. n \in Active(k)
  BY <1>2, <1>1 DEF Turn, JournalOK, Journals, Active, Course, Follows
<1>4. /\ ~k.out[n].exhausted
      /\ \A x \in DOMAIN k.out : n < x => k.out[x].attempts = <<>>
  BY <1>1, <1>3 DEF Steady
<1>5. ~(n < i)
  BY <1>1, <1>4
<1>6. ~m.out[n].exhausted
  BY <1>1, <1>3, <1>4 DEF Active
<1>7. ASSUME NEW x \in DOMAIN m.out, n < x PROVE m.out[x].attempts = <<>>
  BY <1>1, <1>4, <1>5, <1>7
<1> QED
  BY <1>6, <1>7

\* So does everything that leaves the outbox alone.
LEMMA SteadySame ==
  ASSUME NEW k, Steady(k), NEW m, m.out = k.out, OnCourse(m) => OnCourse(k)
  PROVE  Steady(m)
  BY DEF Steady, Active

\* Only the row changes.
LEMMA RowMoves ==
  ASSUME NEW k, JournalOK(k), NEW m \in Journals, m.out = k.out, RowOK(m),
         m.outcome = k.outcome, m.corrected = k.corrected
  PROVE  JournalOK(m)
BY DEF JournalOK, OutboxOK, Live

-------------------------------------------------------------------------------
(* What is claimed *)

\* A set of places has a first one.
LEMMA HasFirst ==
  ASSUME NEW S, S \subseteq Nat, S # {}
  PROVE  \E i \in S : \A n \in S : i <= n
<1> DEFINE R == {ss \in Nat \X Nat : ss[1] < ss[2]}
<1>1. IsWellFoundedOn(R, Nat)
  BY NatLessThanWellFounded DEF OpToRel
<1> HIDE DEF R
<1>2. PICK i \in S : \A n \in S : ~(<<n, i>> \in R)
  BY <1>1, WFMin
<1>3. \A n \in S : ~(n < i)
  BY <1>2 DEF R
<1> QED
  BY <1>3

\* FirstOf finds it.
LEMMA FirstIs ==
  ASSUME NEW S, S \subseteq Nat, S # {}
  PROVE  FirstOf(S) \in S /\ \A n \in S : FirstOf(S) <= n
  BY HasFirst DEF FirstOf

\* A live claim is for the first event that is still wanted.
LEMMA LiveTargetIs ==
  ASSUME NEW k, JournalOK(k), Active(k) # {}
  PROVE  LiveTarget(k) \in Active(k) /\ \A n \in Active(k) : LiveTarget(k) <= n
<1>1. Active(k) \subseteq Nat
  BY Positions DEF Active
<1> QED
  BY <1>1, FirstIs DEF LiveTarget

\* A claim after the settlement is for a claimable event, on the success path
\* for the first one.
LEMMA ClosedTargetIs ==
  ASSUME NEW k, JournalOK(k), Claimable(k) # {}
  PROVE  /\ ClosedTarget(k) \in Claimable(k)
         /\ SuccessPath(k) => \A n \in Claimable(k) : ClosedTarget(k) <= n
<1> DEFINE last(n) == IF ~SuccessPath(k) /\ LastAttempt(k.out[n]) = "failed" THEN 1 ELSE 0
           Q == {n \in Claimable(k) : last(n) = 0}
<1>1. Claimable(k) \subseteq Nat
  BY Positions DEF Active, Claimable
<1>2. \A i, n \in Claimable(k) :
        Before(k, i, n) <=> last(i) < last(n) \/ (last(i) = last(n) /\ i <= n)
  BY DEF Before
<1>3. \A n : last(n) \in {0, 1}
  OBVIOUS
<1>4. \E i \in Claimable(k) : \A n \in Claimable(k) : Before(k, i, n)
  <2> HIDE DEF last
  <2>1. CASE Q # {}
    <3>1. PICK i \in Q : \A n \in Q : i <= n
      BY <1>1, <2>1, HasFirst
    <3>2. \A n \in Claimable(k) : last(i) < last(n) \/ (last(i) = last(n) /\ i <= n)
      BY <1>3, <3>1
    <3> QED
      BY <1>2, <3>1, <3>2
  <2>2. CASE Q = {}
    <3>1. PICK i \in Claimable(k) : \A n \in Claimable(k) : i <= n
      BY <1>1, HasFirst
    <3>2. \A n \in Claimable(k) : last(n) = 1
      BY <1>3, <2>2
    <3> QED
      BY <1>2, <3>1, <3>2
  <2> QED
    BY <2>1, <2>2
<1>5. /\ ClosedTarget(k) \in Claimable(k)
      /\ \A n \in Claimable(k) : Before(k, ClosedTarget(k), n)
  BY <1>4 DEF ClosedTarget
<1>6. SuccessPath(k) => \A n : last(n) = 0
  OBVIOUS
<1> HIDE DEF last
<1> QED
  BY <1>2, <1>5, <1>6

\* One attempt is opened and no other event changes.
ClaimOK(k, i, m) ==
  /\ JournalOK(m) /\ Follows(k, m) /\ Commits(k, m, {})
  /\ DOMAIN m.out = DOMAIN k.out
  /\ \A n \in DOMAIN k.out : n # i => m.out[n] = k.out[n]
  /\ m.out[i].attempts = Append(k.out[i].attempts, "open")
  /\ ~m.out[i].committed /\ ~m.out[i].superseded
  /\ m.out[i].exhausted = k.out[i].exhausted
  /\ m.corrected = k.corrected /\ m.abort = k.abort

\* A claim opens one attempt of an event that has none open; the terminal event
\* of a completed run needs its retention accepted.
LEMMA ClaimFollows ==
  ASSUME NEW k, JournalOK(k), NEW i \in Active(k), NEW clock \in Nat,
         LastAttempt(k.out[i]) # "open", Len(k.out[i].attempts) < MaxAttempts,
         k.out[i].role = "original_terminal" /\ k.outcome = "completed" => RetentionAccepted(k),
         NEW m, m = ClaimEvent(k, i, clock)
  PROVE  ClaimOK(k, i, m)
<1> DEFINE s == k.out[i].attempts
           t == Append(s, "open")
           e == [k.out[i] EXCEPT !.attempts = t, !.clock = clock]
<1>1. /\ i \in DOMAIN k.out /\ ~k.out[i].committed /\ ~k.out[i].superseded
      /\ k.out[i] \in Events /\ s \in Seq(Marks) /\ Len(s) \in Nat /\ DOMAIN s = 1..Len(s)
  BY OutFacts DEF JournalOK, Events, Active
<1>2. /\ t \in Seq(Marks) /\ Len(t) = Len(s) + 1 /\ DOMAIN t = 1..(Len(s) + 1)
      /\ \A n \in 1..Len(s) : t[n] = s[n]
      /\ t[Len(s) + 1] = "open" /\ t # <<>>
  BY <1>1, AppendProperties, LenProperties DEF Marks
<1> HIDE DEF t
<1>3. /\ e \in Events /\ e.role = k.out[i].role /\ e.superseded = k.out[i].superseded
      /\ e.committed = k.out[i].committed /\ e.attempts = t /\ e.due = k.out[i].due
      /\ e.exhausted = k.out[i].exhausted
  BY <1>1, <1>2 DEF Events
<1>4. EventOK(e)
  <2>1. EventOK(k.out[i])
    BY <1>1 DEF JournalOK, OutboxOK
  <2>2. Len(t) <= MaxAttempts
    BY <1>1, <1>2, JournalAssumption
  <2>3. \A n \in 1..Len(s) : s[n] # "open"
    BY <1>1, <2>1 DEF LastAttempt, EventOK
  <2>4. \A n \in 1..(Len(t) - 1) : t[n] # "open"
    BY <1>1, <1>2, <2>3
  <2>5. LastAttempt(e) = "open"
    BY <1>2, <1>3 DEF LastAttempt
  <2>6. \A n \in DOMAIN t : t[n] # "accepted"
    BY <1>1, <2>1, <1>2 DEF EventOK
  <2> QED
    BY <1>2, <1>3, <2>2, <2>4, <2>5, <2>6 DEF EventOK
<1>5. m = Put(k, i, e)
  BY <1>1 DEF ClaimEvent, Put, JournalOK, Journals, Events, t
<1> HIDE DEF e
<1>6. PutOK(k, i, e, m)
  BY <1>1, <1>2, <1>3, <1>4, <1>5, Revised
<1> QED
  BY <1>1, <1>3, <1>6 DEF PutOK, ClaimOK, t

\* The opened attempt is the last one; the earlier ones are as they were.
LEMMA ClaimedAttempt ==
  ASSUME NEW k, JournalOK(k), NEW i \in DOMAIN k.out, NEW m, ClaimOK(k, i, m)
  PROVE  /\ Len(m.out[i].attempts) = Len(k.out[i].attempts) + 1
         /\ DOMAIN m.out[i].attempts = 1..(Len(k.out[i].attempts) + 1)
         /\ DOMAIN k.out[i].attempts = 1..Len(k.out[i].attempts)
         /\ Len(k.out[i].attempts) \in Nat
         /\ m.out[i].attempts[Len(m.out[i].attempts)] = "open"
         /\ \A b \in DOMAIN k.out[i].attempts : m.out[i].attempts[b] = k.out[i].attempts[b]
         /\ m.out[i].attempts # <<>>
<1> DEFINE s == k.out[i].attempts
           t == m.out[i].attempts
<1>1. s \in Seq(Marks) /\ Len(s) \in Nat /\ DOMAIN s = 1..Len(s)
  BY OutFacts DEF JournalOK, Events
<1>2. t = Append(s, "open")
  BY DEF ClaimOK
<1> HIDE DEF t, s
<1>3. /\ t \in Seq(Marks) /\ Len(t) = Len(s) + 1
      /\ \A n \in 1..Len(s) : t[n] = s[n]
      /\ t[Len(s) + 1] = "open"
  BY <1>1, <1>2, AppendProperties DEF Marks
<1>4. DOMAIN t = 1..Len(t) /\ t # <<>>
  BY <1>1, <1>3, LenProperties
<1> QED
  BY <1>1, <1>3, <1>4 DEF s, t

\* A claim of the first event wanted keeps the order of a launch on course.
LEMMA ClaimSteady ==
  ASSUME NEW k, JournalOK(k), Steady(k), NEW i \in Active(k), NEW m, ClaimOK(k, i, m),
         OnCourse(k) => \A n \in Active(k) : i <= n
  PROVE  Steady(m)
<1> SUFFICES ASSUME OnCourse(m), NEW n \in Active(m)
             PROVE  /\ ~m.out[n].exhausted
                    /\ \A x \in DOMAIN m.out : n < x => m.out[x].attempts = <<>>
  BY DEF Steady
<1>1. OnCourse(k)
  BY DEF OnCourse, SuccessPath, ClaimOK, Follows
<1>2. n \in Active(k) /\ DOMAIN m.out = DOMAIN k.out
  BY DEF Active, ClaimOK
<1>3. /\ i <= n /\ ~k.out[n].exhausted /\ i \in Nat /\ n \in Nat
      /\ \A x \in DOMAIN k.out : x \in Nat /\ (n < x => k.out[x].attempts = <<>>)
  BY <1>1, <1>2, Positions DEF Steady, Active
<1>4. ~m.out[n].exhausted
  BY <1>2, <1>3 DEF ClaimOK, Active
<1>5. ASSUME NEW x \in DOMAIN m.out, n < x PROVE m.out[x].attempts = <<>>
  BY <1>2, <1>3, <1>5 DEF ClaimOK
<1> QED
  BY <1>4, <1>5

\* The claim of executeLive.
LEMMA LiveClaimIs ==
  ASSUME NEW k, JournalOK(k), Steady(k), k.phase # "closed", NEW clock \in Nat,
         LiveClaimable(k, clock), NEW m, m = ClaimEvent(k, LiveTarget(k), clock)
  PROVE  LiveTarget(k) \in Active(k) /\ ClaimOK(k, LiveTarget(k), m) /\ Steady(m)
<1> DEFINE i == LiveTarget(k)
<1>1. i \in Active(k) /\ \A n \in Active(k) : i <= n
  BY LiveTargetIs DEF LiveClaimable
<1>2. LastAttempt(k.out[i]) # "open" /\ Len(k.out[i].attempts) < MaxAttempts
  BY DEF LiveClaimable
<1>3. k.outcome = "none"
  BY OpenOutcome
<1> HIDE DEF i
<1>4. m = ClaimEvent(k, i, clock)
  BY DEF i
<1>5. ClaimOK(k, i, m)
  BY <1>1, <1>2, <1>3, <1>4, ClaimFollows
<1>6. Steady(m)
  BY <1>1, <1>5, ClaimSteady
<1> QED
  BY <1>1, <1>5, <1>6 DEF i

\* The claim of executeDelivery.
LEMMA ClosedClaimIs ==
  ASSUME NEW k, JournalOK(k), Steady(k), k.phase = "closed", NEW clock \in Nat,
         ClosedClaimable(k), NEW m, m = ClaimEvent(k, ClosedTarget(k), clock)
  PROVE  ClosedTarget(k) \in Active(k) /\ ClaimOK(k, ClosedTarget(k), m) /\ Steady(m)
<1> DEFINE i == ClosedTarget(k)
           e == k.out[i]
<1>1. /\ i \in Claimable(k) /\ (SuccessPath(k) => \A n \in Claimable(k) : i <= n)
  BY ClosedTargetIs DEF ClosedClaimable
<1>2. /\ i \in DOMAIN k.out /\ ~e.committed /\ ~e.superseded /\ ~e.exhausted /\ i \in Active(k)
  BY <1>1 DEF Claimable, Active
<1>3. LastAttempt(e) # "open" /\ (e.role = "original_terminal" /\ SuccessPath(k) => RetentionAccepted(k))
  BY DEF ClosedClaimable
<1>4. Len(e.attempts) < MaxAttempts
  <2>1. EventOK(e)
    BY <1>2 DEF JournalOK, OutboxOK
  <2>2. Len(e.attempts) <= MaxAttempts /\ Len(e.attempts) # MaxAttempts
    BY <1>2, <1>3, <2>1 DEF EventOK
  <2>3. Len(e.attempts) \in Nat /\ MaxAttempts \in Nat
    BY <1>2, OutFacts, JournalAssumption DEF JournalOK
  <2> HIDE DEF e
  <2> QED
    BY <2>2, <2>3
<1>5. e.role = "original_terminal" /\ k.outcome = "completed" => RetentionAccepted(k)
  BY <1>2, Positions, <1>3 DEF JournalOK, OutboxOK, SuccessPath
<1>6. ClaimOK(k, i, m)
  <2>1. m = ClaimEvent(k, i, clock)
    OBVIOUS
  <2> HIDE DEF i
  <2> QED
    BY <1>2, <1>3, <1>4, <1>5, <2>1, ClaimFollows
<1>7. OnCourse(k) => \A n \in Active(k) : i <= n
  BY <1>1 DEF OnCourse, Steady, Claimable
<1> HIDE DEF i, e
<1>8. Steady(m)
  BY <1>2, <1>6, <1>7, ClaimSteady
<1> QED
  BY <1>2, <1>6, <1>8 DEF i

-------------------------------------------------------------------------------
(* Windows that passed *)

\* Windows are closed: the launch is off its course, or nothing was overdue.
ExpiredOK(k, m) ==
  /\ JournalOK(m) /\ Follows(k, m) /\ Commits(k, m, {})
  /\ (OnCourse(m) => m = k) /\ (k.corrected => m.corrected)

\* Closing the windows that passed takes the launch off its course, or finds none.
LEMMA ExpiredFollows ==
  ASSUME NEW k, JournalOK(k), k.phase = "closed"
  PROVE  ExpiredOK(k, Expired(k))
<1> DEFINE s == [i \in DOMAIN k.out |->
                   IF i \in Overdue(k)
                   THEN [k.out[i] EXCEPT !.exhausted = TRUE,
                           !.attempts = [n \in DOMAIN @ |-> IF @[n] = "open" THEN "failed" ELSE @[n]]]
                   ELSE k.out[i]]
           m == [k EXCEPT !.out = s]
<1>1. /\ k \in Journals /\ k.out \in Seq(Events) /\ Len(k.out) \in Nat
      /\ DOMAIN k.out = 1..Len(k.out)
      /\ \A i \in DOMAIN k.out : k.out[i] \in Events /\ EventOK(k.out[i])
  BY OutFacts DEF JournalOK, OutboxOK, Journals
<1>2. CASE Overdue(k) = {}
  BY <1>2, NoTurn DEF Expired, ExpiredOK, Turn
<1>3. CASE Overdue(k) # {} /\ SuccessPath(k)
  <2> DEFINE i == FirstOf(Overdue(k))
             a == Len(k.out[i].attempts)
             f == Fail(k, i, a, "receipt_timeout")
  <2>1. Expired(k) = f
    BY <1>3 DEF Expired
  <2>2. /\ i \in DOMAIN k.out /\ k.out[i].due /\ ~k.out[i].committed
        /\ ~k.out[i].superseded
    <3>1. Overdue(k) \subseteq Nat
      BY <1>1 DEF Overdue, Active
    <3>2. i \in Overdue(k)
      BY <1>3, <3>1, FirstIs
    <3> QED
      BY <3>2 DEF Overdue, Active
  <2>3. AttemptKnown(k, i, a) /\ a \in DOMAIN k.out[i].attempts
    BY <1>1, <2>2, LenProperties, EmptySeq DEF Events, EventOK, AttemptKnown
  <2>4. k.out[i].attempts[a] # "accepted"
    BY <1>1, <2>2, <2>3 DEF EventOK
  <2>5. f = Corrected(FailedAttempt(k, i, a, TRUE))
    BY <1>3, <2>2, <2>4 DEF Fail
  <2>6. FailOK(k, i, TRUE, FailedAttempt(k, i, a, TRUE))
    <3> HIDE DEF i, a
    <3> QED
      BY <2>2, <2>3, FailedFollows
  <2> DEFINE g == FailedAttempt(k, i, a, TRUE)
  <2>7. JournalOK(g) /\ SuccessPath(g) /\ g.phase = "closed"
    BY <1>3, <2>6 DEF FailOK, Follows, SuccessPath
  <2>8. Turn(k, f, i, a, {})
    <3> HIDE DEF i, a
    <3> QED
      BY <2>3, FailTurn
  <2>9. ~OnCourse(Corrected(g))
    <3> HIDE DEF g
    <3> QED
      BY <2>7, CorrectedTurn
  <2> HIDE DEF f, i, a
  <2> QED
    BY <2>1, <2>5, <2>8, <2>9 DEF Turn, Course, ExpiredOK
<1>4. CASE Overdue(k) # {} /\ ~SuccessPath(k)
  <2>1. Expired(k) = m
    BY <1>4 DEF Expired
  <2>2. ASSUME NEW i \in DOMAIN k.out
        PROVE  /\ s[i] \in Events /\ EventOK(s[i]) /\ s[i].role = k.out[i].role
               /\ s[i].committed = k.out[i].committed /\ s[i].superseded = k.out[i].superseded
               /\ Len(s[i].attempts) = Len(k.out[i].attempts)
               /\ k.out[i].attempts # <<>> => s[i].attempts # <<>>
    <3> DEFINE t == k.out[i].attempts
               u == [n \in DOMAIN t |-> IF t[n] = "open" THEN "failed" ELSE t[n]]
               e == [k.out[i] EXCEPT !.exhausted = TRUE, !.attempts = u]
    <3>1. /\ t \in Seq(Marks) /\ Len(t) \in Nat /\ DOMAIN t = 1..Len(t)
          /\ \A n \in DOMAIN t : t[n] \in Marks
      BY OutFacts DEF JournalOK, Events
    <3>2. u \in Seq(Marks) /\ Len(u) = Len(t) /\ DOMAIN u = 1..Len(t)
      <4>1. u \in [1..Len(t) -> Marks]
        BY <3>1 DEF Marks
      <4>2. Seq(Marks) = UNION {[1..n -> Marks] : n \in Nat}
        BY SeqDef
      <4>3. u \in Seq(Marks)
        BY <3>1, <4>1, <4>2
      <4>4. DOMAIN u = 1..Len(u) /\ Len(u) \in Nat
        BY <4>3, LenProperties
      <4> QED
        BY <3>1, <4>1, <4>3, <4>4
    <3>3. \A n \in DOMAIN t : u[n] = IF t[n] = "open" THEN "failed" ELSE t[n]
      OBVIOUS
    <3> HIDE DEF u
    <3>4. /\ e \in Events /\ e.role = k.out[i].role /\ e.superseded = k.out[i].superseded
          /\ e.committed = k.out[i].committed /\ e.attempts = u /\ e.due = k.out[i].due
          /\ e.exhausted
      BY <1>1, <3>2 DEF Events
    <3>5. t # <<>> => u # <<>>
      BY <3>1, <3>2, LenProperties, EmptySeq
    <3>6. CASE i \in Overdue(k)
      <4>1. s[i] = e
        BY <3>6 DEF u
      <4>2. EventOK(k.out[i]) /\ ~k.out[i].committed
        BY <1>1, <3>6 DEF Overdue, Active
      <4>3. \A n \in 1..Len(t) : u[n] # "open" /\ u[n] # "accepted"
        BY <3>1, <4>2, <3>3 DEF EventOK
      <4>4. \A n \in 1..(Len(t) - 1) : n \in 1..Len(t)
        BY <3>1
      <4>5. EventOK(e)
        BY <3>2, <3>4, <3>5, <4>2, <4>3, <4>4 DEF EventOK
      <4> QED
        BY <3>2, <3>4, <3>5, <4>1, <4>5
    <3>7. CASE i \notin Overdue(k)
      BY <1>1, <3>7
    <3> QED
      BY <3>6, <3>7
  <2>3. s \in Seq(Events) /\ Len(s) = Len(k.out) /\ DOMAIN s = DOMAIN k.out
    <3>1. DOMAIN s = DOMAIN k.out
      OBVIOUS
    <3> HIDE DEF s
    <3>2. s \in [1..Len(k.out) -> Events]
      BY <1>1, <2>2, <3>1 DEF s
    <3>3. Seq(Events) = UNION {[1..n -> Events] : n \in Nat}
      BY SeqDef
    <3>4. s \in Seq(Events)
      BY <1>1, <3>2, <3>3
    <3>5. DOMAIN s = 1..Len(s) /\ Len(s) \in Nat
      BY <3>4, LenProperties
    <3> QED
      BY <1>1, <3>1, <3>4, <3>5
  <2>4. /\ m.out = s /\ m.phase = k.phase /\ m.receipt = k.receipt /\ m.outcome = k.outcome
        /\ m.corrected = k.corrected /\ m.abort = k.abort
        /\ m \in Journals
    <3> HIDE DEF s
    <3> QED
      BY <1>1, <2>3 DEF Journals
  <2> HIDE DEF m, s
  <2>5. RowOK(m)
    BY <1>4, <2>4 DEF Overdue, Active, JournalOK, RowOK
  <2>6. Live(m) = Live(k)
    BY <2>3, <2>4 DEF Live
  <2>7. OutboxOK(m)
    <3>1. \A i \in DOMAIN m.out : EventOK(m.out[i]) /\ m.out[i].role = RoleAt(Live(m), i)
      BY <2>2, <2>3, <2>4, <2>6 DEF JournalOK, OutboxOK
    <3>2. k.outcome # "none" => Live(k) + 1 \in DOMAIN k.out /\ Live(k) + 2 \in DOMAIN k.out
      BY Positions DEF JournalOK, Journals
    <3>3. m.corrected => m.out[Live(m) + 1].superseded /\ m.out[Live(m) + 2].superseded
      BY <2>2, <2>4, <2>6, <3>2 DEF JournalOK, RowOK, OutboxOK
    <3>4. ~m.corrected => \A i \in DOMAIN m.out : ~m.out[i].superseded
      BY <2>2, <2>3, <2>4 DEF JournalOK, OutboxOK
    <3>5. m.outcome = "completed" /\ m.out[Live(m) + 2].attempts # <<>> =>
            m.out[Live(m) + 1].committed
      <4> SUFFICES ASSUME m.outcome = "completed", m.out[Live(m) + 2].attempts # <<>>
                   PROVE  m.out[Live(m) + 1].committed
        OBVIOUS
      <4>1. Live(k) + 1 \in DOMAIN k.out /\ Live(k) + 2 \in DOMAIN k.out
        BY <2>4, <3>2
      <4>2. Len(m.out[Live(k) + 2].attempts) = Len(k.out[Live(k) + 2].attempts)
        BY <2>2, <2>4, <4>1
      <4>3. k.out[Live(k) + 2].attempts # <<>>
        <5>1. s[Live(k) + 2].attempts \in Seq(Marks) /\ k.out[Live(k) + 2].attempts \in Seq(Marks)
          BY <1>1, <2>2, <4>1 DEF Events
        <5> QED
          BY <2>4, <2>6, <4>2, <5>1, EmptySeq, LenProperties
      <4>4. k.out[Live(k) + 1].committed
        BY <2>4, <4>3 DEF JournalOK, OutboxOK
      <4> QED
        BY <2>2, <2>4, <2>6, <4>1, <4>4
    <3>6. Live(m) \in 0..MaxLive
      BY <2>6 DEF JournalOK, OutboxOK
    <3> QED
      BY <3>1, <3>3, <3>4, <3>5, <3>6 DEF OutboxOK
  <2>8. Follows(k, m) /\ Commits(k, m, {})
    BY OutFacts, <1>1, <2>2, <2>3, <2>4 DEF JournalOK, Follows, Commits
  <2>9. ~OnCourse(m)
    BY <1>4, <2>4 DEF OnCourse, SuccessPath
  <2> QED
    BY <2>1, <2>4, <2>5, <2>7, <2>8, <2>9 DEF ExpiredOK, JournalOK
<1> QED
  BY <1>2, <1>3, <1>4

-------------------------------------------------------------------------------
(* What is added to the outbox *)

\* The launch row moves and the outbox keeps what it has.
Extends(k, m) ==
  /\ Len(m.out) >= Len(k.out)
  /\ \A i \in DOMAIN k.out : m.out[i] = k.out[i]
  /\ \A i \in DOMAIN m.out : i \in DOMAIN k.out \/ ~m.out[i].committed

\* One more live event.
LEMMA AppendedExtends ==
  ASSUME NEW k, JournalOK(k), k.phase \notin {"none", "closed"}, Steady(k),
         Cardinality({i \in DOMAIN k.out : k.out[i].role = "event"}) < MaxLive
  PROVE  /\ JournalOK(Appended(k)) /\ Steady(Appended(k)) /\ Extends(k, Appended(k))
         /\ Appended(k).phase = k.phase /\ Appended(k).receipt = k.receipt
         /\ Appended(k).outcome = k.outcome
         /\ Appended(k).abort = k.abort /\ Appended(k).corrected = k.corrected
<1> DEFINE m == Appended(k)
           e == NewEvent("event")
           n == Len(k.out)
<1>1. /\ k \in Journals /\ k.out \in Seq(Events) /\ n \in Nat /\ DOMAIN k.out = 1..n
      /\ k.outcome = "none" /\ ~k.corrected /\ Live(k) = n
  BY OutFacts, OpenOutcome, Positions DEF JournalOK, Journals
<1>2. /\ e \in Events /\ EventOK(e) /\ e.role = "event" /\ e.attempts = <<>> /\ ~e.committed
      /\ ~e.superseded /\ ~e.exhausted
  BY NewEventOK DEF Roles
<1>3. n < MaxLive
  <2>1. {i \in DOMAIN k.out : k.out[i].role = "event"} = 1..n
    BY <1>1, Positions
  <2>2. Cardinality(1..n) = n
    <3>1. 1 \in Int /\ n \in Int
      BY <1>1
    <3>2. Cardinality(1..n) = IF 1 > n THEN 0 ELSE n - 1 + 1
      BY <3>1, FS_Interval
    <3> HIDE DEF n
    <3> QED
      BY <1>1, <3>2
  <2> QED
    BY <2>1, <2>2
<1>4. m = [k EXCEPT !.out = Append(k.out, e)]
  BY DEF Appended
<1> HIDE DEF e, n, m
<1>5. /\ m.out \in Seq(Events) /\ Len(m.out) = n + 1 /\ DOMAIN m.out = 1..(n + 1)
      /\ \A i \in 1..n : m.out[i] = k.out[i]
      /\ m.out[n + 1] = e
  BY <1>1, <1>4, <1>2, AppendProperties, LenProperties DEF Journals, n
<1>6. /\ m \in Journals /\ m.phase = k.phase /\ m.receipt = k.receipt /\ m.outcome = k.outcome
      /\ m.abort = k.abort /\ m.corrected = k.corrected
  BY <1>1, <1>4, <1>5 DEF Journals
<1>7. Live(m) = n + 1 /\ n + 1 \in 0..MaxLive
  BY <1>1, <1>6, ManagedAssumption, <1>3, <1>5 DEF Live
<1>8. \A i \in DOMAIN m.out : EventOK(m.out[i]) /\ m.out[i].role = RoleAt(Live(m), i)
  <2>1. ASSUME NEW i \in 1..n PROVE EventOK(m.out[i]) /\ m.out[i].role = RoleAt(Live(m), i)
    <3>1. EventOK(k.out[i]) /\ k.out[i].role = RoleAt(n, i)
      BY <1>1 DEF JournalOK, OutboxOK
    <3>2. RoleAt(n, i) = "event" /\ RoleAt(n + 1, i) = "event"
      BY <1>1 DEF RoleAt
    <3> QED
      BY <1>5, <1>7, <3>1, <3>2
  <2>2. RoleAt(n + 1, n + 1) = "event"
    BY <1>1 DEF RoleAt
  <2>3. \A i \in 1..(n + 1) : i \in 1..n \/ i = n + 1
    BY <1>1
  <2> QED
    BY <1>2, <1>5, <1>7, <2>1, <2>2, <2>3
<1>9. JournalOK(m)
  BY <1>6, <1>1, <1>2, <1>5, <1>7, <1>8 DEF JournalOK, RowOK, OutboxOK
<1>10. Extends(k, m)
  BY <1>1, <1>5, <1>2 DEF n, Extends
<1>11. Steady(m)
  <2> SUFFICES ASSUME OnCourse(m), NEW i \in Active(m)
               PROVE  /\ ~m.out[i].exhausted
                      /\ \A x \in DOMAIN m.out : i < x => m.out[x].attempts = <<>>
    BY DEF Steady
  <2>1. OnCourse(k)
    BY <1>6 DEF OnCourse
  <2>2. \A x \in DOMAIN m.out : (x \in 1..n /\ m.out[x] = k.out[x]) \/ (x = n + 1 /\ m.out[x] = e)
    BY <1>1, <1>5
  <2>3. i \in DOMAIN m.out /\ ~m.out[i].committed /\ ~m.out[i].superseded
    BY DEF Active
  <2>4. CASE i \in 1..n /\ m.out[i] = k.out[i]
    BY <1>1, <2>3, <2>4, <2>1, <1>2, <2>2 DEF Active, Steady
  <2>5. CASE i = n + 1 /\ m.out[i] = e
    BY <1>1, <1>2, <1>5, <2>5
  <2> QED
    BY <2>2, <2>3, <2>4, <2>5
<1> QED
  BY <1>6, <1>9, <1>10, <1>11 DEF m

\* producer_closed: two more events and the outcome.
LEMMA ClosedExtends ==
  ASSUME NEW k, JournalOK(k), Steady(k), NEW proof, NEW o \in Results, CanClose(k, proof, o)
  PROVE  /\ JournalOK(Closed(k, o)) /\ Steady(Closed(k, o)) /\ Extends(k, Closed(k, o))
         /\ Closed(k, o).phase = "closed" /\ Closed(k, o).receipt = "exit"
         /\ Closed(k, o).outcome = o
         /\ Closed(k, o).abort = k.abort /\ Closed(k, o).corrected = k.corrected
         /\ k.outcome = "none" /\ ~k.corrected /\ (OnCourse(Closed(k, o)) => OnCourse(k))
         /\ k.phase \in {"started", "launch_intent"}
<1> DEFINE m == Closed(k, o)
           u == k.out \o <<NewEvent("original_retention"), NewEvent("original_terminal")>>
           n == Len(k.out)
<1>1. k.phase \in {"started", "launch_intent"} /\ ~(k.abort /\ o = "completed")
  BY DEF CanClose
<1>2. /\ k \in Journals /\ k.out \in Seq(Events) /\ n \in Nat /\ DOMAIN k.out = 1..n
      /\ k.outcome = "none" /\ ~k.corrected /\ Live(k) = n
  BY <1>1, OutFacts, OpenOutcome, Positions DEF JournalOK, Journals
<1>3. /\ u \in Seq(Events) /\ Len(u) = n + 2 /\ DOMAIN u = 1..(n + 2)
      /\ \A i \in 1..n : u[i] = k.out[i]
      /\ u[n + 1] = NewEvent("original_retention") /\ u[n + 2] = NewEvent("original_terminal")
  <2>1. "original_retention" \in Roles /\ "original_terminal" \in Roles
    BY DEF Roles
  <2>2. TwoMoreOK(k.out, "original_retention", "original_terminal", u)
    BY <1>2, <2>1, TwoMore
  <2> QED
    BY <2>2 DEF TwoMoreOK
<1>4. m = [k EXCEPT !.phase = "closed", !.stop = TRUE, !.receipt = "exit", !.outcome = o, !.out = u]
  BY DEF Closed
<1> HIDE DEF u, n, m
<1>5. /\ m \in Journals /\ m.out = u /\ m.phase = "closed" /\ m.receipt = "exit" /\ m.outcome = o
      /\ m.abort = k.abort /\ m.corrected = k.corrected
  BY <1>2, <1>3, <1>4 DEF Journals, Phases
<1>6. o # "none"
  BY DEF Results
<1>7. Live(m) = n /\ n \in 0..MaxLive
  BY <1>2, <1>5, <1>6, <1>3 DEF Live, JournalOK, OutboxOK
<1>8. /\ EventOK(u[n + 1]) /\ EventOK(u[n + 2])
      /\ u[n + 1].role = "original_retention" /\ u[n + 2].role = "original_terminal"
      /\ u[n + 1].attempts = <<>> /\ u[n + 2].attempts = <<>>
      /\ ~u[n + 1].committed /\ ~u[n + 2].committed
      /\ ~u[n + 1].superseded /\ ~u[n + 2].superseded
      /\ ~u[n + 1].exhausted /\ ~u[n + 2].exhausted
  BY <1>3, NewEventOK DEF Roles
<1>9. \A i \in 1..(n + 2) : i \in 1..n \/ i = n + 1 \/ i = n + 2
  BY <1>2
<1>10. JournalOK(m)
  <2>1. RowOK(m)
    BY <1>1, <1>2, <1>5, <1>6 DEF RowOK
  <2>2. ASSUME NEW i \in 1..(n + 2)
        PROVE  EventOK(u[i]) /\ u[i].role = RoleAt(n, i) /\ ~u[i].superseded
    BY <1>2, <1>3, <1>8, <1>9 DEF RoleAt, JournalOK, OutboxOK
  <2>3. OutboxOK(m)
    BY <1>2, <1>3, <1>5, <1>7, <1>8, <2>2 DEF OutboxOK
  <2> QED
    BY <1>5, <2>1, <2>3 DEF JournalOK
<1>11. Extends(k, m)
  BY <1>2, <1>3, <1>5, <1>8, <1>9 DEF n, Extends
<1>12. OnCourse(m) => OnCourse(k)
  BY <1>1, <1>5 DEF OnCourse
<1>13. Steady(m)
  <2> SUFFICES ASSUME OnCourse(m), NEW i \in Active(m)
               PROVE  /\ ~m.out[i].exhausted
                      /\ \A x \in DOMAIN m.out : i < x => m.out[x].attempts = <<>>
    BY DEF Steady
  <2>1. i \in 1..(n + 2) /\ ~u[i].committed /\ ~u[i].superseded
    BY <1>3, <1>5 DEF Active
  <2>2. CASE i \in 1..n
    BY <1>2, <1>3, <2>1, <2>2, <1>12, <1>5, <1>8, <1>9 DEF Active, Steady
  <2>3. CASE i \in {n + 1, n + 2}
    BY <1>2, <1>3, <1>5, <1>8, <1>9, <2>3
  <2> QED
    BY <1>9, <2>1, <2>2, <2>3
<1> QED
  BY <1>1, <1>2, <1>5, <1>10, <1>11, <1>12, <1>13 DEF m

-------------------------------------------------------------------------------
(* The daemon, the process and the network *)

HandStates == {"none", "claimed", "exposed", "retry"}
Hands == [i : Nat, a : Nat, st : HandStates]
Steps == {"idle", "admitted", "preparing", "launch_intent", "looked", "handle",
          "startup_error", "streaming", "failing", "stopping", "aborting",
          "settling", "closed", "parked", "done", "refused", "lost"}

Memories == [up : BOOLEAN, inc : Nat, clock : Nat, usable : BOOLEAN, sess : BOOLEAN,
            fatal : BOOLEAN, step : Steps,
            ctl : BOOLEAN, cancelled : BOOLEAN, ustop : BOOLEAN, stopReq : BOOLEAN,
            failure : BOOLEAN, term : Results \cup {"none"}, sending : BOOLEAN,
            hand : Hands, interrupted : Hands, obs : SUBSET (Nat \X Nat)]

TypesFit ==
  /\ d \in Memories /\ boot \in Nat
  /\ wire \subseteq Nat \X BOOLEAN
  /\ acks \subseteq Nat \X {"accepted", "rejected"}
  /\ srv \subseteq Nat

\* What the launch row says while a start is at each of its steps.
StepFits ==
  /\ d.step \in {"admitted", "preparing"} => j.phase = d.step
  /\ d.step \in {"launch_intent", "looked", "handle", "startup_error"} =>
       j.phase = "launch_intent"
  /\ d.step \in {"streaming", "stopping"} => j.phase = "started"
  /\ d.step \in {"failing", "aborting", "settling"} => j.phase \in {"launch_intent", "started"}
  /\ d.step \in {"closed", "parked", "done"} => j.receipt = "exit"
  /\ d.step \in {"launch_intent", "looked"} => launches = 0
  /\ d.step \in {"handle", "startup_error", "failing", "aborting", "settling"} => launches = 1
  /\ d.step \in {"startup_error", "settling"} => child = "exited"
  /\ d.step \in {"stopping", "aborting", "settling"} => d.term \in Results

\* The journal has the intent before there is a process, and its end after.
ProcessFits ==
  /\ launches \in {0, 1} /\ child \in {"none", "running", "exited"}
  /\ (child = "none") <=> (launches = 0)
  /\ launches = 1 => j.phase \in {"launch_intent", "started", "closed"} /\ j.receipt # "fenced"
  /\ j.phase = "started" => launches = 1
  /\ j.receipt = "exit" => launches = 1 /\ child = "exited"

\* A claim is taken out of the hands of a live delivery only when the run fails.
InterruptedFits ==
  d.interrupted # NoHand =>
    /\ d.step \in {"failing", "aborting", "settling", "closed", "parked", "lost"}
    /\ d.step \in {"aborting", "settling"} => d.term # "completed"
    /\ j.outcome # "completed"

\* Every answer that may still come is about an attempt the journal has.
HandsFit ==
  /\ \A h \in {d.hand, d.interrupted} :
       h = NoHand \/ (h.st # "none" /\ AttemptKnown(j, h.i, h.a))
  /\ \A o \in d.obs : AttemptKnown(j, o[1], o[2])

\* A claim not yet exposed is for an event still wanted; on course nobody
\* waits for the receipt of an attempt that ended, or for that of the claim.
ClaimFits ==
  /\ d.hand.st = "claimed" =>
       LET e == j.out[d.hand.i]
       IN /\ ~e.superseded
          /\ OnCourse(j) => /\ ~e.committed /\ d.hand.a = Len(e.attempts)
                            /\ e.attempts[d.hand.a] = "open"
                            /\ <<d.hand.i, d.hand.a>> \notin d.obs
  /\ OnCourse(j) =>
       \A o \in d.obs : j.out[o[1]].committed \/ j.out[o[1]].attempts[o[2]] = "open"

NetworkFits ==
  /\ \A i \in srv \cup {f[1] : f \in wire} : i \in DOMAIN j.out /\ j.out[i].attempts # <<>>
  /\ \A r \in acks : r[2] = "accepted" => r[1] \in srv
  /\ \A i \in DOMAIN j.out : j.out[i].committed => i \in srv

LaunchFits == StepFits /\ ProcessFits /\ InterruptedFits
DeliveryFits == HandsFit /\ ClaimFits /\ NetworkFits

ManagedInv == JournalOK(j) /\ Steady(j) /\ TypesFit /\ LaunchFits /\ DeliveryFits

-------------------------------------------------------------------------------
(* The delivery side *)

\* Nothing happens to the attempts.
Alike(k, m) ==
  /\ Len(m.out) >= Len(k.out)
  /\ \A i \in DOMAIN k.out :
       /\ m.out[i].role = k.out[i].role
       /\ m.out[i].committed = k.out[i].committed /\ m.out[i].superseded = k.out[i].superseded
       /\ m.out[i].attempts = k.out[i].attempts
  /\ \A i \in DOMAIN m.out : i \in DOMAIN k.out \/ ~m.out[i].committed

\* New events leave the attempts of the others alone.
LEMMA ExtendsAlike ==
  ASSUME NEW k, NEW m, Extends(k, m)
  PROVE  Alike(k, m)
  BY DEF Extends, Alike

\* So does a transaction on the row.
LEMMA SameAlike ==
  ASSUME NEW k, JournalOK(k), NEW m, m.out = k.out
  PROVE  Alike(k, m)
BY Positions DEF Alike

\* No event is lost.
LEMMA DomainGrows ==
  ASSUME NEW k, JournalOK(k), NEW m, JournalOK(m), Len(m.out) >= Len(k.out)
  PROVE  DOMAIN k.out \subseteq DOMAIN m.out
BY Positions

\* An attempt that may be answered stays one when none changes ...
LEMMA KnownAlike ==
  ASSUME NEW k, JournalOK(k), NEW m, JournalOK(m), Alike(k, m),
         NEW i, NEW a, AttemptKnown(k, i, a)
  PROVE  AttemptKnown(m, i, a)
  BY DomainGrows DEF Alike, AttemptKnown

\* ... and when transactions change some.
LEMMA KnownFollows ==
  ASSUME NEW k, JournalOK(k), NEW m, JournalOK(m), Follows(k, m),
         NEW i, NEW a, AttemptKnown(k, i, a)
  PROVE  AttemptKnown(m, i, a)
<1>1. i \in DOMAIN k.out /\ i \in DOMAIN m.out
  BY DomainGrows DEF Follows, AttemptKnown
<1>2. /\ Len(k.out[i].attempts) \in Nat /\ DOMAIN k.out[i].attempts = 1..Len(k.out[i].attempts)
      /\ Len(m.out[i].attempts) \in Nat /\ DOMAIN m.out[i].attempts = 1..Len(m.out[i].attempts)
  BY <1>1, OutFacts DEF JournalOK
<1>3. m.out[i].attempts # <<>>
  BY <1>1 DEF Follows, AttemptKnown
<1>4. a \in DOMAIN m.out[i].attempts \/ m.out[i].committed
  BY <1>1, <1>2 DEF Follows, AttemptKnown
<1> QED
  BY <1>1, <1>3, <1>4 DEF AttemptKnown

\* On course nothing is superseded, and a settled success is on course.
LEMMA OnCourseFacts ==
  ASSUME NEW k, JournalOK(k)
  PROVE  /\ OnCourse(k) => ~k.corrected /\ \A i \in DOMAIN k.out : ~k.out[i].superseded
         /\ SuccessPath(k) => OnCourse(k)
BY DEF JournalOK, RowOK, OnCourse, SuccessPath, OutboxOK

\* The empty hand is at no event.
LEMMA NoHandFacts == NoHand.i = 0 /\ NoHand.a = 0 /\ NoHand.st = "none"
  BY DEF NoHand

\* The daemon takes up nothing, and may drop what it has.
Rests ==
  /\ d'.hand \in {d.hand, NoHand} /\ d'.interrupted \in {d.interrupted, d.hand, NoHand}
  /\ d'.obs \subseteq d.obs
  /\ {f[1] : f \in wire'} \subseteq {f[1] : f \in wire} /\ acks' \subseteq acks /\ srv' = srv

\* Who takes up nothing owes nothing new.
LEMMA DeliveryRests ==
  ASSUME JournalOK(j), JournalOK(j'), DeliveryFits, Alike(j, j'), OnCourse(j') => OnCourse(j),
         Rests
  PROVE  DeliveryFits'
<1>1. DOMAIN j.out \subseteq DOMAIN j'.out
  BY DomainGrows DEF Alike
<1>2. HandsFit'
  BY KnownAlike DEF DeliveryFits, HandsFit, Rests
<1>3. ClaimFits'
  <2>1. ASSUME d'.hand.st = "claimed"
        PROVE  /\ d'.hand = d.hand /\ d.hand.i \in DOMAIN j.out
    BY <2>1, NoHandFacts DEF Rests, DeliveryFits, HandsFit, AttemptKnown
  <2>2. ASSUME d'.hand.st = "claimed"
        PROVE  LET e == j'.out[d'.hand.i]
               IN /\ ~e.superseded
                  /\ OnCourse(j') => /\ ~e.committed /\ d'.hand.a = Len(e.attempts)
                                     /\ e.attempts[d'.hand.a] = "open"
                                     /\ <<d'.hand.i, d'.hand.a>> \notin d'.obs
    BY <2>1, <2>2 DEF Rests, DeliveryFits, ClaimFits, Alike
  <2>3. ASSUME OnCourse(j'), NEW o \in d'.obs
        PROVE  j'.out[o[1]].committed \/ j'.out[o[1]].attempts[o[2]] = "open"
    BY <2>3 DEF Rests, DeliveryFits, HandsFit, AttemptKnown, ClaimFits, Alike
  <2> QED
    BY <2>2, <2>3 DEF ClaimFits
<1>4. NetworkFits'
  BY <1>1 DEF Rests, DeliveryFits, NetworkFits, Alike
<1> QED
  BY <1>2, <1>3, <1>4 DEF DeliveryFits

\* An answer is written down.
Answers(i, a, C) ==
  /\ Turn(j, j', i, a, C) /\ AttemptKnown(j, i, a) /\ C \subseteq srv
  /\ d'.hand \in {d.hand, NoHand, [d.hand EXCEPT !.st = "retry"]}
  /\ d'.interrupted \in {d.interrupted, NoHand} /\ d'.obs \subseteq d.obs
  /\ wire' = wire /\ acks' \subseteq acks /\ srv' = srv
  /\ d'.hand.st = "claimed" /\ OnCourse(j) => <<i, a>> \in d.obs
  /\ OnCourse(j') /\ <<i, a>> \in d'.obs => j'.out[i].committed \/ j'.out = j.out

\* An answer frees the hand, or has it retry.
LEMMA DeliveryAnswered ==
  ASSUME ManagedInv, NEW i, NEW a, NEW C, Answers(i, a, C),
         d.hand.st # "none" \/ d'.hand \in {d.hand, NoHand}
  PROVE  DeliveryFits'
<1>0. JournalOK(j) /\ Steady(j) /\ DeliveryFits /\ JournalOK(j') /\ d.hand \in Hands
  BY DEF ManagedInv, Answers, Turn, TypesFit, Memories
<1>1. Follows(j, j') /\ Commits(j, j', C) /\ Course(j, j', i, a)
  BY DEF Answers, Turn
<1>2. DOMAIN j.out \subseteq DOMAIN j'.out
  BY <1>0, <1>1, DomainGrows DEF Follows
<1>3. HandsFit'
  <2>1. \A x, y : AttemptKnown(j, x, y) => AttemptKnown(j', x, y)
    BY <1>0, <1>1, KnownFollows
  <2>2. \A h \in {d.hand, d.interrupted} : h = NoHand \/ (h.st # "none" /\ AttemptKnown(j, h.i, h.a))
    BY <1>0 DEF DeliveryFits, HandsFit
  <2>3. \A o \in d.obs : AttemptKnown(j, o[1], o[2])
    BY <1>0 DEF DeliveryFits, HandsFit
  <2>4. LET h == [d.hand EXCEPT !.st = "retry"] IN h.i = d.hand.i /\ h.a = d.hand.a /\ h.st = "retry"
    BY <1>0 DEF Hands
  <2>5. d'.hand = NoHand \/ (d'.hand.st # "none" /\ AttemptKnown(j', d'.hand.i, d'.hand.a))
    BY <2>1, <2>2, <2>4, NoHandFacts DEF Answers
  <2>6. d'.interrupted = NoHand
        \/ (d'.interrupted.st # "none" /\ AttemptKnown(j', d'.interrupted.i, d'.interrupted.a))
    BY <2>1, <2>2 DEF Answers
  <2>7. \A o \in d'.obs : AttemptKnown(j', o[1], o[2])
    BY <2>1, <2>3 DEF Answers
  <2> QED
    BY <2>5, <2>6, <2>7 DEF HandsFit
<1>4. ASSUME OnCourse(j'), NEW o \in d'.obs
      PROVE  j'.out[o[1]].committed \/ j'.out[o[1]].attempts[o[2]] = "open"
  <2>1. o \in d.obs /\ AttemptKnown(j, o[1], o[2]) /\ OnCourse(j) /\ o \in Nat \X Nat
    BY <1>0, <1>1, <1>4 DEF Answers, DeliveryFits, HandsFit, Course, ManagedInv, TypesFit, Memories
  <2>2. j.out[o[1]].committed \/ j.out[o[1]].attempts[o[2]] = "open"
    BY <1>0, <2>1 DEF DeliveryFits, ClaimFits
  <2>3. CASE j.out[o[1]].committed
    BY <1>1, <2>1, <2>3 DEF Follows, AttemptKnown
  <2>4. CASE ~j.out[o[1]].committed /\ o[1] # i
    BY <1>1, <1>4, <2>1, <2>2, <2>4 DEF Course, AttemptKnown
  <2>5. CASE ~j.out[o[1]].committed /\ o[1] = i /\ o[2] # a
    BY <1>1, <1>4, <2>1, <2>2, <2>5 DEF Course, AttemptKnown
  <2>6. CASE ~j.out[o[1]].committed /\ o[1] = i /\ o[2] = a
    BY <2>1, <2>6, <1>4, <2>2 DEF Answers
  <2> QED
    BY <2>3, <2>4, <2>5, <2>6
<1>5. ASSUME d'.hand.st = "claimed"
      PROVE  LET e == j'.out[d'.hand.i]
             IN /\ ~e.superseded
                /\ OnCourse(j') => /\ ~e.committed /\ d'.hand.a = Len(e.attempts)
                                   /\ e.attempts[d'.hand.a] = "open"
                                   /\ <<d'.hand.i, d'.hand.a>> \notin d'.obs
  <2> DEFINE x == d.hand.i
             e == j.out[x]
  <2>1. d'.hand = d.hand /\ AttemptKnown(j, x, d.hand.a)
    BY <1>0, <1>5, NoHandFacts DEF Hands, Answers, DeliveryFits, HandsFit
  <2>2. /\ x \in DOMAIN j.out /\ e.attempts # <<>> /\ ~e.superseded
        /\ OnCourse(j) => /\ ~e.committed /\ d.hand.a = Len(e.attempts)
                          /\ e.attempts[d.hand.a] = "open"
                          /\ <<x, d.hand.a>> \notin d.obs
    BY <1>0, <1>5, <2>1 DEF DeliveryFits, ClaimFits, AttemptKnown
  <2>3. i \in DOMAIN j.out /\ j.out[i].attempts # <<>>
    BY DEF Answers, AttemptKnown
  <2>4. ASSUME OnCourse(j) PROVE j.out[i].committed /\ i # x
    <3>1. <<i, a>> \in d.obs
      BY <1>5, <2>4 DEF Answers
    <3> SUFFICES ASSUME ~j.out[i].committed PROVE FALSE
      BY <2>2, <2>4
    <3>2. i \in Active(j) /\ x \in Active(j)
      BY <1>0, <2>2, <2>3, <2>4, OnCourseFacts DEF Active
    <3>3. i \in Nat /\ x \in Nat
      BY <1>0, <2>2, <2>3, Positions
    <3>4. ~(i < x) /\ ~(x < i)
      BY <1>0, <2>2, <2>3, <2>4, <3>2 DEF Steady
    <3>5. i = x
      BY <3>3, <3>4
    <3>6. j.out[i].attempts[a] = "open" /\ a \in DOMAIN j.out[i].attempts
      BY <1>0, <2>4, <3>1 DEF Answers, DeliveryFits, ClaimFits, AttemptKnown
    <3>7. EventOK(e) /\ Len(e.attempts) \in Nat /\ DOMAIN e.attempts = 1..Len(e.attempts)
      BY <1>0, <2>2, OutFacts DEF JournalOK, OutboxOK
    <3>8. a \in 1..Len(e.attempts) /\ a \notin 1..(Len(e.attempts) - 1)
      BY <3>5, <3>6, <3>7 DEF EventOK
    <3>9. a = Len(e.attempts)
      <4> DEFINE n == Len(e.attempts)
      <4>1. n \in Nat /\ a \in 1..n /\ a \notin 1..(n - 1)
        BY <3>7, <3>8
      <4> HIDE DEF n
      <4>2. a = n
        BY <4>1
      <4> QED
        BY <4>2 DEF n
    <3> QED
      BY <2>2, <2>4, <3>1, <3>5, <3>9
  <2>5. j'.corrected = j.corrected
    BY <1>0, <1>1, <2>3, <2>4, OnCourseFacts DEF JournalOK, Journals, Course
  <2>6. ~j'.out[x].superseded
    BY <1>1, <2>2, <2>5 DEF Course
  <2>7. OnCourse(j') => OnCourse(j) /\ j'.out[x] = e /\ d'.obs \subseteq d.obs
    BY <1>1, <2>2, <2>4 DEF Course, Answers
  <2> QED
    BY <2>1, <2>2, <2>6, <2>7
<1>6. ClaimFits'
  BY <1>4, <1>5 DEF ClaimFits
<1>7. NetworkFits'
  BY <1>0, <1>1, <1>2 DEF Answers, DeliveryFits, NetworkFits, Follows, Commits
<1> QED
  BY <1>3, <1>6, <1>7 DEF DeliveryFits

\* The windows that passed are closed, and nothing is claimed.
LEMMA DeliveryExpired ==
  ASSUME ManagedInv, ExpiredOK(j, j'), d'.hand = d.hand, d.hand = NoHand,
         d'.interrupted = d.interrupted, d'.obs = d.obs, UNCHANGED network
  PROVE  DeliveryFits'
<1>0. JournalOK(j) /\ DeliveryFits /\ JournalOK(j') /\ Follows(j, j') /\ Commits(j, j', {})
      /\ DOMAIN j.out \subseteq DOMAIN j'.out
  BY DomainGrows DEF ManagedInv, ExpiredOK, Follows
<1>1. HandsFit'
  BY <1>0, KnownFollows DEF DeliveryFits, HandsFit
<1>2. ClaimFits'
  BY NoHandFacts, <1>0 DEF ExpiredOK, DeliveryFits, ClaimFits
<1>3. NetworkFits'
  BY <1>0 DEF DeliveryFits, NetworkFits, Follows, Commits, network
<1> QED
  BY <1>1, <1>2, <1>3 DEF DeliveryFits

\* An event is claimed, after the windows that passed are closed.
LEMMA DeliveryClaimed ==
  ASSUME ManagedInv, NEW k, ExpiredOK(j, k), NEW i \in Active(k), ClaimOK(k, i, j'),
         d'.hand = [i |-> i, a |-> Len(j'.out[i].attempts), st |-> "claimed"],
         d'.interrupted = d.interrupted, d'.obs = d.obs, UNCHANGED network
  PROVE  DeliveryFits'
<1>0. /\ JournalOK(j) /\ DeliveryFits /\ JournalOK(j') /\ JournalOK(k)
      /\ j \in Journals /\ k \in Journals /\ j' \in Journals
      /\ Follows(j, k) /\ Commits(j, k, {}) /\ Follows(k, j') /\ Commits(k, j', {})
  BY DEF ManagedInv, ExpiredOK, ClaimOK, JournalOK
<1>1. /\ Follows(j, j') /\ Commits(j, j', {} \cup {})
      /\ DOMAIN j.out \subseteq DOMAIN k.out /\ DOMAIN j.out \subseteq DOMAIN j'.out
  <2>1. Follows(j, j') /\ Commits(j, j', {} \cup {})
    BY <1>0, FollowsOn
  <2> QED
    BY <1>0, <2>1, DomainGrows DEF Follows
<1>2. /\ i \in DOMAIN k.out /\ ~k.out[i].committed /\ i \in DOMAIN j'.out
      /\ ~j'.out[i].committed /\ ~j'.out[i].superseded
  BY DEF Active, ClaimOK
<1>3. /\ Len(j'.out[i].attempts) = Len(k.out[i].attempts) + 1
      /\ DOMAIN j'.out[i].attempts = 1..(Len(k.out[i].attempts) + 1)
      /\ DOMAIN k.out[i].attempts = 1..Len(k.out[i].attempts)
      /\ Len(k.out[i].attempts) \in Nat
      /\ j'.out[i].attempts[Len(j'.out[i].attempts)] = "open"
      /\ \A b \in DOMAIN k.out[i].attempts : j'.out[i].attempts[b] = k.out[i].attempts[b]
      /\ j'.out[i].attempts # <<>>
  BY <1>0, <1>2, ClaimedAttempt
<1>4. /\ d'.hand.i = i /\ d'.hand.a = Len(j'.out[i].attempts) /\ d'.hand.st = "claimed"
  OBVIOUS
<1>5. HandsFit'
  <2>1. \A x, y : AttemptKnown(j, x, y) => AttemptKnown(j', x, y)
    BY <1>0, <1>1, KnownFollows
  <2>2. AttemptKnown(j', i, Len(j'.out[i].attempts))
    BY <1>2, <1>3 DEF AttemptKnown
  <2> QED
    BY <1>0, <1>4, <2>1, <2>2 DEF DeliveryFits, HandsFit
<1>6. ASSUME OnCourse(j')
      PROVE  /\ <<i, Len(j'.out[i].attempts)>> \notin d'.obs
             /\ \A o \in d'.obs : j'.out[o[1]].committed \/ j'.out[o[1]].attempts[o[2]] = "open"
  <2>1. OnCourse(k)
    BY <1>6 DEF OnCourse, SuccessPath, ClaimOK, Follows
  <2>2. k = j
    BY <2>1 DEF ExpiredOK
  <2>3. ASSUME NEW o \in d.obs
        PROVE  /\ j'.out[o[1]].committed \/ j'.out[o[1]].attempts[o[2]] = "open"
               /\ o # <<i, Len(j'.out[i].attempts)>>
    <3>1. AttemptKnown(k, o[1], o[2])
      BY <1>0, <2>2 DEF DeliveryFits, HandsFit
    <3>2. k.out[o[1]].committed \/ k.out[o[1]].attempts[o[2]] = "open"
      BY <1>0, <2>1, <2>2 DEF DeliveryFits, ClaimFits
    <3>3. CASE o[1] # i
      BY <3>1, <3>2, <3>3 DEF ClaimOK, AttemptKnown
    <3>4. CASE o[1] = i
      BY <1>2, <3>1, <3>4, <1>3, <3>2 DEF AttemptKnown
    <3> QED
      BY <3>3, <3>4
  <2> QED
    BY <2>3
<1>7. ClaimFits'
  BY <1>2, <1>3, <1>4, <1>6 DEF ClaimFits
<1>8. NetworkFits'
  BY <1>0, <1>1 DEF DeliveryFits, NetworkFits, Follows, Commits, network
<1> QED
  BY <1>5, <1>7, <1>8 DEF DeliveryFits

\* A claim is written to the session.
LEMMA DeliveryExposed ==
  ASSUME ManagedInv, Expose
  PROVE  /\ DeliveryFits' /\ TypesFit' /\ ~j.out[d.hand.i].superseded
         /\ wire' = wire \cup {<<d.hand.i, TRUE>>}
<1>0. DeliveryFits /\ TypesFit /\ d \in Memories /\ d.hand \in Hands
  BY DEF ManagedInv, TypesFit, Memories
<1>1. /\ d.hand.st = "claimed" /\ j' = j
      /\ d' = [d EXCEPT !.hand.st = "exposed", !.obs = @ \cup {<<d.hand.i, d.hand.a>>}]
      /\ wire' = wire \cup {<<d.hand.i, TRUE>>}
      /\ UNCHANGED <<outside, acks, srv, left>>
  BY DEF Expose
<1>2. /\ d'.hand.i = d.hand.i /\ d'.hand.a = d.hand.a /\ d'.hand.st = "exposed"
      /\ d'.obs = d.obs \cup {<<d.hand.i, d.hand.a>>} /\ d'.interrupted = d.interrupted
      /\ d' \in Memories
  <2> DEFINE h == [d.hand EXCEPT !.st = "exposed"]
             o == d.obs \cup {<<d.hand.i, d.hand.a>>}
  <2>1. h \in Hands /\ h.i = d.hand.i /\ h.a = d.hand.a /\ h.st = "exposed"
    BY <1>0 DEF Hands, HandStates
  <2>2. o \in SUBSET (Nat \X Nat)
    BY <1>0 DEF Hands, Memories
  <2>3. d' = [d EXCEPT !.hand = h, !.obs = o]
    BY <1>0, <1>1 DEF Memories
  <2> HIDE DEF h
  <2>4. d'.hand = h /\ d'.obs = o /\ d'.interrupted = d.interrupted
    BY <1>0, <2>3 DEF Memories
  <2> HIDE DEF o
  <2>5. d' \in Memories
    BY <1>0, <2>1, <2>2, <2>3 DEF Memories
  <2> QED
    BY <2>1, <2>4, <2>5 DEF o
<1>3. /\ AttemptKnown(j, d.hand.i, d.hand.a) /\ d.hand.i \in Nat
      /\ ~j.out[d.hand.i].superseded
      /\ OnCourse(j) => j.out[d.hand.i].attempts[d.hand.a] = "open"
  BY <1>0, <1>1, NoHandFacts DEF DeliveryFits, HandsFit, ClaimFits, Hands
<1>4. HandsFit'
  BY <1>0, <1>1, <1>2, <1>3 DEF DeliveryFits, HandsFit
<1>5. ClaimFits'
  BY <1>0, <1>2, <1>3, <1>1 DEF DeliveryFits, ClaimFits
<1>6. NetworkFits'
  <2>1. {f[1] : f \in wire'} \subseteq {f[1] : f \in wire} \cup {d.hand.i}
    <3>1. <<d.hand.i, TRUE>>[1] = d.hand.i
      OBVIOUS
    <3>2. \A f \in wire' : f \in wire \/ f[1] = d.hand.i
      BY <1>1, <3>1, Zenon
    <3> QED
      BY <3>2
  <2> QED
    BY <1>0, <1>1, <1>3, <2>1 DEF DeliveryFits, NetworkFits, AttemptKnown
<1>7. TypesFit'
  <2>1. boot' = boot /\ acks' = acks /\ srv' = srv
    BY <1>1 DEF outside
  <2>2. wire' \subseteq Nat \X BOOLEAN
    <3>1. <<d.hand.i, TRUE>> \in Nat \X BOOLEAN
      BY <1>3
    <3>2. wire \subseteq Nat \X BOOLEAN
      BY <1>0 DEF TypesFit
    <3> QED
      BY <1>1, <3>1, <3>2, Zenon
  <2> QED
    BY <1>0, <1>2, <2>1, <2>2 DEF TypesFit
<1> QED
  BY <1>1, <1>3, <1>4, <1>5, <1>6, <1>7 DEF DeliveryFits

\* The server takes a frame, and answers if its session is still there.
LEMMA DeliveryIngested ==
  ASSUME ManagedInv, NEW f \in wire, NEW s \in {"accepted", "rejected"}, ServerIngest(f, s)
  PROVE  DeliveryFits' /\ TypesFit'
<1>0. DeliveryFits /\ TypesFit
  BY DEF ManagedInv
<1>1. /\ j' = j /\ d' = d /\ boot' = boot
      /\ wire' = wire \ {f}
      /\ srv' = IF s = "accepted" THEN srv \cup {f[1]} ELSE srv
      /\ acks' = IF f[2] THEN acks \cup {<<f[1], s>>} ELSE acks
  BY DEF ServerIngest, outside
<1>2. f[1] \in Nat /\ f[1] \in DOMAIN j.out /\ j.out[f[1]].attempts # <<>>
  BY <1>0 DEF TypesFit, DeliveryFits, NetworkFits
<1>3. NetworkFits'
  BY <1>1, <1>0 DEF DeliveryFits, NetworkFits
<1>4. HandsFit' /\ ClaimFits'
  BY <1>0, <1>1 DEF DeliveryFits, HandsFit, ClaimFits
<1>5. TypesFit'
  <2>1. <<f[1], s>> \in Nat \X {"accepted", "rejected"}
    BY <1>2
  <2>2. acks' \subseteq Nat \X {"accepted", "rejected"}
    BY <1>0, <1>1, <2>1 DEF TypesFit
  <2>3. srv' \subseteq Nat /\ wire' \subseteq Nat \X BOOLEAN
    BY <1>0, <1>1, <1>2 DEF TypesFit
  <2> QED
    BY <1>0, <1>1, <2>2, <2>3 DEF TypesFit
<1> QED
  BY <1>3, <1>4, <1>5 DEF DeliveryFits

\* The window of an event passes.
LEMMA DeliveryDue ==
  ASSUME ManagedInv, NEW i, DeadlinePasses(i)
  PROVE  /\ JournalOK(j') /\ Alike(j, j') /\ Steady(j') /\ (OnCourse(j') => OnCourse(j))
         /\ j'.phase = j.phase /\ j'.receipt = j.receipt /\ j'.outcome = j.outcome
<1> DEFINE e == [j.out[i] EXCEPT !.due = TRUE]
<1>0. JournalOK(j) /\ Steady(j) /\ DeliveryFits
  BY DEF ManagedInv
<1>1. i \in DOMAIN j.out /\ j' = [j EXCEPT !.out[i].due = TRUE] /\ i \in Running \cup {d.hand.i}
  BY DEF DeadlinePasses
<1>2. j.out[i].attempts # <<>>
  BY <1>0, <1>1, Positions, NoHandFacts DEF DeliveryFits, HandsFit, AttemptKnown, Running
<1>3. j.out[i] \in Events /\ EventOK(j.out[i])
  BY <1>0, <1>1, OutFacts DEF JournalOK, OutboxOK
<1>4. /\ e \in Events /\ e.role = j.out[i].role /\ e.superseded = j.out[i].superseded
      /\ e.committed = j.out[i].committed /\ e.attempts = j.out[i].attempts
      /\ e.exhausted = j.out[i].exhausted
  BY <1>3 DEF Events
<1>5. EventOK(e)
  BY <1>2, <1>3, <1>4 DEF EventOK, LastAttempt
<1>6. j' = Put(j, i, e)
  BY <1>1 DEF Put
<1> HIDE DEF e
<1>7. PutOK(j, i, e, j')
  <2>1. Len(e.attempts) \in Nat
    BY <1>0, <1>1, <1>4, OutFacts DEF JournalOK
  <2>2. Len(e.attempts) >= Len(j.out[i].attempts)
    BY <1>4, <2>1
  <2> QED
    BY <1>0, <1>1, <1>2, <1>4, <1>5, <1>6, <2>2, Revised
<1>8. /\ JournalOK(j') /\ Follows(j, j') /\ DOMAIN j'.out = DOMAIN j.out
      /\ \A n \in DOMAIN j.out : j'.out[n] = IF n = i THEN e ELSE j.out[n]
      /\ j'.corrected = j.corrected /\ j'.abort = j.abort
  <2>1. j'.out[i] = e /\ \A n \in DOMAIN j.out : n # i => j'.out[n] = j.out[n]
    BY <1>7, Zenon DEF PutOK
  <2>2. /\ JournalOK(j') /\ Follows(j, j') /\ DOMAIN j'.out = DOMAIN j.out
        /\ j'.corrected = j.corrected /\ j'.abort = j.abort
    BY <1>7, Zenon DEF PutOK
  <2> QED
    BY <2>1, <2>2, Zenon
<1>9. Alike(j, j')
  BY <1>4, <1>8 DEF Alike, Follows
<1>10. OnCourse(j') => OnCourse(j)
  BY <1>8 DEF OnCourse, SuccessPath, Follows
<1>11. Steady(j')
  BY <1>0, <1>4, <1>8, <1>10 DEF Steady, Active
<1> QED
  BY <1>8, <1>9, <1>10, <1>11 DEF Follows

\* An answer that comes too late: the run is off its course, or it is an
\* acceptance, or nothing is written of it.
DueOK(k, i, m) == OnCourse(m) => m.out[i].committed \/ m.out = k.out

\* After the window of an event has passed, no answer but an acceptance leaves
\* the run on course.
LEMMA DueAnswer ==
  ASSUME NEW k, JournalOK(k), NEW i, NEW a, AttemptKnown(k, i, a), k.out[i].due,
         NEW clock, NEW r, r # "accepted"
  PROVE  /\ k.phase # "closed" => DueOK(k, i, LiveAnswer(k, clock, i, a, r))
         /\ k.phase = "closed" => DueOK(k, i, ClosedAnswer(k, clock, i, a, r))
<1> DEFINE e == k.out[i]
<1>0. i \in DOMAIN k.out /\ e \in Events /\ EventOK(e)
  BY OutFacts DEF JournalOK, OutboxOK, AttemptKnown
<1>1. \A m : Follows(k, m) /\ e.committed => m.out[i].committed
  BY <1>0 DEF Follows
<1>2. ASSUME k.phase # "closed", ~e.committed
      PROVE  ~OnCourse(LiveAnswer(k, clock, i, a, r))
  <2> DEFINE latched == CASE ~Healthy(k, clock) -> Aborted([k EXCEPT !.unclear = TRUE])
                          [] Healthy(k, clock) /\ e.due /\ ~e.committed -> Aborted(k)
                          [] OTHER -> k
             x == (Healthy(k, clock) /\ e.due) \/ r = "rejected" \/ Spent(e, a)
             f == FailedAttempt(latched, i, a, x)
  <2>1. latched \in {Aborted([k EXCEPT !.unclear = TRUE]), Aborted(k)}
    BY <1>2
  <2>2. LiveAnswer(k, clock, i, a, r) \in {latched, f, Aborted(f)}
    <3>1. LiveAnswer(k, clock, i, a, r) =
            IF r = "accepted" THEN Commit(latched, i)
            ELSE IF e.committed \/ e.attempts[a] = "accepted" THEN latched
            ELSE IF x THEN Aborted(f) ELSE f
      BY DEF LiveAnswer
    <3> HIDE DEF latched, x, f
    <3> QED
      BY <3>1
  <2>3. k \in Journals
    BY DEF JournalOK
  <2>4. latched \in Journals /\ latched.abort
    <3>1. k.abort \in BOOLEAN /\ [k EXCEPT !.unclear = TRUE] \in Journals
      BY <2>3 DEF Journals
    <3>2. \A y \in Journals : Aborted(y) \in Journals /\ Aborted(y).abort
      BY DEF Aborted, Journals
    <3> HIDE DEF latched
    <3> QED
      BY <2>1, <2>3, <3>1, <3>2
  <2> HIDE DEF latched, x
  <2>5. f.abort /\ Aborted(f).abort
    BY <2>4 DEF FailedAttempt, Aborted, Journals
  <2> QED
    BY <2>2, <2>4, <2>5 DEF OnCourse
<1>3. ASSUME k.phase = "closed", ~e.committed, Healthy(k, clock)
      PROVE  ~OnCourse(ClosedAnswer(k, clock, i, a, r))
  <2> DEFINE l == Fail(k, i, a, r)
  <2>1. ClosedAnswer(k, clock, i, a, r) = Viewed(l, clock)
    BY <1>3 DEF ClosedAnswer
  <2>2. Turn(k, l, i, a, {}) /\ JournalOK(l)
    BY <1>3, FailTurn DEF Turn
  <2>3. ~OnCourse(l)
    <3> SUFFICES ASSUME OnCourse(k) PROVE ~OnCourse(l)
      BY <2>2 DEF Turn, Course
    <3>1. SuccessPath(k) /\ ~e.superseded
      BY <1>0, <1>3, OnCourseFacts DEF OnCourse
    <3>2. a \in DOMAIN e.attempts /\ e.attempts[a] # "accepted"
      BY <1>0, <1>3 DEF AttemptKnown, EventOK
    <3> DEFINE x == (r = "rejected" /\ SuccessPath(k)) \/ e.due \/ e.exhausted \/ Spent(e, a)
               f == FailedAttempt(k, i, a, x)
    <3>3. l = Corrected(f)
      BY <1>3, <3>1, <3>2 DEF Fail
    <3>4. x = TRUE
      OBVIOUS
    <3>5. FailOK(k, i, TRUE, FailedAttempt(k, i, a, TRUE))
      BY <1>0, <1>3, <3>2, FailedFollows
    <3> HIDE DEF x
    <3>6. JournalOK(f) /\ SuccessPath(f) /\ f.phase = "closed"
      BY <1>3, <3>1, <3>4, <3>5 DEF FailOK, Follows, SuccessPath
    <3> HIDE DEF f
    <3> QED
      BY <3>3, <3>6, CorrectedTurn
  <2> HIDE DEF l
  <2>4. OnCourse(Viewed(l, clock)) => OnCourse(l)
    BY <2>2, ViewedTurn DEF Turn, Course
  <2> QED
    BY <2>1, <2>3, <2>4
<1>4. ASSUME k.phase = "closed", ~Healthy(k, clock)
      PROVE  ClosedAnswer(k, clock, i, a, r).out = k.out
  BY <1>4 DEF ClosedAnswer, JournalOK, Journals, Viewed
<1>5. ASSUME k.phase # "closed", e.committed
      PROVE  LiveAnswer(k, clock, i, a, r).out[i].committed
  BY <1>5, LiveAnswerTurn, <1>1 DEF Turn
<1>6. ASSUME k.phase = "closed", e.committed
      PROVE  ClosedAnswer(k, clock, i, a, r).out[i].committed
  BY <1>6, ClosedAnswerTurn, <1>1 DEF Turn
<1> HIDE DEF e
<1> QED
  BY <1>2, <1>3, <1>4, <1>5, <1>6 DEF DueOK

-------------------------------------------------------------------------------
(* Steps *)

\* A step keeps the invariant, is one of RunPromise or none, and sends nothing
\* of an outcome that was replaced.
StepOK ==
  /\ ManagedInv'
  /\ Promise!PromiseNext \/ UNCHANGED <<launches, j.receipt = "fenced", j.outcome, Told>>
  /\ \A f \in wire' \ wire : f[2] => ~j.out[f[1]].superseded

\* The next step of a start.
LEMMA GoToFacts ==
  ASSUME d \in Memories, NEW s \in Steps, GoTo(s)
  PROVE  /\ d' \in Memories /\ d'.step = s /\ d'.hand = d.hand /\ d'.interrupted = d.interrupted
         /\ d'.obs = d.obs /\ (s \notin {"lost", "refused"} => d'.term = d.term)
         /\ d'.usable = d.usable /\ d'.up = d.up
  BY DEF Memories, GoTo, Ended

\* A live delivery that fails drops its claim.
LEMMA FailingFacts ==
  ASSUME NEW e \in Memories
  PROVE  /\ Failing(e) \in Memories /\ Failing(e).step = "failing" /\ Failing(e).hand = NoHand
         /\ Failing(e).interrupted = e.interrupted /\ Failing(e).obs = e.obs
         /\ Failing(e).term = e.term
<1>1. NoHand \in Hands /\ "failing" \in Steps
  BY DEF NoHand, Hands, HandStates, Steps
<1> HIDE DEF NoHand
<1> QED
  BY <1>1 DEF Failing, Memories

\* A start that ended keeps what it has in hand.
LEMMA EndedFacts ==
  ASSUME NEW e \in Memories, NEW s \in Steps
  PROVE  /\ Ended(e, s) \in Memories /\ Ended(e, s).step = s /\ Ended(e, s).hand = e.hand
         /\ Ended(e, s).interrupted = e.interrupted /\ Ended(e, s).obs = e.obs
  BY DEF Ended, Memories

\* Aborting the controller leaves the rest of the memory.
LEMMA AbortFacts ==
  ASSUME NEW e \in Memories
  PROVE  /\ Abort(e) \in Memories /\ Abort(e).step = e.step /\ Abort(e).hand = e.hand
         /\ Abort(e).interrupted = e.interrupted /\ Abort(e).obs = e.obs
         /\ Abort(e).term = e.term
  BY DEF Abort, Memories

\* A daemon that starts remembers nothing.
LEMMA NewDaemonFacts ==
  ASSUME NEW n \in Nat, NEW c \in Nat
  PROVE  /\ NewDaemon(n, c) \in Memories /\ NewDaemon(n, c).step = "idle"
         /\ NewDaemon(n, c).hand = NoHand /\ NewDaemon(n, c).interrupted = NoHand
         /\ NewDaemon(n, c).obs = {}
<1>1. NoHand \in Hands /\ "idle" \in Steps /\ {} \in SUBSET (Nat \X Nat)
  BY DEF NoHand, Hands, HandStates, Steps
<1> HIDE DEF NoHand
<1> QED
  BY <1>1 DEF NewDaemon, Memories

\* What the server was told changes only with what it accepts.
LEMMA ToldSame ==
  ASSUME ManagedInv, \A i \in DOMAIN j.out : j'.out[i].role = j.out[i].role,
         j'.outcome = j.outcome, srv' = srv
  PROVE  Told' = Told
BY DEF ManagedInv, DeliveryFits, NetworkFits, Told

\* What the daemon has in hand rests, and the outbox may get one more event.
LEMMA QuietStep ==
  ASSUME ManagedInv, JournalOK(j'), Steady(j'), Alike(j, j'), OnCourse(j') => OnCourse(j),
         Rests, TypesFit', LaunchFits',
         launches' = launches, (j'.receipt = "fenced") = (j.receipt = "fenced"),
         j'.outcome = j.outcome, \A f \in wire' : f[2] => f \in wire
  PROVE  StepOK
BY DeliveryRests, ToldSame DEF ManagedInv, Rests, Alike, StepOK

\* Nothing but the memory of the daemon changes.
LEMMA MemoryStep ==
  ASSUME ManagedInv, j' = j, outside' = outside, network' = network,
         d' \in Memories, d'.hand \in {d.hand, NoHand},
         d'.interrupted \in {d.interrupted, d.hand, NoHand}, d'.obs \subseteq d.obs,
         LaunchFits'
  PROVE  StepOK
<1>1. JournalOK(j) /\ Steady(j) /\ TypesFit
  BY DEF ManagedInv
<1>2. Alike(j, j')
  BY <1>1, SameAlike
<1>3. boot' = boot /\ launches' = launches /\ wire' = wire /\ acks' = acks /\ srv' = srv
  BY DEF outside, network
<1>4. TypesFit' /\ Rests
  BY <1>1, <1>3 DEF TypesFit, Rests
<1> QED
  BY <1>1, <1>2, <1>3, <1>4, QuietStep

\* ... and the start stays where it is.
LEMMA StillStep ==
  ASSUME ManagedInv, j' = j, outside' = outside, network' = network,
         d' \in Memories, d'.step = d.step, d'.term = d.term, d'.hand \in {d.hand, NoHand},
         d'.interrupted = d.interrupted, d'.obs \subseteq d.obs
  PROVE  StepOK
BY MemoryStep DEF ManagedInv, outside, LaunchFits, StepFits, ProcessFits, InterruptedFits

-------------------------------------------------------------------------------
(* Steps of the memory alone *)

\* Stops, reconnections, failures of the storage and retries.
LEMMA StayingSteps ==
  ASSUME ManagedInv, UserStop \/ Reconnect \/ GraceExpires \/ JournalFails \/ Retry
  PROVE  StepOK
<1>0. d \in Memories
  BY DEF ManagedInv, TypesFit
<1>1. CASE UserStop
  <2> DEFINE e == [d EXCEPT !.stopReq = TRUE, !.cancelled = d.step \notin NoDelivery,
                          !.ustop = d.step \notin NoDelivery /\ j.phase # "closed" /\ ~d.failure]
  <2>1. /\ e \in Memories /\ e.step = d.step /\ e.term = d.term /\ e.hand = d.hand
        /\ e.interrupted = d.interrupted /\ e.obs = d.obs
    BY <1>0 DEF Memories
  <2>2. d' = Abort(e) /\ j' = j /\ outside' = outside /\ network' = network
    BY <1>1 DEF UserStop
  <2> HIDE DEF e
  <2> QED
    BY <2>1, <2>2, AbortFacts, StillStep
<1>2. CASE Reconnect
  BY <1>2, <1>0, StillStep DEF Reconnect, Memories
<1>3. CASE GraceExpires
  <2> DEFINE e == [d EXCEPT !.fatal = TRUE, !.cancelled = @ \/ d.step \notin NoDelivery,
                          !.failure = d.step \notin NoDelivery
                                      /\ (@ \/ (j.phase # "closed" /\ ~d.ustop))]
  <2>1. /\ e \in Memories /\ e.step = d.step /\ e.term = d.term /\ e.hand = d.hand
        /\ e.interrupted = d.interrupted /\ e.obs = d.obs
    BY <1>0 DEF Memories
  <2>2. d' = Abort(e) /\ j' = j /\ outside' = outside /\ network' = network
    BY <1>3 DEF GraceExpires
  <2> HIDE DEF e
  <2> QED
    BY <2>1, <2>2, AbortFacts, StillStep
<1>4. CASE JournalFails
  BY <1>4, <1>0, StillStep DEF JournalFails, Memories
<1>5. CASE Retry
  BY <1>5, <1>0, StillStep DEF Retry, NoHand, Hands, HandStates, Memories
<1> QED
  BY <1>1, <1>2, <1>3, <1>4, <1>5

\* The start, or a delivery, goes on to another step or ends.
LEMMA MovingSteps ==
  ASSUME ManagedInv,
         \/ StartFails \/ LastLookup \/ RecordFails \/ StreamFails \/ Cancelled \/ Resume
         \/ \E o \in Results : TerminalSeen(o)
         \/ StopChild("stopping", "failing") \/ StopChild("aborting", "lost")
  PROVE  StepOK
<1>0. d \in Memories /\ LaunchFits /\ NoHand \in Hands /\ d.hand \in Hands
  BY DEF ManagedInv, TypesFit, Memories, NoHand, Hands, HandStates
<1>1. CASE StartFails
  <2>1. GoTo("lost") /\ j' = j /\ outside' = outside /\ network' = network
    BY <1>1 DEF StartFails
  <2>2. d' \in Memories /\ d'.step = "lost" /\ d'.hand = d.hand
        /\ d'.interrupted = d.interrupted /\ d'.obs = d.obs
    BY <1>0, <2>1, GoToFacts DEF Steps
  <2>3. LaunchFits'
    BY <1>0, <2>1, <2>2 DEF LaunchFits, StepFits, ProcessFits, InterruptedFits, outside
  <2> QED
    BY <2>1, <2>2, <2>3, MemoryStep
<1>2. CASE LastLookup
  <2>1. GoTo("looked") /\ j' = j /\ outside' = outside /\ network' = network
        /\ d.step = "launch_intent"
    BY <1>2 DEF LastLookup, Journal, At
  <2>2. d' \in Memories /\ d'.step = "looked" /\ d'.hand = d.hand
        /\ d'.interrupted = d.interrupted /\ d'.obs = d.obs
    BY <1>0, <2>1, GoToFacts DEF Steps
  <2>3. LaunchFits'
    BY <1>0, <2>1, <2>2 DEF LaunchFits, StepFits, ProcessFits, InterruptedFits, outside
  <2> QED
    BY <2>1, <2>2, <2>3, MemoryStep
<1>3. CASE RecordFails
  <2> DEFINE e == [d EXCEPT !.failure = TRUE]
  <2>1. /\ e \in Memories /\ e.interrupted = d.interrupted /\ e.obs = d.obs
    BY <1>0 DEF Memories
  <2>2. /\ d' = Failing(e) /\ j' = j /\ outside' = outside /\ network' = network
        /\ d.step = "handle"
    BY <1>3 DEF RecordFails, At
  <2> HIDE DEF e
  <2>3. /\ d' \in Memories /\ d'.step = "failing" /\ d'.hand = NoHand
        /\ d'.interrupted = d.interrupted /\ d'.obs = d.obs
    BY <2>1, <2>2, FailingFacts
  <2>4. LaunchFits'
    BY <1>0, <2>2, <2>3 DEF LaunchFits, StepFits, ProcessFits, InterruptedFits, outside
  <2> QED
    BY <2>2, <2>3, <2>4, MemoryStep
<1>4. CASE StreamFails
  <2>1. /\ d' = Failing(d) /\ j' = j /\ outside' = outside /\ network' = network
        /\ d.step = "streaming"
    BY <1>4 DEF StreamFails, At
  <2>2. /\ d' \in Memories /\ d'.step = "failing" /\ d'.hand = NoHand
        /\ d'.interrupted = d.interrupted /\ d'.obs = d.obs
    BY <1>0, <2>1, FailingFacts
  <2>3. LaunchFits'
    BY <1>0, <2>1, <2>2 DEF LaunchFits, StepFits, ProcessFits, InterruptedFits, outside
  <2> QED
    BY <2>1, <2>2, <2>3, MemoryStep
<1>5. CASE Cancelled
  <2>1. j' = j /\ outside' = outside /\ network' = network
    BY <1>5 DEF Cancelled
  <2>2. CASE d.step = "closed"
    <3>1. d' = [d EXCEPT !.step = "parked", !.hand = NoHand]
      BY <1>5, <2>2 DEF Cancelled
    <3>2. /\ d' \in Memories /\ d'.step = "parked" /\ d'.hand = NoHand
          /\ d'.interrupted = d.interrupted /\ d'.obs = d.obs
      BY <1>0, <3>1 DEF Memories, Steps
    <3>3. LaunchFits'
      BY <1>0, <2>1, <2>2, <3>2 DEF LaunchFits, StepFits, ProcessFits, InterruptedFits, outside
    <3> QED
      BY <2>1, <3>2, <3>3, MemoryStep
  <2>3. CASE d.step # "closed"
    <3> DEFINE h == IF d.hand.st \in {"claimed", "exposed"} THEN d.hand ELSE NoHand
               e == Failing(d)
    <3>1. d.step = "streaming" /\ d' = [e EXCEPT !.interrupted = h]
      BY <1>5, <2>3 DEF Cancelled
    <3>2. h \in {d.hand, NoHand}
      OBVIOUS
    <3>3. e \in Memories /\ e.step = "failing" /\ e.hand = NoHand /\ e.obs = d.obs
      BY <1>0, FailingFacts
    <3> HIDE DEF h, e
    <3>4. /\ d' \in Memories /\ d'.step = "failing" /\ d'.hand = NoHand
          /\ d'.interrupted = h /\ d'.obs = d.obs
      BY <1>0, <3>1, <3>2, <3>3 DEF Memories
    <3>5. j.outcome # "completed"
      BY <1>0, <3>1, OpenOutcome DEF ManagedInv, LaunchFits, StepFits
    <3>6. LaunchFits'
      BY <1>0, <2>1, <3>1, <3>4, <3>5 DEF LaunchFits, StepFits, ProcessFits, InterruptedFits, outside
    <3> QED
      BY <2>1, <3>2, <3>4, <3>6, MemoryStep
  <2> QED
    BY <2>2, <2>3
<1>6. CASE Resume
  <2>1. /\ GoTo("closed") /\ j' = j /\ outside' = outside /\ network' = network
        /\ d.step \in {"idle", "parked"} /\ j.receipt = "exit"
    BY <1>6 DEF Resume
  <2>2. d' \in Memories /\ d'.step = "closed" /\ d'.hand = d.hand
        /\ d'.interrupted = d.interrupted /\ d'.obs = d.obs
    BY <1>0, <2>1, GoToFacts DEF Steps
  <2>3. LaunchFits'
    BY <1>0, <2>1, <2>2 DEF LaunchFits, StepFits, ProcessFits, InterruptedFits, outside
  <2> QED
    BY <2>1, <2>2, <2>3, MemoryStep
<1>7. ASSUME NEW o \in Results, TerminalSeen(o) PROVE StepOK
  <2>1. d.step = "streaming" /\ j' = j /\ outside' = outside /\ network' = network
    BY <1>7 DEF TerminalSeen, Journal, At
  <2>2. CASE d' = Failing(d)
    <3>1. /\ d' \in Memories /\ d'.step = "failing" /\ d'.hand = NoHand
          /\ d'.interrupted = d.interrupted /\ d'.obs = d.obs
      BY <1>0, <2>2, FailingFacts
    <3>2. LaunchFits'
      BY <1>0, <2>1, <3>1 DEF LaunchFits, StepFits, ProcessFits, InterruptedFits, outside
    <3> QED
      BY <2>1, <3>1, <3>2, MemoryStep
  <2>3. CASE d' = [d EXCEPT !.term = o, !.step = "stopping"]
    <3>1. /\ d' \in Memories /\ d'.step = "stopping" /\ d'.term = o /\ d'.hand = d.hand
          /\ d'.interrupted = d.interrupted /\ d'.obs = d.obs
      BY <1>0, <2>3 DEF Memories, Steps
    <3>2. LaunchFits'
      BY <1>0, <2>1, <3>1 DEF LaunchFits, StepFits, ProcessFits, InterruptedFits, outside
    <3> QED
      BY <2>1, <3>1, <3>2, MemoryStep
  <2> QED
    BY <1>7, <2>2, <2>3 DEF TerminalSeen
<1>8. ASSUME NEW from, NEW to,
             \/ from = "stopping" /\ to = "failing"
             \/ from = "aborting" /\ to = "lost",
             StopChild(from, to)
      PROVE  StepOK
  <2>1. /\ GoTo(to) /\ j' = j /\ outside' = outside /\ network' = network
        /\ d.step = from
    BY <1>8 DEF StopChild, At, outside
  <2>2. d' \in Memories /\ d'.step = to /\ d'.hand = d.hand
        /\ d'.interrupted = d.interrupted /\ d'.obs = d.obs
    BY <1>0, <1>8, <2>1, GoToFacts DEF Steps
  <2>3. LaunchFits'
    BY <1>0, <1>8, <2>1, <2>2 DEF LaunchFits, StepFits, ProcessFits, InterruptedFits, outside
  <2> QED
    BY <2>1, <2>2, <2>3, MemoryStep
<1> QED
  BY <1>1, <1>2, <1>3, <1>4, <1>5, <1>6, <1>7, <1>8

-------------------------------------------------------------------------------
(* Steps of the process and of the computer *)

\* The process ends, by itself or because it is stopped.
LEMMA ProcessSteps ==
  ASSUME ManagedInv,
         ChildExits \/ StopChild("stopping", "settling") \/ StopChild("aborting", "settling")
  PROVE  StepOK
<1>0. /\ d \in Memories /\ LaunchFits /\ JournalOK(j) /\ Steady(j) /\ TypesFit
      /\ Alike(j, j)
  BY SameAlike DEF ManagedInv, TypesFit
<1>1. CASE ChildExits
  <2>1. /\ child = "running" /\ child' = "exited" /\ j' = j /\ d' = d /\ boot' = boot
        /\ launches' = launches /\ wire' = wire /\ acks' = acks /\ srv' = srv
    BY <1>1 DEF ChildExits, network
  <2>2. LaunchFits'
    BY <1>0, <2>1 DEF LaunchFits, StepFits, ProcessFits, InterruptedFits
  <2>3. Rests /\ TypesFit'
    BY <1>0, <2>1 DEF Rests, TypesFit
  <2> QED
    BY <1>0, <2>1, <2>2, <2>3, QuietStep
<1>2. ASSUME NEW from \in {"stopping", "aborting"}, StopChild(from, "settling")
      PROVE  StepOK
  <2>1. /\ d.step = from /\ child' = "exited" /\ j' = j /\ GoTo("settling") /\ boot' = boot
        /\ launches' = launches /\ wire' = wire /\ acks' = acks /\ srv' = srv
    BY <1>2 DEF StopChild, At, network
  <2>2. d' \in Memories /\ d'.step = "settling" /\ d'.hand = d.hand /\ d'.term = d.term
        /\ d'.interrupted = d.interrupted /\ d'.obs = d.obs
    BY <1>0, <2>1, GoToFacts DEF Steps
  <2>3. d.interrupted # NoHand => from = "aborting" /\ d.term # "completed"
    BY <1>0, <2>1 DEF LaunchFits, InterruptedFits
  <2>4. launches = 1 /\ d.term \in Results /\ j.phase \in {"launch_intent", "started"}
    BY <1>0, <1>2, <2>1 DEF LaunchFits, StepFits, ProcessFits
  <2>5. LaunchFits'
    BY <1>0, <2>1, <2>2, <2>3, <2>4 DEF LaunchFits, StepFits, ProcessFits, InterruptedFits
  <2>6. Rests /\ TypesFit'
    BY <1>0, <2>1, <2>2 DEF Rests, TypesFit
  <2> QED
    BY <1>0, <2>1, <2>5, <2>6, QuietStep
<1> QED
  BY <1>1, <1>2

\* The adapter starts a process: the Launch of RunPromise.
LEMMA SpawnSteps ==
  ASSUME ManagedInv, NEW r \in {"handle", "startup_error", "lost"}, Spawn(r)
  PROVE  StepOK
<1>0. /\ d \in Memories /\ LaunchFits /\ JournalOK(j) /\ Steady(j) /\ TypesFit
      /\ Alike(j, j)
  BY SameAlike DEF ManagedInv, TypesFit
<1>1. /\ d.step = "looked" /\ launches' = launches + 1 /\ GoTo(r) /\ j' = j /\ boot' = boot
      /\ child' = (IF r = "startup_error" THEN "exited" ELSE "running")
      /\ wire' = wire /\ acks' = acks /\ srv' = srv
  BY DEF Spawn, At, network
<1>2. d' \in Memories /\ d'.step = r /\ d'.hand = d.hand
      /\ d'.interrupted = d.interrupted /\ d'.obs = d.obs
  BY <1>0, <1>1, GoToFacts DEF Steps
<1>3. /\ launches = 0 /\ launches' = 1 /\ j.phase = "launch_intent" /\ j.receipt \notin {"fenced", "exit"}
      /\ d.interrupted = NoHand
  BY <1>0, <1>1 DEF LaunchFits, StepFits, InterruptedFits, JournalOK, RowOK
<1>4. LaunchFits'
  BY <1>1, <1>2, <1>3 DEF StepFits, ProcessFits, InterruptedFits, LaunchFits
<1>5. Rests /\ TypesFit'
  BY <1>0, <1>1, <1>2 DEF Rests, TypesFit
<1>6. DeliveryFits'
  BY <1>0, <1>1, <1>5, DeliveryRests DEF ManagedInv
<1>7. Told' = Told
  BY <1>1, ToldSame
<1>8. Promise!Launch
  BY <1>1, <1>3, <1>7 DEF Promise!Launch
<1> QED
  BY <1>0, <1>1, <1>4, <1>5, <1>6, <1>8 DEF StepOK, ManagedInv, Promise!PromiseNext

\* Frames of a session that ended are answered no more.
LEMMA UnsentFacts ==
  ASSUME wire \subseteq Nat \X BOOLEAN
  PROVE  /\ Unsent \subseteq Nat \X BOOLEAN /\ {f[1] : f \in Unsent} \subseteq {f[1] : f \in wire}
         /\ \A f \in Unsent : ~f[2]
<1>1. \A f \in wire : f[1] \in Nat
  OBVIOUS
<1>2. ASSUME NEW f \in Unsent
      PROVE  f \in Nat \X BOOLEAN /\ ~f[2] /\ \E g \in wire : f[1] = g[1]
  <2>1. PICK g \in wire : f = <<g[1], FALSE>>
    BY DEF Unsent
  <2> QED
    BY <1>1, <2>1
<1> QED
  BY <1>2

\* The computer: a session lost, a crash, a restart.
LEMMA OutageSteps ==
  ASSUME ManagedInv,
         LoseSession \/ Crash \/ \E reboot, readable \in BOOLEAN : Restart(reboot, readable)
  PROVE  StepOK
<1>0. /\ d \in Memories /\ LaunchFits /\ JournalOK(j) /\ Steady(j) /\ TypesFit
      /\ Alike(j, j) /\ boot \in Nat /\ d.inc \in Nat /\ wire \subseteq Nat \X BOOLEAN
  BY SameAlike DEF ManagedInv, TypesFit, Memories
<1>1. CASE LoseSession
  <2> DEFINE e == [d EXCEPT !.sess = FALSE, !.obs = {}]
  <2>1. /\ e \in Memories /\ e.step = d.step /\ e.term = d.term /\ e.hand = d.hand
        /\ e.interrupted = d.interrupted /\ e.obs = {}
    BY <1>0 DEF Memories
  <2>2. /\ d' = Abort(e) /\ j' = j /\ child' = child /\ boot' = boot /\ launches' = launches
        /\ wire' = Unsent /\ acks' = {} /\ srv' = srv
    BY <1>1 DEF LoseSession, outside
  <2> HIDE DEF e
  <2>3. /\ d' \in Memories /\ d'.step = d.step /\ d'.term = d.term /\ d'.hand = d.hand
        /\ d'.interrupted = d.interrupted /\ d'.obs = {}
    BY <2>1, <2>2, AbortFacts
  <2>4. LaunchFits'
    BY <1>0, <2>2, <2>3 DEF LaunchFits, StepFits, ProcessFits, InterruptedFits
  <2>5. Rests /\ TypesFit' /\ \A f \in wire' : ~f[2]
    BY <1>0, <2>2, <2>3, UnsentFacts DEF Rests, TypesFit
  <2> QED
    BY <1>0, <2>2, <2>4, <2>5, QuietStep
<1>2. CASE Crash
  <2> DEFINE e == NewDaemon(d.inc, 0)
  <2>1. /\ e \in Memories /\ e.step = "idle" /\ e.hand = NoHand
        /\ e.interrupted = NoHand /\ e.obs = {}
    BY <1>0, NewDaemonFacts
  <2>2. /\ d' = [e EXCEPT !.up = FALSE, !.sess = FALSE]
        /\ j' = j /\ child' = child /\ boot' = boot /\ launches' = launches
        /\ wire' = Unsent /\ acks' = {} /\ srv' = srv
    BY <1>2 DEF Crash, outside
  <2> HIDE DEF e
  <2>3. /\ d' \in Memories /\ d'.step = "idle" /\ d'.hand = NoHand
        /\ d'.interrupted = NoHand /\ d'.obs = {}
    BY <2>1, <2>2 DEF Memories
  <2>4. LaunchFits'
    BY <1>0, <2>2, <2>3 DEF LaunchFits, StepFits, ProcessFits, InterruptedFits
  <2>5. Rests /\ TypesFit' /\ \A f \in wire' : ~f[2]
    BY <1>0, <2>2, <2>3, UnsentFacts DEF Rests, TypesFit
  <2> QED
    BY <1>0, <2>2, <2>4, <2>5, QuietStep
<1>3. ASSUME NEW reboot \in BOOLEAN, NEW readable \in BOOLEAN, Restart(reboot, readable)
      PROVE  StepOK
  <2>1. /\ boot' = (IF reboot THEN boot + 1 ELSE boot)
        /\ child' = (IF reboot /\ child = "running" THEN "exited" ELSE child)
        /\ d' = NewDaemon(d.inc + 1, IF readable THEN boot' ELSE 0)
        /\ j' = j /\ launches' = launches /\ wire' = wire /\ acks' = acks /\ srv' = srv
    BY <1>3 DEF Restart, network
  <2>2. boot' \in Nat /\ d.inc + 1 \in Nat /\ (IF readable THEN boot' ELSE 0) \in Nat
    BY <1>0, <2>1
  <2>3. /\ d' \in Memories /\ d'.step = "idle" /\ d'.hand = NoHand
        /\ d'.interrupted = NoHand /\ d'.obs = {}
    BY <2>1, <2>2, NewDaemonFacts
  <2>4. LaunchFits'
    BY <1>0, <2>1, <2>3 DEF LaunchFits, StepFits, ProcessFits, InterruptedFits
  <2>5. Rests /\ TypesFit'
    BY <1>0, <2>1, <2>2, <2>3 DEF Rests, TypesFit
  <2> QED
    BY <1>0, <2>1, <2>4, <2>5, QuietStep
<1> QED
  BY <1>1, <1>2, <1>3

-------------------------------------------------------------------------------
(* Steps of the launch row *)

\* Only the row changes and the run is as much on course as it was.
LEMMA RowStep ==
  ASSUME ManagedInv, j' \in Journals, j'.out = j.out, j'.outcome = j.outcome,
         j'.corrected = j.corrected, RowOK(j'), OnCourse(j') => OnCourse(j),
         (j'.receipt = "fenced") = (j.receipt = "fenced"),
         outside' = outside, network' = network,
         d' \in Memories, d'.hand \in {d.hand, NoHand}, d'.interrupted = d.interrupted,
         d'.obs = d.obs, LaunchFits'
  PROVE  StepOK
<1>1. JournalOK(j) /\ Steady(j) /\ TypesFit
  BY DEF ManagedInv
<1>2. JournalOK(j') /\ Steady(j') /\ Alike(j, j')
  BY <1>1, RowMoves, SteadySame, SameAlike
<1>3. boot' = boot /\ launches' = launches /\ wire' = wire /\ acks' = acks /\ srv' = srv
  BY DEF outside, network
<1>4. Rests /\ TypesFit'
  BY <1>1, <1>3 DEF Rests, TypesFit
<1> QED
  BY <1>2, <1>3, <1>4, QuietStep

\* The launch row is admitted, advances and is started.
LEMMA RowSteps ==
  ASSUME ManagedInv,
         \/ RunStart \/ Advance("admitted", "preparing") \/ Advance("preparing", "launch_intent")
         \/ RecordStarted
  PROVE  StepOK
<1>0. /\ d \in Memories /\ LaunchFits /\ JournalOK(j) /\ j \in Journals /\ RowOK(j) /\ d.inc \in Nat
  BY DEF ManagedInv, TypesFit, JournalOK, Memories
<1>1. CASE RunStart
  <2>0. outside' = outside /\ network' = network /\ d.step = "idle"
    BY <1>1 DEF RunStart, Journal, At
  <2>1. CASE Fresh(j)
    <3>1. j.phase = "none" /\ j' = Admitted(j, d.inc) /\ GoTo("admitted")
      BY <1>1, <2>1 DEF RunStart, Fresh
    <3>2. /\ j' \in Journals /\ j'.phase = "admitted" /\ j'.out = j.out /\ j'.outcome = j.outcome
          /\ j'.corrected = j.corrected /\ j'.abort = j.abort /\ j'.receipt = j.receipt
      BY <1>0, <3>1 DEF Admitted, Journals, Phases
    <3>3. d' \in Memories /\ d'.step = "admitted" /\ d'.hand = d.hand
          /\ d'.interrupted = d.interrupted /\ d'.obs = d.obs
      BY <1>0, <3>1, GoToFacts DEF Steps
    <3>4. RowOK(j') /\ (OnCourse(j') => OnCourse(j))
      BY <1>0, <3>1, <3>2 DEF RowOK, OnCourse
    <3>5. LaunchFits'
      BY <1>0, <2>0, <3>1, <3>2, <3>3 DEF LaunchFits, StepFits, ProcessFits, InterruptedFits, outside
    <3> QED
      BY <2>0, <3>2, <3>3, <3>4, <3>5, RowStep
  <2>2. CASE ~Fresh(j)
    <3>1. j' = j /\ GoTo("refused")
      BY <1>1, <2>2 DEF RunStart
    <3>2. d' \in Memories /\ d'.step = "refused" /\ d'.hand = d.hand
          /\ d'.interrupted = d.interrupted /\ d'.obs = d.obs
      BY <1>0, <3>1, GoToFacts DEF Steps
    <3>3. LaunchFits'
      BY <1>0, <2>0, <3>1, <3>2 DEF LaunchFits, StepFits, ProcessFits, InterruptedFits, outside
    <3> QED
      BY <2>0, <3>1, <3>2, <3>3, MemoryStep
  <2> QED
    BY <2>1, <2>2
<1>2. ASSUME NEW from, NEW to,
             \/ from = "admitted" /\ to = "preparing"
             \/ from = "preparing" /\ to = "launch_intent",
             Advance(from, to)
      PROVE  StepOK
  <2>1. /\ d.step = from /\ j' = [j EXCEPT !.phase = to] /\ GoTo(to)
        /\ outside' = outside /\ network' = network
    BY <1>2 DEF Advance, Journal, At, Advanced
  <2>2. j.phase = from /\ launches = 0
    BY <1>0, <1>2, <2>1 DEF LaunchFits, StepFits, ProcessFits
  <2>3. /\ j' \in Journals /\ j'.phase = to /\ j'.out = j.out /\ j'.outcome = j.outcome
        /\ j'.corrected = j.corrected /\ j'.abort = j.abort /\ j'.receipt = j.receipt
    BY <1>0, <1>2, <2>1 DEF Journals, Phases
  <2>4. d' \in Memories /\ d'.step = to /\ d'.hand = d.hand
        /\ d'.interrupted = d.interrupted /\ d'.obs = d.obs
    BY <1>0, <1>2, <2>1, GoToFacts DEF Steps
  <2>5. RowOK(j') /\ (OnCourse(j') => OnCourse(j))
    BY <1>0, <1>2, <2>2, <2>3 DEF RowOK, OnCourse
  <2>6. LaunchFits'
    BY <1>0, <1>2, <2>1, <2>2, <2>3, <2>4 DEF LaunchFits, StepFits, ProcessFits, InterruptedFits, outside
  <2> QED
    BY <2>1, <2>3, <2>4, <2>5, <2>6, RowStep
<1>3. CASE RecordStarted
  <2> DEFINE e == [d EXCEPT !.failure = TRUE]
             g == [d EXCEPT !.step = "streaming", !.ctl = FALSE]
  <2>1. /\ d.step = "handle" /\ j' = [j EXCEPT !.phase = "started", !.receipt = "accepted"]
        /\ d' \in {Failing(e), g} /\ outside' = outside /\ network' = network
    BY <1>3 DEF RecordStarted, Journal, At, Started
  <2>2. j.phase = "launch_intent" /\ launches = 1 /\ d.interrupted = NoHand
    BY <1>0, <2>1 DEF LaunchFits, StepFits, InterruptedFits
  <2>3. /\ j' \in Journals /\ j'.phase = "started" /\ j'.out = j.out /\ j'.outcome = j.outcome
        /\ j'.corrected = j.corrected /\ j'.abort = j.abort /\ j'.receipt = "accepted"
    BY <1>0, <2>1 DEF Journals, Phases
  <2>4. e \in Memories /\ e.interrupted = d.interrupted /\ e.obs = d.obs
    BY <1>0 DEF Memories
  <2>5. g \in Memories /\ g.step = "streaming" /\ g.interrupted = d.interrupted /\ g.obs = d.obs
        /\ g.hand = d.hand
    BY <1>0 DEF Memories, Steps
  <2> HIDE DEF e, g
  <2>6. d' \in Memories /\ d'.step \in {"failing", "streaming"} /\ d'.hand \in {d.hand, NoHand}
        /\ d'.interrupted = d.interrupted /\ d'.obs = d.obs
    BY <2>1, <2>4, <2>5, FailingFacts
  <2>7. /\ RowOK(j') /\ (OnCourse(j') => OnCourse(j)) /\ j.receipt # "fenced"
    BY <1>0, <2>2, <2>3 DEF RowOK, OnCourse
  <2>8. LaunchFits'
    BY <1>0, <2>1, <2>2, <2>3, <2>6 DEF LaunchFits, StepFits, ProcessFits, InterruptedFits, outside
  <2> QED
    BY <2>1, <2>3, <2>6, <2>7, <2>8, RowStep
<1> QED
  BY <1>1, <1>2, <1>3

\* The abort is stored, or cannot be.
LEMMA FailureStep ==
  ASSUME ManagedInv, HandleFailure
  PROVE  StepOK
<1>0. /\ d \in Memories /\ LaunchFits /\ JournalOK(j) /\ Steady(j) /\ j \in Journals
  BY DEF ManagedInv, TypesFit, JournalOK
<1>1. /\ d.step = "failing" /\ j' \in {j, Aborted(j)} /\ outside' = outside /\ network' = network
  BY DEF HandleFailure, At
<1>2. /\ d' \in Memories /\ d'.step = "aborting" /\ d'.term \in {"failed", "cancelled"}
      /\ d'.hand = d.hand /\ d'.interrupted = d.interrupted /\ d'.obs = d.obs
  <2>1. PICK t : /\ t \in {"failed", "cancelled"}
                 /\ d' = [d EXCEPT !.step = "aborting", !.failure = TRUE, !.term = t]
    BY DEF HandleFailure
  <2> QED
    BY <1>0, <2>1 DEF Memories, Steps, Results
<1>3. j.phase \in {"launch_intent", "started"} /\ launches = 1
  BY <1>0, <1>1 DEF LaunchFits, StepFits
<1>4. j.outcome = "none"
  BY <1>0, <1>3, OpenOutcome
<1>5. /\ JournalOK(Aborted(j)) /\ Aborted(j).out = j.out /\ Aborted(j).phase = j.phase
      /\ Aborted(j).corrected = j.corrected /\ Aborted(j).outcome = j.outcome /\ Aborted(j).abort
      /\ Aborted(j).receipt = j.receipt
  BY <1>0, <1>4, AbortedFollows DEF Follows
<1>6. /\ JournalOK(j') /\ j'.out = j.out /\ j'.phase = j.phase /\ j'.corrected = j.corrected
      /\ j'.outcome = j.outcome /\ j'.receipt = j.receipt /\ (OnCourse(j') => OnCourse(j))
  BY <1>0, <1>1, <1>5 DEF OnCourse
<1>7. LaunchFits'
  BY <1>0, <1>1, <1>2, <1>3, <1>6
     DEF LaunchFits, StepFits, ProcessFits, InterruptedFits, outside, Results
<1> QED
  BY <1>1, <1>2, <1>6, <1>7, RowStep DEF JournalOK

\* A stop reaches the journal; a run it has never seen is fenced.
LEMMA JournalStopStep ==
  ASSUME ManagedInv, JournalStop
  PROVE  StepOK
<1>0. /\ d \in Memories /\ LaunchFits /\ JournalOK(j) /\ Steady(j) /\ j \in Journals /\ RowOK(j)
      /\ TypesFit
  BY DEF ManagedInv, TypesFit, JournalOK
<1>1. /\ d' = [d EXCEPT !.stopReq = FALSE] /\ j' = Stopped(j)
      /\ outside' = outside /\ network' = network
  BY DEF JournalStop
<1>2. /\ d' \in Memories /\ d'.step = d.step /\ d'.term = d.term
      /\ d'.hand = d.hand /\ d'.interrupted = d.interrupted /\ d'.obs = d.obs
  BY <1>0, <1>1 DEF Memories
<1>3. CASE j.phase # "none"
  <2>1. /\ j' \in Journals /\ j'.phase = j.phase /\ j'.out = j.out /\ j'.outcome = j.outcome
        /\ j'.corrected = j.corrected /\ j'.abort = j.abort /\ j'.receipt = j.receipt
    BY <1>0, <1>1, <1>3 DEF Stopped, Journals
  <2>2. RowOK(j') /\ (OnCourse(j') => OnCourse(j))
    BY <1>0, <2>1 DEF RowOK, OnCourse, SuccessPath
  <2>3. LaunchFits'
    BY <1>0, <1>1, <1>2, <2>1 DEF LaunchFits, StepFits, ProcessFits, InterruptedFits, outside
  <2> QED
    BY <1>1, <1>2, <2>1, <2>2, <2>3, RowStep
<1>4. CASE j.phase = "none"
  <2>1. /\ j' \in Journals /\ j'.phase = "closed" /\ j'.out = j.out /\ j'.outcome = j.outcome
        /\ j'.corrected = j.corrected /\ j'.abort = j.abort /\ j'.receipt = "fenced"
    BY <1>0, <1>1, <1>4 DEF Stopped, Journals, Phases
  <2>2. /\ launches = 0 /\ j.outcome = "none" /\ j.receipt \in {"none", "accepted"}
    BY <1>0, <1>4, OpenOutcome DEF LaunchFits, ProcessFits, RowOK
  <2>3. RowOK(j') /\ ~OnCourse(j')
    BY <1>0, <1>4, <2>1, <2>2 DEF RowOK, OnCourse, SuccessPath
  <2>4. d.step \in {"idle", "refused", "lost"}
    BY <1>0, <1>4, <2>2 DEF LaunchFits, StepFits, Memories, Steps
  <2>5. LaunchFits'
    BY <1>0, <1>1, <1>2, <2>1, <2>2, <2>4 DEF LaunchFits, StepFits, ProcessFits, InterruptedFits, outside
  <2>6. JournalOK(j') /\ Steady(j') /\ Alike(j, j')
    BY <1>0, <2>1, <2>3, RowMoves, SteadySame, SameAlike
  <2>7. boot' = boot /\ launches' = launches /\ wire' = wire /\ acks' = acks /\ srv' = srv
    BY <1>1 DEF outside, network
  <2>8. Rests /\ TypesFit'
    BY <1>0, <1>2, <2>7 DEF Rests, TypesFit
  <2>9. DeliveryFits'
    BY <1>0, <2>3, <2>6, <2>8, DeliveryRests DEF ManagedInv
  <2>10. Told' = Told
    BY <2>1, <2>7, ToldSame
  <2>11. Promise!Fence
    BY <2>1, <2>2, <2>7, <2>10 DEF Promise!Fence
  <2> QED
    BY <2>5, <2>6, <2>7, <2>8, <2>9, <2>11 DEF StepOK, ManagedInv, Promise!PromiseNext
<1> QED
  BY <1>3, <1>4

-------------------------------------------------------------------------------
(* Steps of the outbox *)

\* Where the start is, its row and its process stay.
LEMMA LaunchStays ==
  ASSUME LaunchFits, d'.step = d.step, d'.term = d.term, d'.interrupted \in {d.interrupted, NoHand},
         j'.phase = j.phase, j'.receipt = j.receipt, j'.outcome = j.outcome, outside' = outside
  PROVE  LaunchFits'
BY DEF outside, LaunchFits, StepFits, ProcessFits, InterruptedFits

\* A live delivery fails the run.
LEMMA LaunchFails ==
  ASSUME LaunchFits, d.step = "streaming", d'.step = "failing",
         d'.interrupted = d.interrupted,
         j'.phase = j.phase, j'.receipt = j.receipt, j'.outcome = j.outcome, outside' = outside
  PROVE  LaunchFits'
BY DEF outside, LaunchFits, StepFits, ProcessFits, InterruptedFits

\* The outbox is written to and the outcome stays.
LEMMA OutboxStep ==
  ASSUME ManagedInv, JournalOK(j'), Steady(j'), DeliveryFits', LaunchFits', TypesFit',
         \A i \in DOMAIN j.out : j'.out[i].role = j.out[i].role,
         j'.receipt = j.receipt, j'.outcome = j.outcome,
         launches' = launches, wire' = wire, srv' = srv
  PROVE  StepOK
<1>1. Told' = Told
  BY ToldSame
<1> QED
  BY <1>1 DEF StepOK, ManagedInv

\* The process produces an event, or the outbox takes none.
LEMMA AppendSteps ==
  ASSUME ManagedInv, AppendLive
  PROVE  StepOK
<1>0. /\ d \in Memories /\ LaunchFits /\ JournalOK(j) /\ Steady(j) /\ TypesFit
  BY DEF ManagedInv, TypesFit
<1>1. /\ d.step = "streaming" /\ outside' = outside /\ network' = network
      /\ Cardinality({i \in DOMAIN j.out : j.out[i].role = "event"}) < MaxLive
  BY DEF AppendLive, Journal, At, LiveEvents
<1>2. j.phase = "started"
  BY <1>0, <1>1 DEF LaunchFits, StepFits
<1>3. CASE CanAppend(j)
  <2>1. j' = Appended(j) /\ d' = [d EXCEPT !.sending = TRUE]
    BY <1>3 DEF AppendLive
  <2>2. /\ d' \in Memories /\ d'.step = d.step /\ d'.term = d.term /\ d'.hand = d.hand
        /\ d'.interrupted = d.interrupted /\ d'.obs = d.obs
    BY <1>0, <2>1 DEF Memories
  <2>3. /\ JournalOK(j') /\ Steady(j') /\ Extends(j, j')
        /\ j'.phase = j.phase /\ j'.receipt = j.receipt /\ j'.outcome = j.outcome
        /\ j'.abort = j.abort /\ j'.corrected = j.corrected
    BY <1>0, <1>1, <1>2, <2>1, AppendedExtends
  <2>4. (OnCourse(j') => OnCourse(j)) /\ Alike(j, j')
    BY <2>3, ExtendsAlike DEF OnCourse, SuccessPath
  <2>5. LaunchFits'
    BY <1>0, <1>1, <2>2, <2>3, LaunchStays
  <2>6. /\ Rests /\ TypesFit' /\ launches' = launches /\ wire' = wire
    BY <1>0, <1>1, <2>2 DEF Rests, TypesFit, outside, network
  <2> QED
    BY <2>3, <2>4, <2>5, <2>6, QuietStep
<1>4. CASE ~CanAppend(j)
  BY <1>4, <1>0, FailingFacts, <1>1, LaunchFails, MemoryStep DEF AppendLive
<1> QED
  BY <1>3, <1>4

\* The settlement: the Decide of RunPromise.
LEMMA SettleSteps ==
  ASSUME ManagedInv,
         Settle("settling", "returned_handle") \/ Settle("startup_error", "startup_error")
  PROVE  StepOK
<1>0. /\ d \in Memories /\ LaunchFits /\ JournalOK(j) /\ Steady(j) /\ TypesFit
  BY DEF ManagedInv, TypesFit
<1> SUFFICES ASSUME NEW from, NEW proof, Settle(from, proof),
                    \/ from = "settling" /\ proof = "returned_handle"
                    \/ from = "startup_error" /\ proof = "startup_error"
             PROVE  StepOK
  OBVIOUS
<1> DEFINE o == IF proof = "returned_handle" THEN d.term
                ELSE IF d.ctl THEN "cancelled" ELSE "failed"
<1>1. /\ d.step = from /\ outside' = outside /\ network' = network
      /\ IF CanClose(j, proof, o)
         THEN j' = Closed(j, o) /\ d' = Ended([d EXCEPT !.cancelled = FALSE, !.stopReq = FALSE], "closed")
         ELSE j' = j /\ d' = [Ended(d, "lost") EXCEPT !.usable = FALSE]
  BY DEF Settle, Journal, At
<1>2. /\ o \in Results /\ launches = 1 /\ child = "exited"
      /\ (d.interrupted # NoHand => o # "completed")
  BY <1>0, <1>1 DEF LaunchFits, StepFits, InterruptedFits, Results
<1> HIDE DEF o
<1>3. CASE CanClose(j, proof, o)
  <2>1. /\ JournalOK(j') /\ Steady(j') /\ Extends(j, j')
        /\ j'.phase = "closed" /\ j'.receipt = "exit" /\ j'.outcome = o
        /\ j.outcome = "none" /\ ~j.corrected /\ (OnCourse(j') => OnCourse(j))
        /\ j.phase \in {"started", "launch_intent"}
    BY <1>0, <1>1, <1>2, <1>3, ClosedExtends
  <2> DEFINE e == [d EXCEPT !.cancelled = FALSE, !.stopReq = FALSE]
  <2>2. e \in Memories /\ e.hand = d.hand /\ e.interrupted = d.interrupted /\ e.obs = d.obs
    BY <1>0 DEF Memories
  <2>3. d' = Ended(e, "closed")
    BY <1>1, <1>3
  <2> HIDE DEF e
  <2>4. /\ d' \in Memories /\ d'.step = "closed" /\ d'.hand = d.hand
        /\ d'.interrupted = d.interrupted /\ d'.obs = d.obs
    BY <2>2, <2>3, EndedFacts DEF Steps
  <2>5. /\ child' = child /\ launches' = launches /\ boot' = boot
        /\ wire' = wire /\ acks' = acks /\ srv' = srv
    BY <1>1 DEF outside, network
  <2>6. LaunchFits'
    BY <1>0, <1>2, <2>1, <2>4, <2>5 DEF LaunchFits, StepFits, ProcessFits, InterruptedFits
  <2>7. Rests /\ TypesFit'
    BY <1>0, <2>4, <2>5 DEF Rests, TypesFit
  <2>8. DeliveryFits'
    BY <1>0, <2>1, <2>7, ExtendsAlike, DeliveryRests DEF ManagedInv
  <2>9. \A i \in srv : j.out[i].role = "event" /\ j'.out[i] = j.out[i]
    BY <1>0, <2>1, Positions DEF ManagedInv, DeliveryFits, NetworkFits, Extends
  <2>10. Told' = Told
    BY <2>5, <2>9 DEF Told
  <2>11. j.receipt # "fenced" /\ j'.receipt # "fenced"
    BY <1>0, <2>1 DEF JournalOK, RowOK
  <2>12. Promise!Decide(o)
    BY <1>2, <2>1, <2>5, <2>10, <2>11 DEF Promise!Decide
  <2>13. Promise!PromiseNext
    BY <1>2, <2>12 DEF Promise!PromiseNext, Results
  <2> QED
    BY <2>1, <2>5, <2>6, <2>7, <2>8, <2>13 DEF StepOK, ManagedInv
<1>4. CASE ~CanClose(j, proof, o)
  <2>1. j' = j /\ d' = [Ended(d, "lost") EXCEPT !.usable = FALSE]
    BY <1>1, <1>4
  <2> DEFINE e == Ended(d, "lost")
  <2>2. /\ e \in Memories /\ e.step = "lost" /\ e.hand = d.hand
        /\ e.interrupted = d.interrupted /\ e.obs = d.obs
    BY <1>0, EndedFacts DEF Steps
  <2> HIDE DEF e
  <2>3. /\ d' \in Memories /\ d'.step = "lost" /\ d'.hand = d.hand
        /\ d'.interrupted = d.interrupted /\ d'.obs = d.obs
    BY <2>1, <2>2 DEF e, Memories
  <2>4. d.interrupted # NoHand => j.outcome # "completed"
    BY <1>0 DEF LaunchFits, InterruptedFits
  <2>5. LaunchFits'
    BY <1>0, <1>1, <2>1, <2>3, <2>4 DEF LaunchFits, StepFits, ProcessFits, InterruptedFits, outside
  <2> QED
    BY <1>1, <2>1, <2>3, <2>5, MemoryStep
<1> QED
  BY <1>3, <1>4

\* The window of an event passes.
LEMMA DeadlineSteps ==
  ASSUME ManagedInv, NEW i, DeadlinePasses(i)
  PROVE  StepOK
<1>0. LaunchFits /\ TypesFit
  BY DEF ManagedInv
<1>1. /\ JournalOK(j') /\ Alike(j, j') /\ Steady(j') /\ (OnCourse(j') => OnCourse(j))
      /\ j'.phase = j.phase /\ j'.receipt = j.receipt /\ j'.outcome = j.outcome
  BY DeliveryDue
<1>2. d' = d /\ outside' = outside /\ network' = network
  BY DEF DeadlinePasses
<1>3. LaunchFits'
  BY <1>0, <1>1, <1>2, LaunchStays
<1>4. Rests /\ TypesFit' /\ launches' = launches /\ wire' = wire
  BY <1>0, <1>2 DEF Rests, TypesFit, outside, network
<1> QED
  BY <1>1, <1>3, <1>4, QuietStep

\* A live delivery claims its event, or is refused and fails the run.
LEMMA LiveClaimSteps ==
  ASSUME ManagedInv, LiveClaim
  PROVE  StepOK
<1>0. /\ d \in Memories /\ LaunchFits /\ JournalOK(j) /\ Steady(j) /\ TypesFit /\ d.clock \in Nat
  BY DEF ManagedInv, TypesFit, Memories
<1>1. /\ d.step = "streaming" /\ d.hand = NoHand /\ outside' = outside /\ network' = network
  BY DEF LiveClaim, Journal, At
<1>2. /\ j.phase = "started" /\ launches' = launches /\ boot' = boot
      /\ wire' = wire /\ acks' = acks /\ srv' = srv
  BY <1>0, <1>1 DEF LaunchFits, StepFits, outside, network
<1>3. CASE LiveClaimable(j, d.clock)
  <2> DEFINE i == LiveTarget(j)
             h == [i |-> i, a |-> Len(j'.out[i].attempts), st |-> "claimed"]
  <2>1. j' = ClaimEvent(j, i, d.clock) /\ d' = [d EXCEPT !.hand = h]
    BY <1>3 DEF LiveClaim
  <2>2. i \in Active(j) /\ ClaimOK(j, i, j') /\ Steady(j')
    BY <1>0, <1>2, <1>3, <2>1, LiveClaimIs
  <2> HIDE DEF i
  <2>3. h \in Hands
    <3>1. i \in Nat
      BY <1>0, <2>2, Positions DEF Active
    <3>2. Len(j'.out[i].attempts) \in Nat
      BY <2>2, OutFacts DEF ClaimOK, Active, JournalOK
    <3> QED
      BY <3>1, <3>2 DEF Hands, HandStates
  <2> HIDE DEF h
  <2>4. /\ d' \in Memories /\ d'.step = d.step /\ d'.term = d.term /\ d'.hand = h
        /\ d'.interrupted = d.interrupted /\ d'.obs = d.obs
    BY <1>0, <2>1, <2>3 DEF Memories
  <2>5. ExpiredOK(j, j)
    BY <1>0, NoTurn DEF Turn, ExpiredOK
  <2>6. DeliveryFits'
    BY <1>1, <2>2, <2>4, <2>5, DeliveryClaimed DEF h
  <2>7. /\ JournalOK(j') /\ j'.phase = j.phase /\ j'.receipt = j.receipt /\ j'.outcome = j.outcome
        /\ \A n \in DOMAIN j.out : j'.out[n].role = j.out[n].role
    BY <2>2 DEF ClaimOK, Follows
  <2>8. LaunchFits'
    BY <1>0, <1>1, <2>4, <2>7, LaunchStays
  <2>9. TypesFit'
    BY <1>0, <1>2, <2>4 DEF TypesFit
  <2> QED
    BY <1>2, <2>2, <2>6, <2>7, <2>8, <2>9, OutboxStep
<1>4. CASE ~LiveClaimable(j, d.clock)
  <2> DEFINE l == [j EXCEPT !.unclear = TRUE]
  <2>1. j' \in {j, Aborted(j), Aborted(l)} /\ d' = Failing(d)
    BY <1>4 DEF LiveClaim, LiveRefused
  <2>2. Turn(j, j, 0, 0, {}) /\ Turn(j, Aborted(j), 0, 0, {}) /\ Turn(j, Aborted(l), 0, 0, {})
    BY <1>0, <1>2, NoTurn, LatchedTurn
  <2>3. Aborted(j).out = j.out /\ Aborted(l).out = j.out
    BY <1>0 DEF Aborted, JournalOK, Journals
  <2> HIDE DEF l
  <2>4. Turn(j, j', 0, 0, {}) /\ j'.out = j.out
    BY <2>1, <2>2, <2>3
  <2>5. /\ JournalOK(j') /\ j'.phase = j.phase /\ j'.receipt = j.receipt /\ j'.outcome = j.outcome
        /\ (OnCourse(j') => OnCourse(j))
    BY <2>4 DEF Turn, Follows, Course
  <2>6. Steady(j') /\ Alike(j, j')
    BY <1>0, <2>4, <2>5, SteadySame, SameAlike
  <2>7. /\ d' \in Memories /\ d'.step = "failing" /\ d'.hand = NoHand
        /\ d'.interrupted = d.interrupted /\ d'.obs = d.obs
    BY <1>0, <2>1, FailingFacts
  <2>8. LaunchFits'
    BY <1>0, <1>1, <2>5, <2>7, LaunchFails
  <2>9. Rests /\ TypesFit'
    BY <1>0, <1>2, <2>7 DEF Rests, TypesFit
  <2> QED
    BY <1>2, <2>5, <2>6, <2>8, <2>9, QuietStep
<1> QED
  BY <1>3, <1>4

-------------------------------------------------------------------------------
(* Steps of an answer *)

\* What the delivery loop does once its answer is written.
LEMMA ContinueFacts ==
  ASSUME NEW next \in Memories, next.step = d.step, next.term = d.term,
         next.interrupted = d.interrupted, Continue(next), LaunchFits,
         j'.phase = j.phase, j'.receipt = j.receipt, j'.outcome = j.outcome, outside' = outside
  PROVE  /\ LaunchFits' /\ d' \in Memories /\ d'.hand \in {next.hand, NoHand}
         /\ d'.interrupted = d.interrupted /\ d'.obs = next.obs
BY LaunchStays, FailingFacts, LaunchFails DEF Continue

\* What an answer makes of the journal, live or closed.
LEMMA AnsweredTurn ==
  ASSUME JournalOK(j), NEW i, NEW a, AttemptKnown(j, i, a), NEW r, j' = Answered(i, a, r)
  PROVE  /\ Turn(j, j', i, a, IF r = "accepted" THEN {i} ELSE {})
         /\ j.out[i].due /\ r # "accepted" => DueOK(j, i, j')
BY ClosedAnswerTurn, DueAnswer, LiveAnswerTurn DEF Answered

\* Writing an answer is a step in order.
LEMMA AnswerStep ==
  ASSUME ManagedInv, NEW i, NEW a, NEW C, Answers(i, a, C),
         d.hand.st # "none" \/ d'.hand \in {d.hand, NoHand},
         d' \in Memories, boot' = boot, launches' = launches, LaunchFits'
  PROVE  StepOK
<1>0. JournalOK(j) /\ Steady(j) /\ TypesFit
  BY DEF ManagedInv
<1>1. /\ Turn(j, j', i, a, C) /\ AttemptKnown(j, i, a)
      /\ wire' = wire /\ acks' \subseteq acks /\ srv' = srv
  BY DEF Answers
<1>2. /\ JournalOK(j') /\ j'.receipt = j.receipt /\ j'.outcome = j.outcome
      /\ \A n \in DOMAIN j.out : j'.out[n].role = j.out[n].role
  BY <1>1 DEF Turn, Follows
<1>3. Steady(j')
  BY <1>0, <1>1, SteadyTurn
<1>4. DeliveryFits'
  BY DeliveryAnswered
<1>5. TypesFit'
  BY <1>0, <1>1 DEF TypesFit
<1> QED
  BY <1>1, <1>2, <1>3, <1>4, <1>5, OutboxStep

\* The attempt in hand fails: no session, or no answer in its window.
LEMMA AttemptSteps ==
  ASSUME ManagedInv, AttemptFails \/ AttemptTimesOut
  PROVE  StepOK
<1> DEFINE i == d.hand.i
           a == d.hand.a
           r == IF AttemptFails THEN "transport_failure" ELSE "receipt_timeout"
           next == IF AttemptFails THEN [d EXCEPT !.hand.st = "retry"] ELSE [d EXCEPT !.hand = NoHand]
           C == {}
<1>0. /\ d \in Memories /\ d.hand \in Hands /\ LaunchFits /\ JournalOK(j) /\ DeliveryFits
      /\ NoHand \in Hands
  BY DEF ManagedInv, TypesFit, Memories, NoHand, Hands, HandStates
<1>1. /\ d.hand.st # "none" /\ j' = Answered(i, a, r) /\ Continue(next)
      /\ outside' = outside /\ network' = network /\ r # "accepted"
      /\ AttemptFails => d.hand.st = "claimed" \/ <<i, a>> \notin d.obs
      /\ ~AttemptFails => j.out[i].due
  BY DEF AttemptFails, AttemptTimesOut, Due
<1>2. AttemptKnown(j, i, a)
  BY <1>0, <1>1, NoHandFacts DEF DeliveryFits, HandsFit
<1>3. /\ next \in Memories /\ next.step = d.step /\ next.term = d.term
      /\ next.interrupted = d.interrupted /\ next.obs = d.obs
      /\ next.hand \in {[d.hand EXCEPT !.st = "retry"], NoHand}
  <2> DEFINE h == [d.hand EXCEPT !.st = "retry"]
             n1 == [d EXCEPT !.hand = h]
             n2 == [d EXCEPT !.hand = NoHand]
  <2>1. h \in Hands
    BY <1>0 DEF Hands, HandStates
  <2>2. [d EXCEPT !.hand.st = "retry"] = n1
    BY <1>0 DEF Memories
  <2>3. next \in {n1, n2}
    BY <2>2
  <2> HIDE DEF h, next
  <2>4. /\ n1 \in Memories /\ n1.step = d.step /\ n1.term = d.term
        /\ n1.interrupted = d.interrupted /\ n1.obs = d.obs /\ n1.hand = h
    BY <1>0, <2>1 DEF Memories
  <2>5. /\ n2 \in Memories /\ n2.step = d.step /\ n2.term = d.term
        /\ n2.interrupted = d.interrupted /\ n2.obs = d.obs /\ n2.hand = NoHand
    BY <1>0 DEF Memories
  <2> HIDE DEF n1, n2
  <2> QED
    BY <2>3, <2>4, <2>5 DEF h
<1> HIDE DEF next, r, i, a
<1>4. Turn(j, j', i, a, C) /\ (j.out[i].due => DueOK(j, i, j'))
  BY <1>0, <1>1, <1>2, AnsweredTurn
<1>5. j'.phase = j.phase /\ j'.receipt = j.receipt /\ j'.outcome = j.outcome
      /\ (OnCourse(j') => OnCourse(j))
  BY <1>4 DEF Turn, Follows, Course
<1>6. /\ LaunchFits' /\ d' \in Memories /\ d'.hand \in {next.hand, NoHand}
      /\ d'.interrupted = d.interrupted /\ d'.obs = d.obs
  BY <1>0, <1>1, <1>3, <1>5, ContinueFacts
<1>7. d'.hand.st # "claimed"
  BY <1>0, <1>3, <1>6, NoHandFacts DEF Hands
<1>8. OnCourse(j') /\ <<i, a>> \in d'.obs => j'.out[i].committed \/ j'.out = j.out
  BY <1>0, <1>1, <1>5, <1>6, <1>4 DEF DeliveryFits, ClaimFits, i, a, DueOK
<1>9. /\ boot' = boot /\ launches' = launches /\ wire' = wire /\ acks' = acks /\ srv' = srv
  BY <1>1 DEF outside, network
<1>10. Answers(i, a, C)
  BY <1>2, <1>3, <1>4, <1>6, <1>7, <1>8, <1>9 DEF Answers
<1> QED
  BY <1>1, <1>6, <1>9, <1>10, AnswerStep

\* A receipt is written down, whoever waits for it.
LEMMA ReceiptSteps ==
  ASSUME ManagedInv, NEW o \in d.obs, NEW s \in {"accepted", "rejected"}, OnReceipt(o[1], o[2], s)
  PROVE  StepOK
<1> DEFINE i == o[1]
           a == o[2]
           C == IF s = "accepted" THEN {i} ELSE {}
           seen == [d EXCEPT !.obs = @ \ {<<i, a>>}]
           next == [seen EXCEPT !.hand = NoHand, !.sending = FALSE]
<1>0. /\ d \in Memories /\ d.obs \in SUBSET (Nat \X Nat) /\ LaunchFits /\ JournalOK(j)
      /\ DeliveryFits /\ NoHand \in Hands
  BY DEF ManagedInv, TypesFit, Memories, NoHand, Hands, HandStates
<1>1. /\ <<i, a>> \in d.obs /\ <<i, s>> \in acks /\ acks' = acks \ {<<i, s>>}
      /\ j' = Answered(i, a, s) /\ (Continue(next) \/ d' = seen)
      /\ outside' = outside /\ wire' = wire /\ srv' = srv
  BY DEF OnReceipt
<1>2. AttemptKnown(j, i, a)
  BY <1>0 DEF DeliveryFits, HandsFit
<1>3. C \subseteq srv
  BY <1>0, <1>1 DEF DeliveryFits, NetworkFits
<1>4. /\ seen \in Memories /\ seen.step = d.step /\ seen.term = d.term /\ seen.hand = d.hand
      /\ seen.interrupted = d.interrupted /\ seen.obs = d.obs \ {<<i, a>>}
  <2> DEFINE rest == d.obs \ {<<i, a>>}
  <2>1. rest \in SUBSET (Nat \X Nat)
    BY <1>0
  <2>2. seen = [d EXCEPT !.obs = rest]
    BY <1>0 DEF Memories
  <2> HIDE DEF rest
  <2>3. /\ seen \in Memories /\ seen.step = d.step /\ seen.term = d.term /\ seen.hand = d.hand
        /\ seen.interrupted = d.interrupted /\ seen.obs = rest
    BY <1>0, <2>1, <2>2 DEF Memories
  <2> QED
    BY <2>3 DEF rest
<1> HIDE DEF seen
<1>5. /\ next \in Memories /\ next.step = d.step /\ next.term = d.term /\ next.hand = NoHand
      /\ next.interrupted = d.interrupted /\ next.obs = d.obs \ {<<i, a>>}
  BY <1>0, <1>4 DEF Memories
<1> HIDE DEF next, i, a
<1>6. Turn(j, j', i, a, C)
  BY <1>0, <1>1, <1>2, AnsweredTurn
<1>7. j'.phase = j.phase /\ j'.receipt = j.receipt /\ j'.outcome = j.outcome
  BY <1>6 DEF Turn, Follows
<1>8. /\ LaunchFits' /\ d' \in Memories /\ d'.hand \in {d.hand, NoHand}
      /\ d'.interrupted = d.interrupted /\ d'.obs = d.obs \ {<<i, a>>}
  BY <1>0, <1>1, <1>5, <1>7, ContinueFacts, <1>4, LaunchStays
<1> HIDE DEF C
<1>9. Answers(i, a, C)
  BY <1>1, <1>2, <1>3, <1>6, <1>8 DEF Answers
<1>10. boot' = boot /\ launches' = launches
  BY <1>1 DEF outside
<1> QED
  BY <1>8, <1>9, <1>10, AnswerStep

\* The settlement writes down that the claim it interrupted failed.
LEMMA InterruptedSteps ==
  ASSUME ManagedInv, DrainInterrupted
  PROVE  StepOK
<1> DEFINE i == d.interrupted.i
           a == d.interrupted.a
           C == {}
<1>0. /\ d \in Memories /\ LaunchFits /\ JournalOK(j) /\ DeliveryFits /\ NoHand \in Hands
  BY DEF ManagedInv, TypesFit, NoHand, Hands, HandStates
<1>1. /\ d.step = "closed" /\ d.interrupted # NoHand
      /\ j' = ClosedAnswer(j, d.clock, i, a, "transport_failure")
      /\ d' = [d EXCEPT !.interrupted = NoHand]
      /\ outside' = outside /\ network' = network
  BY DEF DrainInterrupted, Journal, At
<1>2. j.phase = "closed" /\ ~OnCourse(j)
  <2>1. j.receipt = "exit"
    BY <1>0, <1>1 DEF LaunchFits, StepFits
  <2>2. j.phase = "closed"
    BY <1>0, <2>1 DEF JournalOK, RowOK
  <2>3. j.outcome # "completed"
    BY <1>0, <1>1 DEF LaunchFits, InterruptedFits
  <2> QED
    BY <2>2, <2>3 DEF OnCourse, SuccessPath
<1>3. AttemptKnown(j, i, a)
  BY <1>0, <1>1 DEF DeliveryFits, HandsFit
<1>4. /\ d' \in Memories /\ d'.step = d.step /\ d'.term = d.term /\ d'.hand = d.hand
      /\ d'.interrupted = NoHand /\ d'.obs = d.obs
  BY <1>0, <1>1 DEF Memories
<1> HIDE DEF i, a
<1>5. Turn(j, j', i, a, C)
  BY <1>0, <1>2, <1>3, ClosedAnswerTurn, <1>1
<1>6. /\ j'.phase = j.phase /\ j'.receipt = j.receipt /\ j'.outcome = j.outcome /\ ~OnCourse(j')
  BY <1>2, <1>5 DEF Turn, Follows, Course
<1>7. LaunchFits'
  BY <1>0, <1>1, <1>4, <1>6, LaunchStays
<1>8. /\ boot' = boot /\ launches' = launches /\ wire' = wire /\ acks' = acks /\ srv' = srv
  BY <1>1 DEF outside, network
<1>9. Answers(i, a, C)
  BY <1>2, <1>3, <1>4, <1>5, <1>6, <1>8 DEF Answers
<1> QED
  BY <1>4, <1>7, <1>8, <1>9, AnswerStep

\* A claim is written to the session.
LEMMA ExposeSteps ==
  ASSUME ManagedInv, Expose
  PROVE  StepOK
<1>0. d \in Memories /\ JournalOK(j) /\ Steady(j) /\ LaunchFits
  BY DEF ManagedInv, TypesFit
<1>1. /\ DeliveryFits' /\ TypesFit' /\ ~j.out[d.hand.i].superseded
      /\ wire' = wire \cup {<<d.hand.i, TRUE>>}
  BY DeliveryExposed
<1>2. /\ j' = j /\ outside' = outside /\ srv' = srv
      /\ d'.step = d.step /\ d'.term = d.term /\ d'.interrupted = d.interrupted
  BY <1>0 DEF Expose, Memories
<1>3. LaunchFits'
  BY <1>0, <1>2, LaunchStays
<1>4. Told' = Told /\ launches' = launches
  BY <1>2, ToldSame DEF outside
<1>5. \A f \in wire' \ wire : ~j.out[f[1]].superseded
  <2>1. \A f \in wire' \ wire : f = <<d.hand.i, TRUE>>
    BY <1>1, Zenon
  <2>2. <<d.hand.i, TRUE>>[1] = d.hand.i
    OBVIOUS
  <2> QED
    BY <1>1, <2>1, <2>2
<1> QED
  BY <1>0, <1>1, <1>2, <1>3, <1>4, <1>5 DEF StepOK, ManagedInv

\* The drain takes up the next event, or parks.
LEMMA DrainSteps ==
  ASSUME ManagedInv, DrainClaim
  PROVE  StepOK
<1> DEFINE k == Expired(j)
<1>0. /\ d \in Memories /\ LaunchFits /\ JournalOK(j) /\ Steady(j) /\ TypesFit /\ d.clock \in Nat
      /\ {"done", "parked"} \subseteq Steps
  BY DEF ManagedInv, TypesFit, Memories, Steps
<1>1. /\ d.step = "closed" /\ d.interrupted = NoHand /\ d.hand = NoHand
      /\ outside' = outside /\ network' = network
  BY DEF DrainClaim, Journal, At
<1>2. /\ j.receipt = "exit" /\ j.phase = "closed" /\ launches' = launches /\ child' = child
      /\ boot' = boot /\ wire' = wire /\ acks' = acks /\ srv' = srv
  BY <1>0, <1>1 DEF LaunchFits, StepFits, JournalOK, RowOK, outside, network
<1>3. \/ j' = j /\ GoTo("done")
      \/ j' = Viewed(j, d.clock) /\ GoTo("parked")
      \/ j' = k /\ GoTo("parked")
      \/ /\ ClosedClaimable(k)
         /\ j' = ClaimEvent(k, ClosedTarget(k), d.clock)
         /\ d' = [d EXCEPT !.hand = [i |-> ClosedTarget(k),
                                     a |-> Len(j'.out[ClosedTarget(k)].attempts), st |-> "claimed"]]
  BY DEF DrainClaim
<1>4. ExpiredOK(j, k)
  BY <1>0, <1>2, ExpiredFollows
<1> HIDE DEF k
<1>5. ASSUME NEW s \in {"done", "parked"}, GoTo(s)
      PROVE  /\ d' \in Memories /\ d'.step = s /\ d'.hand = d.hand /\ d'.interrupted = d.interrupted
             /\ d'.obs = d.obs /\ d'.term = d.term
  BY <1>0, <1>5, GoToFacts
<1>6. ASSUME NEW s \in {"done", "parked"}, GoTo(s), j'.phase = j.phase,
             j'.receipt = j.receipt, j'.outcome = j.outcome
      PROVE  LaunchFits'
  BY <1>0, <1>1, <1>2, <1>5, <1>6 DEF LaunchFits, StepFits, ProcessFits, InterruptedFits
<1>7. CASE j' = j /\ GoTo("done")
  BY <1>6, <1>7, <1>1, <1>5, MemoryStep
<1>8. CASE j' = Viewed(j, d.clock) /\ GoTo("parked")
  <2>1. Turn(j, j', 0, 0, {})
    BY <1>0, <1>8, ViewedTurn
  <2>2. j'.out = j.out
    BY <1>0, <1>8 DEF Viewed, JournalOK, Journals
  <2>3. /\ JournalOK(j') /\ j'.phase = j.phase /\ j'.receipt = j.receipt /\ j'.outcome = j.outcome
        /\ (OnCourse(j') => OnCourse(j))
    BY <2>1 DEF Turn, Follows, Course
  <2>4. Steady(j') /\ Alike(j, j') /\ LaunchFits'
    BY <1>0, <1>6, <1>8, <2>2, <2>3, SteadySame, SameAlike
  <2>5. Rests /\ TypesFit'
    BY <1>0, <1>2, <1>5, <1>8 DEF Rests, TypesFit
  <2> QED
    BY <1>2, <2>3, <2>4, <2>5, QuietStep
<1>9. CASE j' = k /\ GoTo("parked")
  <2>1. /\ JournalOK(j') /\ ExpiredOK(j, j')
        /\ j'.phase = j.phase /\ j'.receipt = j.receipt /\ j'.outcome = j.outcome
        /\ \A n \in DOMAIN j.out : j'.out[n].role = j.out[n].role
    BY <1>4, <1>9 DEF ExpiredOK, Follows
  <2>2. Steady(j')
    BY <1>0, <2>1 DEF ExpiredOK, Steady
  <2>3. LaunchFits'
    BY <1>6, <1>9, <2>1
  <2>4. DeliveryFits'
    BY <1>1, <1>5, <1>9, <2>1, DeliveryExpired
  <2>5. TypesFit'
    BY <1>0, <1>2, <1>5, <1>9 DEF TypesFit
  <2> QED
    BY <1>2, <2>1, <2>2, <2>3, <2>4, <2>5, OutboxStep
<1>10. CASE /\ ClosedClaimable(k)
            /\ j' = ClaimEvent(k, ClosedTarget(k), d.clock)
            /\ d' = [d EXCEPT !.hand = [i |-> ClosedTarget(k),
                                        a |-> Len(j'.out[ClosedTarget(k)].attempts), st |-> "claimed"]]
  <2> DEFINE i == ClosedTarget(k)
             h == [i |-> i, a |-> Len(j'.out[i].attempts), st |-> "claimed"]
  <2>1. JournalOK(k) /\ Follows(j, k) /\ Steady(k) /\ k.phase = "closed"
    BY <1>0, <1>2, <1>4 DEF ExpiredOK, Steady, Follows
  <2>2. i \in Active(k) /\ ClaimOK(k, i, j') /\ Steady(j')
    BY <1>0, <1>10, <2>1, ClosedClaimIs
  <2>3. d' = [d EXCEPT !.hand = h]
    BY <1>10
  <2> HIDE DEF i
  <2>4. h \in Hands
    <3>1. i \in Nat
      BY <2>1, <2>2, Positions DEF Active
    <3>2. Len(j'.out[i].attempts) \in Nat
      BY <2>2, OutFacts DEF ClaimOK, Active, JournalOK
    <3> QED
      BY <3>1, <3>2 DEF Hands, HandStates
  <2> HIDE DEF h
  <2>5. /\ d' \in Memories /\ d'.step = d.step /\ d'.term = d.term /\ d'.hand = h
        /\ d'.interrupted = d.interrupted /\ d'.obs = d.obs
    BY <1>0, <2>3, <2>4 DEF Memories
  <2>6. DeliveryFits'
    BY <1>1, <1>4, <2>2, <2>5, DeliveryClaimed DEF h
  <2>7. JournalOK(j') /\ Follows(j, j')
    BY <1>4, <2>2, <1>0, <2>1, FollowsOn DEF ClaimOK, ExpiredOK, JournalOK
  <2>8. /\ j'.phase = j.phase /\ j'.receipt = j.receipt /\ j'.outcome = j.outcome
        /\ \A n \in DOMAIN j.out : j'.out[n].role = j.out[n].role
    BY <2>7 DEF Follows
  <2>9. LaunchFits'
    BY <1>0, <1>1, <2>5, <2>8, LaunchStays
  <2>10. TypesFit'
    BY <1>0, <1>2, <2>5 DEF TypesFit
  <2> QED
    BY <1>2, <2>2, <2>6, <2>7, <2>8, <2>9, <2>10, OutboxStep
<1> QED
  BY <1>3, <1>7, <1>8, <1>9, <1>10

\* The server takes a frame: if it ends the run, it is told what was decided,
\* or that it could not be delivered.
LEMMA IngestSteps ==
  ASSUME ManagedInv, NEW f \in wire, NEW s \in {"accepted", "rejected"}, ServerIngest(f, s)
  PROVE  StepOK
<1> DEFINE i == f[1]
           Ends == {"original_terminal", "correction_terminal"}
           said(n) == IF j.out[n].role = "original_terminal" THEN j.outcome ELSE "failed"
           o == said(i)
<1>0. /\ JournalOK(j) /\ Steady(j) /\ LaunchFits /\ i \in DOMAIN j.out /\ j.out[i] \in Events
  BY OutFacts DEF ManagedInv, DeliveryFits, NetworkFits, JournalOK
<1>1. /\ j' = j /\ d' = d /\ outside' = outside /\ wire' = wire \ {f}
      /\ srv' = IF s = "accepted" THEN srv \cup {i} ELSE srv
  BY DEF ServerIngest
<1>2. DeliveryFits' /\ TypesFit'
  BY DeliveryIngested
<1>3. LaunchFits' /\ launches' = launches
  BY <1>0, <1>1, LaunchStays DEF outside
<1>4. ManagedInv'
  BY <1>0, <1>1, <1>2, <1>3 DEF ManagedInv
<1>5. Told = {said(n) : n \in {x \in srv : j.out[x].role \in Ends}}
  BY DEF Told
<1>6. Told' = {said(n) : n \in {x \in srv' : j.out[x].role \in Ends}}
  BY <1>1 DEF Told
<1>7. CASE s = "accepted" /\ j.out[i].role \in Ends
  <2>1. Told' = Told \cup {o}
    <3>1. srv' = srv \cup {i}
      BY <1>1, <1>7
    <3> HIDE DEF said, Ends
    <3>2. {x \in srv' : j.out[x].role \in Ends} = {x \in srv : j.out[x].role \in Ends} \cup {i}
      BY <1>7, <3>1
    <3> QED
      BY <1>5, <1>6, <3>2
  <2>2. o = j.outcome \/ (o = "failed" /\ j.outcome = "completed")
    <3>1. CASE j.out[i].role = "original_terminal"
      BY <3>1
    <3>2. CASE j.out[i].role = "correction_terminal"
      <4>1. /\ ~(i <= Live(j)) /\ i # Live(j) + 1 /\ i # Live(j) + 2
            /\ Live(j) \in Nat /\ Len(j.out) \in Nat /\ i \in 1..Len(j.out)
        BY <1>0, <3>2, Positions
      <4>2. Len(j.out) > Live(j) + 2
        BY <4>1
      <4>3. /\ j.outcome = "none" => Len(j.out) = Live(j)
            /\ j.outcome # "none" /\ ~j.corrected => Len(j.out) = Live(j) + 2
            /\ j.corrected => j.outcome = "completed"
        BY <1>0, Positions
      <4>4. j.corrected
        BY <4>1, <4>2, <4>3
      <4> QED
        BY <3>2, <4>3, <4>4
    <3> QED
      BY <1>7, <3>1, <3>2
  <2>3. o \in Results
    <3>1. o # "none"
      BY <1>0, Positions
    <3>2. j.outcome \in Results \cup {"none"}
      BY <1>0 DEF JournalOK, Journals
    <3> QED
      BY <2>2, <3>1, <3>2 DEF Results
  <2>4. Promise!Tell(o)
    BY <1>1, <1>3, <2>1, <2>2 DEF Promise!Tell
  <2>5. Promise!PromiseNext
    BY <2>3, <2>4 DEF Promise!PromiseNext, Results
  <2> QED
    BY <1>1, <1>4, <2>5 DEF StepOK
<1>8. CASE ~(s = "accepted" /\ j.out[i].role \in Ends)
  <2>1. Told' = Told
    <3>1. {x \in srv' : j.out[x].role \in Ends} = {x \in srv : j.out[x].role \in Ends}
      BY <1>1, <1>8
    <3> HIDE DEF said, Ends
    <3> QED
      BY <1>5, <1>6, <3>1
  <2> QED
    BY <1>1, <1>3, <1>4, <2>1 DEF StepOK
<1> QED
  BY <1>7, <1>8

-------------------------------------------------------------------------------
(* The theorems *)

\* A daemon and a journal that know of no run.
LEMMA ManagedStart ==
  ASSUME ManagedInit
  PROVE  ManagedInv /\ Promise!PromiseInit
<1>1. /\ j = EmptyJournal /\ boot = 1 /\ d = NewDaemon(1, 1) /\ child = "none" /\ launches = 0
      /\ wire = {} /\ acks = {} /\ srv = {}
  BY DEF ManagedInit
<1>2. /\ j.phase = "none" /\ j.receipt = "none" /\ j.outcome = "none" /\ j.out = <<>>
      /\ j.corrected = FALSE /\ j.abort = FALSE
  BY <1>1 DEF EmptyJournal
<1>3. j \in Journals
  BY <1>1 DEF EmptyJournal, Journals, Phases, Results
<1>4. Len(j.out) = 0 /\ DOMAIN j.out = {}
  BY <1>2
<1>5. RowOK(j)
  BY <1>2 DEF RowOK
<1>6. OutboxOK(j)
  BY <1>2, <1>4, ManagedAssumption DEF Live, OutboxOK
<1>7. Steady(j)
  BY <1>4 DEF Steady, Active
<1>8. /\ d \in Memories /\ d.step = "idle" /\ d.hand = NoHand /\ d.interrupted = NoHand /\ d.obs = {}
  BY <1>1, NewDaemonFacts
<1>9. TypesFit
  BY <1>1, <1>8 DEF TypesFit
<1>10. LaunchFits
  BY <1>1, <1>2, <1>8 DEF LaunchFits, StepFits, ProcessFits, InterruptedFits
<1>11. DeliveryFits
  BY <1>1, <1>4, <1>8, NoHandFacts DEF DeliveryFits, HandsFit, ClaimFits, NetworkFits
<1>12. Promise!PromiseInit
  BY <1>1, <1>2 DEF Told, Promise!PromiseInit
<1> QED
  BY <1>3, <1>5, <1>6, <1>7, <1>9, <1>10, <1>11, <1>12 DEF ManagedInv, JournalOK

\* Every step of the daemon, its computer, the network and the server.
LEMMA ManagedStep ==
  ASSUME ManagedInv, [ManagedNext]_managedVars
  PROVE  StepOK
<1>1. CASE \/ RunStart \/ Advance("admitted", "preparing") \/ Advance("preparing", "launch_intent")
           \/ RecordStarted
  BY <1>1, RowSteps
<1>2. CASE \/ StartFails \/ LastLookup \/ RecordFails \/ StreamFails \/ Cancelled \/ Resume
           \/ \E o \in {"completed", "failed", "cancelled"} : TerminalSeen(o)
           \/ \E r \in {"settling", "failing"} : StopChild("stopping", r)
           \/ \E r \in {"settling", "lost"} : StopChild("aborting", r)
  BY <1>2, MovingSteps, ProcessSteps DEF Results
<1>3. CASE \E r \in {"handle", "startup_error", "lost"} : Spawn(r)
  BY <1>3, SpawnSteps
<1>4. CASE AppendLive \/ LiveClaim \/ HandleFailure \/ JournalStop
  BY <1>4, AppendSteps, LiveClaimSteps, FailureStep, JournalStopStep
<1>5. CASE Settle("settling", "returned_handle") \/ Settle("startup_error", "startup_error")
  BY <1>5, SettleSteps
<1>6. CASE \E o \in d.obs, s \in {"accepted", "rejected"} : OnReceipt(o[1], o[2], s)
  BY <1>6, ReceiptSteps
<1>7. CASE UserStop \/ Reconnect \/ GraceExpires \/ JournalFails \/ Retry
  BY <1>7, StayingSteps
<1>8. CASE \/ LoseSession \/ Crash \/ ChildExits
           \/ \E reboot, readable \in BOOLEAN : Restart(reboot, readable)
  BY <1>8, OutageSteps, ProcessSteps
<1>9. CASE \E f \in wire, s \in {"accepted", "rejected"} : ServerIngest(f, s)
  BY <1>9, IngestSteps
<1>10. CASE DrainInterrupted \/ DrainClaim \/ Expose \/ AttemptFails \/ AttemptTimesOut
  BY <1>10, InterruptedSteps, DrainSteps, ExposeSteps, AttemptSteps
<1>11. CASE \E i \in 1..MaxEvents : DeadlinePasses(i)
  BY <1>11, DeadlineSteps
<1>12. CASE UNCHANGED managedVars
  BY <1>12, StillStep DEF ManagedInv, TypesFit, managedVars, outside, network
<1> QED
  BY <1>1, <1>2, <1>3, <1>4, <1>5, <1>6, <1>7, <1>8, <1>9, <1>10, <1>11, <1>12
  DEF ManagedNext, DrainNext

\* What the invariant says of the server.
LEMMA InvServer ==
  ASSUME ManagedInv
  PROVE  ServerFollowsJournal
<1>0. /\ JournalOK(j) /\ j \in Journals /\ TypesFit /\ LaunchFits /\ HandsFit /\ NetworkFits
      /\ Live(j) \in 0..MaxLive /\ MaxLive \in Nat
  BY ManagedAssumption DEF ManagedInv, DeliveryFits, JournalOK, OutboxOK
<1>1. DOMAIN j.out \subseteq 1..MaxEvents
  BY <1>0, Positions DEF MaxEvents
<1>2. ManagedTypeOK
  <2>1. j.phase \in {"none", "admitted", "preparing", "launch_intent", "started", "closed"}
        /\ j.receipt \in {"none", "accepted", "fenced", "exit"}
    BY <1>0 DEF Journals, Phases
  <2>2. \A i \in DOMAIN j.out : Len(j.out[i].attempts) <= MaxAttempts
    BY <1>0 DEF JournalOK, OutboxOK, EventOK
  <2>3. child \in {"none", "running", "exited"} /\ launches \in Nat
    BY <1>0 DEF LaunchFits, ProcessFits
  <2>4. {f[1] : f \in wire} \cup srv \cup {o[1] : o \in d.obs} \subseteq DOMAIN j.out
    BY <1>0 DEF NetworkFits, HandsFit, AttemptKnown
  <2> QED
    BY <1>1, <2>1, <2>2, <2>3, <2>4 DEF ManagedTypeOK
<1>3. ProcessIsJournalled
  BY <1>0 DEF LaunchFits, ProcessFits, ProcessIsJournalled
<1>4. JournalMatchesServer
  BY <1>0 DEF NetworkFits, JournalMatchesServer
<1>5. CompletedAfterRetention
  <2> SUFFICES ASSUME NEW i \in srv \cup {f[1] : f \in wire},
                      j.out[i].role = "original_terminal", j.outcome = "completed"
               PROVE  \E k \in srv : j.out[k].role = "original_retention"
    BY DEF CompletedAfterRetention
  <2> DEFINE k == Live(j) + 1
  <2>1. i \in DOMAIN j.out /\ j.out[i].attempts # <<>>
    BY <1>0 DEF NetworkFits
  <2>2. /\ i = Live(j) + 2 /\ Live(j) \in Nat /\ Len(j.out) \in Nat
        /\ DOMAIN j.out = 1..Len(j.out)
    BY <1>0, <2>1, Positions
  <2>3. k \in DOMAIN j.out
    BY <2>1, <2>2
  <2>4. j.out[k].role = "original_retention"
    BY <1>0, <2>3, Positions
  <2>5. j.out[k].committed
    BY <1>0, <2>1, <2>2 DEF JournalOK, OutboxOK
  <2>6. k \in srv
    BY <1>0, <2>3, <2>5 DEF NetworkFits
  <2> QED
    BY <2>4, <2>6
<1> QED
  BY <1>2, <1>3, <1>4, <1>5 DEF ServerFollowsJournal

\* The journal goes first in all that reaches the server and in all that is known
\* of the process, whatever crashes, sessions lost, storage errors, late receipts
\* and passed windows come between (journal-worker.ts, managed-delivery.ts,
\* node-client.ts executePhysicalStart): a process runs only under a kept intent
\* and none after its confirmed exit; a frame on its way was claimed; delivered
\* means accepted; completed is told after its retention.
THEOREM JournalLeads == ManagedSpec => []ServerFollowsJournal
<1>1. ManagedInit => ManagedInv
  BY ManagedStart
<1>2. ManagedInv /\ [ManagedNext]_managedVars => ManagedInv'
  BY ManagedStep DEF StepOK
<1>3. ManagedInv => ServerFollowsJournal
  BY InvServer
<1> QED
  BY <1>1, <1>2, <1>3, PTL DEF ManagedSpec

\* The daemon implements RunPromise: at most one process for a run, none once it
\* is fenced, one decision, and the server is told that decision or that a
\* completed run could not be delivered (node-client.ts, journal-worker.ts).
THEOREM PromiseKept == ManagedSpec => KeepsPromise
<1>1. ManagedInit => ManagedInv /\ Promise!PromiseInit
  BY ManagedStart
<1>2. ManagedInv /\ [ManagedNext]_managedVars =>
        ManagedInv' /\ [Promise!PromiseNext]_(Promise!promiseVars)
  BY ManagedStep DEF StepOK, Promise!promiseVars
<1> QED
  BY <1>1, <1>2, PTL DEF ManagedSpec, KeepsPromise, Promise!PromiseSpec

\* No frame of an outcome that was replaced is sent on the present session
\* (journal-worker.ts createCorrection, managed-delivery.ts expose).
THEOREM NothingRecalled == ManagedSpec => NoRecall
<1> DEFINE Wanted == \A f \in wire' \ wire : f[2] => ~j.out[f[1]].superseded
<1>1. ManagedInit => ManagedInv
  BY ManagedStart
<1>2. ManagedInv /\ [ManagedNext]_managedVars => ManagedInv' /\ [Wanted]_managedVars
  BY ManagedStep DEF StepOK
<1> QED
  BY <1>1, <1>2, PTL DEF ManagedSpec, NoRecall

=============================================================================
