---------------------------- MODULE NodeSupervisor ----------------------------
(***************************************************************************)
(* packages/node-supervisor: the supervisor that keeps one artood process  *)
(* running without the desktop application (supervisor.ts), driven by the  *)
(* state machine of state-machine.ts.                                      *)
(*                                                                         *)
(* Its owner starts and stops it and calls tick from a timer; between them *)
(* processes beat and end, promises of ended processes are continued, and  *)
(* the timers of a back-off or a kill grace fire, in any order.  A         *)
(* heartbeat is the server's row for the node: it does not say which       *)
(* process sent it, and stays fresh for a while after that process ended.  *)
(* Listeners that call back into the supervisor are left out: the code has *)
(* none outside its tests.                                                 *)
(***************************************************************************)
EXTENDS Integers

CONSTANTS MaxAuto,       \* policy.maxRestarts
          MaxDaemons,    \* bound: processes spawned
          MaxCommands    \* bound: calls of start and stop that take effect

ASSUME SupAssumption == MaxAuto \in Nat /\ MaxDaemons \in Nat /\ MaxCommands \in Nat

VARIABLES node,      \* state, restarts, stopRequested, generation, child (0: null)
          daemon,    \* processes: unborn, alive, ended (its promise not continued), gone
          backoff,   \* generations captured by restarts that are scheduled
          grace,     \* processes a scheduled SIGKILL is for
          beat,      \* the process whose heartbeat is fresh, 0 when none is
          intent     \* ghosts: wanted, and the processes tried since the last start
                     \*   or healthy sample

supVars == <<node, daemon, backoff, grace, beat, intent>>

Daemons == 1..MaxDaemons

SupInit ==
  /\ node = [state |-> "stopped", restarts |-> 0, stopRequested |-> FALSE,
             generation |-> 0, child |-> 0]
  /\ daemon = [p \in Daemons |-> "unborn"]
  /\ backoff = {} /\ grace = {} /\ beat = 0
  /\ intent = [wanted |-> FALSE, tried |-> 0]

\* nextSupervisorState, without startFailed, which no caller sends.
NextState(s, event) ==
  CASE event = "start" /\ s = "stopped" -> "starting"
    [] event = "ready" /\ s = "starting" -> "running"
    [] event = "healthy" /\ s \in {"running", "unhealthy"} -> "running"
    [] event = "unhealthy" /\ s \in {"running", "unhealthy"} -> "unhealthy"
    [] event = "stop" /\ s \in {"starting", "running", "unhealthy"} -> "stopping"
    [] event = "exited" -> "stopped"
    [] OTHER -> s

\* spawnNode, from a state n of the supervisor.
SpawnNode(n) ==
  \E p \in Daemons :
    /\ daemon[p] = "unborn" /\ \A q \in 1..(p - 1) : daemon[q] # "unborn"
    /\ daemon' = [daemon EXCEPT ![p] = "alive"]
    /\ node' = [n EXCEPT !.stopRequested = FALSE, !.child = p,
                         !.state = NextState(@, "start")]

StartNode ==
  /\ node.state = "stopped" /\ node.generation < MaxCommands
  /\ SpawnNode([node EXCEPT !.generation = @ + 1, !.restarts = 0])
  /\ intent' = [wanted |-> TRUE, tried |-> 1]
  /\ UNCHANGED <<backoff, grace, beat>>

\* stop(): it also makes a scheduled restart void, when nothing runs.
StopNode ==
  /\ node.generation < MaxCommands
  /\ node' = [node EXCEPT !.generation = @ + 1,
                !.stopRequested = @ \/ node.state # "stopped",
                !.state = NextState(@, "stop")]
  /\ grace' = IF node.state = "stopped" THEN grace ELSE grace \cup {node.child}
  /\ intent' = [intent EXCEPT !.wanted = FALSE]
  /\ UNCHANGED <<daemon, backoff, beat>>

\* The SIGKILL of a stop, if the process it is for still has to go.
FireGrace(p) ==
  /\ p \in grace /\ grace' = grace \ {p}
  /\ daemon' = IF node.state = "stopping" /\ node.child = p /\ daemon[p] = "alive"
               THEN [daemon EXCEPT ![p] = "ended"] ELSE daemon
  /\ UNCHANGED <<node, backoff, beat, intent>>

\* A process ends: a crash, SIGTERM obeyed, or a binary that could not be run.
DaemonEnds(p) ==
  /\ daemon[p] = "alive"
  /\ daemon' = [daemon EXCEPT ![p] = "ended"]
  /\ UNCHANGED <<node, backoff, grace, beat, intent>>

\* The continuation of its promise: isCrash on the state before, then the
\* transition, and maybeRestart after a crash.
ExitedNode(p) ==
  LET crashed == ~node.stopRequested /\ node.state \notin {"stopping", "stopped"}
      again == crashed /\ node.restarts < MaxAuto
  IN  /\ daemon[p] = "ended"
      /\ daemon' = [daemon EXCEPT ![p] = "gone"]
      /\ node' = [node EXCEPT !.child = IF @ = p THEN 0 ELSE @,
                    !.state = NextState(@, "exited"),
                    !.restarts = IF again THEN @ + 1 ELSE @]
      /\ backoff' = IF again THEN backoff \cup {node.generation} ELSE backoff
      /\ UNCHANGED <<grace, beat, intent>>

\* Mutant: the timer does not ask whether anybody stopped the node meanwhile.
MutFireBackoff(g) ==
  /\ g \in backoff /\ backoff' = backoff \ {g}
  /\ IF node.state = "stopped"
       THEN SpawnNode(node) /\ intent' = [intent EXCEPT !.tried = @ + 1]
       ELSE UNCHANGED <<node, daemon, intent>>
  /\ UNCHANGED <<grace, beat>>

\* The timer of a restart: void after any start or stop.
FireBackoff(g) ==
  /\ g \in backoff /\ backoff' = backoff \ {g}
  /\ IF node.generation = g /\ node.state = "stopped"
       THEN SpawnNode(node) /\ intent' = [intent EXCEPT !.tried = @ + 1]
       ELSE UNCHANGED <<node, daemon, intent>>
  /\ UNCHANGED <<grace, beat>>

Beats(p) ==
  /\ daemon[p] = "alive" /\ beat' = p
  /\ UNCHANGED <<node, daemon, backoff, grace, intent>>

BeatAges ==
  /\ beat # 0 /\ beat' = 0
  /\ UNCHANGED <<node, daemon, backoff, grace, intent>>

\* tick(): a fresh heartbeat, whosever it is, clears the restart budget.
TickNode ==
  LET healthy == beat # 0
  IN  /\ node.state \notin {"stopped", "stopping"}
      /\ node' = [node EXCEPT !.restarts = IF healthy THEN 0 ELSE @,
                    !.state = IF @ = "starting"
                              THEN IF healthy THEN NextState(@, "ready") ELSE @
                              ELSE NextState(@, IF healthy THEN "healthy" ELSE "unhealthy")]
      /\ intent' = [intent EXCEPT !.tried = IF healthy THEN 0 ELSE @]
      /\ UNCHANGED <<daemon, backoff, grace, beat>>

SupNext ==
  \/ StartNode \/ StopNode \/ BeatAges \/ TickNode
  \/ \E p \in Daemons : FireGrace(p) \/ DaemonEnds(p) \/ ExitedNode(p) \/ Beats(p)
  \/ \E g \in backoff : FireBackoff(g)

SupSpec == SupInit /\ [][SupNext]_supVars

-------------------------------------------------------------------------------
(* Properties *)

\* Two daemons would take each other's place at the server: there is one, the
\* supervisor holds its handle, and "stopped" means there is none.
OneDaemon ==
  \A p \in Daemons : daemon[p] = "alive" => node.child = p /\ node.state # "stopped"

\* After a stop nothing runs for long and nothing comes back, whatever timer
\* was scheduled before it.
StopStays ==
  ~intent.wanted => node.state \in {"stopped", "stopping"} /\ node.generation \notin backoff

\* A node that is never seen healthy is tried a bounded number of times.
RestartsBounded == intent.tried <= MaxAuto + 1

\* Starts, stops, crashes, late timers and heartbeats of earlier processes in
\* any order (supervisor.ts): one process at a time, a stop that stays, and no
\* endless restarts of a node that never becomes healthy.
SupervisorHolds == OneDaemon /\ StopStays /\ RestartsBounded
===============================================================================
