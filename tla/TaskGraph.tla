------------------------------ MODULE TaskGraph ------------------------------
(***************************************************************************)
(* Dependencies between tasks: dag-service.ts with the pure functions of   *)
(* packages/domain/src/dag.ts.  Users create tasks, add and remove edges   *)
(* in any state of their ends, and mark tasks ready; work on other tasks   *)
(* goes on meanwhile.  A step is a transaction of the server.              *)
(*                                                                         *)
(* The life of a task is reduced to what the graph asks of it: "open"      *)
(* stands for every status between backlog and the terminal ones           *)
(* (RunStore has them all).  None of these returns to the backlog.         *)
(***************************************************************************)
EXTENDS FiniteSets, Integers

CONSTANTS Tasks,       \* tasks that may be created
          ProjectOf,   \* the project a task is created in
          EdgeTypes,   \* the dependency types in use
          MaxEdges     \* bound: edges at a time

AllEdgeTypes == {"blocks", "artifact_required", "contract_required",
                 "review_required", "soft_context"}

ASSUME GraphAssumption ==
  EdgeTypes \subseteq AllEdgeTypes /\ MaxEdges \in Nat /\ IsFiniteSet(Tasks)

VARIABLES status,      \* "none", "backlog", "open", "done" or "cancelled"
          criteria,    \* tasks with acceptance criteria
          edges,       \* records [from, to, type]: to depends on from
          evidence,    \* evidence[t]: kinds of artifacts t has produced
          gate,        \* ghost: the gating edges of a task when it left the backlog
          touched      \* ghost: backlog tasks whose gate an edit of edges opened

graphVars == <<status, criteria, edges, evidence, gate, touched>>

GraphInit ==
  /\ status = [t \in Tasks |-> "none"]
  /\ criteria = {}
  /\ edges = {}
  /\ evidence = [t \in Tasks |-> {}]
  /\ gate = [t \in Tasks |-> {}]
  /\ touched = {}

----------------------------------------------------------------------------
(* domain/dag.ts *)

IsGatingDependency(type) == type # "soft_context"

RequiredEvidenceKind(type) ==
  {kind \in {"artifact", "contract"} :
     \/ kind = "artifact" /\ type = "artifact_required"
     \/ kind = "contract" /\ type = "contract_required"}

Incoming(t, E) == {e \in E : e.to = t}
Gating(t, E) == {e \in Incoming(t, E) : IsGatingDependency(e.type)}

\* The tasks a depth-first search visits from `t`: `t`, and with a task those its
\* edges lead to.
Reached(t, E) ==
  LET closed(S) == \A e \in E : e.from \in S => e.to \in S
  IN  {u \in Tasks : \A S \in SUBSET Tasks : t \in S /\ closed(S) => u \in S}

\* Mutant: the search starts at the wrong end of the new edge.
MutWouldCreateCycle(E, from, to) == from = to \/ to \in Reached(from, E)

WouldCreateCycle(E, from, to) == from = to \/ from \in Reached(to, E)

\* isDependentSatisfied: isTaskUnlocked and hasRequiredEvidence.
Satisfied(incoming, st) ==
  \A e \in {x \in incoming : IsGatingDependency(x.type)} :
    /\ st[e.from] = "done"
    /\ RequiredEvidenceKind(e.type) \subseteq evidence[e.from]

----------------------------------------------------------------------------
(* Transactions *)

\* createTask; criteria are fixed at creation.
CreateTask(t, withCriteria) ==
  /\ status[t] = "none"
  /\ status' = [status EXCEPT ![t] = "backlog"]
  /\ criteria' = IF withCriteria THEN criteria \cup {t} ELSE criteria
  /\ UNCHANGED <<edges, evidence, gate, touched>>

\* Backlog tasks that wait for nothing any more under the edges E.
WaitingForNothing(E) ==
  {t \in criteria : /\ status[t] = "backlog"
                    /\ Gating(t, E) # {}
                    /\ Satisfied(Incoming(t, E), status)}

EdgesChange(E) ==
  /\ edges' = E
  /\ touched' = WaitingForNothing(E) \cap
                  (touched \cup (Tasks \ WaitingForNothing(edges)))
  /\ UNCHANGED <<status, criteria, evidence, gate>>

\* createDependency.  The status of neither end matters.
CreateDependency(from, to, type) ==
  /\ from # to
  /\ status[from] # "none" /\ status[to] # "none"
  /\ ProjectOf[from] = ProjectOf[to]
  /\ ~WouldCreateCycle(edges, from, to)
  /\ [from |-> from, to |-> to, type |-> type] \notin edges
  /\ Cardinality(edges) < MaxEdges
  /\ EdgesChange(edges \cup {[from |-> from, to |-> to, type |-> type]})

\* deleteDependency: the dependent is not unlocked.
DeleteDependency(e) == e \in edges /\ EdgesChange(edges \ {e})

OpenedBy(T, st) ==
  /\ gate' = [t \in Tasks |-> IF t \in T THEN Gating(t, edges) ELSE gate[t]]
  /\ touched' = {t \in touched : st[t] = "backlog"}

\* markReady.
Ready(t) ==
  /\ t \in criteria
  /\ Satisfied(Incoming(t, edges), status)
  /\ status[t] = "backlog"
  /\ status' = [status EXCEPT ![t] = "open"]
  /\ OpenedBy({t}, status')
  /\ UNCHANGED <<criteria, edges, evidence>>

\* unlockDownstream, inside the transaction that made `t` done; `st` is read
\* after that change.
UnlockDownstream(t, st) ==
  {d \in criteria :
     /\ \E e \in Gating(d, edges) : e.from = t
     /\ st[d] = "backlog"
     /\ Satisfied(Incoming(d, edges), st)}

\* reviewTask accepts the work of a task and unlocks its dependents.
Accept(t) ==
  /\ status[t] = "open"
  /\ LET done == [status EXCEPT ![t] = "done"]
         freed == UnlockDownstream(t, done)
     IN  /\ status' = [d \in Tasks |-> IF d \in freed THEN "open" ELSE done[d]]
         /\ OpenedBy(freed, status')
  /\ UNCHANGED <<criteria, edges, evidence>>

\* A goal or a plan retires a task.  propagateBlocked only tells the
\* dependents: they stay where they are.
Retire(t) ==
  /\ status[t] \in {"backlog", "open"}
  /\ status' = [status EXCEPT ![t] = "cancelled"]
  /\ OpenedBy({}, status')
  /\ UNCHANGED <<criteria, edges, evidence>>

\* An artifact of an active run is stored: a file, or a contract.
StoreArtifact(t, kinds) ==
  /\ status[t] = "open"
  /\ evidence' = [evidence EXCEPT ![t] = @ \cup kinds]
  /\ UNCHANGED <<status, criteria, edges, gate, touched>>

GraphNext ==
  \/ \E t \in Tasks, b \in BOOLEAN : CreateTask(t, b)
  \/ \E a, b \in Tasks, type \in EdgeTypes : CreateDependency(a, b, type)
  \/ \E e \in edges : DeleteDependency(e)
  \/ \E t \in Tasks : Ready(t) \/ Accept(t) \/ Retire(t)
  \/ \E t \in Tasks, kinds \in {{"artifact"}, {"artifact", "contract"}} :
       StoreArtifact(t, kinds)

GraphSpec == GraphInit /\ [][GraphNext]_graphVars

----------------------------------------------------------------------------
(* Properties *)

\* The tasks can be put in an order that every edge follows, soft ones included.
Acyclic ==
  \E place \in [Tasks -> 1 .. Cardinality(Tasks)] :
    \A e \in edges : place[e.from] < place[e.to]

\* Whatever a task waits for, somebody can act: one of the tasks before it
\* is not done and waits for nothing.
WaitsEnd ==
  \A e \in {x \in edges : IsGatingDependency(x.type)} :
    status[e.from] # "done" =>
      \E t \in Tasks : /\ e.from \in Reached(t, edges)
                       /\ status[t] # "done"
                       /\ \A g \in Gating(t, edges) : status[g.from] = "done"

\* A task that left the backlog had all its prerequisites done and their
\* evidence there, and keeps them so.
OpenedWithReason ==
  \A t \in Tasks : \A e \in gate[t] :
    /\ status[e.from] = "done"
    /\ e.type = "artifact_required" => "artifact" \in evidence[e.from]
    /\ e.type = "contract_required" => "contract" \in evidence[e.from]

\* A task whose last prerequisite became done is not left in the backlog:
\* only an edit of edges leaves one there that waits for nothing.
NoneForgotten == WaitingForNothing(edges) \subseteq touched

\* However edges are edited while tasks are created, readied, accepted and
\* retired (dag-service.ts), the graph has no cycle, no waiting is circular,
\* no gate opens early and none stays shut after the last acceptance.
GraphSound == Acyclic /\ WaitsEnd /\ OpenedWithReason /\ NoneForgotten
=============================================================================
